\* A reversal whose worker may die, next to a purge, its dry run or a deduplication.
CONSTANTS
    Tracks <- MCTracks
    KeyOf <- MCKeyOf
    Banned = {"b"}
    StartList <- MCStartList
    Runs = {"t1", "r2"}
    KindsOf <- ToolAndAnother
    Crashable = {"t1"}
    PageSize = 2
    Chunk = 2
    MaxTries = 2
    MaxDeliveries = 2
    MaxEdits = 1
SPECIFICATION Spec
CHECK_DEADLOCK FALSE
INVARIANTS
    TypeOK
    Restorable
    SuccessMeansDone
