\* One purge whose worker dies between the removal and the commit.
CONSTANTS
    Tracks <- MCTracks
    KeyOf <- MCKeyOf
    Banned = {"b"}
    StartList <- MCStartList
    Runs = {"p1"}
    KindsOf <- Purge
    Crashable = {"p1"}
    PageSize = 2
    Chunk = 2
    MaxTries = 2
    MaxDeliveries = 2
    MaxEdits = 0
SPECIFICATION Spec
CHECK_DEADLOCK FALSE
INVARIANTS
    PurgeReversible
