\* A tick and a sweep over two jobs, one of them of an owner without a link;
\* one fault, one edit.
CONSTANTS
    Jobs = {"weekly", "radar"}
    Ticks = {"tick"}
    Sweeps = {"sweep"}
    Runs = {1, 2}
    Horizon = 2
    SweepLimit = 1
    Settings <- MCSettings
    Linked = {"weekly"}
    MaxEdits = 1
    MaxFaults = 1
SPECIFICATION FairSpec
INVARIANTS
    TypeOK
    OncePerDue
    QueuedIsPending
PROPERTIES
    BaseForward
    EveryDueHandled
CHECK_DEADLOCK FALSE
