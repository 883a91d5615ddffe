\* A user who plays nothing turns the guard on and leaves it on; nothing dies.
CONSTANTS
    Users = {u1}
    Dormant = {u1}
    Workers = {w1}
    Refreshers = {f1}
    MaxActive = 1
    MaxToggles = 1
    MaxChains = 3
    MaxCrashes = 0
SPECIFICATION RosterFairSpec
PROPERTIES
    StopsWhenIdle
