\* One user, who plays nothing, turns the guard on and off; refreshes and ticks overlap; one
\* execution may die.
CONSTANTS
    Users = {u1}
    Dormant = {u1}
    Workers = {w1, w2}
    Refreshers = {f1, f2}
    MaxActive = 1
    MaxToggles = 3
    MaxChains = 7
    MaxCrashes = 1
SPECIFICATION RosterFairSpec
INVARIANTS
    AliveUnlessDied
PROPERTIES
    StopsWhenDisabled
    RunsWhileEnabled
