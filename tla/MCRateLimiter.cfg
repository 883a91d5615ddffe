\* Two ordinary callers and the skip guard, whose scripts may run out of order; the
\* bucket holds two tokens of two units; Retry-After headers of two lengths.
CONSTANTS
    Callers = {c1, c2, g}
    Priority = {g}
    Capacity = 4
    Cost = 2
    Ttl = 5
    MaxDelay = 1
    RetryAfters = {1, 2}
    MaxAttempts = 2
    MaxTime = 5
SYMMETRY Symmetry
SPECIFICATION MCSpec
INVARIANTS
    WindowBudget
    OneLateRequest
