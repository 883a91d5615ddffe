\* The deadline: an ordinary caller and the skip guard, Retry-After headers of two
\* lengths, requests that are tried twice.
CONSTANTS
    Callers = {c1, g}
    Priority = {g}
    Capacity = 2
    Cost = 1
    Ttl = 3
    MaxDelay = 1
    RetryAfters = {1, 2}
    MaxAttempts = 2
    MaxTime = 3
SPECIFICATION LimiterSpec
PROPERTIES
    EveryCallerPauses
