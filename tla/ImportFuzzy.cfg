\* One poll's row 80 s before the time the export gives the same play.
CONSTANTS
    Workers = {w1}
    Entries <- FuzzyEntries
    Exports <- FuzzyExports
    Prior <- FuzzyPrior
    NoUri = "none"
    BATCH = 2
    MaxRedeliveries = 0
    MaxFaults = 0
SPECIFICATION Spec
INVARIANT FuzzyChecked
