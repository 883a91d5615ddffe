\* Two exports of two files in batches of two, delivered up to three times.
CONSTANTS
    Workers = {w1, w2}
    Entries <- MCEntries
    Exports <- MCExports
    Prior <- MCPrior
    NoUri = "none"
    BATCH = 2
    MaxRedeliveries = 2
    MaxFaults = 1
SPECIFICATION FairSpec
INVARIANTS
    TypeOK
    SucceededIsComplete
    CountersTrue
    StoredPerDelivery
PROPERTIES
    UploadEnds
