\* Every tool on sources with repetitions, a gap and a local file, longer than two requests; two faults.
SPECIFICATION BuildFairSpec
CONSTANTS
    t1 = t1
    t2 = t2
    t3 = t3
    loc = loc
    NoItem = NoItem
    Tracks <- TracksV
    Local = {loc}
    ArtistOf <- ArtistV
    SortKey <- KeyV
    Jobs <- JobsV
    Invalid <- InvalidV
    Fits = {t1, t3}
    Catalogue = {t1, t2}
    Described = {t1, t2, t3}
    Recent = {t1}
    Chunk = 2
    ChunkSize = 3
    Size = 2
    MinStreams = 2
    MaxFaults = 2
INVARIANTS
    BuildTypeOK
    DoneMeansDone
    PlansRight
    BackupsSound
PROPERTY
    RunRecorded
