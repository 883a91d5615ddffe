\* The foreign key of audio_features, without any fault: nothing is recorded.
SPECIFICATION BuildSpec
CONSTANTS
    t1 = t1
    t2 = t2
    t3 = t3
    loc = loc
    NoItem = NoItem
    Tracks <- TracksV
    Local = {loc}
    ArtistOf <- ArtistV
    SortKey <- KeyV
    Jobs <- JobsV
    Invalid <- InvalidV
    Fits = {t1, t3}
    Catalogue = {t1, t2}
    Described = {t1, t2, t3}
    Recent = {t1}
    Chunk = 2
    ChunkSize = 3
    Size = 2
    MinStreams = 2
    MaxFaults = 0
INVARIANT
    ExceptionsRecorded
