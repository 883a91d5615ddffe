\* One listener whose history outgrows the feed, two polls in flight at once, an
\* export that overlaps the polled plays, fair scheduling; the account may be deleted
\* under all of it, and then nothing more happens.
CONSTANTS
    Users = {u1}
    Workers = {w1, w2}
    MaxPlays = 3
    Window = 2
    Tracks <- MCTracks
    Hours <- MCHours
    TrackOf <- MCTrackOf
    HourOf <- MCHourOf
    KnownTracks = {"t1"}
    Exported <- MCExported
    MayLeave = {u1}
SPECIFICATION FairSpec
CHECK_DEADLOCK FALSE
INVARIANTS
    NoGap
    RollupBounds
    NothingLeftOfDeleted
PROPERTIES
    EveryPlayLogged
    ImplementsHistory
