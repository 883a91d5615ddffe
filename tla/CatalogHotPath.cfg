\* The same instance; an artist whose genres have expired in Redis.
CONSTANTS
    Accounts = {"u1", "u2", "u3"}
    Writers = {"h1"}
    Artists = {"a1", "a2", "x"}
    Tracks = {"t1", "t2", "t3"}
    Credits <- MCCredits
    Follows <- MCFollows
    Unknown = {"t2", "x"}
    ArtistLimit = 2
    TrackLimit = 2
    Attempts = 2
    MaxFaults = 1
    MaxChanges = 2
SPECIFICATION MCSpec
PROPERTY GuardServedFromCache
