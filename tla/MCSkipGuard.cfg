\* Two scenes (MCSkipGuard): two ticks that exclude each other by a lock that may expire,
\* or one beside the reports of a tab; a track that is repeated, a cold cache, a request
\* that fails or a process that dies, up to four edits of the rules.
CONSTANTS
    Tracks = {"rap", "jazz"}
    TrackOf <- MCQueue
    t1 = t1
    t2 = t2
    Ticks = {t1, t2}
    Bridges = {tab}
    Blacklisted <- MCBlacklisted
    Warm = {"jazz"}
    MaxPosts = 2
    MaxChanges = 4
    MaxFailures = 1
    Genres = {"soul", "trap", "drill", "bebop"}
    CreditsOf <- MCCredits
    AlbumOf <- MCAlbum
    GenresOf <- MCGenres
    Matches <- MCMatches
    Broken = {"["}
    StartRules <- MCStartRules
    NewRules <- MCNewRules
    StartExempt = {"singer"}
    BannableArtists = {"singer", "trio"}
    Exemptible = {"singer", "rapper", "mixtape"}
SPECIFICATION MCSpec
INVARIANTS
    OneSkipPerPlay
    VerdictsRight
PROPERTIES
    BannedIsSkipped
