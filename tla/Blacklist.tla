----------------------------- MODULE Blacklist -----------------------------
(***************************************************************************)
(* The verdict of a user's ban-hammer rules on a track                     *)
(* (services/banhammer/registry.py), which the skip guard and the purger   *)
(* share.  A rule is a pattern with its mode, as stored: in lower case.    *)
(* Which genres it matches is given; a regular expression that cannot be   *)
(* compiled is stored like any other, and matching it raises.  `exempt'    *)
(* holds the ids of artists, albums and tracks alike.                      *)
(***************************************************************************)
EXTENDS Integers, SequencesExt

CONSTANTS
    Genres,
    CreditsOf,   \* CreditsOf[t]: the artists of a track, in order
    AlbumOf,     \* AlbumOf[t]
    GenresOf,    \* GenresOf[a]: the genres of an artist, in order
    Matches,     \* Matches[p]: the genres a pattern matches
    Broken       \* patterns that re.search raises on

Artists == DOMAIN GenresOf
Patterns == DOMAIN Matches

ASSUME BlacklistAssumption ==
    /\ \A t \in DOMAIN CreditsOf : CreditsOf[t] \in Seq(Artists)
    /\ DOMAIN AlbumOf = DOMAIN CreditsOf
    /\ GenresOf \in [Artists -> Seq(Genres)] /\ Matches \in [Patterns -> SUBSET Genres]
    /\ Broken \subseteq Patterns /\ \A p \in Broken : Matches[p] = {}

Contexts == {"skip_guard", "purge"}
Rules == [pattern : Patterns, for : SUBSET Contexts]

NoVerdict == [banned |-> FALSE, reason |-> "", rule |-> "", artist |-> ""]
Ban(reason, rule, a) == [banned |-> TRUE, reason |-> reason, rule |-> rule, artist |-> a]

\* re.error leaves evaluate: there is no verdict, and the caller gets the exception.
Raised == [NoVerdict EXCEPT !.reason = "error"]

Decided(verdict) == verdict.banned \/ verdict = Raised

\* A for loop over the items that carries the verdict from one to the next.
Loop(step(_, _), verdict, items) ==
    LET after[n \in 0..Len(items)] ==
          IF n = 0 THEN verdict ELSE step(after[n - 1], items[n])
    IN  after[Len(items)]

\* One rule; one for another context is passed over.
ByRule(r, a, g, context, verdict) ==
    IF Decided(verdict) \/ context \notin r.for THEN verdict
    ELSE IF r.pattern \in Broken THEN Raised
    ELSE IF g \in Matches[r.pattern] THEN Ban("genre", r.pattern, a)
    ELSE verdict

\* One genre: the rules in turn.
ByGenre(rules, a, g, context, verdict) ==
    Loop(LAMBDA v, r : ByRule(r, a, g, context, v), verdict, rules)

\* The genres of an artist in turn.
ByGenres(rules, a, context, verdict) ==
    Loop(LAMBDA v, g : ByGenre(rules, a, g, context, v), verdict, GenresOf[a])

\* Mutant: a ban of the artist is looked for before his exemption.
ByArtist_banFirst(bl, a, context, verdict) ==
    IF Decided(verdict) THEN verdict
    ELSE IF a \in bl.artists THEN Ban("banned_artist", a, a)
    ELSE IF a \in bl.exempt THEN verdict
    ELSE ByGenres(bl.rules, a, context, verdict)

\* One artist; an exempt one is passed over.
ByArtist(bl, a, context, verdict) ==
    IF Decided(verdict) \/ a \in bl.exempt THEN verdict
    ELSE IF a \in bl.artists THEN Ban("banned_artist", a, a)
    ELSE ByGenres(bl.rules, a, context, verdict)

\* evaluate: exemptions of the track and the album first, then artist by artist.
Evaluate(bl, t, context) ==
    IF {t, AlbumOf[t]} \cap bl.exempt # {} THEN [NoVerdict EXCEPT !.reason = "exempt"]
    ELSE Loop(LAMBDA v, a : ByArtist(bl, a, context, v), NoVerdict, CreditsOf[t])
=============================================================================
