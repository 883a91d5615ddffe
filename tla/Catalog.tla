------------------------------ MODULE Catalog ------------------------------
(***************************************************************************)
(* The shared catalogue and those who fill it: the worker-free sweep,      *)
(* which tries accounts in turn and whose halves (artists, tracks) commit  *)
(* apart; Celery's catalog.hydrate, which does both in one transaction     *)
(* with the token of whichever account comes first; a poll of the logger;  *)
(* and the ban-hammer, which looks up artists it does not find in Redis:   *)
(* an evaluation of the skip guard, which commits only if it skips, and a  *)
(* purge, which stores the tracks of a playlist first.                     *)
(*                                                                         *)
(* Spotify may refuse the catalogue endpoint to the application; the sweep *)
(* then leaves it alone for an hour and takes the artists an account plays *)
(* and follows instead.  Ids Spotify does not know are never hydrated, and *)
(* stay among those a LIMIT without ORDER BY picks from.                   *)
(***************************************************************************)
EXTENDS Integers, FiniteSets

CONSTANTS
    Accounts,
    Writers,      \* polls, evaluations and purges running at once
    Artists, Tracks,
    Credits,      \* Credits[t]: the artists of a track
    Follows,      \* Follows[u]: the artists account u plays often or follows
    Unknown,      \* artists and tracks Spotify answers with a null
    ArtistLimit, TrackLimit,
    Attempts,     \* CATALOG_ACCOUNT_ATTEMPTS
    MaxFaults,    \* bound: failed requests and rolled back transactions
    MaxChanges    \* bound: changes of Spotify's mind, grants withdrawn, genres expired

ASSUME CatalogAssumption ==
    /\ Credits \in [Tracks -> SUBSET Artists]
    /\ Follows \in [Accounts -> SUBSET Artists]
    /\ Writers \cap {"sweep", "task"} = {}
    /\ ArtistLimit \in Nat /\ TrackLimit \in Nat /\ Attempts \in Nat
    /\ MaxFaults \in Nat /\ MaxChanges \in Nat

Drivers == {"sweep", "task"} \cup Writers

VARIABLES
    artist,       \* artist[a]: no row, a name only, or genres too
    tracks,       \* tracks in the catalogue
    orphans,      \* tracks some imported row names without a track_id
    imported,     \* tracks imported so far
    cached,       \* artists whose genres are in Redis
    astray,       \* history: cached by a transaction that did not commit
    restricted,   \* CATALOGUE_RESTRICTED: not set, set, and seen by a sweep
    harvested,    \* GENRES_HARVESTED is set
    refused,      \* Spotify refuses GET /artists to the application
    dead,         \* accounts whose grant is gone
    run,          \* run[d]: where a driver is
    faults, changes

rows == <<artist, tracks, orphans>>
keys == <<cached, astray, restricted, harvested>>
world == <<imported, refused, dead, changes>>
vars == <<rows, keys, world, run, faults>>

Idle == [pc |-> "idle", left |-> {}, account |-> {}, ok |-> FALSE,
         ids |-> {}, artists |-> {}, tracks |-> {}]

Init ==
    /\ artist = [a \in Artists |-> "absent"] /\ tracks = {} /\ orphans = {}
    /\ imported = {}
    /\ cached = {} /\ astray = {} /\ restricted = "no" /\ harvested = FALSE
    /\ refused \in BOOLEAN /\ dead = {} /\ changes = 0
    /\ run = [d \in Drivers |-> Idle] /\ faults = 0

Named == {a \in Artists : artist[a] = "named"}

Smaller(m, n) == IF m < n THEN m ELSE n

Batch_oneShort(S, limit) ==
    {T \in SUBSET S : Cardinality(T) = Smaller(Cardinality(S), limit - 1)}

\* What SELECT ... LIMIT n without an ORDER BY may return.
Batch(S, limit) ==
    {T \in SUBSET S : Cardinality(T) = Smaller(Cardinality(S), limit)}

-----------------------------------------------------------------------------
(* The steps of a driver, between its transactions' awaits *)

Go(d, pc) == run' = [run EXCEPT ![d].pc = pc, ![d].ids = {}]

\* sweep_catalog: an account that answered anything is the last one tried.
AfterAccount(ok, left) == IF ok \/ left = {} THEN "relink" ELSE "account"

\* A step failed and its transaction is rolled back.  The sweep goes on with
\* the other half, then with the next account; the others are over.
Failed(d, half) ==
    IF d # "sweep" THEN Idle
    ELSE [run[d] EXCEPT !.ids = {}, !.artists = {}, !.tracks = {},
             !.pc = IF half = "artists" THEN "tracks"
                    ELSE AfterAccount(run[d].ok, run[d].left)]

Half(d) == IF run[d].pc \in {"lookup", "harvest", "stored"} THEN "artists" ELSE "tracks"

Succeeded(d) == [run[d] EXCEPT !.ids = {}, !.ok = TRUE, !.artists = {}, !.tracks = {},
                    !.pc = IF Half(d) = "artists" THEN "tracks" ELSE "relink"]

\* Nothing that d has written stays, but what it has cached.
RollBack(d, half) ==
    /\ run' = [run EXCEPT ![d] = Failed(d, half)]
    /\ astray' = astray \cup run[d].artists
    /\ UNCHANGED <<rows, cached, restricted, harvested, world>>

\* Any request may fail, and any transaction may be rolled back.
Fail(d) ==
    /\ run[d].pc \in {"lookup", "harvest", "stored", "fetch", "held",
                      "ask", "heard", "scan", "upserted"}
    /\ faults < MaxFaults
    /\ faults' = faults + 1
    /\ RollBack(d, Half(d))

\* _active_users, in no order.
SweepBegin ==
    /\ run["sweep"].pc = "idle"
    /\ \E left \in Batch(Accounts, Attempts) :
           run' = [run EXCEPT !["sweep"].pc = "account", !["sweep"].left = left]
    /\ UNCHANGED <<rows, keys, world, faults>>

\* A dead grant: the next account.
SweepAccount ==
    /\ run["sweep"].pc = "account"
    /\ \E u \in run["sweep"].left :
           LET left == run["sweep"].left \ {u}
           IN  run' = [run EXCEPT !["sweep"] = [Idle EXCEPT !.left = left,
                  !.account = {u} \ dead,
                  !.pc = IF u \in dead THEN AfterAccount(FALSE, left) ELSE "artists"]]
    /\ UNCHANGED <<rows, keys, world, faults>>

\* catalog_hydrate takes any active user.  If the grant is gone it hydrates
\* nothing: it only relinks when the grant is known to be, and otherwise the
\* refresh raises and the task is over, which changes nothing here.
TaskBegin ==
    /\ run["task"].pc = "idle"
    /\ \E u \in Accounts :
           run' = [run EXCEPT !["task"].pc = IF u \in dead THEN "relink" ELSE "artists"]
    /\ UNCHANGED <<rows, keys, world, faults>>

\* hydrate_missing_artists: the sweep asks for it unless the application is
\* known to be refused, the task always.
AskCatalogue(d) ==
    /\ run[d].pc = "artists" /\ (d = "task" \/ restricted = "no")
    /\ \E ids \in Batch(Named, ArtistLimit) :
           run' = [run EXCEPT ![d] =
               IF ids # {} THEN [@ EXCEPT !.pc = "lookup", !.ids = ids]
               ELSE [@ EXCEPT !.pc = "tracks", !.ok = TRUE]]
    /\ UNCHANGED <<rows, keys, world, faults>>

\* hydrate_artists, once refused: what the account plays and follows, unless
\* that was read lately.
AskListening ==
    /\ run["sweep"].pc = "artists" /\ restricted # "no"
    /\ restricted' = "seen"
    /\ run' = [run EXCEPT !["sweep"] =
           IF harvested THEN [@ EXCEPT !.pc = "tracks", !.ok = TRUE]
           ELSE [@ EXCEPT !.pc = "harvest"]]
    /\ UNCHANGED <<rows, cached, astray, harvested, world, faults>>

\* Rows another transaction has written and not committed.
Locked(d) == UNION {run[o].artists \cup run[o].tracks : o \in Drivers \ {d}}

Answered_asked(ids) == ids

Answered_nullSpoilsAll(ids) == IF ids \cap Unknown = {} THEN ids ELSE {}

\* Spotify answers a null for an id it does not know, which is skipped.
Answered(ids) == ids \ Unknown

AfterArtists(pc, d) == CASE pc = "ask" -> "heard" [] pc = "scan" -> "upserted"
                         [] OTHER -> IF d = "task" THEN "tracks" ELSE "stored"

\* upsert_artists: the rows are written, the genres cached before the commit.
StoreArtists(d, found) ==
    /\ found \cap Locked(d) = {}
    /\ cached' = cached \cup found
    /\ run' = [run EXCEPT ![d].pc = AfterArtists(run[d].pc, d), ![d].artists = found,
                          ![d].ids = {}]

Lookup(d) ==
    /\ run[d].pc = "lookup"
    /\ \/ /\ refused
          /\ restricted' = IF d = "sweep" THEN "set" ELSE restricted
          /\ run' = [run EXCEPT ![d] = Failed(d, "artists")]
          /\ UNCHANGED cached
       \/ /\ ~refused
          /\ StoreArtists(d, Answered(run[d].ids))
          /\ UNCHANGED restricted
    /\ UNCHANGED <<rows, astray, harvested, world, faults>>

\* harvest_artist_genres: the cool-down starts before the rows commit.
Harvest ==
    /\ run["sweep"].pc = "harvest"
    /\ StoreArtists("sweep", UNION {Follows[u] : u \in run["sweep"].account})
    /\ harvested' = TRUE
    /\ UNCHANGED <<rows, astray, restricted, world, faults>>

\* hydrate_orphan_tracks
AskTracks(d) ==
    /\ run[d].pc = "tracks"
    /\ \E ids \in Batch(orphans, TrackLimit) :
           run' = [run EXCEPT ![d] =
               IF ids # {} THEN [@ EXCEPT !.pc = "fetch", !.ids = ids]
               ELSE IF d = "sweep" THEN Succeeded(d) ELSE [@ EXCEPT !.pc = "held"]]
    /\ UNCHANGED <<rows, keys, world, faults>>

\* upsert_tracks
Fetch(d) ==
    /\ run[d].pc = "fetch"
    /\ Answered(run[d].ids) \cap Locked(d) = {}
    /\ run' = [run EXCEPT ![d].pc = "held", ![d].tracks = Answered(run[d].ids), ![d].ids = {}]
    /\ UNCHANGED <<rows, keys, world, faults>>

\* The artists of new tracks are known by name, unless more is known.
Credited(known, T) ==
    [a \in Artists |-> IF known[a] = "absent" /\ \E t \in T : a \in Credits[t]
                       THEN "named" ELSE known[a]]

CommitDriver_artistsLost(d) ==
    /\ artist' = Credited(artist, run[d].tracks)
    /\ tracks' = tracks \cup run[d].tracks

CommitDriver(d) ==
    /\ artist' = Credited([a \in Artists |-> IF a \in run[d].artists THEN "full" ELSE artist[a]],
                          run[d].tracks)
    /\ tracks' = tracks \cup run[d].tracks

Commit(d) ==
    /\ run[d].pc \in {"stored", "held"}
    /\ CommitDriver(d)
    /\ run' = [run EXCEPT ![d] = Succeeded(d)]
    /\ UNCHANGED <<orphans, keys, world, faults>>

\* relink_imported_streams: the sweep's takes every import, the task's those of
\* accounts with a finished one, which this one may not be.
Relink(d) ==
    /\ run[d].pc = "relink"
    /\ orphans' = orphans \ tracks \/ (d = "task" /\ orphans' = orphans)
    /\ run' = [run EXCEPT ![d] = Idle]
    /\ UNCHANGED <<artist, tracks, keys, world, faults>>

-----------------------------------------------------------------------------
(* ingest/recently_played.py, banhammer/skip_guard.py, banhammer/purger.py *)

\* w has stored tracks and asks for artists.
Begins(w, pc, stored, ids) ==
    /\ run[w].pc = "idle" /\ stored \cap Locked(w) = {}
    /\ run' = [run EXCEPT ![w] = [Idle EXCEPT !.pc = pc, !.tracks = stored, !.ids = ids]]
    /\ UNCHANGED <<rows, keys, world, faults>>

\* ingest_recently_played upserts the tracks of the plays it has read.
PollStores(w) == \E T \in SUBSET (Tracks \ Unknown) \ {{}} : Begins(w, "upserted", T, {})

\* guard_tick has found a new track, some of whose artists are not in Redis.
GuardAsks(w) ==
    \E t \in Tracks : LET missing == Credits[t] \ cached
                      IN  missing # {} /\ Begins(w, "ask", {}, missing)

\* run_purge upserts the tracks it has read, then looks at their artists.
PurgeScans(w) ==
    \E T \in SUBSET (Tracks \ Unknown) \ {{}} :
        LET missing == UNION {Credits[t] : t \in T} \ cached
        IN  Begins(w, IF missing = {} THEN "upserted" ELSE "scan", T, missing)

\* GET /artists.  Its refusal ends the evaluation, and the purge too, which
\* commits that it has failed.
WriterLookup(w) ==
    /\ run[w].pc \in {"ask", "scan"}
    /\ \/ /\ refused
          /\ run' = [run EXCEPT ![w] = IF @.pc = "ask" THEN Idle
                                       ELSE [@ EXCEPT !.pc = "upserted", !.ids = {}]]
          /\ UNCHANGED cached
       \/ ~refused /\ StoreArtists(w, Answered(run[w].ids))
    /\ UNCHANGED <<rows, astray, restricted, harvested, world, faults>>

\* A skip commits its event and whatever else was written; so does the end of a
\* purge and of a poll.
WriterCommits(w) ==
    /\ run[w].pc \in {"heard", "upserted"}
    /\ CommitDriver(w)
    /\ run' = [run EXCEPT ![w] = Idle]
    /\ UNCHANGED <<orphans, keys, world, faults>>

\* The verdict lets the track play: guard_tick returns, the session is closed.
LetPlay(w) ==
    /\ run[w].pc = "heard"
    /\ RollBack(w, "artists")
    /\ UNCHANGED faults

\* What the next statement of d writes.
Wanted(d) ==
    IF run[d].pc = "fetch" \/ (run[d].pc = "scan" /\ ~refused) THEN Answered(run[d].ids) ELSE {}

Waits(d, o) == Wanted(d) \cap (run[o].artists \cup run[o].tracks) # {}

\* The task holds artists and wants a track, a purge holds it and wants one of
\* the artists: Postgres ends one of them.
Deadlock(d, o) ==
    /\ d # o /\ Waits(d, o) /\ Waits(o, d)
    /\ RollBack(d, "tracks")
    /\ UNCHANGED faults

-----------------------------------------------------------------------------
(* Around them: imports, Redis' clocks, Spotify *)

Import(t) ==
    /\ t \notin imported
    /\ imported' = imported \cup {t}
    /\ orphans' = orphans \cup {t}
    /\ UNCHANGED <<artist, tracks, keys, refused, dead, changes, run, faults>>

\* ARTIST_CACHE_TTL: a week after it was cached.
Expire(a) ==
    /\ a \in cached /\ changes < MaxChanges
    /\ changes' = changes + 1
    /\ cached' = cached \ {a} /\ astray' = astray \ {a}
    /\ UNCHANGED <<rows, restricted, harvested, imported, refused, dead, run, faults>>

\* After an hour, that is after more than one sweep.
CooldownEnds ==
    /\ restricted = "seen"
    /\ restricted' = "no"
    /\ UNCHANGED <<rows, cached, astray, harvested, world, run, faults>>

HarvestEnds ==
    /\ harvested
    /\ harvested' = FALSE
    /\ UNCHANGED <<rows, cached, astray, restricted, world, run, faults>>

\* Spotify changes its mind, or a listener withdraws: not the last one.
Change ==
    /\ changes < MaxChanges
    /\ changes' = changes + 1
    /\ \/ refused' = ~refused /\ UNCHANGED dead
       \/ \E u \in Accounts \ dead :
              /\ dead' = dead \cup {u} /\ dead' # Accounts
              /\ UNCHANGED refused
    /\ UNCHANGED <<rows, keys, imported, run, faults>>

-----------------------------------------------------------------------------
DriverStep(d) == AskCatalogue(d) \/ Lookup(d) \/ AskTracks(d) \/ Fetch(d)
                 \/ Commit(d) \/ Relink(d)
SweepStep == SweepBegin \/ SweepAccount \/ AskListening \/ Harvest \/ DriverStep("sweep")
TaskStep == TaskBegin \/ DriverStep("task")
WriterStep(w) == WriterLookup(w) \/ WriterCommits(w) \/ LetPlay(w)
Resolve == \E d, o \in Drivers : Deadlock(d, o)

Next == \/ SweepStep \/ TaskStep \/ Resolve \/ \E d \in Drivers : Fail(d)
        \/ \E w \in Writers : PollStores(w) \/ GuardAsks(w) \/ PurgeScans(w) \/ WriterStep(w)
        \/ \E a \in Artists : Expire(a)
        \/ \E t \in Tracks : Import(t)
        \/ CooldownEnds \/ HarvestEnds \/ Change

Spec == Init /\ [][Next]_vars

\* The scheduler calls the sweep again and again, transactions end, Postgres
\* serves the one that waits for a lock, the cool-downs of Redis expire.
Fairness == /\ SF_vars(SweepStep) /\ SF_vars(TaskStep) /\ WF_vars(Resolve)
            /\ \A w \in Writers : SF_vars(WriterStep(w))
            /\ WF_vars(CooldownEnds) /\ WF_vars(HarvestEnds)

FairSpec == Spec /\ Fairness

-----------------------------------------------------------------------------
(* Properties *)

\* Types: nothing Spotify does not know gets a row in tracks.
TypeOK ==
    /\ artist \in [Artists -> {"absent", "named", "full"}]
    /\ tracks \subseteq Tracks \ Unknown /\ orphans \subseteq imported
    /\ imported \subseteq Tracks
    /\ cached \subseteq Artists /\ astray \subseteq Artists
    /\ restricted \in {"no", "set", "seen"} /\ harvested \in BOOLEAN
    /\ refused \in BOOLEAN /\ dead \subseteq Accounts
    /\ faults \in 0..MaxFaults /\ changes \in 0..MaxChanges
    /\ \A d \in Drivers :
           /\ run[d].pc \in {"idle", "account", "artists", "lookup", "harvest",
                             "stored", "tracks", "fetch", "held", "relink",
                             "ask", "heard", "scan", "upserted"}
           /\ run[d].left \subseteq Accounts /\ run[d].account \subseteq Accounts

\* The genres the skip guard finds in Redis are in the table too, or in a transaction
\* that is open, unless the one that cached them was rolled back or was an evaluation
\* that let the track play: whoever fills the cache, in whatever order they commit.
CacheBacked ==
    \A a \in cached \ astray : artist[a] = "full" \/ \E d \in Drivers : a \in run[d].artists

\* "Caches artist -> genres in Redis for 7 days so the skip guard never calls Spotify on
\* the hot path" (docs/ARCHITECTURE.md:164): at least not for artists whose genres the
\* catalogue has.
GuardServedFromCache ==
    [][\A w \in Writers : GuardAsks(w) => \E a \in run'[w].ids : artist[a] # "full"]_vars

\* "Accounts are tried in turn until one is usable" (sweeps.py:150): a sweep that has
\* tried nothing but dead grants found every grant dead.
TriedUntilUsable ==
    (run["sweep"].pc = "relink" /\ run["sweep"].account = {} /\ ~run["sweep"].ok)
        => dead = Accounts

\* LIMIT without ORDER BY: ids Spotify does not know that fill a batch may be all
\* that is ever asked for (sweeps.py:133-136).
Starved(asked, limit) == Cardinality(asked \cap Unknown) >= limit

\* _active_users(5), without ORDER BY either: dead grants that fill the accounts a sweep
\* tries may be all that is ever tried (sweeps.py:97, 159).
Crowded == Cardinality(dead) >= Attempts

\* Artists get their genres, unless unknown ones starve them or dead grants crowd out the
\* others: all that Spotify knows if it lets the application ask in the end, and whatever
\* it refuses, those whom every account plays or follows.
ArtistsGetGenres ==
    \A a \in Artists \ Unknown :
        (<>[]~refused \/ \A u \in Accounts : a \in Follows[u]) =>
            ((artist[a] = "named") ~>
                (artist[a] = "full" \/ Starved(Named, ArtistLimit) \/ Crowded))

\* Every imported track Spotify knows is linked, unless unknown ones starve it or dead
\* grants crowd out the others, although the artists' half fails in every sweep.
TracksGetLinked ==
    \A t \in Tracks \ Unknown :
        (t \in orphans) ~> (t \notin orphans \/ Starved(orphans, TrackLimit) \/ Crowded)
=============================================================================
