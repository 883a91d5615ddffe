---------------------------- MODULE StreamLedger ----------------------------
(***************************************************************************)
(* The lifetime stream ledger of one deployment: the incremental poller    *)
(* of services/ingest/recently_played.py, run by any number of concurrent  *)
(* workers (Celery tasks and scheduler sweeps), next to the ZIP importer,  *)
(* the catalogue hydration that attaches tracks to imported rows, and the  *)
(* deletion of an account.                                                 *)
(*                                                                         *)
(* A play is identified by its position in the user's listening history,   *)
(* 1, 2, 3, ...; positions are in played_at order.  Since the unique key   *)
(* of `streams' is (user, played_at, uri) and every insert is ON CONFLICT  *)
(* DO NOTHING, the rows of one user and one source are a set of plays.     *)
(* An export stamps the END of a play and the API its START, so the two    *)
(* sources never share a key and are two sets.                             *)
(*                                                                         *)
(* A poll is one Postgres transaction at READ COMMITTED, cut where it      *)
(* awaits or where another transaction can get in between.                 *)
(***************************************************************************)
EXTENDS Integers, FiniteSets

CONSTANTS
    Users,          \* accounts
    Workers,        \* how many polls of one user may be in flight at once
    MaxPlays,       \* bound: plays in one user's history
    Window,         \* plays Spotify's feed keeps (50)
    Tracks, Hours,  \* catalogue ids; UTC hours
    TrackOf,        \* TrackOf[p]: the track of play p
    HourOf,         \* HourOf[p]: the UTC hour of play p
    KnownTracks,    \* tracks /tracks still answers for
    Exported,       \* Exported[u]: plays that appear in u's history export
    MayLeave        \* users who may delete their account

Plays == 1..MaxPlays
Times == 0..MaxPlays   \* 0 is "no cursor yet"

ASSUME ConstantsAssumption ==
    /\ MaxPlays \in Nat
    /\ Window \in Nat \ {0}
    /\ Hours \subseteq Nat
    /\ TrackOf \in [Plays -> Tracks]
    /\ HourOf \in [Plays -> Hours]
    /\ \A p, q \in Plays : p <= q => HourOf[p] <= HourOf[q]   \* played_at order
    /\ KnownTracks \subseteq Tracks
    /\ Exported \in [Users -> SUBSET Plays]
    /\ MayLeave \subseteq Users

VARIABLES
    heard,      \* heard[u]: plays so far; the feed is the last Window of them
    missed,     \* missed[u]: plays that left the feed before they were logged
    alive,      \* alive[u]: the users row exists
    polled,     \* polled[u]: committed api_poll rows
    imported,   \* imported[u]: committed json_import rows
    linked,     \* linked[u]: imported rows whose track_id is set
    catalogue,  \* committed rows of `tracks'
    hasCursor,  \* hasCursor[u]: the sync_cursors row exists
    cursor,     \* cursor[u]: sync_cursors.cursor
    rollup,     \* rollup[u][h]: stream_hourly_rollups
    txn         \* txn[u][w]: worker w's poll of u

ledgerVars == <<polled, imported, linked>>
cursorVars == <<hasCursor, cursor>>
vars == <<heard, missed, alive, ledgerVars, catalogue, cursorVars, rollup, txn>>

Bucket == [streams : Nat, tracks : Nat]
EmptyRollup == [h \in Hours |-> [streams |-> 0, tracks |-> 0]]

Phases == {"idle", "fetching", "fetched", "stored", "tallied"}
Txn == [pc : Phases, fresh : BOOLEAN, after : Times,
        from : Times, upto : Times, tally : [Hours -> Bucket]]
NoTxn == [pc |-> "idle", fresh |-> FALSE, after |-> 0,
          from |-> 0, upto |-> 0, tally |-> EmptyRollup]

-----------------------------------------------------------------------------
(* Derived state *)

\* Mutant: the request's lower bound is off by one.
Items_skipsOldest(t) == t.from + 1 .. t.upto

\* The rows a transaction has inserted (or found already there).
Items(t) == t.from .. t.upto

\* upsert_tracks: the catalogue rows a transaction brings along.
UpsertedTracks(t) == {TrackOf[p] : p \in Items(t)}

\* Mutant: nothing serialises two polls of one user.
HoldsLock_never(t) == FALSE

\* The update of the sync_cursors row is flushed by the first statement that
\* follows the fetch and holds its row lock until the transaction ends.
HoldsLock(t) == t.pc \in {"stored", "tallied"}
Locked(u) == \E w \in Workers : HoldsLock(txn[u][w])

\* Mutant: a first poll can never commit.
CursorClash_always(u, t) == t.fresh

\* A first poll INSERTs the cursor row: once another poll has committed one,
\* the insert breaks the primary key and the transaction cannot commit.
CursorClash(u, t) == t.fresh /\ hasCursor[u]

\* What SELECT ... GROUP BY hour sees, given the rows P and I of the user.
Tally(P, I, L) ==
    [h \in Hours |->
        LET inHour(S) == {p \in S : HourOf[p] = h}
        IN  [streams |-> Cardinality(inHour(P)) + Cardinality(inHour(I)),
             tracks  |-> Cardinality({TrackOf[p] : p \in inHour(P \cup L)})]]

-----------------------------------------------------------------------------
(* The listener (outside the system) *)

\* One more play; the oldest play of the feed falls out of it.
Play(u) ==
    /\ alive[u]
    /\ heard[u] < MaxPlays
    /\ heard' = [heard EXCEPT ![u] = @ + 1]
    /\ LET out == heard[u] + 1 - Window
       IN  missed' = IF out \in Plays \ polled[u]
                     THEN [missed EXCEPT ![u] = @ \cup {out}]
                     ELSE missed
    /\ UNCHANGED <<alive, ledgerVars, catalogue, cursorVars, rollup, txn>>

-----------------------------------------------------------------------------
(* ingest_recently_played *)

\* Read the cursor row and issue the request.
BeginIngest(u, w) ==
    /\ alive[u]
    /\ txn[u][w].pc = "idle"
    /\ txn' = [txn EXCEPT ![u][w] =
                 [NoTxn EXCEPT !.pc = "fetching",
                               !.fresh = ~hasCursor[u],
                               !.after = cursor[u]]]
    /\ UNCHANGED <<heard, missed, alive, ledgerVars, catalogue, cursorVars, rollup>>

\* The feed answers: the last Window plays later than `after'.
FetchItems(u, w) ==
    LET t == txn[u][w]
        oldest == IF heard[u] - Window > t.after THEN heard[u] - Window ELSE t.after
    IN  /\ t.pc = "fetching"
        /\ heard[u] > t.after
        /\ txn' = [txn EXCEPT ![u][w] = [t EXCEPT !.pc = "fetched",
                                                  !.from = oldest + 1,
                                                  !.upto = heard[u]]]
        /\ UNCHANGED <<heard, missed, alive, ledgerVars, catalogue, cursorVars, rollup>>

\* The request failed, or there was nothing new: only the cursor row's
\* bookkeeping is committed (and the row itself, on a first poll).
FetchNothing(u, w) ==
    LET t == txn[u][w]
    IN  /\ t.pc = "fetching"
        /\ alive[u] /\ ~Locked(u) /\ ~CursorClash(u, t)
        /\ hasCursor' = [hasCursor EXCEPT ![u] = TRUE]
        /\ txn' = [txn EXCEPT ![u][w] = NoTxn]
        /\ UNCHANGED <<heard, missed, alive, ledgerVars, catalogue, cursor, rollup>>

\* Flush the cursor row (taking its lock), upsert the tracks, insert the rows.
StoreStreams(u, w) ==
    LET t == txn[u][w]
    IN  /\ t.pc = "fetched"
        /\ alive[u] /\ ~Locked(u) /\ ~CursorClash(u, t)
        /\ txn' = [txn EXCEPT ![u][w].pc = "stored"]
        /\ UNCHANGED <<heard, missed, alive, ledgerVars, catalogue, cursorVars, rollup>>

\* refresh_hourly_rollups: recount every hour from the oldest item's on, over
\* the committed rows and this transaction's own.
RefreshRollups(u, w) ==
    LET t == txn[u][w]
    IN  /\ t.pc = "stored"
        /\ txn' = [txn EXCEPT ![u][w] =
             [t EXCEPT !.pc = "tallied",
                       !.tally = Tally(polled[u] \cup Items(t), imported[u], linked[u])]]
        /\ UNCHANGED <<heard, missed, alive, ledgerVars, catalogue, cursorVars, rollup>>

\* The buckets a transaction upserts: those with rows, from its first hour on.
Refreshed(t) == {h \in Hours : h >= HourOf[t.from] /\ t.tally[h].streams > 0}

CommitIngest(u, w) ==
    LET t == txn[u][w]
    IN  /\ t.pc = "tallied"
        /\ polled' = [polled EXCEPT ![u] = @ \cup Items(t)]
        /\ catalogue' = catalogue \cup UpsertedTracks(t)
        /\ hasCursor' = [hasCursor EXCEPT ![u] = TRUE]
        /\ cursor' = [cursor EXCEPT ![u] = t.upto]
        /\ rollup' = [rollup EXCEPT ![u] =
                        [h \in Hours |-> IF h \in Refreshed(t) THEN t.tally[h] ELSE @[h]]]
        /\ txn' = [txn EXCEPT ![u][w] = NoTxn]
        /\ UNCHANGED <<heard, missed, alive, imported, linked>>

\* A crash, a database error, a deadlock victim or a broken key: rolled back.
AbortIngest(u, w) ==
    /\ txn[u][w].pc # "idle"
    /\ txn' = [txn EXCEPT ![u][w] = NoTxn]
    /\ UNCHANGED <<heard, missed, alive, ledgerVars, catalogue, cursorVars, rollup>>

-----------------------------------------------------------------------------
(* The importer and the catalogue *)

\* run_import's flush: one batch of the export, inserted and committed.
ImportFlush(u) ==
    /\ alive[u]
    /\ \E batch \in SUBSET (Exported[u] \cap 1..heard[u]) :
         /\ batch # {}
         /\ imported' = [imported EXCEPT ![u] = @ \cup batch]
    /\ UNCHANGED <<heard, missed, alive, polled, linked, catalogue, cursorVars, rollup, txn>>

Orphans(u) == imported[u] \ linked[u]

\* hydrate_orphan_tracks: look up some tracks known only by URI.  The rows
\* were orphans when they were selected; the catalogue only grows, so the
\* await between the select and the upsert changes nothing.
HydrateOrphans ==
    /\ \E u \in Users : \E p \in Orphans(u) :
         catalogue' = catalogue \cup ({TrackOf[p]} \cap KnownTracks)
    /\ UNCHANGED <<heard, missed, alive, ledgerVars, cursorVars, rollup, txn>>

\* relink_imported_streams, over every user.
Relink ==
    /\ \E u \in Users : \E p \in Orphans(u) : TrackOf[p] \in catalogue
    /\ linked' = [u \in Users |->
                    linked[u] \cup {p \in imported[u] : TrackOf[p] \in catalogue}]
    /\ UNCHANGED <<heard, missed, alive, polled, imported, catalogue, cursorVars, rollup, txn>>

-----------------------------------------------------------------------------
\* delete_account: ON DELETE CASCADE removes every row of the user.  The
\* delete waits for the row locks of polls that are past their flush.
DeleteAccount(u) ==
    /\ u \in MayLeave /\ alive[u] /\ ~Locked(u)
    /\ alive' = [alive EXCEPT ![u] = FALSE]
    /\ polled' = [polled EXCEPT ![u] = {}]
    /\ imported' = [imported EXCEPT ![u] = {}]
    /\ linked' = [linked EXCEPT ![u] = {}]
    /\ hasCursor' = [hasCursor EXCEPT ![u] = FALSE]
    /\ cursor' = [cursor EXCEPT ![u] = 0]
    /\ rollup' = [rollup EXCEPT ![u] = EmptyRollup]
    /\ UNCHANGED <<heard, missed, catalogue, txn>>

-----------------------------------------------------------------------------
Init ==
    /\ heard = [u \in Users |-> 0]
    /\ missed = [u \in Users |-> {}]
    /\ alive = [u \in Users |-> TRUE]
    /\ polled = [u \in Users |-> {}]
    /\ imported = [u \in Users |-> {}]
    /\ linked = [u \in Users |-> {}]
    /\ catalogue = {}
    /\ hasCursor = [u \in Users |-> FALSE]
    /\ cursor = [u \in Users |-> 0]
    /\ rollup = [u \in Users |-> EmptyRollup]
    /\ txn = [u \in Users |-> [w \in Workers |-> NoTxn]]

IngestStep(u, w) ==
    \/ BeginIngest(u, w) \/ FetchItems(u, w) \/ FetchNothing(u, w)
    \/ StoreStreams(u, w) \/ RefreshRollups(u, w)
    \/ CommitIngest(u, w) \/ AbortIngest(u, w)

Next ==
    \/ \E u \in Users : \/ Play(u) \/ ImportFlush(u) \/ DeleteAccount(u)
                        \/ \E w \in Workers : IngestStep(u, w)
    \/ HydrateOrphans
    \/ Relink

Spec == Init /\ [][Next]_vars

\* The beat schedule keeps starting polls, a started poll goes on, and neither
\* Spotify nor the database refuses one account for ever.
Fairness ==
    \A u \in Users, w \in Workers :
        /\ WF_vars(BeginIngest(u, w))
        /\ SF_vars(FetchItems(u, w))
        /\ WF_vars(FetchNothing(u, w))
        /\ SF_vars(StoreStreams(u, w))
        /\ SF_vars(RefreshRollups(u, w))
        /\ SF_vars(CommitIngest(u, w))

FairSpec == Spec /\ Fairness

-----------------------------------------------------------------------------
(* Properties *)

\* Type correctness of the tables and of the transactions in flight.
TypeOK ==
    /\ heard \in [Users -> Times]
    /\ missed \in [Users -> SUBSET Plays]
    /\ alive \in [Users -> BOOLEAN]
    /\ polled \in [Users -> SUBSET Plays]
    /\ imported \in [Users -> SUBSET Plays]
    /\ linked \in [Users -> SUBSET Plays]
    /\ catalogue \subseteq Tracks
    /\ hasCursor \in [Users -> BOOLEAN]
    /\ cursor \in [Users -> Times]
    /\ rollup \in [Users -> [Hours -> Bucket]]
    /\ txn \in [Users -> [Workers -> Txn]]

\* No gap behind the cursor: a play the next poll will not ask for again has
\* been logged, unless it had left Spotify's feed before any poll stored it
\* (recently_played.py:3-6).  Holds although a slower poll may commit an older
\* cursor over a newer one.
NoGap ==
    \A u \in Users : alive[u] =>
        \A p \in 1..cursor[u] : p \in polled[u] \cup missed[u]

\* The listening clock never shows a stream that is not in the ledger and
\* never lacks one a poll logged, per hour, in streams and in distinct tracks
\* (refresh_hourly_rollups recounts while other polls, imports and relinks run).
RollupBounds ==
    \A u \in Users, h \in Hours :
        LET least == Tally(polled[u], {}, {})[h]
            most  == Tally(polled[u], imported[u], linked[u])[h]
        IN  /\ rollup[u][h].streams \in least.streams .. most.streams
            /\ rollup[u][h].tracks \in least.tracks .. most.tracks

\* Nothing of a deleted account comes back, whatever was in flight when it
\* was deleted (me.py:50).
NothingLeftOfDeleted ==
    \A u \in Users : ~alive[u] =>
        /\ polled[u] = {} /\ imported[u] = {} /\ linked[u] = {}
        /\ ~hasCursor[u]
        /\ rollup[u] = EmptyRollup

\* The ledger, seen without cursors, workers and catalogue, behaves as
\* PlayHistory promises: append-only (DATA_MODEL.md:48), gapless but for what
\* the feed dropped, attached tracks kept.
History == INSTANCE PlayHistory
    WITH Users <- Users, MaxPlays <- MaxPlays, Window <- Window,
         heard <- heard, missed <- missed, alive <- alive,
         polled <- polled, imported <- imported, linked <- linked
ImplementsHistory == History!Spec

\* Every play is eventually logged, or had left the feed first, or its
\* account is gone.
EveryPlayLogged ==
    \A u \in Users : \A p \in Plays :
        (heard[u] >= p) ~> (p \in polled[u] \cup missed[u] \/ ~alive[u])
=============================================================================
