------------------------- MODULE StreamLedgerProofs -------------------------
(***************************************************************************)
(* Machine-checked theorems about StreamLedger, for every number of users, *)
(* workers and plays and every window, track and hour assignment.          *)
(***************************************************************************)
EXTENDS StreamLedger, FiniteSetTheorems, TLAPS

USE ConstantsAssumption

-----------------------------------------------------------------------------
(* Type correctness *)

\* The image of a finite set under a function is finite and no larger.
LEMMA ImageFinite ==
    ASSUME NEW S, IsFiniteSet(S), NEW f
    PROVE  /\ IsFiniteSet({f[x] : x \in S})
           /\ Cardinality({f[x] : x \in S}) <= Cardinality(S)
<1> DEFINE T == {f[x] : x \in S}
           g == [x \in S |-> f[x]]
<1>1. g \in Surjection(S, T)
  BY DEF Surjection
<1>. QED  BY <1>1, FS_Surjection

\* An hourly recount of subsets of the plays is a rollup.
LEMMA TallyType ==
    ASSUME NEW P \in SUBSET Plays, NEW I \in SUBSET Plays, NEW L \in SUBSET Plays
    PROVE  Tally(P, I, L) \in [Hours -> Bucket]
<1>1. IsFiniteSet(Plays)
  BY FS_Interval DEF Plays
<1>2. ASSUME NEW S \in SUBSET Plays, NEW h \in Hours
      PROVE  /\ Cardinality({p \in S : HourOf[p] = h}) \in Nat
             /\ Cardinality({TrackOf[p] : p \in {q \in S : HourOf[q] = h}}) \in Nat
  <2>1. IsFiniteSet({p \in S : HourOf[p] = h})
    <3>1. {p \in S : HourOf[p] = h} \subseteq Plays
      OBVIOUS
    <3>. QED  BY <1>1, <3>1, FS_Subset
  <2>2. IsFiniteSet({TrackOf[p] : p \in {q \in S : HourOf[q] = h}})
    BY <2>1, ImageFinite
  <2>. QED  BY <2>1, <2>2, FS_CardinalityType
<1>3. P \cup L \in SUBSET Plays
  OBVIOUS
<1>4. ASSUME NEW h \in Hours
      PROVE  [streams |-> Cardinality({p \in P : HourOf[p] = h})
                          + Cardinality({p \in I : HourOf[p] = h}),
              tracks  |-> Cardinality({TrackOf[p] : p \in {q \in P \cup L : HourOf[q] = h}})]
             \in Bucket
  <2>1. Cardinality({p \in P : HourOf[p] = h}) \in Nat
    BY <1>2
  <2>2. Cardinality({p \in I : HourOf[p] = h}) \in Nat
    BY <1>2
  <2>3. Cardinality({TrackOf[p] : p \in {q \in P \cup L : HourOf[q] = h}}) \in Nat
    BY <1>2, <1>3
  <2>. QED  BY <2>1, <2>2, <2>3 DEF Bucket
<1>. QED  BY <1>4 DEF Tally

LEMMA EmptyRollupType == EmptyRollup \in [Hours -> Bucket]
BY DEF EmptyRollup, Bucket

LEMMA NoTxnType == NoTxn \in Txn
BY EmptyRollupType DEF NoTxn, Txn, Phases, Times

\* Replacing one poll by a well-formed one.
LEMMA TxnUpdateType ==
    ASSUME TypeOK, NEW u \in Users, NEW w \in Workers, NEW t \in Txn
    PROVE  [txn EXCEPT ![u][w] = t] \in [Users -> [Workers -> Txn]]
BY DEF TypeOK

\* The two updates a poll's record undergoes keep it well formed.
LEMMA PhaseTxnType ==
    ASSUME NEW t \in Txn, NEW pc \in Phases
    PROVE  [t EXCEPT !.pc = pc] \in Txn
BY DEF Txn

LEMMA FetchedTxnType ==
    ASSUME NEW t \in Txn, NEW f \in Times, NEW g \in Times
    PROVE  [t EXCEPT !.pc = "fetched", !.from = f, !.upto = g] \in Txn
BY DEF Txn, Phases

\* The items of a poll that has fetched are plays.
LEMMA ItemsType ==
    ASSUME NEW t \in Txn, t.from >= 1
    PROVE  Items(t) \in SUBSET Plays
BY DEF Items, Txn, Times, Plays

\* A poll past its fetch has a nonempty range of items that start at 1 or later.
FetchedRange ==
    \A u \in Users, w \in Workers :
        txn[u][w].pc \in {"fetched", "stored", "tallied"}
            => 1 <= txn[u][w].from /\ txn[u][w].from <= txn[u][w].upto

TypeInv == TypeOK /\ FetchedRange

LEMMA TypeInit == Init => TypeInv
<1>. SUFFICES ASSUME Init PROVE TypeInv
  OBVIOUS
<1>1. TypeOK
  BY EmptyRollupType, NoTxnType DEF Init, TypeOK, Times
<1>2. FetchedRange
  BY DEF Init, FetchedRange, NoTxn
<1>. QED  BY <1>1, <1>2 DEF TypeInv

LEMMA TypeStep == TypeInv /\ [Next]_vars => TypeInv'
<1>. SUFFICES ASSUME TypeInv, [Next]_vars PROVE TypeInv'
  OBVIOUS
<1>0. TypeOK /\ FetchedRange
  BY DEF TypeInv
<1>1. ASSUME NEW u \in Users, Play(u) PROVE TypeInv'
  <2>1. TypeOK'
    BY <1>0, <1>1 DEF Play, TypeOK, Times, Plays, ledgerVars, cursorVars
  <2>. QED  BY <1>0, <1>1, <2>1 DEF Play, FetchedRange, TypeInv
<1>2. ASSUME NEW u \in Users, ImportFlush(u) PROVE TypeInv'
  <2>1. TypeOK'
    BY <1>0, <1>2 DEF ImportFlush, TypeOK, cursorVars
  <2>. QED  BY <1>0, <1>2, <2>1 DEF ImportFlush, FetchedRange, TypeInv
<1>3. ASSUME NEW u \in Users, DeleteAccount(u) PROVE TypeInv'
  <2>1. TypeOK'
    BY <1>0, <1>3, EmptyRollupType DEF DeleteAccount, TypeOK, Times
  <2>. QED  BY <1>0, <1>3, <2>1 DEF DeleteAccount, FetchedRange, TypeInv
<1>4. ASSUME NEW u \in Users, NEW w \in Workers, BeginIngest(u, w) PROVE TypeInv'
  <2> DEFINE n == [NoTxn EXCEPT !.pc = "fetching", !.fresh = ~hasCursor[u],
                                !.after = cursor[u]]
  <2>1. n \in Txn /\ n.pc = "fetching"
    BY <1>0, NoTxnType DEF TypeOK, Txn, Phases, NoTxn
  <2>2. TypeOK'
    BY <1>0, <1>4, <2>1, TxnUpdateType DEF BeginIngest, TypeOK, ledgerVars, cursorVars
  <2>3. FetchedRange'
    BY <1>0, <1>4, <2>1 DEF BeginIngest, FetchedRange, TypeOK
  <2>. QED  BY <2>2, <2>3 DEF TypeInv
<1>5. ASSUME NEW u \in Users, NEW w \in Workers, FetchItems(u, w) PROVE TypeInv'
  <2> DEFINE t == txn[u][w]
             oldest == IF heard[u] - Window > t.after THEN heard[u] - Window ELSE t.after
             n == [t EXCEPT !.pc = "fetched", !.from = oldest + 1, !.upto = heard[u]]
  <2>1. t \in Txn /\ heard[u] \in Times
    BY <1>0 DEF TypeOK
  <2>a. t.after \in Nat /\ heard[u] \in Nat /\ heard[u] <= MaxPlays /\ heard[u] > t.after
    BY <1>5, <2>1 DEF FetchItems, Txn, Times
  <2>b. oldest \in Nat /\ oldest < heard[u]
    BY <2>a
  <2>c. oldest + 1 \in Times
    BY <2>a, <2>b DEF Times
  <2>2. n \in Txn /\ 1 <= n.from /\ n.from <= n.upto
    <3>1. n \in Txn
      BY <2>1, <2>c, FetchedTxnType
    <3>2. n.from = oldest + 1 /\ n.upto = heard[u]
      BY <2>1 DEF Txn
    <3>. QED  BY <3>1, <3>2, <2>a, <2>b
  <2>3. TypeOK'
    BY <1>0, <1>5, <2>2, TxnUpdateType DEF FetchItems, TypeOK, ledgerVars, cursorVars
  <2>4. txn' = [txn EXCEPT ![u][w] = n]
    BY <1>5 DEF FetchItems
  <2>5. FetchedRange'
    BY <1>0, <2>2, <2>4 DEF FetchedRange, TypeOK
  <2>. QED  BY <2>3, <2>5 DEF TypeInv
<1>6. ASSUME NEW u \in Users, NEW w \in Workers, FetchNothing(u, w) PROVE TypeInv'
  <2>1. TypeOK'
    BY <1>0, <1>6, NoTxnType, TxnUpdateType DEF FetchNothing, TypeOK, ledgerVars
  <2>2. FetchedRange'
    BY <1>0, <1>6 DEF FetchNothing, FetchedRange, TypeOK, NoTxn
  <2>. QED  BY <2>1, <2>2 DEF TypeInv
<1>7. ASSUME NEW u \in Users, NEW w \in Workers, StoreStreams(u, w) PROVE TypeInv'
  <2>1. txn' = [txn EXCEPT ![u][w].pc = "stored"]
    BY <1>7 DEF StoreStreams
  <2> DEFINE n == [txn[u][w] EXCEPT !.pc = "stored"]
  <2>a. n \in Txn
    <3>1. txn[u][w] \in Txn /\ "stored" \in Phases
      BY <1>0 DEF TypeOK, Phases
    <3>. QED  BY <3>1, PhaseTxnType
  <2>2. txn' \in [Users -> [Workers -> Txn]]
    BY <1>0, <2>1, <2>a, TxnUpdateType DEF TypeOK
  <2>3. TypeOK'
    BY <1>0, <1>7, <2>2 DEF StoreStreams, TypeOK, ledgerVars, cursorVars
  <2>4. FetchedRange'
    BY <1>0, <1>7, <2>1 DEF StoreStreams, FetchedRange, TypeOK, Txn
  <2>. QED  BY <2>3, <2>4 DEF TypeInv
<1>8. ASSUME NEW u \in Users, NEW w \in Workers, RefreshRollups(u, w) PROVE TypeInv'
  <2> DEFINE t == txn[u][w]
             n == [t EXCEPT !.pc = "tallied",
                    !.tally = Tally(polled[u] \cup Items(t), imported[u], linked[u])]
  <2>1. t \in Txn /\ t.pc = "stored" /\ 1 <= t.from /\ t.from <= t.upto
    BY <1>0, <1>8 DEF TypeOK, RefreshRollups, FetchedRange
  <2>2. Items(t) \in SUBSET Plays
    BY <2>1, ItemsType DEF Txn, Times
  <2>3. polled[u] \cup Items(t) \in SUBSET Plays
    BY <1>0, <2>2 DEF TypeOK
  <2>4. Tally(polled[u] \cup Items(t), imported[u], linked[u]) \in [Hours -> Bucket]
    BY <1>0, <2>3, TallyType DEF TypeOK
  <2>5. n \in Txn /\ 1 <= n.from /\ n.from <= n.upto
    BY <2>1, <2>4 DEF Txn, Phases
  <2>6. txn' = [txn EXCEPT ![u][w] = n]
    BY <1>8 DEF RefreshRollups
  <2>7. TypeOK'
    BY <1>0, <1>8, <2>5, <2>6, TxnUpdateType DEF RefreshRollups, TypeOK, ledgerVars, cursorVars
  <2>8. FetchedRange'
    BY <1>0, <2>5, <2>6 DEF FetchedRange, TypeOK
  <2>. QED  BY <2>7, <2>8 DEF TypeInv
<1>9. ASSUME NEW u \in Users, NEW w \in Workers, CommitIngest(u, w) PROVE TypeInv'
  <2> DEFINE t == txn[u][w]
  <2>1. t \in Txn /\ t.pc = "tallied" /\ 1 <= t.from
    BY <1>0, <1>9 DEF TypeOK, CommitIngest, FetchedRange
  <2>2. Items(t) \in SUBSET Plays
    BY <2>1, ItemsType DEF Txn, Times
  <2>3. polled' \in [Users -> SUBSET Plays]
    BY <1>0, <1>9, <2>2 DEF TypeOK, CommitIngest
  <2>4. catalogue' \subseteq Tracks
    BY <1>0, <1>9, <2>2 DEF TypeOK, CommitIngest, UpsertedTracks
  <2>5. [h \in Hours |-> IF h \in Refreshed(t) THEN t.tally[h] ELSE rollup[u][h]]
          \in [Hours -> Bucket]
    BY <1>0, <2>1 DEF TypeOK, Txn
  <2>6. rollup' \in [Users -> [Hours -> Bucket]]
    BY <1>0, <1>9, <2>5 DEF TypeOK, CommitIngest
  <2>7. txn' \in [Users -> [Workers -> Txn]]
    BY <1>0, <1>9, NoTxnType, TxnUpdateType DEF CommitIngest
  <2>8. cursor' \in [Users -> Times] /\ hasCursor' \in [Users -> BOOLEAN]
    BY <1>0, <1>9, <2>1 DEF TypeOK, CommitIngest, Txn
  <2>9. TypeOK'
    BY <1>0, <1>9, <2>3, <2>4, <2>6, <2>7, <2>8 DEF CommitIngest, TypeOK
  <2>10. FetchedRange'
    BY <1>0, <1>9 DEF CommitIngest, FetchedRange, TypeOK, NoTxn
  <2>. QED  BY <2>9, <2>10 DEF TypeInv
<1>10. ASSUME NEW u \in Users, NEW w \in Workers, AbortIngest(u, w) PROVE TypeInv'
  <2>1. TypeOK'
    BY <1>0, <1>10, NoTxnType, TxnUpdateType DEF AbortIngest, TypeOK, ledgerVars, cursorVars
  <2>2. FetchedRange'
    BY <1>0, <1>10 DEF AbortIngest, FetchedRange, TypeOK, NoTxn
  <2>. QED  BY <2>1, <2>2 DEF TypeInv
<1>11. CASE HydrateOrphans
  <2>1. catalogue' \subseteq Tracks
    BY <1>0, <1>11 DEF HydrateOrphans, TypeOK
  <2>2. TypeOK'
    BY <1>0, <1>11, <2>1 DEF HydrateOrphans, TypeOK, ledgerVars, cursorVars
  <2>. QED  BY <1>0, <1>11, <2>2 DEF HydrateOrphans, FetchedRange, TypeInv
<1>12. CASE Relink
  <2>1. TypeOK'
    BY <1>0, <1>12 DEF Relink, TypeOK, cursorVars
  <2>. QED  BY <1>0, <1>12, <2>1 DEF Relink, FetchedRange, TypeInv
<1>13. CASE UNCHANGED vars
  BY <1>0, <1>13 DEF vars, ledgerVars, cursorVars, TypeOK, FetchedRange, TypeInv
<1>. QED
  BY <1>1, <1>2, <1>3, <1>4, <1>5, <1>6, <1>7, <1>8, <1>9, <1>10, <1>11, <1>12, <1>13
  DEF Next, IngestStep

\* The tables and the polls in flight keep their types.
THEOREM TypeCorrect == Spec => []TypeOK
<1>1. Spec => []TypeInv
  BY TypeInit, TypeStep, PTL DEF Spec
<1>2. TypeInv => TypeOK
  BY DEF TypeInv
<1>. QED  BY <1>1, <1>2, PTL

-----------------------------------------------------------------------------
(* No gap behind the cursor.  NoGap alone is not inductive: a poll commits  *)
(* a cursor from the items it fetched earlier, so what the feed no longer   *)
(* shows, and what lies before a poll in flight, must be accounted for too. *)

Accounted(u) == polled[u] \cup missed[u]

\* What has aged out of the feed is accounted for.
FeedInv ==
    \A u \in Users : alive[u] =>
        \A p \in Plays : p + Window <= heard[u] => p \in Accounted(u)

\* So is what lies at or before the cursor, which never runs ahead of the feed.
CursorInv ==
    \A u \in Users : alive[u] =>
        /\ cursor[u] <= heard[u]
        /\ \A p \in Plays : p <= cursor[u] => p \in Accounted(u)

\* And what lies before the items of a poll in flight.
PollInv(u, t) ==
    /\ t.pc = "fetching" => \A p \in Plays : p <= t.after => p \in Accounted(u)
    /\ t.pc \in {"fetched", "stored", "tallied"} =>
         /\ t.upto <= heard[u]
         /\ \A p \in Plays : p < t.from => p \in Accounted(u)

PollsInv == \A u \in Users, w \in Workers : alive[u] => PollInv(u, txn[u][w])

\* A poll that holds the cursor row's lock keeps the account from being deleted.
LockInv == \A u \in Users, w \in Workers : HoldsLock(txn[u][w]) => alive[u]

GapInv == TypeInv /\ FeedInv /\ CursorInv /\ PollsInv /\ LockInv

LEMMA GapInvImpliesNoGap == GapInv => NoGap
BY DEF GapInv, CursorInv, NoGap, Accounted, TypeInv, TypeOK, Plays, Times

LEMMA GapInit == Init => GapInv
<1>. SUFFICES ASSUME Init PROVE GapInv
  OBVIOUS
<1>1. TypeInv
  BY TypeInit
<1>2. FeedInv /\ CursorInv
  BY DEF Init, FeedInv, CursorInv, Plays
<1>3. PollsInv /\ LockInv
  BY DEF Init, PollsInv, PollInv, LockInv, HoldsLock, NoTxn
<1>. QED  BY <1>1, <1>2, <1>3 DEF GapInv

\* A step that leaves the feed, the log and the cursors alone and changes one
\* poll only keeps the invariant if it holds of the new poll.
LEMMA OnePollStep ==
    ASSUME GapInv, TypeInv', NEW u \in Users, NEW w \in Workers, NEW n \in Txn,
           UNCHANGED <<heard, missed, alive, polled, cursor>>,
           txn' = [txn EXCEPT ![u][w] = n],
           alive[u] => PollInv(u, n),
           HoldsLock(n) => alive[u]
    PROVE  GapInv'
<1>0. TypeOK /\ TypeOK' /\ FeedInv /\ CursorInv /\ PollsInv /\ LockInv
  BY DEF GapInv, TypeInv
<1>1. \A v \in Users : Accounted(v)' = Accounted(v)
  BY DEF Accounted
<1>2. FeedInv' /\ CursorInv'
  BY <1>0, <1>1 DEF FeedInv, CursorInv
<1>3. PollsInv'
  <2>1. SUFFICES ASSUME NEW v \in Users, NEW x \in Workers, alive'[v]
                 PROVE  PollInv(v, txn[v][x])'
    BY DEF PollsInv
  <2>2. alive[v] /\ heard'[v] = heard[v] /\ Accounted(v)' = Accounted(v)
    BY <1>1, <2>1
  <2>3. txn'[v][x] = IF v = u /\ x = w THEN n ELSE txn[v][x]
    BY <1>0 DEF TypeOK
  <2> DEFINE t == txn'[v][x]
  <2>4. PollInv(v, t)
    BY <1>0, <2>2, <2>3 DEF PollsInv
  <2>. QED  BY <2>2, <2>4 DEF PollInv
<1>4. LockInv'
  BY <1>0 DEF LockInv, HoldsLock, TypeOK
<1>. QED  BY <1>2, <1>3, <1>4 DEF GapInv

\* And for a step that changes no poll: at least as much is heard and
\* accounted for afterwards for every account that is still there.
LEMMA NoPollStep ==
    ASSUME GapInv, TypeInv', UNCHANGED <<txn, cursor>>,
           \A v \in Users : alive'[v] => /\ alive[v]
                                         /\ heard[v] <= heard'[v]
                                         /\ Accounted(v) \subseteq Accounted(v)',
           \A v \in Users : alive[v] /\ ~alive'[v] => ~Locked(v),
           FeedInv'
    PROVE  GapInv'
<1>0. TypeOK /\ TypeOK' /\ CursorInv /\ PollsInv /\ LockInv
  BY DEF GapInv, TypeInv
<1>1. CursorInv'
  BY <1>0 DEF CursorInv, TypeOK, Times
<1>2. PollsInv'
  <2>1. SUFFICES ASSUME NEW v \in Users, NEW x \in Workers, alive'[v]
                 PROVE  PollInv(v, txn[v][x])'
    BY DEF PollsInv
  <2>2. txn[v][x] \in Txn /\ txn'[v][x] = txn[v][x]
    BY <1>0 DEF TypeOK
  <2>3. PollInv(v, txn[v][x])
    BY <1>0, <2>1 DEF PollsInv
  <2>. QED  BY <1>0, <2>1, <2>2, <2>3 DEF PollInv, TypeOK, Times, Txn
<1>3. LockInv'
  BY <1>0 DEF LockInv, HoldsLock, Locked, TypeOK
<1>. QED  BY <1>1, <1>2, <1>3 DEF GapInv

LEMMA GapStep == GapInv /\ [Next]_vars => GapInv'
<1>. SUFFICES ASSUME GapInv, [Next]_vars PROVE GapInv'
  OBVIOUS
<1>0. /\ TypeInv' /\ TypeOK /\ TypeOK' /\ FetchedRange
      /\ FeedInv /\ CursorInv /\ PollsInv /\ LockInv
  BY TypeStep DEF GapInv, TypeInv
<1>1. ASSUME NEW u \in Users, Play(u) PROVE GapInv'
  <2>1. \A v \in Users : heard[v] <= heard'[v] /\ Accounted(v) \subseteq Accounted(v)'
    BY <1>0, <1>1 DEF Play, Accounted, TypeOK, Times, ledgerVars
  <2>2. FeedInv'
    <3>1. SUFFICES ASSUME NEW v \in Users, alive'[v], NEW p \in Plays, p + Window <= heard'[v]
                   PROVE  p \in Accounted(v)'
      BY DEF FeedInv
    <3>2. CASE p + Window <= heard[v]
      BY <1>0, <1>1, <2>1, <3>1, <3>2 DEF FeedInv, Play
    <3>3. CASE ~(p + Window <= heard[v])
      <4>1. v = u /\ p = heard[u] + 1 - Window
        BY <1>0, <1>1, <3>1, <3>3 DEF Play, TypeOK, Times, Plays
      <4>2. p \in polled[u] \/ p \in missed'[u]
        BY <1>0, <1>1, <4>1 DEF Play, TypeOK
      <4>. QED  BY <1>1, <4>1, <4>2 DEF Play, Accounted, ledgerVars
    <3>. QED  BY <3>2, <3>3
  <2>. QED  BY <1>0, <1>1, <2>1, <2>2, NoPollStep DEF Play, cursorVars
<1>2. ASSUME NEW u \in Users, ImportFlush(u) PROVE GapInv'
  <2>1. \A v \in Users : Accounted(v)' = Accounted(v)
    BY <1>2 DEF ImportFlush, Accounted
  <2>2. FeedInv'
    BY <1>0, <1>2, <2>1 DEF ImportFlush, FeedInv
  <2>. QED  BY <1>0, <1>2, <2>1, <2>2, NoPollStep DEF ImportFlush, cursorVars, TypeOK, Times
<1>3. ASSUME NEW u \in Users, DeleteAccount(u) PROVE GapInv'
  <2>1. \A v \in Users : alive'[v] => v # u /\ alive[v]
    BY <1>0, <1>3 DEF DeleteAccount, TypeOK
  <2>2. \A v \in Users : v # u => /\ Accounted(v)' = Accounted(v)
                                  /\ cursor'[v] = cursor[v]
                                  /\ heard'[v] = heard[v]
    BY <1>0, <1>3 DEF DeleteAccount, Accounted, TypeOK
  <2>3. FeedInv' /\ CursorInv'
    BY <1>0, <2>1, <2>2 DEF FeedInv, CursorInv
  <2>4. PollsInv'
    <3>1. SUFFICES ASSUME NEW v \in Users, NEW x \in Workers, alive'[v]
                   PROVE  PollInv(v, txn[v][x])'
      BY DEF PollsInv
    <3>2. PollInv(v, txn[v][x]) /\ txn'[v][x] = txn[v][x]
      BY <1>0, <1>3, <2>1, <3>1 DEF PollsInv, DeleteAccount
    <3>. QED  BY <2>1, <2>2, <3>1, <3>2 DEF PollInv
  <2>5. LockInv'
    <3>1. SUFFICES ASSUME NEW v \in Users, NEW x \in Workers, HoldsLock(txn[v][x])
                   PROVE  alive'[v]
      BY <1>3 DEF LockInv, HoldsLock, DeleteAccount
    <3>2. alive[v] /\ v # u
      BY <1>0, <1>3, <3>1 DEF LockInv, DeleteAccount, Locked
    <3>. QED  BY <1>0, <1>3, <3>2 DEF DeleteAccount, TypeOK
  <2>. QED  BY <1>0, <2>3, <2>4, <2>5 DEF GapInv
<1>4. ASSUME NEW u \in Users, NEW w \in Workers, BeginIngest(u, w) PROVE GapInv'
  <2> DEFINE n == [NoTxn EXCEPT !.pc = "fetching", !.fresh = ~hasCursor[u],
                                !.after = cursor[u]]
  <2>1. n \in Txn /\ n.pc = "fetching" /\ n.after = cursor[u]
    BY <1>0, NoTxnType DEF TypeOK, Txn, Phases, NoTxn
  <2>2. txn' = [txn EXCEPT ![u][w] = n] /\ UNCHANGED <<heard, missed, alive, polled, cursor>>
    BY <1>4 DEF BeginIngest, ledgerVars, cursorVars
  <2>3. alive[u] => PollInv(u, n)
    BY <1>0, <2>1 DEF CursorInv, PollInv
  <2>4. HoldsLock(n) => alive[u]
    BY <2>1 DEF HoldsLock
  <2>. HIDE DEF n
  <2>. QED  BY <1>0, <2>1, <2>2, <2>3, <2>4, OnePollStep
<1>5. ASSUME NEW u \in Users, NEW w \in Workers, FetchItems(u, w) PROVE GapInv'
  <2> DEFINE t == txn[u][w]
             oldest == IF heard[u] - Window > t.after THEN heard[u] - Window ELSE t.after
             n == [t EXCEPT !.pc = "fetched", !.from = oldest + 1, !.upto = heard[u]]
  <2>1. t \in Txn /\ t.pc = "fetching" /\ heard[u] \in Nat /\ t.after \in Nat
    BY <1>0, <1>5 DEF TypeOK, FetchItems, Txn, Times
  <2>2. /\ n.pc = "fetched" /\ n.from = oldest + 1 /\ n.upto = heard[u]
        /\ txn' = [txn EXCEPT ![u][w] = n] /\ UNCHANGED <<heard, missed, alive, polled, cursor>>
    BY <1>5, <2>1 DEF FetchItems, ledgerVars, cursorVars, Txn
  <2>3. n \in Txn
    <3>1. txn'[u][w] = n /\ txn'[u][w] \in Txn
      BY <1>0, <2>2 DEF TypeOK
    <3>. QED  BY <3>1
  <2>4. ASSUME alive[u], NEW p \in Plays, p < oldest + 1 PROVE p \in Accounted(u)
    <3>1. p \in Nat
      BY DEF Plays
    <3>2. CASE p <= t.after
      BY <1>0, <2>1, <2>4, <3>2 DEF PollsInv, PollInv
    <3>3. CASE p + Window <= heard[u]
      BY <1>0, <2>4, <3>3 DEF FeedInv
    <3>. QED  BY <2>1, <2>4, <3>1, <3>2, <3>3
  <2>5. alive[u] => PollInv(u, n)
    BY <2>1, <2>2, <2>4 DEF PollInv
  <2>6. HoldsLock(n) => alive[u]
    BY <2>2 DEF HoldsLock
  <2>. HIDE DEF n
  <2>. QED  BY <1>0, <2>2, <2>3, <2>5, <2>6, OnePollStep
<1>6. ASSUME NEW u \in Users, NEW w \in Workers, FetchNothing(u, w) PROVE GapInv'
  <2>1. PollInv(u, NoTxn) /\ ~HoldsLock(NoTxn)
    BY DEF PollInv, HoldsLock, NoTxn
  <2>2. txn' = [txn EXCEPT ![u][w] = NoTxn] /\ UNCHANGED <<heard, missed, alive, polled, cursor>>
    BY <1>6 DEF FetchNothing, ledgerVars
  <2>. QED  BY <1>0, <2>1, <2>2, NoTxnType, OnePollStep
<1>7. ASSUME NEW u \in Users, NEW w \in Workers, StoreStreams(u, w) PROVE GapInv'
  <2> DEFINE t == txn[u][w]
             n == [t EXCEPT !.pc = "stored"]
  <2>1. t \in Txn /\ t.pc = "fetched" /\ alive[u]
    BY <1>0, <1>7 DEF TypeOK, StoreStreams
  <2>2. n.pc = "stored" /\ n.from = t.from /\ n.upto = t.upto
    BY <2>1 DEF Txn
  <2>3. txn' = [txn EXCEPT ![u][w] = n] /\ UNCHANGED <<heard, missed, alive, polled, cursor>>
    BY <1>0, <1>7 DEF StoreStreams, ledgerVars, cursorVars, TypeOK
  <2>4. n \in Txn
    <3>1. txn'[u][w] = n /\ txn'[u][w] \in Txn
      BY <1>0, <2>3 DEF TypeOK
    <3>. QED  BY <3>1
  <2>5. PollInv(u, n)
    BY <1>0, <2>1, <2>2 DEF PollsInv, PollInv
  <2>. HIDE DEF n
  <2>. QED  BY <1>0, <2>1, <2>3, <2>4, <2>5, OnePollStep
<1>8. ASSUME NEW u \in Users, NEW w \in Workers, RefreshRollups(u, w) PROVE GapInv'
  <2> DEFINE t == txn[u][w]
             n == [t EXCEPT !.pc = "tallied",
                    !.tally = Tally(polled[u] \cup Items(t), imported[u], linked[u])]
  <2>1. t \in Txn /\ t.pc = "stored" /\ alive[u]
    BY <1>0, <1>8 DEF TypeOK, RefreshRollups, LockInv, HoldsLock
  <2>2. n.pc = "tallied" /\ n.from = t.from /\ n.upto = t.upto
    BY <2>1 DEF Txn
  <2>3. txn' = [txn EXCEPT ![u][w] = n] /\ UNCHANGED <<heard, missed, alive, polled, cursor>>
    BY <1>8 DEF RefreshRollups, ledgerVars, cursorVars
  <2>4. n \in Txn
    <3>1. txn'[u][w] = n /\ txn'[u][w] \in Txn
      BY <1>0, <2>3 DEF TypeOK
    <3>. QED  BY <3>1
  <2>5. PollInv(u, n)
    BY <1>0, <2>1, <2>2 DEF PollsInv, PollInv
  <2>. HIDE DEF n
  <2>. QED  BY <1>0, <2>1, <2>3, <2>4, <2>5, OnePollStep
<1>9. ASSUME NEW u \in Users, NEW w \in Workers, CommitIngest(u, w) PROVE GapInv'
  <2> DEFINE t == txn[u][w]
  <2>1. /\ t \in Txn /\ t.pc = "tallied" /\ alive[u]
        /\ 1 <= t.from /\ t.upto <= heard[u]
        /\ \A p \in Plays : p < t.from => p \in Accounted(u)
    BY <1>0, <1>9 DEF TypeOK, CommitIngest, FetchedRange, LockInv, HoldsLock, PollsInv, PollInv
  <2>2. \A v \in Users : Accounted(v) \subseteq Accounted(v)'
    BY <1>0, <1>9 DEF CommitIngest, Accounted, TypeOK
  <2>3. \A p \in Plays : p <= t.upto => p \in Accounted(u)'
    <3>1. SUFFICES ASSUME NEW p \in Plays, p <= t.upto PROVE p \in Accounted(u)'
      OBVIOUS
    <3>2. CASE p < t.from
      BY <2>1, <2>2, <3>2
    <3>3. CASE ~(p < t.from)
      <4>1. p \in Items(t)
        BY <2>1, <3>1, <3>3 DEF Items, Plays, Txn, Times
      <4>. QED  BY <1>0, <1>9, <4>1 DEF CommitIngest, Accounted, TypeOK
    <3>. QED  BY <3>2, <3>3
  <2>4. FeedInv'
    BY <1>0, <1>9, <2>2 DEF FeedInv, CommitIngest
  <2>5. CursorInv'
    <3>1. \A v \in Users : cursor'[v] = IF v = u THEN t.upto ELSE cursor[v]
      BY <1>0, <1>9 DEF CommitIngest, TypeOK
    <3>. QED  BY <1>0, <1>9, <2>1, <2>2, <2>3, <3>1 DEF CursorInv, CommitIngest
  <2>6. PollsInv'
    <3>1. SUFFICES ASSUME NEW v \in Users, NEW x \in Workers, alive'[v]
                   PROVE  PollInv(v, txn[v][x])'
      BY DEF PollsInv
    <3>2. CASE v = u /\ x = w
      <4>1. txn'[v][x] = NoTxn
        BY <1>0, <1>9, <3>2 DEF CommitIngest, TypeOK
      <4>. QED  BY <4>1 DEF PollInv, NoTxn
    <3>3. CASE ~(v = u /\ x = w)
      <4>1. txn'[v][x] = txn[v][x] /\ heard' = heard /\ alive[v]
        BY <1>0, <1>9, <3>1, <3>3 DEF CommitIngest, TypeOK
      <4>2. PollInv(v, txn[v][x])
        BY <1>0, <4>1 DEF PollsInv
      <4>. QED  BY <2>2, <4>1, <4>2 DEF PollInv
    <3>. QED  BY <3>2, <3>3
  <2>7. LockInv'
    BY <1>0, <1>9 DEF LockInv, HoldsLock, CommitIngest, TypeOK, NoTxn
  <2>. QED  BY <1>0, <2>4, <2>5, <2>6, <2>7 DEF GapInv
<1>10. ASSUME NEW u \in Users, NEW w \in Workers, AbortIngest(u, w) PROVE GapInv'
  <2>1. PollInv(u, NoTxn) /\ ~HoldsLock(NoTxn)
    BY DEF PollInv, HoldsLock, NoTxn
  <2>2. txn' = [txn EXCEPT ![u][w] = NoTxn] /\ UNCHANGED <<heard, missed, alive, polled, cursor>>
    BY <1>10 DEF AbortIngest, ledgerVars, cursorVars
  <2>. QED  BY <1>0, <2>1, <2>2, NoTxnType, OnePollStep
<1>11. ASSUME UNCHANGED <<heard, missed, alive, polled, cursor, txn>> PROVE GapInv'
  <2>1. \A v \in Users : Accounted(v)' = Accounted(v)
    BY <1>11 DEF Accounted
  <2>2. FeedInv'
    BY <1>0, <1>11, <2>1 DEF FeedInv
  <2>. QED  BY <1>0, <1>11, <2>1, <2>2, NoPollStep DEF TypeOK, Times
<1>12. CASE HydrateOrphans
  BY <1>11, <1>12 DEF HydrateOrphans, ledgerVars, cursorVars
<1>13. CASE Relink
  BY <1>11, <1>13 DEF Relink, cursorVars
<1>14. CASE UNCHANGED vars
  BY <1>11, <1>14 DEF vars, ledgerVars, cursorVars
<1>. QED
  BY <1>1, <1>2, <1>3, <1>4, <1>5, <1>6, <1>7, <1>8, <1>9, <1>10, <1>12, <1>13, <1>14
  DEF Next, IngestStep

LEMMA GapAlways == Spec => []GapInv
BY GapInit, GapStep, PTL DEF Spec

\* No play is skipped: whatever lies behind the cursor was logged, or had left
\* the feed before it could be (ingest_recently_played).
THEOREM NoGapTheorem == Spec => []NoGap
BY GapAlways, GapInvImpliesNoGap, PTL

-----------------------------------------------------------------------------
(* A deleted account stays empty.  The strengthening is LockInv: whoever    *)
(* is about to write rows holds a lock that the deletion had to wait for.   *)

LEMMA DeletedInit == Init => NothingLeftOfDeleted
BY DEF Init, NothingLeftOfDeleted

LEMMA DeletedStep == GapInv /\ NothingLeftOfDeleted /\ [Next]_vars => NothingLeftOfDeleted'
<1>. SUFFICES ASSUME GapInv, NothingLeftOfDeleted, [Next]_vars PROVE NothingLeftOfDeleted'
  OBVIOUS
<1>0. TypeOK /\ LockInv
  BY DEF GapInv, TypeInv
<1>1. ASSUME UNCHANGED <<alive, ledgerVars, hasCursor, rollup>> PROVE NothingLeftOfDeleted'
  BY <1>1 DEF NothingLeftOfDeleted, ledgerVars
<1>2. ASSUME NEW u \in Users, Play(u) PROVE NothingLeftOfDeleted'
  BY <1>1, <1>2 DEF Play, cursorVars
<1>3. ASSUME NEW u \in Users, ImportFlush(u) PROVE NothingLeftOfDeleted'
  BY <1>0, <1>3 DEF ImportFlush, NothingLeftOfDeleted, TypeOK, cursorVars
<1>4. ASSUME NEW u \in Users, DeleteAccount(u) PROVE NothingLeftOfDeleted'
  BY <1>0, <1>4 DEF DeleteAccount, NothingLeftOfDeleted, TypeOK
<1>5. ASSUME NEW u \in Users, NEW w \in Workers, IngestStep(u, w) PROVE NothingLeftOfDeleted'
  <2>1. CASE BeginIngest(u, w) \/ FetchItems(u, w) \/ StoreStreams(u, w)
             \/ RefreshRollups(u, w) \/ AbortIngest(u, w)
    BY <1>1, <2>1 DEF BeginIngest, FetchItems, StoreStreams, RefreshRollups, AbortIngest,
                      cursorVars
  <2>2. CASE FetchNothing(u, w)
    BY <1>0, <2>2 DEF FetchNothing, NothingLeftOfDeleted, TypeOK, ledgerVars
  <2>3. CASE CommitIngest(u, w)
    <3>1. alive[u]
      BY <1>0, <2>3 DEF CommitIngest, LockInv, HoldsLock
    <3>. QED  BY <1>0, <2>3, <3>1 DEF CommitIngest, NothingLeftOfDeleted, TypeOK
  <2>. QED  BY <1>5, <2>1, <2>2, <2>3 DEF IngestStep
<1>6. CASE HydrateOrphans
  BY <1>1, <1>6 DEF HydrateOrphans, cursorVars
<1>7. CASE Relink
  <2>1. \A u \in Users : imported[u] = {} /\ linked[u] = {} => linked'[u] = {}
    BY <1>7 DEF Relink
  <2>. QED  BY <1>7, <2>1 DEF Relink, NothingLeftOfDeleted, cursorVars
<1>8. CASE UNCHANGED vars
  BY <1>1, <1>8 DEF vars, cursorVars
<1>. QED  BY <1>2, <1>3, <1>4, <1>5, <1>6, <1>7, <1>8 DEF Next

\* No poll, import or relink in flight brings back a row of a deleted account
\* (delete_account).
THEOREM DeletedTheorem == Spec => []NothingLeftOfDeleted
<1>1. GapInv /\ NothingLeftOfDeleted /\ [Next]_vars => NothingLeftOfDeleted'
  BY DeletedStep
<1>. QED  BY <1>1, DeletedInit, GapAlways, PTL DEF Spec

-----------------------------------------------------------------------------
(* The ledger implements PlayHistory *)

\* Only imported rows are ever linked.
LinkedInv == \A u \in Users : linked[u] \subseteq imported[u]

LEMMA LinkedAlways == Spec => []LinkedInv
<1>1. Init => LinkedInv
  BY DEF Init, LinkedInv
<1>2. TypeOK /\ LinkedInv /\ [Next]_vars => LinkedInv'
  <2>. SUFFICES ASSUME TypeOK, LinkedInv, [Next]_vars PROVE LinkedInv'
    OBVIOUS
  <2>1. ASSUME UNCHANGED <<imported, linked>> PROVE LinkedInv'
    BY <2>1 DEF LinkedInv
  <2>2. ASSUME NEW u \in Users, ImportFlush(u) PROVE LinkedInv'
    BY <2>2 DEF ImportFlush, LinkedInv, TypeOK
  <2>3. ASSUME NEW u \in Users, DeleteAccount(u) PROVE LinkedInv'
    BY <2>3 DEF DeleteAccount, LinkedInv, TypeOK
  <2>4. CASE Relink
    BY <2>4 DEF Relink, LinkedInv, TypeOK
  <2>. QED
    BY <2>1, <2>2, <2>3, <2>4
    DEF Next, IngestStep, Play, BeginIngest, FetchItems, FetchNothing, StoreStreams,
        RefreshRollups, CommitIngest, AbortIngest, HydrateOrphans, vars, ledgerVars
<1>. QED  BY <1>1, <1>2, TypeCorrect, PTL DEF Spec

LEMMA HistoryInit == Init => History!Init
BY DEF Init, History!Init

LEMMA HistoryStep ==
    GapInv /\ LinkedInv /\ [Next]_vars => [History!Next]_(History!historyVars)
<1>. SUFFICES ASSUME GapInv, LinkedInv, [Next]_vars
              PROVE  History!Next \/ UNCHANGED History!historyVars
  OBVIOUS
<1>0. TypeOK /\ TypeInv /\ PollsInv /\ LockInv
  BY DEF GapInv, TypeInv
<1>1. ASSUME NEW u \in Users, Play(u) PROVE History!Hear(u)
  <2> DEFINE out == heard[u] + 1 - Window
             gone == IF out \in Plays \ polled[u] THEN {out} ELSE {}
  <2>1. gone \in SUBSET {p \in 1..MaxPlays : p <= heard[u] + 1 - Window}
    BY <1>0 DEF Plays, TypeOK, Times
  <2>2. gone \cap polled[u] = {}
    OBVIOUS
  <2>3. missed' = [missed EXCEPT ![u] = @ \cup gone]
    <3>1. CASE out \in Plays \ polled[u]
      BY <1>1, <3>1 DEF Play
    <3>2. CASE ~(out \in Plays \ polled[u])
      BY <1>0, <1>1, <3>2 DEF Play, TypeOK
    <3>. QED  BY <3>1, <3>2
  <2>. HIDE DEF gone
  <2>. QED  BY <1>1, <2>1, <2>2, <2>3 DEF Play, History!Hear, ledgerVars
<1>2. ASSUME NEW u \in Users, ImportFlush(u) PROVE History!Import(u)
  BY <1>2 DEF ImportFlush, History!Import
<1>3. ASSUME NEW u \in Users, DeleteAccount(u) PROVE History!Leave(u)
  BY <1>3 DEF DeleteAccount, History!Leave
<1>4. ASSUME NEW u \in Users, NEW w \in Workers, CommitIngest(u, w) PROVE History!Log(u)
  <2> DEFINE t == txn[u][w]
             S == Items(t)
  <2>1. /\ t \in Txn /\ alive[u] /\ 1 <= t.from /\ t.upto <= heard[u] /\ heard[u] \in Nat
        /\ heard[u] <= MaxPlays
        /\ \A p \in Plays : p < t.from => p \in Accounted(u)
    BY <1>0, <1>4 DEF TypeOK, TypeInv, CommitIngest, FetchedRange, LockInv, HoldsLock,
                      PollsInv, PollInv, Times
  <2>2. S \in SUBSET (1..heard[u])
    BY <2>1 DEF Items, Txn, Times
  <2>3. ASSUME NEW p \in S, NEW q \in 1..p PROVE q \in polled[u] \cup S \cup missed[u]
    <3>1. p \in Nat /\ q \in Nat /\ q \in Plays /\ q <= t.upto
      BY <2>1, <2>2, <2>3 DEF Items, Plays, Txn, Times
    <3>2. CASE q < t.from
      BY <2>1, <3>1, <3>2 DEF Accounted
    <3>3. CASE ~(q < t.from)
      BY <2>1, <3>1, <3>3 DEF Items, Txn, Times
    <3>. QED  BY <3>2, <3>3
  <2>4. polled' = [polled EXCEPT ![u] = @ \cup S]
        /\ UNCHANGED <<heard, missed, alive, imported, linked>>
    BY <1>4 DEF CommitIngest
  <2>. HIDE DEF S
  <2>. QED  BY <2>1, <2>2, <2>3, <2>4 DEF History!Log
<1>5. CASE Relink
  BY <1>0, <1>5 DEF Relink, LinkedInv, TypeOK, Plays, History!Next, History!Attach
<1>6. CASE HydrateOrphans
  BY <1>6 DEF HydrateOrphans, ledgerVars, History!historyVars
<1>7. ASSUME NEW u \in Users, NEW w \in Workers,
             BeginIngest(u, w) \/ FetchItems(u, w) \/ FetchNothing(u, w)
             \/ StoreStreams(u, w) \/ RefreshRollups(u, w) \/ AbortIngest(u, w)
      PROVE  UNCHANGED History!historyVars
  BY <1>7 DEF BeginIngest, FetchItems, FetchNothing, StoreStreams, RefreshRollups,
              AbortIngest, ledgerVars, History!historyVars
<1>8. CASE UNCHANGED vars
  BY <1>8 DEF vars, ledgerVars, History!historyVars
<1>. QED
  BY <1>1, <1>2, <1>3, <1>4, <1>5, <1>6, <1>7, <1>8 DEF Next, IngestStep, History!Next

\* Every behaviour of the poller, the importer, the relink and the deletion is
\* a behaviour of the abstract history.
THEOREM Refinement == Spec => ImplementsHistory
<1>1. GapInv /\ LinkedInv /\ [Next]_vars => [History!Next]_(History!historyVars)
  BY HistoryStep
<1>. QED
  BY <1>1, HistoryInit, GapAlways, LinkedAlways, PTL DEF Spec, ImplementsHistory, History!Spec
-----------------------------------------------------------------------------
(* The listening clock.  A recount is stale by the time it is committed:    *)
(* imports and relinks go on beside it, so it may be below what the ledger  *)
(* then holds.  It is never below what the polls have logged, because the   *)
(* row lock of sync_cursors keeps every other poll of the account, and its  *)
(* deletion, out between the recount and the commit.                        *)

InHour(S, h) == {p \in S : HourOf[p] = h}
TracksOf(S) == {TrackOf[p] : p \in S}

\* A bucket between the recount of P alone and that of all rows.
Justified(b, P, I, L, h) ==
    /\ b.streams \in Tally(P, {}, {})[h].streams .. Tally(P, I, L)[h].streams
    /\ b.tracks \in Tally(P, {}, {})[h].tracks .. Tally(P, I, L)[h].tracks

\* Only one poll of an account is past its flush.
OneLock ==
    \A u \in Users, w, x \in Workers :
        HoldsLock(txn[u][w]) /\ HoldsLock(txn[u][x]) => w = x

\* A recount about to be committed is still justified.
TallyInv ==
    \A u \in Users, w \in Workers :
        txn[u][w].pc = "tallied" =>
            \A h \in Hours :
                Justified(txn[u][w].tally[h], polled[u] \cup Items(txn[u][w]),
                          imported[u], linked[u], h)

RollupInv == OneLock /\ TallyInv /\ RollupBounds

\* Cardinalities of subsets of the plays, and of their tracks.
LEMMA HourCounts ==
    ASSUME NEW S \in SUBSET Plays, NEW R \in SUBSET S
    PROVE  /\ Cardinality(S) \in Nat /\ Cardinality(R) \in Nat
           /\ Cardinality(R) <= Cardinality(S)
           /\ Cardinality(TracksOf(S)) \in Nat
           /\ Cardinality(TracksOf(R)) \in Nat
           /\ Cardinality(TracksOf(R)) <= Cardinality(TracksOf(S))
<1>1. IsFiniteSet(Plays)
  BY FS_Interval DEF Plays
<1>2. IsFiniteSet(S) /\ IsFiniteSet(R)
  BY <1>1, FS_Subset
<1>3. IsFiniteSet(TracksOf(S)) /\ IsFiniteSet(TracksOf(R))
  BY <1>2, ImageFinite DEF TracksOf
<1>4. TracksOf(R) \subseteq TracksOf(S)
  BY DEF TracksOf
<1>. QED  BY <1>2, <1>3, <1>4, FS_Subset, FS_CardinalityType

\* The buckets of a recount, spelt out.
LEMMA TallyAt ==
    ASSUME NEW P, NEW I, NEW L, NEW h \in Hours
    PROVE  /\ Tally(P, I, L)[h].streams = Cardinality(InHour(P, h)) + Cardinality(InHour(I, h))
           /\ Tally(P, I, L)[h].tracks = Cardinality(TracksOf(InHour(P \cup L, h)))
BY DEF Tally, InHour, TracksOf

\* More rows, no smaller recount.
LEMMA TallyGrows ==
    ASSUME NEW P \in SUBSET Plays, NEW J \in SUBSET Plays, NEW K \in SUBSET Plays,
           NEW I \in SUBSET J, NEW L \in SUBSET K, NEW h \in Hours
    PROVE  /\ Tally(P, I, L)[h].streams \in Nat /\ Tally(P, I, L)[h].tracks \in Nat
           /\ Tally(P, J, K)[h].streams \in Nat /\ Tally(P, J, K)[h].tracks \in Nat
           /\ Tally(P, I, L)[h].streams <= Tally(P, J, K)[h].streams
           /\ Tally(P, I, L)[h].tracks <= Tally(P, J, K)[h].tracks
<1>1. /\ InHour(P, h) \in SUBSET Plays
      /\ InHour(J, h) \in SUBSET Plays /\ InHour(I, h) \in SUBSET InHour(J, h)
      /\ InHour(P \cup K, h) \in SUBSET Plays
      /\ InHour(P \cup L, h) \in SUBSET InHour(P \cup K, h)
  BY DEF InHour
<1>2. /\ Cardinality(InHour(P, h)) \in Nat /\ Cardinality(InHour(I, h)) \in Nat
      /\ Cardinality(InHour(J, h)) \in Nat
      /\ Cardinality(InHour(I, h)) <= Cardinality(InHour(J, h))
  BY <1>1, HourCounts
<1>3. /\ Cardinality(TracksOf(InHour(P \cup L, h))) \in Nat
      /\ Cardinality(TracksOf(InHour(P \cup K, h))) \in Nat
      /\ Cardinality(TracksOf(InHour(P \cup L, h)))
           <= Cardinality(TracksOf(InHour(P \cup K, h)))
  BY <1>1, HourCounts
<1>4. /\ Tally(P, I, L)[h].streams = Cardinality(InHour(P, h)) + Cardinality(InHour(I, h))
      /\ Tally(P, I, L)[h].tracks = Cardinality(TracksOf(InHour(P \cup L, h)))
  BY DEF Tally, InHour, TracksOf
<1>5. /\ Tally(P, J, K)[h].streams = Cardinality(InHour(P, h)) + Cardinality(InHour(J, h))
      /\ Tally(P, J, K)[h].tracks = Cardinality(TracksOf(InHour(P \cup K, h)))
  BY DEF Tally, InHour, TracksOf
<1>. QED  BY <1>2, <1>3, <1>4, <1>5

\* A recount is justified by the rows it counts.
LEMMA TallyJustified ==
    ASSUME NEW P \in SUBSET Plays, NEW I \in SUBSET Plays, NEW L \in SUBSET Plays,
           NEW h \in Hours
    PROVE  Justified(Tally(P, I, L)[h], P, I, L, h)
<1>1. {} \in SUBSET I /\ {} \in SUBSET L
  OBVIOUS
<1>2. /\ Tally(P, {}, {})[h].streams \in Nat /\ Tally(P, {}, {})[h].tracks \in Nat
      /\ Tally(P, I, L)[h].streams \in Nat /\ Tally(P, I, L)[h].tracks \in Nat
      /\ Tally(P, {}, {})[h].streams <= Tally(P, I, L)[h].streams
      /\ Tally(P, {}, {})[h].tracks <= Tally(P, I, L)[h].tracks
  BY <1>1, TallyGrows
<1>. QED  BY <1>2 DEF Justified

\* It stays justified when rows are imported or linked,
LEMMA JustifiedGrows ==
    ASSUME NEW P \in SUBSET Plays, NEW J \in SUBSET Plays, NEW K \in SUBSET Plays,
           NEW I \in SUBSET J, NEW L \in SUBSET K, NEW h \in Hours, NEW b,
           Justified(b, P, I, L, h)
    PROVE  Justified(b, P, J, K, h)
<1>1. {} \in SUBSET Plays /\ {} \in SUBSET {}
  OBVIOUS
<1>2. Tally(P, {}, {})[h].streams \in Nat /\ Tally(P, {}, {})[h].tracks \in Nat
  BY <1>1, TallyGrows
<1>3. /\ Tally(P, I, L)[h].streams \in Nat /\ Tally(P, I, L)[h].tracks \in Nat
      /\ Tally(P, J, K)[h].streams \in Nat /\ Tally(P, J, K)[h].tracks \in Nat
      /\ Tally(P, I, L)[h].streams <= Tally(P, J, K)[h].streams
      /\ Tally(P, I, L)[h].tracks <= Tally(P, J, K)[h].tracks
  BY TallyGrows
<1>. QED  BY <1>2, <1>3 DEF Justified

\* and when a poll logs rows of other hours only.
LEMMA JustifiedSame ==
    ASSUME NEW P, NEW Q, NEW I, NEW L, NEW h \in Hours, NEW b,
           InHour(P, h) = InHour(Q, h), Justified(b, P, I, L, h)
    PROVE  Justified(b, Q, I, L, h)
<1>1. /\ InHour(P \cup L, h) = InHour(Q \cup L, h)
      /\ InHour(P \cup {}, h) = InHour(Q \cup {}, h)
  BY DEF InHour
<1>2. /\ Tally(P, I, L)[h].streams = Tally(Q, I, L)[h].streams
      /\ Tally(P, I, L)[h].tracks = Tally(Q, I, L)[h].tracks
      /\ Tally(P, {}, {})[h].streams = Tally(Q, {}, {})[h].streams
      /\ Tally(P, {}, {})[h].tracks = Tally(Q, {}, {})[h].tracks
  <2>1. ASSUME NEW A, NEW B, InHour(P \cup B, h) = InHour(Q \cup B, h)
        PROVE  /\ Tally(P, A, B)[h].streams = Tally(Q, A, B)[h].streams
               /\ Tally(P, A, B)[h].tracks = Tally(Q, A, B)[h].tracks
    <3>1. /\ Tally(P, A, B)[h].streams = Cardinality(InHour(P, h)) + Cardinality(InHour(A, h))
          /\ Tally(P, A, B)[h].tracks = Cardinality(TracksOf(InHour(P \cup B, h)))
      BY TallyAt
    <3>2. /\ Tally(Q, A, B)[h].streams = Cardinality(InHour(Q, h)) + Cardinality(InHour(A, h))
          /\ Tally(Q, A, B)[h].tracks = Cardinality(TracksOf(InHour(Q \cup B, h)))
      BY TallyAt
    <3>. QED  BY <2>1, <3>1, <3>2
  <2>. QED  BY <1>1, <2>1
<1>. QED  BY <1>2 DEF Justified

\* A justified bucket that counts no stream has no logged play in its hour.
LEMMA JustifiedZero ==
    ASSUME NEW P \in SUBSET Plays, NEW I, NEW L, NEW h \in Hours, NEW b,
           Justified(b, P, I, L, h), ~(b.streams > 0)
    PROVE  InHour(P, h) = {}
<1>1. InHour(P, h) \in SUBSET Plays /\ IsFiniteSet(InHour(P, h))
  <2>1. IsFiniteSet(Plays)
    BY FS_Interval DEF Plays
  <2>2. InHour(P, h) \subseteq Plays
    BY DEF InHour
  <2>. QED  BY <2>1, <2>2, FS_Subset
<1>2. InHour({}, h) = {} /\ Cardinality({}) = 0
  BY FS_EmptySet DEF InHour
<1>3. Tally(P, {}, {})[h].streams = Cardinality(InHour(P, h)) + 0
  <2>1. Tally(P, {}, {})[h].streams = Cardinality(InHour(P, h)) + Cardinality(InHour({}, h))
    BY TallyAt
  <2>. QED  BY <1>2, <2>1
<1>4. Cardinality(InHour(P, h)) \in Nat
  BY <1>1, FS_CardinalityType
<1>5. b.streams \in Int /\ Tally(P, {}, {})[h].streams <= b.streams
  BY <1>3, <1>4 DEF Justified
<1>6. Cardinality(InHour(P, h)) = 0
  BY <1>3, <1>4, <1>5
<1>. QED  BY <1>1, <1>6, FS_EmptySet

LEMMA BoundsAreJustified ==
    RollupBounds <=> \A u \in Users, h \in Hours :
                        Justified(rollup[u][h], polled[u], imported[u], linked[u], h)
BY DEF RollupBounds, Justified
\* No rows, an empty clock.
LEMMA EmptyJustified ==
    ASSUME NEW h \in Hours
    PROVE  Justified(EmptyRollup[h], {}, {}, {}, h)
<1>1. InHour({}, h) = {} /\ InHour({} \cup {}, h) = {} /\ TracksOf({}) = {}
  BY DEF InHour, TracksOf
<1>2. Cardinality({}) = 0
  BY FS_EmptySet
<1>3. /\ Tally({}, {}, {})[h].streams = Cardinality(InHour({}, h)) + Cardinality(InHour({}, h))
      /\ Tally({}, {}, {})[h].tracks = Cardinality(TracksOf(InHour({} \cup {}, h)))
  BY TallyAt
<1>4. Tally({}, {}, {})[h].streams = 0 /\ Tally({}, {}, {})[h].tracks = 0
  <2>1. Cardinality(InHour({}, h)) = 0 /\ Cardinality(TracksOf(InHour({} \cup {}, h))) = 0
    BY <1>1, <1>2, Zenon
  <2>. QED  BY <1>3, <2>1
<1>5. EmptyRollup[h].streams = 0 /\ EmptyRollup[h].tracks = 0
  BY DEF EmptyRollup
<1>. QED  BY <1>4, <1>5 DEF Justified

\* The steps that leave the logged rows, the buckets and the phases past the
\* flush alone: the ledger may only have grown.
LEMMA RollupKeeps ==
    ASSUME TypeInv, TypeInv', RollupInv, UNCHANGED <<polled, rollup>>,
           \A u \in Users : imported[u] \subseteq imported'[u] /\ linked[u] \subseteq linked'[u],
           \A u \in Users, w \in Workers :
              txn'[u][w] = txn[u][w] \/ ~HoldsLock(txn'[u][w])
    PROVE  RollupInv'
<1>0. \A u \in Users : /\ polled[u] \in SUBSET Plays
                       /\ imported'[u] \in SUBSET Plays /\ linked'[u] \in SUBSET Plays
  BY DEF TypeInv, TypeOK
<1>1. OneLock'
  BY DEF RollupInv, OneLock, HoldsLock
<1>2. TallyInv'
  <2>. SUFFICES ASSUME NEW u \in Users, NEW w \in Workers, txn'[u][w].pc = "tallied",
                       NEW h \in Hours
                PROVE  Justified(txn'[u][w].tally[h], polled'[u] \cup Items(txn'[u][w]),
                                 imported'[u], linked'[u], h)
    BY DEF TallyInv, Items, Justified, Tally
  <2>1. txn'[u][w] = txn[u][w]
    BY DEF HoldsLock
  <2>2. polled[u] \cup Items(txn[u][w]) \in SUBSET Plays
    <3>1. txn[u][w] \in Txn /\ 1 <= txn[u][w].from
      BY <2>1 DEF TypeInv, TypeOK, FetchedRange
    <3>2. txn[u][w].from \in Int
      BY <3>1 DEF Txn, Times
    <3>3. Items(txn[u][w]) \in SUBSET Plays
      BY <3>1, <3>2, ItemsType
    <3>. QED  BY <1>0, <3>3
  <2>3. Justified(txn[u][w].tally[h], polled[u] \cup Items(txn[u][w]), imported[u], linked[u], h)
    BY <2>1 DEF RollupInv, TallyInv
  <2>4. Justified(txn[u][w].tally[h], polled[u] \cup Items(txn[u][w]), imported'[u], linked'[u], h)
    BY <1>0, <2>2, <2>3, JustifiedGrows
  <2>. QED  BY <2>1, <2>4
<1>3. RollupBounds'
  <2>. SUFFICES ASSUME NEW u \in Users, NEW h \in Hours
                PROVE  Justified(rollup'[u][h], polled'[u], imported'[u], linked'[u], h)
    BY DEF RollupBounds, Justified
  <2>1. Justified(rollup[u][h], polled[u], imported[u], linked[u], h)
    BY BoundsAreJustified DEF RollupInv
  <2>2. Justified(rollup[u][h], polled[u], imported'[u], linked'[u], h)
    BY <1>0, <2>1, JustifiedGrows
  <2>. QED  BY <2>2
<1>. QED  BY <1>1, <1>2, <1>3 DEF RollupInv

LEMMA RollupInit == Init => RollupInv
<1>. SUFFICES ASSUME Init PROVE RollupInv
  OBVIOUS
<1>1. OneLock /\ TallyInv
  BY DEF Init, OneLock, TallyInv, HoldsLock, NoTxn
<1>2. ASSUME NEW u \in Users, NEW h \in Hours
      PROVE  Justified(rollup[u][h], polled[u], imported[u], linked[u], h)
  BY <1>2, EmptyJustified DEF Init
<1>. QED  BY <1>1, <1>2, BoundsAreJustified DEF RollupInv

LEMMA RollupStep == GapInv /\ RollupInv /\ [Next]_vars => RollupInv'
<1>. SUFFICES ASSUME GapInv, RollupInv, [Next]_vars PROVE RollupInv'
  OBVIOUS
<1>0. /\ TypeInv /\ TypeInv' /\ TypeOK /\ FetchedRange
      /\ OneLock /\ TallyInv /\ RollupBounds
  BY TypeStep DEF GapInv, TypeInv, RollupInv
\* One poll changes, and does not hold the lock afterwards.
<1>a. ASSUME NEW u \in Users, NEW w \in Workers, NEW n, ~HoldsLock(n),
             txn' = [txn EXCEPT ![u][w] = n],
             UNCHANGED <<polled, imported, linked, rollup>>
      PROVE  RollupInv'
  <2>1. \A v \in Users, x \in Workers :
          txn'[v][x] = txn[v][x] \/ ~HoldsLock(txn'[v][x])
    BY <1>0, <1>a DEF TypeOK
  <2>. QED  BY <1>0, <1>a, <2>1, RollupKeeps
<1>b. ASSUME UNCHANGED <<polled, rollup, txn>>,
             \A u \in Users : imported[u] \subseteq imported'[u] /\ linked[u] \subseteq linked'[u]
      PROVE  RollupInv'
  BY <1>0, <1>b, RollupKeeps
<1>1. ASSUME NEW u \in Users, Play(u) PROVE RollupInv'
  BY <1>b, <1>1 DEF Play, ledgerVars
<1>2. ASSUME NEW u \in Users, ImportFlush(u) PROVE RollupInv'
  <2>1. \A v \in Users : imported[v] \subseteq imported'[v] /\ linked[v] \subseteq linked'[v]
    BY <1>0, <1>2 DEF ImportFlush, TypeOK
  <2>. QED  BY <1>b, <1>2, <2>1 DEF ImportFlush
<1>3. ASSUME NEW u \in Users, DeleteAccount(u) PROVE RollupInv'
  <2>1. \A w \in Workers : ~HoldsLock(txn[u][w])
    BY <1>3 DEF DeleteAccount, Locked
  <2>2. /\ txn' = txn /\ polled'[u] = {} /\ imported'[u] = {} /\ linked'[u] = {}
        /\ rollup'[u] = EmptyRollup
        /\ \A v \in Users \ {u} : /\ polled'[v] = polled[v] /\ imported'[v] = imported[v]
                                  /\ linked'[v] = linked[v] /\ rollup'[v] = rollup[v]
    BY <1>0, <1>3 DEF DeleteAccount, TypeOK
  <2>3. OneLock'
    BY <1>0, <2>2 DEF OneLock, HoldsLock
  <2>4. TallyInv'
    <3>. SUFFICES ASSUME NEW v \in Users, NEW w \in Workers, txn'[v][w].pc = "tallied",
                         NEW h \in Hours
                  PROVE  Justified(txn'[v][w].tally[h], polled'[v] \cup Items(txn'[v][w]),
                                   imported'[v], linked'[v], h)
      BY DEF TallyInv, Items, Justified, Tally
    <3>1. v # u
      BY <2>1, <2>2 DEF HoldsLock
    <3>2. Justified(txn[v][w].tally[h], polled[v] \cup Items(txn[v][w]), imported[v], linked[v], h)
      BY <1>0, <2>2 DEF TallyInv
    <3>. QED  BY <2>2, <3>1, <3>2
  <2>5. ASSUME NEW v \in Users, NEW h \in Hours
        PROVE  Justified(rollup'[v][h], polled'[v], imported'[v], linked'[v], h)
    <3>1. CASE v = u
      BY <2>2, <3>1, EmptyJustified
    <3>2. CASE v # u
      <4>1. Justified(rollup[v][h], polled[v], imported[v], linked[v], h)
        BY <1>0, BoundsAreJustified
      <4>. QED  BY <2>2, <3>2, <4>1
    <3>. QED  BY <3>1, <3>2
  <2>6. RollupBounds'
    BY <2>5 DEF RollupBounds, Justified
  <2>. QED  BY <2>3, <2>4, <2>6 DEF RollupInv
<1>4. ASSUME NEW u \in Users, NEW w \in Workers, BeginIngest(u, w) PROVE RollupInv'
  <2> DEFINE n == [NoTxn EXCEPT !.pc = "fetching", !.fresh = ~hasCursor[u],
                                !.after = cursor[u]]
  <2>1. ~HoldsLock(n)
    BY DEF HoldsLock, NoTxn
  <2>2. txn' = [txn EXCEPT ![u][w] = n] /\ UNCHANGED <<polled, imported, linked, rollup>>
    BY <1>4 DEF BeginIngest, ledgerVars
  <2>. HIDE DEF n
  <2>. QED  BY <1>a, <2>1, <2>2
<1>5. ASSUME NEW u \in Users, NEW w \in Workers, FetchItems(u, w) PROVE RollupInv'
  <2> DEFINE t == txn[u][w]
             oldest == IF heard[u] - Window > t.after THEN heard[u] - Window ELSE t.after
             n == [t EXCEPT !.pc = "fetched", !.from = oldest + 1, !.upto = heard[u]]
  <2>1. ~HoldsLock(n)
    BY <1>0 DEF HoldsLock, TypeOK, Txn
  <2>2. txn' = [txn EXCEPT ![u][w] = n] /\ UNCHANGED <<polled, imported, linked, rollup>>
    BY <1>5 DEF FetchItems, ledgerVars
  <2>. HIDE DEF n
  <2>. QED  BY <1>a, <2>1, <2>2
<1>6. ASSUME NEW u \in Users, NEW w \in Workers, FetchNothing(u, w) PROVE RollupInv'
  <2>1. ~HoldsLock(NoTxn)
    BY DEF HoldsLock, NoTxn
  <2>. QED  BY <1>a, <1>6, <2>1 DEF FetchNothing, ledgerVars
<1>7. ASSUME NEW u \in Users, NEW w \in Workers, StoreStreams(u, w) PROVE RollupInv'
  <2>1. /\ UNCHANGED <<polled, imported, linked, rollup>>
        /\ txn' = [txn EXCEPT ![u][w].pc = "stored"]
        /\ \A x \in Workers : ~HoldsLock(txn[u][x])
    BY <1>7 DEF StoreStreams, Locked, ledgerVars
  <2>2. /\ txn'[u][w].pc = "stored"
        /\ \A v \in Users, x \in Workers : v # u \/ x # w => txn'[v][x] = txn[v][x]
    BY <1>0, <2>1 DEF TypeOK, Txn
  <2>3. OneLock'
    <3>. SUFFICES ASSUME NEW v \in Users, NEW x \in Workers, NEW y \in Workers,
                         HoldsLock(txn'[v][x]), HoldsLock(txn'[v][y])
                  PROVE  x = y
      BY DEF OneLock, HoldsLock
    <3>. QED  BY <1>0, <2>1, <2>2 DEF OneLock
  <2>4. TallyInv'
    <3>. SUFFICES ASSUME NEW v \in Users, NEW x \in Workers, txn'[v][x].pc = "tallied",
                         NEW h \in Hours
                  PROVE  Justified(txn'[v][x].tally[h], polled'[v] \cup Items(txn'[v][x]),
                                   imported'[v], linked'[v], h)
      BY DEF TallyInv, Items, Justified, Tally
    <3>1. txn'[v][x] = txn[v][x]
      BY <2>2
    <3>2. Justified(txn[v][x].tally[h], polled[v] \cup Items(txn[v][x]), imported[v], linked[v], h)
      BY <1>0, <3>1 DEF TallyInv
    <3>. QED  BY <2>1, <3>1, <3>2
  <2>5. RollupBounds'
    BY <1>0, <2>1 DEF RollupBounds
  <2>. QED  BY <2>3, <2>4, <2>5 DEF RollupInv
<1>8. ASSUME NEW u \in Users, NEW w \in Workers, RefreshRollups(u, w) PROVE RollupInv'
  <2>0. PICK t : t = txn[u][w]
    OBVIOUS
  <2>1. /\ t \in Txn /\ t.pc = "stored" /\ 1 <= t.from
        /\ UNCHANGED <<polled, imported, linked, rollup>>
        /\ txn' = [txn EXCEPT ![u][w] =
             [t EXCEPT !.pc = "tallied",
                       !.tally = Tally(polled[u] \cup Items(t), imported[u], linked[u])]]
    BY <1>0, <1>8, <2>0 DEF TypeOK, RefreshRollups, FetchedRange, ledgerVars
  <2>2. /\ txn'[u][w].pc = "tallied" /\ Items(txn'[u][w]) = Items(t)
        /\ txn'[u][w].tally = Tally(polled[u] \cup Items(t), imported[u], linked[u])
        /\ \A v \in Users, x \in Workers : v # u \/ x # w => txn'[v][x] = txn[v][x]
    BY <1>0, <2>1 DEF TypeOK, Txn, Items
  <2>3. /\ polled[u] \cup Items(t) \in SUBSET Plays
        /\ imported[u] \in SUBSET Plays /\ linked[u] \in SUBSET Plays
    <3>1. Items(t) \in SUBSET Plays
      BY <2>1, ItemsType DEF Txn, Times
    <3>. QED  BY <1>0, <3>1 DEF TypeOK
  <2>4. OneLock'
    <3>. SUFFICES ASSUME NEW v \in Users, NEW x \in Workers, NEW y \in Workers,
                         HoldsLock(txn'[v][x]), HoldsLock(txn'[v][y])
                  PROVE  x = y
      BY DEF OneLock, HoldsLock
    <3>1. HoldsLock(txn[u][w])
      BY <2>0, <2>1 DEF HoldsLock
    <3>. QED  BY <1>0, <2>2, <3>1 DEF OneLock
  <2>5. TallyInv'
    <3>. SUFFICES ASSUME NEW v \in Users, NEW x \in Workers, txn'[v][x].pc = "tallied",
                         NEW h \in Hours
                  PROVE  Justified(txn'[v][x].tally[h], polled'[v] \cup Items(txn'[v][x]),
                                   imported'[v], linked'[v], h)
      BY DEF TallyInv, Items, Justified, Tally
    <3>1. CASE v = u /\ x = w
      <4>1. Justified(Tally(polled[u] \cup Items(t), imported[u], linked[u])[h],
                      polled[u] \cup Items(t), imported[u], linked[u], h)
        BY <2>3, TallyJustified
      <4>. QED  BY <2>1, <2>2, <3>1, <4>1
    <3>2. CASE v # u \/ x # w
      <4>1. txn'[v][x] = txn[v][x]
        BY <2>2, <3>2
      <4>2. Justified(txn[v][x].tally[h], polled[v] \cup Items(txn[v][x]),
                      imported[v], linked[v], h)
        BY <1>0, <4>1 DEF TallyInv
      <4>. QED  BY <2>1, <4>1, <4>2
    <3>. QED  BY <3>1, <3>2
  <2>6. RollupBounds'
    BY <1>0, <2>1 DEF RollupBounds
  <2>. QED  BY <2>4, <2>5, <2>6 DEF RollupInv
<1>9. ASSUME NEW u \in Users, NEW w \in Workers, CommitIngest(u, w) PROVE RollupInv'
  <2>0. PICK t : t = txn[u][w]
    OBVIOUS
  <2>1. /\ t \in Txn /\ t.pc = "tallied" /\ 1 <= t.from /\ t.from <= t.upto
        /\ UNCHANGED <<imported, linked>>
        /\ polled' = [polled EXCEPT ![u] = @ \cup Items(t)]
        /\ txn' = [txn EXCEPT ![u][w] = NoTxn]
        /\ rollup' = [rollup EXCEPT ![u] =
                        [h \in Hours |-> IF h \in Refreshed(t) THEN t.tally[h] ELSE @[h]]]
    BY <1>0, <1>9, <2>0 DEF TypeOK, CommitIngest, FetchedRange
  <2>2. /\ txn'[u][w] = NoTxn
        /\ polled'[u] = polled[u] \cup Items(t)
        /\ \A h \in Hours : rollup'[u][h] = IF h \in Refreshed(t) THEN t.tally[h] ELSE rollup[u][h]
        /\ \A v \in Users \ {u} : polled'[v] = polled[v] /\ rollup'[v] = rollup[v]
        /\ \A v \in Users, x \in Workers : v # u \/ x # w => txn'[v][x] = txn[v][x]
    BY <1>0, <2>1 DEF TypeOK
  <2>3. Items(t) \in SUBSET Plays /\ \A p \in Items(t) : HourOf[t.from] <= HourOf[p]
    <3>1. t.from \in Plays /\ \A p \in Items(t) : p \in Plays /\ t.from <= p
      BY <2>1 DEF Items, Txn, Times, Plays
    <3>. QED  BY <3>1 DEF ConstantsAssumption
  <2>4. OneLock'
    <3>. SUFFICES ASSUME NEW v \in Users, NEW x \in Workers, NEW y \in Workers,
                         HoldsLock(txn'[v][x]), HoldsLock(txn'[v][y])
                  PROVE  x = y
      BY DEF OneLock, HoldsLock
    <3>1. ~HoldsLock(txn'[u][w])
      BY <2>2 DEF HoldsLock, NoTxn
    <3>. QED  BY <1>0, <2>2, <3>1 DEF OneLock
  <2>5. TallyInv'
    <3>. SUFFICES ASSUME NEW v \in Users, NEW x \in Workers, txn'[v][x].pc = "tallied",
                         NEW h \in Hours
                  PROVE  Justified(txn'[v][x].tally[h], polled'[v] \cup Items(txn'[v][x]),
                                   imported'[v], linked'[v], h)
      BY DEF TallyInv, Items, Justified, Tally
    <3>1. ~(v = u /\ x = w)
      BY <2>2 DEF NoTxn
    <3>2. txn'[v][x] = txn[v][x]
      BY <2>2, <3>1
    \* A second poll of this account would hold the lock too.
    <3>3. v # u
      BY <1>0, <2>0, <2>1, <3>1, <3>2 DEF OneLock, HoldsLock
    <3>4. Justified(txn[v][x].tally[h], polled[v] \cup Items(txn[v][x]),
                    imported[v], linked[v], h)
      BY <1>0, <3>2 DEF TallyInv
    <3>. QED  BY <2>1, <2>2, <3>2, <3>3, <3>4
  <2>6. ASSUME NEW v \in Users, NEW h \in Hours
        PROVE  Justified(rollup'[v][h], polled'[v], imported'[v], linked'[v], h)
    <3>0. Justified(rollup[v][h], polled[v], imported[v], linked[v], h)
      BY <1>0, BoundsAreJustified
    <3>1. CASE v # u
      <4>1. /\ rollup'[v] = rollup[v] /\ polled'[v] = polled[v]
            /\ imported'[v] = imported[v] /\ linked'[v] = linked[v]
        BY <2>1, <2>2, <3>1
      <4>. QED  BY <3>0, <4>1
    <3>2. CASE v = u /\ h \in Refreshed(t)
      <4>1. Justified(t.tally[h], polled[u] \cup Items(t), imported[u], linked[u], h)
        BY <1>0, <2>0, <2>1 DEF TallyInv
      <4>2. /\ rollup'[u][h] = t.tally[h] /\ polled'[u] = polled[u] \cup Items(t)
            /\ imported'[u] = imported[u] /\ linked'[u] = linked[u]
        BY <2>1, <2>2, <3>2
      <4>. QED  BY <3>2, <4>1, <4>2
    <3>3. CASE v = u /\ h \notin Refreshed(t)
      <4>1. InHour(polled[u] \cup Items(t), h) = InHour(polled[u], h)
        <5>1. CASE ~(h >= HourOf[t.from])
          <6>1. \A p \in Items(t) : HourOf[p] # h
            BY <2>3, <5>1
          <6>. QED  BY <6>1 DEF InHour
        <5>2. CASE ~(t.tally[h].streams > 0)
          <6>1. Justified(t.tally[h], polled[u] \cup Items(t), imported[u], linked[u], h)
            BY <1>0, <2>0, <2>1 DEF TallyInv
          <6>2. polled[u] \cup Items(t) \in SUBSET Plays
            BY <1>0, <2>3 DEF TypeOK
          <6>3. InHour(polled[u] \cup Items(t), h) = {}
            BY <5>2, <6>1, <6>2, JustifiedZero
          <6>. QED  BY <6>3 DEF InHour
        <5>. QED  BY <3>3, <5>1, <5>2 DEF Refreshed
      <4>2. Justified(rollup[u][h], polled[u] \cup Items(t), imported[u], linked[u], h)
        BY <3>0, <3>3, <4>1, JustifiedSame
      <4>. QED  BY <2>1, <2>2, <3>3, <4>2
    <3>. QED  BY <3>1, <3>2, <3>3
  <2>7. RollupBounds'
    BY <2>6 DEF RollupBounds, Justified
  <2>. QED  BY <2>4, <2>5, <2>7 DEF RollupInv
<1>10. ASSUME NEW u \in Users, NEW w \in Workers, AbortIngest(u, w) PROVE RollupInv'
  <2>1. ~HoldsLock(NoTxn)
    BY DEF HoldsLock, NoTxn
  <2>. QED  BY <1>a, <1>10, <2>1 DEF AbortIngest, ledgerVars
<1>11. CASE HydrateOrphans
  BY <1>b, <1>11 DEF HydrateOrphans, ledgerVars
<1>12. CASE Relink
  <2>1. \A v \in Users : imported[v] \subseteq imported'[v] /\ linked[v] \subseteq linked'[v]
    BY <1>12 DEF Relink
  <2>. QED  BY <1>b, <1>12, <2>1 DEF Relink
<1>13. CASE UNCHANGED vars
  BY <1>b, <1>13 DEF vars, ledgerVars
<1>. QED
  BY <1>1, <1>2, <1>3, <1>4, <1>5, <1>6, <1>7, <1>8, <1>9, <1>10, <1>11, <1>12, <1>13
  DEF Next, IngestStep

\* The clock shows no stream the ledger lacks and lacks none that a poll logged,
\* however recounts, imports and relinks overlap (refresh_hourly_rollups).
THEOREM RollupTheorem == Spec => []RollupBounds
<1>1. RollupInv => RollupBounds
  BY DEF RollupInv
<1>2. GapInv /\ RollupInv /\ [Next]_vars => RollupInv'
  BY RollupStep
<1>. QED  BY <1>1, <1>2, RollupInit, GapAlways, PTL DEF Spec
=============================================================================
