--------------------------- MODULE CatalogProofs ---------------------------
(***************************************************************************)
(* What is proved of Catalog for any number of accounts, artists, tracks   *)
(* and further writers, any limits and any credits, next to one sweep and  *)
(* one task: its types, and that the genres in the cache are in the table  *)
(* or on their way into it unless their writer did not commit.             *)
(***************************************************************************)
EXTENDS Catalog, TLAPS

USE CatalogAssumption

-----------------------------------------------------------------------------
(* Where a driver is *)

Ids == Artists \cup Tracks
RunType == [pc : {"idle", "account", "artists", "lookup", "harvest",
                  "stored", "tracks", "fetch", "held", "relink",
                  "ask", "heard", "scan", "upserted"},
            left : SUBSET Accounts, account : SUBSET Accounts, ok : BOOLEAN,
            ids : SUBSET Ids, artists : SUBSET Artists, tracks : SUBSET (Tracks \ Unknown)]

\* What a driver holds and asks for at each of its steps: the sweep commits its artists
\* before it asks for tracks, the task keeps them to the end.
Holds(d, q) ==
    /\ q.pc \in {"idle", "account", "artists", "lookup", "harvest", "relink", "ask", "scan"}
         => q.artists = {}
    /\ d = "sweep" /\ q.pc \in {"tracks", "fetch", "held"} => q.artists = {}
    /\ q.pc \in {"lookup", "ask", "scan"} => q.ids \subseteq Artists
    /\ q.pc = "fetch" => q.ids \subseteq Tracks

RunsOK == run \in [Drivers -> RunType] /\ \A d \in Drivers : Holds(d, run[d])

\* The rest of TypeOK.
RowsOK ==
    /\ artist \in [Artists -> {"absent", "named", "full"}]
    /\ tracks \subseteq Tracks \ Unknown /\ orphans \subseteq imported
    /\ imported \subseteq Tracks
    /\ cached \subseteq Artists /\ astray \subseteq Artists
    /\ restricted \in {"no", "set", "seen"} /\ harvested \in BOOLEAN
    /\ refused \in BOOLEAN /\ dead \subseteq Accounts
    /\ faults \in 0..MaxFaults /\ changes \in 0..MaxChanges

CatalogInv == RowsOK /\ RunsOK

LEMMA CatalogTypes == CatalogInv => TypeOK
BY DEF CatalogInv, RowsOK, RunsOK, RunType, Drivers, TypeOK

LEMMA IdleIs == Idle \in RunType /\ \A d \in Drivers : Holds(d, Idle)
BY DEF Idle, RunType, Holds

LEMMA CatalogInit == Init => CatalogInv
<1>. SUFFICES ASSUME Init PROVE CatalogInv
  OBVIOUS
<1>1. RowsOK
  <2>1. refused \in BOOLEAN /\ harvested \in BOOLEAN
    BY Zenon DEF Init
  <2>2. faults \in 0..MaxFaults /\ changes \in 0..MaxChanges
    BY DEF Init, CatalogAssumption
  <2>3. artist \in [Artists -> {"absent", "named", "full"}]
    BY DEF Init
  <2>. QED  BY <2>1, <2>2, <2>3 DEF Init, RowsOK
<1>2. run = [d \in Drivers |-> Idle]
  BY DEF Init
<1>. HIDE DEF Idle
<1>. QED  BY <1>1, <1>2, IdleIs DEF CatalogInv, RunsOK

\* One driver goes on.
LEMMA GoesOn ==
    ASSUME RunsOK, NEW d \in Drivers, NEW q \in RunType, Holds(d, q), run' = [run EXCEPT ![d] = q]
    PROVE  RunsOK'
<1>1. run' \in [Drivers -> RunType]
  BY DEF RunsOK
<1>2. ASSUME NEW o \in Drivers PROVE Holds(o, run'[o])
  BY <1>2 DEF RunsOK
<1>. QED  BY <1>1, <1>2 DEF RunsOK, Holds

LEMMA BatchIs == \A S, limit : \A T \in Batch(S, limit) : T \subseteq S
BY DEF Batch

\* What is left of a driver after a step that failed, or the end of a transaction.
LEMMA EndedIs ==
    ASSUME RunsOK, NEW d \in Drivers, NEW half \in {"artists", "tracks"},
           NEW q \in {Failed(d, half), Succeeded(d)}
    PROVE  q \in RunType /\ q.artists = {} /\ q.pc \notin {"lookup", "fetch", "ask", "scan"}
<1>. DEFINE next == IF half = "artists" THEN "tracks" ELSE AfterAccount(run[d].ok, run[d].left)
            last == IF Half(d) = "artists" THEN "tracks" ELSE "relink"
<1>1. run[d] \in RunType
  BY DEF RunsOK
<1>2. next \in {"tracks", "relink", "account"} /\ last \in {"tracks", "relink"}
  BY DEF AfterAccount
<1>3. CASE q = Idle
  BY <1>3 DEF Idle, RunType
<1>4. CASE q = [run[d] EXCEPT !.ids = {}, !.artists = {}, !.tracks = {}, !.pc = next]
  <2>. HIDE DEF next
  <2>. QED  BY <1>1, <1>2, <1>4 DEF RunType
<1>5. CASE q = [run[d] EXCEPT !.ids = {}, !.ok = TRUE, !.artists = {}, !.tracks = {}, !.pc = last]
  <2>. HIDE DEF last
  <2>. QED  BY <1>1, <1>2, <1>5 DEF RunType
<1>. QED  BY <1>3, <1>4, <1>5 DEF Failed, Succeeded

LEMMA EndedOK ==
    ASSUME RunsOK, NEW d \in Drivers, NEW half \in {"artists", "tracks"},
           NEW q \in {Failed(d, half), Succeeded(d)}, run' = [run EXCEPT ![d] = q]
    PROVE  RunsOK'
<1>1. q \in RunType /\ q.artists = {} /\ q.pc \notin {"lookup", "fetch", "ask", "scan"}
  BY EndedIs
<1>2. Holds(d, q)
  BY <1>1 DEF Holds
<1>. QED  BY <1>1, <1>2, GoesOn

LEMMA StoreOK ==
    ASSUME RunsOK, NEW d \in Drivers, NEW found \in SUBSET Artists, StoreArtists(d, found),
           run[d].pc \in {"lookup", "harvest", "ask", "scan"}
    PROVE  RunsOK'
<1>. DEFINE next == AfterArtists(run[d].pc, d)
            q == [run[d] EXCEPT !.pc = next, !.artists = found, !.ids = {}]
<1>1. run[d] \in RunType
  BY DEF RunsOK
<1>2. next \in {"tracks", "stored", "heard", "upserted"} /\ (next = "tracks" => d = "task")
  BY DEF AfterArtists
<1>3. run' = [run EXCEPT ![d] = q]
  BY <1>1 DEF StoreArtists, RunsOK
<1>. HIDE DEF next
<1>4. q \in RunType /\ q.pc = next /\ q.artists = found /\ q.ids = {}
  BY <1>1, <1>2 DEF RunType
<1>. HIDE DEF q
<1>5. Holds(d, q)
  BY <1>2, <1>4 DEF Holds
<1>. QED  BY <1>3, <1>4, <1>5, GoesOn

\* A purge of tracks asks for their artists.
LEMMA ScanIs ==
    ASSUME NEW T \in SUBSET (Tracks \ Unknown), NEW missing \in SUBSET Artists, NEW d \in Drivers,
           NEW pc \in {"ask", "scan", "upserted"},
           NEW q, q = [Idle EXCEPT !.pc = pc, !.tracks = T, !.ids = missing]
    PROVE  q \in RunType /\ q.artists = {} /\ Holds(d, q)
BY DEF RunType, Holds, Idle, Ids

\* What a poll, an evaluation or a purge begins with.
LEMMA WriterBegins ==
    ASSUME NEW w \in Writers, PollStores(w) \/ GuardAsks(w) \/ PurgeScans(w)
    PROVE  \E pc \in {"ask", "scan", "upserted"}, T \in SUBSET (Tracks \ Unknown),
              missing \in SUBSET Artists : Begins(w, pc, T, missing)
<1>1. CASE PollStores(w)
  BY <1>1 DEF PollStores
<1>2. CASE GuardAsks(w)
  <2>1. PICK t \in Tracks : Begins(w, "ask", {}, Credits[t] \ cached)
    BY <1>2 DEF GuardAsks
  <2>2. Credits[t] \ cached \in SUBSET Artists
    BY DEF CatalogAssumption
  <2>. QED  BY <2>1, <2>2
<1>3. CASE PurgeScans(w)
  <2>1. PICK T \in SUBSET (Tracks \ Unknown) :
          LET missing == UNION {Credits[t] : t \in T} \ cached
          IN  Begins(w, IF missing = {} THEN "upserted" ELSE "scan", T, missing)
    BY <1>3 DEF PurgeScans
  <2>2. UNION {Credits[t] : t \in T} \ cached \in SUBSET Artists
    BY DEF CatalogAssumption
  <2>. QED  BY <2>1, <2>2
<1>. QED  BY <1>1, <1>2, <1>3

-----------------------------------------------------------------------------
(* Types *)

LEMMA RunsStep == RunsOK /\ RowsOK /\ [Next]_vars => RunsOK'
<1>. SUFFICES ASSUME RunsOK, RowsOK, [Next]_vars PROVE RunsOK'
  OBVIOUS
<1>0. run \in [Drivers -> RunType] /\ \A d \in Drivers : Holds(d, run[d])
  BY DEF RunsOK
<1>1. ASSUME NEW d \in Drivers, NEW q \in RunType, run' = [run EXCEPT ![d] = q], Holds(d, q)
      PROVE  RunsOK'
  BY <1>1, GoesOn
<1>2. ASSUME NEW d \in Drivers, NEW half \in {"artists", "tracks"}, RollBack(d, half) PROVE RunsOK'
  BY <1>2, EndedOK DEF RollBack
<1>3. ASSUME SweepBegin PROVE RunsOK'
  <2>1. PICK left \in Batch(Accounts, Attempts) :
          run' = [run EXCEPT !["sweep"].pc = "account", !["sweep"].left = left]
    BY <1>3 DEF SweepBegin
  <2>. DEFINE q == [run["sweep"] EXCEPT !.pc = "account", !.left = left]
  <2>2. run["sweep"] \in RunType /\ "sweep" \in Drivers /\ run["sweep"].pc = "idle"
    BY <1>0, <1>3 DEF Drivers, SweepBegin
  <2>3. run' = [run EXCEPT !["sweep"] = q]
    BY <1>0, <2>1, <2>2
  <2>4. left \subseteq Accounts
    BY BatchIs
  <2>5. q \in RunType /\ q.pc = "account" /\ q.artists = run["sweep"].artists
    BY <2>2, <2>4 DEF RunType
  <2>. HIDE DEF q
  <2>6. Holds("sweep", q)
    BY <1>0, <2>2, <2>5 DEF Holds
  <2>. QED  BY <1>1, <2>2, <2>3, <2>5, <2>6
<1>4. ASSUME SweepAccount PROVE RunsOK'
  <2>1. PICK u \in run["sweep"].left :
          LET left == run["sweep"].left \ {u}
          IN  run' = [run EXCEPT !["sweep"] = [Idle EXCEPT !.left = left,
                 !.account = {u} \ dead,
                 !.pc = IF u \in dead THEN AfterAccount(FALSE, left) ELSE "artists"]]
    BY <1>4 DEF SweepAccount
  <2>. DEFINE left == run["sweep"].left \ {u}
              next == IF u \in dead THEN AfterAccount(FALSE, left) ELSE "artists"
              q == [Idle EXCEPT !.left = left, !.account = {u} \ dead, !.pc = next]
  <2>2. run["sweep"] \in RunType /\ "sweep" \in Drivers
    BY <1>0 DEF Drivers
  <2>3. left \subseteq Accounts /\ u \in Accounts
    BY <2>2 DEF RunType
  <2>4. run' = [run EXCEPT !["sweep"] = q]
    BY <2>1
  <2>5. next \in {"relink", "account", "artists"}
    BY DEF AfterAccount
  <2>. HIDE DEF left, next
  <2>6. q \in RunType /\ q.pc = next /\ q.artists = {}
    BY <2>3, <2>5 DEF RunType, Idle
  <2>. HIDE DEF q
  <2>7. Holds("sweep", q)
    BY <2>5, <2>6 DEF Holds
  <2>. QED  BY <1>1, <2>2, <2>4, <2>6, <2>7
<1>5. ASSUME TaskBegin PROVE RunsOK'
  <2>1. PICK next \in {"relink", "artists"} : run' = [run EXCEPT !["task"].pc = next]
    BY <1>5 DEF TaskBegin
  <2>. DEFINE q == [run["task"] EXCEPT !.pc = next]
  <2>2. run["task"] \in RunType /\ "task" \in Drivers /\ run["task"].artists = {}
    BY <1>0, <1>5 DEF TaskBegin, Holds, Drivers
  <2>3. q \in RunType /\ q.pc = next /\ q.artists = {}
    BY <2>2 DEF RunType
  <2>4. run' = [run EXCEPT !["task"] = q]
    BY <1>0, <2>1, <2>2
  <2>. HIDE DEF q
  <2>5. Holds("task", q)
    BY <2>3 DEF Holds
  <2>. QED  BY <1>1, <2>2, <2>3, <2>4, <2>5
<1>6. ASSUME NEW d \in Drivers, AskCatalogue(d) PROVE RunsOK'
  <2>1. PICK ids \in Batch(Named, ArtistLimit) :
          run' = [run EXCEPT ![d] = IF ids # {} THEN [@ EXCEPT !.pc = "lookup", !.ids = ids]
                                    ELSE [@ EXCEPT !.pc = "tracks", !.ok = TRUE]]
    BY <1>6 DEF AskCatalogue
  <2>2. run[d] \in RunType /\ run[d].pc = "artists" /\ run[d].artists = {}
    BY <1>0, <1>6 DEF AskCatalogue, Holds
  <2>3. ids \subseteq Artists
    BY BatchIs DEF Named
  <2>4. CASE ids # {}
    <3>. DEFINE q == [run[d] EXCEPT !.pc = "lookup", !.ids = ids]
    <3>1. q \in RunType /\ q.pc = "lookup" /\ q.ids = ids /\ q.artists = run[d].artists
      BY <2>2, <2>3 DEF RunType, Ids
    <3>2. run' = [run EXCEPT ![d] = q]
      BY <2>1, <2>4
    <3>. HIDE DEF q
    <3>3. Holds(d, q)
      BY <2>2, <2>3, <3>1 DEF Holds
    <3>. QED  BY <1>1, <3>1, <3>2, <3>3
  <2>5. CASE ids = {}
    <3>. DEFINE q == [run[d] EXCEPT !.pc = "tracks", !.ok = TRUE]
    <3>1. q \in RunType /\ q.pc = "tracks" /\ q.artists = run[d].artists
      BY <2>2 DEF RunType
    <3>2. run' = [run EXCEPT ![d] = q]
      BY <2>1, <2>5
    <3>. HIDE DEF q
    <3>3. Holds(d, q)
      BY <2>2, <3>1 DEF Holds
    <3>. QED  BY <1>1, <3>1, <3>2, <3>3
  <2>. QED  BY <2>4, <2>5
<1>7. ASSUME AskListening PROVE RunsOK'
  <2>1. run' = [run EXCEPT !["sweep"] = IF harvested THEN [@ EXCEPT !.pc = "tracks", !.ok = TRUE]
                                        ELSE [@ EXCEPT !.pc = "harvest"]]
    BY <1>7 DEF AskListening
  <2>2. /\ run["sweep"] \in RunType /\ "sweep" \in Drivers
        /\ run["sweep"].pc = "artists" /\ run["sweep"].artists = {}
    BY <1>0, <1>7 DEF AskListening, Holds, Drivers
  <2>3. ASSUME NEW q \in {[run["sweep"] EXCEPT !.pc = "tracks", !.ok = TRUE],
                          [run["sweep"] EXCEPT !.pc = "harvest"]}, run' = [run EXCEPT !["sweep"] = q]
        PROVE  RunsOK'
    <3>1. q \in RunType /\ q.pc \in {"tracks", "harvest"} /\ q.artists = run["sweep"].artists
      BY <2>2 DEF RunType
    <3>2. Holds("sweep", q)
      BY <2>2, <3>1 DEF Holds
    <3>. QED  BY <1>1, <2>2, <2>3, <3>1, <3>2
  <2>. QED  BY <2>1, <2>3
<1>8. ASSUME NEW d \in Drivers, Lookup(d) PROVE RunsOK'
  <2>1. run[d].pc = "lookup" /\ run[d].ids \subseteq Artists
    BY <1>0, <1>8 DEF Lookup, Holds
  <2>2. CASE run' = [run EXCEPT ![d] = Failed(d, "artists")]
    BY <2>2, EndedOK
  <2>3. CASE StoreArtists(d, Answered(run[d].ids))
    <3>1. Answered(run[d].ids) \subseteq Artists
      BY <2>1 DEF Answered
    <3>. QED  BY <2>1, <2>3, <3>1, StoreOK
  <2>. QED  BY <1>8, <2>2, <2>3 DEF Lookup
<1>9. ASSUME Harvest PROVE RunsOK'
  <2>. DEFINE found == UNION {Follows[u] : u \in run["sweep"].account}
  <2>1. run["sweep"] \in RunType /\ "sweep" \in Drivers /\ run["sweep"].pc = "harvest"
    BY <1>0, <1>9 DEF Harvest, Drivers
  <2>2. found \subseteq Artists
    BY <2>1 DEF CatalogAssumption, RunType
  <2>3. StoreArtists("sweep", found)
    BY <1>9 DEF Harvest
  <2>. HIDE DEF found
  <2>. QED  BY <2>1, <2>2, <2>3, StoreOK
<1>10. ASSUME NEW d \in Drivers, AskTracks(d) PROVE RunsOK'
  <2>1. PICK ids \in Batch(orphans, TrackLimit) :
          run' = [run EXCEPT ![d] = IF ids # {} THEN [@ EXCEPT !.pc = "fetch", !.ids = ids]
                                    ELSE IF d = "sweep" THEN Succeeded(d) ELSE [@ EXCEPT !.pc = "held"]]
    BY <1>10 DEF AskTracks
  <2>2. /\ run[d] \in RunType /\ run[d].pc = "tracks"
        /\ d = "sweep" => run[d].artists = {}
    BY <1>0, <1>10 DEF AskTracks, Holds
  <2>3. ids \subseteq Tracks
    BY BatchIs DEF RowsOK
  <2>4. CASE ids # {}
    <3>. DEFINE q == [run[d] EXCEPT !.pc = "fetch", !.ids = ids]
    <3>1. q \in RunType /\ q.pc = "fetch" /\ q.ids = ids /\ q.artists = run[d].artists
      BY <2>2, <2>3 DEF RunType, Ids
    <3>2. run' = [run EXCEPT ![d] = q]
      BY <2>1, <2>4
    <3>. HIDE DEF q
    <3>3. Holds(d, q)
      BY <2>2, <2>3, <3>1 DEF Holds
    <3>. QED  BY <1>1, <3>1, <3>2, <3>3
  <2>5. CASE ids = {} /\ d = "sweep"
    <3>1. run' = [run EXCEPT ![d] = Succeeded(d)]
      BY <2>1, <2>5
    <3>. QED  BY <3>1, EndedOK
  <2>6. CASE ids = {} /\ d # "sweep"
    <3>. DEFINE q == [run[d] EXCEPT !.pc = "held"]
    <3>1. q \in RunType /\ q.pc = "held" /\ q.artists = run[d].artists
      BY <2>2 DEF RunType
    <3>2. run' = [run EXCEPT ![d] = q]
      BY <2>1, <2>6
    <3>. HIDE DEF q
    <3>3. Holds(d, q)
      BY <2>2, <2>6, <3>1 DEF Holds
    <3>. QED  BY <1>1, <3>1, <3>2, <3>3
  <2>. QED  BY <2>4, <2>5, <2>6
<1>11. ASSUME NEW d \in Drivers, Fetch(d) PROVE RunsOK'
  <2>. DEFINE found == Answered(run[d].ids)
              q == [run[d] EXCEPT !.pc = "held", !.tracks = found, !.ids = {}]
  <2>1. /\ run[d] \in RunType /\ run[d].pc = "fetch" /\ run[d].ids \subseteq Tracks
        /\ d = "sweep" => run[d].artists = {}
    BY <1>0, <1>11 DEF Fetch, Holds
  <2>2. found \subseteq Tracks \ Unknown
    BY <2>1 DEF Answered
  <2>3. run' = [run EXCEPT ![d] = q]
    BY <1>0, <1>11 DEF Fetch
  <2>. HIDE DEF found
  <2>4. q \in RunType /\ q.pc = "held" /\ q.artists = run[d].artists
    BY <2>1, <2>2 DEF RunType
  <2>. HIDE DEF q
  <2>5. Holds(d, q)
    BY <2>1, <2>4 DEF Holds
  <2>. QED  BY <2>3, <2>4, <2>5, GoesOn
<1>12. ASSUME NEW d \in Drivers, Commit(d) PROVE RunsOK'
  <2>1. run' = [run EXCEPT ![d] = Succeeded(d)]
    BY <1>12 DEF Commit
  <2>. QED  BY <2>1, EndedOK
<1>13. ASSUME NEW d \in Drivers, run' = [run EXCEPT ![d] = Idle] PROVE RunsOK'
  <2>. HIDE DEF Idle
  <2>. QED  BY <1>13, IdleIs, GoesOn
<1>14. ASSUME NEW w \in Writers, PollStores(w) \/ GuardAsks(w) \/ PurgeScans(w) PROVE RunsOK'
  <2>1. PICK pc \in {"ask", "scan", "upserted"}, T \in SUBSET (Tracks \ Unknown),
             missing \in SUBSET Artists : Begins(w, pc, T, missing)
    BY <1>14, WriterBegins
  <2>2. PICK q : q = [Idle EXCEPT !.pc = pc, !.tracks = T, !.ids = missing]
    OBVIOUS
  <2>3. w \in Drivers
    BY DEF Drivers
  <2>4. q \in RunType /\ Holds(w, q)
    BY <2>2, <2>3, ScanIs
  <2>5. run' = [run EXCEPT ![w] = q]
    BY <2>1, <2>2 DEF Begins
  <2>. QED  BY <1>1, <2>3, <2>4, <2>5
<1>15. ASSUME NEW w \in Writers, WriterLookup(w) PROVE RunsOK'
  <2>1. /\ w \in Drivers /\ run[w] \in RunType /\ run[w].pc \in {"ask", "scan"}
        /\ run[w].artists = {} /\ run[w].ids \subseteq Artists
    BY <1>0, <1>15 DEF WriterLookup, Holds, Drivers
  <2>2. CASE run' = [run EXCEPT ![w] = Idle]
    BY <1>13, <2>1, <2>2
  <2>3. CASE run' = [run EXCEPT ![w] = [@ EXCEPT !.pc = "upserted", !.ids = {}]]
    <3>. DEFINE q == [run[w] EXCEPT !.pc = "upserted", !.ids = {}]
    <3>1. q \in RunType /\ q.pc = "upserted"
      BY <2>1 DEF RunType
    <3>2. run' = [run EXCEPT ![w] = q]
      BY <2>3
    <3>. HIDE DEF q
    <3>3. Holds(w, q)
      BY <3>1 DEF Holds
    <3>. QED  BY <1>1, <2>1, <3>1, <3>2, <3>3
  <2>4. CASE StoreArtists(w, Answered(run[w].ids))
    <3>1. Answered(run[w].ids) \subseteq Artists
      BY <2>1 DEF Answered
    <3>. QED  BY <2>1, <2>4, <3>1, StoreOK
  <2>. QED  BY <1>15, <2>2, <2>3, <2>4 DEF WriterLookup
<1>16. CASE run' = run
  BY <1>16 DEF RunsOK
<1>17. ASSUME NEW d \in Drivers, Fail(d) PROVE RunsOK'
  BY <1>2, <1>17 DEF Fail, Half
<1>18. ASSUME NEW d \in Drivers, NEW o \in Drivers, Deadlock(d, o) PROVE RunsOK'
  BY <1>2, <1>18 DEF Deadlock
<1>19. ASSUME NEW w \in Writers, WriterCommits(w) \/ LetPlay(w) PROVE RunsOK'
  BY <1>2, <1>13, <1>19 DEF WriterCommits, LetPlay, Drivers
<1>20. CASE SweepStep \/ TaskStep
  BY <1>3, <1>4, <1>5, <1>6, <1>7, <1>8, <1>9, <1>10, <1>11, <1>12, <1>13, <1>20
     DEF SweepStep, TaskStep, DriverStep, Relink, Drivers
<1>. QED  BY <1>14, <1>15, <1>16, <1>17, <1>18, <1>19, <1>20
     DEF Next, Resolve, WriterStep, Import, Expire, CooldownEnds, HarvestEnds, Change, vars

\* What a commit writes of the artists.
LEMMA CreditedIs ==
    ASSUME NEW known \in [Artists -> {"absent", "named", "full"}], NEW T
    PROVE  /\ Credited(known, T) \in [Artists -> {"absent", "named", "full"}]
           /\ \A a \in Artists : known[a] = "full" => Credited(known, T)[a] = "full"
BY DEF Credited

LEMMA CommitIs ==
    ASSUME CatalogInv, NEW d \in Drivers, CommitDriver(d)
    PROVE  /\ artist' \in [Artists -> {"absent", "named", "full"}]
           /\ \A a \in Artists : artist[a] = "full" \/ a \in run[d].artists => artist'[a] = "full"
<1>. DEFINE known == [a \in Artists |-> IF a \in run[d].artists THEN "full" ELSE artist[a]]
<1>1. known \in [Artists -> {"absent", "named", "full"}]
  BY DEF CatalogInv, RowsOK
<1>2. \A a \in Artists : artist[a] = "full" \/ a \in run[d].artists => known[a] = "full"
  OBVIOUS
<1>3. artist' = Credited(known, run[d].tracks)
  BY DEF CommitDriver
<1>. HIDE DEF known
<1>. QED  BY <1>1, <1>2, <1>3, CreditedIs

\* The artists that are stored are some the driver has asked for.
LEMMA FoundIs ==
    ASSUME CatalogInv
    PROVE  /\ \A d \in Drivers : /\ run[d].artists \subseteq Artists
                                 /\ run[d].pc \in {"lookup", "ask", "scan"} =>
                                      Answered(run[d].ids) \subseteq Artists
           /\ UNION {Follows[u] : u \in run["sweep"].account} \subseteq Artists
<1>1. \A d \in Drivers : run[d] \in RunType /\ Holds(d, run[d])
  BY DEF CatalogInv, RunsOK
<1>2. run["sweep"].account \subseteq Accounts
  BY <1>1 DEF Drivers, RunType
<1>. QED  BY <1>1, <1>2 DEF Holds, Answered, CatalogAssumption, RunType

LEMMA RowsStep == CatalogInv /\ [Next]_vars => RowsOK'
<1>. SUFFICES ASSUME CatalogInv, [Next]_vars PROVE RowsOK'
  OBVIOUS
<1>0. RowsOK
  BY DEF CatalogInv
<1>1. ASSUME NEW d \in Drivers, NEW half, RollBack(d, half), faults' \in 0..MaxFaults PROVE RowsOK'
  <2>1. astray' \subseteq Artists
    BY <1>0, <1>1, FoundIs DEF RollBack, RowsOK
  <2>. QED  BY <1>0, <1>1, <2>1 DEF RollBack, RowsOK, rows, world
<1>2. ASSUME NEW d \in Drivers, Lookup(d) PROVE RowsOK'
  <2>1. cached' \subseteq Artists /\ restricted' \in {"no", "set", "seen"}
    <3>1. Answered(run[d].ids) \subseteq Artists
      BY <1>2, FoundIs DEF Lookup
    <3>. QED  BY <1>0, <1>2, <3>1 DEF Lookup, StoreArtists, RowsOK
  <2>. QED  BY <1>0, <1>2, <2>1 DEF Lookup, RowsOK, rows, world
<1>3. ASSUME Harvest PROVE RowsOK'
  <2>1. cached' \subseteq Artists
    BY <1>0, <1>3, FoundIs DEF Harvest, StoreArtists, RowsOK
  <2>2. harvested' \in BOOLEAN
    BY <1>3 DEF Harvest
  <2>. QED  BY <1>0, <1>3, <2>1, <2>2 DEF Harvest, RowsOK, rows, world
<1>4. ASSUME NEW d \in Drivers, CommitDriver(d), UNCHANGED <<orphans, keys, world, faults>>
      PROVE  RowsOK'
  <2>1. artist' \in [Artists -> {"absent", "named", "full"}]
    BY <1>4, CommitIs
  <2>2. run[d].tracks \subseteq Tracks \ Unknown
    BY DEF CatalogInv, RunsOK, RunType
  <2>3. tracks' \subseteq Tracks \ Unknown
    BY <1>0, <1>4, <2>2 DEF CommitDriver, RowsOK
  <2>. QED  BY <1>0, <1>4, <2>1, <2>3 DEF RowsOK, keys, world
<1>5. ASSUME NEW d \in Drivers, Relink(d) PROVE RowsOK'
  <2>1. orphans' \subseteq orphans
    BY <1>5 DEF Relink
  <2>. QED  BY <1>0, <1>5, <2>1 DEF Relink, RowsOK, keys, world
<1>6. ASSUME NEW t \in Tracks, Import(t) PROVE RowsOK'
  BY <1>0, <1>6 DEF Import, RowsOK, keys
<1>7. ASSUME AskListening \/ CooldownEnds \/ HarvestEnds PROVE RowsOK'
  <2>1. restricted' \in {"no", "set", "seen"} /\ harvested' \in BOOLEAN
    BY <1>0, <1>7 DEF AskListening, CooldownEnds, HarvestEnds, RowsOK
  <2>. QED  BY <1>0, <1>7, <2>1 DEF AskListening, CooldownEnds, HarvestEnds, RowsOK, rows, world
<1>8. ASSUME Change PROVE RowsOK'
  <2>1. dead' \subseteq Accounts
    BY <1>0, <1>8 DEF Change, RowsOK
  <2>2. refused' \in BOOLEAN
    BY <1>0, <1>8 DEF Change, RowsOK
  <2>3. changes' \in 0..MaxChanges
    BY <1>0, <1>8 DEF Change, RowsOK, CatalogAssumption
  <2>. QED  BY <1>0, <1>8, <2>1, <2>2, <2>3 DEF Change, RowsOK, rows, keys
<1>9. CASE UNCHANGED <<rows, keys, world, faults>>
  BY <1>0, <1>9 DEF RowsOK, rows, keys, world
<1>10. ASSUME NEW a \in Artists, Expire(a) PROVE RowsOK'
  <2>1. changes' \in 0..MaxChanges
    BY <1>0, <1>10 DEF Expire, RowsOK, CatalogAssumption
  <2>. QED  BY <1>0, <1>10, <2>1 DEF Expire, RowsOK, rows
<1>11. ASSUME NEW w \in Writers, WriterLookup(w) PROVE RowsOK'
  <2>1. cached' \subseteq Artists
    <3>1. w \in Drivers
      BY DEF Drivers
    <3>2. Answered(run[w].ids) \subseteq Artists
      BY <1>11, <3>1, FoundIs DEF WriterLookup
    <3>. QED  BY <1>0, <1>11, <3>2 DEF WriterLookup, StoreArtists, RowsOK
  <2>. QED  BY <1>0, <1>11, <2>1 DEF WriterLookup, RowsOK, rows, world
<1>12. ASSUME NEW d \in Drivers, Fail(d) PROVE RowsOK'
  <2>1. faults' \in 0..MaxFaults
    BY <1>0, <1>12 DEF Fail, RowsOK, CatalogAssumption
  <2>. QED  BY <1>1, <1>12, <2>1 DEF Fail
<1>13. ASSUME NEW d \in Drivers, NEW o \in Drivers, Deadlock(d, o) PROVE RowsOK'
  BY <1>0, <1>1, <1>13 DEF Deadlock, RowsOK
<1>14. ASSUME NEW w \in Writers, WriterCommits(w) \/ LetPlay(w) PROVE RowsOK'
  <2>1. w \in Drivers
    BY DEF Drivers
  <2>2. CASE WriterCommits(w)
    BY <1>4, <2>1, <2>2 DEF WriterCommits
  <2>3. CASE LetPlay(w)
    BY <1>0, <1>1, <2>1, <2>3 DEF LetPlay, RowsOK
  <2>. QED  BY <1>14, <2>2, <2>3
<1>15. ASSUME NEW w \in Writers, PollStores(w) \/ GuardAsks(w) \/ PurgeScans(w) PROVE RowsOK'
  BY <1>9, <1>15, WriterBegins DEF Begins
<1>16. ASSUME NEW d \in Drivers, Commit(d) PROVE RowsOK'
  BY <1>4, <1>16 DEF Commit
<1>17. CASE SweepStep \/ TaskStep
  BY <1>2, <1>3, <1>5, <1>7, <1>9, <1>16, <1>17
     DEF SweepStep, TaskStep, DriverStep, SweepBegin, SweepAccount, TaskBegin,
         AskCatalogue, AskTracks, Fetch, Drivers
<1>. QED  BY <1>6, <1>7, <1>8, <1>9, <1>10, <1>11, <1>12, <1>13, <1>14, <1>15, <1>17
     DEF Next, Resolve, WriterStep, vars

LEMMA CatalogTheorem == Spec => []CatalogInv
<1>1. CatalogInv /\ [Next]_vars => CatalogInv'
  BY RunsStep, RowsStep DEF CatalogInv
<1>. QED  BY <1>1, CatalogInit, PTL DEF Spec

\* Next to one sweep and one task, whatever the accounts, the further writers, the limits
\* and what Spotify refuses: all state has its type, and nothing but what Spotify knows
\* gets a row in the catalogue's tracks.
THEOREM CatalogCorrect == Spec => []TypeOK
BY CatalogTheorem, CatalogTypes, PTL

-----------------------------------------------------------------------------
(* The cache *)

\* The genres of a are in the table or on their way.
Backed(a) == artist[a] = "full" \/ \E d \in Drivers : a \in run[d].artists

LEMMA CacheStep ==
    ASSUME CatalogInv, CacheBacked, [Next]_vars
    PROVE  CacheBacked'
<1>0. /\ run \in [Drivers -> RunType] /\ \A o \in Drivers : Holds(o, run[o])
      /\ cached \subseteq Artists
  BY DEF CatalogInv, RunsOK, RowsOK
<1>. DEFINE Only(d) == \A o \in Drivers : o # d => run'[o] = run[o]
\* Nobody lets go of an artist.
<1>1. ASSUME cached' = cached, astray \subseteq astray', artist' = artist,
             \A o \in Drivers : run[o].artists \subseteq run'[o].artists
      PROVE  CacheBacked'
  BY <1>1 DEF CacheBacked
\* One that holds none goes on.
<1>2. ASSUME NEW d \in Drivers, cached' = cached, astray' = astray, artist' = artist,
             run[d].artists = {}, Only(d)
      PROVE  CacheBacked'
  <2>1. \A o \in Drivers : run[o].artists \subseteq run'[o].artists
    BY <1>2
  <2>. QED  BY <1>1, <1>2, <2>1
<1>3. ASSUME NEW d \in Drivers, NEW half, RollBack(d, half) PROVE CacheBacked'
  <2>1. /\ cached' = cached /\ astray' = astray \cup run[d].artists /\ artist' = artist /\ Only(d)
    BY <1>0, <1>3 DEF RollBack, rows
  <2>. QED  BY <2>1 DEF CacheBacked
<1>4. ASSUME SweepBegin \/ SweepAccount \/ AskListening PROVE CacheBacked'
  <2>1. /\ "sweep" \in Drivers /\ run["sweep"].artists = {}
        /\ cached' = cached /\ astray' = astray /\ artist' = artist /\ Only("sweep")
    BY <1>0, <1>4 DEF SweepBegin, SweepAccount, AskListening, Holds, Drivers, rows, keys
  <2>. QED  BY <1>2, <2>1
<1>5. ASSUME TaskBegin PROVE CacheBacked'
  <2>1. /\ "task" \in Drivers /\ run["task"].artists = {}
        /\ cached' = cached /\ astray' = astray /\ artist' = artist /\ Only("task")
    BY <1>0, <1>5 DEF TaskBegin, Holds, Drivers, rows, keys
  <2>. QED  BY <1>2, <2>1
<1>6. ASSUME NEW d \in Drivers, AskCatalogue(d) \/ Relink(d) PROVE CacheBacked'
  <2>1. /\ run[d].artists = {} /\ cached' = cached /\ astray' = astray /\ artist' = artist /\ Only(d)
    BY <1>0, <1>6 DEF AskCatalogue, Relink, Holds, rows, keys
  <2>. QED  BY <1>2, <2>1
\* The task keeps its artists, the sweep has none left.
<1>7. ASSUME NEW d \in Drivers, AskTracks(d) \/ Fetch(d) PROVE CacheBacked'
  <2>1. /\ run[d].pc \in {"tracks", "fetch"} /\ cached' = cached /\ astray' = astray
        /\ artist' = artist /\ Only(d)
    BY <1>0, <1>7 DEF AskTracks, Fetch, rows, keys
  <2>2. CASE d = "sweep"
    BY <1>0, <1>2, <2>1, <2>2 DEF Holds
  <2>3. CASE d # "sweep"
    <3>1. CASE AskTracks(d)
      <4>1. PICK ids \in Batch(orphans, TrackLimit) :
              run' = [run EXCEPT ![d] = IF ids # {} THEN [@ EXCEPT !.pc = "fetch", !.ids = ids]
                                        ELSE [@ EXCEPT !.pc = "held"]]
        BY <2>3, <3>1 DEF AskTracks
      <4>. QED  BY <1>0, <1>1, <2>1, <4>1 DEF RunType
    <3>2. CASE Fetch(d)
      BY <1>0, <1>1, <2>1, <3>2 DEF Fetch, RunType
    <3>. QED  BY <1>7, <3>1, <3>2
  <2>. QED  BY <2>2, <2>3
<1>8. ASSUME NEW d \in Drivers, NEW found \in SUBSET Artists, StoreArtists(d, found),
             run[d].artists = {}, astray' = astray, artist' = artist
      PROVE  CacheBacked'
  <2>1. run'[d].artists = found /\ Only(d) /\ cached' = cached \cup found
    BY <1>0, <1>8 DEF StoreArtists, RunType
  <2>. QED  BY <1>8, <2>1 DEF CacheBacked
<1>9. ASSUME NEW d \in Drivers, Lookup(d) PROVE CacheBacked'
  <2>1. run[d].pc = "lookup" /\ run[d].artists = {} /\ astray' = astray /\ artist' = artist
    BY <1>0, <1>9 DEF Lookup, Holds, rows
  <2>2. CASE run' = [run EXCEPT ![d] = Failed(d, "artists")] /\ cached' = cached
    BY <1>0, <1>2, <2>1, <2>2
  <2>3. CASE StoreArtists(d, Answered(run[d].ids))
    BY <1>8, <2>1, <2>3, FoundIs
  <2>. QED  BY <1>9, <2>2, <2>3 DEF Lookup
<1>10. ASSUME Harvest PROVE CacheBacked'
  <2>1. "sweep" \in Drivers /\ run["sweep"].artists = {} /\ astray' = astray /\ artist' = artist
    BY <1>0, <1>10 DEF Harvest, Holds, Drivers, rows
  <2>. QED  BY <1>8, <1>10, <2>1, FoundIs DEF Harvest
<1>11. ASSUME NEW d \in Drivers, CommitDriver(d), cached' = cached, astray' = astray, Only(d)
       PROVE  CacheBacked'
  <2>. SUFFICES ASSUME NEW a \in cached \ astray PROVE Backed(a)'
    BY <1>11 DEF CacheBacked, Backed
  <2>1. a \in Artists /\ Backed(a)
    BY <1>0 DEF CacheBacked, Backed
  <2>2. artist[a] = "full" \/ a \in run[d].artists => artist'[a] = "full"
    BY <1>11, <2>1, CommitIs
  <2>. QED  BY <1>11, <2>1, <2>2 DEF Backed
<1>12. ASSUME NEW d \in Drivers, Commit(d) PROVE CacheBacked'
  <2>1. cached' = cached /\ astray' = astray /\ CommitDriver(d) /\ Only(d)
    BY <1>0, <1>12 DEF Commit, keys
  <2>. QED  BY <1>11, <2>1
<1>13. ASSUME NEW w \in Writers, PollStores(w) \/ GuardAsks(w) \/ PurgeScans(w) PROVE CacheBacked'
  <2>1. w \in Drivers
    BY DEF Drivers
  <2>2. /\ run[w].artists = {} /\ cached' = cached /\ astray' = astray /\ artist' = artist /\ Only(w)
    BY <1>0, <1>13, <2>1, WriterBegins DEF Begins, Holds, rows, keys
  <2>. QED  BY <1>2, <2>1, <2>2
<1>14. ASSUME NEW w \in Writers, WriterLookup(w) PROVE CacheBacked'
  <2>1. /\ w \in Drivers /\ run[w].pc \in {"ask", "scan"} /\ run[w].artists = {}
        /\ astray' = astray /\ artist' = artist
    BY <1>0, <1>14 DEF WriterLookup, Holds, Drivers, rows
  <2>2. CASE cached' = cached /\ Only(w)
    BY <1>2, <2>1, <2>2
  <2>3. CASE StoreArtists(w, Answered(run[w].ids))
    BY <1>8, <2>1, <2>3, FoundIs
  <2>. QED  BY <1>0, <1>14, <2>2, <2>3 DEF WriterLookup
<1>15. ASSUME NEW w \in Writers, WriterCommits(w) \/ LetPlay(w) PROVE CacheBacked'
  <2>1. w \in Drivers
    BY DEF Drivers
  <2>2. CASE WriterCommits(w)
    <3>1. cached' = cached /\ astray' = astray /\ CommitDriver(w) /\ Only(w)
      BY <1>0, <2>2 DEF WriterCommits, keys
    <3>. QED  BY <1>11, <2>1, <3>1
  <2>3. CASE LetPlay(w)
    BY <1>3, <2>1, <2>3 DEF LetPlay
  <2>. QED  BY <1>15, <2>2, <2>3
<1>16. ASSUME NEW a \in Artists, Expire(a) PROVE CacheBacked'
  BY <1>16 DEF Expire, CacheBacked, rows
<1>17. ASSUME NEW d \in Drivers, NEW o \in Drivers, Fail(d) \/ Deadlock(d, o) PROVE CacheBacked'
  BY <1>3, <1>17 DEF Fail, Deadlock
<1>18. CASE run' = run /\ cached' = cached /\ astray' = astray /\ artist' = artist
  BY <1>1, <1>18
<1>19. CASE SweepStep \/ TaskStep
  BY <1>4, <1>5, <1>6, <1>7, <1>9, <1>10, <1>12, <1>19
     DEF SweepStep, TaskStep, DriverStep, Drivers
<1>20. CASE Resolve \/ \E d \in Drivers : Fail(d)
  BY <1>17, <1>20 DEF Resolve
<1>. QED  BY <1>13, <1>14, <1>15, <1>16, <1>18, <1>19, <1>20
     DEF Next, WriterStep, Import, CooldownEnds, HarvestEnds, Change, vars, rows, keys, world

\* Genres the skip guard finds in the cache are in the table, or in an open transaction,
\* unless the one that cached them was rolled back or an evaluation that let the track
\* play: although everyone fills the cache before the commit, and credits of new tracks
\* name the same artists.
THEOREM CacheTheorem == Spec => []CacheBacked
<1>1. Init => CacheBacked
  BY DEF Init, CacheBacked
<1>2. CatalogInv /\ CacheBacked /\ [Next]_vars => CacheBacked'
  BY CacheStep
<1>. QED  BY <1>1, <1>2, CatalogTheorem, PTL DEF Spec
=============================================================================
