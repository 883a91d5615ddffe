-------------------------- MODULE ImportJobProofs --------------------------
(***************************************************************************)
(* Theorems about ImportJob, for any number of workers and redeliveries,   *)
(* any batch size, any exports and any ledger beforehand.                  *)
(***************************************************************************)
EXTENDS ImportJob, FiniteSetTheorems, SequenceTheorems, TLAPS

-----------------------------------------------------------------------------
(* The inductive invariant *)

Running(w) == work[w].pc = "run"

\* The places of an export that an execution has read when it is at place a of
\* file f.
Before(x, f, a) == {p \in Places(x) : p[1] < f \/ (p[1] = f /\ p[2] <= a)}

Held(batch, k) == \E i \in DOMAIN batch : Key(batch[i]) = k

\* Nothing is begun before the upload, nor delivered more often than it may be.
StartInv ==
    /\ deliveries + messages <= MaxRedeliveries + 1
    /\ job.status = "none" => messages = 0 /\ deliveries = 0
    /\ deliveries = 0 =>
         /\ rows = Prior /\ added = 0
         /\ job \in {NewJob, [NewJob EXCEPT !.status = "queued"]}
         /\ \A w \in Workers : ~Running(w)

\* An execution's copy of the job says running, and counts a row as inserted
\* only with the commit that stores it.
CopyInv ==
    \A w \in Workers : Running(w) =>
        /\ work[w].mine.status = "running" /\ work[w].base.status = "running"
        /\ work[w].mine.inserted = work[w].base.inserted

\* Every play that an execution has passed is stored or in its batch.
PassedInv ==
    \A w \in Workers : Running(w) =>
        \A p \in Before(export, work[w].file, work[w].at) : At(export, p).kind = "play" =>
            rows[Key(At(export, p))] > 0 \/ Held(work[w].batch, Key(At(export, p)))

CompleteInv == PassedInv /\ SucceededIsComplete

\* Until two executions overlap, the row is what the only one has committed.
AloneInv ==
    ~overlapped =>
        /\ job.inserted = added
        /\ \A w \in Workers : Running(w) => job = work[w].base
        /\ \A v, w \in Workers : Running(v) /\ Running(w) => v = w

AddsUp(j, n) == j.total = j.inserted + j.duplicate + j.invalid + n

\* The first execution's counters and its batch are the entries it has read.
SumInv ==
    /\ deliveries <= 1 => ~overlapped
    /\ deliveries = 1 =>
        /\ \A w \in Workers : Running(w) => AddsUp(work[w].mine, Len(work[w].batch))
        /\ job.status = "succeeded" => AddsUp(job, 0)

Listed(P, k) == Cardinality({p \in P : Key(At(export, p)) = k})

\* The first execution stores or holds no more copies of a key than it has read.
CopiesInv ==
    deliveries <= 1 =>
        \A w \in Workers, k \in Keys : Running(w) /\ k[2] = NoUri =>
            rows[k] + Copies(work[w].batch, k)
                <= Prior[k] + Listed(Before(export, work[w].file, work[w].at), k)

\* The same of what is stored, whichever execution stored it.
AccountDataOnce ==
    deliveries <= 1 =>
        \A k \in Keys : k[2] = NoUri => rows[k] <= Prior[k] + Listed(Places(export), k)

OnceInv == CopiesInv /\ AccountDataOnce

-----------------------------------------------------------------------------
(* Batches *)

ExecType == [pc : {"idle", "run"}, file : Nat \ {0}, at : Nat,
             batch : Seq(Plays), mine : Jobs, base : Jobs]

LEMMA BatchPart ==
    ASSUME NEW batch \in Seq(Plays), NEW T \in SUBSET (DOMAIN batch)
    PROVE  IsFiniteSet(T) /\ Cardinality(T) \in Nat /\ Cardinality(T) <= Len(batch)
<1>1. PICK n \in Nat : n = Len(batch) /\ DOMAIN batch = 1..n
  OBVIOUS
<1>2. IsFiniteSet(1..n) /\ Cardinality(1..n) = n
  BY FS_Interval
<1>. QED  BY <1>1, <1>2, FS_Subset, FS_CardinalityType

LEMMA CopiesType ==
    ASSUME NEW batch \in Seq(Plays), NEW k
    PROVE  /\ Copies(batch, k) \in Nat
           /\ Copies(batch, k) = 0 <=> ~Held(batch, k)
<1>1. {i \in DOMAIN batch : Key(batch[i]) = k} \in SUBSET (DOMAIN batch)
  OBVIOUS
<1>2. IsFiniteSet({i \in DOMAIN batch : Key(batch[i]) = k})
  BY <1>1, BatchPart
<1>3. Copies(batch, k) \in Nat
  BY <1>1, BatchPart DEF Copies
<1>4. Copies(batch, k) = 0 <=> {i \in DOMAIN batch : Key(batch[i]) = k} = {}
  BY <1>2, FS_EmptySet DEF Copies
<1>. QED  BY <1>3, <1>4 DEF Held

LEMMA NoCopies == ASSUME NEW k PROVE Copies(<<>>, k) = 0
<1>1. {i \in DOMAIN <<>> : Key(<<>>[i]) = k} = {}
  OBVIOUS
<1>. QED  BY <1>1, FS_EmptySet DEF Copies

LEMMA CopiesAppend ==
    ASSUME NEW batch \in Seq(Plays), NEW e \in Plays, NEW k
    PROVE  Copies(Append(batch, e), k) = Copies(batch, k) + (IF Key(e) = k THEN 1 ELSE 0)
<1>1. PICK n \in Nat : n = Len(batch)
  OBVIOUS
<1>2. PICK T : T = {i \in DOMAIN batch : Key(batch[i]) = k}
  OBVIOUS
<1>3. IsFiniteSet(T) /\ n + 1 \notin T /\ Cardinality(T) \in Nat
  BY <1>1, <1>2, BatchPart
<1>4. {i \in DOMAIN Append(batch, e) : Key(Append(batch, e)[i]) = k}
        = IF Key(e) = k THEN T \cup {n + 1} ELSE T
  BY <1>1, <1>2
<1>5. Cardinality(T \cup {n + 1}) = Cardinality(T) + 1
  BY <1>3, FS_AddElement
<1>6. /\ Copies(batch, k) = Cardinality(T)
      /\ Copies(Append(batch, e), k) = Cardinality(IF Key(e) = k THEN T \cup {n + 1} ELSE T)
  BY <1>2, <1>4 DEF Copies
<1>. QED  BY <1>3, <1>5, <1>6

LEMMA StoredIs ==
    ASSUME NEW table \in [Keys -> Nat], NEW batch \in Seq(Plays)
    PROVE  /\ Stored(table, batch) \in [Keys -> Nat]
           /\ \A k \in Keys :
                /\ Stored(table, batch)[k] >= table[k]
                /\ Held(batch, k) => Stored(table, batch)[k] > 0
                /\ k[2] = NoUri => Stored(table, batch)[k] = table[k] + Copies(batch, k)
                /\ k[2] # NoUri /\ table[k] <= 1 => Stored(table, batch)[k] <= 1
<1>1. ASSUME NEW k \in Keys
      PROVE  /\ Stored(table, batch)[k] \in Nat
             /\ Stored(table, batch)[k] >= table[k]
             /\ Held(batch, k) => Stored(table, batch)[k] > 0
             /\ k[2] = NoUri => Stored(table, batch)[k] = table[k] + Copies(batch, k)
             /\ k[2] # NoUri /\ table[k] <= 1 => Stored(table, batch)[k] <= 1
  BY CopiesType DEF Stored
<1>. QED  BY <1>1 DEF Stored

LEMMA WrittenType ==
    ASSUME NEW table, NEW batch \in Seq(Plays)
    PROVE  Written(table, batch) \in Nat /\ Written(table, batch) <= Len(batch)
BY BatchPart DEF Written

LEMMA CountedIs ==
    ASSUME NEW mine \in Jobs, NEW batch \in Seq(Plays), NEW j, j = Counted(mine, batch)
    PROVE  /\ j \in Jobs
           /\ j.status = mine.status /\ j.files = mine.files
           /\ j.total = mine.total /\ j.invalid = mine.invalid
           /\ j.inserted = mine.inserted + Written(rows, batch)
           /\ j.inserted + j.duplicate = mine.inserted + mine.duplicate + Len(batch)
<1>1. PICK n \in Nat : n = Written(rows, batch) /\ n <= Len(batch) /\ Len(batch) \in Nat
  BY WrittenType
<1>2. j = [mine EXCEPT !.inserted = mine.inserted + n,
                       !.duplicate = mine.duplicate + (Len(batch) - n)]
  BY <1>1 DEF Counted, Jobs
<1>3. /\ j.status = mine.status /\ j.files = mine.files
      /\ j.total = mine.total /\ j.invalid = mine.invalid
      /\ j.inserted = mine.inserted + n
      /\ j.duplicate = mine.duplicate + (Len(batch) - n)
  BY <1>2 DEF Jobs
<1>4. j = [status |-> j.status, files |-> j.files, total |-> j.total,
           inserted |-> j.inserted, duplicate |-> j.duplicate, invalid |-> j.invalid]
  BY <1>2 DEF Jobs
<1>5. j.inserted \in Nat /\ j.duplicate \in Nat
  BY <1>1, <1>3 DEF Jobs
<1>6. j \in Jobs
  BY <1>3, <1>4, <1>5 DEF Jobs
<1>7. j.inserted + j.duplicate = mine.inserted + mine.duplicate + Len(batch)
  BY <1>1, <1>3 DEF Jobs
<1>. QED  BY <1>1, <1>3, <1>6, <1>7

Columns == {"status", "files", "total", "inserted", "duplicate", "invalid"}

LEMMA WriteOutIs ==
    ASSUME job \in Jobs, NEW me \in ExecType, NEW mine \in Jobs,
           NEW j, j = WriteOut(me, mine)
    PROVE  /\ j \in Jobs
           /\ job = me.base => j = mine
           /\ j.status = IF mine.status # me.base.status THEN mine.status ELSE job.status
           /\ j.inserted = IF mine.inserted # me.base.inserted THEN mine.inserted
                           ELSE job.inserted
<1>1. me.base \in Jobs
  BY DEF ExecType
<1>2. DOMAIN job = Columns
  BY DEF Jobs, Columns
<1>3. j = [f \in Columns |-> IF mine[f] # me.base[f] THEN mine[f] ELSE job[f]]
  BY <1>2 DEF WriteOut
<1>4. j = [status |-> j.status, files |-> j.files, total |-> j.total,
           inserted |-> j.inserted, duplicate |-> j.duplicate, invalid |-> j.invalid]
  BY <1>3 DEF Columns
<1>5. /\ j.status = IF mine.status # me.base.status THEN mine.status ELSE job.status
      /\ j.files = IF mine.files # me.base.files THEN mine.files ELSE job.files
      /\ j.total = IF mine.total # me.base.total THEN mine.total ELSE job.total
      /\ j.inserted = IF mine.inserted # me.base.inserted THEN mine.inserted ELSE job.inserted
      /\ j.duplicate = IF mine.duplicate # me.base.duplicate THEN mine.duplicate ELSE job.duplicate
      /\ j.invalid = IF mine.invalid # me.base.invalid THEN mine.invalid ELSE job.invalid
  BY <1>3 DEF Columns
<1>6. j \in Jobs
  BY <1>1, <1>4, <1>5 DEF Jobs
<1>7. job = me.base => j = mine
  BY <1>1, <1>4, <1>5 DEF Jobs
<1>. QED  BY <1>5, <1>6, <1>7

-----------------------------------------------------------------------------
(* What the steps change *)

LEMMA NewJobIs == NewJob \in Jobs /\ [NewJob EXCEPT !.status = "queued"] \in Jobs
BY DEF NewJob, Jobs

LEMMA IdleIs == Idle \in ExecType /\ Idle.pc = "idle" /\ Idle.file = 1 /\ Idle.batch = <<>>
BY NewJobIs DEF Idle, ExecType

LEMMA Types ==
    TypeOK <=>
    /\ export \in Exports /\ job \in Jobs
    /\ rows \in [Keys -> Nat]
    /\ messages \in 0..MaxRedeliveries + 1
    /\ deliveries \in 0..MaxRedeliveries + 1
    /\ work \in [Workers -> ExecType]
    /\ \A w \in Workers :
           /\ work[w].file <= Len(export) + 1
           /\ work[w].file <= Len(export) => work[w].at <= Len(export[work[w].file])
           /\ Len(work[w].batch) < BATCH
    /\ added \in Nat /\ overlapped \in BOOLEAN /\ faults \in 0..MaxFaults
BY DEF TypeOK, ExecType

LEMMA PlaysHaveKeys == \A e \in Plays : e.kind = "play" /\ Key(e) \in Keys
BY ImportAssumption DEF Plays

LEMMA ExportIs ==
    ASSUME TypeOK
    PROVE  /\ export \in Seq(Seq(Entries)) /\ Len(export) \in Nat
           /\ DOMAIN export = 1..Len(export)
           /\ \A f \in 1..Len(export) :
                /\ export[f] \in Seq(Entries) /\ Len(export[f]) \in Nat
                /\ DOMAIN export[f] = 1..Len(export[f])
                /\ \A a \in 1..Len(export[f]) : export[f][a] \in Entries
<1>1. export \in Seq(Seq(Entries))
  BY ImportAssumption DEF TypeOK
<1>. QED  BY <1>1

LEMMA Fields ==
    ASSUME TypeOK, NEW w \in Workers
    PROVE  /\ work[w] \in ExecType
           /\ work[w].pc \in {"idle", "run"} /\ work[w].file \in Nat \ {0} /\ work[w].at \in Nat
           /\ work[w].batch \in Seq(Plays) /\ work[w].mine \in Jobs /\ work[w].base \in Jobs
BY Types DEF ExecType

\* One execution moves to another state, the others stay.
LEMMA WorkIs ==
    ASSUME TypeOK, NEW w \in Workers, NEW e \in ExecType, work' = [work EXCEPT ![w] = e]
    PROVE  /\ work' \in [Workers -> ExecType]
           /\ work'[w] = e /\ \A v \in Workers \ {w} : work'[v] = work[v]
BY Types

LEMMA OneColumn ==
    ASSUME NEW mine \in Jobs, NEW n \in Nat,
           NEW s \in {"none", "queued", "running", "succeeded", "failed"}
    PROVE  /\ [mine EXCEPT !.status = s] \in Jobs /\ [mine EXCEPT !.files = n] \in Jobs
           /\ [mine EXCEPT !.total = n] \in Jobs /\ [mine EXCEPT !.invalid = n] \in Jobs
BY DEF Jobs

\* One more entry read, one more entry skipped.
LEMMA OneMore ==
    ASSUME NEW mine \in Jobs
    PROVE  /\ \E m \in Jobs :
                /\ m = [mine EXCEPT !.total = mine.total + 1]
                /\ m.status = mine.status /\ m.total = mine.total + 1
                /\ m.inserted = mine.inserted /\ m.duplicate = mine.duplicate
                /\ m.invalid = mine.invalid
           /\ \E m \in Jobs :
                /\ m = [mine EXCEPT !.invalid = mine.invalid + 1]
                /\ m.status = mine.status /\ m.total = mine.total
                /\ m.inserted = mine.inserted /\ m.duplicate = mine.duplicate
                /\ m.invalid = mine.invalid + 1
<1>1. PICK n \in Nat, i \in Nat : n = mine.total + 1 /\ i = mine.invalid + 1
  BY DEF Jobs
<1>2. PICK m : m = [mine EXCEPT !.total = n]
  OBVIOUS
<1>3. m \in Jobs
  BY <1>2, OneColumn
<1>4. /\ m.status = mine.status /\ m.total = n
      /\ m.inserted = mine.inserted /\ m.duplicate = mine.duplicate
      /\ m.invalid = mine.invalid
  BY <1>2 DEF Jobs
<1>5. PICK k : k = [mine EXCEPT !.invalid = i]
  OBVIOUS
<1>6. k \in Jobs
  BY <1>5, OneColumn
<1>7. /\ k.status = mine.status /\ k.total = mine.total
      /\ k.inserted = mine.inserted /\ k.duplicate = mine.duplicate
      /\ k.invalid = i
  BY <1>5 DEF Jobs
<1>. QED  BY <1>1, <1>2, <1>3, <1>4, <1>5, <1>6, <1>7

LEMMA AddsUpNext ==
    ASSUME NEW i \in Jobs, NEW j \in Jobs, NEW n \in Nat, j.total = i.total + 1, AddsUp(i, n)
    PROVE  /\ j.inserted = i.inserted /\ j.duplicate = i.duplicate /\ j.invalid = i.invalid + 1
                => AddsUp(j, n)
           /\ j.inserted = i.inserted /\ j.duplicate = i.duplicate /\ j.invalid = i.invalid
                => AddsUp(j, n + 1)
           /\ j.inserted + j.duplicate = i.inserted + i.duplicate + (n + 1)
              /\ j.invalid = i.invalid
                => AddsUp(j, 0)
BY DEF AddsUp, Jobs

Moved(me, at, m, b, batch) == [me EXCEPT !.at = at, !.batch = batch, !.mine = m, !.base = b]

Holds(n, me, at, m, b, batch) ==
    /\ n \in ExecType
    /\ n.pc = me.pc /\ n.file = me.file /\ n.at = at /\ n.batch = batch
    /\ n.base = b /\ n.mine = m

LEMMA MovedIs ==
    ASSUME NEW me \in ExecType, NEW at \in Nat, NEW m \in Jobs, NEW b \in Jobs,
           NEW batch \in Seq(Plays)
    PROVE  Holds(Moved(me, at, m, b, batch), me, at, m, b, batch)
<1>. SUFFICES ASSUME NEW n, n = Moved(me, at, m, b, batch)
              PROVE  Holds(n, me, at, m, b, batch)
  OBVIOUS
<1>1. /\ n.pc = me.pc /\ n.file = me.file /\ n.at = at /\ n.batch = batch
      /\ n.base = b /\ n.mine = m
  BY DEF Moved, ExecType
<1>2. n = [pc |-> n.pc, file |-> n.file, at |-> n.at, batch |-> n.batch,
           mine |-> n.mine, base |-> n.base]
  BY DEF Moved, ExecType
<1>3. me.pc \in {"idle", "run"} /\ me.file \in Nat \ {0}
  BY DEF ExecType
<1>4. n \in ExecType
  BY <1>1, <1>2, <1>3 DEF ExecType
<1>. QED  BY <1>1, <1>4 DEF Holds

\* An entry that is read is passed over, kept or flushed with its batch.
LEMMA ReadEffect ==
    ASSUME TypeOK, NEW w \in Workers, Read(w)
    PROVE  /\ Running(w) /\ work' \in [Workers -> ExecType]
           /\ \A v \in Workers \ {w} : work'[v] = work[v]
           /\ UNCHANGED <<export, messages, deliveries, overlapped, faults>>
           /\ Running(w)' /\ work'[w].file = work[w].file /\ work'[w].at = work[w].at + 1
           /\ work[w].file \in 1..Len(export)
           /\ work'[w].at \in 1..Len(export[work[w].file])
           /\ work'[w].mine.status = work[w].mine.status
           /\ \E e \in Entries :
                /\ e = export[work[w].file][work[w].at + 1]
                /\ \/ /\ e.kind # "play" /\ work'[w].batch = work[w].batch
                      /\ work'[w].base = work[w].base
                      /\ work'[w].mine.inserted = work[w].mine.inserted
                      /\ AddsUp(work[w].mine, Len(work[w].batch))
                           => AddsUp(work'[w].mine, Len(work'[w].batch))
                      /\ UNCHANGED <<job, rows, added>>
                   \/ /\ e \in Plays /\ work'[w].batch = Append(work[w].batch, e)
                      /\ Len(work'[w].batch) < BATCH
                      /\ work'[w].base = work[w].base
                      /\ work'[w].mine.inserted = work[w].mine.inserted
                      /\ AddsUp(work[w].mine, Len(work[w].batch))
                           => AddsUp(work'[w].mine, Len(work'[w].batch))
                      /\ UNCHANGED <<job, rows, added>>
                   \/ /\ e \in Plays /\ work'[w].batch = <<>>
                      /\ work'[w].base = work'[w].mine
                      /\ work'[w].mine.inserted
                           = work[w].mine.inserted + Written(rows, Append(work[w].batch, e))
                      /\ AddsUp(work[w].mine, Len(work[w].batch))
                           => AddsUp(work'[w].mine, 0)
                      /\ rows' = Stored(rows, Append(work[w].batch, e))
                      /\ added' = added + Written(rows, Append(work[w].batch, e))
                      /\ job' = WriteOut(work[w], work'[w].mine)
<1>1. PICK me \in ExecType : me = work[w]
  BY Fields
<1>2. PICK e : e = export[me.file][me.at + 1]
  OBVIOUS
<1>3. /\ me.pc = "run" /\ me.file <= Len(export) /\ me.at < Len(export[me.file])
      /\ e.kind # "bad" /\ Running(w)
      /\ UNCHANGED <<export, messages, deliveries, overlapped, faults>>
  BY <1>1, <1>2 DEF Read, More, Entry, Running
<1>4. /\ me.file \in 1..Len(export) /\ me.at + 1 \in 1..Len(export[me.file]) /\ e \in Entries
      /\ me.at \in Nat
  BY <1>2, <1>3, ExportIs DEF ExecType
<1>5. e.kind = "play" => e \in Plays
  BY <1>4 DEF Plays
<1>6. PICK at \in Nat : at = me.at + 1
  BY <1>4
<1>7. PICK mine \in Jobs, base \in Jobs, batch \in Seq(Plays) :
        mine = me.mine /\ base = me.base /\ batch = me.batch
  BY DEF ExecType
<1>8. PICK size \in Nat : size = Len(batch)
  OBVIOUS
<1>9. PICK m \in Jobs :
        /\ m = [mine EXCEPT !.total = mine.total + 1]
        /\ m.status = mine.status /\ m.total = mine.total + 1
        /\ m.inserted = mine.inserted /\ m.duplicate = mine.duplicate
        /\ m.invalid = mine.invalid
  BY OneMore
<1>10. m = [mine EXCEPT !.total = mine.total + 1]
  BY <1>9
<1>11. m \in Jobs /\ base \in Jobs /\ batch \in Seq(Plays) /\ at \in Nat /\ me \in ExecType
  BY <1>1, <1>6, <1>7, <1>9
<1>12. CASE e.kind = "skip"
  <2>1. PICK i \in Jobs :
          /\ i = [m EXCEPT !.invalid = m.invalid + 1]
          /\ i.status = m.status /\ i.total = m.total
          /\ i.inserted = m.inserted /\ i.duplicate = m.duplicate
          /\ i.invalid = m.invalid + 1
    BY OneMore
  <2>2. i = [m EXCEPT !.invalid = m.invalid + 1]
    BY <2>1
  <2>3. /\ i.status = mine.status /\ i.total = mine.total + 1
        /\ i.inserted = mine.inserted /\ i.duplicate = mine.duplicate
        /\ i.invalid = mine.invalid + 1
    BY <1>9, <2>1
  <2>4. PICK n : n = Moved(me, at, i, base, batch)
    OBVIOUS
  <2>5. work' = [work EXCEPT ![w] = n] /\ UNCHANGED <<job, rows, added>>
    <3>1. n = [[me EXCEPT !.at = me.at + 1, !.mine.total = me.mine.total + 1]
                 EXCEPT !.mine.invalid = me.mine.invalid + 1]
      BY <1>6, <1>7, <1>10, <2>2, <2>4 DEF ExecType, Moved, Jobs
    <3>. QED  BY <1>1, <1>2, <1>12, <3>1 DEF Read, Entry
  <2>6. /\ n \in ExecType /\ n.pc = me.pc /\ n.file = me.file /\ n.at = at
        /\ n.batch = batch /\ n.base = base /\ n.mine = i
    <3>1. i \in Jobs
      BY <2>1
    <3>2. Holds(n, me, at, i, base, batch)
      BY <1>11, <2>4, <3>1, MovedIs
    <3>. QED  BY <3>2 DEF Holds
  <2>7. AddsUp(mine, size) => AddsUp(i, size)
    BY <2>3, AddsUpNext
  <2>8. /\ work'[w] = n /\ work' \in [Workers -> ExecType]
        /\ \A v \in Workers \ {w} : work'[v] = work[v]
    BY <2>5, <2>6, WorkIs
  <2>. QED  BY <1>1, <1>2, <1>3, <1>4, <1>6, <1>7, <1>8, <1>12, <2>3, <2>5, <2>6, <2>7, <2>8
            DEF Running
<1>13. CASE e.kind = "play"
  <2>1. Append(batch, e) \in Seq(Plays) /\ Len(Append(batch, e)) = size + 1
    BY <1>5, <1>7, <1>8, <1>13
  <2>2. PICK b \in Seq(Plays) : b = Append(batch, e)
    BY <2>1
  <2>3. b \in Seq(Plays)
    BY <2>2
  <2>4. Len(b) = size + 1
    BY <2>1, <2>2
  <2>5. CASE size + 1 < BATCH
    <3>1. PICK n : n = Moved(me, at, m, base, b)
      OBVIOUS
    <3>2. work' = [work EXCEPT ![w] = n] /\ UNCHANGED <<job, rows, added>>
      <4>1. n = [[me EXCEPT !.at = me.at + 1, !.mine.total = me.mine.total + 1]
                   EXCEPT !.batch = Append(me.batch, e)]
        BY <1>6, <1>7, <1>10, <2>2, <3>1 DEF ExecType, Moved
      <4>2. ~(Len(b) >= BATCH)
        BY <2>4, <2>5, ImportAssumption
      <4>. QED  BY <1>1, <1>2, <1>7, <1>13, <2>2, <4>1, <4>2 DEF Read, Entry
    <3>3. /\ n \in ExecType /\ n.pc = me.pc /\ n.file = me.file /\ n.at = at
          /\ n.batch = b /\ n.base = base /\ n.mine = m
      <4>1. Holds(n, me, at, m, base, b)
        BY <1>11, <2>3, <3>1, MovedIs
      <4>. QED  BY <4>1 DEF Holds
    <3>4. AddsUp(mine, size) => AddsUp(m, size + 1)
      BY <1>9, AddsUpNext
    <3>5. /\ work'[w] = n /\ work' \in [Workers -> ExecType]
          /\ \A v \in Workers \ {w} : work'[v] = work[v]
      BY <3>2, <3>3, WorkIs
    <3>6. /\ e \in Plays /\ work'[w].batch = Append(work[w].batch, e)
          /\ Len(work'[w].batch) < BATCH /\ work'[w].base = work[w].base
          /\ work'[w].mine.inserted = work[w].mine.inserted
          /\ work'[w].mine.status = work[w].mine.status
      BY <1>1, <1>5, <1>7, <1>9, <1>13, <2>2, <2>4, <2>5, <3>3, <3>5
    <3>7. AddsUp(work[w].mine, Len(work[w].batch)) => AddsUp(work'[w].mine, Len(work'[w].batch))
      BY <1>1, <1>7, <1>8, <2>4, <3>3, <3>4, <3>5
    <3>. QED  BY <1>1, <1>2, <1>3, <1>4, <1>6, <3>2, <3>3, <3>5, <3>6, <3>7 DEF Running
  <2>6. CASE ~(size + 1 < BATCH)
    <3>1. PICK c \in Jobs : c = Counted(m, b)
      BY <1>11, <2>3, CountedIs
    <3>2. /\ c.status = mine.status /\ c.total = mine.total + 1
          /\ c.invalid = mine.invalid /\ c.inserted = mine.inserted + Written(rows, b)
          /\ c.inserted + c.duplicate = mine.inserted + mine.duplicate + (size + 1)
      <4>1. /\ c.status = m.status /\ c.total = m.total /\ c.invalid = m.invalid
            /\ c.inserted = m.inserted + Written(rows, b)
            /\ c.inserted + c.duplicate = m.inserted + m.duplicate + Len(b)
        BY <1>11, <2>3, <3>1, CountedIs
      <4>. QED  BY <1>9, <2>4, <4>1
    <3>3. PICK n : n = Moved(me, at, c, c, <<>>)
      OBVIOUS
    <3>4. work' = [work EXCEPT ![w] = n] /\ Commit(me, b, c)
      <4>1. PICK next : next = [me EXCEPT !.at = me.at + 1, !.mine.total = me.mine.total + 1]
        OBVIOUS
      <4>2. next.mine = m /\ n = [next EXCEPT !.batch = <<>>, !.mine = c, !.base = c]
        BY <1>6, <1>7, <1>10, <3>3, <4>1 DEF ExecType, Moved
      <4>3. ~(Len(b) < BATCH)
        BY <2>4, <2>6
      <4>. QED  BY <1>1, <1>2, <1>7, <1>13, <2>2, <3>1, <4>1, <4>2, <4>3 DEF Read, Entry, AfterFlush
    <3>5. /\ n \in ExecType /\ n.pc = me.pc /\ n.file = me.file /\ n.at = at
          /\ n.batch = <<>> /\ n.base = c /\ n.mine = c
      <4>1. <<>> \in Seq(Plays)
        OBVIOUS
      <4>2. Holds(n, me, at, c, c, <<>>)
        BY <1>11, <3>1, <3>3, <4>1, MovedIs
      <4>. QED  BY <4>2 DEF Holds
    <3>6. AddsUp(mine, size) => AddsUp(c, 0)
      BY <3>2, AddsUpNext
    <3>7. /\ work'[w] = n /\ work' \in [Workers -> ExecType]
          /\ \A v \in Workers \ {w} : work'[v] = work[v]
      BY <3>4, <3>5, WorkIs
    <3>8. /\ rows' = Stored(rows, b) /\ added' = added + Written(rows, b)
          /\ job' = WriteOut(me, c)
      BY <3>4 DEF Commit
    <3>. QED  BY <1>1, <1>2, <1>3, <1>4, <1>5, <1>6, <1>7, <1>8, <1>13, <2>2, <3>2, <3>5, <3>6,
                 <3>7, <3>8
              DEF Running
  <2>. QED  BY <2>5, <2>6
<1>14. e.kind \in {"skip", "bad", "play"}
  BY <1>4, ImportAssumption
<1>. QED  BY <1>3, <1>12, <1>13, <1>14
LEMMA Leaves ==
    ASSUME TypeOK, NEW w \in Workers, work' = [work EXCEPT ![w] = Idle]
    PROVE  /\ work' \in [Workers -> ExecType]
           /\ work'[w] = Idle /\ ~Running(w)'
           /\ \A v \in Workers \ {w} : work'[v] = work[v]
<1>1. /\ work'[w] = Idle /\ work' \in [Workers -> ExecType]
      /\ \A v \in Workers \ {w} : work'[v] = work[v]
  BY IdleIs, WorkIs
<1>. QED  BY <1>1, IdleIs DEF Running

\* The end of a file leaves the batch as it is and commits the session's job.
LEMMA EndFileEffect ==
    ASSUME TypeOK, NEW w \in Workers, EndFile(w)
    PROVE  /\ Running(w) /\ Running(w)' /\ work' \in [Workers -> ExecType]
           /\ \A v \in Workers \ {w} : work'[v] = work[v]
           /\ UNCHANGED <<export, rows, messages, added, deliveries, overlapped, faults>>
           /\ work[w].file \in 1..Len(export)
           /\ work[w].at >= Len(export[work[w].file])
           /\ work'[w].file = work[w].file + 1 /\ work'[w].at = 0
           /\ work'[w].batch = work[w].batch /\ work'[w].base = work'[w].mine
           /\ work'[w].mine.status = work[w].mine.status
           /\ work'[w].mine.inserted = work[w].mine.inserted
           /\ AddsUp(work[w].mine, Len(work[w].batch)) => AddsUp(work'[w].mine, Len(work'[w].batch))
           /\ job' = WriteOut(work[w], work'[w].mine)
<1>1. PICK me \in ExecType : me = work[w]
  BY Fields
<1>2. PICK mine \in Jobs, batch \in Seq(Plays), file \in Nat \ {0} :
        mine = me.mine /\ batch = me.batch /\ file = me.file
  BY <1>1 DEF ExecType
<1>3. PICK n \in Nat, next \in Nat \ {0} : n = mine.files + 1 /\ next = file + 1
  BY <1>2 DEF Jobs
<1>4. PICK m : m = [mine EXCEPT !.files = n]
  OBVIOUS
<1>5. m \in Jobs
  BY <1>2, <1>3, <1>4, OneColumn
<1>6. /\ m.status = mine.status /\ m.total = mine.total /\ m.inserted = mine.inserted
      /\ m.duplicate = mine.duplicate /\ m.invalid = mine.invalid
  BY <1>2, <1>4 DEF Jobs
<1>7. PICK e : e = [me EXCEPT !.file = next, !.at = 0, !.mine = m, !.base = m]
  OBVIOUS
<1>8. /\ e.pc = me.pc /\ e.file = next /\ e.at = 0 /\ e.batch = batch
      /\ e.mine = m /\ e.base = m
  BY <1>1, <1>2, <1>7 DEF ExecType
<1>9. e = [pc |-> e.pc, file |-> e.file, at |-> e.at, batch |-> e.batch,
           mine |-> e.mine, base |-> e.base]
  BY <1>1, <1>7 DEF ExecType
<1>10. me.pc \in {"idle", "run"}
  BY <1>1 DEF ExecType
<1>11. e \in ExecType
  <2>1. /\ e.pc \in {"idle", "run"} /\ e.file \in Nat \ {0} /\ e.at \in Nat
        /\ e.batch \in Seq(Plays) /\ e.mine \in Jobs /\ e.base \in Jobs
    BY <1>2, <1>3, <1>5, <1>8, <1>10
  <2>. QED  BY <1>9, <2>1 DEF ExecType
<1>12. /\ me.pc = "run" /\ me.file <= Len(export) /\ ~(me.at < Len(export[me.file]))
       /\ work' = [work EXCEPT ![w] = e]
       /\ job' = WriteOut(me, m)
       /\ UNCHANGED <<export, rows, messages, added, deliveries, overlapped, faults>>
  <2>1. m = [me.mine EXCEPT !.files = me.mine.files + 1]
    BY <1>2, <1>3, <1>4
  <2>2. e = [me EXCEPT !.file = me.file + 1, !.at = 0, !.mine = m, !.base = m]
    BY <1>2, <1>3, <1>7
  <2>. QED  BY <1>1, <2>1, <2>2 DEF EndFile, More
<1>13. /\ work'[w] = e /\ work' \in [Workers -> ExecType]
       /\ \A v \in Workers \ {w} : work'[v] = work[v]
  BY <1>11, <1>12, WorkIs
<1>14. me.file \in 1..Len(export) /\ me.at >= Len(export[me.file])
  BY <1>1, <1>12, ExportIs DEF ExecType
<1>15. \A k \in Nat : AddsUp(mine, k) => AddsUp(m, k)
  BY <1>6 DEF AddsUp
<1>16. AddsUp(me.mine, Len(me.batch)) => AddsUp(e.mine, Len(e.batch))
  BY <1>2, <1>8, <1>15
<1>. QED  BY <1>1, <1>2, <1>3, <1>6, <1>8, <1>12, <1>13, <1>14, <1>16 DEF Running

LEMMA AddsUpFlushed ==
    ASSUME NEW i \in Jobs, NEW j \in Jobs, NEW n \in Nat,
           j.total = i.total, j.invalid = i.invalid,
           j.inserted + j.duplicate = i.inserted + i.duplicate + n
    PROVE  AddsUp(i, n) => AddsUp(j, 0)
BY DEF AddsUp, Jobs

\* The end of the export flushes what is left and says so.
LEMMA FinishEffect ==
    ASSUME TypeOK, NEW w \in Workers, Finish(w)
    PROVE  /\ Running(w) /\ work[w].file > Len(export)
           /\ work' = [work EXCEPT ![w] = Idle]
           /\ UNCHANGED <<export, messages, deliveries, overlapped, faults>>
           /\ rows' = Stored(rows, work[w].batch)
           /\ added' = added + Written(rows, work[w].batch)
           /\ \E mine \in Jobs :
                /\ mine.status = "succeeded" /\ job' = WriteOut(work[w], mine)
                /\ mine.inserted = work[w].mine.inserted + Written(rows, work[w].batch)
                /\ AddsUp(work[w].mine, Len(work[w].batch)) => AddsUp(mine, 0)
<1>1. PICK me \in ExecType : me = work[w]
  BY Fields
<1>2. PICK mine \in Jobs, batch \in Seq(Plays) : mine = me.mine /\ batch = me.batch
  BY <1>1 DEF ExecType
<1>3. PICK size \in Nat : size = Len(batch)
  BY <1>2
<1>4. PICK c \in Jobs :
        /\ c = Counted(mine, batch)
        /\ c.total = mine.total /\ c.invalid = mine.invalid
        /\ c.inserted = mine.inserted + Written(rows, batch)
        /\ c.inserted + c.duplicate = mine.inserted + mine.duplicate + size
  <2>1. mine \in Jobs /\ batch \in Seq(Plays)
    BY <1>2
  <2>2. PICK c : c = Counted(mine, batch)
    OBVIOUS
  <2>3. /\ c \in Jobs /\ c.total = mine.total /\ c.invalid = mine.invalid
        /\ c.inserted = mine.inserted + Written(rows, batch)
        /\ c.inserted + c.duplicate = mine.inserted + mine.duplicate + Len(batch)
    BY <2>1, <2>2, CountedIs
  <2>. QED  BY <1>3, <2>2, <2>3
<1>5. PICK s : s = [c EXCEPT !.status = "succeeded"]
  OBVIOUS
<1>6. s \in Jobs
  BY <1>4, <1>5, OneColumn
<1>7. /\ s.status = "succeeded" /\ s.total = c.total /\ s.inserted = c.inserted
      /\ s.duplicate = c.duplicate /\ s.invalid = c.invalid
  BY <1>4, <1>5 DEF Jobs
<1>8. AddsUp(mine, size) => AddsUp(s, 0)
  <2>1. s.total = mine.total /\ s.invalid = mine.invalid
    BY <1>4, <1>7
  <2>2. s.inserted + s.duplicate = mine.inserted + mine.duplicate + size
    BY <1>4, <1>7
  <2>3. mine \in Jobs /\ size \in Nat
    BY <1>2, <1>3
  <2>. QED  BY <1>6, <2>1, <2>2, <2>3, AddsUpFlushed
<1>9. /\ me.pc = "run" /\ me.file > Len(export) /\ work' = [work EXCEPT ![w] = Idle]
      /\ Commit(me, batch, s)
      /\ UNCHANGED <<export, messages, deliveries, overlapped, faults>>
  BY <1>1, <1>2, <1>4, <1>5 DEF Finish, LastBatch
<1>10. /\ rows' = Stored(rows, batch) /\ added' = added + Written(rows, batch)
       /\ job' = WriteOut(me, s)
  BY <1>9 DEF Commit
<1>11. /\ s.status = "succeeded" /\ job' = WriteOut(work[w], s)
       /\ s.inserted = work[w].mine.inserted + Written(rows, work[w].batch)
       /\ AddsUp(work[w].mine, Len(work[w].batch)) => AddsUp(s, 0)
  BY <1>1, <1>2, <1>3, <1>4, <1>7, <1>8, <1>10
<1>. QED  BY <1>1, <1>2, <1>6, <1>9, <1>10, <1>11 DEF Running

\* An entry that cannot be read ends the job with what was flushed.
LEMMA RefuseEffect ==
    ASSUME TypeOK, NEW w \in Workers, Refuse(w)
    PROVE  /\ Running(w) /\ work' = [work EXCEPT ![w] = Idle]
           /\ UNCHANGED <<export, rows, messages, added, deliveries, overlapped, faults>>
           /\ \E mine \in Jobs :
                /\ mine.status = "failed" /\ job' = WriteOut(work[w], mine)
                /\ mine.inserted = work[w].mine.inserted
<1>1. PICK me \in ExecType : me = work[w]
  BY Fields
<1>2. PICK mine \in Jobs : mine = me.mine
  BY <1>1 DEF ExecType
<1>3. PICK m \in Jobs :
        m = [mine EXCEPT !.total = mine.total + 1] /\ m.inserted = mine.inserted
  BY <1>2, OneMore
<1>4. PICK s : s = [m EXCEPT !.status = "failed"]
  OBVIOUS
<1>5. s \in Jobs /\ s.status = "failed" /\ s.inserted = m.inserted
  <2>1. s \in Jobs
    BY <1>3, <1>4, OneColumn
  <2>. QED  BY <1>3, <1>4, <2>1 DEF Jobs
<1>6. s = [mine EXCEPT !.total = @ + 1, !.status = "failed"]
  BY <1>2, <1>3, <1>4 DEF Jobs
<1>7. /\ me.pc = "run" /\ work' = [work EXCEPT ![w] = Idle] /\ job' = WriteOut(me, s)
      /\ UNCHANGED <<export, rows, messages, added, deliveries, overlapped, faults>>
  BY <1>1, <1>2, <1>6 DEF Refuse
<1>. QED  BY <1>1, <1>2, <1>3, <1>5, <1>7 DEF Running

\* An execution begins with the committed row for its own.
LEMMA StartEffect ==
    ASSUME TypeOK, NEW w \in Workers, Start(w)
    PROVE  /\ ~Running(w) /\ Running(w)' /\ work' \in [Workers -> ExecType]
           /\ \A v \in Workers \ {w} : work'[v] = work[v]
           /\ messages > 0 /\ messages' = messages - 1 /\ deliveries' = deliveries + 1
           /\ overlapped' = (overlapped \/ \E o \in Workers : Running(o))
           /\ UNCHANGED <<export, rows, added, faults>>
           /\ work'[w].file = 1 /\ work'[w].at = 0 /\ work'[w].batch = <<>>
           /\ work'[w].mine = job' /\ work'[w].base = job' /\ job' \in Jobs
           /\ job'.status = "running" /\ job'.inserted = job.inserted
           /\ AddsUp(job, 0) => AddsUp(job', 0)
<1>1. job \in Jobs
  BY Types
<1>2. PICK m : m = [job EXCEPT !.status = "running"]
  OBVIOUS
<1>3. m \in Jobs
  BY <1>1, <1>2, OneColumn
<1>4. /\ m.status = "running" /\ m.total = job.total /\ m.inserted = job.inserted
      /\ m.duplicate = job.duplicate /\ m.invalid = job.invalid
  BY <1>1, <1>2 DEF Jobs
<1>5. PICK e : e = [Idle EXCEPT !.pc = "run", !.mine = m, !.base = m]
  OBVIOUS
<1>6. /\ e.pc = "run" /\ e.file = 1 /\ e.at = 0 /\ e.batch = <<>>
      /\ e.mine = m /\ e.base = m
  BY <1>5 DEF Idle
<1>7. e = [pc |-> e.pc, file |-> e.file, at |-> e.at, batch |-> e.batch,
           mine |-> e.mine, base |-> e.base]
  BY <1>5 DEF Idle
<1>8. e \in ExecType
  <2>1. e.batch \in Seq(Plays)
    BY <1>6
  <2>2. /\ e.pc \in {"idle", "run"} /\ e.file \in Nat \ {0} /\ e.at \in Nat
        /\ e.mine \in Jobs /\ e.base \in Jobs
    BY <1>3, <1>6
  <2>. QED  BY <1>7, <2>1, <2>2 DEF ExecType
<1>9. /\ messages > 0 /\ work[w].pc = "idle" /\ messages' = messages - 1
      /\ deliveries' = deliveries + 1
      /\ overlapped' = (overlapped \/ \E o \in Workers : work[o].pc # "idle")
      /\ job' = m /\ work' = [work EXCEPT ![w] = e]
      /\ UNCHANGED <<export, rows, added, faults>>
  BY <1>2, <1>5 DEF Start
<1>10. /\ work'[w] = e /\ work' \in [Workers -> ExecType]
       /\ \A v \in Workers \ {w} : work'[v] = work[v]
  BY <1>8, <1>9, WorkIs
<1>11. \A o \in Workers : work[o].pc # "idle" <=> Running(o)
  BY Fields DEF Running
<1>12. overlapped' = (overlapped \/ \E o \in Workers : Running(o))
  BY <1>9, <1>11
<1>13. AddsUp(job, 0) => AddsUp(m, 0)
  BY <1>4 DEF AddsUp
<1>. QED  BY <1>3, <1>4, <1>6, <1>9, <1>10, <1>12, <1>13 DEF Running

LEMMA UploadEffect ==
    ASSUME Upload
    PROVE  /\ job.status = "none" /\ job' = [NewJob EXCEPT !.status = "queued"]
           /\ job'.status = "queued" /\ job'.inserted = 0 /\ job' \in Jobs
           /\ messages' \in {messages, 1}
           /\ UNCHANGED <<export, rows, work, added, deliveries, overlapped>>
<1>1. PICK j : j = [NewJob EXCEPT !.status = "queued"]
  OBVIOUS
<1>2. j.status = "queued" /\ j.inserted = 0 /\ j \in Jobs
  BY <1>1, NewJobIs DEF NewJob
<1>. QED  BY <1>1, <1>2 DEF Upload
-----------------------------------------------------------------------------
(* Types, the beginning and the session's copy *)

RowInv == TypeOK /\ StartInv /\ CopyInv

LEMMA TypeNext ==
    ASSUME TypeOK, NEW w \in Workers, export' = export,
           job' \in Jobs, rows' \in [Keys -> Nat],
           messages' \in 0..MaxRedeliveries + 1, deliveries' \in 0..MaxRedeliveries + 1,
           work' \in [Workers -> ExecType], \A v \in Workers \ {w} : work'[v] = work[v],
           work'[w].file <= Len(export) + 1,
           work'[w].file <= Len(export) => work'[w].at <= Len(export[work'[w].file]),
           Len(work'[w].batch) < BATCH,
           added' \in Nat, overlapped' \in BOOLEAN, faults' \in 0..MaxFaults
    PROVE  TypeOK'
<1>1. export' \in Exports
  BY DEF TypeOK
<1>2. \A v \in Workers :
        /\ work'[v].file <= Len(export') + 1
        /\ work'[v].file <= Len(export') => work'[v].at <= Len(export'[work'[v].file])
        /\ Len(work'[v].batch) < BATCH
  BY Types
<1>. QED  BY <1>1, <1>2 DEF TypeOK, ExecType

LEMMA IdleFits ==
    ASSUME TypeOK
    PROVE  /\ Idle.file <= Len(export) + 1
           /\ Idle.file <= Len(export) => Idle.at <= Len(export[Idle.file])
           /\ Len(Idle.batch) < BATCH
<1>1. Idle.file = 1 /\ Idle.at = 0 /\ Idle.batch = <<>>
  BY DEF Idle
<1>2. Len(<<>>) = 0 /\ BATCH > 0
  BY ImportAssumption
<1>. QED  BY <1>1, <1>2, ExportIs

\* What a commit of a running execution leaves in the row.
LEMMA CommitIs ==
    ASSUME TypeOK, NEW w \in Workers, Running(w), NEW mine \in Jobs, job' = WriteOut(work[w], mine)
    PROVE  /\ job' \in Jobs
           /\ job = work[w].base => job' = mine
           /\ job'.status = IF mine.status # work[w].base.status THEN mine.status ELSE job.status
           /\ job'.inserted = IF mine.inserted # work[w].base.inserted THEN mine.inserted
                              ELSE job.inserted
<1>1. work[w] \in ExecType /\ job \in Jobs
  BY Types
<1>2. PICK me, j : me \in ExecType /\ me = work[w] /\ j = WriteOut(me, mine)
  BY <1>1
<1>3. me \in ExecType
  BY <1>2
<1>4. j = WriteOut(me, mine)
  BY <1>2
<1>5. /\ j \in Jobs
      /\ job = me.base => j = mine
      /\ j.status = IF mine.status # me.base.status THEN mine.status ELSE job.status
      /\ j.inserted = IF mine.inserted # me.base.inserted THEN mine.inserted ELSE job.inserted
  BY <1>1, <1>3, <1>4, WriteOutIs
<1>. QED  BY <1>2, <1>5

LEMMA RunningDelivered ==
    ASSUME RowInv, NEW w \in Workers, Running(w)
    PROVE  deliveries # 0 /\ job.status # "none"
BY DEF RowInv, StartInv

\* The others' copies stay.
LEMMA CopyKept ==
    ASSUME RowInv, NEW w \in Workers, \A v \in Workers \ {w} : work'[v] = work[v],
           Running(w)' => /\ work'[w].mine.status = "running" /\ work'[w].base.status = "running"
                          /\ work'[w].mine.inserted = work'[w].base.inserted
    PROVE  CopyInv'
BY DEF RowInv, CopyInv, Running

\* A step of a running execution, once its types are known.
LEMMA RunRow ==
    ASSUME RowInv, NEW w \in Workers, Running(w), TypeOK', CopyInv',
           job' = job \/ job'.status # "none",
           deliveries' = deliveries, deliveries' + messages' <= MaxRedeliveries + 1
    PROVE  RowInv'
<1>1. deliveries # 0 /\ job.status # "none"
  BY RunningDelivered
<1>. QED  BY <1>1 DEF RowInv, StartInv

LEMMA Numbers ==
    ASSUME RowInv
    PROVE  /\ MaxRedeliveries \in Nat /\ MaxFaults \in Nat /\ BATCH \in Nat /\ BATCH > 0
           /\ messages \in Nat /\ deliveries \in Nat /\ faults \in Nat /\ added \in Nat
           /\ deliveries + messages <= MaxRedeliveries + 1
BY ImportAssumption DEF RowInv, TypeOK, StartInv

LEMMA RowInit == Init => RowInv
<1>. SUFFICES ASSUME Init PROVE RowInv
  OBVIOUS
<1>1. work = [w \in Workers |-> Idle] /\ \A w \in Workers : work[w] = Idle /\ ~Running(w)
  BY IdleIs DEF Init, Running
<1>2. TypeOK
  <2>1. export \in Exports /\ Exports \subseteq Seq(Seq(Entries))
    BY ImportAssumption DEF Init
  <2>2. work \in [Workers -> ExecType]
    BY <1>1, IdleIs
  <2>3. \A w \in Workers :
          /\ work[w].file <= Len(export) + 1
          /\ work[w].file <= Len(export) => work[w].at <= Len(export[work[w].file])
          /\ Len(work[w].batch) < BATCH
    <3>1. export \in Seq(Seq(Entries))
      BY <2>1
    <3>2. Len(export) \in Nat /\ 1 <= Len(export) => Len(export[1]) \in Nat
      BY <3>1
    <3>3. Idle.file = 1 /\ Idle.at = 0 /\ Idle.batch = <<>>
      BY DEF Idle
    <3>4. Len(<<>>) = 0 /\ BATCH \in Nat /\ BATCH > 0
      BY ImportAssumption
    <3>. QED  BY <1>1, <3>2, <3>3, <3>4
  <2>4. job \in Jobs /\ rows \in [Keys -> Nat] /\ overlapped \in BOOLEAN
    BY ImportAssumption, NewJobIs DEF Init
  <2>5. /\ messages \in 0..MaxRedeliveries + 1 /\ deliveries \in 0..MaxRedeliveries + 1
        /\ added \in Nat /\ faults \in 0..MaxFaults
    BY ImportAssumption DEF Init
  <2>. QED  BY <2>1, <2>2, <2>3, <2>4, <2>5 DEF TypeOK, ExecType
<1>3. StartInv
  BY <1>1, ImportAssumption DEF Init, StartInv
<1>4. CopyInv
  BY <1>1 DEF CopyInv
<1>. QED  BY <1>2, <1>3, <1>4 DEF RowInv
LEMMA RowUpload == ASSUME RowInv, Upload PROVE RowInv'
<1>1. /\ job.status = "none" /\ job' = [NewJob EXCEPT !.status = "queued"]
      /\ job'.status = "queued" /\ job' \in Jobs /\ messages' \in {messages, 1}
      /\ UNCHANGED <<export, rows, work, added, deliveries, overlapped>>
  BY UploadEffect
<1>2. messages = 0 /\ deliveries = 0
  BY <1>1 DEF RowInv, StartInv
<1>3. faults' \in 0..MaxFaults
  BY Numbers DEF Upload, RowInv, TypeOK
<1>4. messages' \in 0..MaxRedeliveries + 1 /\ deliveries' + messages' <= MaxRedeliveries + 1
  BY <1>1, <1>2, Numbers
<1>5. TypeOK'
  BY <1>1, <1>3, <1>4 DEF RowInv, TypeOK
<1>6. StartInv'
  BY <1>1, <1>2, <1>4 DEF RowInv, StartInv, Running
<1>7. CopyInv'
  BY <1>1 DEF RowInv, CopyInv, Running
<1>. QED  BY <1>5, <1>6, <1>7 DEF RowInv

LEMMA RowStart == ASSUME RowInv, NEW w \in Workers, Start(w) PROVE RowInv'
<1>1. TypeOK
  BY DEF RowInv
<1>2. /\ ~Running(w) /\ Running(w)' /\ work' \in [Workers -> ExecType]
      /\ \A v \in Workers \ {w} : work'[v] = work[v]
      /\ messages > 0 /\ messages' = messages - 1 /\ deliveries' = deliveries + 1
      /\ UNCHANGED <<export, rows, added, faults>>
      /\ work'[w].file = 1 /\ work'[w].at = 0 /\ work'[w].batch = <<>>
      /\ work'[w].mine = job' /\ work'[w].base = job' /\ job' \in Jobs
      /\ job'.status = "running"
  BY <1>1, StartEffect
<1>3. overlapped' \in BOOLEAN
  BY <1>1, StartEffect
<1>4. /\ messages' \in 0..MaxRedeliveries + 1 /\ deliveries' \in 0..MaxRedeliveries + 1
      /\ deliveries' + messages' <= MaxRedeliveries + 1 /\ deliveries' # 0
  BY <1>2, Numbers
<1>5. /\ work'[w].file <= Len(export) + 1
      /\ work'[w].file <= Len(export) => work'[w].at <= Len(export[work'[w].file])
      /\ Len(work'[w].batch) < BATCH
  <2>1. Len(<<>>) = 0
    OBVIOUS
  <2>. QED  BY <1>1, <1>2, <2>1, ExportIs, Numbers
<1>6. TypeOK'
  <2>1. rows' \in [Keys -> Nat] /\ added' \in Nat /\ faults' \in 0..MaxFaults /\ export' = export
    BY <1>1, <1>2 DEF TypeOK
  <2>. QED  BY <1>1, <1>2, <1>3, <1>4, <1>5, <2>1, TypeNext
<1>7. StartInv'
  BY <1>2, <1>4 DEF StartInv
<1>8. CopyInv'
  BY <1>2, CopyKept
<1>. QED  BY <1>6, <1>7, <1>8 DEF RowInv

LEMMA RowRead == ASSUME RowInv, NEW w \in Workers, Read(w) PROVE RowInv'
<1>1. TypeOK
  BY DEF RowInv
<1>2. PICK e \in Entries :
        /\ e = export[work[w].file][work[w].at + 1]
        /\ \/ /\ e.kind # "play" /\ work'[w].batch = work[w].batch
              /\ work'[w].base = work[w].base
              /\ work'[w].mine.inserted = work[w].mine.inserted
              /\ UNCHANGED <<job, rows, added>>
           \/ /\ e \in Plays /\ work'[w].batch = Append(work[w].batch, e)
              /\ Len(work'[w].batch) < BATCH
              /\ work'[w].base = work[w].base
              /\ work'[w].mine.inserted = work[w].mine.inserted
              /\ UNCHANGED <<job, rows, added>>
           \/ /\ e \in Plays /\ work'[w].batch = <<>>
              /\ work'[w].base = work'[w].mine
              /\ rows' = Stored(rows, Append(work[w].batch, e))
              /\ added' = added + Written(rows, Append(work[w].batch, e))
              /\ job' = WriteOut(work[w], work'[w].mine)
  BY <1>1, ReadEffect
<1>3. /\ Running(w) /\ work' \in [Workers -> ExecType]
      /\ \A v \in Workers \ {w} : work'[v] = work[v]
      /\ UNCHANGED <<export, messages, deliveries, overlapped, faults>>
      /\ Running(w)' /\ work'[w].file = work[w].file
      /\ work[w].file \in 1..Len(export)
      /\ work'[w].at \in 1..Len(export[work[w].file])
      /\ work'[w].mine.status = work[w].mine.status
  BY <1>1, ReadEffect
<1>4. /\ work[w].mine.status = "running" /\ work[w].base.status = "running"
      /\ work[w].mine.inserted = work[w].base.inserted
  BY <1>3 DEF RowInv, CopyInv
<1>5. work'[w] \in ExecType /\ work'[w].mine \in Jobs
  BY <1>3 DEF ExecType
<1>6. /\ job' \in Jobs /\ job'.status = job.status
      /\ rows' \in [Keys -> Nat] /\ added' \in Nat /\ Len(work'[w].batch) < BATCH
  <2>1. CASE UNCHANGED <<job, rows, added>>
    <3>1. Len(work'[w].batch) < BATCH
      <4>1. Len(<<>>) = 0
        OBVIOUS
      <4>. QED  BY <1>1, <1>2, <4>1, Numbers DEF TypeOK
    <3>. QED  BY <1>1, <2>1, <3>1 DEF TypeOK
  <2>2. CASE ~(UNCHANGED <<job, rows, added>>)
    <3>1. /\ e \in Plays /\ work'[w].batch = <<>>
          /\ rows' = Stored(rows, Append(work[w].batch, e))
          /\ added' = added + Written(rows, Append(work[w].batch, e))
          /\ job' = WriteOut(work[w], work'[w].mine)
      BY <1>2, <2>2
    <3>2. PICK b \in Seq(Plays) : b = Append(work[w].batch, e)
      <4>1. work[w].batch \in Seq(Plays)
        BY <1>1, Fields
      <4>2. Append(work[w].batch, e) \in Seq(Plays)
        BY <3>1, <4>1
      <4>. QED  BY <4>2
    <3>3. b \in Seq(Plays) /\ rows \in [Keys -> Nat] /\ added \in Nat
      BY <1>1, <3>2 DEF TypeOK
    <3>4. rows' \in [Keys -> Nat] /\ added' \in Nat
      <4>1. Stored(rows, b) \in [Keys -> Nat]
        BY <3>3, StoredIs
      <4>2. Written(rows, b) \in Nat
        BY <3>3, WrittenType
      <4>. QED  BY <3>1, <3>2, <3>3, <4>1, <4>2
    <3>5. job' \in Jobs /\ job'.status = job.status
      BY <1>1, <1>3, <1>4, <1>5, <3>1, CommitIs
    <3>6. Len(work'[w].batch) < BATCH
      <4>1. Len(<<>>) = 0
        OBVIOUS
      <4>. QED  BY <3>1, <4>1, Numbers
    <3>. QED  BY <3>4, <3>5, <3>6
  <2>. QED  BY <2>1, <2>2
<1>7. TypeOK'
  <2>1. /\ work'[w].file <= Len(export) + 1
        /\ work'[w].file <= Len(export) => work'[w].at <= Len(export[work'[w].file])
    BY <1>1, <1>3, ExportIs
  <2>2. /\ messages' \in 0..MaxRedeliveries + 1 /\ deliveries' \in 0..MaxRedeliveries + 1
        /\ overlapped' \in BOOLEAN /\ faults' \in 0..MaxFaults /\ export' = export
    BY <1>1, <1>3 DEF TypeOK
  <2>. QED  BY <1>1, <1>3, <1>6, <2>1, <2>2, TypeNext
<1>8. CopyInv'
  <2>1. \/ work'[w].base = work[w].base /\ work'[w].mine.inserted = work[w].mine.inserted
        \/ work'[w].base = work'[w].mine
    BY <1>2
  <2>. QED  BY <1>3, <1>4, <2>1, CopyKept
<1>9. job'.status # "none" /\ deliveries' + messages' <= MaxRedeliveries + 1
  BY <1>3, <1>6, RunningDelivered, Numbers
<1>. QED  BY <1>3, <1>7, <1>8, <1>9, RunRow

LEMMA RowEndFile == ASSUME RowInv, NEW w \in Workers, EndFile(w) PROVE RowInv'
<1>1. TypeOK
  BY DEF RowInv
<1>2. /\ Running(w) /\ Running(w)' /\ work' \in [Workers -> ExecType]
      /\ \A v \in Workers \ {w} : work'[v] = work[v]
      /\ UNCHANGED <<export, rows, messages, added, deliveries, overlapped, faults>>
      /\ work[w].file \in 1..Len(export)
      /\ work'[w].file = work[w].file + 1 /\ work'[w].at = 0
      /\ work'[w].batch = work[w].batch /\ work'[w].base = work'[w].mine
      /\ work'[w].mine.status = work[w].mine.status
      /\ job' = WriteOut(work[w], work'[w].mine)
  BY <1>1, EndFileEffect
<1>3. work[w].mine.status = "running" /\ work[w].base.status = "running"
  BY <1>2 DEF RowInv, CopyInv
<1>4. work'[w] \in ExecType /\ work'[w].mine \in Jobs
  BY <1>2 DEF ExecType
<1>5. job' \in Jobs /\ job'.status = job.status
  BY <1>1, <1>2, <1>3, <1>4, CommitIs
<1>6. TypeOK'
  <2>1. /\ work'[w].file <= Len(export) + 1
        /\ work'[w].file <= Len(export) => work'[w].at <= Len(export[work'[w].file])
    BY <1>1, <1>2, ExportIs
  <2>2. /\ messages' \in 0..MaxRedeliveries + 1 /\ deliveries' \in 0..MaxRedeliveries + 1
        /\ overlapped' \in BOOLEAN /\ faults' \in 0..MaxFaults /\ export' = export
        /\ rows' \in [Keys -> Nat] /\ added' \in Nat
    BY <1>1, <1>2 DEF TypeOK
  <2>3. Len(work'[w].batch) < BATCH
    BY <1>1, <1>2 DEF TypeOK
  <2>. QED  BY <1>1, <1>2, <1>5, <2>1, <2>2, <2>3, TypeNext
<1>7. CopyInv'
  BY <1>2, <1>3, CopyKept
<1>8. job'.status # "none" /\ deliveries' + messages' <= MaxRedeliveries + 1
  BY <1>2, <1>5, RunningDelivered, Numbers
<1>. QED  BY <1>2, <1>6, <1>7, <1>8, RunRow

\* An execution that ends, one way or another.
LEMMA RowLeave ==
    ASSUME RowInv, NEW w \in Workers, Running(w), work' = [work EXCEPT ![w] = Idle],
           export' = export, overlapped' = overlapped, deliveries' = deliveries,
           messages' \in Nat, deliveries + messages' <= MaxRedeliveries + 1,
           job' \in Jobs, job' = job \/ job'.status # "none",
           rows' \in [Keys -> Nat], added' \in Nat, faults' \in 0..MaxFaults
    PROVE  RowInv'
<1>1. TypeOK
  BY DEF RowInv
<1>2. /\ work' \in [Workers -> ExecType] /\ work'[w] = Idle /\ ~Running(w)'
      /\ \A v \in Workers \ {w} : work'[v] = work[v]
  BY <1>1, Leaves
<1>3. TypeOK'
  <2>1. /\ messages' \in 0..MaxRedeliveries + 1 /\ deliveries' \in 0..MaxRedeliveries + 1
    BY Numbers
  <2>2. overlapped' \in BOOLEAN
    BY <1>1 DEF TypeOK
  <2>3. /\ work'[w].file <= Len(export) + 1
        /\ work'[w].file <= Len(export) => work'[w].at <= Len(export[work'[w].file])
        /\ Len(work'[w].batch) < BATCH
    BY <1>1, <1>2, IdleFits
  <2>. QED  BY <1>1, <1>2, <2>1, <2>2, <2>3, TypeNext
<1>4. CopyInv'
  BY <1>2, CopyKept
<1>. QED  BY <1>3, <1>4, RunRow

LEMMA RowFinish == ASSUME RowInv, NEW w \in Workers, Finish(w) PROVE RowInv'
<1>1. TypeOK
  BY DEF RowInv
<1>2. /\ Running(w) /\ work' = [work EXCEPT ![w] = Idle]
      /\ UNCHANGED <<export, messages, deliveries, overlapped, faults>>
      /\ rows' = Stored(rows, work[w].batch)
      /\ added' = added + Written(rows, work[w].batch)
  BY <1>1, FinishEffect
<1>3. PICK mine \in Jobs : mine.status = "succeeded" /\ job' = WriteOut(work[w], mine)
  BY <1>1, FinishEffect
<1>4. job' \in Jobs /\ job'.status # "none"
  <2>1. work[w].base.status = "running"
    BY <1>2 DEF RowInv, CopyInv
  <2>. QED  BY <1>1, <1>2, <1>3, <2>1, CommitIs
<1>5. rows' \in [Keys -> Nat] /\ added' \in Nat
  <2>1. work[w].batch \in Seq(Plays) /\ rows \in [Keys -> Nat] /\ added \in Nat
    BY <1>1, Fields DEF TypeOK
  <2>. QED  BY <1>2, <2>1, StoredIs, WrittenType
<1>6. messages' \in Nat /\ deliveries + messages' <= MaxRedeliveries + 1
  BY <1>2, Numbers
<1>7. faults' \in 0..MaxFaults
  BY <1>1, <1>2 DEF TypeOK
<1>. QED  BY <1>2, <1>4, <1>5, <1>6, <1>7, RowLeave

LEMMA RowRefuse == ASSUME RowInv, NEW w \in Workers, Refuse(w) PROVE RowInv'
<1>1. TypeOK
  BY DEF RowInv
<1>2. /\ Running(w) /\ work' = [work EXCEPT ![w] = Idle]
      /\ UNCHANGED <<export, rows, messages, added, deliveries, overlapped, faults>>
  BY <1>1, RefuseEffect
<1>3. PICK mine \in Jobs : mine.status = "failed" /\ job' = WriteOut(work[w], mine)
  BY <1>1, RefuseEffect
<1>4. job' \in Jobs /\ job'.status # "none"
  <2>1. work[w].base.status = "running"
    BY <1>2 DEF RowInv, CopyInv
  <2>. QED  BY <1>1, <1>2, <1>3, <2>1, CommitIs
<1>5. rows' \in [Keys -> Nat] /\ added' \in Nat /\ faults' \in 0..MaxFaults
  BY <1>1, <1>2 DEF TypeOK
<1>6. messages' \in Nat /\ deliveries + messages' <= MaxRedeliveries + 1
  BY <1>2, Numbers
<1>. QED  BY <1>2, <1>4, <1>5, <1>6, RowLeave

LEMMA RowGiveUp == ASSUME RowInv, NEW w \in Workers, GiveUp(w) PROVE RowInv'
<1>1. /\ Running(w) /\ work' = [work EXCEPT ![w] = Idle] /\ faults < MaxFaults
      /\ faults' = faults + 1
      /\ UNCHANGED <<export, job, rows, messages, added, deliveries, overlapped>>
  BY DEF GiveUp, Running
<1>2. faults' \in 0..MaxFaults /\ messages' \in Nat /\ deliveries + messages' <= MaxRedeliveries + 1
  BY <1>1, Numbers
<1>3. job' \in Jobs /\ rows' \in [Keys -> Nat] /\ added' \in Nat
  BY <1>1 DEF RowInv, TypeOK
<1>. QED  BY <1>1, <1>2, <1>3, RowLeave

LEMMA RowRedeliver == ASSUME RowInv, NEW w \in Workers, Redeliver(w) PROVE RowInv'
<1>1. /\ Running(w) /\ deliveries + messages <= MaxRedeliveries /\ messages' = messages + 1
      /\ work' \in {work, [work EXCEPT ![w] = Idle]}
      /\ UNCHANGED <<export, job, rows, added, deliveries, overlapped, faults>>
  BY DEF Redeliver, Returned, Running
<1>2. /\ messages' \in 0..MaxRedeliveries + 1 /\ messages' \in Nat
      /\ deliveries + messages' <= MaxRedeliveries + 1
  BY <1>1, Numbers
<1>3. /\ job' \in Jobs /\ rows' \in [Keys -> Nat] /\ added' \in Nat /\ faults' \in 0..MaxFaults
  BY <1>1 DEF RowInv, TypeOK
<1>4. CASE work' = [work EXCEPT ![w] = Idle]
  BY <1>1, <1>2, <1>3, <1>4, RowLeave
<1>5. CASE work' = work
  <2>1. TypeOK'
    BY <1>1, <1>2, <1>5 DEF RowInv, TypeOK
  <2>2. CopyInv'
    BY <1>1, <1>5 DEF RowInv, CopyInv, Running
  <2>. QED  BY <1>1, <1>2, <2>1, <2>2, RunRow
<1>. QED  BY <1>1, <1>4, <1>5

LEMMA RowStep == RowInv /\ [Next]_vars => RowInv'
<1>. SUFFICES ASSUME RowInv, [Next]_vars PROVE RowInv'
  OBVIOUS
<1>1. CASE UNCHANGED vars
  BY <1>1 DEF vars, RowInv, TypeOK, StartInv, CopyInv, Running
<1>2. CASE Upload
  BY <1>2, RowUpload
<1>3. ASSUME NEW w \in Workers, Start(w) \/ Run(w) \/ GiveUp(w) \/ Redeliver(w)
      PROVE  RowInv'
  BY <1>3, RowStart, RowRead, RowEndFile, RowFinish, RowRefuse, RowGiveUp, RowRedeliver DEF Run
<1>. QED  BY <1>1, <1>2, <1>3 DEF Next, Done

\* Types: no counter is negative, no batch longer than its bound, no execution
\* past the end of its file, however often the message is delivered.
THEOREM TypeCorrect == Spec => []TypeOK
<1>1. Spec => []RowInv
  BY RowInit, RowStep, PTL DEF Spec
<1>2. RowInv => TypeOK
  BY DEF RowInv
<1>. QED  BY <1>1, <1>2, PTL
-----------------------------------------------------------------------------
(* The counters *)

CountInv == RowInv /\ AloneInv /\ SumInv

LEMMA CountInit == Init => CountInv
<1>. SUFFICES ASSUME Init PROVE CountInv
  OBVIOUS
<1>1. /\ RowInv /\ \A w \in Workers : ~Running(w)
      /\ job.inserted = 0 /\ added = 0 /\ deliveries = 0 /\ overlapped = FALSE
  BY RowInit, IdleIs DEF Init, NewJob, Running
<1>. QED  BY <1>1 DEF CountInv, AloneInv, SumInv

\* Until executions overlap, the one that runs is alone with the row.
LEMMA Alone ==
    ASSUME CountInv, NEW w \in Workers, Running(w), ~overlapped
    PROVE  /\ job = work[w].base /\ job.inserted = added
           /\ work[w].mine.inserted = added
           /\ \A v \in Workers \ {w} : ~Running(v)
<1>1. job = work[w].base /\ job.inserted = added /\ \A v \in Workers \ {w} : ~Running(v)
  BY DEF CountInv, AloneInv
<1>2. work[w].mine.inserted = work[w].base.inserted
  BY DEF CountInv, RowInv, CopyInv
<1>. QED  BY <1>1, <1>2

\* The first delivery's execution runs alone.
LEMMA FirstAlone ==
    ASSUME CountInv, deliveries <= 1
    PROVE  ~overlapped
BY DEF CountInv, SumInv

\* A step of an execution that goes on.
LEMMA CountRun ==
    ASSUME CountInv, RowInv', NEW w \in Workers, Running(w),
           UNCHANGED <<deliveries, overlapped>>, \A v \in Workers \ {w} : work'[v] = work[v],
           ~overlapped => job'.inserted = added' /\ (Running(w)' => job' = work'[w].base),
           ~overlapped /\ AddsUp(work[w].mine, Len(work[w].batch)) /\ Running(w)'
             => AddsUp(work'[w].mine, Len(work'[w].batch)),
           ~overlapped /\ AddsUp(work[w].mine, Len(work[w].batch)) /\ job'.status = "succeeded"
             => job' = job \/ AddsUp(job', 0)
    PROVE  CountInv'
<1>1. ~overlapped => \A v \in Workers \ {w} : ~Running(v) /\ ~Running(v)'
  BY Alone DEF Running
<1>2. AloneInv'
  BY <1>1 DEF AloneInv
<1>3. SumInv'
  <2>1. deliveries <= 1 => ~overlapped
    BY FirstAlone
  <2>2. ASSUME deliveries = 1
        PROVE  /\ \A v \in Workers : Running(v)' => AddsUp(work'[v].mine, Len(work'[v].batch))
               /\ job'.status = "succeeded" => AddsUp(job', 0)
    <3>1. ~overlapped
      BY <2>1, <2>2
    <3>2. AddsUp(work[w].mine, Len(work[w].batch)) /\ (job.status = "succeeded" => AddsUp(job, 0))
      BY <2>2 DEF CountInv, SumInv
    <3>. QED  BY <1>1, <3>1, <3>2
  <2>. QED  BY <2>1, <2>2 DEF SumInv, Running, AddsUp
<1>. QED  BY <1>2, <1>3 DEF CountInv

LEMMA CountUpload == ASSUME CountInv, Upload PROVE CountInv'
<1>1. /\ job.status = "none" /\ job'.status = "queued" /\ job'.inserted = 0
      /\ UNCHANGED <<work, added, deliveries, overlapped>>
  BY UploadEffect
<1>2. deliveries = 0 /\ added = 0 /\ \A w \in Workers : ~Running(w)
  BY <1>1 DEF CountInv, RowInv, StartInv
<1>3. RowInv'
  BY RowUpload DEF CountInv
<1>4. \A w \in Workers : ~Running(w)'
  BY <1>1, <1>2 DEF Running
<1>. QED  BY <1>1, <1>2, <1>3, <1>4, FirstAlone DEF CountInv, AloneInv, SumInv

LEMMA CountStart == ASSUME CountInv, NEW w \in Workers, Start(w) PROVE CountInv'
<1>1. RowInv' /\ TypeOK /\ RowInv
  BY RowStart DEF CountInv, RowInv
<1>2. /\ Running(w)' /\ \A v \in Workers \ {w} : work'[v] = work[v]
      /\ deliveries' = deliveries + 1 /\ added' = added
      /\ overlapped' = (overlapped \/ \E o \in Workers : Running(o))
      /\ work'[w].batch = <<>> /\ work'[w].mine = job' /\ work'[w].base = job'
      /\ job'.status = "running" /\ job'.inserted = job.inserted
      /\ AddsUp(job, 0) => AddsUp(job', 0)
  BY <1>1, StartEffect
<1>3. ~overlapped' => ~overlapped /\ \A v \in Workers \ {w} : ~Running(v) /\ ~Running(v)'
  BY <1>2 DEF Running
<1>4. AloneInv'
  BY <1>2, <1>3 DEF CountInv, AloneInv
<1>5. ASSUME deliveries' <= 1
      PROVE  ~overlapped' /\ AddsUp(job', 0)
  <2>1. deliveries = 0
    BY <1>1, <1>2, <1>5, Numbers
  <2>2. ~overlapped /\ \A v \in Workers : ~Running(v)
    BY <1>1, <2>1, FirstAlone DEF RowInv, StartInv
  <2>3. AddsUp(job, 0)
    <3>1. job \in {NewJob, [NewJob EXCEPT !.status = "queued"]}
      BY <1>1, <2>1 DEF RowInv, StartInv
    <3>. QED  BY <3>1 DEF AddsUp, NewJob
  <2>. QED  BY <1>2, <2>2, <2>3
<1>6. SumInv'
  <2>1. deliveries' <= 1 => ~overlapped'
    BY <1>5
  <2>2. ASSUME deliveries' = 1
        PROVE  /\ \A v \in Workers : Running(v)' => AddsUp(work'[v].mine, Len(work'[v].batch))
               /\ job'.status = "succeeded" => AddsUp(job', 0)
    <3>1. ~overlapped' /\ AddsUp(job', 0)
      BY <1>5, <2>2
    <3>2. Len(<<>>) = 0
      OBVIOUS
    <3>. QED  BY <1>2, <1>3, <3>1, <3>2
  <2>. QED  BY <2>1, <2>2 DEF SumInv, Running, AddsUp
<1>. QED  BY <1>1, <1>4, <1>6 DEF CountInv

LEMMA CountRead == ASSUME CountInv, NEW w \in Workers, Read(w) PROVE CountInv'
<1>1. RowInv' /\ TypeOK /\ RowInv
  BY RowRead DEF CountInv, RowInv
<1>2. PICK e \in Entries :
        \/ /\ work'[w].base = work[w].base
           /\ AddsUp(work[w].mine, Len(work[w].batch))
                => AddsUp(work'[w].mine, Len(work'[w].batch))
           /\ UNCHANGED <<job, rows, added>>
        \/ /\ work'[w].batch = <<>> /\ work'[w].base = work'[w].mine
           /\ work'[w].mine.inserted
                = work[w].mine.inserted + Written(rows, Append(work[w].batch, e))
           /\ AddsUp(work[w].mine, Len(work[w].batch)) => AddsUp(work'[w].mine, 0)
           /\ added' = added + Written(rows, Append(work[w].batch, e))
           /\ job' = WriteOut(work[w], work'[w].mine)
  BY <1>1, ReadEffect
<1>3. /\ Running(w) /\ Running(w)' /\ work' \in [Workers -> ExecType]
      /\ \A v \in Workers \ {w} : work'[v] = work[v]
      /\ UNCHANGED <<deliveries, overlapped>>
      /\ work'[w].mine.status = work[w].mine.status
  BY <1>1, ReadEffect
<1>4. CASE /\ work'[w].base = work[w].base
           /\ AddsUp(work[w].mine, Len(work[w].batch))
                => AddsUp(work'[w].mine, Len(work'[w].batch))
           /\ UNCHANGED <<job, rows, added>>
  <2>1. ~overlapped => job'.inserted = added' /\ (Running(w)' => job' = work'[w].base)
    BY <1>3, <1>4, Alone
  <2>. QED  BY <1>1, <1>3, <1>4, <2>1, CountRun
<1>5. CASE /\ work'[w].batch = <<>> /\ work'[w].base = work'[w].mine
           /\ work'[w].mine.inserted
                = work[w].mine.inserted + Written(rows, Append(work[w].batch, e))
           /\ AddsUp(work[w].mine, Len(work[w].batch)) => AddsUp(work'[w].mine, 0)
           /\ added' = added + Written(rows, Append(work[w].batch, e))
           /\ job' = WriteOut(work[w], work'[w].mine)
  <2>1. work'[w] \in ExecType /\ work'[w].mine \in Jobs
    BY <1>3 DEF ExecType
  <2>2. ~overlapped => job' = work'[w].mine
    BY <1>1, <1>3, <1>5, <2>1, Alone, CommitIs
  <2>3. ~overlapped => job'.inserted = added' /\ (Running(w)' => job' = work'[w].base)
    BY <1>3, <1>5, <2>2, Alone
  <2>4. AddsUp(work[w].mine, Len(work[w].batch)) => AddsUp(work'[w].mine, Len(work'[w].batch))
    <3>1. Len(<<>>) = 0
      OBVIOUS
    <3>. QED  BY <1>5, <3>1
  <2>5. ~overlapped /\ AddsUp(work[w].mine, Len(work[w].batch)) => AddsUp(job', 0)
    BY <1>5, <2>2
  <2>. QED  BY <1>1, <1>3, <2>3, <2>4, <2>5, CountRun
<1>. QED  BY <1>2, <1>4, <1>5

LEMMA CountEndFile == ASSUME CountInv, NEW w \in Workers, EndFile(w) PROVE CountInv'
<1>1. RowInv' /\ TypeOK /\ RowInv
  BY RowEndFile DEF CountInv, RowInv
<1>2. /\ Running(w) /\ Running(w)' /\ work' \in [Workers -> ExecType]
      /\ \A v \in Workers \ {w} : work'[v] = work[v]
      /\ UNCHANGED <<added, deliveries, overlapped>>
      /\ work'[w].base = work'[w].mine
      /\ work'[w].mine.status = work[w].mine.status
      /\ work'[w].mine.inserted = work[w].mine.inserted
      /\ AddsUp(work[w].mine, Len(work[w].batch)) => AddsUp(work'[w].mine, Len(work'[w].batch))
      /\ job' = WriteOut(work[w], work'[w].mine)
  BY <1>1, EndFileEffect
<1>3. work'[w] \in ExecType /\ work'[w].mine \in Jobs
  BY <1>2 DEF ExecType
<1>4. ~overlapped => job' = work'[w].mine
  BY <1>1, <1>2, <1>3, Alone, CommitIs
<1>5. ~overlapped => job'.inserted = added' /\ (Running(w)' => job' = work'[w].base)
  BY <1>2, <1>4, Alone
<1>6. ~overlapped => job'.status # "succeeded"
  BY <1>2, <1>4 DEF CountInv, RowInv, CopyInv
<1>. QED  BY <1>1, <1>2, <1>5, <1>6, CountRun

LEMMA CountFinish == ASSUME CountInv, NEW w \in Workers, Finish(w) PROVE CountInv'
<1>1. RowInv' /\ TypeOK /\ RowInv
  BY RowFinish DEF CountInv, RowInv
<1>2. /\ Running(w) /\ work' = [work EXCEPT ![w] = Idle]
      /\ UNCHANGED <<deliveries, overlapped>>
      /\ added' = added + Written(rows, work[w].batch)
  BY <1>1, FinishEffect
<1>3. PICK mine \in Jobs :
        /\ mine.status = "succeeded" /\ job' = WriteOut(work[w], mine)
        /\ mine.inserted = work[w].mine.inserted + Written(rows, work[w].batch)
        /\ AddsUp(work[w].mine, Len(work[w].batch)) => AddsUp(mine, 0)
  BY <1>1, FinishEffect
<1>4. ~Running(w)' /\ \A v \in Workers \ {w} : work'[v] = work[v]
  BY <1>1, <1>2, Leaves
<1>5. ~overlapped => job' = mine
  BY <1>1, <1>2, <1>3, Alone, CommitIs
<1>6. ~overlapped => job'.inserted = added'
  BY <1>2, <1>3, <1>5, Alone
<1>. QED  BY <1>1, <1>2, <1>3, <1>4, <1>5, <1>6, CountRun

LEMMA CountRefuse == ASSUME CountInv, NEW w \in Workers, Refuse(w) PROVE CountInv'
<1>1. RowInv' /\ TypeOK /\ RowInv
  BY RowRefuse DEF CountInv, RowInv
<1>2. /\ Running(w) /\ work' = [work EXCEPT ![w] = Idle]
      /\ UNCHANGED <<added, deliveries, overlapped>>
  BY <1>1, RefuseEffect
<1>3. PICK mine \in Jobs :
        /\ mine.status = "failed" /\ job' = WriteOut(work[w], mine)
        /\ mine.inserted = work[w].mine.inserted
  BY <1>1, RefuseEffect
<1>4. ~Running(w)' /\ \A v \in Workers \ {w} : work'[v] = work[v]
  BY <1>1, <1>2, Leaves
<1>5. ~overlapped => job' = mine
  BY <1>1, <1>2, <1>3, Alone, CommitIs
<1>6. ~overlapped => job'.inserted = added' /\ job'.status # "succeeded"
  BY <1>2, <1>3, <1>5, Alone
<1>. QED  BY <1>1, <1>2, <1>4, <1>6, CountRun

\* An execution that dies leaves the row, whether its message comes back or not.
LEMMA CountDies ==
    ASSUME CountInv, RowInv', NEW w \in Workers, Running(w),
           work' \in {work, [work EXCEPT ![w] = Idle]},
           UNCHANGED <<job, added, deliveries, overlapped>>
    PROVE  CountInv'
<1>1. CASE work' = work
  BY <1>1 DEF CountInv, AloneInv, SumInv, Running
<1>2. CASE work' = [work EXCEPT ![w] = Idle]
  <2>1. ~Running(w)' /\ \A v \in Workers \ {w} : work'[v] = work[v]
    BY <1>2, Leaves DEF CountInv, RowInv
  <2>2. ~overlapped => job'.inserted = added'
    BY Alone
  <2>. QED  BY <2>1, <2>2, CountRun
<1>. QED  BY <1>1, <1>2

LEMMA CountStep == CountInv /\ [Next]_vars => CountInv'
<1>. SUFFICES ASSUME CountInv, [Next]_vars PROVE CountInv'
  OBVIOUS
<1>1. CASE UNCHANGED vars
  <2>1. RowInv'
    BY <1>1, RowStep DEF CountInv
  <2>. QED  BY <1>1, <2>1 DEF vars, CountInv, AloneInv, SumInv, Running
<1>2. CASE Upload
  BY <1>2, CountUpload
<1>3. ASSUME NEW w \in Workers, GiveUp(w) \/ Redeliver(w)
      PROVE  CountInv'
  <2>1. RowInv'
    BY <1>3, RowGiveUp, RowRedeliver DEF CountInv
  <2>2. /\ Running(w) /\ work' \in {work, [work EXCEPT ![w] = Idle]}
        /\ UNCHANGED <<job, added, deliveries, overlapped>>
    BY <1>3 DEF GiveUp, Redeliver, Running
  <2>. QED  BY <2>1, <2>2, CountDies
<1>4. ASSUME NEW w \in Workers, Start(w) \/ Run(w)
      PROVE  CountInv'
  BY <1>4, CountStart, CountRead, CountEndFile, CountFinish, CountRefuse DEF Run
<1>. QED  BY <1>1, <1>2, <1>3, <1>4 DEF Next, Done

LEMMA CountAlways == Spec => []CountInv
BY CountInit, CountStep, PTL DEF Spec

\* The row's count of inserted rows is the number of rows its executions have
\* committed, across crashes and redeliveries, until two of them overlap; and
\* what the first delivery counted adds up to what it read.
THEOREM CountersTheorem == Spec => []CountersTrue
<1>1. CountInv => CountersTrue
  BY DEF CountInv, AloneInv, SumInv, CountersTrue, AddsUp, RowInv, TypeOK, Jobs
<1>. QED  BY <1>1, CountAlways, PTL
-----------------------------------------------------------------------------
(* What has succeeded is complete *)

FullInv == RowInv /\ CompleteInv

LEMMA PlacesAre ==
    ASSUME TypeOK, NEW p \in Places(export)
    PROVE  /\ p[1] \in 1..Len(export) /\ p[2] \in 1..Len(export[p[1]])
           /\ p = <<p[1], p[2]>> /\ At(export, p) \in Entries
           /\ At(export, p).kind = "play" => Key(At(export, p)) \in Keys
<1>1. PICK f \in DOMAIN export : p \in {f} \X DOMAIN export[f]
  BY DEF Places
<1>2. p[1] = f /\ p[2] \in DOMAIN export[f] /\ p = <<p[1], p[2]>>
  BY <1>1
<1>3. p[1] \in 1..Len(export) /\ p[2] \in 1..Len(export[p[1]])
  BY <1>1, <1>2, ExportIs
<1>4. At(export, p) \in Entries
  BY <1>3, ExportIs DEF At
<1>. QED  BY <1>2, <1>3, <1>4, ImportAssumption

\* The places before the next one, before the next file, and before the end.
LEMMA BeforeNext ==
    ASSUME TypeOK, NEW f \in 1..Len(export), NEW a \in Nat, a + 1 \in 1..Len(export[f])
    PROVE  /\ <<f, a + 1>> \in Places(export) /\ <<f, a + 1>> \notin Before(export, f, a)
           /\ Before(export, f, a + 1) = Before(export, f, a) \cup {<<f, a + 1>>}
           /\ At(export, <<f, a + 1>>) = export[f][a + 1]
<1>1. <<f, a + 1>> \in Places(export)
  BY ExportIs DEF Places
<1>2. \A p \in Places(export) :
        p \in Before(export, f, a + 1) <=> p \in Before(export, f, a) \/ p = <<f, a + 1>>
  <2>. SUFFICES ASSUME NEW p \in Places(export)
                PROVE  p \in Before(export, f, a + 1)
                         <=> p \in Before(export, f, a) \/ p = <<f, a + 1>>
    OBVIOUS
  <2>1. PICK g \in 1..Len(export), c \in Nat : g = p[1] /\ c = p[2] /\ p = <<g, c>>
    BY PlacesAre, ExportIs
  <2>2. p = <<f, a + 1>> <=> g = f /\ c = a + 1
    BY <2>1
  <2>3. c <= a + 1 <=> c <= a \/ c = a + 1
    BY <2>1
  <2>. QED  BY <2>1, <2>2, <2>3, ExportIs DEF Before
<1>3. <<f, a + 1>> \notin Before(export, f, a)
  BY ExportIs DEF Before
<1>. QED  BY <1>1, <1>2, <1>3 DEF Before, At

LEMMA BeforeFile ==
    ASSUME TypeOK, NEW f \in 1..Len(export), NEW a \in Nat, a >= Len(export[f])
    PROVE  Before(export, f + 1, 0) = Before(export, f, a)
<1>1. ASSUME NEW p \in Places(export)
      PROVE  p[1] < f + 1 \/ (p[1] = f + 1 /\ p[2] <= 0) <=> p[1] < f \/ (p[1] = f /\ p[2] <= a)
  <2>1. PICK g \in Nat, c \in Nat :
          g = p[1] /\ c = p[2] /\ c >= 1 /\ (g = f => c <= Len(export[f]))
    BY PlacesAre, ExportIs
  <2>2. g = f => c <= a
    BY <2>1, ExportIs
  <2>. QED  BY <2>1, <2>2, ExportIs
<1>. QED  BY <1>1 DEF Before

LEMMA BeforeEnd ==
    ASSUME TypeOK, NEW f \in Nat, f > Len(export), NEW a
    PROVE  Before(export, f, a) = Places(export)
<1>1. \A p \in Places(export) : p[1] < f
  BY PlacesAre, ExportIs
<1>. QED  BY <1>1 DEF Before

LEMMA BeforeStart == ASSUME TypeOK PROVE Before(export, 1, 0) = {}
<1>1. \A p \in Places(export) : ~(p[1] < 1 \/ (p[1] = 1 /\ p[2] <= 0))
  BY PlacesAre, ExportIs
<1>. QED  BY <1>1 DEF Before

LEMMA HeldAppend ==
    ASSUME NEW batch \in Seq(Plays), NEW e \in Plays, NEW k
    PROVE  Held(Append(batch, e), k) <=> Held(batch, k) \/ Key(e) = k
<1>1. PICK n \in Nat : n = Len(batch) /\ DOMAIN batch = 1..n
  OBVIOUS
<1>2. DOMAIN Append(batch, e) = 1..n + 1
  BY <1>1
<1>3. \A i \in 1..n : Append(batch, e)[i] = batch[i]
  BY <1>1
<1>4. Append(batch, e)[n + 1] = e
  BY <1>1
<1>5. n + 1 \in 1..n + 1 /\ \A i \in 1..n + 1 : i \in 1..n \/ i = n + 1
  BY <1>1
<1>6. 1..n \subseteq 1..n + 1
  BY <1>1
<1>. QED  BY <1>1, <1>2, <1>3, <1>4, <1>5, <1>6 DEF Held

\* A row of the ledger stays, and a batch that is flushed is in it.
LEMMA FlushIs ==
    ASSUME TypeOK, NEW batch \in Seq(Plays), rows' = Stored(rows, batch)
    PROVE  \A k \in Keys : /\ rows[k] > 0 => rows'[k] > 0
                           /\ Held(batch, k) => rows'[k] > 0
<1>1. rows \in [Keys -> Nat]
  BY DEF TypeOK
<1>2. PICK r : r = Stored(rows, batch)
  OBVIOUS
<1>3. r \in [Keys -> Nat] /\ \A k \in Keys : r[k] >= rows[k] /\ (Held(batch, k) => r[k] > 0)
  BY <1>1, <1>2, StoredIs
<1>. QED  BY <1>1, <1>2, <1>3

\* Rows that stay keep every execution's plays and the finished job's.
LEMMA FullKept ==
    ASSUME FullInv, RowInv', NEW w \in Workers, \A v \in Workers \ {w} : work'[v] = work[v],
           export' = export, \A k \in Keys : rows[k] > 0 => rows'[k] > 0,
           Running(w)' =>
             \A p \in Before(export, work'[w].file, work'[w].at) : At(export, p).kind = "play" =>
               rows'[Key(At(export, p))] > 0 \/ Held(work'[w].batch, Key(At(export, p))),
           job'.status = "succeeded" =>
             \/ job.status = "succeeded"
             \/ \A p \in Places(export) : At(export, p).kind = "play" =>
                  rows'[Key(At(export, p))] > 0
    PROVE  FullInv'
<1>1. \A p \in Places(export) : At(export, p).kind = "play" => Key(At(export, p)) \in Keys
  BY PlacesAre DEF FullInv, RowInv
<1>2. \A f, a : Before(export, f, a) \subseteq Places(export)
  BY DEF Before
<1>3. ASSUME NEW v \in Workers, Running(v)'
      PROVE  \A p \in Before(export, work'[v].file, work'[v].at) : At(export, p).kind = "play" =>
               rows'[Key(At(export, p))] > 0 \/ Held(work'[v].batch, Key(At(export, p)))
  <2>1. CASE v = w
    BY <1>3, <2>1
  <2>2. CASE v # w
    <3>1. work'[v] = work[v] /\ Running(v)
      BY <1>3, <2>2 DEF Running
    <3>2. \A p \in Before(export, work[v].file, work[v].at) : At(export, p).kind = "play" =>
            rows[Key(At(export, p))] > 0 \/ Held(work[v].batch, Key(At(export, p)))
      BY <3>1 DEF FullInv, CompleteInv, PassedInv
    <3>. QED  BY <1>1, <1>2, <3>1, <3>2
  <2>. QED  BY <2>1, <2>2
<1>4. PassedInv'
  <2>1. \A f, a : Before(export', f, a) = Before(export, f, a)
    OBVIOUS
  <2>. QED  BY <1>3, <2>1 DEF PassedInv, Running, At, Held
<1>5. SucceededIsComplete'
  BY <1>1 DEF FullInv, CompleteInv, SucceededIsComplete, Places, At
<1>. QED  BY <1>4, <1>5 DEF FullInv, CompleteInv

LEMMA FullRead == ASSUME FullInv, NEW w \in Workers, Read(w) PROVE FullInv'
<1>1. TypeOK /\ RowInv /\ RowInv'
  BY RowRead DEF FullInv, RowInv
<1>2. PICK e \in Entries :
        /\ e = export[work[w].file][work[w].at + 1]
        /\ \/ /\ e.kind # "play" /\ work'[w].batch = work[w].batch
              /\ UNCHANGED <<job, rows, added>>
           \/ /\ e \in Plays /\ work'[w].batch = Append(work[w].batch, e)
              /\ UNCHANGED <<job, rows, added>>
           \/ /\ e \in Plays /\ rows' = Stored(rows, Append(work[w].batch, e))
              /\ job' = WriteOut(work[w], work'[w].mine)
  BY <1>1, ReadEffect
<1>3. /\ Running(w) /\ work' \in [Workers -> ExecType]
      /\ \A v \in Workers \ {w} : work'[v] = work[v]
      /\ export' = export
      /\ work'[w].file = work[w].file /\ work'[w].at = work[w].at + 1
      /\ work[w].file \in 1..Len(export)
      /\ work'[w].at \in 1..Len(export[work[w].file])
      /\ work'[w].mine.status = work[w].mine.status
  BY <1>1, ReadEffect
<1>4. PICK f \in 1..Len(export), a \in Nat :
        f = work[w].file /\ a = work[w].at /\ a + 1 \in 1..Len(export[f])
  BY <1>1, <1>3, Fields
<1>5. /\ Before(export, f, a + 1) = Before(export, f, a) \cup {<<f, a + 1>>}
      /\ At(export, <<f, a + 1>>) = e
  <2>1. f \in 1..Len(export) /\ a \in Nat /\ a + 1 \in 1..Len(export[f])
    BY <1>4
  <2>2. /\ Before(export, f, a + 1) = Before(export, f, a) \cup {<<f, a + 1>>}
        /\ At(export, <<f, a + 1>>) = export[f][a + 1]
    BY <1>1, <2>1, BeforeNext
  <2>. QED  BY <1>2, <1>4, <2>2
<1>6. \A p \in Before(export, f, a) : At(export, p).kind = "play" =>
        rows[Key(At(export, p))] > 0 \/ Held(work[w].batch, Key(At(export, p)))
  BY <1>3, <1>4 DEF FullInv, CompleteInv, PassedInv
<1>7. \A p \in Before(export, f, a + 1) :
        At(export, p).kind = "play" => Key(At(export, p)) \in Keys
  BY <1>1, PlacesAre DEF Before
<1>8. work[w].batch \in Seq(Plays)
  BY <1>1, Fields
<1>9. CASE e.kind # "play" /\ work'[w].batch = work[w].batch /\ UNCHANGED <<job, rows, added>>
  <2>1. \A p \in Before(export, work'[w].file, work'[w].at) : At(export, p).kind = "play" =>
          rows'[Key(At(export, p))] > 0 \/ Held(work'[w].batch, Key(At(export, p)))
    BY <1>3, <1>4, <1>5, <1>6, <1>9
  <2>. QED  BY <1>1, <1>3, <1>9, <2>1, FullKept
<1>10. CASE /\ e \in Plays /\ work'[w].batch = Append(work[w].batch, e)
            /\ UNCHANGED <<job, rows, added>>
  <2>1. \A k : Held(work'[w].batch, k) <=> Held(work[w].batch, k) \/ Key(e) = k
    BY <1>8, <1>10, HeldAppend
  <2>2. \A p \in Before(export, work'[w].file, work'[w].at) : At(export, p).kind = "play" =>
          rows'[Key(At(export, p))] > 0 \/ Held(work'[w].batch, Key(At(export, p)))
    BY <1>3, <1>4, <1>5, <1>6, <1>10, <2>1
  <2>. QED  BY <1>1, <1>3, <1>10, <2>2, FullKept
<1>11. CASE /\ e \in Plays /\ rows' = Stored(rows, Append(work[w].batch, e))
            /\ job' = WriteOut(work[w], work'[w].mine)
  <2>1. PICK b : b = Append(work[w].batch, e)
    OBVIOUS
  <2>2. b \in Seq(Plays) /\ \A k : Held(b, k) <=> Held(work[w].batch, k) \/ Key(e) = k
    BY <1>8, <1>11, <2>1, HeldAppend
  <2>3. rows' = Stored(rows, b)
    BY <1>11, <2>1
  <2>4. \A k \in Keys : /\ rows[k] > 0 => rows'[k] > 0
                        /\ Held(b, k) => rows'[k] > 0
    BY <1>1, <2>2, <2>3, FlushIs
  <2>5. \A p \in Before(export, work'[w].file, work'[w].at) : At(export, p).kind = "play" =>
          rows'[Key(At(export, p))] > 0 \/ Held(work'[w].batch, Key(At(export, p)))
    BY <1>3, <1>4, <1>5, <1>6, <1>7, <2>2, <2>4
  <2>6. job'.status = job.status
    <3>1. work'[w].mine \in Jobs
      BY <1>3 DEF ExecType
    <3>2. work'[w].mine.status = work[w].base.status
      BY <1>1, <1>3 DEF RowInv, CopyInv
    <3>. QED  BY <1>1, <1>3, <1>11, <3>1, <3>2, CommitIs
  <2>. QED  BY <1>1, <1>3, <2>4, <2>5, <2>6, FullKept
<1>. QED  BY <1>2, <1>9, <1>10, <1>11

LEMMA FullEndFile == ASSUME FullInv, NEW w \in Workers, EndFile(w) PROVE FullInv'
<1>1. TypeOK /\ RowInv /\ RowInv'
  BY RowEndFile DEF FullInv, RowInv
<1>2. /\ Running(w) /\ work' \in [Workers -> ExecType]
      /\ \A v \in Workers \ {w} : work'[v] = work[v]
      /\ UNCHANGED <<export, rows>>
      /\ work[w].file \in 1..Len(export) /\ work[w].at >= Len(export[work[w].file])
      /\ work'[w].file = work[w].file + 1 /\ work'[w].at = 0
      /\ work'[w].batch = work[w].batch
      /\ work'[w].mine.status = work[w].mine.status
      /\ job' = WriteOut(work[w], work'[w].mine)
  BY <1>1, EndFileEffect
<1>3. Before(export, work'[w].file, work'[w].at) = Before(export, work[w].file, work[w].at)
  <2>1. work[w].at \in Nat
    BY <1>1, Fields
  <2>. QED  BY <1>1, <1>2, <2>1, BeforeFile
<1>4. job'.status = job.status
  <2>1. work'[w].mine \in Jobs
    BY <1>2 DEF ExecType
  <2>2. work'[w].mine.status = work[w].base.status
    BY <1>1, <1>2 DEF RowInv, CopyInv
  <2>. QED  BY <1>1, <1>2, <2>1, <2>2, CommitIs
<1>5. \A p \in Before(export, work'[w].file, work'[w].at) : At(export, p).kind = "play" =>
        rows'[Key(At(export, p))] > 0 \/ Held(work'[w].batch, Key(At(export, p)))
  BY <1>2, <1>3 DEF FullInv, CompleteInv, PassedInv
<1>. QED  BY <1>1, <1>2, <1>4, <1>5, FullKept

LEMMA FullFinish == ASSUME FullInv, NEW w \in Workers, Finish(w) PROVE FullInv'
<1>1. TypeOK /\ RowInv /\ RowInv'
  BY RowFinish DEF FullInv, RowInv
<1>2. /\ Running(w) /\ work[w].file > Len(export) /\ work' = [work EXCEPT ![w] = Idle]
      /\ export' = export /\ rows' = Stored(rows, work[w].batch)
  BY <1>1, FinishEffect
<1>3. ~Running(w)' /\ \A v \in Workers \ {w} : work'[v] = work[v]
  BY <1>1, <1>2, Leaves
<1>4. work[w].batch \in Seq(Plays) /\ work[w].file \in Nat
  BY <1>1, Fields
<1>5. \A k \in Keys : /\ rows[k] > 0 => rows'[k] > 0
                      /\ Held(work[w].batch, k) => rows'[k] > 0
  BY <1>1, <1>2, <1>4, FlushIs
<1>6. Before(export, work[w].file, work[w].at) = Places(export)
  BY <1>1, <1>2, <1>4, BeforeEnd
<1>7. \A p \in Places(export) : At(export, p).kind = "play" => rows'[Key(At(export, p))] > 0
  <2>1. \A p \in Places(export) : At(export, p).kind = "play" => Key(At(export, p)) \in Keys
    BY <1>1, PlacesAre
  <2>. QED  BY <1>2, <1>5, <1>6, <2>1 DEF FullInv, CompleteInv, PassedInv
<1>. QED  BY <1>1, <1>2, <1>3, <1>5, <1>7, FullKept

LEMMA FullRefuse == ASSUME FullInv, NEW w \in Workers, Refuse(w) PROVE FullInv'
<1>1. TypeOK /\ RowInv /\ RowInv'
  BY RowRefuse DEF FullInv, RowInv
<1>2. /\ Running(w) /\ work' = [work EXCEPT ![w] = Idle] /\ UNCHANGED <<export, rows>>
  BY <1>1, RefuseEffect
<1>3. PICK mine \in Jobs : mine.status = "failed" /\ job' = WriteOut(work[w], mine)
  BY <1>1, RefuseEffect
<1>4. ~Running(w)' /\ \A v \in Workers \ {w} : work'[v] = work[v]
  BY <1>1, <1>2, Leaves
<1>5. job'.status # "succeeded"
  <2>1. work[w].base.status = "running"
    BY <1>1, <1>2 DEF RowInv, CopyInv
  <2>. QED  BY <1>1, <1>2, <1>3, <2>1, CommitIs
<1>. QED  BY <1>1, <1>2, <1>4, <1>5, FullKept

LEMMA FullStart == ASSUME FullInv, NEW w \in Workers, Start(w) PROVE FullInv'
<1>1. TypeOK /\ RowInv /\ RowInv'
  BY RowStart DEF FullInv, RowInv
<1>2. /\ \A v \in Workers \ {w} : work'[v] = work[v]
      /\ UNCHANGED <<export, rows>>
      /\ work'[w].file = 1 /\ work'[w].at = 0 /\ job'.status = "running"
  BY <1>1, StartEffect
<1>3. Before(export, work'[w].file, work'[w].at) = {}
  BY <1>1, <1>2, BeforeStart
<1>. QED  BY <1>1, <1>2, <1>3, FullKept

LEMMA FullDies ==
    ASSUME FullInv, NEW w \in Workers, GiveUp(w) \/ Redeliver(w)
    PROVE  FullInv'
<1>1. TypeOK /\ RowInv /\ RowInv'
  BY RowGiveUp, RowRedeliver DEF FullInv, RowInv
<1>2. /\ work' \in {work, [work EXCEPT ![w] = Idle]} /\ UNCHANGED <<export, rows, job>>
  BY DEF GiveUp, Redeliver
<1>3. CASE work' = work
  BY <1>1, <1>2, <1>3
     DEF FullInv, CompleteInv, PassedInv, SucceededIsComplete, Running, Before, Places, At, Held
<1>4. CASE work' = [work EXCEPT ![w] = Idle]
  <2>1. ~Running(w)' /\ \A v \in Workers \ {w} : work'[v] = work[v]
    BY <1>1, <1>4, Leaves
  <2>. QED  BY <1>1, <1>2, <2>1, FullKept
<1>. QED  BY <1>2, <1>3, <1>4

LEMMA FullStep == FullInv /\ [Next]_vars => FullInv'
<1>. SUFFICES ASSUME FullInv, [Next]_vars PROVE FullInv'
  OBVIOUS
<1>1. RowInv'
  BY RowStep DEF FullInv
<1>2. CASE UNCHANGED vars
  BY <1>1, <1>2
     DEF vars, FullInv, CompleteInv, PassedInv, SucceededIsComplete, Running, Before, Places, At,
         Held
<1>3. CASE Upload
  <2>1. UNCHANGED <<export, rows, work>> /\ job'.status = "queued"
    BY <1>3, UploadEffect
  <2>. QED  BY <1>1, <2>1
     DEF FullInv, CompleteInv, PassedInv, SucceededIsComplete, Running, Before, Places, At, Held
<1>4. ASSUME NEW w \in Workers, Start(w) \/ Run(w) \/ GiveUp(w) \/ Redeliver(w)
      PROVE  FullInv'
  BY <1>4, FullStart, FullRead, FullEndFile, FullFinish, FullRefuse, FullDies DEF Run
<1>. QED  BY <1>2, <1>3, <1>4 DEF Next, Done

LEMMA FullInit == Init => FullInv
<1>. SUFFICES ASSUME Init PROVE FullInv
  OBVIOUS
<1>1. RowInv /\ job.status = "none" /\ \A w \in Workers : ~Running(w)
  BY RowInit, IdleIs DEF Init, NewJob, Running
<1>. QED  BY <1>1 DEF FullInv, CompleteInv, PassedInv, SucceededIsComplete

\* A job that says it succeeded has every play of its export in the ledger,
\* whatever crashed, was delivered twice or ran next to it.
THEOREM CompleteTheorem == Spec => []SucceededIsComplete
<1>1. Spec => []FullInv
  BY FullInit, FullStep, PTL DEF Spec
<1>2. FullInv => SucceededIsComplete
  BY DEF FullInv, CompleteInv
<1>. QED  BY <1>1, <1>2, PTL
-----------------------------------------------------------------------------
(* Account-data plays, which no unique key protects *)

AllInv == CountInv /\ OnceInv

LEMMA PlacesFinite == ASSUME TypeOK PROVE IsFiniteSet(Places(export))
<1>1. PICK n \in Nat : n = Len(export) /\ DOMAIN export = 1..n
  BY ExportIs
<1>2. PICK S : S = {{f} \X DOMAIN export[f] : f \in DOMAIN export}
  OBVIOUS
<1>3. PICK g : g = [f \in 1..n |-> {f} \X DOMAIN export[f]]
  OBVIOUS
<1>4. g \in Surjection(1..n, S)
  BY <1>1, <1>2, <1>3 DEF Surjection
<1>5. IsFiniteSet(S)
  <2>1. IsFiniteSet(1..n)
    BY <1>1, FS_Interval
  <2>. QED  BY <1>4, <2>1, FS_Surjection
<1>6. \A T \in S : IsFiniteSet(T)
  <2>1. ASSUME NEW f \in DOMAIN export
        PROVE  IsFiniteSet({f} \X DOMAIN export[f])
    <3>1. PICK m \in Nat : DOMAIN export[f] = 1..m
      BY <2>1, ExportIs
    <3>2. IsFiniteSet(DOMAIN export[f])
      BY <3>1, FS_Interval
    <3>3. IsFiniteSet({f})
      BY FS_Singleton
    <3>. QED  BY <3>2, <3>3, FS_Product
  <2>. QED  BY <1>2, <2>1
<1>. QED  BY <1>2, <1>5, <1>6, FS_UNION DEF Places

LEMMA ListedIs ==
    ASSUME TypeOK, NEW k, NEW P \in SUBSET Places(export)
    PROVE  /\ Listed(P, k) \in Nat
           /\ Listed(P, k) <= Listed(Places(export), k)
           /\ Listed(Places(export), k) \in Nat
<1>1. PICK L \in SUBSET Places(export) : L = {p \in Places(export) : Key(At(export, p)) = k}
  OBVIOUS
<1>2. PICK T \in SUBSET L : T = {p \in P : Key(At(export, p)) = k}
  BY <1>1
<1>3. IsFiniteSet(L)
  BY <1>1, PlacesFinite, FS_Subset
<1>4. IsFiniteSet(T) /\ Cardinality(T) <= Cardinality(L)
  BY <1>2, <1>3, FS_Subset
<1>5. Cardinality(T) \in Nat /\ Cardinality(L) \in Nat
  BY <1>3, <1>4, FS_CardinalityType
<1>. QED  BY <1>1, <1>2, <1>4, <1>5 DEF Listed

LEMMA ListedMore ==
    ASSUME TypeOK, NEW k, NEW P \in SUBSET Places(export), NEW p, p \notin P
    PROVE  Listed(P \cup {p}, k) = Listed(P, k) + (IF Key(At(export, p)) = k THEN 1 ELSE 0)
<1>1. PICK T : T = {q \in P : Key(At(export, q)) = k}
  OBVIOUS
<1>2. IsFiniteSet(T) /\ p \notin T
  BY <1>1, PlacesFinite, FS_Subset
<1>3. Cardinality(T) \in Nat /\ Cardinality(T \cup {p}) = Cardinality(T) + 1
  BY <1>2, FS_CardinalityType, FS_AddElement
<1>4. {q \in P \cup {p} : Key(At(export, q)) = k}
        = IF Key(At(export, p)) = k THEN T \cup {p} ELSE T
  BY <1>1
<1>5. Listed(P, k) = Cardinality(T)
  BY <1>1 DEF Listed
<1>6. Listed(P \cup {p}, k) = Cardinality(IF Key(At(export, p)) = k THEN T \cup {p} ELSE T)
  BY <1>4 DEF Listed
<1>. QED  BY <1>3, <1>5, <1>6

\* How much an execution may have stored under a key that has no uri.
Allowed(f, a, k) == Prior[k] + Listed(Before(export, f, a), k)

LEMMA AllowedIs ==
    ASSUME TypeOK, NEW k \in Keys, NEW f, NEW a
    PROVE  /\ Allowed(f, a, k) \in Nat /\ Allowed(f, a, k) >= Prior[k]
           /\ Allowed(f, a, k) <= Prior[k] + Listed(Places(export), k)
<1>1. PICK P \in SUBSET Places(export) : P = Before(export, f, a)
  BY DEF Before
<1>2. /\ Listed(P, k) \in Nat /\ Listed(Places(export), k) \in Nat
      /\ Listed(P, k) <= Listed(Places(export), k)
  BY <1>1, ListedIs
<1>3. Prior[k] \in Nat
  BY ImportAssumption
<1>. QED  BY <1>1, <1>2, <1>3 DEF Allowed

LEMMA AllowedNext ==
    ASSUME TypeOK, NEW k \in Keys, NEW f \in 1..Len(export), NEW a \in Nat,
           a + 1 \in 1..Len(export[f])
    PROVE  Allowed(f, a + 1, k)
             = Allowed(f, a, k) + (IF Key(export[f][a + 1]) = k THEN 1 ELSE 0)
<1>1. PICK P \in SUBSET Places(export), p \in {<<f, a + 1>>} :
        P = Before(export, f, a) /\ p = <<f, a + 1>>
  BY DEF Before
<1>2. /\ p \notin P /\ Before(export, f, a + 1) = P \cup {p}
      /\ At(export, p) = export[f][a + 1]
  BY <1>1, BeforeNext
<1>3. Listed(P \cup {p}, k) = Listed(P, k) + (IF Key(At(export, p)) = k THEN 1 ELSE 0)
  BY <1>1, <1>2, ListedMore
<1>4. Listed(P, k) \in Nat /\ Prior[k] \in Nat
  BY <1>1, ListedIs, ImportAssumption
<1>5. PICK x \in Nat, y \in Nat, i \in Nat :
        /\ x = Prior[k] /\ y = Listed(P, k)
        /\ i = IF Key(export[f][a + 1]) = k THEN 1 ELSE 0
  BY <1>4
<1>6. Allowed(f, a, k) = x + y
  BY <1>1, <1>5 DEF Allowed
<1>7. Allowed(f, a + 1, k) = x + (y + i)
  BY <1>2, <1>3, <1>5 DEF Allowed
<1>8. Allowed(f, a + 1, k) = Allowed(f, a, k) + i
  BY <1>6, <1>7
<1>9. i = IF Key(export[f][a + 1]) = k THEN 1 ELSE 0
  BY <1>5
<1>. QED  BY <1>8, <1>9, Zenon

\* The invariant over Allowed.
LEMMA OnceIs ==
    CopiesInv <=>
         (deliveries <= 1 => \A w \in Workers, k \in Keys : Running(w) /\ k[2] = NoUri =>
            rows[k] + Copies(work[w].batch, k) <= Allowed(work[w].file, work[w].at, k))
BY DEF CopiesInv, Allowed
LEMMA OnceKept ==
    ASSUME AllInv, CountInv', NEW w \in Workers, Running(w), export' = export,
           deliveries' = deliveries, \A v \in Workers \ {w} : work'[v] = work[v],
           \A k \in Keys : deliveries <= 1 /\ k[2] = NoUri =>
             /\ rows'[k] <= Prior[k] + Listed(Places(export), k)
             /\ Running(w)' => rows'[k] + Copies(work'[w].batch, k)
                                 <= Allowed(work'[w].file, work'[w].at, k)
    PROVE  AllInv'
<1>1. \A P, k : Listed(P, k)' = Listed(P, k)
  BY DEF Listed, At
<1>2. \A f, a : Before(export', f, a) = Before(export, f, a)
  OBVIOUS
<1>3. AccountDataOnce'
  BY DEF AccountDataOnce, Listed, At, Places
<1>4. CopiesInv'
  <2>. SUFFICES ASSUME deliveries <= 1, NEW v \in Workers, Running(v)', NEW k \in Keys, k[2] = NoUri
                PROVE  rows'[k] + Copies(work'[v].batch, k)
                         <= Prior[k] + Listed(Before(export, work'[v].file, work'[v].at), k)
    BY <1>1, <1>2 DEF CopiesInv, Running, Copies, Key
  <2>1. CASE v = w
    BY <2>1 DEF Allowed
  <2>2. CASE v # w
    <3>1. Running(v)
      BY <2>2 DEF Running
    <3>. QED  BY <2>2, <3>1, FirstAlone, Alone DEF AllInv
  <2>. QED  BY <2>1, <2>2
<1>. QED  BY <1>3, <1>4 DEF AllInv, OnceInv

\* What an execution of the first delivery has stored and holds.
LEMMA OnceHas ==
    ASSUME AllInv, NEW w \in Workers, Running(w), NEW k \in Keys, k[2] = NoUri, deliveries <= 1
    PROVE  rows[k] + Copies(work[w].batch, k) <= Allowed(work[w].file, work[w].at, k)
BY DEF AllInv, OnceInv, CopiesInv, Allowed

\* What a flush makes of a key.
LEMMA OnceFlush ==
    ASSUME TypeOK, NEW batch \in Seq(Plays), rows' = Stored(rows, batch)
    PROVE  \A k \in Keys : k[2] = NoUri => rows'[k] = rows[k] + Copies(batch, k)
<1>1. rows \in [Keys -> Nat]
  BY DEF TypeOK
<1>2. PICK r : r = Stored(rows, batch)
  OBVIOUS
<1>3. \A k \in Keys : k[2] = NoUri => r[k] = rows[k] + Copies(batch, k)
  BY <1>1, <1>2, StoredIs
<1>. QED  BY <1>2, <1>3

\* A play that is read is one more copy, and one more that may be.
LEMMA OnceNext ==
    ASSUME AllInv, NEW w \in Workers, Running(w), NEW k \in Keys, k[2] = NoUri, deliveries <= 1,
           work[w].file \in 1..Len(export), work[w].at + 1 \in 1..Len(export[work[w].file]),
           NEW e, e = export[work[w].file][work[w].at + 1]
    PROVE  /\ rows[k] + Copies(work[w].batch, k) <= Allowed(work[w].file, work[w].at + 1, k)
           /\ e \in Plays => rows[k] + Copies(Append(work[w].batch, e), k)
                               <= Allowed(work[w].file, work[w].at + 1, k)
<1>1. TypeOK
  BY DEF AllInv, CountInv, RowInv
<1>2. PICK f \in 1..Len(export), a \in Nat, batch \in Seq(Plays) :
        f = work[w].file /\ a = work[w].at /\ batch = work[w].batch
  BY <1>1, Fields
<1>3. f \in 1..Len(export) /\ a \in Nat /\ a + 1 \in 1..Len(export[f]) /\ batch \in Seq(Plays)
  BY <1>2
<1>4. PICK i \in {0, 1} : i = IF Key(export[f][a + 1]) = k THEN 1 ELSE 0
  OBVIOUS
<1>5. PICK c \in Nat, r \in Nat : c = Copies(batch, k) /\ r = rows[k]
  BY <1>1, <1>3, CopiesType DEF TypeOK
<1>6. Allowed(f, a + 1, k) = Allowed(f, a, k) + (IF Key(export[f][a + 1]) = k THEN 1 ELSE 0)
  BY <1>1, <1>3, AllowedNext
<1>7. PICK p \in Nat : p = Allowed(f, a, k)
  BY <1>1, AllowedIs
<1>8. r + c <= p /\ Allowed(f, a + 1, k) = p + i
  BY <1>2, <1>4, <1>5, <1>6, <1>7, OnceHas
<1>9. e \in Plays => Copies(Append(batch, e), k) = c + i
  <2>1. e \in Plays =>
          Copies(Append(batch, e), k) = Copies(batch, k) + (IF Key(e) = k THEN 1 ELSE 0)
    BY <1>3, CopiesAppend
  <2>. QED  BY <1>2, <1>4, <1>5, <2>1
<1>10. /\ r + c <= p + i
       /\ r + (c + i) <= p + i
  BY <1>4, <1>5, <1>7, <1>8
<1>. QED  BY <1>2, <1>5, <1>8, <1>9, <1>10

LEMMA OnceRead == ASSUME AllInv, NEW w \in Workers, Read(w) PROVE AllInv'
<1>1. CountInv /\ TypeOK
  BY DEF AllInv, CountInv, RowInv
<1>2. CountInv'
  BY <1>1, CountRead
<1>3. PICK e \in Entries :
        /\ e = export[work[w].file][work[w].at + 1]
        /\ \/ /\ e.kind # "play" /\ work'[w].batch = work[w].batch
              /\ UNCHANGED <<job, rows, added>>
           \/ /\ e \in Plays /\ work'[w].batch = Append(work[w].batch, e)
              /\ UNCHANGED <<job, rows, added>>
           \/ /\ e \in Plays /\ work'[w].batch = <<>>
              /\ rows' = Stored(rows, Append(work[w].batch, e))
  BY <1>1, ReadEffect
<1>4. /\ Running(w) /\ \A v \in Workers \ {w} : work'[v] = work[v]
      /\ UNCHANGED <<export, deliveries>>
      /\ work'[w].file = work[w].file /\ work'[w].at = work[w].at + 1
      /\ work[w].file \in 1..Len(export)
      /\ work'[w].at \in 1..Len(export[work[w].file])
  BY <1>1, ReadEffect
<1>5. work[w].batch \in Seq(Plays) /\ rows \in [Keys -> Nat]
  BY <1>1, Fields DEF TypeOK
<1>6. ASSUME NEW k \in Keys, deliveries <= 1, k[2] = NoUri
      PROVE  /\ rows[k] + Copies(work[w].batch, k) <= Allowed(work'[w].file, work'[w].at, k)
             /\ e \in Plays => rows[k] + Copies(Append(work[w].batch, e), k)
                                 <= Allowed(work'[w].file, work'[w].at, k)
  BY <1>3, <1>4, <1>6, OnceNext
<1>7. \A k \in Keys : deliveries <= 1 /\ k[2] = NoUri =>
        rows[k] <= Prior[k] + Listed(Places(export), k)
  BY DEF AllInv, OnceInv, AccountDataOnce, Listed
<1>8. CASE /\ e.kind # "play" /\ work'[w].batch = work[w].batch
           /\ UNCHANGED <<job, rows, added>>
  BY <1>2, <1>4, <1>6, <1>7, <1>8, OnceKept
<1>9. CASE /\ e \in Plays /\ work'[w].batch = Append(work[w].batch, e)
           /\ UNCHANGED <<job, rows, added>>
  BY <1>2, <1>4, <1>6, <1>7, <1>9, OnceKept
<1>10. CASE /\ e \in Plays /\ work'[w].batch = <<>>
            /\ rows' = Stored(rows, Append(work[w].batch, e))
  <2>1. PICK b : b = Append(work[w].batch, e)
    OBVIOUS
  <2>2. b \in Seq(Plays)
    BY <1>5, <1>10, <2>1
  <2>3. rows' = Stored(rows, b)
    BY <1>10, <2>1
  <2>4. \A k \in Keys : k[2] = NoUri => rows'[k] = rows[k] + Copies(b, k)
    BY <1>1, <2>2, <2>3, OnceFlush
  <2>5. ASSUME NEW k \in Keys, deliveries <= 1, k[2] = NoUri
        PROVE  /\ rows'[k] <= Prior[k] + Listed(Places(export), k)
               /\ rows'[k] + Copies(work'[w].batch, k) <= Allowed(work'[w].file, work'[w].at, k)
    <3>1. PICK r \in Nat, c \in Nat, p \in Nat, q \in Nat, l \in Nat :
            /\ r = rows[k] /\ c = Copies(b, k) /\ p = Allowed(work'[w].file, work'[w].at, k)
            /\ q = Prior[k] /\ l = Listed(Places(export), k)
      <4>1. rows[k] \in Nat /\ Prior[k] \in Nat
        BY <1>5, ImportAssumption
      <4>2. Copies(b, k) \in Nat
        BY <2>2, CopiesType
      <4>3. Allowed(work'[w].file, work'[w].at, k) \in Nat
        BY <1>1, AllowedIs
      <4>4. Listed(Places(export), k) \in Nat
        BY <1>1, ListedIs
      <4>. QED  BY <4>1, <4>2, <4>3, <4>4
    <3>2. r + c <= p
      BY <1>6, <1>10, <2>1, <2>5, <3>1
    <3>3. p <= q + l
      BY <1>1, <3>1, AllowedIs
    <3>4. rows'[k] = r + c
      BY <2>4, <2>5, <3>1
    <3>5. Copies(work'[w].batch, k) = 0
      BY <1>10, NoCopies
    <3>6. r + c <= q + l /\ (r + c) + 0 <= p
      BY <3>1, <3>2, <3>3
    <3>. QED  BY <3>1, <3>4, <3>5, <3>6
  <2>. QED  BY <1>2, <1>4, <2>5, OnceKept
<1>. QED  BY <1>3, <1>8, <1>9, <1>10

LEMMA OnceEndFile == ASSUME AllInv, NEW w \in Workers, EndFile(w) PROVE AllInv'
<1>1. CountInv /\ TypeOK
  BY DEF AllInv, CountInv, RowInv
<1>2. CountInv'
  BY <1>1, CountEndFile
<1>3. /\ Running(w) /\ \A v \in Workers \ {w} : work'[v] = work[v]
      /\ UNCHANGED <<export, rows, deliveries>>
      /\ work[w].file \in 1..Len(export) /\ work[w].at >= Len(export[work[w].file])
      /\ work'[w].file = work[w].file + 1 /\ work'[w].at = 0
      /\ work'[w].batch = work[w].batch
  BY <1>1, EndFileEffect
<1>4. work[w].at \in Nat
  BY <1>1, Fields
<1>5. \A k : Allowed(work'[w].file, work'[w].at, k) = Allowed(work[w].file, work[w].at, k)
  BY <1>1, <1>3, <1>4, BeforeFile DEF Allowed
<1>6. \A k \in Keys : deliveries <= 1 /\ k[2] = NoUri =>
        rows[k] + Copies(work[w].batch, k) <= Allowed(work[w].file, work[w].at, k)
  BY <1>3, OnceHas
<1>7. \A k \in Keys : deliveries <= 1 /\ k[2] = NoUri =>
        rows[k] <= Prior[k] + Listed(Places(export), k)
  BY DEF AllInv, OnceInv, AccountDataOnce, Listed
<1>. QED  BY <1>2, <1>3, <1>5, <1>6, <1>7, OnceKept

LEMMA OnceFinish == ASSUME AllInv, NEW w \in Workers, Finish(w) PROVE AllInv'
<1>1. CountInv /\ TypeOK
  BY DEF AllInv, CountInv, RowInv
<1>2. CountInv'
  BY <1>1, CountFinish
<1>3. /\ Running(w) /\ work' = [work EXCEPT ![w] = Idle]
      /\ UNCHANGED <<export, deliveries>> /\ rows' = Stored(rows, work[w].batch)
  BY <1>1, FinishEffect
<1>4. ~Running(w)' /\ \A v \in Workers \ {w} : work'[v] = work[v]
  BY <1>1, <1>3, Leaves
<1>5. work[w].batch \in Seq(Plays) /\ rows \in [Keys -> Nat]
  BY <1>1, Fields DEF TypeOK
<1>6. \A k \in Keys : k[2] = NoUri => rows'[k] = rows[k] + Copies(work[w].batch, k)
  BY <1>1, <1>3, <1>5, OnceFlush
<1>7. ASSUME NEW k \in Keys, deliveries <= 1, k[2] = NoUri
      PROVE  rows'[k] <= Prior[k] + Listed(Places(export), k)
  <2>1. PICK r \in Nat, c \in Nat, p \in Nat, q \in Nat, l \in Nat :
          /\ r = rows[k] /\ c = Copies(work[w].batch, k)
          /\ p = Allowed(work[w].file, work[w].at, k)
          /\ q = Prior[k] /\ l = Listed(Places(export), k)
    <3>1. rows[k] \in Nat /\ Prior[k] \in Nat
      BY <1>5, ImportAssumption
    <3>2. Copies(work[w].batch, k) \in Nat
      BY <1>5, CopiesType
    <3>3. Allowed(work[w].file, work[w].at, k) \in Nat
      BY <1>1, AllowedIs
    <3>4. Listed(Places(export), k) \in Nat
      BY <1>1, ListedIs
    <3>. QED  BY <3>1, <3>2, <3>3, <3>4
  <2>2. r + c <= p
    BY <1>3, <1>7, <2>1, OnceHas
  <2>3. p <= q + l
    BY <1>1, <2>1, AllowedIs
  <2>4. r + c <= q + l
    BY <2>1, <2>2, <2>3
  <2>. QED  BY <1>6, <1>7, <2>1, <2>4
<1>. QED  BY <1>2, <1>3, <1>4, <1>7, OnceKept

\* Steps that leave the ledger as it is and go on with no execution.
LEMMA OnceLeaves ==
    ASSUME AllInv, CountInv', NEW w \in Workers, Running(w),
           work' \in {work, [work EXCEPT ![w] = Idle]},
           UNCHANGED <<export, rows, deliveries>>
    PROVE  AllInv'
<1>1. CASE work' = work
  BY <1>1
     DEF AllInv, OnceInv, CopiesInv, AccountDataOnce, Running, Before, Places, At, Listed, Copies
<1>2. CASE work' = [work EXCEPT ![w] = Idle]
  <2>1. TypeOK
    BY DEF AllInv, CountInv, RowInv
  <2>2. ~Running(w)' /\ \A v \in Workers \ {w} : work'[v] = work[v]
    BY <1>2, <2>1, Leaves
  <2>3. \A k \in Keys : deliveries <= 1 /\ k[2] = NoUri =>
          rows[k] <= Prior[k] + Listed(Places(export), k)
    BY DEF AllInv, OnceInv, AccountDataOnce, Listed
  <2>. QED  BY <2>2, <2>3, OnceKept
<1>. QED  BY <1>1, <1>2

LEMMA OnceStart == ASSUME AllInv, NEW w \in Workers, Start(w) PROVE AllInv'
<1>1. CountInv /\ RowInv /\ TypeOK
  BY DEF AllInv, CountInv, RowInv
<1>2. CountInv'
  BY <1>1, CountStart
<1>3. /\ \A v \in Workers \ {w} : work'[v] = work[v]
      /\ deliveries' = deliveries + 1 /\ UNCHANGED <<export, rows>>
      /\ work'[w].batch = <<>>
  BY <1>1, StartEffect
<1>4. ASSUME deliveries' <= 1
      PROVE  deliveries <= 1 /\ rows = Prior /\ \A v \in Workers : ~Running(v)
  <2>1. deliveries = 0
    BY <1>1, <1>3, <1>4, Numbers
  <2>. QED  BY <1>1, <2>1 DEF RowInv, StartInv
<1>5. ASSUME deliveries' <= 1, NEW v \in Workers, Running(v)', NEW k \in Keys
      PROVE  rows'[k] + Copies(work'[v].batch, k)
               <= Prior[k] + Listed(Before(export, work'[v].file, work'[v].at), k)
  <2>1. v = w
    BY <1>3, <1>4, <1>5 DEF Running
  <2>2. Copies(work'[v].batch, k) = 0 /\ rows'[k] = Prior[k]
    BY <1>3, <1>4, <1>5, <2>1, NoCopies
  <2>3. PICK p \in Nat, q \in Nat : p = Allowed(work'[v].file, work'[v].at, k) /\ q = Prior[k]
    BY <1>1, AllowedIs, ImportAssumption
  <2>4. q <= p
    BY <1>1, <2>3, AllowedIs
  <2>5. q + 0 <= p
    BY <2>3, <2>4
  <2>. QED  BY <2>2, <2>3, <2>5 DEF Allowed
<1>6. CopiesInv'
  BY <1>3, <1>5 DEF CopiesInv, Running, Copies, Key, Before, Places, At, Listed
<1>7. AccountDataOnce'
  BY <1>3, <1>4 DEF AllInv, OnceInv, AccountDataOnce, Listed, At, Places
<1>. QED  BY <1>2, <1>6, <1>7 DEF AllInv, OnceInv

LEMMA OnceInit == Init => AllInv
<1>. SUFFICES ASSUME Init PROVE AllInv
  OBVIOUS
<1>1. CountInv /\ TypeOK /\ rows = Prior /\ \A w \in Workers : ~Running(w)
  BY CountInit, IdleIs DEF Init, CountInv, RowInv, Running
<1>2. ASSUME NEW k \in Keys
      PROVE  rows[k] <= Prior[k] + Listed(Places(export), k)
  <2>1. PICK q \in Nat, l \in Nat : q = Prior[k] /\ l = Listed(Places(export), k)
    BY <1>1, ListedIs, ImportAssumption
  <2>2. q <= q + l
    BY <2>1
  <2>. QED  BY <1>1, <2>1, <2>2
<1>. QED  BY <1>1, <1>2, ImportAssumption DEF AllInv, OnceInv, CopiesInv, AccountDataOnce, Listed

LEMMA OnceStep == AllInv /\ [Next]_vars => AllInv'
<1>. SUFFICES ASSUME AllInv, [Next]_vars PROVE AllInv'
  OBVIOUS
<1>1. CountInv' /\ TypeOK
  BY CountStep DEF AllInv, CountInv, RowInv
<1>2. CASE UNCHANGED <<export, rows, work, deliveries>>
  BY <1>1, <1>2
     DEF AllInv, OnceInv, CopiesInv, AccountDataOnce, Running, Before, Places, At, Listed, Copies
<1>3. CASE Upload
  BY <1>2, <1>3, UploadEffect
<1>4. ASSUME NEW w \in Workers, Refuse(w) \/ GiveUp(w) \/ Redeliver(w)
      PROVE  AllInv'
  <2>1. Running(w)
    BY <1>4 DEF Refuse, GiveUp, Redeliver, Running
  <2>2. work' \in {work, [work EXCEPT ![w] = Idle]} /\ UNCHANGED <<export, rows, deliveries>>
    BY <1>4 DEF Refuse, GiveUp, Redeliver
  <2>. QED  BY <1>1, <2>1, <2>2, OnceLeaves
<1>5. ASSUME NEW w \in Workers, Start(w) \/ Read(w) \/ EndFile(w) \/ Finish(w)
      PROVE  AllInv'
  BY <1>5, OnceStart, OnceRead, OnceEndFile, OnceFinish
<1>. QED  BY <1>2, <1>3, <1>4, <1>5 DEF Next, Run, Done, vars

\* A play of the account-data format, which no unique key protects, is there no
\* more often than before and in the export until its job is delivered again.
THEOREM AccountDataTheorem == Spec => []AccountDataOnce
<1>1. Spec => []AllInv
  BY OnceInit, OnceStep, PTL DEF Spec
<1>2. AllInv => AccountDataOnce
  BY DEF AllInv, OnceInv
<1>. QED  BY <1>1, <1>2, PTL
=============================================================================
