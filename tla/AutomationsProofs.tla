------------------------- MODULE AutomationsProofs -------------------------
(***************************************************************************)
(* Theorems about Automations, for any number of jobs, ticks, sweeps and   *)
(* runs, any cron settings and any edits.                                  *)
(***************************************************************************)
EXTENDS Automations, TLAPS

USE ConstantsAssumption DEF ConstantsAssumption

-----------------------------------------------------------------------------
(* What every driver and every uncommitted run stands for. *)

\* A run that has a row has a job.
HasJob == \A r \in Runs : row[r] # "none" => from[r].job \in Jobs

\* An uncommitted run belongs to a tick at work, which has handled its job; the
\* job cannot be deleted under it.
RunInv ==
    \A r \in Runs : row[r] = "flushed" =>
        /\ from[r].by \in Ticks /\ driver[from[r].by].pc = "firing"
        /\ from[r].job \in driver[from[r].by].done
        /\ job[from[r].job].state = "live"

\* A driver works at jobs that were created, and begins with an empty desk.
DriverInv(d) ==
    /\ d \in Ticks => driver[d].pc \in {"idle", "firing"}
    /\ d \in Sweeps => driver[d].pc # "firing"
    /\ driver[d].pc = "idle" => driver[d].todo = {} /\ driver[d].done = {}
    /\ \A j \in driver[d].todo \cup driver[d].done : job[j].state # "unborn"
    /\ driver[d].now <= clock
    /\ d \in Sweeps => \A j, k \in driver[d].done : j = k

BaseInv == \A j \in Jobs : job[j].base <= clock

DeskInv == RunInv /\ BaseInv /\ \A d \in Drivers : DriverInv(d)

-----------------------------------------------------------------------------
(* Once per due moment.  While drivers do not overlap, the base that the    *)
(* one at work has read is still the job's, and it is earlier than the      *)
(* moment it will write; so a firing is for a base that no firing before it *)
(* was for, and the base that replaces it is later.                         *)

Alone == \A d, e \in Drivers : driver[d].pc # "idle" /\ driver[e].pc # "idle" => d = e

UpToDate(d) ==
    /\ \A j \in driver[d].todo : job[j].state = "live" =>
         job[j].base = driver[d].seen[j] /\ job[j].base < driver[d].now
    /\ \A j \in driver[d].done : job[j].state = "live" => job[j].base < driver[d].now

\* Run r is for the moment its job still counts from.
FlushedNow == \A r \in Runs : row[r] = "flushed" => from[r].base = job[from[r].job].base

\* A sweep has fired j and not marked it yet.
InWork(j) ==
    \E s \in Sweeps : driver[s].pc \in {"running", "marking"} /\ j \in driver[s].done

\* A firing f is for a moment before the one its job counts from now, or for this
\* very moment while a sweep has the job in work.
Behind(f) ==
    /\ job[f[1]].state # "unborn"
    /\ job[f[1]].state = "live" =>
         \/ f[2] < job[f[1]].base
         \/ f[2] = job[f[1]].base /\ InWork(f[1])

FiredBefore == \A f \in fired : Behind(f)

InOrder ==
    Alone /\ FlushedNow /\ FiredBefore /\ twice = {} /\ \A d \in Drivers : UpToDate(d)

OnceInv == disturbed \/ InOrder

\* The message of a run that is not started is there until it overtakes the
\* commit or a worker fails.
PendingInv ==
    \A r \in Runs :
        (row[r] \in {"flushed", "queued"} /\ from[r].job \in Linked /\ ~early /\ ~lost)
            => msg[r] # "none"

-----------------------------------------------------------------------------
(* Types *)

JobType == [state : {"unborn", "live", "gone"}, wired : BOOLEAN,
            cron : Nat \cup {Never}, base : Moments]
FiringType == [by : Drivers \cup {"nobody"}, job : Jobs \cup {"nothing"}, base : Moments]
DriverType == [pc : {"idle", "firing", "planned", "running", "marking"},
               now : Moments, todo : SUBSET Jobs, done : SUBSET Jobs,
               doomed : BOOLEAN, seen : [Jobs -> Moments]]

LEMMA Types ==
    TypeOK <=>
    /\ clock \in Moments
    /\ job \in [Jobs -> JobType]
    /\ row \in [Runs -> {"none", "flushed", "queued", "running"}]
    /\ from \in [Runs -> FiringType]
    /\ msg \in [Runs -> {"none", "sent", "held"}]
    /\ driver \in [Drivers -> DriverType]
    /\ fired \subseteq Jobs \X Moments /\ twice \subseteq fired
    /\ disturbed \in BOOLEAN /\ early \in BOOLEAN /\ lost \in BOOLEAN
    /\ edits \in 0..MaxEdits /\ faults \in 0..MaxFaults
BY DEF TypeOK, JobType, FiringType, DriverType

LEMMA RecordTypes ==
    /\ 0 \in Moments
    /\ NoJob \in JobType /\ NoDriver \in DriverType /\ NoFiring \in FiringType
    /\ [NoJob EXCEPT !.state = "gone"] \in JobType
<1>1. 0 \in Moments /\ 0 \in Nat \cup {Never}
  BY DEF Moments, Never
<1>2. NoJob \in JobType /\ [NoJob EXCEPT !.state = "gone"] \in JobType
  BY <1>1 DEF NoJob, JobType
<1>3. NoDriver \in DriverType
  BY <1>1 DEF NoDriver, DriverType
<1>4. NoFiring \in FiringType
  BY <1>1 DEF NoFiring, FiringType
<1>. QED  BY <1>1, <1>2, <1>3, <1>4

LEMMA NewJobType ==
    ASSUME clock \in Moments, NEW j \in Jobs, NEW s \in Settings[j]
    PROVE  /\ NewJob(s) \in JobType
           /\ \A b \in Moments : [NewJob(s) EXCEPT !.base = b] \in JobType
<1>1. s.cron \in Nat \cup {Never} /\ s.wired \in BOOLEAN
  BY DEF Never
<1>. QED  BY <1>1 DEF NewJob, JobType

LEMMA PlannedType ==
    ASSUME TypeOK, NEW pc \in {"firing", "planned"}, NEW due \in SUBSET Jobs,
           NEW doomed \in BOOLEAN
    PROVE  Planned(pc, due, doomed) \in DriverType
<1>1. ASSUME NEW j \in Jobs PROVE (IF j \in due THEN job[j].base ELSE 0) \in Moments
  BY RecordTypes DEF TypeOK
<1>2. [j \in Jobs |-> IF j \in due THEN job[j].base ELSE 0] \in [Jobs -> Moments]
  BY <1>1
<1>. QED  BY <1>2 DEF Planned, DriverType, TypeOK

LEMMA StampedType ==
    ASSUME TypeOK, NEW J, NEW now \in Moments
    PROVE  Stamped(J, now) \in [Jobs -> JobType]
BY Types DEF Stamped, JobType

\* What Handled and Without do to the driver and to no other.
LEMMA HandledType ==
    ASSUME TypeOK, NEW t \in Drivers, NEW j \in Jobs
    PROVE  /\ Handled(t, j) \in [Drivers -> DriverType]
           /\ \A d \in Drivers \ {t} : Handled(t, j)[d] = driver[d]
           /\ Handled(t, j)[t].pc = driver[t].pc
           /\ Handled(t, j)[t].now = driver[t].now
           /\ Handled(t, j)[t].todo = driver[t].todo \ {j}
           /\ Handled(t, j)[t].done = driver[t].done \cup {j}
           /\ \A k \in Jobs \ {j} : Handled(t, j)[t].seen[k] = driver[t].seen[k]
<1>1. driver \in [Drivers -> DriverType] /\ 0 \in Moments
  BY Types, RecordTypes
<1>2. PICK e : e = [driver[t] EXCEPT !.todo = @ \ {j}, !.done = @ \cup {j},
                                     !.seen[j] = 0]
  OBVIOUS
<1>3. driver[t] \in DriverType
  BY <1>1
<1>4. /\ e.pc = driver[t].pc /\ e.now = driver[t].now
      /\ e.todo = driver[t].todo \ {j} /\ e.done = driver[t].done \cup {j}
      /\ \A k \in Jobs \ {j} : e.seen[k] = driver[t].seen[k]
  BY <1>2, <1>3 DEF DriverType
<1>5. e \in DriverType
  BY <1>1, <1>2, <1>3 DEF DriverType
<1>6. Handled(t, j) = [driver EXCEPT ![t] = e]
  BY <1>1, <1>2 DEF Handled
<1>. QED  BY <1>1, <1>4, <1>5, <1>6

LEMMA WithoutType ==
    ASSUME TypeOK, NEW s \in Drivers, NEW j \in Jobs
    PROVE  /\ Without(s, j) \in [Drivers -> DriverType]
           /\ \A d \in Drivers \ {s} : Without(s, j)[d] = driver[d]
           /\ \/ Without(s, j)[s] = NoDriver
              \/ /\ Without(s, j)[s].pc = "planned"
                 /\ Without(s, j)[s].now = driver[s].now
                 /\ Without(s, j)[s].todo = driver[s].todo \ {j}
                 /\ Without(s, j)[s].done = {}
                 /\ \A k \in Jobs \ {j} : Without(s, j)[s].seen[k] = driver[s].seen[k]
<1>1. driver \in [Drivers -> DriverType] /\ NoDriver \in DriverType /\ 0 \in Moments
  BY Types, RecordTypes
<1>2. PICK e : e = IF driver[s].todo = {j} THEN NoDriver
                   ELSE [driver[s] EXCEPT !.pc = "planned", !.todo = driver[s].todo \ {j}, !.done = {},
                                          !.seen[j] = 0]
  OBVIOUS
<1>3. Without(s, j) = [driver EXCEPT ![s] = e]
  BY <1>1, <1>2 DEF Without
<1>4. driver[s] \in DriverType
  BY <1>1
<1>5. CASE driver[s].todo = {j}
  BY <1>1, <1>2, <1>3, <1>5
<1>6. CASE driver[s].todo # {j}
  <2>1. /\ e.pc = "planned" /\ e.now = driver[s].now
        /\ e.todo = driver[s].todo \ {j} /\ e.done = {}
        /\ \A k \in Jobs \ {j} : e.seen[k] = driver[s].seen[k]
    BY <1>2, <1>4, <1>6 DEF DriverType
  <2>2. e \in DriverType
    BY <1>1, <1>2, <1>4, <1>6 DEF DriverType
  <2>. QED  BY <1>1, <1>3, <2>1, <2>2
<1>. QED  BY <1>5, <1>6

LEMMA FreshIs ==
    ASSUME Free # {}
    PROVE  /\ FreshRun \in Runs
           /\ \/ row[FreshRun] = "none" /\ msg[FreshRun] = "none"
              \/ Stuck(FreshRun)
<1>1. FreshRun \in Free
  BY DEF FreshRun
<1>. QED  BY <1>1 DEF Free

LEMMA DropType ==
    ASSUME TypeOK, NEW R, Drop(R)
    PROVE  /\ row' \in [Runs -> {"none", "flushed", "queued", "running"}]
           /\ from' \in [Runs -> FiringType]
BY Types, RecordTypes DEF Drop

LEMMA RememberType ==
    ASSUME TypeOK, NEW F \in SUBSET (Jobs \X Moments), Remember(F)
    PROVE  fired' \subseteq Jobs \X Moments /\ twice' \subseteq fired'
BY DEF TypeOK, Remember

TypeInv == TypeOK /\ HasJob

LEMMA TypeInit == Init => TypeInv
<1>. SUFFICES ASSUME Init PROVE TypeInv
  OBVIOUS
<1>1. clock \in Moments
  BY RecordTypes DEF Init
<1>2. job \in [Jobs -> JobType]
  <2>1. PICK choice : /\ choice \in [Jobs -> {NoJob} \cup UNION {{NewJob(s) : s \in Settings[k]} : k \in Jobs}]
                      /\ \A j \in Jobs : choice[j] \in {NoJob} \cup {NewJob(s) : s \in Settings[j]}
                      /\ job = choice
    BY DEF Init
  <2>2. ASSUME NEW j \in Jobs PROVE choice[j] \in JobType
    BY <1>1, <2>1, NewJobType, RecordTypes
  <2>. QED  BY <2>1, <2>2
<1>3. /\ row \in [Runs -> {"none", "flushed", "queued", "running"}]
      /\ from \in [Runs -> FiringType] /\ msg \in [Runs -> {"none", "sent", "held"}]
      /\ driver \in [Drivers -> DriverType]
  BY RecordTypes DEF Init
<1>4. /\ fired \subseteq Jobs \X Moments /\ twice \subseteq fired
      /\ edits \in 0..MaxEdits /\ faults \in 0..MaxFaults
  BY DEF Init
<1>5. disturbed \in BOOLEAN /\ early \in BOOLEAN /\ lost \in BOOLEAN
  BY DEF Init
<1>6. TypeOK
  BY <1>1, <1>2, <1>3, <1>4, <1>5, Types
<1>. QED  BY <1>6 DEF Init, HasJob, TypeInv

\* The counters of the bounds.
LEMMA CounterTypes ==
    ASSUME TypeOK
    PROVE  /\ Fault => faults' \in 0..MaxFaults
           /\ MayEdit => edits' \in 0..MaxEdits
BY DEF TypeOK, Fault, MayEdit

LEMMA FreshRowTypes ==
    ASSUME TypeInv, Free # {}, NEW state \in {"flushed", "running"}, NEW d \in Drivers,
           NEW j \in Jobs, NEW b \in Moments,
           row' = [row EXCEPT ![FreshRun] = state],
           from' = [from EXCEPT ![FreshRun] = [by |-> d, job |-> j, base |-> b]]
    PROVE  /\ row' \in [Runs -> {"none", "flushed", "queued", "running"}]
           /\ from' \in [Runs -> FiringType]
           /\ HasJob'
<1>1. [by |-> d, job |-> j, base |-> b] \in FiringType
  BY DEF FiringType
<1>2. /\ row \in [Runs -> {"none", "flushed", "queued", "running"}]
      /\ from \in [Runs -> FiringType]
  BY Types DEF TypeInv
<1>. QED  BY <1>1, <1>2 DEF HasJob, TypeInv

LEMMA DropKeepsJob ==
    ASSUME TypeInv, NEW R, Drop(R)
    PROVE  HasJob'
BY DEF TypeInv, HasJob, Drop

\* What is type-correct about a driver at hand.
LEMMA DriverFields ==
    ASSUME TypeOK, NEW d \in Drivers
    PROVE  /\ driver[d] \in DriverType
           /\ driver[d].now \in Moments
           /\ driver[d].todo \subseteq Jobs /\ driver[d].done \subseteq Jobs
           /\ \A j \in Jobs : driver[d].seen[j] \in Moments
BY Types DEF DriverType

\* How a step's type correctness is put together: the variables it leaves alone
\* keep their types.
LEMMA TypesNext ==
    ASSUME TypeInv, HasJob',
           clock' \in Moments,
           job' \in [Jobs -> JobType],
           row' \in [Runs -> {"none", "flushed", "queued", "running"}],
           from' \in [Runs -> FiringType],
           msg' \in [Runs -> {"none", "sent", "held"}],
           driver' \in [Drivers -> DriverType],
           fired' \subseteq Jobs \X Moments /\ twice' \subseteq fired',
           disturbed' \in BOOLEAN, early' \in BOOLEAN, lost' \in BOOLEAN,
           edits' \in 0..MaxEdits, faults' \in 0..MaxFaults
    PROVE  TypeInv'
BY DEF TypeInv, TypeOK, JobType, FiringType, DriverType

LEMMA TypesKept ==
    ASSUME TypeInv
    PROVE  /\ TypeOK /\ HasJob
           /\ clock \in Moments
           /\ job \in [Jobs -> JobType]
           /\ row \in [Runs -> {"none", "flushed", "queued", "running"}]
           /\ from \in [Runs -> FiringType]
           /\ msg \in [Runs -> {"none", "sent", "held"}]
           /\ driver \in [Drivers -> DriverType]
           /\ fired \subseteq Jobs \X Moments /\ twice \subseteq fired
           /\ disturbed \in BOOLEAN /\ early \in BOOLEAN /\ lost \in BOOLEAN
           /\ edits \in 0..MaxEdits /\ faults \in 0..MaxFaults
BY Types DEF TypeInv

\* SweepStart leaves the plan alone and takes j into work.
LEMMA StartEffect ==
    ASSUME TypeOK, NEW s \in Drivers, NEW j \in Jobs, SweepStart(s, j)
    PROVE  /\ driver' \in [Drivers -> DriverType]
           /\ \A d \in Drivers \ {s} : driver'[d] = driver[d]
           /\ driver'[s].pc = "running" /\ driver'[s].done = {j}
           /\ driver'[s].now = driver[s].now /\ driver'[s].todo = driver[s].todo
           /\ \A k \in Jobs : driver'[s].seen[k] = driver[s].seen[k]
<1>1. driver \in [Drivers -> DriverType] /\ driver[s] \in DriverType
  BY Types
<1>2. PICK e : e = [driver[s] EXCEPT !.pc = "running", !.done = {j}]
  OBVIOUS
<1>3. /\ e \in DriverType /\ e.pc = "running" /\ e.done = {j}
      /\ e.now = driver[s].now /\ e.todo = driver[s].todo
      /\ \A k \in Jobs : e.seen[k] = driver[s].seen[k]
  BY <1>1, <1>2 DEF DriverType
<1>4. driver' = [driver EXCEPT ![s] = e]
  BY <1>1, <1>2 DEF SweepStart
<1>. QED  BY <1>1, <1>3, <1>4

LEMMA TickTypes ==
    ASSUME TypeInv, NEW t \in Ticks, TickStep(t)
    PROVE  TypeInv'
<1>0. t \in Drivers
  BY DEF Drivers
<1>1. CASE TickRead(t)
  <2>1. PICK due \in SUBSET Jobs, doomed \in BOOLEAN :
          driver' = [driver EXCEPT ![t] = Planned("firing", due, doomed)]
    BY <1>1 DEF TickRead, Enabled
  <2>2. driver' \in [Drivers -> DriverType]
    BY <2>1, PlannedType, TypesKept
  <2>3. disturbed' \in BOOLEAN
    BY <1>1, TypesKept DEF TickRead, Overlaps
  <2>4. UNCHANGED <<clock, job, row, from, msg, fired, twice, early, lost, edits, faults>>
    BY <1>1 DEF TickRead, jobVars, runVars
  <2>. QED  BY <2>2, <2>3, <2>4, TypesKept, TypesNext DEF HasJob
<1>2. ASSUME NEW j \in Jobs, TickFire(t, j) PROVE TypeInv'
  <2>1. /\ row' \in [Runs -> {"none", "flushed", "queued", "running"}]
        /\ from' \in [Runs -> FiringType] /\ HasJob'
    BY <1>0, <1>2, DriverFields, FreshRowTypes, TypesKept DEF TickFire
  <2>2. msg' \in [Runs -> {"none", "sent", "held"}]
    BY <1>2, TypesKept DEF TickFire
  <2>3. driver' \in [Drivers -> DriverType]
    BY <1>0, <1>2, HandledType, TypesKept DEF TickFire
  <2>4. UNCHANGED <<clock, job, fired, twice, disturbed, early, lost, edits, faults>>
    BY <1>2 DEF TickFire, jobVars, history
  <2>. QED  BY <2>1, <2>2, <2>3, <2>4, TypesKept, TypesNext
<1>3. ASSUME NEW j \in Jobs, TickPass(t, j) PROVE TypeInv'
  <2>1. driver' \in [Drivers -> DriverType]
    BY <1>0, <1>3, HandledType, TypesKept DEF TickPass
  <2>2. UNCHANGED <<clock, job, row, from, msg, fired, twice, disturbed, early, lost, edits, faults>>
    BY <1>3 DEF TickPass, jobVars, runVars, history
  <2>. QED  BY <2>1, <2>2, TypesKept, TypesNext DEF HasJob
<1>4. CASE TickCommit(t)
  <2>1. row' \in [Runs -> {"none", "flushed", "queued", "running"}] /\ HasJob'
    BY <1>4, TypesKept DEF TickCommit, HasJob, Flushed
  <2>2. job' \in [Jobs -> JobType]
    BY <1>0, <1>4, DriverFields, StampedType, TypesKept DEF TickCommit
  <2>3. {<<from[r].job, from[r].base>> : r \in Flushed(t)} \in SUBSET (Jobs \X Moments)
    <3>1. ASSUME NEW r \in Flushed(t) PROVE from[r].job \in Jobs /\ from[r].base \in Moments
      BY TypesKept DEF Flushed, HasJob, FiringType
    <3>. QED  BY <3>1
  <2>4. fired' \subseteq Jobs \X Moments /\ twice' \subseteq fired'
    BY <1>4, <2>3, RememberType, TypesKept DEF TickCommit
  <2>5. driver' \in [Drivers -> DriverType]
    BY <1>4, RecordTypes, TypesKept DEF TickCommit
  <2>6. UNCHANGED <<clock, from, msg, disturbed, early, lost, edits, faults>>
    BY <1>4 DEF TickCommit
  <2>. QED  BY <2>1, <2>2, <2>4, <2>5, <2>6, TypesKept, TypesNext
<1>5. CASE TickAbort(t)
  <2>1. /\ row' \in [Runs -> {"none", "flushed", "queued", "running"}]
        /\ from' \in [Runs -> FiringType] /\ HasJob'
    BY <1>5, DropType, DropKeepsJob, TypesKept DEF TickAbort
  <2>2. driver' \in [Drivers -> DriverType] /\ faults' \in 0..MaxFaults
    BY <1>5, RecordTypes, CounterTypes, TypesKept DEF TickAbort
  <2>3. UNCHANGED <<clock, job, msg, fired, twice, disturbed, early, lost, edits>>
    BY <1>5 DEF TickAbort, jobVars, history
  <2>. QED  BY <2>1, <2>2, <2>3, TypesKept, TypesNext
<1>. QED  BY <1>1, <1>2, <1>3, <1>4, <1>5 DEF TickStep

LEMMA SweepTypes ==
    ASSUME TypeInv, NEW s \in Sweeps, SweepStep(s)
    PROVE  TypeInv'
<1>0. s \in Drivers
  BY DEF Drivers
<1>1. CASE SweepRead(s)
  <2>1. PICK due \in SUBSET Jobs :
          driver' = [driver EXCEPT ![s] = Planned("planned", due, FALSE)]
    BY <1>1 DEF SweepRead, Enabled
  <2>2. driver' \in [Drivers -> DriverType]
    BY <2>1, PlannedType, TypesKept
  <2>3. disturbed' \in BOOLEAN
    BY <1>1, TypesKept DEF SweepRead, Overlaps
  <2>4. UNCHANGED <<clock, job, row, from, msg, fired, twice, early, lost, edits, faults>>
    BY <1>1 DEF SweepRead, jobVars, runVars
  <2>. QED  BY <2>2, <2>3, <2>4, TypesKept, TypesNext DEF HasJob
<1>2. ASSUME NEW j \in Jobs, SweepSkip(s, j) \/ SweepPass(s, j) \/ SweepRefused(s, j)
      PROVE  TypeInv'
  <2>1. driver' \in [Drivers -> DriverType]
    BY <1>0, <1>2, WithoutType, TypesKept DEF SweepSkip, SweepPass, SweepRefused
  <2>2. job' \in [Jobs -> JobType]
    BY <1>0, <1>2, DriverFields, StampedType, TypesKept
    DEF SweepSkip, SweepPass, SweepRefused, jobVars
  <2>3. faults' \in 0..MaxFaults
    BY <1>2, CounterTypes, TypesKept DEF SweepSkip, SweepPass, SweepRefused
  <2>4. UNCHANGED <<clock, row, from, msg, fired, twice, disturbed, early, lost, edits>>
    BY <1>2 DEF SweepSkip, SweepPass, SweepRefused, jobVars, runVars, history
  <2>. QED  BY <2>1, <2>2, <2>3, <2>4, TypesKept, TypesNext DEF HasJob
<1>3. ASSUME NEW j \in Jobs, SweepStart(s, j) PROVE TypeInv'
  <2>1. /\ row' \in [Runs -> {"none", "flushed", "queued", "running"}]
        /\ from' \in [Runs -> FiringType] /\ HasJob'
    BY <1>0, <1>3, DriverFields, FreshRowTypes, TypesKept DEF SweepStart
  <2>2. {<<j, driver[s].seen[j]>>} \in SUBSET (Jobs \X Moments)
    BY <1>0, DriverFields, TypesKept
  <2>3. fired' \subseteq Jobs \X Moments /\ twice' \subseteq fired'
    BY <1>3, <2>2, RememberType, TypesKept DEF SweepStart
  <2>4. driver' \in [Drivers -> DriverType]
    BY <1>0, <1>3, StartEffect, TypesKept
  <2>5. UNCHANGED <<clock, job, msg, disturbed, early, lost, edits, faults>>
    BY <1>3 DEF SweepStart, jobVars
  <2>. QED  BY <2>1, <2>3, <2>4, <2>5, TypesKept, TypesNext
<1>4. CASE SweepFinish(s)
  <2>1. /\ row' \in [Runs -> {"none", "flushed", "queued", "running"}]
        /\ from' \in [Runs -> FiringType] /\ HasJob'
    BY <1>4, DropType, DropKeepsJob, TypesKept DEF SweepFinish
  <2>2. driver' \in [Drivers -> DriverType]
    BY <1>4, TypesKept DEF SweepFinish, DriverType
  <2>3. UNCHANGED <<clock, job, msg, fired, twice, disturbed, early, lost, edits, faults>>
    BY <1>4 DEF SweepFinish, jobVars, history
  <2>. QED  BY <2>1, <2>2, <2>3, TypesKept, TypesNext
<1>5. CASE SweepMark(s)
  <2>1. driver' \in [Drivers -> DriverType]
    BY <1>0, <1>5, DriverFields, WithoutType, TypesKept DEF SweepMark
  <2>2. job' \in [Jobs -> JobType]
    BY <1>0, <1>5, DriverFields, StampedType, TypesKept DEF SweepMark
  <2>3. UNCHANGED <<clock, row, from, msg, fired, twice, disturbed, early, lost, edits, faults>>
    BY <1>5 DEF SweepMark, runVars, history
  <2>. QED  BY <2>1, <2>2, <2>3, TypesKept, TypesNext DEF HasJob
<1>6. CASE SweepCrash(s)
  <2>1. from' \in [Runs -> FiringType] /\ HasJob'
    BY <1>6, TypesKept DEF SweepCrash, HasJob, FiringType
  <2>2. driver' \in [Drivers -> DriverType] /\ faults' \in 0..MaxFaults
    BY <1>6, RecordTypes, CounterTypes, TypesKept DEF SweepCrash
  <2>3. disturbed' \in BOOLEAN
    BY <1>6, TypesKept DEF SweepCrash
  <2>4. UNCHANGED <<clock, job, row, msg, fired, twice, early, lost, edits>>
    BY <1>6 DEF SweepCrash, jobVars
  <2>. QED  BY <2>1, <2>2, <2>3, <2>4, TypesKept, TypesNext
<1>. QED  BY <1>1, <1>2, <1>3, <1>4, <1>5, <1>6 DEF SweepStep

LEMMA TypeStep == TypeInv /\ [Next]_vars => TypeInv'
<1>. SUFFICES ASSUME TypeInv, [Next]_vars PROVE TypeInv'
  OBVIOUS
<1>1. ASSUME NEW r \in Runs, RunStep(r) PROVE TypeInv'
  <2>1. UNCHANGED <<clock, job, driver, fired, twice, disturbed, edits>>
    BY <1>1 DEF RunStep, Deliver, StartRun, FinishRun, CrashRun, jobVars, history
  <2>2. msg' \in [Runs -> {"none", "sent", "held"}]
    BY <1>1, TypesKept DEF RunStep, Deliver, StartRun, FinishRun, CrashRun
  <2>3. early' \in BOOLEAN /\ lost' \in BOOLEAN
    BY <1>1, TypesKept DEF RunStep, Deliver, StartRun, FinishRun, CrashRun, history
  <2>4. faults' \in 0..MaxFaults
    BY <1>1, CounterTypes, TypesKept DEF RunStep, Deliver, StartRun, FinishRun, CrashRun
  <2>5. /\ row' \in [Runs -> {"none", "flushed", "queued", "running"}]
        /\ from' \in [Runs -> FiringType] /\ HasJob'
    <3>1. CASE Deliver(r) \/ CrashRun(r)
      BY <3>1, TypesKept DEF Deliver, CrashRun, HasJob
    <3>2. CASE StartRun(r)
      BY <3>2, TypesKept DEF StartRun, HasJob
    <3>3. CASE FinishRun(r)
      BY <3>3, DropType, DropKeepsJob, TypesKept DEF FinishRun
    <3>. QED  BY <1>1, <3>1, <3>2, <3>3 DEF RunStep
  <2>. QED  BY <2>1, <2>2, <2>3, <2>4, <2>5, TypesKept, TypesNext
<1>2. ASSUME NEW j \in Jobs, Create(j) \/ Update(j) \/ Delete(j) PROVE TypeInv'
  <2>1. job' \in [Jobs -> JobType]
    <3>1. CASE Create(j)
      BY <3>1, NewJobType, TypesKept DEF Create
    <3>2. CASE Update(j)
      <4>1. job[j].base \in Moments
        BY TypesKept DEF JobType
      <4>. QED  BY <3>2, <4>1, NewJobType, TypesKept DEF Update
    <3>3. CASE Delete(j)
      BY <3>3, RecordTypes, TypesKept DEF Delete
    <3>. QED  BY <1>2, <3>1, <3>2, <3>3
  <2>2. edits' \in 0..MaxEdits
    BY <1>2, CounterTypes, TypesKept DEF Create, Update, Delete
  <2>3. UNCHANGED <<clock, row, from, msg, driver, fired, twice, disturbed, early, lost, faults>>
    BY <1>2 DEF Create, Update, Delete, runVars, history
  <2>. QED  BY <2>1, <2>2, <2>3, TypesKept, TypesNext DEF HasJob
<1>3. CASE Minute
  <2>1. clock' \in Moments
    BY <1>3, TypesKept DEF Minute, Moments
  <2>2. UNCHANGED <<job, row, from, msg, driver, fired, twice, disturbed, early, lost, edits, faults>>
    BY <1>3 DEF Minute, jobVars, runVars, history
  <2>. QED  BY <2>1, <2>2, TypesKept, TypesNext DEF HasJob
<1>4. CASE UNCHANGED vars
  <2>1. UNCHANGED <<clock, job, row, from, msg, driver, fired, twice, disturbed, early, lost, edits, faults>>
    BY <1>4 DEF vars, jobVars, runVars, history
  <2>. QED  BY <2>1, TypesKept, TypesNext DEF HasJob
<1>. QED  BY <1>1, <1>2, <1>3, <1>4, TickTypes, SweepTypes DEF Next

\* Jobs, runs, messages and drivers keep their types.
THEOREM TypeCorrect == Spec => []TypeOK
<1>1. TypeInv => TypeOK
  BY DEF TypeInv
<1>. QED  BY <1>1, TypeInit, TypeStep, PTL DEF Spec
-----------------------------------------------------------------------------
(* What the steps change, driver by driver and job by job *)

LEMMA JobFields ==
    ASSUME TypeOK, NEW j \in Jobs
    PROVE  /\ job[j].state \in {"unborn", "live", "gone"} /\ job[j].base \in Moments
           /\ 0 <= job[j].base
BY Types DEF JobType, Moments

LEMMA StampedIs ==
    ASSUME TypeOK, NEW J, NEW now, NEW k \in Jobs
    PROVE  /\ Stamped(J, now)[k].state = job[k].state
           /\ k \in J /\ job[k].state = "live" => Stamped(J, now)[k].base = now
           /\ k \notin J \/ job[k].state # "live" => Stamped(J, now)[k].base = job[k].base
BY Types DEF Stamped, JobType

\* A driver that has just read: what is due counts from a moment that is past.
LEMMA ReadEffect ==
    ASSUME TypeOK, NEW d \in Drivers,
           \/ d \in Ticks /\ TickRead(d)
           \/ d \in Sweeps /\ SweepRead(d)
    PROVE  /\ driver[d].pc = "idle"
           /\ \A e \in Drivers \ {d} : driver'[e] = driver[e]
           /\ driver'[d].pc \in {"firing", "planned"}
           /\ (driver'[d].pc = "firing") <=> d \in Ticks
           /\ driver'[d].now = clock /\ driver'[d].done = {}
           /\ \A j \in driver'[d].todo :
                /\ j \in Jobs /\ job[j].state = "live"
                /\ driver'[d].seen[j] = job[j].base /\ job[j].base < clock
           /\ disturbed' \/ (~disturbed /\ \A e \in Drivers \ {d} : driver[e].pc = "idle")
           /\ UNCHANGED <<clock, job, row, from, msg, fired, twice>>
<1>1. PICK due \in SUBSET Jobs, doomed \in BOOLEAN, pc \in {"firing", "planned"} :
        /\ driver' = [driver EXCEPT ![d] = Planned(pc, due, doomed)]
        /\ pc = "firing" <=> d \in Ticks
        /\ \A j \in due : j \in Enabled /\ DueNow(j)
  <2>1. CASE d \in Ticks /\ TickRead(d)
    <3>1. PICK doomed \in BOOLEAN :
            driver' = [driver EXCEPT ![d] = Planned("firing", {j \in Enabled : DueNow(j)}, doomed)]
      BY <2>1 DEF TickRead
    <3>2. {j \in Enabled : DueNow(j)} \in SUBSET Jobs
      BY DEF Enabled
    <3>. QED  BY <2>1, <3>1, <3>2
  <2>2. CASE d \in Sweeps /\ SweepRead(d)
    <3>1. PICK S \in SUBSET Enabled :
            driver' = [driver EXCEPT ![d] = Planned("planned", {j \in S : DueNow(j)}, FALSE)]
      BY <2>2 DEF SweepRead
    <3>2. {j \in S : DueNow(j)} \in SUBSET Jobs /\ d \notin Ticks
      BY <2>2 DEF Enabled
    <3>. QED  BY <3>1, <3>2
  <2>. QED  BY <2>1, <2>2
<1>2. ASSUME NEW j \in due PROVE job[j].state = "live" /\ job[j].base < clock
  <2>1. job[j].state = "live" /\ \E u \in job[j].base + 1 .. clock : TRUE
    BY <1>1 DEF Enabled, DueNow, Due
  <2>2. job[j].base \in Int /\ clock \in Int
    BY JobFields, Types DEF Moments
  <2>. QED  BY <2>1, <2>2
<1>3. /\ driver'[d] = Planned(pc, due, doomed)
      /\ \A e \in Drivers \ {d} : driver'[e] = driver[e]
  BY <1>1, Types
<1>4. /\ driver'[d].pc = pc /\ driver'[d].now = clock /\ driver'[d].todo = due
      /\ driver'[d].done = {}
      /\ \A j \in due : driver'[d].seen[j] = job[j].base
  BY <1>3 DEF Planned
<1>5. /\ driver[d].pc = "idle" /\ disturbed' = (disturbed \/ Overlaps(d))
      /\ UNCHANGED <<clock, job, row, from, msg, fired, twice>>
  BY DEF TickRead, SweepRead, jobVars, runVars
<1>6. disturbed' \/ (~disturbed /\ \A e \in Drivers \ {d} : driver[e].pc = "idle")
  BY <1>5 DEF Overlaps
<1>. QED  BY <1>1, <1>2, <1>3, <1>4, <1>5, <1>6

LEMMA EndEffect ==
    ASSUME TypeOK, NEW d \in Drivers, driver' = [driver EXCEPT ![d] = NoDriver]
    PROVE  /\ \A e \in Drivers \ {d} : driver'[e] = driver[e]
           /\ driver'[d].pc = "idle" /\ driver'[d].todo = {} /\ driver'[d].done = {}
           /\ driver'[d].now = 0
BY Types DEF NoDriver

\* Without, read from outside: the driver rests, or goes on with the jobs left.
LEMMA WithoutIs ==
    ASSUME TypeOK, NEW s \in Drivers, NEW j \in Jobs, driver' = Without(s, j)
    PROVE  /\ \A d \in Drivers \ {s} : driver'[d] = driver[d]
           /\ driver'[s].pc \in {"idle", "planned"}
           /\ driver'[s].pc = "idle" => driver'[s].todo = {}
           /\ driver'[s].now \in {0, driver[s].now}
           /\ driver'[s].todo \subseteq driver[s].todo \ {j}
           /\ driver'[s].done = {}
           /\ \A k \in driver'[s].todo :
                driver'[s].seen[k] = driver[s].seen[k] /\ driver'[s].now = driver[s].now
<1>1. CASE Without(s, j)[s] = NoDriver
  BY <1>1, WithoutType DEF NoDriver
<1>2. CASE Without(s, j)[s] # NoDriver
  BY <1>2, WithoutType, DriverFields
<1>. QED  BY <1>1, <1>2

LEMMA FinishEffect ==
    ASSUME TypeOK, NEW s \in Drivers, SweepFinish(s)
    PROVE  /\ \A d \in Drivers \ {s} : driver'[d] = driver[d]
           /\ driver'[s].pc = "marking"
           /\ driver'[s].now = driver[s].now /\ driver'[s].todo = driver[s].todo
           /\ driver'[s].done = driver[s].done /\ driver'[s].seen = driver[s].seen
<1>1. driver \in [Drivers -> DriverType] /\ driver[s] \in DriverType
  BY Types
<1>2. driver' = [driver EXCEPT ![s].pc = "marking"]
  BY DEF SweepFinish
<1>. QED  BY <1>1, <1>2 DEF DriverType

\* The steps of a sweep between its reading and its running write no run.
Passing(s, j) == SweepSkip(s, j) \/ SweepPass(s, j) \/ SweepRefused(s, j)

\* Such a step marks at most the job it passes over, which was still to do.
LEMMA PassingEffect ==
    ASSUME TypeOK, NEW s \in Drivers, NEW j \in Jobs, Passing(s, j)
    PROVE  /\ driver[s].pc = "planned" /\ j \in driver[s].todo
           /\ driver' = Without(s, j)
           /\ UNCHANGED <<clock, row, from, msg, fired, twice, disturbed, early, lost>>
           /\ \A k \in Jobs :
                /\ job'[k].state = job[k].state
                /\ \/ job'[k].base = job[k].base
                   \/ k = j /\ job[k].state = "live" /\ job'[k].base = driver[s].now
<1>1. /\ driver[s].pc = "planned" /\ j \in driver[s].todo
      /\ driver' = Without(s, j)
      /\ UNCHANGED <<clock, row, from, msg, fired, twice, disturbed, early, lost>>
      /\ job' = job \/ job' = Stamped({j}, driver[s].now)
  BY DEF Passing, SweepSkip, SweepPass, SweepRefused, jobVars, runVars, history
<1>2. CASE job' = job
  BY <1>1, <1>2
<1>3. CASE job' = Stamped({j}, driver[s].now)
  BY <1>1, <1>3, StampedIs
<1>. QED  BY <1>1, <1>2, <1>3

\* What the users' edits do to the jobs that drivers and runs refer to.
LEMMA EditEffect ==
    ASSUME TypeOK, NEW j \in Jobs, Create(j) \/ Update(j) \/ Delete(j)
    PROVE  /\ UNCHANGED <<clock, row, from, msg, driver, fired, twice, disturbed, early, lost>>
           /\ \A k \in Jobs \ {j} : job'[k] = job[k]
           /\ job'[j].state # "unborn"
           /\ \/ job[j].state = "unborn" /\ job'[j].state = "live" /\ job'[j].base = clock
              \/ job[j].state = "live" /\ job'[j].state = "live" /\ job'[j].base = job[j].base
              \/ /\ job[j].state = "live" /\ job'[j].state = "gone" /\ job'[j].base = 0
                 /\ \A r \in Runs : row[r] = "flushed" => from[r].job # j
<1>1. UNCHANGED <<clock, row, from, msg, driver, fired, twice, disturbed, early, lost>>
  BY DEF Create, Update, Delete, runVars, history
<1>2. job \in [Jobs -> JobType]
  BY Types
<1>3. CASE Create(j)
  BY <1>1, <1>2, <1>3 DEF Create, NewJob
<1>4. CASE Update(j)
  BY <1>1, <1>2, <1>4 DEF Update, NewJob
<1>5. CASE Delete(j)
  BY <1>1, <1>2, <1>5 DEF Delete, NoJob
<1>. QED  BY <1>3, <1>4, <1>5

\* A worker's step touches no uncommitted run.
LEMMA WorkEffect ==
    ASSUME TypeOK, NEW r \in Runs, RunStep(r)
    PROVE  /\ UNCHANGED <<clock, job, driver, fired, twice, disturbed>>
           /\ \A q \in Runs : row'[q] = "flushed" => row[q] = "flushed" /\ from'[q] = from[q]
<1>1. UNCHANGED <<clock, job, driver, fired, twice, disturbed>>
  BY DEF RunStep, Deliver, StartRun, FinishRun, CrashRun, jobVars, history
<1>2. CASE Deliver(r) \/ CrashRun(r)
  BY <1>1, <1>2 DEF Deliver, CrashRun
<1>3. CASE StartRun(r)
  BY <1>1, <1>3, Types DEF StartRun
<1>4. CASE FinishRun(r)
  BY <1>1, <1>4, Types DEF FinishRun, Drop
<1>. QED  BY <1>2, <1>3, <1>4 DEF RunStep

\* So does a step of a sweep.
LEMMA SweepLeavesFlushed ==
    ASSUME TypeOK, NEW s \in Sweeps, SweepStep(s)
    PROVE  \A q \in Runs : row'[q] = "flushed" => row[q] = "flushed" /\ from'[q] = from[q]
<1>1. row \in [Runs -> {"none", "flushed", "queued", "running"}] /\ from \in [Runs -> FiringType]
  BY Types
<1>2. CASE SweepRead(s) \/ SweepMark(s) \/ \E j \in Jobs : Passing(s, j)
  BY <1>2 DEF SweepRead, SweepMark, Passing, SweepSkip, SweepPass, SweepRefused, runVars
<1>3. CASE SweepFinish(s)
  BY <1>1, <1>3 DEF SweepFinish, Drop
<1>4. CASE SweepCrash(s)
  BY <1>1, <1>4 DEF SweepCrash, Own
<1>5. CASE \E j \in Jobs : SweepStart(s, j)
  BY <1>1, <1>5, FreshIs DEF SweepStart
<1>. QED  BY <1>2, <1>3, <1>4, <1>5 DEF SweepStep, Passing

-----------------------------------------------------------------------------
(* The desks of the drivers and the uncommitted runs *)

\* A commit or a rollback leaves no uncommitted run of its tick.
LEMMA TickEnds ==
    ASSUME TypeOK, NEW t \in Ticks, TickCommit(t) \/ TickAbort(t)
    PROVE  /\ driver' = [driver EXCEPT ![t] = NoDriver]
           /\ UNCHANGED <<clock, disturbed>>
           /\ \A q \in Runs : row'[q] = "flushed" =>
                row[q] = "flushed" /\ from'[q] = from[q] /\ from[q].by # t
           /\ \A k \in Jobs :
                /\ job'[k].state = job[k].state
                /\ \/ job'[k].base = job[k].base
                   \/ k \in driver[t].done /\ job[k].state = "live" /\ job'[k].base = driver[t].now
<1>1. CASE TickCommit(t)
  <2>1. /\ driver' = [driver EXCEPT ![t] = NoDriver]
        /\ job' = Stamped(driver[t].done, driver[t].now)
        /\ row' = [r \in Runs |-> IF r \in Flushed(t) THEN "queued" ELSE row[r]]
        /\ UNCHANGED <<clock, disturbed, from>>
    BY <1>1 DEF TickCommit
  <2>2. ASSUME NEW q \in Runs, row'[q] = "flushed"
        PROVE  row[q] = "flushed" /\ from'[q] = from[q] /\ from[q].by # t
    BY <2>1, <2>2 DEF Flushed
  <2>. QED  BY <2>1, <2>2, StampedIs
<1>2. CASE TickAbort(t)
  <2>1. /\ driver' = [driver EXCEPT ![t] = NoDriver] /\ Drop(Flushed(t))
        /\ UNCHANGED <<clock, disturbed, job>>
    BY <1>2 DEF TickAbort, jobVars, history
  <2>2. ASSUME NEW q \in Runs, row'[q] = "flushed"
        PROVE  row[q] = "flushed" /\ from'[q] = from[q] /\ from[q].by # t
    BY <2>1, <2>2 DEF Flushed, Drop
  <2>. QED  BY <2>1, <2>2
<1>. QED  BY <1>1, <1>2

\* A tick that handles a job; if it fires it, the new run is for what it has read.
LEMMA HandleEffect ==
    ASSUME TypeOK, NEW t \in Ticks, NEW j \in Jobs, TickFire(t, j) \/ TickPass(t, j)
    PROVE  /\ driver[t].pc = "firing" /\ j \in driver[t].todo /\ job[j].state = "live"
           /\ driver' = Handled(t, j)
           /\ UNCHANGED <<clock, job, fired, twice, disturbed>>
           /\ \A q \in Runs : row'[q] = "flushed" =>
                \/ row[q] = "flushed" /\ from'[q] = from[q]
                \/ from'[q] = [by |-> t, job |-> j, base |-> driver[t].seen[j]]
<1>1. row \in [Runs -> {"none", "flushed", "queued", "running"}] /\ from \in [Runs -> FiringType]
  BY Types
<1>2. CASE TickFire(t, j)
  BY <1>1, <1>2, FreshIs DEF TickFire, jobVars, history
<1>3. CASE TickPass(t, j)
  BY <1>3 DEF TickPass, jobVars, runVars, history
<1>. QED  BY <1>2, <1>3

LEMMA MarkEffect ==
    ASSUME TypeOK, DeskInv, NEW s \in Sweeps, SweepMark(s)
    PROVE  /\ driver[s].pc = "marking"
           /\ UNCHANGED <<clock, row, from, fired, twice, disturbed>>
           /\ \E j \in Jobs : driver[s].done = {j} /\ driver' = Without(s, j)
           /\ \A k \in Jobs :
                /\ job'[k].state = job[k].state
                /\ k \in driver[s].done /\ job[k].state = "live" => job'[k].base = driver[s].now
                /\ k \notin driver[s].done \/ job[k].state # "live" => job'[k].base = job[k].base
<1>1. s \in Drivers /\ driver[s].done \subseteq Jobs
  BY DriverFields DEF Drivers
<1>2. PICK j \in driver[s].done : driver' = Without(s, j)
  BY DEF SweepMark
<1>3. driver[s].done = {j}
  BY <1>1, <1>2 DEF DeskInv, DriverInv
<1>4. /\ driver[s].pc = "marking"
      /\ UNCHANGED <<clock, row, from, fired, twice, disturbed>>
      /\ job' = Stamped(driver[s].done, driver[s].now)
  BY DEF SweepMark, runVars, history
<1>. QED  BY <1>1, <1>2, <1>3, <1>4, StampedIs

\* One driver d moves and what it refers to exists.
LEMMA DeskNext ==
    ASSUME TypeOK, DeskInv, NEW d \in Drivers,
           \A e \in Drivers \ {d} : driver'[e] = driver[e],
           \A k \in Jobs : job[k].state # "unborn" => job'[k].state # "unborn",
           clock' = clock,
           DriverInv(d)'
    PROVE  \A e \in Drivers : DriverInv(e)'
<1>. SUFFICES ASSUME NEW e \in Drivers \ {d} PROVE DriverInv(e)'
  OBVIOUS
<1>1. DriverInv(e) /\ driver'[e] = driver[e]
  BY DEF DeskInv
<1>2. driver[e].todo \subseteq Jobs /\ driver[e].done \subseteq Jobs
  BY DriverFields
<1>. QED  BY <1>1, <1>2 DEF DriverInv

\* Jobs are marked with moments that have come.
LEMMA BasesNext ==
    ASSUME TypeOK, DeskInv, NEW d \in Drivers, clock' = clock,
           \A k \in Jobs : job'[k].base = job[k].base \/ job'[k].base = driver[d].now
    PROVE  BaseInv'
BY DEF DeskInv, BaseInv, DriverInv

LEMMA TickDesk ==
    ASSUME TypeInv, DeskInv, NEW t \in Ticks, TickStep(t)
    PROVE  DeskInv'
<1>0. t \in Drivers /\ t \notin Sweeps /\ TypeOK /\ DriverInv(t) /\ HasJob
  BY DEF Drivers, DeskInv, TypeInv
<1>1. CASE TickRead(t)
  <2>1. DriverInv(t)'
    BY <1>0, <1>1, ReadEffect, TypesKept DEF DriverInv, Moments
  <2>2. \A e \in Drivers : DriverInv(e)'
    BY <1>0, <1>1, <2>1, ReadEffect, DeskNext
  <2>3. RunInv'
    BY <1>0, <1>1, ReadEffect DEF DeskInv, RunInv, Drivers
  <2>4. BaseInv'
    BY <1>0, <1>1, ReadEffect DEF DeskInv, BaseInv
  <2>. QED  BY <2>2, <2>3, <2>4 DEF DeskInv
<1>2. ASSUME NEW j \in Jobs, TickFire(t, j) \/ TickPass(t, j) PROVE DeskInv'
  <2>0. /\ \A d \in Drivers \ {t} : driver'[d] = driver[d]
        /\ driver'[t].pc = "firing" /\ driver'[t].now = driver[t].now
        /\ driver'[t].todo = driver[t].todo \ {j} /\ driver'[t].done = driver[t].done \cup {j}
    <3>1. driver' = Handled(t, j) /\ driver[t].pc = "firing"
      BY <1>0, <1>2, HandleEffect
    <3>. QED  BY <1>0, <3>1, HandledType
  <2>1. DriverInv(t)'
    BY <1>0, <1>2, <2>0, HandleEffect DEF DriverInv
  <2>2. \A e \in Drivers : DriverInv(e)'
    BY <1>0, <1>2, <2>0, <2>1, HandleEffect, DeskNext
  <2>3. ASSUME NEW r \in Runs, row'[r] = "flushed"
        PROVE  /\ from'[r].by \in Ticks /\ driver'[from'[r].by].pc = "firing"
               /\ from'[r].job \in driver'[from'[r].by].done
               /\ job'[from'[r].job].state = "live"
    <3>1. CASE row[r] = "flushed" /\ from'[r] = from[r]
      <4>1. /\ from[r].by \in Ticks /\ driver[from[r].by].pc = "firing"
            /\ from[r].job \in driver[from[r].by].done /\ job[from[r].job].state = "live"
        BY <3>1 DEF DeskInv, RunInv
      <4>2. from[r].by \in Drivers /\ job' = job
        BY <1>0, <1>2, <4>1, HandleEffect DEF Drivers
      <4>. QED  BY <2>0, <3>1, <4>1, <4>2
    <3>2. CASE from'[r] = [by |-> t, job |-> j, base |-> driver[t].seen[j]]
      BY <1>0, <1>2, <2>0, <3>2, HandleEffect
    <3>. QED  BY <1>0, <1>2, <2>3, <3>1, <3>2, HandleEffect
  <2>4. RunInv'
    BY <2>3 DEF RunInv
  <2>5. BaseInv'
    BY <1>0, <1>2, HandleEffect DEF DeskInv, BaseInv
  <2>. QED  BY <2>2, <2>4, <2>5 DEF DeskInv
<1>3. CASE TickCommit(t) \/ TickAbort(t)
  <2>0. /\ \A e \in Drivers \ {t} : driver'[e] = driver[e]
        /\ driver'[t].pc = "idle" /\ driver'[t].todo = {} /\ driver'[t].done = {}
        /\ driver'[t].now = 0 /\ clock' = clock
    BY <1>0, <1>3, TickEnds, EndEffect
  <2>1. DriverInv(t)'
    BY <1>0, <2>0, TypesKept DEF DriverInv, Moments
  <2>2. \A e \in Drivers : DriverInv(e)'
    BY <1>0, <1>3, <2>0, <2>1, TickEnds, DeskNext
  <2>3. ASSUME NEW r \in Runs, row'[r] = "flushed"
        PROVE  /\ from'[r].by \in Ticks /\ driver'[from'[r].by].pc = "firing"
               /\ from'[r].job \in driver'[from'[r].by].done
               /\ job'[from'[r].job].state = "live"
    <3>1. row[r] = "flushed" /\ from'[r] = from[r] /\ from[r].by # t
      BY <1>0, <1>3, <2>3, TickEnds
    <3>2. /\ from[r].by \in Ticks /\ driver[from[r].by].pc = "firing"
          /\ from[r].job \in driver[from[r].by].done /\ job[from[r].job].state = "live"
      BY <3>1 DEF DeskInv, RunInv
    <3>3. from[r].by \in Drivers /\ from[r].job \in Jobs
      BY <1>0, <3>1, <3>2 DEF Drivers, HasJob
    <3>. QED  BY <1>0, <1>3, <2>0, <3>1, <3>2, <3>3, TickEnds
  <2>4. RunInv'
    BY <2>3 DEF RunInv
  <2>5. BaseInv'
    BY <1>0, <1>3, TickEnds, BasesNext
  <2>. QED  BY <2>2, <2>4, <2>5 DEF DeskInv
<1>. QED  BY <1>1, <1>2, <1>3 DEF TickStep

\* A step of a sweep never touches an uncommitted run, nor the tick it belongs to.
LEMMA SweepKeepsRuns ==
    ASSUME TypeInv, DeskInv, NEW s \in Sweeps, SweepStep(s),
           \A e \in Drivers \ {s} : driver'[e] = driver[e],
           \A k \in Jobs : job'[k].state = job[k].state
    PROVE  RunInv'
<1>. SUFFICES ASSUME NEW r \in Runs, row'[r] = "flushed"
              PROVE  /\ from'[r].by \in Ticks /\ driver'[from'[r].by].pc = "firing"
                     /\ from'[r].job \in driver'[from'[r].by].done
                     /\ job'[from'[r].job].state = "live"
  BY DEF RunInv
<1>1. row[r] = "flushed" /\ from'[r] = from[r]
  BY SweepLeavesFlushed DEF TypeInv
<1>2. /\ from[r].by \in Ticks /\ driver[from[r].by].pc = "firing"
      /\ from[r].job \in driver[from[r].by].done /\ job[from[r].job].state = "live"
  BY <1>1 DEF DeskInv, RunInv
<1>3. from[r].by \in Drivers \ {s} /\ from[r].job \in Jobs
  BY <1>1, <1>2 DEF TypeInv, HasJob, Drivers
<1>. QED  BY <1>1, <1>2, <1>3

LEMMA SweepDesk ==
    ASSUME TypeInv, DeskInv, NEW s \in Sweeps, SweepStep(s)
    PROVE  DeskInv'
<1>0. s \in Drivers /\ s \notin Ticks /\ TypeOK /\ DriverInv(s)
  BY DEF Drivers, DeskInv, TypeInv
<1>. SUFFICES /\ \A e \in Drivers \ {s} : driver'[e] = driver[e]
              /\ \A k \in Jobs : job'[k].state = job[k].state
              /\ DriverInv(s)' /\ BaseInv' /\ clock' = clock
  BY <1>0, SweepKeepsRuns, DeskNext DEF DeskInv
<1>1. CASE SweepRead(s)
  <2>1. DriverInv(s)'
    BY <1>0, <1>1, ReadEffect, TypesKept DEF DriverInv, Moments
  <2>. QED  BY <1>0, <1>1, <2>1, ReadEffect DEF DeskInv, BaseInv
<1>2. ASSUME NEW j \in Jobs, Passing(s, j)
      PROVE  /\ \A e \in Drivers \ {s} : driver'[e] = driver[e]
             /\ \A k \in Jobs : job'[k].state = job[k].state
             /\ DriverInv(s)' /\ BaseInv' /\ clock' = clock
  <2>1. DriverInv(s)'
    <3>1. /\ driver' = Without(s, j) /\ clock' = clock /\ clock >= 0
          /\ \A k \in Jobs : job'[k].state = job[k].state
      BY <1>0, <1>2, PassingEffect, TypesKept DEF Moments
    <3>2. driver[s].todo \subseteq Jobs
      BY <1>0, DriverFields
    <3>. QED  BY <1>0, <3>1, <3>2, WithoutIs DEF DriverInv
  <2>2. BaseInv'
    BY <1>0, <1>2, PassingEffect, BasesNext
  <2>. QED  BY <1>0, <1>2, <2>1, <2>2, PassingEffect, WithoutIs
<1>3. ASSUME NEW j \in Jobs, SweepStart(s, j)
      PROVE  /\ \A e \in Drivers \ {s} : driver'[e] = driver[e]
             /\ \A k \in Jobs : job'[k].state = job[k].state
             /\ DriverInv(s)' /\ BaseInv' /\ clock' = clock
  <2>1. j \in driver[s].todo /\ clock' = clock /\ job' = job
    BY <1>3 DEF SweepStart, jobVars
  <2>2. DriverInv(s)'
    BY <1>0, <1>3, <2>1, StartEffect DEF DriverInv
  <2>. QED  BY <1>0, <1>3, <2>1, <2>2, StartEffect DEF DeskInv, BaseInv
<1>4. CASE SweepFinish(s)
  <2>1. clock' = clock /\ job' = job
    BY <1>4 DEF SweepFinish, jobVars
  <2>2. DriverInv(s)'
    BY <1>0, <1>4, <2>1, FinishEffect DEF DriverInv
  <2>. QED  BY <1>0, <1>4, <2>1, <2>2, FinishEffect DEF DeskInv, BaseInv
<1>5. CASE SweepMark(s)
  <2>1. PICK j \in Jobs : driver' = Without(s, j)
    BY <1>0, <1>5, MarkEffect
  <2>2. DriverInv(s)'
    <3>1. /\ clock' = clock /\ clock >= 0
          /\ \A k \in Jobs : job'[k].state = job[k].state
      BY <1>0, <1>5, MarkEffect, TypesKept DEF Moments
    <3>2. driver[s].todo \subseteq Jobs
      BY <1>0, DriverFields
    <3>. QED  BY <1>0, <2>1, <3>1, <3>2, WithoutIs DEF DriverInv
  <2>3. BaseInv'
    BY <1>0, <1>5, MarkEffect, BasesNext
  <2>. QED  BY <1>0, <1>5, <2>1, <2>2, <2>3, MarkEffect, WithoutIs
<1>6. CASE SweepCrash(s)
  <2>1. clock' = clock /\ job' = job /\ driver' = [driver EXCEPT ![s] = NoDriver]
    BY <1>6 DEF SweepCrash, jobVars
  <2>2. DriverInv(s)'
    <3>1. /\ driver'[s].pc = "idle" /\ driver'[s].todo = {} /\ driver'[s].done = {}
          /\ driver'[s].now = 0
      BY <1>0, <2>1, EndEffect
    <3>2. clock' \in Int /\ 0 <= clock'
      BY <2>1, TypesKept DEF Moments
    <3>. QED  BY <1>0, <3>1, <3>2 DEF DriverInv
  <2>. QED  BY <1>0, <2>1, <2>2, EndEffect DEF DeskInv, BaseInv
<1>. QED  BY <1>1, <1>2, <1>3, <1>4, <1>5, <1>6 DEF SweepStep, Passing

LEMMA DeskStep == TypeInv /\ DeskInv /\ [Next]_vars => DeskInv'
<1>. SUFFICES ASSUME TypeInv, DeskInv, [Next]_vars PROVE DeskInv'
  OBVIOUS
<1>0. TypeOK /\ HasJob /\ \A d \in Drivers : driver[d].todo \subseteq Jobs /\ driver[d].done \subseteq Jobs
  BY DriverFields DEF TypeInv
<1>1. ASSUME NEW r \in Runs, RunStep(r) PROVE DeskInv'
  <2>1. UNCHANGED <<clock, job, driver>>
    BY <1>0, <1>1, WorkEffect
  <2>2. RunInv'
    BY <1>0, <1>1, <2>1, WorkEffect DEF DeskInv, RunInv
  <2>. QED  BY <2>1, <2>2 DEF DeskInv, BaseInv, DriverInv
<1>2. ASSUME NEW j \in Jobs, Create(j) \/ Update(j) \/ Delete(j) PROVE DeskInv'
  <2>1. /\ UNCHANGED <<clock, row, from, driver>>
        /\ \A k \in Jobs \ {j} : job'[k] = job[k]
    BY <1>0, <1>2, EditEffect
  <2>2. RunInv'
    BY <1>0, <1>2, EditEffect DEF DeskInv, RunInv, HasJob
  <2>3. BaseInv'
    BY <1>0, <1>2, EditEffect, TypesKept DEF DeskInv, BaseInv, Moments
  <2>4. ASSUME NEW d \in Drivers PROVE DriverInv(d)'
    <3>1. \A k \in Jobs : job[k].state # "unborn" => job'[k].state # "unborn"
      BY <1>0, <1>2, EditEffect
    <3>. QED  BY <1>0, <2>1, <3>1 DEF DeskInv, DriverInv
  <2>. QED  BY <2>2, <2>3, <2>4 DEF DeskInv
<1>3. CASE Minute
  <2>1. clock' = clock + 1 /\ UNCHANGED <<job, row, from, driver>>
    BY <1>3 DEF Minute, jobVars, runVars
  <2>2. \A j \in Jobs : job[j].base \in Nat
    BY <1>0, JobFields DEF Moments
  <2>3. \A d \in Drivers : driver[d].now \in Nat
    BY <1>0, DriverFields DEF Moments
  <2>4. clock \in Nat
    BY TypesKept DEF Moments
  <2>5. BaseInv' /\ RunInv'
    BY <2>1, <2>2, <2>4 DEF DeskInv, BaseInv, RunInv
  <2>6. ASSUME NEW d \in Drivers PROVE DriverInv(d)'
    BY <2>1, <2>3, <2>4 DEF DeskInv, DriverInv
  <2>. QED  BY <2>5, <2>6 DEF DeskInv
<1>4. CASE UNCHANGED vars
  BY <1>4 DEF vars, jobVars, runVars, DeskInv, RunInv, BaseInv, DriverInv
<1>. QED  BY <1>1, <1>2, <1>3, <1>4, TickDesk, SweepDesk DEF Next

LEMMA DeskInit == Init => DeskInv
<1>. SUFFICES ASSUME Init PROVE DeskInv
  OBVIOUS
<1>1. ASSUME NEW j \in Jobs PROVE job[j].base <= clock
  BY DEF Init, NoJob, NewJob
<1>2. ASSUME NEW d \in Drivers PROVE DriverInv(d)
  BY DEF Init, NoDriver, DriverInv
<1>3. RunInv
  BY DEF Init, RunInv
<1>. QED  BY <1>1, <1>2, <1>3 DEF DeskInv, BaseInv

-----------------------------------------------------------------------------
(* While drivers do not overlap *)

LEMMA DisturbedStays == [Next]_vars /\ disturbed => disturbed'
<1>1. ASSUME NEW t \in Ticks, TickStep(t), disturbed PROVE disturbed'
  BY <1>1 DEF TickStep, TickRead, TickFire, TickPass, TickCommit, TickAbort, history
<1>2. ASSUME NEW s \in Sweeps, SweepStep(s), disturbed PROVE disturbed'
  BY <1>2 DEF SweepStep, SweepRead, SweepSkip, SweepPass, SweepRefused, SweepStart,
              SweepFinish, SweepMark, SweepCrash, history
<1>3. ASSUME NEW r \in Runs, RunStep(r), disturbed PROVE disturbed'
  BY <1>3 DEF RunStep, Deliver, StartRun, FinishRun, CrashRun, history
<1>4. CASE Minute \/ \E j \in Jobs : Create(j) \/ Update(j) \/ Delete(j)
  BY <1>4 DEF Minute, Create, Update, Delete, history
<1>5. CASE UNCHANGED vars
  BY <1>5 DEF vars, history
<1>. QED  BY <1>1, <1>2, <1>3, <1>4, <1>5 DEF Next

\* If a driver is at work, no other one is, nor is any job on its desk.
LEMMA AloneAtWork ==
    ASSUME DeskInv, Alone, NEW d \in Drivers, driver[d].pc # "idle",
           NEW e \in Drivers \ {d}
    PROVE  driver[e].pc = "idle" /\ driver[e].todo = {} /\ driver[e].done = {}
BY DEF DeskInv, DriverInv, Alone

LEMMA MarksAreLater ==
    ASSUME TypeInv, DeskInv, InOrder, NEW d \in Drivers,
           NEW j \in driver[d].todo \cup driver[d].done, job[j].state = "live"
    PROVE  job[j].base < driver[d].now
BY DEF InOrder, UpToDate

\* The base of a job never moves back.
LEMMA ForwardStep ==
    ASSUME TypeInv, DeskInv, OnceInv, [Next]_vars, ~disturbed',
           NEW k \in Jobs, job'[k].state = "live"
    PROVE  job'[k].base >= job[k].base
<1>0. /\ TypeOK /\ InOrder /\ job[k].base \in Int
      /\ job[k].base <= clock /\ clock \in Int
      /\ \A d \in Drivers : driver[d].now \in Int
  BY DisturbedStays, JobFields, DriverFields, TypesKept DEF TypeInv, OnceInv, DeskInv, BaseInv, Moments
<1>. SUFFICES \/ job'[k].base = job[k].base
              \/ job'[k].base = clock
              \/ \E d \in Drivers : job[k].base < driver[d].now /\ job'[k].base = driver[d].now
  BY <1>0
<1>1. ASSUME NEW t \in Ticks, TickStep(t)
      PROVE  \/ job'[k].base = job[k].base
             \/ \E d \in Drivers : job[k].base < driver[d].now /\ job'[k].base = driver[d].now
  <2>0. t \in Drivers
    BY DEF Drivers
  <2>1. CASE TickRead(t)
    BY <2>1 DEF TickRead, jobVars
  <2>2. ASSUME NEW j \in Jobs, TickFire(t, j) \/ TickPass(t, j) PROVE job' = job
    BY <2>2 DEF TickFire, TickPass, jobVars
  <2>3. CASE TickCommit(t) \/ TickAbort(t)
    BY <1>0, <2>0, <2>3, TickEnds, MarksAreLater
  <2>. QED  BY <1>1, <2>1, <2>2, <2>3 DEF TickStep
<1>2. ASSUME NEW s \in Sweeps, SweepStep(s)
      PROVE  \/ job'[k].base = job[k].base
             \/ \E d \in Drivers : job[k].base < driver[d].now /\ job'[k].base = driver[d].now
  <2>0. s \in Drivers
    BY DEF Drivers
  <2>1. CASE SweepRead(s) \/ SweepFinish(s) \/ SweepCrash(s) \/ \E j \in Jobs : SweepStart(s, j)
    BY <2>1 DEF SweepRead, SweepFinish, SweepCrash, SweepStart, jobVars
  <2>2. ASSUME NEW j \in Jobs, Passing(s, j)
        PROVE  \/ job'[k].base = job[k].base
               \/ job[k].base < driver[s].now /\ job'[k].base = driver[s].now
    BY <1>0, <2>0, <2>2, PassingEffect, MarksAreLater
  <2>3. CASE SweepMark(s)
    BY <1>0, <2>0, <2>3, MarkEffect, MarksAreLater
  <2>. QED  BY <1>2, <2>0, <2>1, <2>2, <2>3 DEF SweepStep, Passing
<1>3. ASSUME NEW r \in Runs, RunStep(r) PROVE job' = job
  BY <1>0, <1>3, WorkEffect
<1>4. ASSUME NEW j \in Jobs, Create(j) \/ Update(j) \/ Delete(j)
      PROVE  job'[k].base = job[k].base \/ job'[k].base = clock
  BY <1>0, <1>4, EditEffect
<1>5. CASE Minute \/ UNCHANGED vars
  BY <1>5 DEF Minute, vars, jobVars
<1>. QED  BY <1>1, <1>2, <1>3, <1>4, <1>5 DEF Next

\* The driver d moves, and no other one is at work.
LEMMA AloneNext ==
    ASSUME NEW d \in Drivers, \A e \in Drivers \ {d} : driver[e].pc = "idle",
           \A e \in Drivers \ {d} : driver'[e] = driver[e]
    PROVE  Alone'
BY DEF Alone

LEMMA UpToDateNext ==
    ASSUME DeskInv, NEW d \in Drivers, \A e \in Drivers \ {d} : driver[e].pc = "idle",
           \A e \in Drivers \ {d} : driver'[e] = driver[e],
           UpToDate(d)'
    PROVE  \A e \in Drivers : UpToDate(e)'
<1>1. ASSUME NEW e \in Drivers \ {d} PROVE UpToDate(e)'
  BY DEF DeskInv, DriverInv, UpToDate
<1>. QED  BY <1>1

\* What was fired before the step stays behind.
LEMMA BehindNext ==
    ASSUME TypeInv, DeskInv, OnceInv, [Next]_vars, ~disturbed', TypeInv',
           \A k \in Jobs : /\ job[k].state # "unborn" => job'[k].state # "unborn"
                           /\ job'[k].state = "live" => job[k].state \in {"live", "unborn"},
           \A k \in Jobs : InWork(k) => InWork(k)' \/ job'[k].state # "live"
                                        \/ job[k].base < job'[k].base
    PROVE  \A f \in fired : Behind(f)'
<1>. SUFFICES ASSUME NEW f \in fired PROVE Behind(f)'
  OBVIOUS
<1>0. f[1] \in Jobs /\ f[2] \in Int /\ Behind(f)
  BY DisturbedStays, TypesKept DEF OnceInv, InOrder, FiredBefore, Moments
<1>1. job[f[1]].base \in Int /\ job'[f[1]].base \in Int
  <2>1. job'[f[1]].base \in Moments
    BY <1>0 DEF TypeInv, TypeOK
  <2>. QED  BY <1>0, <2>1, JobFields DEF TypeInv, Moments
<1>2. job'[f[1]].state # "unborn" /\ job[f[1]].state # "unborn"
  BY <1>0 DEF Behind
<1>3. ASSUME job'[f[1]].state = "live"
      PROVE  f[2] < job'[f[1]].base \/ (f[2] = job'[f[1]].base /\ InWork(f[1])')
  <2>1. job[f[1]].state = "live" /\ job'[f[1]].base >= job[f[1]].base
    BY <1>0, <1>2, <1>3, ForwardStep
  <2>2. f[2] < job[f[1]].base \/ (f[2] = job[f[1]].base /\ InWork(f[1]))
    BY <1>0, <2>1 DEF Behind
  <2>. QED  BY <1>0, <1>1, <1>3, <2>1, <2>2
<1>. QED  BY <1>2, <1>3 DEF Behind

\* No sweep has a job in work while another driver is at work, or this one is not
\* running a tool.
LEMMA NoneInWork ==
    ASSUME Alone, NEW d \in Drivers, driver[d].pc \in {"firing", "planned"}, NEW k
    PROVE  ~InWork(k)
BY DEF Alone, InWork, Drivers

\* A step that fires nothing keeps the firings behind and finds none twice.
LEMMA NothingFired ==
    ASSUME TypeInv, DeskInv, OnceInv, [Next]_vars, ~disturbed', TypeInv',
           UNCHANGED <<fired, twice>>,
           \A k \in Jobs : /\ job[k].state # "unborn" => job'[k].state # "unborn"
                           /\ job'[k].state = "live" => job[k].state \in {"live", "unborn"},
           \A k \in Jobs : InWork(k) => InWork(k)' \/ job'[k].state # "live"
                                        \/ job[k].base < job'[k].base
    PROVE  FiredBefore' /\ twice' = {}
<1>1. \A f \in fired : Behind(f)'
  BY BehindNext
<1>2. twice = {}
  BY DisturbedStays DEF OnceInv, InOrder
<1>. QED  BY <1>1, <1>2 DEF FiredBefore

LEMMA FlushedNext ==
    ASSUME TypeInv, DeskInv, InOrder, job' = job,
           \A q \in Runs : row'[q] = "flushed" => row[q] = "flushed" /\ from'[q] = from[q]
    PROVE  FlushedNow'
BY DEF InOrder, FlushedNow

\* An uncommitted run is a tick's at work: there is none when a sweep is.
LEMMA NoneFlushed ==
    ASSUME TypeInv, DeskInv, Alone, NEW s \in Sweeps, driver[s].pc # "idle", NEW r \in Runs
    PROVE  row[r] # "flushed"
<1>. SUFFICES ASSUME row[r] = "flushed" PROVE FALSE
  OBVIOUS
<1>1. from[r].by \in Ticks /\ driver[from[r].by].pc = "firing"
  BY DEF DeskInv, RunInv
<1>. QED  BY <1>1 DEF Alone, Drivers

LEMMA OrderNext ==
    ASSUME DeskInv, NEW d \in Drivers, \A e \in Drivers \ {d} : driver[e].pc = "idle",
           \A e \in Drivers \ {d} : driver'[e] = driver[e],
           UpToDate(d)', FlushedNow', FiredBefore', twice' = {}
    PROVE  InOrder'
<1>1. Alone'
  BY AloneNext
<1>2. \A e \in Drivers : UpToDate(e)'
  BY UpToDateNext
<1>. QED  BY <1>1, <1>2 DEF InOrder

LEMMA TickOnce ==
    ASSUME TypeInv, DeskInv, OnceInv, [Next]_vars, ~disturbed', TypeInv',
           NEW t \in Ticks, TickStep(t)
    PROVE  InOrder'
<1>0. /\ t \in Drivers /\ t \notin Sweeps /\ TypeOK /\ InOrder /\ ~disturbed
      /\ \A d \in Drivers : driver[d].todo \subseteq Jobs /\ driver[d].done \subseteq Jobs
  BY DisturbedStays, DriverFields DEF Drivers, TypeInv, OnceInv
<1>1. CASE TickRead(t)
  <2>1. /\ \A e \in Drivers \ {t} : driver[e].pc = "idle" /\ driver'[e] = driver[e]
        /\ UNCHANGED <<job, row, from, fired, twice>>
    BY <1>0, <1>1, ReadEffect
  <2>2. UpToDate(t)'
    BY <1>0, <1>1, ReadEffect DEF UpToDate
  <2>3. ASSUME NEW k PROVE InWork(k) => InWork(k)'
    BY <1>0, <2>1 DEF InWork, Drivers
  <2>4. FiredBefore' /\ twice' = {}
    BY <2>1, <2>3, NothingFired, JobFields, <1>0
  <2>5. FlushedNow'
    BY <1>0, <2>1, FlushedNext
  <2>. QED  BY <1>0, <2>1, <2>2, <2>4, <2>5, OrderNext
<1>2. ASSUME NEW j \in Jobs, TickFire(t, j) \/ TickPass(t, j) PROVE InOrder'
  <2>0. /\ driver[t].pc = "firing" /\ j \in driver[t].todo /\ job[j].state = "live"
        /\ driver' = Handled(t, j) /\ UNCHANGED <<job, fired, twice>>
    BY <1>0, <1>2, HandleEffect
  <2>1. /\ \A e \in Drivers \ {t} : driver[e].pc = "idle"
        /\ \A e \in Drivers \ {t} : driver'[e] = driver[e]
        /\ driver'[t].now = driver[t].now
        /\ driver'[t].todo = driver[t].todo \ {j} /\ driver'[t].done = driver[t].done \cup {j}
        /\ \A k \in Jobs \ {j} : driver'[t].seen[k] = driver[t].seen[k]
    BY <1>0, <2>0, HandledType, AloneAtWork DEF InOrder
  <2>2. UpToDate(t)'
    BY <1>0, <2>0, <2>1 DEF InOrder, UpToDate
  <2>3. ASSUME NEW k PROVE InWork(k) => InWork(k)'
    BY <1>0, <2>1 DEF InWork, Drivers
  <2>4. FiredBefore' /\ twice' = {}
    BY <2>0, <2>3, NothingFired, JobFields, <1>0
  <2>5. FlushedNow'
    <3>. SUFFICES ASSUME NEW r \in Runs, row'[r] = "flushed"
                  PROVE  from'[r].base = job'[from'[r].job].base
      BY DEF FlushedNow
    <3>1. CASE row[r] = "flushed" /\ from'[r] = from[r]
      BY <1>0, <2>0, <3>1 DEF InOrder, FlushedNow
    <3>2. CASE from'[r] = [by |-> t, job |-> j, base |-> driver[t].seen[j]]
      BY <1>0, <2>0, <3>2 DEF InOrder, UpToDate
    <3>. QED  BY <1>0, <1>2, <3>1, <3>2, HandleEffect
  <2>. QED  BY <1>0, <2>1, <2>2, <2>4, <2>5, OrderNext
<1>3. CASE TickCommit(t) \/ TickAbort(t)
  <2>0. /\ driver[t].pc = "firing" /\ driver' = [driver EXCEPT ![t] = NoDriver]
        /\ \A k \in Jobs : job'[k].state = job[k].state
    BY <1>0, <1>3, TickEnds DEF TickCommit, TickAbort
  <2>1. /\ \A e \in Drivers \ {t} : driver[e].pc = "idle"
        /\ \A e \in Drivers \ {t} : driver'[e] = driver[e]
        /\ driver'[t].todo = {} /\ driver'[t].done = {}
    BY <1>0, <2>0, EndEffect, AloneAtWork DEF InOrder
  <2>2. UpToDate(t)'
    BY <2>1 DEF UpToDate
  <2>3. ASSUME NEW k PROVE ~InWork(k)
    BY <1>0, <2>0, NoneInWork DEF InOrder
  <2>4. FlushedNow'
    <3>. SUFFICES ASSUME NEW r \in Runs, row'[r] = "flushed" PROVE FALSE
      BY DEF FlushedNow
    <3>1. row[r] = "flushed" /\ from[r].by # t
      BY <1>0, <1>3, TickEnds
    <3>. QED  BY <1>0, <2>1, <3>1 DEF DeskInv, RunInv, Drivers
  <2>5. \A f \in fired : Behind(f)'
    BY <1>0, <2>0, <2>3, JobFields, BehindNext
  <2>6. FiredBefore' /\ twice' = {}
    <3>1. CASE TickAbort(t)
      BY <1>0, <2>5, <3>1 DEF TickAbort, history, InOrder, FiredBefore
    <3>2. CASE TickCommit(t)
      <4>1. ASSUME NEW r \in Flushed(t)
            PROVE  /\ from[r].job \in Jobs /\ from[r].base = job[from[r].job].base
                   /\ job[from[r].job].state = "live"
                   /\ from[r].job \in driver[t].done
        BY <1>0 DEF Flushed, TypeInv, HasJob, DeskInv, RunInv, InOrder, FlushedNow
      <4>2. ASSUME NEW r \in Flushed(t) PROVE <<from[r].job, from[r].base>> \notin fired
        <5>. SUFFICES ASSUME <<from[r].job, from[r].base>> \in fired PROVE FALSE
          OBVIOUS
        <5>1. from[r].base < job[from[r].job].base
          BY <1>0, <2>3, <4>1 DEF InOrder, FiredBefore, Behind
        <5>2. from[r].base \in Int
          BY <1>0, <4>1, JobFields DEF Moments
        <5>. QED  BY <4>1, <5>1, <5>2
      <4>3. ASSUME NEW r \in Flushed(t) PROVE Behind(<<from[r].job, from[r].base>>)'
        <5>1. /\ job'[from[r].job].state = "live"
              /\ job'[from[r].job].base = driver[t].now
          BY <1>0, <2>0, <3>2, <4>1, StampedIs DEF TickCommit
        <5>2. from[r].base < driver[t].now
          BY <1>0, <4>1, MarksAreLater
        <5>3. UNCHANGED from
          BY <3>2 DEF TickCommit
        <5>. QED  BY <5>1, <5>2, <5>3 DEF Behind
      <4>4. PICK F : F = {<<from[r].job, from[r].base>> : r \in Flushed(t)}
        OBVIOUS
      <4>5. fired' = fired \cup F /\ twice' = twice \cup (fired \cap F)
        BY <3>2, <4>4 DEF TickCommit, Remember
      <4>6. (fired \cap F) = {}
        BY <4>2, <4>4
      <4>7. \A f \in F : Behind(f)'
        <5>1. UNCHANGED from
          BY <3>2 DEF TickCommit
        <5>. QED  BY <4>3, <4>4, <5>1
      <4>. QED  BY <1>0, <2>5, <4>5, <4>6, <4>7 DEF InOrder, FiredBefore
    <3>. QED  BY <1>3, <3>1, <3>2
  <2>. QED  BY <1>0, <2>1, <2>2, <2>4, <2>6, OrderNext
<1>. QED  BY <1>1, <1>2, <1>3 DEF TickStep

LEMMA SweepOnce ==
    ASSUME TypeInv, DeskInv, OnceInv, [Next]_vars, ~disturbed', TypeInv',
           NEW s \in Sweeps, SweepStep(s)
    PROVE  InOrder'
<1>0. /\ s \in Drivers /\ s \notin Ticks /\ TypeOK /\ InOrder /\ ~disturbed
      /\ driver[s].todo \subseteq Jobs /\ driver[s].done \subseteq Jobs
  BY DisturbedStays, DriverFields DEF Drivers, TypeInv, OnceInv
<1>1. CASE SweepRead(s)
  <2>1. /\ \A e \in Drivers \ {s} : driver[e].pc = "idle" /\ driver'[e] = driver[e]
        /\ driver[s].pc = "idle"
        /\ UNCHANGED <<job, row, from, fired, twice>>
    BY <1>0, <1>1, ReadEffect
  <2>2. UpToDate(s)'
    BY <1>0, <1>1, ReadEffect DEF UpToDate
  <2>3. ASSUME NEW k PROVE InWork(k) => InWork(k)'
    BY <1>0, <2>1 DEF InWork, Drivers
  <2>4. FiredBefore' /\ twice' = {}
    BY <2>1, <2>3, NothingFired, JobFields, <1>0
  <2>5. FlushedNow'
    BY <1>0, <2>1, FlushedNext
  <2>. QED  BY <1>0, <2>1, <2>2, <2>4, <2>5, OrderNext
<1>2. CASE driver[s].pc # "idle" /\ ~SweepRead(s)
  <2>0. /\ \A e \in Drivers \ {s} : driver[e].pc = "idle"
        /\ \A r \in Runs : row[r] # "flushed"
    BY <1>0, <1>2, AloneAtWork, NoneFlushed DEF InOrder
  <2>1. FlushedNow'
    BY <1>0, <2>0, SweepLeavesFlushed DEF FlushedNow
  <2>. SUFFICES /\ \A e \in Drivers \ {s} : driver'[e] = driver[e]
                /\ UpToDate(s)' /\ FiredBefore' /\ twice' = {}
    BY <1>0, <2>0, <2>1, OrderNext
  <2>2. ASSUME NEW j \in Jobs, Passing(s, j)
        PROVE  /\ \A e \in Drivers \ {s} : driver'[e] = driver[e]
               /\ UpToDate(s)' /\ FiredBefore' /\ twice' = {}
    <3>0. /\ driver[s].pc = "planned" /\ driver' = Without(s, j)
          /\ \A k \in Jobs : /\ job'[k].state = job[k].state
                             /\ k # j => job'[k].base = job[k].base
          /\ UNCHANGED <<fired, twice>>
      BY <1>0, <2>2, PassingEffect
    <3>1. /\ \A e \in Drivers \ {s} : driver'[e] = driver[e]
          /\ driver'[s].todo \subseteq driver[s].todo \ {j} /\ driver'[s].done = {}
          /\ \A k \in driver'[s].todo :
               driver'[s].seen[k] = driver[s].seen[k] /\ driver'[s].now = driver[s].now
      BY <1>0, <3>0, WithoutIs
    <3>2. UpToDate(s)'
      BY <1>0, <3>0, <3>1 DEF InOrder, UpToDate
    <3>3. ASSUME NEW k PROVE ~InWork(k)
      BY <1>0, <3>0, NoneInWork DEF InOrder
    <3>4. FiredBefore' /\ twice' = {}
      BY <1>0, <3>0, <3>3, JobFields, NothingFired
    <3>. QED  BY <3>1, <3>2, <3>4
  <2>3. ASSUME NEW j \in Jobs, SweepStart(s, j)
        PROVE  /\ \A e \in Drivers \ {s} : driver'[e] = driver[e]
               /\ UpToDate(s)' /\ FiredBefore' /\ twice' = {}
    <3>0. /\ driver[s].pc = "planned" /\ j \in driver[s].todo /\ job[j].state = "live"
          /\ job' = job /\ Remember({<<j, driver[s].seen[j]>>})
      BY <2>3 DEF SweepStart, jobVars
    <3>1. /\ \A e \in Drivers \ {s} : driver'[e] = driver[e]
          /\ driver'[s].pc = "running" /\ driver'[s].done = {j}
          /\ driver'[s].now = driver[s].now /\ driver'[s].todo = driver[s].todo
          /\ \A k \in Jobs : driver'[s].seen[k] = driver[s].seen[k]
      BY <1>0, <2>3, StartEffect
    <3>2. /\ job[j].base = driver[s].seen[j] /\ job[j].base < driver[s].now
          /\ job[j].base \in Int
      BY <1>0, <3>0, JobFields DEF InOrder, UpToDate, Moments
    <3>3. UpToDate(s)'
      BY <1>0, <3>0, <3>1, <3>2 DEF InOrder, UpToDate
    <3>4. ASSUME NEW k PROVE ~InWork(k)
      BY <1>0, <3>0, NoneInWork DEF InOrder
    <3>5. \A f \in fired : Behind(f)'
      BY <1>0, <3>0, <3>4, JobFields, BehindNext
    <3>6. <<j, driver[s].seen[j]>> \notin fired
      <4>. SUFFICES ASSUME <<j, driver[s].seen[j]>> \in fired PROVE FALSE
        OBVIOUS
      <4>1. driver[s].seen[j] < job[j].base
        BY <1>0, <3>0, <3>4 DEF InOrder, FiredBefore, Behind
      <4>. QED  BY <3>2, <4>1
    <3>7. ASSUME NEW b, b = driver[s].seen[j] PROVE Behind(<<j, b>>)'
      <4>1. InWork(j)'
        BY <3>1 DEF InWork
      <4>. QED  BY <3>0, <3>2, <3>7, <4>1 DEF Behind
    <3>8. PICK b : b = driver[s].seen[j]
      OBVIOUS
    <3>9. fired' = fired \cup {<<j, b>>} /\ twice' = twice \cup (fired \cap {<<j, b>>})
      BY <3>0, <3>8 DEF Remember
    <3>10. FiredBefore'
      BY <3>5, <3>7, <3>8, <3>9 DEF FiredBefore
    <3>11. twice' = {}
      BY <1>0, <3>6, <3>8, <3>9 DEF InOrder
    <3>. QED  BY <3>1, <3>3, <3>10, <3>11
  <2>4. CASE SweepFinish(s)
    <3>0. /\ driver[s].pc = "running" /\ UNCHANGED <<job, fired, twice>>
      BY <2>4 DEF SweepFinish, jobVars, history
    <3>1. /\ \A e \in Drivers \ {s} : driver'[e] = driver[e]
          /\ driver'[s].pc = "marking" /\ driver'[s].now = driver[s].now
          /\ driver'[s].todo = driver[s].todo /\ driver'[s].done = driver[s].done
          /\ driver'[s].seen = driver[s].seen
      BY <1>0, <2>4, FinishEffect
    <3>2. UpToDate(s)'
      BY <1>0, <3>0, <3>1 DEF InOrder, UpToDate
    <3>3. ASSUME NEW k PROVE InWork(k) => InWork(k)'
      BY <1>0, <3>1 DEF InWork, Drivers
    <3>4. FiredBefore' /\ twice' = {}
      BY <1>0, <3>0, <3>3, JobFields, NothingFired
    <3>. QED  BY <3>1, <3>2, <3>4
  <2>5. CASE SweepMark(s)
    <3>0. UNCHANGED <<fired, twice>>
      BY <1>0, <2>5, MarkEffect
    <3>1. PICK j \in Jobs : driver[s].done = {j} /\ driver' = Without(s, j)
      BY <1>0, <2>5, MarkEffect
    <3>2. \A k \in Jobs :
            /\ job'[k].state = job[k].state
            /\ k = j /\ job[k].state = "live" => job'[k].base = driver[s].now
            /\ k # j => job'[k].base = job[k].base
      BY <1>0, <2>5, <3>1, MarkEffect
    <3>3. /\ \A e \in Drivers \ {s} : driver'[e] = driver[e]
          /\ driver'[s].todo \subseteq driver[s].todo \ {j} /\ driver'[s].done = {}
          /\ \A k \in driver'[s].todo :
               driver'[s].seen[k] = driver[s].seen[k] /\ driver'[s].now = driver[s].now
      BY <1>0, <3>1, WithoutIs
    <3>4. UpToDate(s)'
      BY <1>0, <3>2, <3>3 DEF InOrder, UpToDate
    <3>5. ASSUME NEW k \in Jobs, InWork(k)
          PROVE  job'[k].state # "live" \/ job[k].base < job'[k].base
      <4>1. k = j
        <5>1. PICK u \in Sweeps : driver[u].pc \in {"running", "marking"} /\ k \in driver[u].done
          BY <3>5 DEF InWork
        <5>2. u = s
          BY <1>0, <1>2, <5>1 DEF InOrder, Alone, Drivers
        <5>. QED  BY <3>1, <5>1, <5>2
      <4>2. job[k].state = "live" => job[k].base < driver[s].now
        BY <1>0, <3>1, <4>1, MarksAreLater
      <4>. QED  BY <3>2, <4>1, <4>2
    <3>6. FiredBefore' /\ twice' = {}
      BY <1>0, <3>0, <3>2, <3>5, JobFields, NothingFired
    <3>. QED  BY <3>3, <3>4, <3>6
  <2>6. CASE SweepCrash(s)
    <3>0. /\ driver[s].pc = "planned" /\ UNCHANGED <<job, fired, twice>>
          /\ driver' = [driver EXCEPT ![s] = NoDriver]
      <4>1. driver[s].pc \notin {"running", "marking"}
        BY <2>6 DEF SweepCrash
      <4>2. driver[s].pc \in {"planned"}
        BY <1>0, <1>2, <4>1, DriverFields DEF DriverType, DeskInv, DriverInv
      <4>. QED  BY <2>6, <4>2 DEF SweepCrash, jobVars
    <3>1. /\ \A e \in Drivers \ {s} : driver'[e] = driver[e]
          /\ driver'[s].todo = {} /\ driver'[s].done = {}
      BY <1>0, <3>0, EndEffect
    <3>2. UpToDate(s)'
      BY <3>1 DEF UpToDate
    <3>3. ASSUME NEW k PROVE ~InWork(k)
      BY <1>0, <3>0, NoneInWork DEF InOrder
    <3>4. FiredBefore' /\ twice' = {}
      BY <1>0, <3>0, <3>3, JobFields, NothingFired
    <3>. QED  BY <3>1, <3>2, <3>4
  <2>. QED  BY <1>2, <2>2, <2>3, <2>4, <2>5, <2>6 DEF SweepStep, Passing
<1>. QED  BY <1>1, <1>2 DEF SweepStep, SweepSkip, SweepPass, SweepRefused, SweepStart,
                            SweepFinish, SweepMark, SweepCrash

LEMMA OnceStep ==
    ASSUME TypeInv, DeskInv, OnceInv, [Next]_vars, TypeInv'
    PROVE  OnceInv'
<1>. SUFFICES ASSUME ~disturbed' PROVE InOrder'
  BY DEF OnceInv
<1>0. /\ TypeOK /\ InOrder /\ ~disturbed
      /\ \A d \in Drivers : driver[d].todo \subseteq Jobs /\ driver[d].done \subseteq Jobs
  BY DisturbedStays, DriverFields DEF TypeInv, OnceInv
<1>1. ASSUME NEW r \in Runs, RunStep(r) PROVE InOrder'
  <2>1. UNCHANGED <<job, driver, fired, twice>>
    BY <1>0, <1>1, WorkEffect
  <2>2. FlushedNow'
    BY <1>0, <1>1, <2>1, WorkEffect, FlushedNext
  <2>3. FiredBefore' /\ twice' = {}
    BY <1>0, <2>1 DEF InOrder, FiredBefore, Behind, InWork
  <2>4. Alone' /\ \A d \in Drivers : UpToDate(d)'
    BY <1>0, <2>1 DEF InOrder, Alone, UpToDate
  <2>. QED  BY <2>2, <2>3, <2>4 DEF InOrder
<1>2. ASSUME NEW j \in Jobs, Create(j) \/ Update(j) \/ Delete(j) PROVE InOrder'
  <2>0. /\ UNCHANGED <<row, from, driver, fired, twice>>
        /\ \A k \in Jobs \ {j} : job'[k] = job[k]
        /\ job'[j].state # "unborn"
        /\ \/ job[j].state = "unborn"
           \/ job[j].state = "live" /\ job'[j].state = "live" /\ job'[j].base = job[j].base
           \/ /\ job[j].state = "live" /\ job'[j].state = "gone"
              /\ \A r \in Runs : row[r] = "flushed" => from[r].job # j
    BY <1>0, <1>2, EditEffect
  <2>1. FlushedNow'
    BY <1>0, <2>0 DEF TypeInv, HasJob, DeskInv, RunInv, InOrder, FlushedNow
  <2>2. ASSUME NEW k PROVE InWork(k) => InWork(k)'
    BY <2>0 DEF InWork
  <2>3. FiredBefore' /\ twice' = {}
    BY <1>0, <2>0, <2>2, JobFields, NothingFired
  <2>4. ASSUME NEW d \in Drivers PROVE UpToDate(d)'
    BY <1>0, <2>0 DEF DeskInv, DriverInv, InOrder, UpToDate
  <2>5. Alone'
    BY <1>0, <2>0 DEF InOrder, Alone
  <2>. QED  BY <2>1, <2>3, <2>4, <2>5 DEF InOrder
<1>3. CASE Minute \/ UNCHANGED vars
  <2>1. UNCHANGED <<job, row, from, driver, fired, twice>>
    BY <1>3 DEF Minute, vars, jobVars, runVars, history
  <2>. QED  BY <1>0, <2>1 DEF InOrder, Alone, FlushedNow, FiredBefore, Behind, InWork, UpToDate
<1>. QED  BY <1>1, <1>2, <1>3, TickOnce, SweepOnce DEF Next

LEMMA OnceInit == Init => OnceInv
<1>. SUFFICES ASSUME Init PROVE InOrder
  BY DEF OnceInv
<1>1. ASSUME NEW d \in Drivers
      PROVE  driver[d].pc = "idle" /\ driver[d].todo = {} /\ driver[d].done = {}
  BY DEF Init, NoDriver
<1>2. /\ \A r \in Runs : row[r] = "none"
      /\ fired = {} /\ twice = {}
  BY DEF Init
<1>. QED  BY <1>1, <1>2 DEF InOrder, Alone, FlushedNow, FiredBefore, UpToDate

LEMMA DueInv == Spec => [](TypeInv /\ DeskInv /\ OnceInv)
<1>1. TypeInv /\ DeskInv /\ OnceInv /\ [Next]_vars => (TypeInv /\ DeskInv /\ OnceInv)'
  BY TypeStep, DeskStep, OnceStep
<1>. QED  BY <1>1, TypeInit, DeskInit, OnceInit, PTL DEF Spec

\* A due moment is fired at most once, as long as no two drivers overlapped and no
\* sweep died between starting a tool and marking its job.
THEOREM OnceTheorem == Spec => []OncePerDue
<1>1. OnceInv => OncePerDue
  BY DEF OnceInv, InOrder, OncePerDue
<1>. QED  BY <1>1, DueInv, PTL

\* Under the same condition, the moment a job counts from never moves back.
THEOREM BaseForwardTheorem == Spec => BaseForward
<1>1. TypeInv /\ DeskInv /\ OnceInv /\ [Next]_vars
        => [disturbed' \/ \A j \in Jobs : job'[j].state = "live" => job'[j].base >= job[j].base]_vars
  BY ForwardStep
<1>. QED  BY <1>1, DueInv, PTL DEF Spec, BaseForward

-----------------------------------------------------------------------------
(* Messages *)

LEMMA PendingStep == TypeInv /\ PendingInv /\ [Next]_vars => PendingInv'
<1>. SUFFICES ASSUME TypeInv, PendingInv, [Next]_vars,
                     NEW q \in Runs, row'[q] \in {"flushed", "queued"},
                     from'[q].job \in Linked, ~early', ~lost'
              PROVE  msg'[q] # "none"
  BY DEF PendingInv
<1>0. /\ row \in [Runs -> {"none", "flushed", "queued", "running"}]
      /\ from \in [Runs -> FiringType] /\ msg \in [Runs -> {"none", "sent", "held"}]
      /\ TypeOK
  BY TypesKept
\* A run that was waiting before the step, and whose message is still there.
<1>1. ASSUME ~early, ~lost, row[q] \in {"flushed", "queued"}, from'[q].job = from[q].job,
             msg'[q] = msg[q]
      PROVE  msg'[q] # "none"
  BY <1>1 DEF PendingInv
<1>2. ASSUME NEW t \in Ticks, TickStep(t) PROVE msg'[q] # "none"
  <2>1. ~early /\ ~lost
    <3>1. UNCHANGED <<early, lost>>
      BY <1>2 DEF TickStep, TickRead, TickFire, TickPass, TickCommit, TickAbort, history
    <3>. QED  BY <3>1, Zenon
  <2>2. CASE TickRead(t) \/ \E j \in Jobs : TickPass(t, j)
    BY <1>1, <2>1, <2>2 DEF TickRead, TickPass, runVars
  <2>3. ASSUME NEW j \in Jobs, TickFire(t, j) PROVE msg'[q] # "none"
    BY <1>0, <1>1, <2>1, <2>3, FreshIs DEF TickFire
  <2>4. CASE TickCommit(t)
    BY <1>1, <2>1, <2>4 DEF TickCommit, Flushed
  <2>5. CASE TickAbort(t)
    BY <1>1, <2>1, <2>5 DEF TickAbort, Drop
  <2>. QED  BY <1>2, <2>2, <2>3, <2>4, <2>5 DEF TickStep
<1>3. ASSUME NEW s \in Sweeps, SweepStep(s) PROVE msg'[q] # "none"
  <2>1. ~early /\ ~lost /\ msg' = msg
    <3>1. UNCHANGED <<early, lost, msg>>
      BY <1>3 DEF SweepStep, SweepRead, SweepSkip, SweepPass, SweepRefused, SweepStart,
                  SweepFinish, SweepMark, SweepCrash, runVars, history
    <3>. QED  BY <3>1, Zenon
  <2>2. CASE SweepRead(s) \/ SweepMark(s) \/ \E j \in Jobs : Passing(s, j)
    BY <1>1, <2>1, <2>2 DEF SweepRead, SweepMark, Passing, SweepSkip, SweepPass, SweepRefused, runVars
  <2>3. ASSUME NEW j \in Jobs, SweepStart(s, j) PROVE msg'[q] # "none"
    BY <1>0, <1>1, <2>1, <2>3, FreshIs DEF SweepStart
  <2>4. CASE SweepFinish(s)
    BY <1>1, <2>1, <2>4 DEF SweepFinish, Drop
  <2>5. CASE SweepCrash(s)
    BY <1>0, <1>1, <2>1, <2>5 DEF SweepCrash, FiringType
  <2>. QED  BY <1>3, <2>2, <2>3, <2>4, <2>5 DEF SweepStep, Passing
<1>4. ASSUME NEW r \in Runs, RunStep(r) PROVE msg'[q] # "none"
  <2>1. CASE Deliver(r)
    <3>1. UNCHANGED <<row, from>> /\ ~early /\ ~lost
      BY <2>1 DEF Deliver
    <3>2. CASE q = r
      BY <1>0, <2>1, <3>1, <3>2 DEF Deliver, Visible
    <3>3. CASE q # r
      BY <1>0, <1>1, <2>1, <3>1, <3>3 DEF Deliver
    <3>. QED  BY <3>2, <3>3
  <2>2. CASE StartRun(r)
    BY <1>0, <1>1, <2>2 DEF StartRun, history
  <2>3. CASE FinishRun(r)
    BY <1>0, <1>1, <2>3 DEF FinishRun, Drop, history
  <2>4. CASE CrashRun(r)
    BY <2>4 DEF CrashRun
  <2>. QED  BY <1>4, <2>1, <2>2, <2>3, <2>4 DEF RunStep
<1>5. CASE Minute \/ (\E j \in Jobs : Create(j) \/ Update(j) \/ Delete(j)) \/ UNCHANGED vars
  BY <1>1, <1>5 DEF Minute, Create, Update, Delete, vars, runVars, history
<1>. QED  BY <1>2, <1>3, <1>4, <1>5 DEF Next

\* A run that the users see as queued is on its way to a worker, unless a message
\* overtook its row's commit or a worker failed.
THEOREM PendingTheorem == Spec => []QueuedIsPending
<1>1. Init => PendingInv
  BY DEF Init, PendingInv
<1>2. PendingInv => QueuedIsPending
  BY DEF PendingInv, QueuedIsPending
<1>. QED  BY <1>1, <1>2, TypeInit, TypeStep, PendingStep, PTL DEF Spec
=============================================================================
