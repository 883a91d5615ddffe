---------------------------- MODULE Automations ----------------------------
(***************************************************************************)
(* The users' scheduled automations.  Two kinds of driver look for jobs    *)
(* that are due: Celery's automations.tick, which records all its firings  *)
(* in one transaction and hands the tool runs to the broker, and the       *)
(* worker-free sweep, which runs each tool inline in a transaction of its  *)
(* own.  Both may run at once, a sweep may overlap its own retry, and the  *)
(* users edit their jobs meanwhile.                                        *)
(*                                                                         *)
(* Time is the number of minutes the deployment has been up.  A cron       *)
(* expression is a period; 0 stands for a job that is disabled or whose    *)
(* expression croniter.is_valid refuses, Never for one it accepts although *)
(* no date matches it (30 February): get_next raises.  A job is wired if   *)
(* its kind has a tool.  next_run_at is written by every driver and read   *)
(* only by the UI: left out.                                               *)
(***************************************************************************)
EXTENDS Integers, FiniteSets

CONSTANTS
    Jobs,        \* job ids; a deleted one is never used again
    Ticks,       \* concurrent executions of automations.tick
    Sweeps,      \* concurrent executions of sweep_automations
    Runs,        \* ids of tool runs that are not finished
    Horizon,     \* bound: minutes
    SweepLimit,  \* jobs one sweep looks at (50)
    Settings,    \* Settings[j]: what its owner chooses from, cron and kind
    Linked,      \* jobs whose owner has a usable Spotify link
    MaxEdits,    \* bound: edits by the users
    MaxFaults    \* bound: processes, transactions and token refreshes that fail

Never == -1
Moments == 0..Horizon
Drivers == Ticks \cup Sweeps

ASSUME ConstantsAssumption ==
    /\ Horizon \in Nat /\ SweepLimit \in Nat /\ MaxEdits \in Nat /\ MaxFaults \in Nat
    /\ Settings \in [Jobs -> SUBSET [cron : Nat \cup {Never}, wired : BOOLEAN]]
    /\ Linked \subseteq Jobs
    /\ Ticks \cap Sweeps = {}

VARIABLES
    clock,
    job,        \* automation_jobs; base is last_run_at, or created_at before it
    row,        \* row[r]: the tool_runs row, absent when finished or rolled back
    from,       \* from[r]: the driver, the job and the base it was fired for
    msg,        \* msg[r]: the run's message at the broker
    driver,     \* driver[d]: its moment, the due jobs left, the one in work
    fired,      \* history: <<job, base>> of every committed firing
    twice,      \* history: those fired more than once
    disturbed,  \* history: drivers overlapped, or a sweep died before marking
    early,      \* history: a message overtook the commit of its row
    lost,       \* history: a worker failed
    edits, faults

jobVars == <<job, edits>>
runVars == <<row, from, msg>>
history == <<fired, twice, disturbed, early, lost>>
vars == <<clock, jobVars, runVars, driver, history, faults>>

Planned(pc, due, doomed) ==
    [pc |-> pc, now |-> clock, todo |-> due, done |-> {}, doomed |-> doomed,
     seen |-> [j \in Jobs |-> IF j \in due THEN job[j].base ELSE 0]]
NoDriver == [pc |-> "idle", now |-> 0, todo |-> {}, done |-> {}, doomed |-> FALSE,
             seen |-> [j \in Jobs |-> 0]]
NoJob == [state |-> "unborn", cron |-> 0, wired |-> FALSE, base |-> 0]
NewJob(s) == [state |-> "live", cron |-> s.cron, wired |-> s.wired, base |-> clock]
NoFiring == [by |-> "nobody", job |-> "nothing", base |-> 0]

-----------------------------------------------------------------------------
(* Which jobs are due *)

Enabled == {j \in Jobs : job[j].state = "live" /\ job[j].cron # 0}

\* The cron's next moment after base has come.
Due(cron, base, now) == cron > 0 /\ \E t \in base + 1 .. now : t % cron = 0

DueNow(j) == Due(job[j].cron, job[j].base, clock)

\* Does starting d make it overlap another driver?
Overlaps(d) == \E e \in Drivers \ {d} : driver[e].pc # "idle"

Remember(F) ==
    /\ fired' = fired \cup F
    /\ twice' = twice \cup (fired \cap F)

\* Nobody will ever write the row again: it stays in the table as it is.
Stuck(r) ==
    /\ row[r] \in {"queued", "running"} /\ msg[r] = "none"
    /\ from[r].by \notin Sweeps

\* An id without row and message stands for any fresh one, and so does a stuck
\* one if there is no other: its row leaves the model.
Free ==
    LET unused == {r \in Runs : row[r] = "none" /\ msg[r] = "none"}
    IN  IF unused # {} THEN unused ELSE {r \in Runs : Stuck(r)}
FreshRun == CHOOSE r \in Free : TRUE

Fault == faults < MaxFaults /\ faults' = faults + 1

-----------------------------------------------------------------------------
(* automations_tick *)

TickRead(t) ==
    LET due == {j \in Enabled : DueNow(j)}
    IN  /\ driver[t].pc = "idle" /\ due # {}
        /\ driver' = [driver EXCEPT ![t] =
             Planned("firing", due, \E j \in Enabled : job[j].cron = Never)]
        /\ disturbed' = (disturbed \/ Overlaps(t))
        /\ UNCHANGED <<clock, jobVars, runVars, fired, twice, early, lost, faults>>

Handled(t, j) ==
    [driver EXCEPT ![t].todo = @ \ {j}, ![t].done = @ \cup {j}, ![t].seen[j] = 0]

\* Mutant: the run is stored and not sent.
TickFire_unsent(t, j) ==
    /\ driver[t].pc = "firing" /\ j \in driver[t].todo
    /\ job[j].state = "live" /\ job[j].wired
    /\ Free # {}
    /\ row' = [row EXCEPT ![FreshRun] = "flushed"]
    /\ from' = [from EXCEPT ![FreshRun] = [by |-> t, job |-> j, base |-> driver[t].seen[j]]]
    /\ driver' = Handled(t, j)
    /\ UNCHANGED <<clock, jobVars, msg, history, faults>>

\* Insert and flush the run, and send it to the broker at once.
TickFire(t, j) ==
    /\ driver[t].pc = "firing" /\ j \in driver[t].todo
    /\ job[j].state = "live" /\ job[j].wired
    /\ Free # {}
    /\ row' = [row EXCEPT ![FreshRun] = "flushed"]
    /\ from' = [from EXCEPT ![FreshRun] = [by |-> t, job |-> j, base |-> driver[t].seen[j]]]
    /\ msg' = [msg EXCEPT ![FreshRun] = "sent"]
    /\ driver' = Handled(t, j)
    /\ UNCHANGED <<clock, jobVars, history, faults>>

\* Mutant: a kind without a tool is not marked, and looked at again every minute.
TickPass_unmarked(t, j) ==
    /\ driver[t].pc = "firing" /\ j \in driver[t].todo
    /\ job[j].state = "live" /\ ~job[j].wired
    /\ driver' = [driver EXCEPT ![t].todo = @ \ {j}, ![t].seen[j] = 0]
    /\ UNCHANGED <<clock, jobVars, runVars, history, faults>>

\* No tool for this kind yet: last_run_at is all that is written.
TickPass(t, j) ==
    /\ driver[t].pc = "firing" /\ j \in driver[t].todo
    /\ job[j].state = "live" /\ ~job[j].wired
    /\ driver' = Handled(t, j)
    /\ UNCHANGED <<clock, jobVars, runVars, history, faults>>

\* The rows R are gone, or final, and nobody writes them any more.
Drop(R) ==
    /\ row' = [r \in Runs |-> IF r \in R THEN "none" ELSE row[r]]
    /\ from' = [r \in Runs |-> IF r \in R THEN NoFiring ELSE from[r]]

Flushed(t) == {r \in Runs : row[r] = "flushed" /\ from[r].by = t}

\* Mutant: the minute after is recorded.
Stamped_next(J, now) ==
    [j \in Jobs |-> IF j \in J /\ job[j].state = "live"
                    THEN [job[j] EXCEPT !.base = now + 1] ELSE job[j]]

\* Mutant: last_run_at is not written.
Stamped_never(J, now) == job

\* Mutant: last_run_at is cleared instead of written.
Stamped_cleared(J, now) ==
    [j \in Jobs |-> IF j \in J /\ job[j].state = "live"
                    THEN [job[j] EXCEPT !.base = 0] ELSE job[j]]

\* last_run_at of the jobs J; a job deleted meanwhile matches no row.
Stamped(J, now) ==
    [j \in Jobs |-> IF j \in J /\ job[j].state = "live"
                    THEN [job[j] EXCEPT !.base = now] ELSE job[j]]

TickCommit(t) ==
    LET mine == Flushed(t)
    IN  /\ driver[t].pc = "firing" /\ driver[t].todo = {} /\ ~driver[t].doomed
        /\ row' = [r \in Runs |-> IF r \in mine THEN "queued" ELSE row[r]]
        /\ job' = Stamped(driver[t].done, driver[t].now)
        /\ Remember({<<from[r].job, from[r].base>> : r \in mine})
        /\ driver' = [driver EXCEPT ![t] = NoDriver]
        /\ UNCHANGED <<clock, from, msg, disturbed, early, lost, edits, faults>>

\* A cron that matches no date, a job deleted meanwhile or a fault: the whole
\* tick is rolled back, but what was sent stays sent.
TickAbort(t) ==
    /\ driver[t].pc = "firing"
    /\ \/ driver[t].doomed /\ UNCHANGED faults
       \/ (\E j \in driver[t].todo : job[j].state = "gone") /\ UNCHANGED faults
       \/ Fault
    /\ Drop(Flushed(t))
    /\ driver' = [driver EXCEPT ![t] = NoDriver]
    /\ UNCHANGED <<clock, jobVars, msg, history>>

-----------------------------------------------------------------------------
(* sweep_automations *)

\* Plan; a sweep that looks at a cron without dates fails before it fires.  Jobs
\* whose cron is_valid refuses may take places of the limit.
SweepRead(s) ==
    /\ driver[s].pc = "idle"
    /\ \E S \in SUBSET Enabled :
         LET due == {j \in S : DueNow(j)}
         IN  /\ Cardinality(S) <= SweepLimit
             /\ \A j \in S : job[j].cron # Never
             /\ due # {}
             /\ driver' = [driver EXCEPT ![s] = Planned("planned", due, FALSE)]
    /\ disturbed' = (disturbed \/ Overlaps(s))
    /\ UNCHANGED <<clock, jobVars, runVars, fired, twice, early, lost, faults>>

\* The sweep is done with the job in work; after the last one it ends.
Without(s, j) ==
    LET d == driver[s]
    IN  [driver EXCEPT ![s] = IF d.todo = {j} THEN NoDriver
                              ELSE [d EXCEPT !.pc = "planned", !.todo = d.todo \ {j},
                                             !.done = {}, !.seen[j] = 0]]

\* No usable link, or a job that is gone: passed over, and not marked.
SweepSkip(s, j) ==
    /\ driver[s].pc = "planned" /\ j \in driver[s].todo
    /\ job[j].state = "gone" \/ (j \notin Linked /\ job[j].wired)
    /\ driver' = Without(s, j)
    /\ UNCHANGED <<clock, jobVars, runVars, history, faults>>

\* A kind without a tool: marked, whoever owns it.
SweepPass(s, j) ==
    /\ driver[s].pc = "planned" /\ j \in driver[s].todo
    /\ job[j].state = "live" /\ ~job[j].wired
    /\ driver' = Without(s, j)
    /\ job' = Stamped({j}, driver[s].now)
    /\ UNCHANGED <<clock, edits, runVars, history, faults>>

\* The refresh of the token raises: nothing runs, but the job is marked.
SweepRefused(s, j) ==
    /\ driver[s].pc = "planned" /\ j \in driver[s].todo
    /\ j \in Linked /\ job[j].wired
    /\ Fault
    /\ driver' = Without(s, j)
    /\ job' = Stamped({j}, driver[s].now)
    /\ UNCHANGED <<clock, edits, runVars, history>>

\* The run is inserted and committed as running; the tool starts.
SweepStart(s, j) ==
    /\ driver[s].pc = "planned" /\ j \in driver[s].todo
    /\ j \in Linked /\ job[j].state = "live" /\ job[j].wired
    /\ Free # {}
    /\ row' = [row EXCEPT ![FreshRun] = "running"]
    /\ from' = [from EXCEPT ![FreshRun] = [by |-> s, job |-> j, base |-> driver[s].seen[j]]]
    /\ Remember({<<j, driver[s].seen[j]>>})
    /\ driver' = [driver EXCEPT ![s].pc = "running", ![s].done = {j}]
    /\ UNCHANGED <<clock, jobVars, msg, disturbed, early, lost, faults>>

\* The run the sweep is executing.
Own(s) == {r \in Runs : row[r] = "running" /\ from[r].by = s}

\* The tool has ended, well or not, and its outcome is committed.
SweepFinish(s) ==
    /\ driver[s].pc = "running"
    /\ Drop(Own(s))
    /\ driver' = [driver EXCEPT ![s].pc = "marking"]
    /\ UNCHANGED <<clock, jobVars, msg, history, faults>>

SweepMark(s) ==
    /\ driver[s].pc = "marking"
    /\ \E j \in driver[s].done : driver' = Without(s, j)
    /\ job' = Stamped(driver[s].done, driver[s].now)
    /\ UNCHANGED <<clock, edits, runVars, history, faults>>

\* The server dies, or the request is cut off.  The run it was executing stays
\* `running', and its job unmarked.
SweepCrash(s) ==
    /\ driver[s].pc # "idle"
    /\ Fault
    /\ driver' = [driver EXCEPT ![s] = NoDriver]
    /\ from' = [r \in Runs |-> IF r \in Own(s) THEN [from[r] EXCEPT !.by = "nobody"] ELSE from[r]]
    /\ disturbed' = (disturbed \/ driver[s].pc \in {"running", "marking"})
    /\ UNCHANGED <<clock, jobVars, row, msg, fired, twice, early, lost>>

-----------------------------------------------------------------------------
(* run_tool_task *)

Visible(r) == row[r] \in {"queued", "running"}

\* A worker looks for the run's owner and, if there is a usable link, goes on.
\* The message of a row that is not there, or of an owner without a link, is
\* dropped.
Deliver(r) ==
    /\ msg[r] = "sent"
    /\ msg' = [msg EXCEPT ![r] = IF Visible(r) /\ from[r].job \in Linked THEN "held" ELSE "none"]
    /\ early' = (early \/ row[r] = "flushed")
    /\ UNCHANGED <<clock, jobVars, row, from, driver, fired, twice, disturbed, lost, faults>>

StartRun(r) ==
    /\ msg[r] = "held" /\ row[r] = "queued"
    /\ row' = [row EXCEPT ![r] = "running"]
    /\ UNCHANGED <<clock, jobVars, from, msg, driver, history, faults>>

\* Ended, well or not: the row is final and the message acknowledged.
FinishRun(r) ==
    /\ msg[r] = "held" /\ row[r] = "running"
    /\ Drop({r})
    /\ msg' = [msg EXCEPT ![r] = "none"]
    /\ UNCHANGED <<clock, jobVars, driver, history, faults>>

\* The worker dies: the message is redelivered, or was acknowledged with the
\* loss of the child process; or it raises before the run starts, as it does
\* when the token cannot be refreshed.
CrashRun(r) ==
    /\ msg[r] = "held"
    /\ Fault
    /\ \E m \in {"sent", "none"} : msg' = [msg EXCEPT ![r] = m]
    /\ lost' = TRUE
    /\ UNCHANGED <<clock, jobVars, row, from, driver, fired, twice, disturbed, early>>

-----------------------------------------------------------------------------
(* The users, and time *)

MayEdit == edits < MaxEdits /\ edits' = edits + 1

Create(j) ==
    /\ MayEdit /\ job[j].state = "unborn"
    /\ \E s \in Settings[j] : job' = [job EXCEPT ![j] = NewJob(s)]
    /\ UNCHANGED <<clock, runVars, driver, history, faults>>

Update(j) ==
    /\ MayEdit /\ job[j].state = "live"
    /\ \E s \in Settings[j] : job' = [job EXCEPT ![j] = [NewJob(s) EXCEPT !.base = job[j].base]]
    /\ UNCHANGED <<clock, runVars, driver, history, faults>>

\* Waits for the transactions whose new runs refer to the job.
Delete(j) ==
    /\ MayEdit /\ job[j].state = "live"
    /\ \A r \in Runs : row[r] = "flushed" => from[r].job # j
    /\ job' = [job EXCEPT ![j] = [NoJob EXCEPT !.state = "gone"]]
    /\ UNCHANGED <<clock, runVars, driver, history, faults>>

Minute ==
    /\ clock < Horizon
    /\ clock' = clock + 1
    /\ UNCHANGED <<jobVars, runVars, driver, history, faults>>

-----------------------------------------------------------------------------
Init ==
    /\ clock = 0
    /\ \E choice \in [Jobs -> {NoJob} \cup UNION {{NewJob(s) : s \in Settings[k]} : k \in Jobs}] :
         /\ \A j \in Jobs : choice[j] \in {NoJob} \cup {NewJob(s) : s \in Settings[j]}
         /\ job = choice
    /\ row = [r \in Runs |-> "none"]
    /\ from = [r \in Runs |-> NoFiring]
    /\ msg = [r \in Runs |-> "none"]
    /\ driver = [d \in Drivers |-> NoDriver]
    /\ fired = {} /\ twice = {}
    /\ disturbed = FALSE /\ early = FALSE /\ lost = FALSE
    /\ edits = 0 /\ faults = 0

TickStep(t) ==
    TickRead(t) \/ TickCommit(t) \/ TickAbort(t) \/ \E j \in Jobs : TickFire(t, j) \/ TickPass(t, j)

SweepStep(s) ==
    \/ SweepRead(s) \/ SweepFinish(s) \/ SweepMark(s) \/ SweepCrash(s)
    \/ \E j \in Jobs : \/ SweepSkip(s, j) \/ SweepPass(s, j)
                      \/ SweepRefused(s, j) \/ SweepStart(s, j)

RunStep(r) == Deliver(r) \/ StartRun(r) \/ FinishRun(r) \/ CrashRun(r)

Next ==
    \/ \E t \in Ticks : TickStep(t)
    \/ \E s \in Sweeps : SweepStep(s)
    \/ \E r \in Runs : RunStep(r)
    \/ \E j \in Jobs : Create(j) \/ Update(j) \/ Delete(j)
    \/ Minute

Spec == Init /\ [][Next]_vars

\* Beat sends the tick every minute; whatever has started goes on, and workers
\* take what the broker holds.  Nothing is assumed of the scheduler's sweeps
\* starting, of the users or of the clock.
Fairness ==
    /\ \A t \in Ticks : WF_vars(TickRead(t)) /\ WF_vars(TickCommit(t))
                         /\ WF_vars(TickAbort(t) /\ faults' = faults)
                         /\ WF_vars(\E j \in Jobs : TickFire(t, j) \/ TickPass(t, j))
    /\ \A s \in Sweeps : WF_vars(SweepFinish(s)) /\ WF_vars(SweepMark(s))
         /\ WF_vars(\E j \in Jobs : SweepSkip(s, j) \/ SweepPass(s, j) \/ SweepStart(s, j))
    /\ \A r \in Runs : WF_vars(Deliver(r)) /\ WF_vars(StartRun(r)) /\ WF_vars(FinishRun(r))

FairSpec == Spec /\ Fairness

-----------------------------------------------------------------------------
(* Properties *)

\* Jobs, runs, messages and drivers keep their types.
TypeOK ==
    /\ clock \in Moments
    /\ job \in [Jobs -> [state : {"unborn", "live", "gone"}, wired : BOOLEAN,
                         cron : Nat \cup {Never}, base : Moments]]
    /\ row \in [Runs -> {"none", "flushed", "queued", "running"}]
    /\ from \in [Runs -> [by : Drivers \cup {"nobody"}, job : Jobs \cup {"nothing"},
                          base : Moments]]
    /\ msg \in [Runs -> {"none", "sent", "held"}]
    /\ driver \in [Drivers -> [pc : {"idle", "firing", "planned", "running", "marking"},
                               now : Moments, todo : SUBSET Jobs, done : SUBSET Jobs,
                               doomed : BOOLEAN, seen : [Jobs -> Moments]]]
    /\ fired \subseteq Jobs \X Moments /\ twice \subseteq fired
    /\ disturbed \in BOOLEAN /\ early \in BOOLEAN /\ lost \in BOOLEAN
    /\ edits \in 0..MaxEdits /\ faults \in 0..MaxFaults

\* A due moment is fired at most once, whatever the edits, the failing refreshes, the
\* ticks rolled back and the messages lost, as long as no two drivers overlapped
\* and no sweep died between starting a tool and marking its job.
OncePerDue == disturbed \/ twice = {}

\* The moment a job counts from never moves back, under the same condition.  (A
\* slow sweep marks with the moment it began, after a tick has marked a later.)
BaseForward ==
    [][disturbed' \/ \A j \in Jobs : job'[j].state = "live" => job'[j].base >= job[j].base]_vars

\* A run the users see as queued is on its way to a worker, if its owner is
\* linked, unless a message overtook its row's commit or its worker failed.
QueuedIsPending ==
    \A r \in Runs :
        (row[r] = "queued" /\ from[r].job \in Linked /\ ~early /\ ~lost)
            => msg[r] # "none"

\* Every job that is due is handled, as long as no enabled job's cron is one that
\* croniter accepts and cannot resolve: one such job stops everybody's.
EveryDueHandled ==
    \A j \in Jobs :
        (j \in Enabled /\ DueNow(j))
            ~> \/ j \notin Enabled \/ ~DueNow(j)
               \/ \E k \in Enabled : job[k].cron = Never
=============================================================================
