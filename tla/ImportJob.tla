----------------------------- MODULE ImportJob -----------------------------
(***************************************************************************)
(* One uploaded export on its way into the ledger: the upload, the message *)
(* to the workers, and run_import with its batches, its commits and its    *)
(* counters.                                                               *)
(*                                                                         *)
(* The broker delivers a message again when its worker dies and also when  *)
(* it is not acknowledged within the visibility timeout, which is shorter  *)
(* than a long import may last: two workers may then run one job.  A       *)
(* worker counts in its session's copy of the job, which it never reads    *)
(* again; a commit writes the columns it has changed since the last one.   *)
(***************************************************************************)
EXTENDS Integers, Sequences, FiniteSets

CONSTANTS
    Workers,
    Entries,          \* what a file may list
    Exports,          \* exports: each a sequence of files, each one of entries
    Prior,            \* Prior[k]: rows of the ledger under key k beforehand
    NoUri,            \* an account-data entry names no track
    BATCH,
    MaxRedeliveries,  \* bound: deliveries after the first one
    MaxFaults         \* bound: errors of the database, time limits, lost sends

\* An entry is a play, or is skipped by _normalise, or makes it raise.
Keys == DOMAIN Prior
Key(e) == <<e.at, e.uri>>
Plays == {e \in Entries : e.kind = "play"}

ASSUME ImportAssumption ==
    /\ BATCH \in Nat \ {0} /\ MaxRedeliveries \in Nat /\ MaxFaults \in Nat
    /\ Prior \in [Keys -> Nat]
    /\ \A k \in Keys : k[2] # NoUri => Prior[k] <= 1
    /\ \A e \in Entries : e.kind \in {"skip", "bad"} \/ (e.kind = "play" /\ Key(e) \in Keys)
    /\ Exports \subseteq Seq(Seq(Entries))

VARIABLES
    export,       \* the uploaded file
    job,          \* the committed row of import_jobs
    rows,         \* rows[k]: rows of this listener in the ledger under key k
    messages,     \* copies of the job's message waiting for a worker
    work,         \* work[w]: an execution of run_import
    added,        \* history: rows this job has committed
    deliveries,   \* history: executions begun
    overlapped,   \* history: two executions at once
    faults        \* history: errors, time limits, lost sends

vars == <<export, job, rows, messages, work, added, deliveries, overlapped, faults>>

NewJob == [status |-> "none", files |-> 0, total |-> 0,
           inserted |-> 0, duplicate |-> 0, invalid |-> 0]
Idle == [pc |-> "idle", file |-> 1, at |-> 0, batch |-> <<>>,
         mine |-> NewJob, base |-> NewJob]

Init ==
    /\ export \in Exports /\ job = NewJob /\ rows = Prior /\ messages = 0
    /\ work = [w \in Workers |-> Idle]
    /\ added = 0 /\ deliveries = 0 /\ overlapped = FALSE /\ faults = 0

-----------------------------------------------------------------------------
(* api/v1/imports.py *)

\* The file is stored, the row committed, and only then the message sent:
\* if the process dies in between, or the broker refuses, there is a job
\* nobody was told of.
Upload ==
    /\ job.status = "none"
    /\ job' = [NewJob EXCEPT !.status = "queued"]
    /\ \/ messages' = 1 /\ UNCHANGED faults
       \/ /\ faults < MaxFaults
          /\ faults' = faults + 1 /\ UNCHANGED messages
    /\ UNCHANGED <<export, rows, work, added, deliveries, overlapped>>

-----------------------------------------------------------------------------
(* ingest/json_importer.py, workers/tasks/imports.py *)

\* The task reads the job and says so; nothing tells it that the job has run
\* before, and nothing sets its counters back.
Start(w) ==
    /\ messages > 0 /\ work[w].pc = "idle"
    /\ messages' = messages - 1
    /\ deliveries' = deliveries + 1
    /\ overlapped' = (overlapped \/ \E o \in Workers : work[o].pc # "idle")
    /\ LET mine == [job EXCEPT !.status = "running"]
       IN  /\ job' = mine
           /\ work' = [work EXCEPT ![w] = 
               [Idle EXCEPT !.pc = "run", !.mine = mine, !.base = mine]]
    /\ UNCHANGED <<export, rows, added, faults>>

\* How often key k is in the batch.
Copies(batch, k) == Cardinality({i \in DOMAIN batch : Key(batch[i]) = k})

\* INSERT ... ON CONFLICT DO NOTHING of a batch: a NULL uri never conflicts, and
\* another key is there once if it was there or is in the batch.
Stored(table, batch) ==
    [k \in Keys |-> IF k[2] = NoUri THEN table[k] + Copies(batch, k)
                    ELSE IF table[k] = 0 /\ Copies(batch, k) > 0 THEN 1 ELSE table[k]]

\* inserted_count: the rows the statement returned.
Written(table, batch) ==
    Cardinality({i \in DOMAIN batch :
        \/ batch[i].uri = NoUri
        \/ table[Key(batch[i])] = 0 /\ \A n \in 1..i - 1 : Key(batch[n]) # Key(batch[i])})

Counted_allNew(mine, batch) == [mine EXCEPT !.inserted = @ + Len(batch)]

\* The session's job after a flush of batch b.
Counted(mine, batch) ==
    LET new == Written(rows, batch)
    IN  [mine EXCEPT !.inserted = @ + new, !.duplicate = @ + (Len(batch) - new)]

\* The row after an execution has committed its copy.
WriteOut(me, mine) ==
    [f \in DOMAIN job |-> IF mine[f] # me.base[f] THEN mine[f] ELSE job[f]]

\* flush: the rows and the counters commit together.
Commit(me, batch, mine) ==
    /\ rows' = Stored(rows, batch)
    /\ added' = added + Written(rows, batch)
    /\ job' = WriteOut(me, mine)

Entry(me) == export[me.file][me.at + 1]
More(me) == me.file <= Len(export) /\ me.at < Len(export[me.file])

AfterFlush_kept(batch) == batch

AfterFlush(batch) == <<>>

\* The next entry of the file; a full batch is flushed at once.
Read(w) ==
    LET me == work[w]
        e == Entry(me)
        batch == Append(me.batch, e)
        next == [me EXCEPT !.at = me.at + 1, !.mine.total = me.mine.total + 1]
        counted == Counted(next.mine, batch)
    IN  /\ me.pc = "run" /\ More(me) /\ e.kind # "bad"
        /\ \/ /\ e.kind = "skip"
              /\ work' = [work EXCEPT ![w] =
                    [next EXCEPT !.mine.invalid = me.mine.invalid + 1]]
              /\ UNCHANGED <<job, rows, added>>
           \/ /\ e.kind = "play" /\ Len(batch) < BATCH
              /\ work' = [work EXCEPT ![w] = [next EXCEPT !.batch = batch]]
              /\ UNCHANGED <<job, rows, added>>
           \/ /\ e.kind = "play" /\ Len(batch) >= BATCH
              /\ work' = [work EXCEPT ![w] =
                    [next EXCEPT !.batch = AfterFlush(batch), !.mine = counted, !.base = counted]]
              /\ Commit(me, batch, counted)
        /\ UNCHANGED <<export, messages, deliveries, overlapped, faults>>

\* The end of a file is committed too, in the middle of a batch.
EndFile(w) ==
    LET me == work[w]
        mine == [me.mine EXCEPT !.files = me.mine.files + 1]
    IN  /\ me.pc = "run" /\ me.file <= Len(export) /\ ~More(me)
        /\ work' = [work EXCEPT ![w] =
              [me EXCEPT !.file = me.file + 1, !.at = 0, !.mine = mine, !.base = mine]]
        /\ job' = WriteOut(me, mine)
        /\ UNCHANGED <<export, rows, messages, added, deliveries, overlapped, faults>>

LastBatch_dropped(me) == <<>>

\* What is left of the last batch.
LastBatch(me) == me.batch

\* The task returns, its message is acknowledged.
Finish(w) ==
    LET me == work[w]
        mine == [Counted(me.mine, LastBatch(me)) EXCEPT !.status = "succeeded"]
    IN  /\ me.pc = "run" /\ me.file > Len(export)
        /\ work' = [work EXCEPT ![w] = Idle]
        /\ Commit(me, LastBatch(me), mine)
        /\ UNCHANGED <<export, messages, deliveries, overlapped, faults>>

\* An entry that cannot be read: the job fails, what was flushed stays.
Refuse(w) ==
    LET me == work[w]
    IN  /\ me.pc = "run" /\ More(me) /\ Entry(me).kind = "bad"
        /\ work' = [work EXCEPT ![w] = Idle]
        /\ job' = WriteOut(me, [me.mine EXCEPT !.total = @ + 1, !.status = "failed"])
        /\ UNCHANGED <<export, rows, messages, added, deliveries, overlapped, faults>>

\* An error of the database, or the task's time limit.  The commit of the
\* finally clause fails like the statement before it, or is never reached:
\* the job stays as it was last committed, running, and the message is gone.
GiveUp(w) ==
    /\ work[w].pc = "run" /\ faults < MaxFaults
    /\ faults' = faults + 1
    /\ work' = [work EXCEPT ![w] = Idle]
    /\ UNCHANGED <<export, job, rows, messages, added, deliveries, overlapped>>

Returned_lost(n) == n

\* task_acks_late: an unacknowledged message goes back to the queue.
Returned(n) == n + 1

\* The worker is lost, or the broker takes it for lost: the visibility
\* timeout makes the message available again.
Redeliver(w) ==
    /\ work[w].pc = "run"
    /\ deliveries + messages <= MaxRedeliveries
    /\ messages' = Returned(messages)
    /\ work' \in {work, [work EXCEPT ![w] = Idle]}
    /\ UNCHANGED <<export, job, rows, added, deliveries, overlapped, faults>>

-----------------------------------------------------------------------------
Run(w) == Read(w) \/ EndFile(w) \/ Finish(w) \/ Refuse(w)

Quiet == job.status # "none" /\ messages = 0 /\ \A w \in Workers : work[w].pc = "idle"

Done == Quiet /\ UNCHANGED vars

Next == Upload \/ Done \/ \E w \in Workers :
            Start(w) \/ Run(w) \/ GiveUp(w) \/ Redeliver(w)

Spec == Init /\ [][Next]_vars

\* The listener uploads, the workers take what is sent and go on.
Fairness ==
    /\ WF_vars(Upload)
    /\ \A w \in Workers : WF_vars(Run(w)) /\ WF_vars(Start(w))

FairSpec == Spec /\ Fairness

-----------------------------------------------------------------------------
(* Properties *)

\* Where the entries of an export are: the file and the place in it.
Places(x) == UNION {{f} \X DOMAIN x[f] : f \in DOMAIN x}

At(x, p) == x[p[1]][p[2]]

Jobs == [status : {"none", "queued", "running", "succeeded", "failed"},
         files : Nat, total : Nat, inserted : Nat, duplicate : Nat, invalid : Nat]

\* Types: no counter of the job is negative, no execution holds more than a
\* batch or is past the end of a file.
TypeOK ==
    /\ export \in Exports /\ job \in Jobs
    /\ rows \in [Keys -> Nat]
    /\ messages \in 0..MaxRedeliveries + 1
    /\ deliveries \in 0..MaxRedeliveries + 1
    /\ work \in [Workers -> [pc : {"idle", "run"}, file : Nat \ {0}, at : Nat,
                             batch : Seq(Plays), mine : Jobs, base : Jobs]]
    /\ \A w \in Workers :
           /\ work[w].file <= Len(export) + 1
           /\ work[w].file <= Len(export) => work[w].at <= Len(export[work[w].file])
           /\ Len(work[w].batch) < BATCH
    /\ added \in Nat /\ overlapped \in BOOLEAN /\ faults \in 0..MaxFaults

\* A job that says it succeeded has every play of its export in the ledger,
\* whatever crashed, was delivered twice or ran next to it.
SucceededIsComplete ==
    job.status = "succeeded" =>
        \A p \in Places(export) : At(export, p).kind = "play" =>
            rows[Key(At(export, p))] > 0

\* rows_inserted is the number of rows the job has brought, across crashes and
\* redeliveries, as long as two executions never overlapped; and the counters
\* of a job that was delivered once add up to the entries it read.
CountersTrue ==
    /\ ~overlapped => job.inserted = added
    /\ (job.status = "succeeded" /\ deliveries = 1) =>
           job.total = job.inserted + job.duplicate + job.invalid

\* Nothing protects a play of the account-data format, whose uri is NULL, from
\* a second insert.  Each delivery, overlapping ones included, stores such a
\* play at most as often as the export lists it, and no flush stores one again
\* that an earlier flush of the same execution has stored.
StoredPerDelivery ==
    \A k \in Keys : k[2] = NoUri =>
        rows[k] <= Prior[k] + deliveries *
            Cardinality({p \in Places(export) : Key(At(export, p)) = k})

\* The tolerance that models/stream.py names, in seconds.
FUZZY == 90

\* Where Prior are the rows of the polls: "The importer additionally runs a
\* +-90 s fuzzy check against api_poll rows", which the two sources' times of
\* one play need (models/stream.py:9-11).  The code has only the unique key.
FuzzyChecked ==
    \A k, l \in Keys :
        (k[2] = l[2] /\ k[2] # NoUri /\ Prior[k] > 0
            /\ k[1] - l[1] \in -FUZZY..FUZZY) => rows[l] = Prior[l]

\* Every upload comes to an end that its owner sees and stays at it, unless
\* the message was lost or the database or the time limit cut it short.
UploadEnds == <>[](job.status \in {"succeeded", "failed"} \/ faults > 0)
=============================================================================
