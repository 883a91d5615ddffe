---------------------------- MODULE PlaylistRuns ----------------------------
(***************************************************************************)
(* Destructive runs against one Spotify playlist: the tool runs of         *)
(* services/tools/runner.py that read the list and write it back           *)
(* (playlist_ops.py, bulk.py) and the purges of services/banhammer/        *)
(* purger.py, with the backups both take, next to a user who edits the     *)
(* playlist in another client.                                             *)
(*                                                                         *)
(* Spotify hands a list out in pages and takes writes in batches; a write  *)
(* may take effect although the answer is an error or never arrives.  A    *)
(* Celery task is acknowledged late: when its worker dies it is delivered  *)
(* again, or lost when only the child process was killed.                  *)
(***************************************************************************)
EXTENDS ItemLists

CONSTANTS
    KeyOf,          \* KeyOf[x]: the ISRC (or URI) that bulk.dedupe_playlist compares
    Banned,         \* tracks the blacklist matches
    StartList,      \* the playlist to begin with
    Runs,           \* rows of tool_runs and purge_runs, one task each
    KindsOf,        \* KindsOf[r]: what r may be queued as, some of Kinds
    Crashable,      \* runs whose worker may die
    PageSize,       \* items per page (50)
    MaxTries,       \* stop_after_attempt(4)
    MaxDeliveries,  \* bound: deliveries of one task
    MaxEdits        \* bound: edits by the user

\* A "scan" is a dry-run purge.
Kinds == {"reverse", "dedupe", "purge", "scan"}

ASSUME ConstantsAssumption ==
    /\ Banned \subseteq Tracks /\ DOMAIN KeyOf = Tracks
    /\ StartList \in Seq(Tracks)
    /\ KindsOf \in [Runs -> SUBSET Kinds] /\ Crashable \subseteq Runs
    /\ PageSize \in Nat \ {0}
    /\ MaxTries \in Nat \ {0} /\ MaxDeliveries \in Nat \ {0} /\ MaxEdits \in Nat

VARIABLES
    playlist,   \* the items of the playlist, on Spotify
    rows,       \* rows[r]: tool, status and backup_id, as committed
    backups,    \* committed playlist_backups rows, in the order of their ids
    run,        \* run[r]: the task that executes r
    edits,      \* edits so far
    taken,      \* history: taken[r]: tracks that a write of r took out
    disturbed,  \* history: disturbed[r]: somebody else wrote during r
    edited      \* history: the user edited during some run

vars == <<playlist, rows, backups, run, edits, taken, disturbed, edited>>
history == <<taken, disturbed, edited>>

Purges(r) == rows[r].kind \in {"purge", "scan"}
Phases == {"queued", "snapshot", "backup", "read", "put", "post", "remove",
           "succeeded", "failed", "ended", "lost"}
InFlight(r) == run[r].pc \notin {"queued", "ended", "lost"}

Task(phase, n) == [pc |-> phase, off |-> 0, read |-> <<>>, todo |-> <<>>,
                   flushed |-> FALSE, tries |-> 1, deliveries |-> n]

-----------------------------------------------------------------------------
(* What a run computes *)

Keys(uris) == {KeyOf[x] : x \in Range(uris)}

\* bulk.dedupe_playlist: the first item of every key.
Deduped(uris) ==
    LET keep[n \in 0..Len(uris)] ==
          IF n = 0 THEN <<>>
          ELSE IF KeyOf[uris[n]] \in Keys(keep[n - 1]) THEN keep[n - 1]
          ELSE Append(keep[n - 1], uris[n])
    IN  keep[Len(uris)]

NewOrder(r, uris) == IF rows[r].kind = "reverse" THEN Reverse(uris) ELSE Deduped(uris)

\* A reversal is always written, a deduplication when it removes something.
Rewrites(r, uris) == rows[r].kind = "reverse" \/ Len(NewOrder(r, uris)) < Len(uris)

Matched(uris) == Kept(uris, Banned)

-----------------------------------------------------------------------------
\* The task is delivered: the row is marked running, and committed.
Start(r) ==
    /\ run[r].pc = "queued"
    /\ run' = [run EXCEPT ![r].pc = "snapshot"]
    /\ rows' = [rows EXCEPT ![r].status = "running"]
    /\ disturbed' = [disturbed EXCEPT ![r] = FALSE]
    /\ UNCHANGED <<playlist, backups, edits, taken, edited>>

\* Mutant: the next page starts one item late.
NextOffset_skipsOne(q) == q.off + PageSize + 1

NextOffset(q) == q.off + PageSize

\* One page.  The last page of the snapshot leads to the backup; that of a
\* tool's own read to its write, if there is anything to write.
ReadPage(r) ==
    LET q == run[r]
        uris == q.read \o Slice(playlist, q.off + 1, PageSize)
    IN  /\ q.pc \in {"snapshot", "read"}
        /\ run' = [run EXCEPT ![r] =
             IF q.off + PageSize < Len(playlist)
             THEN [q EXCEPT !.read = uris, !.off = NextOffset(q)]
             ELSE IF q.pc = "snapshot"
             THEN [q EXCEPT !.read = uris, !.off = 0, !.pc = "backup"]
             ELSE [q EXCEPT !.read = uris, !.off = 0,
                            !.pc = IF Rewrites(r, uris) THEN "put" ELSE "succeeded",
                            !.todo = IF Rewrites(r, uris) THEN NewOrder(r, uris) ELSE <<>>]]
        /\ UNCHANGED <<playlist, rows, backups, edits, history>>

\* execute_tool_run: the backup is committed before the tool starts.
CommitBackup(r) ==
    LET q == run[r]
    IN  /\ q.pc = "backup" /\ ~Purges(r)
        /\ backups' = Append(backups, [run |-> r, uris |-> q.read])
        /\ rows' = [rows EXCEPT ![r].backup = Len(backups) + 1]
        /\ run' = [run EXCEPT ![r] = [q EXCEPT !.pc = "read", !.read = <<>>]]
        /\ UNCHANGED <<playlist, edits, history>>

\* run_purge: the backup is only flushed; it is `read' until the last commit.
FlushBackup(r) ==
    LET q == run[r]
        matched == IF rows[r].kind = "scan" THEN <<>> ELSE Matched(q.read)
    IN  /\ q.pc = "backup" /\ Purges(r)
        /\ run' = [run EXCEPT ![r] = [q EXCEPT !.todo = matched,
                                        !.flushed = (matched # <<>>),
                                        !.pc = IF matched = <<>> THEN "succeeded" ELSE "remove"]]
        /\ UNCHANGED <<playlist, rows, backups, edits, history>>

-----------------------------------------------------------------------------
(* Writes: replace_items (PUT the first batch, POST the others), remove_items *)

Effect(q) ==
    CASE q.pc = "put" -> Batch(q.todo)
      [] q.pc = "post" -> playlist \o Batch(q.todo)
      [] q.pc = "remove" -> Kept(playlist, Tracks \ Range(Batch(q.todo)))

\* The batch was accepted: the next one, or the end.
Advanced(q) ==
    [q EXCEPT !.todo = Rest(q.todo), !.tries = 1,
              !.pc = IF Rest(q.todo) = <<>> THEN "succeeded" ELSE IF q.pc = "put" THEN "post" ELSE q.pc]

\* Mutant: one attempt too many.
MayRetry_onceMore(q) == q.tries <= MaxTries

MayRetry(q) == q.tries < MaxTries

\* One request.  A 429 or 5xx is retried, whatever the method and whether or
\* not the write took effect; any other error, or the last 5xx, fails the run.
Write(r) ==
    LET q == run[r]
    IN  /\ q.pc \in {"put", "post", "remove"}
        /\ \E applied \in BOOLEAN, answer \in {"ok", "transient", "error"} :
             /\ answer = "ok" => applied
             /\ playlist' = IF applied THEN Effect(q) ELSE playlist
             /\ run' = [run EXCEPT ![r] =
                  CASE answer = "ok" -> Advanced(q)
                    [] answer = "transient" /\ MayRetry(q) -> [q EXCEPT !.tries = @ + 1]
                    [] OTHER -> [q EXCEPT !.pc = "failed"]]
        /\ taken' = [taken EXCEPT ![r] = @ \cup (Range(playlist) \ Range(playlist'))]
        /\ disturbed' = [o \in Runs |-> disturbed[o] \/ (o # r /\ InFlight(o))]
        /\ UNCHANGED <<rows, backups, edits, edited>>

\* A read fails for good.
ReadFails(r) ==
    /\ run[r].pc \in {"snapshot", "read"}
    /\ run' = [run EXCEPT ![r].pc = "failed"]
    /\ UNCHANGED <<playlist, rows, backups, edits, history>>

\* The last commit: the status, and with it the backup a purge had flushed.
End(r, status) ==
    LET q == run[r]
    IN  /\ q.pc = status
        /\ backups' = IF q.flushed THEN Append(backups, [run |-> r, uris |-> q.read]) ELSE backups
        /\ rows' = [rows EXCEPT ![r].status = status,
                                ![r].backup = IF q.flushed THEN Len(backups) + 1 ELSE @]
        /\ run' = [run EXCEPT ![r] = Task("ended", q.deliveries)]
        /\ UNCHANGED <<playlist, edits, history>>

-----------------------------------------------------------------------------
(* What is outside *)

\* The worker dies: its transaction is rolled back, and the message is either
\* delivered again or, when only the child was killed, gone.  It may also die
\* between the last commit and the acknowledgement.
Crash(r) ==
    /\ r \in Crashable
    /\ InFlight(r) \/ run[r].pc = "ended"
    /\ \/ /\ run[r].deliveries < MaxDeliveries
          /\ run' = [run EXCEPT ![r] = Task("queued", run[r].deliveries + 1)]
       \/ /\ InFlight(r)
          /\ run' = [run EXCEPT ![r] = Task("lost", run[r].deliveries)]
    /\ UNCHANGED <<playlist, rows, backups, edits, history>>

\* The user appends or removes an item in another client.
Edit ==
    /\ edits < MaxEdits
    /\ \/ \E x \in Tracks : playlist' = Append(playlist, x)
       \/ \E i \in DOMAIN playlist : playlist' = RemoveAt(playlist, i)
    /\ edits' = edits + 1
    /\ edited' = (edited \/ \E r \in Runs : InFlight(r))
    /\ disturbed' = [r \in Runs |-> disturbed[r] \/ InFlight(r)]
    /\ UNCHANGED <<rows, backups, run, taken>>

Init ==
    /\ playlist = StartList
    /\ \E kind \in [Runs -> Kinds] :
         /\ \A r \in Runs : kind[r] \in KindsOf[r]
         /\ rows = [r \in Runs |-> [kind |-> kind[r], status |-> "queued", backup |-> 0]]
    /\ backups = <<>>
    /\ run = [r \in Runs |-> Task("queued", 1)]
    /\ edits = 0
    /\ taken = [r \in Runs |-> {}]
    /\ disturbed = [r \in Runs |-> FALSE]
    /\ edited = FALSE

Next ==
    \/ \E r \in Runs :
         \/ Start(r) \/ ReadPage(r) \/ CommitBackup(r) \/ FlushBackup(r) \/ Write(r)
         \/ ReadFails(r) \/ End(r, "succeeded") \/ End(r, "failed") \/ Crash(r)
    \/ Edit

Spec == Init /\ [][Next]_vars

-----------------------------------------------------------------------------
(* Properties *)

\* Type correctness; every backup_id is that of a committed row.
TypeOK ==
    /\ playlist \in Seq(Tracks)
    /\ backups \in Seq([run : Runs, uris : Seq(Tracks)])
    /\ rows \in [Runs -> [kind : Kinds,
                          status : {"queued", "running", "succeeded", "failed"},
                          backup : 0..Len(backups)]]
    /\ run \in [Runs -> [pc : Phases, off : Nat, read : Seq(Tracks), todo : Seq(Tracks),
                         flushed : BOOLEAN, tries : 1..MaxTries, deliveries : 1..MaxDeliveries]]
    /\ edits \in 0..MaxEdits
    /\ taken \in [Runs -> SUBSET Tracks]
    /\ disturbed \in [Runs -> BOOLEAN]
    /\ edited \in BOOLEAN

Saved == UNION {Range(backups[i].uris) : i \in DOMAIN backups}
Flushed == UNION {Range(run[r].read) : r \in {o \in Runs : run[o].flushed}}

\* Unless the user edits the list while a run is under way, a track that any
\* run has taken out of the playlist is in it again, in a committed backup, or
\* in one that a purge under way is about to commit: also when runs overlap, a
\* write fails half way, or a run is executed again over what it had left.
Restorable ==
    edited \/ \A r \in Runs : taken[r] \subseteq Range(playlist) \cup Saved \cup Flushed

\* A run that reports success, and that nobody else's write came across, has
\* done what it says: a tool keeps every recording its backup lists, a purge
\* leaves the unbanned tracks of its scan and, a dry run apart, no banned one.
SuccessMeansDone ==
    \A r \in Runs : run[r].pc = "succeeded" /\ ~disturbed[r] =>
        IF ~Purges(r) THEN Keys(playlist) = Keys(backups[rows[r].backup].uris)
        ELSE Range(playlist) = Range(run[r].read) \ (IF rows[r].kind = "purge" THEN Banned ELSE {})

\* purger.py:1-2: a backup is taken first, so every purge is reversible.
PurgeReversible ==
    \A r \in Runs : Purges(r) /\ ~InFlight(r) => taken[r] \subseteq Range(playlist) \cup Saved
=============================================================================
