----------------------------- MODULE ToolBuilds -----------------------------
(***************************************************************************)
(* One tool run from end to end: execute_tool_run with its backup, what    *)
(* the tool reads and computes (PlaylistAlgebra), the playlists it makes   *)
(* or overwrites request by request, and how it is recorded.  A request    *)
(* whose answer is a 5xx may have taken effect and is sent again; a worker *)
(* may die and its message be delivered again; the database may fail it.   *)
(* Runs that race each other or the user are the subject of PlaylistRuns.  *)
(***************************************************************************)
EXTENDS PlaylistAlgebra

CONSTANTS
    Jobs,         \* what may be run: [tool, a, b, opt, new], see Plans
    Invalid,      \* those with parameters that the tool does not accept
    Fits,         \* tracks in the range a sonic filter asks for
    Catalogue,    \* tracks the catalogue has a row of
    Described,    \* tracks some provider has features of
    Recent,       \* tracks played within the silent months
    ChunkSize,    \* items per volume of a split
    Size,         \* length of a best-of list
    MinStreams,   \* plays that make a favourite
    MaxFaults     \* bound: requests repeated, failures, crashes

\* Only an automation, a backup, has parameters that nobody checked when the row
\* was made: the API validates those of every other run.
ASSUME InvalidAssumption == Invalid \subseteq {j \in Jobs : j.tool = "backup"}

\* What a user can ask for: liked songs, plays, search results and backups have no
\* gaps; only some tools overwrite or delete the playlist they read, or, a backup,
\* make no copy.
ASSUME BuildAssumption ==
    /\ ChunkSize \in Nat \ {0} /\ Size \in Nat /\ MinStreams \in Nat /\ MaxFaults \in Nat
    /\ \A j \in Jobs :
           /\ j.tool \in {"copy", "set_ops", "blend", "split", "shuffle", "sort", "prune",
                         "subtract_liked", "liked", "backup", "restore", "best_of",
                         "forgotten", "sonic", "porter", "delete"}
           /\ j.a \in Seq(Tracks \cup {NoItem}) /\ j.new \in BOOLEAN
           /\ j.b \in Seq(IF j.tool \in {"set_ops", "blend"} THEN Tracks \cup {NoItem} ELSE Tracks)
           /\ j.tool = "set_ops" => j.opt \in {"subtract", "intersect", "union"}
           /\ j.tool = "blend" => j.opt \in {"append", "interleave", "interleave_all"}
           /\ ~j.new => j.tool \in {"shuffle", "sort", "prune", "subtract_liked", "liked",
                                   "backup", "restore", "delete"}
           /\ j.tool \in {"prune", "subtract_liked", "delete"} => ~j.new

VARIABLES
    job,          \* the tool, its inputs and options
    status,       \* of the row of tool_runs
    lists,        \* lists[k]: the playlist made k-th on Spotify
    target,       \* the playlist the tool reads, and overwrites unless job.new
    gone,         \* the user no longer follows it
    saved,        \* committed rows of playlist_backups
    features,     \* tracks with a row of audio_features
    build,        \* the execution
    faults        \* faults so far

buildVars == <<job, status, lists, target, gone, saved, features, build, faults>>

Fresh == [pc |-> "queued", plan |-> <<>>, k |-> 1, todo |-> <<>>, made |-> 0]

BuildInit ==
    /\ job \in Jobs
    /\ status = "queued" /\ lists = <<>> /\ target = job.a /\ gone = FALSE
    /\ saved = {} /\ features \in SUBSET (Described \cap Catalogue)
    /\ build = Fresh /\ faults = 0

-----------------------------------------------------------------------------
(* What the tools compute from target (a playlist, or the liked songs when   *)
(* the tool has no playlist) and from b (another playlist, the liked songs,  *)
(* the plays of the ledger, a backup, or search results)                     *)

Blended(lsts, opt) ==
    CASE opt = "append" -> Firsts(FlattenSeq(lsts))
      [] opt = "interleave" -> Firsts(RoundRobin(lsts))
      [] opt = "interleave_all" -> RoundRobin(lsts)

Shuffled(uris, opt) ==
    {IF opt = "spread" THEN SpreadArtists(FisherYates(uris, d)) ELSE FisherYates(uris, d) :
        d \in Draws(Len(uris))}

\* Pages without the entries that have no item, in the order of the playlist.
Copied(entries) == Uris(entries)

Combined(entries, b, op) == SetOperation(Uris(entries), Uris(b), op)

\* prune_unavailable
Pruned(entries) == Kept(entries, {x \in Tracks : ~Unavailable(x)})

\* subtract_liked
Unliked(entries, liked) == SetOperation(Uris(entries), liked, "subtract")

\* liked_to_playlist; the liked songs come newest first.
Mirrored(liked, opt) == IF opt = "oldest_first" THEN Reverse(liked) ELSE liked

\* Discover Weekly and its like may be unreadable (403, 404): then the week's
\* plays from that context, each once and in no order.
Captured(entries, plays, opt) ==
    IF opt = "shadow" THEN SetToSeqs(Range(plays)) ELSE {Uris(entries)}

\* monthly_best_of, over the plays of the month.
BestOf(plays) == MostPlayed(plays, Range(plays), Size)

Favourites(plays) ==
    {x \in Range(plays) : Count(x, plays) >= MinStreams /\ x \notin Recent}

\* sonic.filter and the mood presets: no features, no match.
InRange(entries, known) == Kept(Uris(entries), known \cap Fits)

\* porter.text_to_playlist: the lines that the search finds nothing for are left out.
Ported(wanted) == {Without(wanted, S) : S \in SUBSET Range(wanted)}

\* The lists a tool wants to see written, one of those it may come to.
Plans(j, entries, known) ==
    CASE j.tool = "copy" -> {<<Copied(entries)>>}
      [] j.tool = "set_ops" -> {<<Combined(entries, j.b, j.opt)>>}
      [] j.tool = "blend" -> {<<Blended(<<Uris(entries), Uris(j.b)>>, j.opt)>>}
      [] j.tool = "split" -> {Chunks(Uris(entries), ChunkSize)}
      [] j.tool = "shuffle" -> {<<s>> : s \in Shuffled(Uris(entries), j.opt)}
      [] j.tool = "sort" -> {<<SortItems(Uris(entries), j.opt = "descending")>>}
      [] j.tool = "prune" -> {<<Pruned(entries)>>}
      [] j.tool = "subtract_liked" -> {<<Unliked(entries, j.b)>>}
      [] j.tool = "liked" -> {<<Mirrored(j.b, j.opt)>>}
      [] j.tool = "backup" -> {<<s>> : s \in Captured(entries, j.b, j.opt)}
      [] j.tool = "restore" -> {<<j.b>>}
      [] j.tool = "best_of" -> {<<s>> : s \in BestOf(j.b)}
      [] j.tool = "forgotten" -> {<<s>> : s \in MostPlayed(j.b, Favourites(j.b), Size)}
      [] j.tool = "sonic" -> {<<InRange(entries, known)>>}
      [] j.tool = "porter" -> {<<s>> : s \in Ported(j.b)}
      [] j.tool = "delete" -> {<<>>}

\* prune and subtract_liked write only when something goes; prune counts the
\* entries without an item too.
NothingToWrite(j, entries, plan) ==
    \/ j.tool = "prune" /\ Len(plan[1]) = Len(entries)
    \/ j.tool = "subtract_liked" /\ Len(plan[1]) = Len(Uris(entries))

DestructiveTools_notDelete == {"shuffle", "sort", "prune", "subtract_liked", "restore"}
DestructiveTools == {"shuffle", "sort", "prune", "subtract_liked", "restore", "delete"}

\* backup_targets: the flag is the tool's, whatever its options; a restoration
\* names its target only if it has one.
SavesTarget(j) == j.tool \in DestructiveTools /\ ~(j.tool = "restore" /\ j.new)

-----------------------------------------------------------------------------
(* execute_tool_run *)

\* Before the row says "running", outside the try: the task raises, its message
\* is acknowledged, and the row stays as it is.
Refuse ==
    /\ build.pc = "queued" /\ job \in Invalid
    /\ build' = [build EXCEPT !.pc = "left"]
    /\ UNCHANGED <<job, status, lists, target, gone, saved, features, faults>>

\* run_tool_task has no client: the account is no longer linked, or no token is
\* to be had for it.
TurnAway ==
    /\ build.pc = "queued" /\ faults < MaxFaults
    /\ faults' = faults + 1
    /\ build' = [build EXCEPT !.pc = "left"]
    /\ UNCHANGED <<job, status, lists, target, gone, saved, features>>

BuildStart ==
    /\ build.pc = "queued" /\ job \notin Invalid
    /\ status' = "running"
    /\ build' = [build EXCEPT !.pc = IF SavesTarget(job) THEN "save" ELSE "read"]
    /\ UNCHANGED <<job, lists, target, gone, saved, features, faults>>

Row(uris, copy) == [uris |-> uris, copy |-> copy, of |-> job.tool]

\* Committed before the tool starts.
SaveTarget ==
    /\ build.pc = "save"
    /\ saved' = saved \cup {[Row(Uris(target), 0) EXCEPT !.of = "pre_bulk"]}
    /\ build' = [build EXCEPT !.pc = "read"]
    /\ UNCHANGED <<job, status, lists, target, gone, features, faults>>

\* resolve_features: the cached ones, then what each of two providers knows of
\* the rest; a provider knows tracks the catalogue has no row of, and the foreign
\* key refuses its whole insert.  The status cannot be written either: it is the
\* same transaction.
Resolve(found) ==
    LET missing == Range(Uris(target)) \ (features \cup Local)
        stored  == found \subseteq Catalogue
    IN  /\ build.pc = "read" /\ job.tool = "sonic"
        /\ found \in SUBSET (missing \cap Described)
        /\ features' = IF stored THEN features \cup found ELSE features
        /\ build' = IF stored /\ build.k = 1 THEN [build EXCEPT !.k = 2]
                  ELSE [build EXCEPT !.pc = IF stored THEN "plan" ELSE "stuck"]
        /\ UNCHANGED <<job, status, lists, target, gone, saved, faults>>

\* The state after list k - 1 is written; a backup without uris is not copied.
Turn(plan, k) ==
    LET r == [build EXCEPT !.plan = plan, !.k = k]
    IN  IF k > Len(plan) THEN [r EXCEPT !.pc = IF job.tool = "backup" THEN "store" ELSE "succeeded"]
        ELSE IF job.tool = "backup" /\ (plan[k] = <<>> \/ ~job.new) THEN [r EXCEPT !.pc = "store"]
        ELSE [r EXCEPT !.pc = IF job.new THEN "create" ELSE "put", !.todo = plan[k]]

\* The tool reads what it needs, and decides.
Plan ==
    /\ \/ build.pc = "read" /\ job.tool # "sonic"
       \/ build.pc = "plan"
    /\ \E plan \in Plans(job, target, features) :
           build' = IF job.tool = "delete" THEN [build EXCEPT !.pc = "delete"]
                  ELSE IF NothingToWrite(job, target, plan)
                  THEN [build EXCEPT !.plan = plan, !.pc = "succeeded"]
                  ELSE Turn(plan, 1)
    /\ UNCHANGED <<job, status, lists, target, gone, saved, features, faults>>

-----------------------------------------------------------------------------
(* Requests that write.  `again': the effect without the answer, so that the *)
(* same request is sent once more.                                           *)

Repeatable(again) == /\ again => faults < MaxFaults
                     /\ faults' = IF again THEN faults + 1 ELSE faults

\* The id that add_items is given: the playlist just created.
MadeLast_first == 1
MadeLast == Len(lists) + 1

\* create_playlist
Create(again) ==
    /\ build.pc = "create" /\ Repeatable(again)
    /\ lists' = Append(lists, <<>>)
    /\ build' = IF again THEN build
              ELSE [IF build.todo = <<>> THEN Turn(build.plan, build.k + 1) ELSE [build EXCEPT !.pc = "add"]
                       EXCEPT !.made = MadeLast]
    /\ UNCHANGED <<job, status, target, gone, saved, features>>

AfterBatch == IF Rest(build.todo) = <<>> THEN Turn(build.plan, build.k + 1)
              ELSE [build EXCEPT !.pc = "add", !.todo = Rest(build.todo)]

\* add_items, to the list just made or behind the first batch of target.
Add(again) ==
    /\ build.pc = "add" /\ Repeatable(again)
    /\ IF job.new
       THEN lists' = [lists EXCEPT ![build.made] = @ \o Batch(build.todo)] /\ UNCHANGED target
       ELSE target' = target \o Batch(build.todo) /\ UNCHANGED lists
    /\ build' = IF again THEN build ELSE AfterBatch
    /\ UNCHANGED <<job, status, gone, saved, features>>

\* The PUT of replace_items; a repetition changes nothing.
Put ==
    /\ build.pc = "put"
    /\ target' = Batch(build.todo)
    /\ build' = AfterBatch
    /\ UNCHANGED <<job, status, lists, gone, saved, features, faults>>

\* unfollow_playlist
Delete ==
    /\ build.pc = "delete"
    /\ gone' = TRUE
    /\ build' = [build EXCEPT !.pc = "succeeded"]
    /\ UNCHANGED <<job, status, lists, target, saved, features, faults>>

\* materialized_playlist_id
Copy == IF job.new /\ build.plan[1] # <<>> THEN build.made ELSE 0

\* _store_backup: the row, after the copy on Spotify is complete.
Store ==
    /\ build.pc = "store"
    /\ saved' = saved \cup {Row(build.plan[1], Copy)}
    /\ build' = [build EXCEPT !.pc = "succeeded"]
    /\ UNCHANGED <<job, status, lists, target, gone, features, faults>>

\* The end is recorded.
Recorded_onlyFailures(s, pc) == IF pc = "failed" THEN "failed" ELSE s
Recorded(s, pc) == pc

BuildEnd ==
    /\ build.pc \in {"succeeded", "failed"}
    /\ status' = Recorded(status, build.pc)
    /\ build' = [build EXCEPT !.pc = "ended"]
    /\ UNCHANGED <<job, lists, target, gone, saved, features, faults>>

Busy == {"save", "read", "plan", "create", "add", "put", "delete", "store"}

\* A request fails for good, and the tool with it; a backup's row needs none.
BuildFail ==
    /\ build.pc \in Busy \ {"store"} /\ faults < MaxFaults
    /\ faults' = faults + 1
    /\ build' = [build EXCEPT !.pc = "failed"]
    /\ UNCHANGED <<job, status, lists, target, gone, saved, features>>

\* A query, a flush or a commit fails, the last one too.  The exception is caught,
\* but the session wants a rollback first: the commit of the status raises.
BuildBreak ==
    /\ build.pc \in {"save", "read", "plan", "store", "succeeded", "failed"} /\ faults < MaxFaults
    /\ faults' = faults + 1
    /\ build' = [build EXCEPT !.pc = "broken"]
    /\ UNCHANGED <<job, status, lists, target, gone, saved, features>>

\* The worker dies; the run starts over, or its message is gone.
BuildCrash ==
    /\ build.pc \in Busy /\ faults < MaxFaults
    /\ faults' = faults + 1
    /\ build' \in {Fresh, [build EXCEPT !.pc = "lost"]}
    /\ UNCHANGED <<job, status, lists, target, gone, saved, features>>

-----------------------------------------------------------------------------
BuildStep ==
    \/ Refuse \/ BuildStart \/ SaveTarget \/ Plan \/ Put \/ Delete \/ Store \/ BuildEnd
    \/ Create(FALSE) \/ Add(FALSE)
    \/ \E found \in SUBSET Described : Resolve(found)

\* How an execution ends: recorded; its message acknowledged before or after it
\* started, with nothing recorded (left, stuck, broken); or the message gone.
Ends == {"ended", "left", "stuck", "broken", "lost"}

BuildDone == build.pc \in Ends /\ UNCHANGED buildVars

BuildNext ==
    \/ BuildStep \/ Create(TRUE) \/ Add(TRUE)
    \/ TurnAway \/ BuildFail \/ BuildBreak \/ BuildCrash \/ BuildDone

BuildSpec == BuildInit /\ [][BuildNext]_buildVars

\* A worker goes on with the run it has taken.
BuildFairSpec == BuildSpec /\ WF_buildVars(BuildStep)
-----------------------------------------------------------------------------
\* The state is well formed; the target and the created playlists hold items only
\* of the inputs (execute_tool_run, create_playlist, replace_items).
BuildTypeOK ==
    /\ job \in Jobs /\ gone \in BOOLEAN /\ faults \in 0..MaxFaults
    /\ status \in {"queued", "running", "succeeded", "failed"}
    /\ build.pc \in Busy \cup {"queued", "succeeded", "failed"} \cup Ends
    /\ features \subseteq Described \cap Catalogue
    /\ build.made \in 0..Len(lists) /\ (build.pc = "add" /\ job.new => build.made = Len(lists))
    /\ \A l \in Range(lists) \cup {target} : Range(l) \subseteq Range(job.a) \cup Range(job.b)

\* A run that says "succeeded" has written what the tool decided: its playlists
\* hold every track of the plan, however many requests that took and however
\* often one was repeated or the worker restarted; and without such an accident
\* they are the plan, batch by batch and volume by volume.
DoneMeansDone ==
    status = "succeeded" /\ job.tool # "delete" =>
        /\ job.new => \A k \in DOMAIN build.plan :
               \/ job.tool = "backup" /\ build.plan[k] = <<>>
               \/ \E l \in Range(lists) : Range(build.plan[k]) \subseteq Range(l)
        /\ ~job.new /\ job.tool # "backup" => Range(build.plan[1]) = Range(Uris(target))
        /\ faults = 0 =>
               /\ lists = IF ~job.new \/ (job.tool = "backup" /\ build.plan[1] = <<>>) THEN <<>> ELSE build.plan
               /\ target = IF job.new \/ job.tool = "backup" \/ NothingToWrite(job, job.a, build.plan)
                           THEN job.a ELSE build.plan[1]

-----------------------------------------------------------------------------
(* What the computations promise, at the point where the tool decides *)

Positions(s, x) == {i \in DOMAIN s : s[i] = x}

\* p: where the items of t stand in s, each place of s once.
Rearranges(p, s, t) ==
    /\ DOMAIN t = DOMAIN s /\ p \in [DOMAIN s -> DOMAIN s]
    /\ \A i \in DOMAIN s, j \in DOMAIN s : p[i] = p[j] => i = j
    /\ \A i \in DOMAIN s : t[i] = s[p[i]]

\* out: the items of s in S, as often and in the same order.
Selects(s, S, out) ==
    \E p \in [DOMAIN out -> DOMAIN s] :
        /\ \A i \in DOMAIN out, j \in DOMAIN out : i < j => p[i] < p[j]
        /\ \A i \in DOMAIN out : out[i] = s[p[i]] /\ out[i] \in S
        /\ \A i \in DOMAIN s : s[i] \in S => \E n \in DOMAIN out : p[n] = i

\* out: the items of s, each at its first appearance.
EachOnce(s, out) ==
    /\ Range(out) = Range(s)
    /\ \A i \in DOMAIN out, j \in DOMAIN out :
           i < j => \E m \in Positions(s, out[i]) : \A n \in Positions(s, out[j]) : m < n

SortRight(uris, out, desc) ==
    \E p \in [DOMAIN uris -> DOMAIN uris] :
        /\ Rearranges(p, uris, out)
        /\ \A i \in DOMAIN uris, j \in DOMAIN uris : i < j =>
               LET k == SortKey[out[i]]
                   l == SortKey[out[j]]
               IN  (IF desc THEN k > l ELSE k < l) \/ (k = l /\ p[i] < p[j])

\* No two sequences of draws give the same order, so all orders are equally likely.
ShuffleRight(uris) ==
    LET places   == [i \in DOMAIN uris |-> i]
        order(d) == FisherYates(places, d)
    IN  \A d \in Draws(Len(uris)) :
            /\ Rearranges(order(d), uris, FisherYates(uris, d))
            /\ \A e \in Draws(Len(uris)) : order(d) = order(e) => d = e

\* Neighbours of one artist only when nothing else is left.
SpreadRight(uris) ==
    LET out == SpreadArtists(uris)
    IN  \E p \in [DOMAIN uris -> DOMAIN uris] :
            /\ Rearranges(p, uris, out)
            /\ \A i \in DOMAIN uris, j \in DOMAIN uris :
                   i < j /\ ArtistOf[out[i]] = ArtistOf[out[j]] => p[i] < p[j]
            /\ \A i \in 1..Len(uris) - 1 : ArtistOf[out[i]] = ArtistOf[out[i + 1]] =>
                   \A m \in i..Len(uris) : ArtistOf[out[m]] = ArtistOf[out[i]]

\* Behind a[i] stands b[i], and the rest of the longer list at the end.
TurnsRight(a, b, out) ==
    /\ Len(out) = Len(a) + Len(b)
    /\ \A i \in DOMAIN a : out[i + Min({i - 1, Len(b)})] = a[i]
    /\ \A i \in DOMAIN b : out[i + Min({i, Len(a)})] = b[i]

SplitRight(uris, out) ==
    /\ FlattenSeq(out) = uris
    /\ \A n \in DOMAIN out : out[n] # <<>> /\ (n < Len(out) => Len(out[n]) = ChunkSize)
                             /\ Len(out[n]) <= ChunkSize

\* The orders are what their names promise: a sort is stable in both directions,
\* a shuffle is unbiased, artists are spread as far as a greedy pass can, lists
\* are blended in turns, and no track is lost or doubled on the way.
OrderingsRight ==
    build.pc = "read" =>
        LET uris == Uris(target)
            more == Uris(job.b)
        IN  /\ job.tool = "sort" => \A plan \in Plans(job, target, {}) :
                                       SortRight(uris, plan[1], job.opt = "descending")
            /\ job.tool = "shuffle" =>
                   /\ ShuffleRight(uris)
                   /\ \A d \in Draws(Len(uris)) : SpreadRight(FisherYates(uris, d))
            /\ job.tool = "blend" => \A plan \in Plans(job, target, {}) :
                   CASE job.opt = "append" -> EachOnce(uris \o more, plan[1])
                     [] job.opt = "interleave" -> EachOnce(RoundRobin(<<uris, more>>), plan[1])
                     [] job.opt = "interleave_all" -> TurnsRight(uris, more, plan[1])
            /\ job.tool = "split" => \A plan \in Plans(job, target, {}) : SplitRight(uris, plan)

\* A selection keeps exactly what it should, as often as it was there and in its
\* order; only the union drops repetitions (set_operation, prune, subtract).
SelectionsRight ==
    build.pc = "read" /\ job.tool \in {"prune", "subtract_liked", "set_ops"} =>
        \A plan \in Plans(job, target, {}) :
            LET a == Uris(target)
                b == Uris(job.b)
            IN  /\ job.tool = "prune" => Selects(target, Tracks \ Local, plan[1])
                /\ job.tool = "subtract_liked" => Selects(a, Tracks \ Range(b), plan[1])
                /\ job.tool = "set_ops" =>
                       CASE job.opt = "subtract" -> Selects(a, Tracks \ Range(b), plan[1])
                         [] job.opt = "intersect" -> Selects(a, Range(b), plan[1])
                         [] job.opt = "union" -> EachOnce(a \o b, plan[1])

\* What a tool decides to write is what its name promises: the orders and the
\* selections, for lists with repetitions, gaps and local files.
PlansRight == OrderingsRight /\ SelectionsRight

-----------------------------------------------------------------------------
\* Nothing is overwritten or deleted unless all of it is in a committed backup
\* (execute_tool_run's snapshot), however often the run is started over on what
\* it left half done.  Only library.liked_to_playlist, not marked as destructive,
\* replaces a playlist without one.
OverwrittenIsSaved ==
    (target # job.a \/ gone) /\ job.tool # "liked" =>
        \E b \in saved : b.of = "pre_bulk" /\ b.uris = Uris(job.a)

\* A backup that names its copy on Spotify has all of its tracks there, and a
\* backup that was to be copied names one (_store_backup).
BackupsTrue ==
    \A b \in saved : b.of = "backup" =>
        /\ b.copy # 0 => Range(b.uris) \subseteq Range(lists[b.copy])
        /\ job.new /\ b.uris # <<>> => b.copy # 0

\* Whatever fails or starts over, what a run takes away is saved, and a backup
\* is as complete as it says.
BackupsSound == OverwrittenIsSaved /\ BackupsTrue

\* A sonic filter over a track that a provider describes and the catalogue does not have.
Unrecordable ==
    job.tool = "sonic" /\ ~((Range(Uris(job.a)) \cap Described) \ Local \subseteq Catalogue)

\* A run comes to be recorded as succeeded or failed, unless its message is lost
\* (lost); the database fails it (broken); its owner has no token or its parameters
\* are refused, so that it never starts (left); or the foreign key of
\* audio_features breaks the transaction it is recorded in (execute_tool_run).
RunRecorded ==
    \/ <>(status \in {"succeeded", "failed"})
    \/ <>(build.pc \in {"lost", "broken", "left"})
    \/ Unrecordable

\* An exception of the tool is "recorded on the audit row, never re-raised"
\* (services/tools/runner.py:60).
ExceptionsRecorded == build.pc \in {"stuck", "broken"} => status = "failed"
=============================================================================
