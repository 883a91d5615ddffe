---------------------------- MODULE GuardRoster ----------------------------
(***************************************************************************)
(* Scheduling of the skip guard (workers/tasks/banhammer.py): the roster   *)
(* refresh and the ticks that put themselves back into the `realtime'      *)
(* queue.  What a tick does to the player is module SkipGuard; here it     *)
(* begins, takes any time, and ends.                                       *)
(*                                                                         *)
(* Every Redis command is a step of its own.  A worker that dies leaves    *)
(* its lock to expire.  The broker delivers its message again if it had    *)
(* not been acknowledged (task_acks_late); a message whose process alone   *)
(* was lost is acknowledged all the same, and gone.                        *)
(***************************************************************************)
EXTENDS Integers, FiniteSets

CONSTANTS
    Users,
    Dormant,     \* users who play nothing; no step of the roster looks at it
    Workers,     \* executions of guard.tick
    Refreshers,  \* executions of guard.refresh_roster
    MaxActive,   \* skip_guard_max_active_users
    MaxToggles,  \* bound: changes of who is eligible
    MaxChains,   \* bound: no refresh starts while a user has more ticks than this
    MaxCrashes   \* bound: executions that die

ASSUME RosterAssumption ==
    /\ MaxActive \in Nat /\ MaxToggles \in Nat
    /\ MaxChains \in Nat /\ MaxCrashes \in Nat

ASSUME DormantAssumption == Dormant \subseteq Users

VARIABLES
    eligible,   \* users with the guard enabled, premium and active, in Postgres
    active,     \* the Redis set guard:active
    queued,     \* guard.tick messages in the queue, per user
    lock,       \* lock[u]: the key guard:u:lock exists
    task,       \* what each worker is doing
    refresh,    \* what each refresh is doing
    toggles,    \* changes of eligible so far
    crashes     \* executions that have died

rosterVars == <<eligible, active, queued, lock, task, refresh, toggles, crashes>>

NoTask == [pc |-> "idle"]
Task ==
    {NoTask} \cup [pc : {"admitted", "ticking", "ended"}, user : Users]
Refresh ==
    {NoTask}
    \cup [pc : {"selected"}, ids : {S \in SUBSET Users : Cardinality(S) <= MaxActive}]
    \cup [pc : {"applying"}, start : SUBSET Users, stop : SUBSET Users]
    \cup [pc : {"sending"}, start : SUBSET Users, stop : SUBSET Users, user : Users]

Serves(w, u) == task[w].pc # "idle" /\ task[w].user = u
Ticking(w, u) == task[w].pc = "ticking" /\ task[w].user = u

SetTask(w, t) == task' = [task EXCEPT ![w] = t]
SetRefresh(f, r) == refresh' = [refresh EXCEPT ![f] = r]

\* Ticks of u, in the queue or in a worker.
Chains(u) == queued[u] + Cardinality({w \in Workers : Serves(w, u)})

-----------------------------------------------------------------------------
(* refresh_guard_roster *)

\* toggle_guard, the preferences form, or a subscription that changes.
ChangeEligible(u) ==
    /\ toggles < MaxToggles
    /\ toggles' = toggles + 1
    /\ eligible' = (eligible \ {u}) \cup ({u} \ eligible)
    /\ UNCHANGED <<active, queued, lock, task, refresh, crashes>>

\* What SELECT ... LIMIT returns: no ORDER BY, so any of the eligible users.
Selections ==
    {S \in SUBSET eligible :
        IF Cardinality(eligible) <= MaxActive THEN S = eligible ELSE Cardinality(S) = MaxActive}

SelectUsers(f) ==
    /\ refresh[f].pc = "idle"
    /\ \A u \in Users : Chains(u) <= MaxChains
    /\ \E S \in Selections : SetRefresh(f, [pc |-> "selected", ids |-> S])
    /\ UNCHANGED <<eligible, active, queued, lock, task, toggles, crashes>>

ToStart(ids) == ids \ active

\* Mutant: the difference is taken of the wrong sets.
ToStop_selected(ids) == active \cap ids

ToStop(ids) == active \ ids

ReadActive(f) ==
    LET ids == refresh[f].ids
    IN  /\ refresh[f].pc = "selected"
        /\ SetRefresh(f, [pc |-> "applying", start |-> ToStart(ids), stop |-> ToStop(ids)])
        /\ UNCHANGED <<eligible, active, queued, lock, task, toggles, crashes>>

AddUser(f) ==
    LET r == refresh[f]
    IN  /\ r.pc = "applying"
        /\ \E u \in r.start :
             /\ active' = active \cup {u}
             /\ SetRefresh(f, [pc |-> "sending", start |-> r.start \ {u},
                               stop |-> r.stop, user |-> u])
        /\ UNCHANGED <<eligible, queued, lock, task, toggles, crashes>>

SendFirstTick(f) ==
    LET r == refresh[f]
    IN  /\ r.pc = "sending"
        /\ queued' = [queued EXCEPT ![r.user] = @ + 1]
        /\ SetRefresh(f, [pc |-> "applying", start |-> r.start, stop |-> r.stop])
        /\ UNCHANGED <<eligible, active, lock, task, toggles, crashes>>

RemoveUser(f) ==
    LET r == refresh[f]
    IN  /\ r.pc = "applying" /\ r.start = {}
        /\ \E u \in r.stop :
             /\ active' = active \ {u}
             /\ SetRefresh(f, [r EXCEPT !.stop = @ \ {u}])
        /\ UNCHANGED <<eligible, queued, lock, task, toggles, crashes>>

EndRefresh(f) ==
    /\ refresh[f].pc = "applying"
    /\ refresh[f].start = {} /\ refresh[f].stop = {}
    /\ SetRefresh(f, NoTask)
    /\ UNCHANGED <<eligible, active, queued, lock, task, toggles, crashes>>

-----------------------------------------------------------------------------
(* guard_tick_task *)

\* Mutant: the set is not looked at.
Admitted_always(u) == TRUE

Admitted(u) == u \in active

\* A message is taken from the queue; a user no longer in the set ends there.
Receive(w, u) ==
    /\ task[w].pc = "idle" /\ queued[u] > 0
    /\ queued' = [queued EXCEPT ![u] = @ - 1]
    /\ SetTask(w, IF Admitted(u) THEN [pc |-> "admitted", user |-> u] ELSE NoTask)
    /\ UNCHANGED <<eligible, active, lock, refresh, toggles, crashes>>

\* SET NX: the tick begins, or another one is in flight and this one is dropped.
TakeLock(w) ==
    LET u == task[w].user
    IN  /\ task[w].pc = "admitted"
        /\ IF lock[u]
           THEN SetTask(w, NoTask) /\ UNCHANGED lock
           ELSE SetTask(w, [pc |-> "ticking", user |-> u]) /\ lock' = [lock EXCEPT ![u] = TRUE]
        /\ UNCHANGED <<eligible, active, queued, refresh, toggles, crashes>>

\* Mutant: nothing deletes the lock, it is left to expire.
EndTick_keepsLock(w) ==
    /\ task[w].pc = "ticking"
    /\ SetTask(w, [pc |-> "ended", user |-> task[w].user])
    /\ UNCHANGED <<eligible, active, queued, lock, refresh, toggles, crashes>>

\* With a result or with an error, the lock is deleted (whoever's it is by now).
EndTick(w) ==
    LET u == task[w].user
    IN  /\ task[w].pc = "ticking"
        /\ lock' = [lock EXCEPT ![u] = FALSE]
        /\ SetTask(w, [pc |-> "ended", user |-> u])
        /\ UNCHANGED <<eligible, active, queued, refresh, toggles, crashes>>

\* The next tick is sent with its countdown, and this one is acknowledged.
Reschedule(w) ==
    /\ task[w].pc = "ended"
    /\ queued' = [queued EXCEPT ![task[w].user] = @ + 1]
    /\ SetTask(w, NoTask)
    /\ UNCHANGED <<eligible, active, lock, refresh, toggles, crashes>>

\* A tick that waits for Spotify may outlive its lock.
ExpireLock(u) ==
    /\ lock[u]
    /\ lock' = [lock EXCEPT ![u] = FALSE]
    /\ UNCHANGED <<eligible, active, queued, task, refresh, toggles, crashes>>

CrashTick(w) ==
    /\ task[w].pc # "idle" /\ crashes < MaxCrashes
    /\ crashes' = crashes + 1
    /\ SetTask(w, NoTask)
    /\ \/ queued' = [queued EXCEPT ![task[w].user] = @ + 1]
       \/ UNCHANGED queued
    /\ UNCHANGED <<eligible, active, lock, refresh, toggles>>

\* Delivered again or not, the next refresh starts from the beginning.
CrashRefresh(f) ==
    /\ refresh[f].pc # "idle" /\ crashes < MaxCrashes
    /\ crashes' = crashes + 1
    /\ SetRefresh(f, NoTask)
    /\ UNCHANGED <<eligible, active, queued, lock, task, toggles>>

-----------------------------------------------------------------------------
RosterInit ==
    /\ eligible = {} /\ active = {}
    /\ queued = [u \in Users |-> 0]
    /\ lock = [u \in Users |-> FALSE]
    /\ task = [w \in Workers |-> NoTask]
    /\ refresh = [f \in Refreshers |-> NoTask]
    /\ toggles = 0 /\ crashes = 0

RefreshStep(f) ==
    ReadActive(f) \/ AddUser(f) \/ SendFirstTick(f) \/ RemoveUser(f) \/ EndRefresh(f)
TickStep(w) == TakeLock(w) \/ EndTick(w) \/ Reschedule(w)

RosterNext ==
    \/ \E u \in Users : ChangeEligible(u) \/ ExpireLock(u)
    \/ \E f \in Refreshers : SelectUsers(f) \/ RefreshStep(f) \/ CrashRefresh(f)
    \/ \E w \in Workers, u \in Users : Receive(w, u)
    \/ \E w \in Workers : TickStep(w) \/ CrashTick(w)

RosterSpec == RosterInit /\ [][RosterNext]_rosterVars

\* Beat starts a refresh every 30 s, an execution that was begun is carried on,
\* and a message whose countdown is over is delivered when a worker is free.
RosterFairness ==
    /\ WF_rosterVars(\E f \in Refreshers : SelectUsers(f))
    /\ \A f \in Refreshers : WF_rosterVars(RefreshStep(f))
    /\ \A w \in Workers : WF_rosterVars(TickStep(w))
    /\ \A u \in Users : SF_rosterVars(\E w \in Workers : Receive(w, u))

RosterFairSpec == RosterSpec /\ RosterFairness

-----------------------------------------------------------------------------
(* Properties *)

RosterTypeOK ==
    /\ eligible \subseteq Users /\ active \subseteq Users
    /\ queued \in [Users -> Nat]
    /\ lock \in [Users -> BOOLEAN]
    /\ task \in [Workers -> Task]
    /\ refresh \in [Refreshers -> Refresh]
    /\ toggles \in 0..MaxToggles /\ crashes \in 0..MaxCrashes

\* A tick of u is queued, being executed, or about to be sent for the first time.
Alive(u) ==
    \/ queued[u] > 0
    \/ \E w \in Workers : Serves(w, u)
    \/ \E f \in Refreshers : refresh[f].pc = "sending" /\ refresh[f].user = u

\* As long as no execution has died, no overlap of refreshes, no dropped tick and no
\* expiring lock leaves a user of the roster without a tick.  Nothing would ever
\* start it again: the refresh takes the user for being served.
AliveUnlessDied == crashes = 0 => \A u \in active : Alive(u)

\* "Each active user has a self-rescheduling tick" (tasks/banhammer.py:1).
GuardAlive == \A u \in active : Alive(u)

\* A user who turned the guard off for good is in the end no longer polled, even
\* if refreshes that had read the old setting add them back, and workers die.
StopsWhenDisabled ==
    \A u \in Users :
        <>[](u \notin eligible)
          => <>[](queued[u] = 0 /\ \A w \in Workers : ~Serves(w, u))

\* A user who keeps the guard on, with room in the roster and no execution dying,
\* is polled again and again.  This holds of one who plays nothing too, whom the roster
\* is said to stop (workers/tasks/banhammer.py:2): see StopsWhenIdle.
RunsWhileEnabled ==
    \A u \in Users :
        <>[](u \in eligible /\ Cardinality(eligible) <= MaxActive) /\ [](crashes = 0)
          => []<>(\E w \in Workers : Ticking(w, u))

\* "stops them when they disable it or go idle for a long time" (workers/tasks/banhammer.py:2):
\* a user who plays nothing is in the end no longer polled.
StopsWhenIdle ==
    \A u \in Dormant : <>[](\A w \in Workers : ~Ticking(w, u))
=============================================================================
