----------------------------- MODULE SkipGuard -----------------------------
(***************************************************************************)
(* One user's playback and the evaluations of guard_tick                   *)
(* (services/banhammer/skip_guard.py) that watch it: those of the worker's *)
(* ticks, which ask Spotify and exclude each other by a Redis lock that    *)
(* expires, and those of the browser, whose SDK reports the state itself   *)
(* (POST /banhammer/guard/event) and which take no lock.                   *)
(*                                                                         *)
(* A play is a position in what the player is going to play; TrackOf says  *)
(* which track that is.  What GET /me/player answers may lag behind the    *)
(* player for a moment.  The genres of a track's artists are either all in *)
(* the Redis cache or not.                                                 *)
(***************************************************************************)
EXTENDS Integers, Sequences

CONSTANTS
    Tracks,
    TrackOf,      \* the queue of the player: a sequence of tracks
    Ticks,        \* evaluations by guard.tick
    Bridges,      \* evaluations by guard_event
    Blacklisted,  \* tracks the rules ban in the beginning
    Warm,         \* tracks whose artists are in the cache in the beginning
    MaxPosts,     \* bound: reports of the browser
    MaxChanges,   \* bound: changes of the rules
    MaxFailures   \* bound: failed requests, repeated commands, deaths

ASSUME ConstantsAssumption ==
    /\ TrackOf \in Seq(Tracks)
    /\ Blacklisted \subseteq Tracks /\ Warm \subseteq Tracks
    /\ Ticks \cap Bridges = {}
    /\ MaxPosts \in Nat /\ MaxChanges \in Nat /\ MaxFailures \in Nat

NoTrack == "none"
ASSUME NoTrackAssumption == NoTrack \notin Tracks

Plays == 1 .. Len(TrackOf)
Positions == 1 .. Len(TrackOf) + 1    \* the last one: nothing left to play
Evaluations == Ticks \cup Bridges

VARIABLES
    position,  \* the play that is on
    paused,
    reported,  \* the play GET /me/player answers with
    banned,    \* tracks the user's rules ban, exemptions taken out
    current,   \* the Redis key guard:<user>:current
    cached,    \* tracks whose artists' genres are in Redis
    tickLock,  \* the Redis key guard:<user>:lock exists
    eval,      \* what each evaluation is doing
    events,    \* skip_events: the play and whether the skip succeeded
    commands,  \* history: POST /me/player/next that Spotify carried out for a play
    resent,    \* history: plays for which the command was sent once more
    lapsed,    \* history: a lock expired under a tick that was still running
    posts, changes, failures

player == <<position, paused, reported>>
sent == <<commands, resent>>
locks == <<tickLock, lapsed>>
bounds == <<posts, changes, failures>>

vars == <<player, banned, current, cached, locks, eval, events, sent, bounds>>

Idle == [pc |-> "idle"]
Evaluation ==
    [pc : {"idle", "locked", "over"}]
    \cup [pc : {"loaded"}, bl : SUBSET Tracks]
    \cup [pc : {"posted"}, play : Plays]
    \cup [pc : {"observed", "fresh", "marked"}, bl : SUBSET Tracks, play : Plays]
    \cup {r \in [pc : {"skipping"}, bl : SUBSET Tracks, play : Plays] : TrackOf[r.play] \in r.bl}
    \cup [pc : {"skipped"}, play : Plays, success : BOOLEAN]

Set(e, r) == eval' = [eval EXCEPT ![e] = r]
Step(e, pc) == Set(e, [eval[e] EXCEPT !.pc = pc])
Observed(e) == TrackOf[eval[e].play]

Running(e) == eval[e].pc # "idle"

\* The evaluation returns or raises; a tick still has its lock to delete.
Done(e) == Set(e, [pc |-> IF e \in Ticks THEN "over" ELSE "idle"])

-----------------------------------------------------------------------------
(* The player, the user and Spotify *)

\* The track ends, or the user skips it.
NextPlay ==
    /\ position \in Plays
    /\ position' = position + 1
    /\ UNCHANGED <<paused, reported, banned, current, cached, locks, eval, events, sent, bounds>>

TogglePause ==
    /\ paused' = ~paused
    /\ UNCHANGED <<position, reported, banned, current, cached, locks, eval, events, sent, bounds>>

Report ==
    /\ reported # position
    /\ reported' = position
    /\ UNCHANGED <<position, paused, banned, current, cached, locks, eval, events, sent, bounds>>

\* Rules, artist bans and exemptions come and go (GuardRules): now they ban S.
ChangeRules(S) ==
    /\ changes < MaxChanges
    /\ changes' = changes + 1
    /\ banned' = S
    /\ UNCHANGED <<player, current, cached, locks, eval, events, sent, posts, failures>>

\* The key lives for an hour: whoever set it is done, and the answers have
\* caught up, long before.
ExpireCurrent ==
    /\ current # NoTrack /\ reported = position
    /\ \A e \in Evaluations : ~Running(e)
    /\ current' = NoTrack
    /\ UNCHANGED <<player, banned, cached, locks, eval, events, sent, bounds>>

-----------------------------------------------------------------------------
(* guard_tick *)

\* SET NX: a tick that finds the key ends there and then.
BeginTick(e) ==
    /\ e \in Ticks /\ ~Running(e)
    /\ ~tickLock /\ tickLock' = TRUE
    /\ Set(e, [pc |-> "locked"])
    /\ UNCHANGED <<player, banned, current, cached, lapsed, events, sent, bounds>>

\* The tick loads the rules first, then asks for the state of the player.
LoadRules(e) ==
    /\ eval[e].pc = "locked"
    /\ Set(e, [pc |-> "loaded", bl |-> banned])
    /\ UNCHANGED <<player, banned, current, cached, locks, events, sent, bounds>>

\* Idle players are left alone.
Observe(e) ==
    /\ eval[e].pc = "loaded"
    /\ IF paused \/ reported \notin Plays
       THEN Done(e)
       ELSE Set(e, [pc |-> "observed", bl |-> eval[e].bl, play |-> reported])
    /\ UNCHANGED <<player, banned, current, cached, locks, events, sent, bounds>>

\* The browser posts what it plays; the rules are loaded when the post arrives.
Post(e) ==
    /\ e \in Bridges /\ ~Running(e)
    /\ ~paused /\ position \in Plays
    /\ posts < MaxPosts /\ posts' = posts + 1
    /\ Set(e, [pc |-> "posted", play |-> position])
    /\ UNCHANGED <<player, banned, current, cached, locks, events, sent, changes, failures>>

ReceivePost(e) ==
    /\ eval[e].pc = "posted"
    /\ Set(e, [pc |-> "observed", bl |-> banned, play |-> eval[e].play])
    /\ UNCHANGED <<player, banned, current, cached, locks, events, sent, bounds>>

\* Mutant: the last observed track is not consulted.
Seen_never(t) == FALSE

\* Mutant: any track observed before will do.
Seen_anyTrack(t) == current # NoTrack

Seen(t) == current = t

\* GET guard:<user>:current: nothing to do for the track observed last.
Compare(e) ==
    /\ eval[e].pc = "observed"
    /\ IF Seen(Observed(e)) THEN Done(e) ELSE Step(e, "fresh")
    /\ UNCHANGED <<player, banned, current, cached, locks, events, sent, bounds>>

\* SET guard:<user>:current, before anything is known of the track.
Mark(e) ==
    /\ eval[e].pc = "fresh"
    /\ current' = Observed(e)
    /\ Step(e, "marked")
    /\ UNCHANGED <<player, banned, cached, locks, events, sent, bounds>>

\* Artists missing from the cache are fetched from Spotify and cached.
FetchGenres(e) ==
    /\ eval[e].pc = "marked" /\ Observed(e) \notin cached
    /\ cached' = cached \cup {Observed(e)}
    /\ UNCHANGED <<player, banned, current, locks, eval, events, sent, bounds>>

Verdict(e) == Observed(e) \in eval[e].bl

\* evaluate.  Not banned, or a rule that cannot be compiled and makes it raise
\* (Blacklist): either way this ends here, with the track marked as seen.
Judge(e) ==
    /\ eval[e].pc = "marked" /\ Observed(e) \in cached
    /\ IF Verdict(e) THEN Step(e, "skipping") ELSE Done(e)
    /\ UNCHANGED <<player, banned, current, cached, locks, events, sent, bounds>>

\* POST /me/player/next skips whatever is on by now.
Advance == position' = IF position \in Plays THEN position + 1 ELSE position

Skip(e) ==
    LET p == eval[e].play
    IN  /\ eval[e].pc = "skipping"
        /\ Advance
        /\ commands' = [commands EXCEPT ![p] = @ + 1]
        /\ Set(e, [pc |-> "skipped", play |-> p, success |-> TRUE])
        /\ UNCHANGED <<paused, reported, banned, current, cached, locks, events, resent, bounds>>

\* The audit row is committed.
Record(e) ==
    /\ eval[e].pc = "skipped"
    /\ events' = events \cup {<<eval[e].play, eval[e].success>>}
    /\ Done(e)
    /\ UNCHANGED <<player, banned, current, cached, locks, sent, bounds>>

\* finally: the lock is deleted, whoever's it is by now; the next tick is sent.
Release(e) ==
    /\ eval[e].pc = "over"
    /\ tickLock' = FALSE
    /\ Set(e, Idle)
    /\ UNCHANGED <<player, banned, current, cached, lapsed, events, sent, bounds>>

\* Fifteen seconds after it was taken; Spotify may keep a tick waiting for longer.
LapseLock ==
    /\ tickLock /\ tickLock' = FALSE
    /\ lapsed' = (lapsed \/ \E e \in Ticks : Running(e))
    /\ UNCHANGED <<player, banned, current, cached, eval, events, sent, bounds>>

-----------------------------------------------------------------------------
(* What goes wrong *)

Fail == failures < MaxFailures /\ failures' = failures + 1

\* The player is skipped, but the answer is a 5xx: _request sends the command again.
RepeatSkip(e) ==
    /\ eval[e].pc = "skipping"
    /\ Fail
    /\ Advance
    /\ commands' = [commands EXCEPT ![eval[e].play] = @ + 1]
    /\ resent' = resent \cup {eval[e].play}
    /\ UNCHANGED <<paused, reported, banned, current, cached, locks, eval, events, posts, changes>>

\* No device, no network, no attempts left: recorded, and that was it.
SkipFails(e) ==
    /\ eval[e].pc = "skipping"
    /\ Fail
    /\ Set(e, [pc |-> "skipped", play |-> eval[e].play, success |-> FALSE])
    /\ UNCHANGED <<player, banned, current, cached, locks, events, sent, posts, changes>>

\* A request for the player or for artists fails, or Postgres does: the evaluation
\* raises, and the chain of ticks goes on.
Abandon(e) ==
    /\ eval[e].pc \notin {"idle", "over"}
    /\ Fail
    /\ Done(e)
    /\ UNCHANGED <<player, banned, current, cached, locks, events, sent, posts, changes>>

\* The process dies: the lock stays until it expires.
Die(e) ==
    /\ Running(e)
    /\ Fail
    /\ Set(e, Idle)
    /\ UNCHANGED <<player, banned, current, cached, locks, events, sent, posts, changes>>

-----------------------------------------------------------------------------
Init ==
    /\ position = 1 /\ reported = 1 /\ paused = FALSE
    /\ banned = Blacklisted
    /\ cached = Warm
    /\ current = NoTrack
    /\ tickLock = FALSE /\ lapsed = FALSE
    /\ eval = [e \in Evaluations |-> Idle]
    /\ events = {}
    /\ commands = [p \in Plays |-> 0] /\ resent = {}
    /\ posts = 0 /\ changes = 0 /\ failures = 0

GuardTick(e) ==
    \/ BeginTick(e) \/ LoadRules(e) \/ Observe(e) \/ ReceivePost(e) \/ Compare(e)
    \/ Mark(e) \/ FetchGenres(e) \/ Judge(e) \/ Skip(e) \/ Record(e) \/ Release(e)

PlayerAndGuard ==
    \/ NextPlay \/ TogglePause \/ Report \/ ExpireCurrent \/ LapseLock
    \/ \E e \in Evaluations :
         Post(e) \/ GuardTick(e) \/ RepeatSkip(e) \/ SkipFails(e) \/ Abandon(e) \/ Die(e)

Next == PlayerAndGuard \/ \E S \in SUBSET Tracks : ChangeRules(S)

Spec == Init /\ [][Next]_vars

\* The chain of ticks goes on (GuardRoster), a report of the browser is handled,
\* and Spotify's answers catch up.
Fairness == WF_vars(Report) /\ \A e \in Evaluations : WF_vars(GuardTick(e))

FairSpec == Spec /\ Fairness

-----------------------------------------------------------------------------
(* Properties *)

TypeOK ==
    /\ position \in Positions /\ reported \in Positions /\ paused \in BOOLEAN
    /\ banned \subseteq Tracks /\ cached \subseteq Tracks
    /\ current \in Tracks \cup {NoTrack}
    /\ eval \in [Evaluations -> Evaluation]
    /\ events \subseteq Plays \X BOOLEAN
    /\ tickLock \in BOOLEAN /\ lapsed \in BOOLEAN
    /\ commands \in [Plays -> Nat] /\ resent \subseteq Plays
    /\ posts \in 0..MaxPosts /\ changes \in 0..MaxChanges /\ failures \in 0..MaxFailures

\* Ticks alone, each within its lock's fifteen seconds, command at most one skip for a
\* play, however Spotify's answers lag, whatever fails or dies, and whatever becomes of
\* the rules: a second one would hit the track after it, which nobody has judged.  What
\* does skip twice is named: a browser that reports beside the ticks, a lock that has
\* expired under a tick, and the command that is sent again after a 5xx.
OneSkipPerPlay ==
    posts = 0 /\ ~lapsed => \A p \in Plays \ resent : commands[p] <= 1

OnAndBanned(p) == position = p /\ ~paused /\ TrackOf[p] \in banned

\* As long as nothing fails and the rules stay, a banned track that is not the one seen
\* last is got rid of: by a skip, by its end, or the user pauses it.  The browser's
\* reports, late ones and those of plays that are over included, do not stand in the way.
BannedIsSkipped ==
    \A p \in Plays :
        OnAndBanned(p) /\ current # TrackOf[p] /\ failures = 0 /\ changes = 0
          ~> (~OnAndBanned(p) \/ failures > 0 \/ changes > 0)
=============================================================================
