-------------------------- MODULE SkipGuardProofs --------------------------
(***************************************************************************)
(* Ticks that exclude each other skip a play at most once, whatever the    *)
(* player plays, however its answers lag, whatever fails, and whatever the *)
(* listener edits of the rules: the guard under the rules of GuardRules is *)
(* the guard of SkipGuard.  The verdicts it acts on are what the rules     *)
(* mean.  And every user of the roster has a tick, as long as no execution *)
(* dies.                                                                   *)
(***************************************************************************)
EXTENDS GuardRules, GuardRoster, WellFoundedInduction, TLAPS

USE ConstantsAssumption, NoTrackAssumption DEF ConstantsAssumption

-----------------------------------------------------------------------------
(* Types *)

LEMMA QueueType == Len(TrackOf) \in Nat /\ \A p \in Plays : TrackOf[p] \in Tracks
BY DEF Plays

LEMMA TypeInit == Init => TypeOK
<1>. SUFFICES ASSUME Init PROVE TypeOK
  OBVIOUS
<1>1. eval \in [Evaluations -> Evaluation]
  BY DEF Init, Evaluation, Idle
<1>2. position \in Positions /\ reported \in Positions
  BY QueueType DEF Init, Positions
<1>3. commands \in [Plays -> Nat] /\ resent \subseteq Plays /\ tickLock \in BOOLEAN /\ lapsed \in BOOLEAN
  BY DEF Init
<1>4. paused \in BOOLEAN /\ banned \subseteq Tracks /\ cached \subseteq Tracks
  BY DEF Init
<1>5. current \in Tracks \cup {NoTrack} /\ events \subseteq Plays \X BOOLEAN
  BY DEF Init
<1>6. posts \in 0..MaxPosts /\ changes \in 0..MaxChanges /\ failures \in 0..MaxFailures
  BY DEF Init
<1>. QED  BY <1>1, <1>2, <1>3, <1>4, <1>5, <1>6 DEF TypeOK

LEMMA EvalFields ==
    ASSUME TypeOK, NEW e \in Evaluations
    PROVE  LET q == eval[e]
           IN  /\ q.pc = "loaded" => q.bl \subseteq Tracks
               /\ q.pc \in {"observed", "fresh", "marked", "skipping"} =>
                    /\ q.bl \subseteq Tracks /\ q.play \in Plays
                    /\ q = [pc |-> q.pc, bl |-> q.bl, play |-> q.play]
               /\ q.pc \in {"posted", "skipped"} => q.play \in Plays
               /\ q.pc = "skipped" => q.success \in BOOLEAN
BY DEF TypeOK, Evaluation, Idle

LEMMA SetType ==
    ASSUME TypeOK, NEW e \in Evaluations, NEW r \in Evaluation, Set(e, r)
    PROVE  eval' \in [Evaluations -> Evaluation]
BY DEF TypeOK, Set

\* The evaluation goes on to another phase.
LEMMA StepType ==
    ASSUME TypeOK, NEW e \in Evaluations, NEW pc, Step(e, pc),
           eval[e].pc \in {"observed", "fresh", "marked", "skipping"},
           \/ pc \in {"fresh", "marked"}
           \/ pc = "skipping" /\ Observed(e) \in eval[e].bl
    PROVE  /\ eval' \in [Evaluations -> Evaluation]
           /\ eval'[e] = [pc |-> pc, bl |-> eval[e].bl, play |-> eval[e].play]
<1>1. [eval[e] EXCEPT !.pc = pc] = [pc |-> pc, bl |-> eval[e].bl, play |-> eval[e].play]
  <2>. DEFINE q == eval[e]
  <2>1. q = [pc |-> q.pc, bl |-> q.bl, play |-> q.play]
    BY EvalFields
  <2>. HIDE DEF q
  <2>2. [q EXCEPT !.pc = pc] = [pc |-> pc, bl |-> q.bl, play |-> q.play]
    BY <2>1
  <2>. QED  BY <2>2 DEF q
<1>2. [pc |-> pc, bl |-> eval[e].bl, play |-> eval[e].play] \in Evaluation
  BY EvalFields DEF Evaluation, Observed
<1>. QED  BY <1>1, <1>2 DEF Step, Set, TypeOK

LEMMA AdvanceType ==
    ASSUME TypeOK, Advance
    PROVE  position' \in Positions /\ position <= position'
BY QueueType DEF TypeOK, Advance, Positions, Plays

LEMMA TypeStep == TypeOK /\ [Next]_vars => TypeOK'
<1>. SUFFICES ASSUME TypeOK, [Next]_vars PROVE TypeOK'
  OBVIOUS
<1>. USE DEF player, bounds, sent, locks
<1>0. Idle \in Evaluation
  BY DEF Evaluation, Idle
<1>a. ASSUME NEW e \in Evaluations, Done(e) PROVE eval' \in [Evaluations -> Evaluation]
  <2>1. [pc |-> IF e \in Ticks THEN "over" ELSE "idle"] \in Evaluation
    BY DEF Evaluation
  <2>. QED  BY <1>a, <2>1, SetType DEF Done
<1>1. CASE NextPlay
  BY <1>1, QueueType DEF NextPlay, TypeOK, Positions, Plays
<1>2. CASE TogglePause \/ Report \/ ExpireCurrent \/ LapseLock
  BY <1>2 DEF TogglePause, Report, ExpireCurrent, LapseLock, TypeOK
<1>3. ASSUME NEW S \in SUBSET Tracks, ChangeRules(S) PROVE TypeOK'
  BY <1>3 DEF ChangeRules, TypeOK
<1>4. ASSUME NEW e \in Evaluations, LoadRules(e) PROVE TypeOK'
  <2>1. [pc |-> "loaded", bl |-> banned] \in Evaluation
    BY DEF Evaluation, TypeOK
  <2>. QED  BY <1>4, <2>1, SetType DEF LoadRules, TypeOK
<1>5. ASSUME NEW e \in Evaluations, Observe(e) PROVE TypeOK'
  <2>1. reported \in Plays =>
          [pc |-> "observed", bl |-> eval[e].bl, play |-> reported] \in Evaluation
    BY <1>5, EvalFields DEF Observe, Evaluation
  <2>. QED  BY <1>a, <1>5, <2>1, SetType DEF Observe, TypeOK
<1>6. ASSUME NEW e \in Evaluations, Post(e) PROVE TypeOK'
  <2>1. [pc |-> "posted", play |-> position] \in Evaluation
    BY <1>6 DEF Post, Evaluation
  <2>. QED  BY <1>6, <2>1, SetType DEF Post, TypeOK
<1>7. ASSUME NEW e \in Evaluations, ReceivePost(e) PROVE TypeOK'
  <2>1. [pc |-> "observed", bl |-> banned, play |-> eval[e].play] \in Evaluation
    BY <1>7, EvalFields DEF ReceivePost, Evaluation, TypeOK
  <2>. QED  BY <1>7, <2>1, SetType DEF ReceivePost, TypeOK
<1>8. ASSUME NEW e \in Evaluations, Compare(e) PROVE TypeOK'
  BY <1>a, <1>8, StepType DEF Compare, TypeOK
<1>9. ASSUME NEW e \in Evaluations, Mark(e) PROVE TypeOK'
  <2>1. Observed(e) \in Tracks
    BY <1>9, EvalFields, QueueType DEF Mark, Observed
  <2>. QED  BY <1>9, <2>1, StepType DEF Mark, TypeOK
<1>10. ASSUME NEW e \in Evaluations, FetchGenres(e) PROVE TypeOK'
  <2>1. Observed(e) \in Tracks
    BY <1>10, EvalFields, QueueType DEF FetchGenres, Observed
  <2>. QED  BY <1>10, <2>1 DEF FetchGenres, TypeOK
<1>11. ASSUME NEW e \in Evaluations, Judge(e) PROVE TypeOK'
  BY <1>a, <1>11, StepType DEF Judge, Verdict, TypeOK
<1>12. ASSUME NEW e \in Evaluations, Skip(e) PROVE TypeOK'
  <2>1. [pc |-> "skipped", play |-> eval[e].play, success |-> TRUE] \in Evaluation
    BY <1>12, EvalFields DEF Skip, Evaluation
  <2>2. eval' \in [Evaluations -> Evaluation] /\ position' \in Positions
    BY <1>12, <2>1, SetType, AdvanceType DEF Skip
  <2>3. commands' \in [Plays -> Nat]
    BY <1>12, EvalFields DEF Skip, TypeOK
  <2>. QED  BY <1>12, <2>2, <2>3 DEF Skip, TypeOK
<1>13. ASSUME NEW e \in Evaluations, Record(e) PROVE TypeOK'
  BY <1>a, <1>13, EvalFields DEF Record, TypeOK
<1>14. ASSUME NEW e \in Evaluations, RepeatSkip(e) PROVE TypeOK'
  <2>1. eval[e].play \in Plays
    BY <1>14, EvalFields DEF RepeatSkip
  <2>2. commands' \in [Plays -> Nat] /\ resent' \subseteq Plays
    BY <1>14, <2>1 DEF RepeatSkip, TypeOK
  <2>. QED  BY <1>14, <2>2, AdvanceType DEF RepeatSkip, Fail, TypeOK
<1>15. ASSUME NEW e \in Evaluations, SkipFails(e) PROVE TypeOK'
  <2>1. [pc |-> "skipped", play |-> eval[e].play, success |-> FALSE] \in Evaluation
    BY <1>15, EvalFields DEF SkipFails, Evaluation
  <2>. QED  BY <1>15, <2>1, SetType DEF SkipFails, Fail, TypeOK
<1>16. ASSUME NEW e \in Evaluations, Abandon(e) PROVE TypeOK'
  BY <1>a, <1>16 DEF Abandon, Fail, TypeOK
<1>17. CASE UNCHANGED vars
  BY <1>17 DEF vars, TypeOK
<1>18. ASSUME NEW e \in Evaluations, BeginTick(e) PROVE TypeOK'
  <2>1. [pc |-> "locked"] \in Evaluation
    BY DEF Evaluation
  <2>. QED  BY <1>18, <2>1, SetType DEF BeginTick, TypeOK
<1>19. ASSUME NEW e \in Evaluations, Release(e) PROVE TypeOK'
  BY <1>0, <1>19, SetType DEF Release, TypeOK
<1>20. ASSUME NEW e \in Evaluations, Die(e) PROVE TypeOK'
  BY <1>0, <1>20, SetType DEF Die, Fail, TypeOK
<1>. QED
  BY <1>1, <1>2, <1>3, <1>4, <1>5, <1>6, <1>7, <1>8, <1>9, <1>10, <1>11, <1>12,
     <1>13, <1>14, <1>15, <1>16, <1>17, <1>18, <1>19, <1>20 DEF Next, PlayerAndGuard, GuardTick

\* Player, cache, rules and evaluations keep their types; a skip is only ever sent
\* for a track that the rules the evaluation has loaded ban.
THEOREM TypeCorrect == Spec => []TypeOK
BY TypeInit, TypeStep, PTL DEF Spec

-----------------------------------------------------------------------------
(* The ticks exclude each other, no browser has reported yet.  A play for    *)
(* which a skip was commanded is behind the player; as long as Spotify still *)
(* reports it, it is the current track.                                      *)

Watching(e) == eval[e].pc \in {"observed", "fresh", "marked", "skipping"}

\* Spotify lags behind the player.
LagInv == reported <= position

\* What is known of a play that was skipped.
SkippedInv ==
    \A p \in Plays : commands[p] > 0 =>
        /\ p < position /\ p <= reported
        /\ reported = p => current = TrackOf[p]

AtMostOnce == \A p \in Plays \ resent : commands[p] <= 1

PlayerInv == LagInv /\ SkippedInv /\ AtMostOnce

\* The evaluation lags behind Spotify.
BehindInv(e) == eval[e].pc # "posted" /\ (Watching(e) => eval[e].play <= reported)

\* What an evaluation knows of the plays that were skipped.
SeenInv(e) ==
    \A p \in Plays : commands[p] > 0 /\ Watching(e) =>
        /\ p <= eval[e].play
        /\ eval[e].play = p => current = TrackOf[p]

\* What is known of the play being evaluated.
FreshInv(e) ==
    /\ eval[e].pc \in {"fresh", "marked"} => commands[eval[e].play] = 0
    /\ eval[e].pc = "skipping" => commands[eval[e].play] = 0 \/ eval[e].play \in resent
    /\ eval[e].pc \in {"marked", "skipping"} => current = TrackOf[eval[e].play]

TickInv(e) == BehindInv(e) /\ SeenInv(e) /\ FreshInv(e)

\* No browser, and a tick that runs has the lock to itself.
Exclusive ==
    /\ \A b \in Bridges : ~Running(b)
    /\ \A e \in Ticks : Running(e) => tickLock
    /\ \A e, f \in Ticks : Running(e) /\ Running(f) => e = f

SkipInv == PlayerInv /\ Exclusive /\ \A e \in Evaluations : TickInv(e)

LEMMA Positive ==
    ASSUME TypeOK
    PROVE  /\ position \in Int /\ reported \in Int
           /\ \A p \in Plays : p \in Int /\ commands[p] \in Nat
BY QueueType DEF TypeOK, Positions, Plays

\* An evaluation that watches nothing claims nothing.
LEMMA NotWatching ==
    ASSUME NEW e, eval[e].pc \in {"idle", "locked", "loaded", "skipped", "over"}
    PROVE  TickInv(e)
BY DEF TickInv, BehindInv, SeenInv, FreshInv, Watching

LEMMA SkipInit == Init => SkipInv
<1>. SUFFICES ASSUME Init PROVE SkipInv
  OBVIOUS
<1>1. \A e \in Evaluations : eval[e].pc = "idle"
  BY DEF Init, Idle
<1>2. reported = 1 /\ position = 1 /\ \A p \in Plays : commands[p] = 0
  BY DEF Init
<1>3. PlayerInv
  BY <1>2 DEF PlayerInv, LagInv, SkippedInv, AtMostOnce
<1>4. Exclusive
  BY <1>1 DEF Exclusive, Running, Evaluations
<1>5. \A e \in Evaluations : TickInv(e)
  BY <1>1, NotWatching
<1>. QED  BY <1>3, <1>4, <1>5 DEF SkipInv

-----------------------------------------------------------------------------
(* Steps of the player, the user and Spotify *)

PlayerMoves ==
    \/ NextPlay \/ TogglePause \/ Report \/ ExpireCurrent \/ LapseLock
    \/ (\E S \in SUBSET Tracks : ChangeRules(S)) \/ UNCHANGED vars

\* They leave the evaluations and what was sent alone.
LEMMA PlayerLeaves ==
    ASSUME PlayerMoves
    PROVE  UNCHANGED <<eval, commands, resent>>
BY DEF PlayerMoves, NextPlay, TogglePause, Report, ExpireCurrent, LapseLock, ChangeRules,
       vars, sent

LEMMA PlayerStep ==
    ASSUME TypeOK, PlayerInv, PlayerMoves
    PROVE  PlayerInv' /\ \A e \in Evaluations : TickInv(e) => TickInv(e)'
<1>. USE DEF PlayerInv, player, bounds, sent, locks
<1>0. UNCHANGED <<eval, commands, resent>>
  BY PlayerLeaves
<1>a. ASSUME UNCHANGED <<reported, current>>, NEW e \in Evaluations, TickInv(e) PROVE TickInv(e)'
  BY <1>0, <1>a DEF TickInv, BehindInv, SeenInv, FreshInv, Watching
<1>1. CASE NextPlay
  <2>1. position' = position + 1 /\ UNCHANGED <<reported, current>>
    BY <1>1 DEF NextPlay
  <2>2. PlayerInv'
    BY <1>0, <2>1, Positive DEF LagInv, SkippedInv, AtMostOnce
  <2>. QED  BY <1>a, <2>1, <2>2
<1>2. CASE UNCHANGED <<position, reported, current>>
  <2>1. PlayerInv'
    BY <1>0, <1>2 DEF LagInv, SkippedInv, AtMostOnce
  <2>. QED  BY <1>a, <1>2, <2>1
<1>3. CASE Report
  <2>1. reported' = position /\ UNCHANGED <<position, current>>
    BY <1>3 DEF Report
  <2>2. PlayerInv'
    BY <1>0, <2>1, Positive DEF LagInv, SkippedInv, AtMostOnce
  <2>3. ASSUME NEW e \in Evaluations, TickInv(e) PROVE TickInv(e)'
    <3>1. Watching(e) => eval[e].play <= position
      <4>. SUFFICES ASSUME Watching(e) PROVE eval[e].play \in Int /\ eval[e].play <= reported
        BY Positive DEF LagInv
      <4>. QED  BY <2>3, EvalFields, Positive DEF TickInv, BehindInv, Watching
    <3>. QED
      BY <1>0, <2>1, <2>3, <3>1 DEF TickInv, BehindInv, SeenInv, FreshInv, Watching
  <2>. QED  BY <2>2, <2>3
<1>4. CASE ExpireCurrent
  <2>1. /\ reported = position /\ UNCHANGED <<position, reported>>
        /\ \A e \in Evaluations : eval'[e].pc = "idle"
    BY <1>0, <1>4 DEF ExpireCurrent, Running
  <2>2. PlayerInv'
    BY <1>0, <2>1, Positive DEF LagInv, SkippedInv, AtMostOnce
  <2>3. ASSUME NEW e \in Evaluations PROVE TickInv(e)'
    BY <2>1 DEF TickInv, BehindInv, SeenInv, FreshInv, Watching
  <2>. QED  BY <2>2, <2>3
<1>5. CASE TogglePause \/ LapseLock \/ (\E S \in SUBSET Tracks : ChangeRules(S)) \/ UNCHANGED vars
  BY <1>2, <1>5 DEF TogglePause, LapseLock, ChangeRules, vars
<1>. QED  BY <1>1, <1>3, <1>4, <1>5 DEF PlayerMoves

-----------------------------------------------------------------------------
(* Steps of an evaluation *)

TickMoves(e) ==
    \/ BeginTick(e) \/ LoadRules(e) \/ Observe(e) \/ Compare(e) \/ Mark(e) \/ FetchGenres(e)
    \/ Judge(e) \/ Skip(e) \/ Record(e) \/ Release(e)
    \/ RepeatSkip(e) \/ SkipFails(e) \/ Abandon(e) \/ Die(e)

LEMMA OwnStep ==
    ASSUME TypeOK, PlayerInv, NEW e \in Evaluations, TickInv(e), TickMoves(e)
    PROVE  PlayerInv' /\ TickInv(e)'
<1>. USE DEF player, bounds, sent, locks
<1>0. UNCHANGED <<position, reported, current, commands, resent>> => PlayerInv'
  BY DEF PlayerInv, LagInv, SkippedInv, AtMostOnce
<1>. DEFINE q == eval[e]
<1>a. ASSUME NEW r, Set(e, r) PROVE eval'[e] = r
  BY <1>a DEF Set, TypeOK
\* The evaluation ends, or has nothing to compare yet.
<1>b. ASSUME UNCHANGED <<position, reported, current, commands, resent>>,
             eval'[e].pc \in {"idle", "locked", "loaded", "skipped", "over"}
      PROVE  PlayerInv' /\ TickInv(e)'
  <2>1. TickInv(e)'
    BY <1>b DEF TickInv, BehindInv, SeenInv, FreshInv, Watching
  <2>. QED  BY <1>0, <1>b, <2>1
<1>c. Done(e) => eval'[e].pc \in {"idle", "over"}
  BY <1>a DEF Done
<1>5. CASE BeginTick(e) \/ LoadRules(e)
  <2>1. eval'[e].pc \in {"locked", "loaded"}
    BY <1>5, <1>a DEF BeginTick, LoadRules
  <2>. QED  BY <1>5, <1>b, <2>1 DEF BeginTick, LoadRules
<1>6. CASE Observe(e)
  <2>1. CASE paused \/ reported \notin Plays
    BY <1>6, <1>b, <1>c, <2>1 DEF Observe
  <2>2. CASE ~(paused \/ reported \notin Plays)
    <3>1. eval'[e] = [pc |-> "observed", bl |-> eval[e].bl, play |-> reported]
      BY <1>6, <1>a, <2>2 DEF Observe
    <3>2. UNCHANGED <<position, reported, current, commands, resent>>
      BY <1>6 DEF Observe
    <3>3. TickInv(e)'
      BY <3>1, <3>2, Positive
      DEF PlayerInv, SkippedInv, TickInv, BehindInv, SeenInv, FreshInv, Watching
    <3>. QED  BY <1>0, <3>2, <3>3
  <2>. QED  BY <2>1, <2>2
<1>7. CASE Compare(e)
  <2>1. CASE Seen(Observed(e))
    BY <1>7, <1>b, <1>c, <2>1 DEF Compare
  <2>2. CASE ~Seen(Observed(e))
    <3>1. eval'[e] = [pc |-> "fresh", bl |-> q.bl, play |-> q.play]
      BY <1>7, <2>2, StepType DEF Compare
    <3>2. q.play \in Plays /\ current # TrackOf[q.play] /\ Watching(e)
      BY <1>7, <2>2, EvalFields DEF Compare, Seen, Observed, Watching
    <3>3. commands[q.play] = 0
      BY <3>2, Positive DEF TickInv, SeenInv
    <3>4. UNCHANGED <<position, reported, current, commands, resent>>
      BY <1>7 DEF Compare
    <3>5. TickInv(e)'
      BY <3>1, <3>2, <3>3, <3>4 DEF TickInv, BehindInv, SeenInv, FreshInv, Watching
    <3>. QED  BY <1>0, <3>4, <3>5
  <2>. QED  BY <2>1, <2>2
<1>8. CASE Mark(e)
  <2>1. eval'[e] = [pc |-> "marked", bl |-> q.bl, play |-> q.play]
    BY <1>8, StepType DEF Mark
  <2>2. /\ current' = TrackOf[q.play] /\ q.play \in Plays
        /\ UNCHANGED <<position, reported, commands, resent>>
    BY <1>8, EvalFields DEF Mark, Observed
  <2>3. commands[q.play] = 0 /\ Watching(e) /\ q.play <= reported
    BY <1>8 DEF Mark, TickInv, FreshInv, BehindInv, Watching
  \* The plays skipped so far come before the one observed, and so before the reported one.
  <2>4. \A p \in Plays : commands[p] > 0 => p < q.play /\ p < reported
    BY <2>2, <2>3, Positive DEF TickInv, SeenInv
  <2>5. PlayerInv'
    BY <2>2, <2>4, Positive DEF PlayerInv, LagInv, SkippedInv, AtMostOnce
  <2>6. TickInv(e)'
    BY <2>1, <2>2, <2>3, <2>4, Positive DEF TickInv, BehindInv, SeenInv, FreshInv, Watching
  <2>. QED  BY <2>5, <2>6
<1>9. CASE FetchGenres(e)
  <2>1. UNCHANGED <<position, reported, current, commands, resent, eval>>
    BY <1>9 DEF FetchGenres
  <2>2. TickInv(e)'
    BY <2>1 DEF TickInv, BehindInv, SeenInv, FreshInv, Watching
  <2>. QED  BY <1>0, <2>1, <2>2
<1>10. CASE Judge(e)
  <2>1. CASE Verdict(e)
    <3>1. eval'[e] = [pc |-> "skipping", bl |-> q.bl, play |-> q.play]
      BY <1>10, <2>1, StepType DEF Judge, Verdict
    <3>2. UNCHANGED <<position, reported, current, commands, resent>>
      BY <1>10 DEF Judge
    <3>3. TickInv(e)'
      BY <1>10, <3>1, <3>2 DEF Judge, TickInv, BehindInv, SeenInv, FreshInv, Watching
    <3>. QED  BY <1>0, <3>2, <3>3
  <2>2. CASE ~Verdict(e)
    BY <1>10, <1>b, <1>c, <2>2 DEF Judge
  <2>. QED  BY <2>1, <2>2
\* A command that Spotify carries out, for the play being evaluated.
<1>d. ASSUME q.pc = "skipping", Advance, commands' = [commands EXCEPT ![q.play] = @ + 1],
             resent \subseteq resent', q.play \in resent' \/ resent' = resent,
             UNCHANGED <<reported, current>>
      PROVE  /\ PlayerInv'
             /\ q.play \in Plays /\ q.play <= reported /\ current = TrackOf[q.play]
  <2>1. /\ q.play \in Plays /\ current = TrackOf[q.play] /\ q.play <= reported
        /\ commands[q.play] = 0 \/ q.play \in resent
    BY <1>d, EvalFields DEF TickInv, FreshInv, BehindInv, Watching
  <2>2. position <= position' /\ q.play < position' /\ position' \in Int
    BY <1>d, <2>1, QueueType, Positive DEF Advance, PlayerInv, LagInv, TypeOK, Positions, Plays
  <2>3. \A p \in Plays : commands'[p] = IF p = q.play THEN commands[p] + 1 ELSE commands[p]
    BY <1>d, <2>1 DEF TypeOK
  <2>4. LagInv' /\ AtMostOnce'
    BY <1>d, <2>1, <2>2, <2>3, Positive DEF PlayerInv, LagInv, AtMostOnce
  <2>5. SkippedInv'
    BY <1>d, <2>1, <2>2, <2>3, Positive DEF PlayerInv, SkippedInv
  <2>. QED  BY <2>1, <2>4, <2>5 DEF PlayerInv
<1>11. CASE Skip(e)
  <2>1. eval'[e].pc = "skipped"
    BY <1>11, <1>a DEF Skip
  <2>2. TickInv(e)'
    BY <2>1 DEF TickInv, BehindInv, SeenInv, FreshInv, Watching
  <2>. QED  BY <1>11, <1>d, <2>2 DEF Skip
<1>13. CASE RepeatSkip(e)
  <2>1. /\ q.pc = "skipping" /\ UNCHANGED <<eval, reported, current>>
        /\ commands' = [commands EXCEPT ![q.play] = @ + 1] /\ resent' = resent \cup {q.play}
    BY <1>13 DEF RepeatSkip
  <2>2. PlayerInv' /\ q.play \in Plays /\ q.play <= reported /\ current = TrackOf[q.play]
    BY <1>13, <1>d, <2>1 DEF RepeatSkip
  <2>3. \A p \in Plays : p # q.play => commands'[p] = commands[p]
    BY <2>1 DEF TypeOK
  <2>4. BehindInv(e)' /\ FreshInv(e)'
    BY <2>1, <2>2 DEF TickInv, BehindInv, FreshInv, Watching
  <2>5. SeenInv(e)'
    BY <2>1, <2>2, <2>3, Positive DEF TickInv, SeenInv, Watching
  <2>. QED  BY <2>2, <2>4, <2>5 DEF TickInv
<1>12. CASE Record(e) \/ Abandon(e)
  BY <1>12, <1>b, <1>c DEF Record, Abandon
<1>14. CASE SkipFails(e) \/ Release(e) \/ Die(e)
  <2>1. eval'[e].pc \in {"skipped", "idle"}
    BY <1>14, <1>a DEF SkipFails, Release, Die, Idle
  <2>. QED  BY <1>14, <1>b, <2>1 DEF SkipFails, Release, Die
<1>. QED
  BY <1>5, <1>6, <1>7, <1>8, <1>9, <1>10, <1>11, <1>12, <1>13, <1>14 DEF TickMoves

\* Whoever moves is a tick, and the only one that runs.
LEMMA Alone ==
    ASSUME Exclusive, NEW b \in Evaluations, TickMoves(b)
    PROVE  /\ b \in Ticks
           /\ \A e \in Evaluations : e # b => ~Running(e)
<1>1. BeginTick(b) \/ Running(b)
  BY DEF TickMoves, LoadRules, Observe, Compare, Mark, FetchGenres, Judge, Skip, Record,
     Release, RepeatSkip, SkipFails, Abandon, Die, Running
<1>. QED  BY <1>1 DEF Exclusive, BeginTick, Evaluations

\* One tick moves the lock with itself.
LEMMA LockMoves ==
    ASSUME TypeOK, Exclusive, NEW b \in Evaluations, TickMoves(b)
    PROVE  /\ \A e \in Evaluations : e # b => eval'[e] = eval[e]
           /\ (Running(b))' => tickLock'
<1>. USE DEF locks
<1>1. \E r : Set(b, r) \/ UNCHANGED eval
  BY DEF TickMoves, BeginTick, LoadRules, Observe, Compare, Mark, FetchGenres, Judge, Skip, Record,
     Release, RepeatSkip, SkipFails, Abandon, Die, Step, Done
<1>2. \A e \in Evaluations : e # b => eval'[e] = eval[e]
  BY <1>1 DEF Set, TypeOK
<1>3. CASE BeginTick(b)
  BY <1>2, <1>3 DEF BeginTick
<1>4. CASE Release(b)
  <2>1. eval'[b] = Idle
    BY <1>4 DEF Release, Set, TypeOK
  <2>. QED  BY <1>2, <2>1 DEF Running, Idle
<1>5. CASE ~BeginTick(b) /\ ~Release(b)
  <2>1. UNCHANGED tickLock /\ Running(b)
    BY <1>5 DEF TickMoves, LoadRules, Observe, Compare, Mark, FetchGenres, Judge, Skip, Record,
       RepeatSkip, SkipFails, Abandon, Die, Running
  <2>2. tickLock
    BY <2>1, Alone DEF Exclusive
  <2>. QED  BY <1>2, <2>1, <2>2
<1>. QED  BY <1>3, <1>4, <1>5

LEMMA SkipStep ==
    ASSUME TypeOK, SkipInv, posts' = 0, lapsed' = FALSE, [Next]_vars
    PROVE  SkipInv'
<1>1. CASE PlayerMoves
  <2>1. UNCHANGED eval
    BY <1>1, PlayerLeaves
  <2>2. PlayerInv' /\ \A e \in Evaluations : TickInv(e)'
    BY <1>1, PlayerStep DEF SkipInv
  <2>3. Exclusive'
    <3>1. CASE LapseLock
      <4>1. \A e \in Ticks : ~Running(e)
        BY <3>1 DEF LapseLock
      <4>. QED  BY <2>1, <4>1 DEF SkipInv, Exclusive, Running
    <3>2. CASE UNCHANGED tickLock
      BY <2>1, <3>2 DEF SkipInv, Exclusive, Running
    <3>. QED
      BY <1>1, <3>1, <3>2
      DEF PlayerMoves, NextPlay, TogglePause, Report, ExpireCurrent, ChangeRules, vars, locks
  <2>. QED  BY <2>2, <2>3 DEF SkipInv
<1>2. ASSUME NEW b \in Evaluations, TickMoves(b) PROVE SkipInv'
  <2>1. b \in Ticks /\ \A e \in Evaluations : e # b => ~Running(e)
    BY <1>2, Alone DEF SkipInv
  <2>2. /\ \A e \in Evaluations : e # b => eval'[e] = eval[e]
        /\ (Running(b))' => tickLock'
    BY <1>2, LockMoves DEF SkipInv
  <2>3. PlayerInv' /\ TickInv(b)'
    BY <1>2, OwnStep DEF SkipInv
  <2>4. \A e \in Evaluations : e # b => eval'[e].pc = "idle"
    BY <2>1, <2>2 DEF Running
  <2>5. \A e \in Evaluations : TickInv(e)'
    <3>. SUFFICES ASSUME NEW e \in Evaluations, e # b PROVE TickInv(e)'
      BY <2>3
    <3>. QED  BY <2>4 DEF TickInv, BehindInv, SeenInv, FreshInv, Watching
  <2>6. Exclusive'
    BY <2>1, <2>2, <2>4, ConstantsAssumption DEF Exclusive, Running, Evaluations
  <2>. QED  BY <2>3, <2>5, <2>6 DEF SkipInv
<1>3. ASSUME NEW b \in Evaluations PROVE ~Post(b) /\ ~ReceivePost(b)
  BY DEF Post, ReceivePost, SkipInv, TickInv, BehindInv, TypeOK
<1>. QED
  BY <1>1, <1>2, <1>3 DEF Next, PlayerAndGuard, GuardTick, PlayerMoves, TickMoves

LEMMA HistoryStep ==
    ASSUME TypeOK, [Next]_vars, posts' = 0, lapsed' = FALSE
    PROVE  posts = 0 /\ lapsed = FALSE
<1>. USE DEF bounds, locks
<1>1. posts \in Nat /\ lapsed \in BOOLEAN
  BY DEF TypeOK
<1>2. (posts' = posts \/ posts' = posts + 1) /\ (lapsed' = lapsed \/ (lapsed => lapsed'))
  BY DEF Next, PlayerAndGuard, vars, GuardTick, NextPlay, TogglePause, Report, ExpireCurrent,
     LapseLock, ChangeRules, Post, BeginTick, LoadRules, Observe, ReceivePost, Compare, Mark,
     FetchGenres, Judge, Skip, Record, Release, RepeatSkip, SkipFails, Abandon, Die, Fail
<1>. QED  BY <1>1, <1>2

\* Any number of ticks, each of them over before its lock expires, and no report of a
\* browser: no play is skipped by two commands, not while Spotify still reports it after
\* the skip, not after failures and deaths, and not when the rules change meanwhile;
\* but for the command that is sent again after a 5xx.
THEOREM OneSkipTheorem == Spec => []OneSkipPerPlay
<1>. DEFINE Inv == posts = 0 /\ ~lapsed => SkipInv
<1>1. Init => Inv
  BY SkipInit
<1>2. TypeOK /\ Inv /\ [Next]_vars => Inv'
  <2>. SUFFICES ASSUME TypeOK, Inv, [Next]_vars, posts' = 0, ~lapsed'
                PROVE  SkipInv'
    OBVIOUS
  <2>1. lapsed' = FALSE
    BY TypeStep DEF TypeOK
  <2>2. SkipInv
    BY <2>1, HistoryStep
  <2>. QED  BY <2>1, <2>2, SkipStep
<1>3. Inv => OneSkipPerPlay
  BY DEF SkipInv, PlayerInv, AtMostOnce, OneSkipPerPlay
<1>. QED  BY <1>1, <1>2, <1>3, TypeCorrect, PTL DEF Spec

-----------------------------------------------------------------------------
(* Under the rules: what is proved of any change of the banned tracks holds *)
(* of the endpoints' edits.                                                *)

LEMMA EditIsChange ==
    ASSUME Edit
    PROVE  ChangeRules(BannedBy(LoadBlacklist', "skip_guard"))
BY DEF Edit, AddGenre, DeleteGenre, BanArtist, AddExemption, Reload

LEMMA StepIsGuardStep ==
    ASSUME [RulesNext]_<<vars, rows>>
    PROVE  [Next]_vars
<1>1. CASE Edit
  <2>1. BannedBy(LoadBlacklist', "skip_guard") \in SUBSET Tracks
    BY DEF BannedBy
  <2>. QED
    BY <1>1, <2>1, EditIsChange DEF Next
<1>2. CASE PlayerAndGuard
  BY <1>2 DEF Next
<1>3. CASE UNCHANGED <<vars, rows>>
  BY <1>3
<1>. QED
  BY <1>1, <1>2, <1>3 DEF RulesNext

\* Every run of the guard under the endpoints' edits of the rules is a run of SkipGuard.
THEOREM RulesRefineGuard == RulesSpec => Spec
<1>1. RulesInit => Init
  BY DEF RulesInit
<1>2. [RulesNext]_<<vars, rows>> => [Next]_vars
  BY StepIsGuardStep
<1>. QED
  BY <1>1, <1>2, PTL DEF RulesSpec, Spec

\* No play is skipped by two commands (with the exceptions OneSkipPerPlay names), whatever
\* rules, bans and exemptions the endpoints add or delete meanwhile.
THEOREM OneSkipUnderRules == RulesSpec => []OneSkipPerPlay
BY OneSkipTheorem, RulesRefineGuard

-----------------------------------------------------------------------------
(* Loops.  A library theorem about induction has an operator parameter, but *)
(* WFMin is about sets: the least n at which a set of the steps 0..N fails  *)
(* is the induction over a list.  It gives both that a recursive function   *)
(* exists and what it computes.                                             *)

LEMMA Least ==
    ASSUME NEW N \in Nat, NEW S \in SUBSET (0..N), S # {}
    PROVE  \E x \in S : \A y \in S : x <= y
<1>1. IsWellFoundedOn(OpToRel(<, Nat), Nat)
  BY NatLessThanWellFounded
<1>2. S \subseteq Nat
  OBVIOUS
<1>3. PICK x \in S : \A y \in S : <<y, x>> \notin OpToRel(<, Nat)
  BY <1>1, <1>2, WFMin
<1>4. \A y \in S : ~(y < x)
  BY <1>2, <1>3 DEF OpToRel
<1>. QED  BY <1>2, <1>4

LEMMA UpTo ==
    ASSUME NEW N \in Nat, NEW S, 0 \in S, \A n \in 1..N : n - 1 \in S => n \in S
    PROVE  \A n \in 0..N : n \in S
<1>1. SUFFICES ASSUME (0..N) \ S # {} PROVE FALSE
  OBVIOUS
<1>2. PICK x \in (0..N) \ S : \A y \in (0..N) \ S : x <= y
  BY <1>1, Least
<1>3. x \in 1..N /\ x - 1 \in 0..N /\ ~(x <= x - 1)
  BY <1>2
<1>. QED  BY <1>2, <1>3

\* f[n] is the outcome of the first n steps F, functions on V, from v on.
Outcomes(V, N, F, v, f) ==
    f \in [0..N -> V] /\ f[0] = v /\ \A n \in 1..N : f[n] = F[n][f[n - 1]]

LEMMA OutcomesExist ==
    ASSUME NEW V, NEW N \in Nat, NEW F \in [1..N -> [V -> V]], NEW v \in V
    PROVE  \E f : Outcomes(V, N, F, v, f)
<1>. DEFINE Can(n) == \E f \in [0..n -> V] : f[0] = v /\ \A k \in 1..n : f[k] = F[k][f[k - 1]]
            S == {n \in 0..N : Can(n)}
<1>1. 0 \in S
  <2>. DEFINE g == [k \in 0..0 |-> v]
  <2>1. g \in [0..0 -> V] /\ g[0] = v /\ \A k \in 1..0 : g[k] = F[k][g[k - 1]]
    OBVIOUS
  <2>2. Can(0)
    BY <2>1
  <2>. HIDE DEF Can
  <2>. QED  BY <2>2
<1>2. ASSUME NEW n \in 1..N, n - 1 \in S PROVE n \in S
  <2>1. PICK f \in [0..n - 1 -> V] : f[0] = v /\ \A k \in 1..n - 1 : f[k] = F[k][f[k - 1]]
    BY <1>2
  <2>. DEFINE g == [k \in 0..n |-> IF k = n THEN F[n][f[n - 1]] ELSE f[k]]
  <2>2. f[n - 1] \in V /\ F[n] \in [V -> V]
    BY <2>1
  <2>3. g \in [0..n -> V]
    <3>1. ASSUME NEW k \in 0..n, k # n PROVE k \in 0..n - 1
      BY <3>1
    <3>. QED  BY <2>2, <3>1
  <2>4. g[0] = v
    BY <2>1
  <2>5. ASSUME NEW k \in 1..n PROVE g[k] = F[k][g[k - 1]]
    <3>1. g[k - 1] = f[k - 1]
      OBVIOUS
    <3>2. CASE k = n
      BY <3>1, <3>2
    <3>3. CASE k # n
      <4>1. k \in 1..n - 1
        BY <3>3
      <4>. QED  BY <2>1, <3>1, <3>3, <4>1
    <3>. QED  BY <3>2, <3>3
  <2>6. Can(n)
    BY <2>3, <2>4, <2>5
  <2>. HIDE DEF Can
  <2>. QED  BY <2>6
<1>. HIDE DEF S
<1>3. \A n \in 0..N : n \in S
  BY <1>1, <1>2, UpTo
<1>4. N \in S
  BY <1>3
<1>. USE DEF S
<1>. QED  BY <1>4 DEF Outcomes

\* Outcome w is v if that decides or there are no decisions B, and one of B otherwise.
Settles(v, w, B) == IF Decided(v) \/ B = {} THEN w = v ELSE w \in B

AllDecide(B) == \A w \in B : Decided(w)
Settling(v, w, B) == Settles(v, w, B) /\ AllDecide(B)

LEMMA SettlesTwice ==
    ASSUME NEW u, NEW v, NEW w, NEW B, NEW C, AllDecide(B), Settles(u, v, B), Settles(v, w, C)
    PROVE  Settles(u, w, B \cup C)
<1>1. CASE Decided(u)
  BY <1>1 DEF Settles
<1>2. CASE ~Decided(u) /\ B = {}
  BY <1>2 DEF Settles
<1>3. CASE ~Decided(u) /\ B # {}
  BY <1>3 DEF Settles, AllDecide
<1>. QED  BY <1>1, <1>2, <1>3

\* A loop whose steps settle the verdict settles it.
StepsSettle(N, f, B) == \A n \in 1..N : AllDecide(B[n]) /\ Settles(f[n - 1], f[n], B[n])
AllSettle(N, f, B) ==
    Settles(f[0], f[N], UNION {B[n] : n \in 1..N}) /\ AllDecide(UNION {B[n] : n \in 1..N})

LEMMA LoopSettles ==
    ASSUME NEW N \in Nat, NEW f, NEW B, StepsSettle(N, f, B)
    PROVE  AllSettle(N, f, B)
<1>. DEFINE U(n) == UNION {B[k] : k \in 1..n}
            S == {n \in 0..N : Settles(f[0], f[n], U(n))}
<1>1. 0 \in S
  <2>1. U(0) = {}
    OBVIOUS
  <2>. QED  BY <2>1 DEF Settles
<1>2. ASSUME NEW n \in 1..N, n - 1 \in S PROVE n \in S
  <2>1. U(n) = U(n - 1) \cup B[n]
    <3>1. ASSUME NEW k \in 1..n, k # n PROVE k \in 1..n - 1
      BY <3>1
    <3>. QED  BY <3>1
  <2>2. AllDecide(U(n - 1))
    <3>1. \A k \in 1..n - 1 : AllDecide(B[k])
      BY DEF StepsSettle
    <3>. QED  BY <3>1 DEF AllDecide
  <2>3. Settles(f[0], f[n - 1], U(n - 1)) /\ Settles(f[n - 1], f[n], B[n])
    BY <1>2 DEF StepsSettle
  <2>. HIDE DEF U
  <2>. QED  BY <2>1, <2>2, <2>3, SettlesTwice
<1>. HIDE DEF S
<1>3. \A n \in 0..N : n \in S
  BY <1>1, <1>2, UpTo
<1>4. N \in S
  BY <1>3
<1>. USE DEF S
<1>5. AllDecide(U(N))
  BY DEF StepsSettle, AllDecide
<1>. QED  BY <1>4, <1>5 DEF AllSettle

-----------------------------------------------------------------------------
(* The three loops of evaluate, from the innermost one outwards: each one    *)
(* settles the verdict by the ends it may come to.                           *)

HitsGenre(r, g, context) == context \in r.for /\ r.pattern \notin Broken /\ g \in Matches[r.pattern]
RaisesOn(r, context) == context \in r.for /\ r.pattern \in Broken

\* The ends, a ban or the exception, that each loop may come to.
RuleEnds(r, a, g, context) ==
    {w \in {Ban("genre", r.pattern, a)} : HitsGenre(r, g, context)}
    \cup {w \in {Raised} : RaisesOn(r, context)}
GenreEnds(list, a, g, context) == UNION {RuleEnds(list[n], a, g, context) : n \in 1..Len(list)}
ListEnds(list, a, context) ==
    UNION {GenreEnds(list, a, GenresOf[a][n], context) : n \in 1..Len(GenresOf[a])}
ArtistEnds(bl, a, context) ==
    IF a \in bl.exempt THEN {}
    ELSE IF a \in bl.artists THEN {Ban("banned_artist", a, a)}
    ELSE ListEnds(bl.rules, a, context)
TrackEnds(bl, context, credits) ==
    UNION {ArtistEnds(bl, credits[n], context) : n \in 1..Len(credits)}

LEMMA RuleSettles ==
    ASSUME NEW r, NEW a, NEW g, NEW context, NEW v
    PROVE  Settling(v, ByRule(r, a, g, context, v), RuleEnds(r, a, g, context))
<1>. DEFINE b == Ban("genre", r.pattern, a)
<1>1. Decided(b) /\ Decided(Raised)
  BY DEF Ban, Decided
<1>2. CASE HitsGenre(r, g, context)
  <2>1. RuleEnds(r, a, g, context) = {b}
    BY <1>2 DEF RuleEnds, HitsGenre, RaisesOn
  <2>2. ByRule(r, a, g, context, v) = IF Decided(v) THEN v ELSE b
    BY <1>2 DEF ByRule, HitsGenre
  <2>. HIDE DEF b
  <2>. QED  BY <1>1, <2>1, <2>2 DEF Settles, AllDecide, Settling
<1>3. CASE RaisesOn(r, context)
  <2>1. RuleEnds(r, a, g, context) = {Raised}
    BY <1>3 DEF RuleEnds, HitsGenre, RaisesOn
  <2>2. ByRule(r, a, g, context, v) = IF Decided(v) THEN v ELSE Raised
    BY <1>3 DEF ByRule, RaisesOn
  <2>. HIDE DEF b
  <2>. QED  BY <1>1, <2>1, <2>2 DEF Settles, AllDecide, Settling
<1>4. CASE ~HitsGenre(r, g, context) /\ ~RaisesOn(r, context)
  <2>1. RuleEnds(r, a, g, context) = {}
    BY <1>4 DEF RuleEnds
  <2>2. ByRule(r, a, g, context, v) = v
    BY <1>4 DEF ByRule, HitsGenre, RaisesOn
  <2>. QED  BY <2>1, <2>2 DEF Settles, AllDecide, Settling
<1>. QED  BY <1>2, <1>3, <1>4

\* What the loop over the rules goes through from v to w.
RuleLoop(f, list, a, g, context, v, w) ==
    /\ f[0] = v /\ f[Len(list)] = w
    /\ \A n \in 1..Len(list) : f[n] = ByRule(list[n], a, g, context, f[n - 1])

LEMMA RuleLoopExists ==
    ASSUME NEW list \in Seq(Rules), NEW a, NEW g, NEW context, NEW v
    PROVE  \E f : RuleLoop(f, list, a, g, context, v, ByGenre(list, a, g, context, v))
<1>. DEFINE Turn(n, x) == ByRule(list[n], a, g, context, x)
            B(n) == RuleEnds(list[n], a, g, context)
            N == Len(list)
            V == {v} \cup UNION {B(n) : n \in 1..N}
            F == [n \in 1..N |-> [x \in V |-> Turn(n, x)]]
            Body(f) == [n \in 0..N |-> IF n = 0 THEN v ELSE Turn(n, f[n - 1])]
            h == CHOOSE f : f = Body(f)
<1>1. N \in Nat
  OBVIOUS
<1>2. ASSUME NEW n \in 1..N, NEW x \in V PROVE Turn(n, x) \in V
  <2>1. Settling(x, Turn(n, x), B(n))
    BY RuleSettles
  <2>2. B(n) \subseteq UNION {B(m) : m \in 1..N}
    OBVIOUS
  <2>. QED  BY <2>1, <2>2 DEF Settling, Settles
<1>3. v \in V /\ F \in [1..N -> [V -> V]]
  BY <1>2
<1>4. \A n \in 1..N, x \in V : F[n][x] = Turn(n, x)
  OBVIOUS
<1>. HIDE DEF N, V, F
<1>5. PICK f : Outcomes(V, N, F, v, f)
  BY <1>1, <1>3, OutcomesExist
<1>6. f \in [0..N -> V] /\ f[0] = v /\ \A n \in 1..N : f[n] = F[n][f[n - 1]]
  BY <1>5 DEF Outcomes
<1>7. ASSUME NEW n \in 1..N PROVE f[n] = Turn(n, f[n - 1])
  BY <1>1, <1>4, <1>6
<1>8. f = Body(f)
  BY <1>1, <1>6, <1>7
<1>9. h = Body(h)
  <2>. HIDE DEF Body
  <2>. QED  BY <1>8, Zenon
<1>10. ByGenre(list, a, g, context, v) = h[N]
  BY Zenon DEF ByGenre, Loop, N
<1>. HIDE DEF h
<1>11. h[0] = v /\ \A n \in 1..N : h[n] = Turn(n, h[n - 1])
  BY <1>1, <1>9
<1>. QED  BY <1>10, <1>11 DEF RuleLoop, N

LEMMA GenreSettles ==
    ASSUME NEW list \in Seq(Rules), NEW a, NEW g, NEW context, NEW v
    PROVE  Settling(v, ByGenre(list, a, g, context, v), GenreEnds(list, a, g, context))
<1>1. PICK f : RuleLoop(f, list, a, g, context, v, ByGenre(list, a, g, context, v))
  BY RuleLoopExists
<1>2. PICK B : B = [n \in 1..Len(list) |-> RuleEnds(list[n], a, g, context)]
  OBVIOUS
<1>3. StepsSettle(Len(list), f, B)
  BY <1>1, <1>2, RuleSettles DEF RuleLoop, StepsSettle, Settling
<1>4. AllSettle(Len(list), f, B)
  BY <1>3, LoopSettles
<1>5. UNION {B[n] : n \in 1..Len(list)} = GenreEnds(list, a, g, context)
  BY <1>2 DEF GenreEnds
<1>. QED  BY <1>1, <1>4, <1>5 DEF AllSettle, RuleLoop, Settling

\* What the loop over an artist's genres goes through.
GenreLoop(f, list, a, context, v, w) ==
    /\ f[0] = v /\ f[Len(GenresOf[a])] = w
    /\ \A n \in 1..Len(GenresOf[a]) : f[n] = ByGenre(list, a, GenresOf[a][n], context, f[n - 1])

LEMMA GenreLoopExists ==
    ASSUME NEW list \in Seq(Rules), NEW a \in Artists, NEW context, NEW v
    PROVE  \E f : GenreLoop(f, list, a, context, v, ByGenres(list, a, context, v))
<1>. DEFINE Turn(n, x) == ByGenre(list, a, GenresOf[a][n], context, x)
            B(n) == GenreEnds(list, a, GenresOf[a][n], context)
            N == Len(GenresOf[a])
            V == {v} \cup UNION {B(n) : n \in 1..N}
            F == [n \in 1..N |-> [x \in V |-> Turn(n, x)]]
            Body(f) == [n \in 0..N |-> IF n = 0 THEN v ELSE Turn(n, f[n - 1])]
            h == CHOOSE f : f = Body(f)
<1>1. N \in Nat
  BY BlacklistAssumption
<1>2. ASSUME NEW n \in 1..N, NEW x \in V PROVE Turn(n, x) \in V
  <2>1. Settling(x, Turn(n, x), B(n))
    BY GenreSettles
  <2>2. B(n) \subseteq UNION {B(m) : m \in 1..N}
    OBVIOUS
  <2>. QED  BY <2>1, <2>2 DEF Settling, Settles
<1>3. v \in V /\ F \in [1..N -> [V -> V]]
  BY <1>2
<1>4. \A n \in 1..N, x \in V : F[n][x] = Turn(n, x)
  OBVIOUS
<1>. HIDE DEF N, V, F
<1>5. PICK f : Outcomes(V, N, F, v, f)
  BY <1>1, <1>3, OutcomesExist
<1>6. f \in [0..N -> V] /\ f[0] = v /\ \A n \in 1..N : f[n] = F[n][f[n - 1]]
  BY <1>5 DEF Outcomes
<1>7. ASSUME NEW n \in 1..N PROVE f[n] = Turn(n, f[n - 1])
  BY <1>1, <1>4, <1>6
<1>8. f = Body(f)
  BY <1>1, <1>6, <1>7
<1>9. h = Body(h)
  <2>. HIDE DEF Body
  <2>. QED  BY <1>8, Zenon
<1>10. ByGenres(list, a, context, v) = h[N]
  BY Zenon DEF ByGenres, Loop, N
<1>. HIDE DEF h
<1>11. h[0] = v /\ \A n \in 1..N : h[n] = Turn(n, h[n - 1])
  BY <1>1, <1>9
<1>. QED  BY <1>10, <1>11 DEF GenreLoop, N

LEMMA ListSettles ==
    ASSUME NEW list \in Seq(Rules), NEW a \in Artists, NEW context, NEW v
    PROVE  Settling(v, ByGenres(list, a, context, v), ListEnds(list, a, context))
<1>1. PICK f : GenreLoop(f, list, a, context, v, ByGenres(list, a, context, v))
  BY GenreLoopExists
<1>2. PICK B : B = [n \in 1..Len(GenresOf[a]) |-> GenreEnds(list, a, GenresOf[a][n], context)]
  OBVIOUS
<1>3. StepsSettle(Len(GenresOf[a]), f, B)
  BY <1>1, <1>2, GenreSettles DEF GenreLoop, StepsSettle, Settling
<1>4. AllSettle(Len(GenresOf[a]), f, B)
  BY <1>3, LoopSettles
<1>5. UNION {B[n] : n \in 1..Len(GenresOf[a])} = ListEnds(list, a, context)
  BY <1>2 DEF ListEnds
<1>. QED  BY <1>1, <1>4, <1>5 DEF AllSettle, GenreLoop, Settling

ByArtists(bl, context, credits, v) ==
    Loop(LAMBDA x, a : ByArtist(bl, a, context, x), v, credits)

LEMMA ArtistSettles ==
    ASSUME NEW bl, bl.rules \in Seq(Rules), NEW a \in Artists, NEW context, NEW v
    PROVE  Settling(v, ByArtist(bl, a, context, v), ArtistEnds(bl, a, context))
<1>. DEFINE b == Ban("banned_artist", a, a)
<1>1. Decided(b)
  BY DEF Ban, Decided
<1>2. GenresOf[a] \in Seq(Genres)
  BY BlacklistAssumption
<1>3. Settling(v, ByGenres(bl.rules, a, context, v),
               ListEnds(bl.rules, a, context))
  BY <1>2, ListSettles
<1>4. CASE a \in bl.exempt
  BY <1>4 DEF ByArtist, ArtistEnds, Settling, Settles, AllDecide
<1>5. CASE a \notin bl.exempt /\ a \in bl.artists
  <2>1. ByArtist(bl, a, context, v) = IF Decided(v) THEN v ELSE b
    BY <1>5 DEF ByArtist
  <2>2. ArtistEnds(bl, a, context) = {b}
    BY <1>5 DEF ArtistEnds
  <2>. HIDE DEF b
  <2>. QED  BY <1>1, <2>1, <2>2 DEF Settling, Settles, AllDecide
<1>6. CASE a \notin bl.exempt /\ a \notin bl.artists
  <2>1. ArtistEnds(bl, a, context) = ListEnds(bl.rules, a, context)
    BY <1>6 DEF ArtistEnds
  <2>2. CASE Decided(v)
    BY <1>3, <2>1, <2>2 DEF ByArtist, Settling, Settles
  <2>3. CASE ~Decided(v)
    <3>1. ByArtist(bl, a, context, v)
            = ByGenres(bl.rules, a, context, v)
      BY <1>6, <2>3, Zenon DEF ByArtist
    <3>. QED  BY <1>3, <2>1, <3>1, Zenon
  <2>. QED  BY <2>2, <2>3
<1>. QED  BY <1>4, <1>5, <1>6

\* What the loop over the artists goes through.
ArtistLoop(f, bl, context, credits, v, w) ==
    /\ f[0] = v /\ f[Len(credits)] = w
    /\ \A n \in 1..Len(credits) : f[n] = ByArtist(bl, credits[n], context, f[n - 1])

LEMMA ArtistLoopExists ==
    ASSUME NEW bl, bl.rules \in Seq(Rules), NEW context, NEW credits \in Seq(Artists), NEW v
    PROVE  \E f : ArtistLoop(f, bl, context, credits, v, ByArtists(bl, context, credits, v))
<1>. DEFINE Turn(n, x) == ByArtist(bl, credits[n], context, x)
            B(n) == ArtistEnds(bl, credits[n], context)
            N == Len(credits)
            V == {v} \cup UNION {B(n) : n \in 1..N}
            F == [n \in 1..N |-> [x \in V |-> Turn(n, x)]]
            Body(f) == [n \in 0..N |-> IF n = 0 THEN v ELSE Turn(n, f[n - 1])]
            h == CHOOSE f : f = Body(f)
<1>1. N \in Nat
  OBVIOUS
<1>2. ASSUME NEW n \in 1..N, NEW x \in V PROVE Turn(n, x) \in V
  <2>1. Settling(x, Turn(n, x), B(n))
    BY ArtistSettles
  <2>2. B(n) \subseteq UNION {B(m) : m \in 1..N}
    OBVIOUS
  <2>. QED  BY <2>1, <2>2 DEF Settling, Settles
<1>3. v \in V /\ F \in [1..N -> [V -> V]]
  BY <1>2
<1>4. \A n \in 1..N, x \in V : F[n][x] = Turn(n, x)
  OBVIOUS
<1>. HIDE DEF N, V, F
<1>5. PICK f : Outcomes(V, N, F, v, f)
  BY <1>1, <1>3, OutcomesExist
<1>6. f \in [0..N -> V] /\ f[0] = v /\ \A n \in 1..N : f[n] = F[n][f[n - 1]]
  BY <1>5 DEF Outcomes
<1>7. ASSUME NEW n \in 1..N PROVE f[n] = Turn(n, f[n - 1])
  BY <1>1, <1>4, <1>6
<1>8. f = Body(f)
  BY <1>1, <1>6, <1>7
<1>9. h = Body(h)
  <2>. HIDE DEF Body
  <2>. QED  BY <1>8, Zenon
<1>10. ByArtists(bl, context, credits, v) = h[N]
  BY Zenon DEF ByArtists, Loop, N
<1>. HIDE DEF h
<1>11. h[0] = v /\ \A n \in 1..N : h[n] = Turn(n, h[n - 1])
  BY <1>1, <1>9
<1>. QED  BY <1>10, <1>11 DEF ArtistLoop, N

LEMMA TrackSettles ==
    ASSUME NEW bl, bl.rules \in Seq(Rules), NEW context, NEW credits \in Seq(Artists), NEW v
    PROVE  Settling(v, ByArtists(bl, context, credits, v), TrackEnds(bl, context, credits))
<1>1. PICK f : ArtistLoop(f, bl, context, credits, v, ByArtists(bl, context, credits, v))
  BY ArtistLoopExists
<1>2. PICK B : B = [n \in 1..Len(credits) |-> ArtistEnds(bl, credits[n], context)]
  OBVIOUS
<1>3. StepsSettle(Len(credits), f, B)
  BY <1>1, <1>2, ArtistSettles DEF ArtistLoop, StepsSettle, Settling
<1>4. AllSettle(Len(credits), f, B)
  BY <1>3, LoopSettles
<1>5. UNION {B[n] : n \in 1..Len(credits)} = TrackEnds(bl, context, credits)
  BY <1>2 DEF TrackEnds
<1>. QED  BY <1>1, <1>4, <1>5 DEF AllSettle, ArtistLoop, Settling

-----------------------------------------------------------------------------
(* What the rules mean *)

\* How evaluate ends on a track: for an artist who is not exempt, with his ban, with a
\* rule that hits him, or with one that cannot be compiled.
RuleCause(w, a, context) ==
    \E i \in DOMAIN rules :
        \/ Hit(rules[i], a, context) /\ w = Ban("genre", rules[i].pattern, a)
        \/ Breaks(rules[i], a, context) /\ w = Raised

Cause(w, t, context) ==
    \E a \in NotExempt(t) :
        \/ a \in artists /\ w = Ban("banned_artist", a, a)
        \/ a \notin artists /\ RuleCause(w, a, context)

LEMMA ListEndsAre ==
    ASSUME rules \in Seq(Rules), NEW a \in Artists, NEW context, NEW w
    PROVE  w \in ListEnds(rules, a, context) <=> RuleCause(w, a, context)
<1>1. GenresOf[a] \in Seq(Genres)
  BY BlacklistAssumption
<1>2. w \in ListEnds(rules, a, context) <=>
          \E n \in 1..Len(GenresOf[a]), i \in 1..Len(rules) :
              \/ HitsGenre(rules[i], GenresOf[a][n], context) /\ w = Ban("genre", rules[i].pattern, a)
              \/ RaisesOn(rules[i], context) /\ w = Raised
  BY DEF ListEnds, GenreEnds, RuleEnds
<1>3. ASSUME NEW i \in 1..Len(rules)
      PROVE  Hit(rules[i], a, context) <=>
                 \E n \in 1..Len(GenresOf[a]) : HitsGenre(rules[i], GenresOf[a][n], context)
  <2>1. Range(GenresOf[a]) = {GenresOf[a][n] : n \in 1..Len(GenresOf[a])}
    BY <1>1 DEF Range
  <2>2. rules[i].pattern \in Broken => Matches[rules[i].pattern] = {}
    BY BlacklistAssumption
  <2>. QED  BY <2>1, <2>2 DEF Hit, HitsGenre
<1>4. ASSUME NEW i \in 1..Len(rules)
      PROVE  Breaks(rules[i], a, context) <=>
                 RaisesOn(rules[i], context) /\ \E n \in 1..Len(GenresOf[a]) : TRUE
  <2>1. GenresOf[a] # <<>> <=> 1 \in 1..Len(GenresOf[a])
    BY <1>1
  <2>2. GenresOf[a] = <<>> => 1..Len(GenresOf[a]) = {}
    BY <1>1
  <2>. QED  BY <2>1, <2>2 DEF Breaks, RaisesOn
<1>5. DOMAIN rules = 1..Len(rules)
  OBVIOUS
<1>. QED  BY <1>2, <1>3, <1>4, <1>5 DEF RuleCause

LEMMA EndsAre ==
    ASSUME rules \in Seq(Rules), NEW t \in Tracks, NEW context, NEW w
    PROVE  w \in TrackEnds(LoadBlacklist, context, CreditsOf[t]) <=> Cause(w, t, context)
<1>1. CreditsOf[t] \in Seq(Artists)
  BY TracksAssumption, BlacklistAssumption
<1>2. NotExempt(t) = {a \in {CreditsOf[t][n] : n \in 1..Len(CreditsOf[t])} : a \notin exempt}
  BY <1>1 DEF NotExempt, Range
<1>3. w \in TrackEnds(LoadBlacklist, context, CreditsOf[t]) <=>
          \E n \in 1..Len(CreditsOf[t]) : w \in ArtistEnds(LoadBlacklist, CreditsOf[t][n], context)
  BY DEF TrackEnds
<1>4. ASSUME NEW a \in Artists
      PROVE  w \in ArtistEnds(LoadBlacklist, a, context) <=>
                 /\ a \notin exempt
                 /\ \/ a \in artists /\ w = Ban("banned_artist", a, a)
                    \/ a \notin artists /\ RuleCause(w, a, context)
  <2>1. LoadBlacklist.rules = rules /\ LoadBlacklist.artists = artists /\ LoadBlacklist.exempt = exempt
    BY DEF LoadBlacklist
  <2>. QED  BY <2>1, ListEndsAre DEF ArtistEnds
<1>5. \A n \in 1..Len(CreditsOf[t]) : CreditsOf[t][n] \in Artists
  BY <1>1
<1>. QED  BY <1>2, <1>3, <1>4, <1>5 DEF Cause

LEMMA EndIs ==
    ASSUME rules \in Seq(Rules), NEW t \in Tracks, NEW context
    PROVE  LET v == Evaluate(LoadBlacklist, t, context)
               ExemptTrack == t \in exempt \/ AlbumOf[t] \in exempt
           IN  /\ Decided(v) => ~ExemptTrack /\ Cause(v, t, context)
               /\ ~Decided(v) => ExemptTrack \/ \A w : ~Cause(w, t, context)
<1>1. CreditsOf[t] \in Seq(Artists)
  BY TracksAssumption, BlacklistAssumption
<1>2. LoadBlacklist.rules = rules /\ LoadBlacklist.exempt = exempt
  BY DEF LoadBlacklist
<1>3. ~Decided(NoVerdict) /\ ~Decided([NoVerdict EXCEPT !.reason = "exempt"])
  BY DEF NoVerdict, Decided, Raised
<1>4. CASE t \in exempt \/ AlbumOf[t] \in exempt
  <2>1. Evaluate(LoadBlacklist, t, context) = [NoVerdict EXCEPT !.reason = "exempt"]
    BY <1>2, <1>4 DEF Evaluate
  <2>. QED  BY <1>3, <1>4, <2>1
<1>5. CASE t \notin exempt /\ AlbumOf[t] \notin exempt
  <2>1. {t, AlbumOf[t]} \cap LoadBlacklist.exempt = {}
    BY <1>2, <1>5
  <2>2. Evaluate(LoadBlacklist, t, context)
          = ByArtists(LoadBlacklist, context, CreditsOf[t], NoVerdict)
    BY <2>1, Zenon DEF Evaluate, ByArtists
  <2>3. Settling(NoVerdict, Evaluate(LoadBlacklist, t, context),
                 TrackEnds(LoadBlacklist, context, CreditsOf[t]))
    BY <1>1, <1>2, <2>2, TrackSettles
  <2>4. \A w : w \in TrackEnds(LoadBlacklist, context, CreditsOf[t]) <=> Cause(w, t, context)
    BY EndsAre
  <2>. QED  BY <1>3, <1>5, <2>3, <2>4 DEF Settling, Settles, AllDecide
<1>. QED  BY <1>4, <1>5

\* What an end says: a ban names its reason, and the exception is no ban.
LEMMA EndSays ==
    ASSUME NEW a, NEW p
    PROVE  /\ Ban("banned_artist", a, a).banned /\ Ban("genre", p, a).banned /\ ~Raised.banned
           /\ Ban("banned_artist", a, a).artist = a /\ Ban("banned_artist", a, a).reason = "banned_artist"
           /\ Ban("genre", p, a).artist = a /\ Ban("genre", p, a).rule = p
           /\ Ban("genre", p, a).reason # "banned_artist"
BY DEF Ban, Raised, NoVerdict

LEMMA RightOfRules ==
    ASSUME rules \in Seq(Rules)
    PROVE  VerdictsRight
<1>. SUFFICES ASSUME NEW t \in Tracks, NEW context \in Contexts
              PROVE  LET v == Evaluate(LoadBlacklist, t, context)
                         ExemptTrack == t \in exempt \/ AlbumOf[t] \in exempt
                     IN  /\ v # Raised =>
                              (v.banned <=>
                                 /\ ~ExemptTrack
                                 /\ \E a \in NotExempt(t) :
                                      a \in artists \/ \E i \in DOMAIN rules : Hit(rules[i], a, context))
                         /\ v = Raised =>
                              /\ ~ExemptTrack
                              /\ \E a \in NotExempt(t) \ artists, i \in DOMAIN rules :
                                   Breaks(rules[i], a, context)
                         /\ v.banned =>
                              /\ v.artist \in NotExempt(t)
                              /\ IF v.reason = "banned_artist" THEN v.artist \in artists
                                 ELSE \E i \in DOMAIN rules :
                                         rules[i].pattern = v.rule /\ Hit(rules[i], v.artist, context)
  BY DEF VerdictsRight
<1>. DEFINE v == Evaluate(LoadBlacklist, t, context)
            ExemptTrack == t \in exempt \/ AlbumOf[t] \in exempt
            Meant == \E a \in NotExempt(t) :
                       a \in artists \/ \E i \in DOMAIN rules : Hit(rules[i], a, context)
<1>1. /\ Decided(v) => ~ExemptTrack /\ Cause(v, t, context)
      /\ ~Decided(v) => ExemptTrack \/ \A w : ~Cause(w, t, context)
  BY EndIs
<1>. HIDE DEF v, ExemptTrack
<1>2. Meant => \E w : Cause(w, t, context)
  BY DEF Cause, RuleCause
<1>3. ASSUME Cause(v, t, context), v # Raised
      PROVE  /\ v.banned /\ Meant
             /\ v.artist \in NotExempt(t)
             /\ IF v.reason = "banned_artist" THEN v.artist \in artists
                ELSE \E i \in DOMAIN rules : rules[i].pattern = v.rule /\ Hit(rules[i], v.artist, context)
  BY <1>3, EndSays DEF Cause, RuleCause
<1>4. ASSUME Cause(v, t, context), v = Raised
      PROVE  \E a \in NotExempt(t) \ artists, i \in DOMAIN rules : Breaks(rules[i], a, context)
  BY <1>4, EndSays DEF Cause, RuleCause
<1>5. Decided(v) <=> v.banned \/ v = Raised
  BY DEF Decided
<1>6. v # Raised => (v.banned <=> ~ExemptTrack /\ Meant)
  BY <1>1, <1>2, <1>3, <1>5
<1>7. v = Raised => ~ExemptTrack /\ \E a \in NotExempt(t) \ artists, i \in DOMAIN rules :
                                        Breaks(rules[i], a, context)
  BY <1>1, <1>4, <1>5
<1>8. v.banned => v # Raised /\ Cause(v, t, context)
  BY <1>1, <1>5, EndSays
<1>. QED  BY <1>3, <1>6, <1>7, <1>8 DEF v, ExemptTrack

\* Whatever rules, bans and exemptions the endpoints leave, the loops of evaluate come to
\* what the rules mean, for lists of any length, and give a reason that holds; or they
\* raise, and then for a rule that cannot be compiled and does apply.
THEOREM VerdictsTheorem == RulesSpec => []VerdictsRight
<1>1. RulesInit => rules \in Seq(Rules)
  BY StartAssumption DEF RulesInit
<1>2. rules \in Seq(Rules) /\ [RulesNext]_<<vars, rows>> => (rules \in Seq(Rules))'
  <2>. SUFFICES ASSUME rules \in Seq(Rules), [RulesNext]_<<vars, rows>> PROVE rules' \in Seq(Rules)
    OBVIOUS
  <2>1. ASSUME NEW r \in NewRules, AddGenre(r) PROVE rules' \in Seq(Rules)
    BY <2>1, StartAssumption DEF AddGenre, InsertAt
  <2>2. ASSUME NEW i \in DOMAIN rules, DeleteGenre(i) PROVE rules' \in Seq(Rules)
    BY <2>2 DEF DeleteGenre, RemoveAt
  <2>3. CASE UNCHANGED rules
    BY <2>3
  <2>. QED  BY <2>1, <2>2, <2>3 DEF RulesNext, Edit, BanArtist, AddExemption, rows
<1>. QED  BY <1>1, <1>2, RightOfRules, PTL DEF RulesSpec

-----------------------------------------------------------------------------
(* The roster: as long as no execution dies, every user of it has a tick,    *)
(* for any number of users, workers and overlapping refreshes.               *)

USE RosterAssumption DEF RosterAssumption

-----------------------------------------------------------------------------
(* Types *)

LEMMA RosterTypeInit == RosterInit => RosterTypeOK
<1>. NoTask \in Task /\ NoTask \in Refresh
  BY DEF Task, Refresh
<1>. QED  BY DEF RosterInit, RosterTypeOK

LEMMA TaskFields ==
    ASSUME RosterTypeOK, NEW w \in Workers, task[w].pc # "idle"
    PROVE  /\ task[w].user \in Users
           /\ task[w] = [pc |-> task[w].pc, user |-> task[w].user]
BY DEF RosterTypeOK, Task, NoTask

LEMMA RefreshFields ==
    ASSUME RosterTypeOK, NEW f \in Refreshers
    PROVE  /\ refresh[f].pc = "selected" => refresh[f].ids \subseteq Users
           /\ refresh[f].pc \in {"applying", "sending"} =>
                refresh[f].start \subseteq Users /\ refresh[f].stop \subseteq Users
           /\ refresh[f].pc = "sending" => refresh[f].user \in Users
BY DEF RosterTypeOK, Refresh, NoTask

LEMMA SetTaskType ==
    ASSUME RosterTypeOK, NEW w \in Workers, NEW t \in Task, SetTask(w, t)
    PROVE  task' \in [Workers -> Task]
BY DEF RosterTypeOK, SetTask

LEMMA SetRefreshType ==
    ASSUME RosterTypeOK, NEW f \in Refreshers, NEW r \in Refresh, SetRefresh(f, r)
    PROVE  refresh' \in [Refreshers -> Refresh]
BY DEF RosterTypeOK, SetRefresh

LEMMA RosterTypeStep == RosterTypeOK /\ [RosterNext]_rosterVars => RosterTypeOK'
<1>. SUFFICES ASSUME RosterTypeOK, [RosterNext]_rosterVars PROVE RosterTypeOK'
  OBVIOUS
<1>0. NoTask \in Task /\ NoTask \in Refresh
  BY DEF Task, Refresh
<1>1. ASSUME NEW u \in Users, ChangeEligible(u) PROVE RosterTypeOK'
  BY <1>1 DEF ChangeEligible, RosterTypeOK
<1>2. ASSUME NEW u \in Users, ExpireLock(u) PROVE RosterTypeOK'
  BY <1>2 DEF ExpireLock, RosterTypeOK
<1>3. ASSUME NEW f \in Refreshers, SelectUsers(f) PROVE RosterTypeOK'
  <2>1. PICK S \in Selections : SetRefresh(f, [pc |-> "selected", ids |-> S])
    BY <1>3 DEF SelectUsers
  <2>2. S \subseteq Users /\ Cardinality(S) <= MaxActive
    BY <2>1 DEF Selections, RosterTypeOK
  <2>3. [pc |-> "selected", ids |-> S] \in Refresh
    BY <2>2 DEF Refresh
  <2>. QED  BY <1>3, <2>1, <2>3, SetRefreshType DEF SelectUsers, RosterTypeOK
<1>4. ASSUME NEW f \in Refreshers, ReadActive(f) PROVE RosterTypeOK'
  <2>1. [pc |-> "applying", start |-> ToStart(refresh[f].ids),
         stop |-> ToStop(refresh[f].ids)] \in Refresh
    BY <1>4, RefreshFields DEF ReadActive, ToStart, ToStop, Refresh, RosterTypeOK
  <2>. QED  BY <1>4, <2>1, SetRefreshType DEF ReadActive, RosterTypeOK
<1>5. ASSUME NEW f \in Refreshers, AddUser(f) PROVE RosterTypeOK'
  <2>1. PICK u \in refresh[f].start :
          /\ active' = active \cup {u}
          /\ SetRefresh(f, [pc |-> "sending", start |-> refresh[f].start \ {u},
                            stop |-> refresh[f].stop, user |-> u])
    BY <1>5 DEF AddUser
  <2>2. /\ u \in Users
        /\ [pc |-> "sending", start |-> refresh[f].start \ {u},
            stop |-> refresh[f].stop, user |-> u] \in Refresh
    BY <1>5, <2>1, RefreshFields DEF AddUser, Refresh
  <2>. QED  BY <1>5, <2>1, <2>2, SetRefreshType DEF AddUser, RosterTypeOK
<1>6. ASSUME NEW f \in Refreshers, SendFirstTick(f) PROVE RosterTypeOK'
  <2>1. [pc |-> "applying", start |-> refresh[f].start, stop |-> refresh[f].stop] \in Refresh
    BY <1>6, RefreshFields DEF SendFirstTick, Refresh
  <2>. QED  BY <1>6, <2>1, SetRefreshType, RefreshFields DEF SendFirstTick, RosterTypeOK
<1>7. ASSUME NEW f \in Refreshers, RemoveUser(f) PROVE RosterTypeOK'
  <2>1. PICK u \in refresh[f].stop :
          /\ active' = active \ {u}
          /\ SetRefresh(f, [refresh[f] EXCEPT !.stop = @ \ {u}])
    BY <1>7 DEF RemoveUser
  <2>2. refresh[f] \in [pc : {"applying"}, start : SUBSET Users, stop : SUBSET Users]
    BY <1>7 DEF RemoveUser, RosterTypeOK, Refresh, NoTask
  <2>3. [refresh[f] EXCEPT !.stop = @ \ {u}] \in Refresh
    BY <2>2 DEF Refresh
  <2>. QED  BY <1>7, <2>1, <2>3, SetRefreshType DEF RemoveUser, RosterTypeOK
<1>8. ASSUME NEW f \in Refreshers, EndRefresh(f) PROVE RosterTypeOK'
  BY <1>0, <1>8, SetRefreshType DEF EndRefresh, RosterTypeOK
<1>9. ASSUME NEW f \in Refreshers, CrashRefresh(f) PROVE RosterTypeOK'
  BY <1>0, <1>9, SetRefreshType DEF CrashRefresh, RosterTypeOK
<1>10. ASSUME NEW w \in Workers, NEW u \in Users, Receive(w, u) PROVE RosterTypeOK'
  <2>1. (IF Admitted(u) THEN [pc |-> "admitted", user |-> u] ELSE NoTask) \in Task
    BY <1>0 DEF Task
  <2>. QED  BY <1>10, <2>1, SetTaskType DEF Receive, RosterTypeOK
<1>11. ASSUME NEW w \in Workers, TakeLock(w) PROVE RosterTypeOK'
  <2>1. [pc |-> "ticking", user |-> task[w].user] \in Task
    BY <1>11, TaskFields DEF TakeLock, Task
  <2>. QED  BY <1>0, <1>11, <2>1, SetTaskType DEF TakeLock, RosterTypeOK
<1>12. ASSUME NEW w \in Workers, EndTick(w) PROVE RosterTypeOK'
  <2>1. [pc |-> "ended", user |-> task[w].user] \in Task
    BY <1>12, TaskFields DEF EndTick, Task
  <2>. QED  BY <1>12, <2>1, SetTaskType DEF EndTick, RosterTypeOK
<1>13. ASSUME NEW w \in Workers, Reschedule(w) PROVE RosterTypeOK'
  BY <1>0, <1>13, SetTaskType, TaskFields DEF Reschedule, RosterTypeOK
<1>14. ASSUME NEW w \in Workers, CrashTick(w) PROVE RosterTypeOK'
  <2>1. task' \in [Workers -> Task]
    BY <1>0, <1>14, SetTaskType DEF CrashTick
  <2>2. queued' \in [Users -> Nat]
    BY <1>14, TaskFields DEF CrashTick, RosterTypeOK
  <2>3. crashes' \in 0..MaxCrashes
    BY <1>14 DEF CrashTick, RosterTypeOK
  <2>. QED  BY <1>14, <2>1, <2>2, <2>3 DEF CrashTick, RosterTypeOK
<1>15. CASE UNCHANGED rosterVars
  BY <1>15 DEF rosterVars, RosterTypeOK
<1>. QED
  BY <1>1, <1>2, <1>3, <1>4, <1>5, <1>6, <1>7, <1>8, <1>9, <1>10, <1>11,
     <1>12, <1>13, <1>14, <1>15 DEF RosterNext, RefreshStep, TickStep

\* What is in Postgres, in Redis, in the queue and in every execution keeps its
\* type; a selection is never larger than the cap.
THEOREM RosterTypeCorrect == RosterSpec => []RosterTypeOK
BY RosterTypeInit, RosterTypeStep, PTL DEF RosterSpec

-----------------------------------------------------------------------------
(* A user of the roster has a tick.  A tick is dropped only when the lock    *)
(* is taken, and a lock that exists has a tick in flight which will go on.   *)

LockHeld == \A u \in Users : lock[u] => \E w \in Workers : Ticking(w, u)

AliveInv == LockHeld /\ GuardAlive

LEMMA AliveInit == RosterInit => AliveInv
BY DEF RosterInit, AliveInv, LockHeld, GuardAlive

\* What one worker does leaves the ticks of the others as they are.
LEMMA OtherTasks ==
    ASSUME RosterTypeOK, NEW w \in Workers, NEW t, SetTask(w, t),
           NEW v \in Workers, v # w, NEW u \in Users
    PROVE  (Serves(v, u))' = Serves(v, u) /\ (Ticking(v, u))' = Ticking(v, u)
<1>1. task'[v] = task[v]
  BY DEF SetTask, RosterTypeOK
<1>. QED  BY <1>1 DEF Serves, Ticking

LEMMA OwnTask ==
    ASSUME RosterTypeOK, NEW w \in Workers, NEW t, SetTask(w, t)
    PROVE  task'[w] = t
BY DEF SetTask, RosterTypeOK

\* A refresh other than f that is sending keeps on sending.
LEMMA OtherRefreshes ==
    ASSUME RosterTypeOK, NEW f \in Refreshers, NEW r, SetRefresh(f, r),
           NEW g \in Refreshers, g # f
    PROVE  refresh'[g] = refresh[g]
BY DEF SetRefresh, RosterTypeOK

LEMMA CrashesGrow ==
    ASSUME RosterTypeOK, [RosterNext]_rosterVars, crashes' = 0
    PROVE  crashes = 0
<1>1. crashes \in Nat
  BY DEF RosterTypeOK
<1>2. crashes' = crashes \/ crashes' = crashes + 1
  BY DEF RosterNext, rosterVars, RefreshStep, TickStep, ChangeEligible, ExpireLock, SelectUsers,
     ReadActive, AddUser, SendFirstTick, RemoveUser, EndRefresh, CrashRefresh, Receive,
     TakeLock, EndTick, Reschedule, CrashTick
<1>. QED  BY <1>1, <1>2

LEMMA LockStep ==
    ASSUME RosterTypeOK, LockHeld, crashes' = 0, [RosterNext]_rosterVars
    PROVE  LockHeld'
<1>1. ASSUME NEW u \in Users, ExpireLock(u) PROVE LockHeld'
  BY <1>1 DEF ExpireLock, LockHeld, RosterTypeOK, Ticking
<1>2. ASSUME NEW w \in Workers, NEW v \in Users, Receive(w, v) PROVE LockHeld'
  <2>. SUFFICES ASSUME NEW u \in Users, lock'[u] PROVE \E x \in Workers : (Ticking(x, u))'
    BY DEF LockHeld
  <2>1. PICK x \in Workers : Ticking(x, u)
    BY <1>2 DEF LockHeld, Receive
  <2>2. x # w
    BY <1>2, <2>1 DEF Receive, Ticking
  <2>. QED  BY <1>2, <2>1, <2>2, OtherTasks DEF Receive
<1>3. ASSUME NEW w \in Workers, TakeLock(w) PROVE LockHeld'
  <2>. SUFFICES ASSUME NEW u \in Users, lock'[u] PROVE \E x \in Workers : (Ticking(x, u))'
    BY DEF LockHeld
  <2>1. CASE lock[u]
    <3>1. PICK x \in Workers : Ticking(x, u)
      BY <2>1 DEF LockHeld
    <3>2. x # w
      BY <1>3, <3>1 DEF TakeLock, Ticking
    <3>. QED  BY <1>3, <3>1, <3>2, OtherTasks DEF TakeLock
  <2>2. CASE ~lock[u]
    <3>1. /\ task[w].user = u /\ ~lock[task[w].user]
          /\ SetTask(w, [pc |-> "ticking", user |-> u])
      BY <1>3, <2>2, TaskFields DEF TakeLock, RosterTypeOK
    <3>. QED  BY <3>1, OwnTask DEF Ticking
  <2>. QED  BY <2>1, <2>2
<1>4. ASSUME NEW w \in Workers, EndTick(w) PROVE LockHeld'
  <2>. SUFFICES ASSUME NEW u \in Users, lock'[u] PROVE \E x \in Workers : (Ticking(x, u))'
    BY DEF LockHeld
  <2>1. lock[u] /\ u # task[w].user
    BY <1>4, TaskFields DEF EndTick, RosterTypeOK
  <2>2. PICK x \in Workers : Ticking(x, u)
    BY <2>1 DEF LockHeld
  <2>3. x # w
    BY <2>1, <2>2 DEF Ticking
  <2>. QED  BY <1>4, <2>2, <2>3, OtherTasks DEF EndTick
<1>5. ASSUME NEW w \in Workers, Reschedule(w) PROVE LockHeld'
  <2>. SUFFICES ASSUME NEW u \in Users, lock'[u] PROVE \E x \in Workers : (Ticking(x, u))'
    BY DEF LockHeld
  <2>1. PICK x \in Workers : Ticking(x, u)
    BY <1>5 DEF LockHeld, Reschedule
  <2>2. x # w
    BY <1>5, <2>1 DEF Reschedule, Ticking
  <2>. QED  BY <1>5, <2>1, <2>2, OtherTasks DEF Reschedule
<1>6. ASSUME NEW w \in Workers, CrashTick(w) PROVE FALSE
  BY <1>6 DEF CrashTick, RosterTypeOK
<1>7. CASE UNCHANGED <<lock, task>>
  BY <1>7 DEF LockHeld, Ticking
<1>8. ASSUME NEW f \in Refreshers,
             SelectUsers(f) \/ RefreshStep(f) \/ CrashRefresh(f)
      PROVE  UNCHANGED <<lock, task>>
  BY <1>8 DEF SelectUsers, RefreshStep, ReadActive, AddUser, SendFirstTick, RemoveUser,
     EndRefresh, CrashRefresh
<1>. QED
  BY <1>1, <1>2, <1>3, <1>4, <1>5, <1>6, <1>7, <1>8
  DEF RosterNext, TickStep, ChangeEligible, rosterVars

LEMMA AliveStep ==
    ASSUME RosterTypeOK, AliveInv, crashes' = 0, [RosterNext]_rosterVars
    PROVE  GuardAlive'
<1>. USE DEF AliveInv
<1>. SUFFICES ASSUME NEW u \in Users, u \in active' PROVE (Alive(u))'
  <2>1. RosterTypeOK'
    BY RosterTypeStep
  <2>. QED  BY <2>1 DEF GuardAlive, RosterTypeOK
<1>1. ASSUME NEW v \in Users, ChangeEligible(v) \/ ExpireLock(v) PROVE (Alive(u))'
  BY <1>1 DEF ChangeEligible, ExpireLock, GuardAlive, Alive, Serves
\* Refreshes: the messages that wait and the workers are as before, and whoever
\* was about to send a first tick still is, or has sent it.
<1>2. ASSUME NEW f \in Refreshers, SelectUsers(f) \/ ReadActive(f) \/ RemoveUser(f) \/ EndRefresh(f)
      PROVE  (Alive(u))'
  <2>1. u \in active /\ UNCHANGED <<queued, task>> /\ refresh[f].pc # "sending"
    BY <1>2 DEF SelectUsers, ReadActive, RemoveUser, EndRefresh
  <2>2. \A g \in Refreshers : g # f => refresh'[g] = refresh[g]
    BY <1>2, OtherRefreshes DEF SelectUsers, ReadActive, RemoveUser, EndRefresh
  <2>. QED  BY <2>1, <2>2 DEF GuardAlive, Alive, Serves
<1>3. ASSUME NEW f \in Refreshers, AddUser(f) PROVE (Alive(u))'
  <2>1. PICK v \in refresh[f].start :
          /\ active' = active \cup {v}
          /\ SetRefresh(f, [pc |-> "sending", start |-> refresh[f].start \ {v},
                            stop |-> refresh[f].stop, user |-> v])
    BY <1>3 DEF AddUser
  <2>2. CASE u = v
    <3>1. refresh'[f].pc = "sending" /\ refresh'[f].user = u
      BY <2>1, <2>2 DEF SetRefresh, RosterTypeOK
    <3>. QED  BY <3>1 DEF Alive
  <2>3. CASE u # v
    <3>1. u \in active /\ UNCHANGED <<queued, task>> /\ refresh[f].pc # "sending"
      BY <1>3, <2>1, <2>3 DEF AddUser
    <3>2. \A g \in Refreshers : g # f => refresh'[g] = refresh[g]
      BY <2>1, OtherRefreshes
    <3>. QED  BY <3>1, <3>2 DEF GuardAlive, Alive, Serves
  <2>. QED  BY <2>2, <2>3
<1>4. ASSUME NEW f \in Refreshers, SendFirstTick(f) PROVE (Alive(u))'
  <2>1. /\ queued' = [queued EXCEPT ![refresh[f].user] = @ + 1]
        /\ u \in active /\ UNCHANGED task
    BY <1>4 DEF SendFirstTick
  <2>2. CASE u = refresh[f].user
    BY <2>1, <2>2 DEF RosterTypeOK, Alive
  <2>3. CASE u # refresh[f].user
    <3>1. queued'[u] = queued[u]
      BY <2>1, <2>3 DEF RosterTypeOK
    <3>2. \A g \in Refreshers : g # f => refresh'[g] = refresh[g]
      BY <1>4, OtherRefreshes DEF SendFirstTick
    <3>. QED  BY <2>1, <2>3, <3>1, <3>2 DEF GuardAlive, Alive, Serves
  <2>. QED  BY <2>2, <2>3
\* Ticks.
<1>5. ASSUME NEW w \in Workers, NEW v \in Users, Receive(w, v) PROVE (Alive(u))'
  <2>1. CASE u = v
    <3>1. SetTask(w, [pc |-> "admitted", user |-> u])
      BY <1>5, <2>1 DEF Receive, Admitted
    <3>2. task'[w] = [pc |-> "admitted", user |-> u]
      BY <3>1, OwnTask
    <3>. QED  BY <3>2 DEF Alive, Serves
  <2>2. CASE u # v
    <3>1. u \in active /\ queued'[u] = queued[u] /\ UNCHANGED refresh
      BY <1>5, <2>2 DEF Receive, RosterTypeOK
    <3>2. \A x \in Workers : x # w => (Serves(x, u))' = Serves(x, u)
      BY <1>5, OtherTasks DEF Receive
    <3>3. ~Serves(w, u)
      BY <1>5 DEF Receive, Serves
    <3>. QED  BY <3>1, <3>2, <3>3 DEF GuardAlive, Alive
  <2>. QED  BY <2>1, <2>2
<1>6. ASSUME NEW w \in Workers, TakeLock(w) PROVE (Alive(u))'
  <2>0. u \in active /\ UNCHANGED <<queued, refresh>>
    BY <1>6 DEF TakeLock
  <2>1. \A x \in Workers : x # w => (Serves(x, u))' = Serves(x, u)
    BY <1>6, OtherTasks DEF TakeLock
  <2>2. CASE task[w].user = u /\ lock[u]
    <3>1. PICK x \in Workers : Ticking(x, u)
      BY <2>2 DEF LockHeld
    <3>2. x # w /\ Serves(x, u)
      BY <1>6, <3>1 DEF TakeLock, Ticking, Serves
    <3>. QED  BY <2>1, <3>2 DEF Alive
  <2>3. CASE task[w].user = u /\ ~lock[u]
    <3>1. SetTask(w, [pc |-> "ticking", user |-> u])
      BY <1>6, <2>3 DEF TakeLock
    <3>2. task'[w] = [pc |-> "ticking", user |-> u]
      BY <3>1, OwnTask
    <3>. QED  BY <3>2 DEF Alive, Serves
  <2>4. CASE task[w].user # u
    BY <2>0, <2>1, <2>4 DEF GuardAlive, Alive, Serves
  <2>. QED  BY <2>2, <2>3, <2>4
<1>7. ASSUME NEW w \in Workers, EndTick(w) PROVE (Alive(u))'
  <2>1. u \in active /\ UNCHANGED <<queued, refresh>>
    BY <1>7 DEF EndTick
  <2>2. \A x \in Workers : x # w => (Serves(x, u))' = Serves(x, u)
    BY <1>7, OtherTasks DEF EndTick
  <2>3. task'[w] = [pc |-> "ended", user |-> task[w].user]
    BY <1>7, OwnTask DEF EndTick
  <2>4. Serves(w, u) => (Serves(w, u))'
    BY <2>3 DEF Serves
  <2>. QED  BY <2>1, <2>2, <2>4 DEF GuardAlive, Alive
<1>8. ASSUME NEW w \in Workers, Reschedule(w) PROVE (Alive(u))'
  <2>1. u \in active /\ UNCHANGED refresh
        /\ queued' = [queued EXCEPT ![task[w].user] = @ + 1]
    BY <1>8 DEF Reschedule
  <2>2. CASE task[w].user = u
    BY <2>1, <2>2 DEF RosterTypeOK, Alive
  <2>3. CASE task[w].user # u
    <3>1. queued'[u] = queued[u] /\ ~Serves(w, u)
      BY <2>1, <2>3 DEF RosterTypeOK, Serves
    <3>2. \A x \in Workers : x # w => (Serves(x, u))' = Serves(x, u)
      BY <1>8, OtherTasks DEF Reschedule
    <3>. QED  BY <2>1, <3>1, <3>2 DEF GuardAlive, Alive
  <2>. QED  BY <2>2, <2>3
<1>9. ASSUME NEW w \in Workers, CrashTick(w) PROVE FALSE
  BY <1>9 DEF CrashTick, RosterTypeOK
<1>10. ASSUME NEW f \in Refreshers, CrashRefresh(f) PROVE FALSE
  BY <1>10 DEF CrashRefresh, RosterTypeOK
<1>11. CASE UNCHANGED rosterVars
  BY <1>11 DEF rosterVars, GuardAlive, Alive, Serves
<1>. QED
  BY <1>1, <1>2, <1>3, <1>4, <1>5, <1>6, <1>7, <1>8, <1>9, <1>10, <1>11
  DEF RosterNext, RefreshStep, TickStep

\* As long as no execution has died, a user of the roster has a tick: no interleaving
\* of refreshes with stale selections, of ticks that find the lock taken, and of
\* locks that expire under their ticks ends the guard of one who has it on.
THEOREM AliveTheorem == RosterSpec => []AliveUnlessDied
<1>. DEFINE Inv == crashes = 0 => AliveInv
<1>1. RosterInit => Inv
  BY AliveInit
<1>2. RosterTypeOK /\ Inv /\ [RosterNext]_rosterVars => Inv'
  <2>. SUFFICES ASSUME RosterTypeOK, Inv, [RosterNext]_rosterVars, crashes' = 0 PROVE AliveInv'
    OBVIOUS
  <2>1. crashes = 0
    BY CrashesGrow
  <2>. QED  BY <2>1, LockStep, AliveStep DEF AliveInv
<1>3. Inv => AliveUnlessDied
  BY DEF AliveInv, AliveUnlessDied, GuardAlive
<1>. QED  BY <1>1, <1>2, <1>3, RosterTypeCorrect, PTL DEF RosterSpec
=============================================================================
