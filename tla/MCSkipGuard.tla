---------------------------- MODULE MCSkipGuard ----------------------------
(* The rules of GuardRules over the player of SkipGuard, for TLC.           *)
EXTENDS GuardRules

CONSTANTS t1, t2

\* A banned track, another one, and the first one again.
MCQueue == <<"rap", "jazz", "rap">>

\* The banned track has a guest, whom the rule hits; the singer is exempt.
MCCredits == "rap" :> <<"singer", "rapper">> @@ "jazz" :> <<"trio">>
MCAlbum == "rap" :> "mixtape" @@ "jazz" :> "standards"
MCGenres == "singer" :> <<"soul">> @@ "rapper" :> <<"trap", "drill">> @@ "trio" :> <<"bebop">>
MCMatches == "contains rap" :> {"trap"} @@ "exact drill" :> {"drill"} @@ "bop" :> {"bebop"} @@ "[" :> {}

MCStartRules == <<[pattern |-> "contains rap", for |-> Contexts]>>
MCNewRules ==
    {[pattern |-> "exact drill", for |-> {"purge"}],
     [pattern |-> "bop", for |-> {"skip_guard"}],
     [pattern |-> "contains rap", for |-> {"skip_guard"}],
     [pattern |-> "[", for |-> {"skip_guard"}]}
MCBlacklisted == {"rap"}

-----------------------------------------------------------------------------
(* Two scenes in one run, so that each stays small.  A scene leaves out what    *)
(* others do, and never a step that the guard has to take while the rules stay. *)

VARIABLE scene

\* "ticks": two ticks that exclude each other by a lock that may expire; a request
\* fails, a process dies, or the other track's artist is banned.  "browser": one tick
\* and the late reports of the browser; or edits in any order between two ticks.
Staged ==
    CASE scene = "ticks"   -> /\ posts = 0 /\ ~paused /\ changes + failures <= 1
                              /\ rules = StartRules /\ exempt = StartExempt /\ artists \subseteq {"trio"}
      [] scene = "browser" -> /\ failures = 0 /\ eval[t2] = Idle
                              /\ changes > 0 => posts = 0 /\ ~tickLock /\ position = 1

Stage(A) == A /\ scene' = scene /\ Staged'

MCInit == RulesInit /\ scene \in {"ticks", "browser"}

all == <<vars, rows, scene>>

MCSpec == /\ MCInit /\ [][Stage(RulesNext)]_all
          /\ WF_all(Stage(Report /\ UNCHANGED rows))
          /\ \A e \in Evaluations : WF_all(Stage(GuardTick(e) /\ UNCHANGED rows))
=============================================================================
