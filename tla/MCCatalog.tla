----------------------------- MODULE MCCatalog -----------------------------
(* Three scenes of Catalog in one run for TLC, so that each stays small.   *)
(* A scene leaves out some imports, writers and mishaps, and never a step  *)
(* that a driver has to take.                                              *)
EXTENDS Catalog, TLC

\* t1 and t3 are known to Spotify, t2 is not; a1 is followed by every account, a2
\* by u3 alone, x is an artist Spotify does not know.
MCCredits == "t1" :> {"a1", "a2", "x"} @@ "t2" :> {} @@ "t3" :> {"a1"}
MCFollows == "u1" :> {"a1"} @@ "u2" :> {"a1"} @@ "u3" :> {"a1", "a2"}

VARIABLE scene

NoneExpired ==
    \A a \in Artists : artist[a] = "full" \/ (\E d \in Drivers : a \in run[d].artists) => a \in cached

\* The sweep and the task alone.
NobodyElse == faults = 0 /\ NoneExpired /\ \A w \in Writers : run[w] = Idle

\* "genres": the artists of one track; Spotify lets the application ask or changes its
\* mind, or a grant is gone.  "tracks": two tracks, while Spotify refuses the artists and
\* up to two grants are gone, as many as a sweep tries.  "writers": a purge, an
\* evaluation or a poll, whose locks the sweep and the task wait for, deadlocks included;
\* genres expire, Spotify refuses, or something fails; the accounts are alike.
Staged ==
    CASE scene = "genres" ->
            /\ NobodyElse
            /\ imported \subseteq {"t1"}
            /\ changes <= 1 /\ dead \subseteq {"u1"} /\ (dead # {} => imported = {"t1"})
      [] scene = "tracks" ->
            /\ NobodyElse
            /\ imported \subseteq {"t2", "t3"}
            /\ refused /\ dead \in {{}, {"u1"}, {"u1", "u2"}} /\ (dead # {} => imported = {"t2", "t3"})
      [] scene = "writers" ->
            /\ imported \subseteq {"t2", "t3"}
            /\ \A w \in Writers : run[w].tracks \subseteq {"t3"} /\ run[w].ids \subseteq {"a1"}
            /\ changes + faults <= 1 /\ (refused => changes = 1)
            /\ dead = {} /\ run["sweep"].left \in {{"u1", "u2"}, {"u2"}, {}}

Stage(A) == A /\ scene' = scene /\ Staged'

all == <<vars, scene>>

MCInit == Init /\ scene \in {"genres", "tracks", "writers"} /\ Staged

\* Catalog's FairSpec, on stage.
MCSpec ==
    /\ MCInit /\ [][Stage(Next)]_all
    /\ SF_all(Stage(SweepStep)) /\ SF_all(Stage(TaskStep)) /\ WF_all(Stage(Resolve))
    /\ \A w \in Writers : SF_all(Stage(WriterStep(w)))
    /\ WF_all(Stage(CooldownEnds)) /\ WF_all(Stage(HarvestEnds))
=============================================================================
