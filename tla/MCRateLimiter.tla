--------------------------- MODULE MCRateLimiter ---------------------------
(* Two scenes of RateLimiter in one run for TLC, so that each stays small. *)
EXTENDS RateLimiter, FiniteSets, TLC

VARIABLE scene

\* "bucket": the ordinary callers compete for tokens, over every interval of the clock;
\* the bucket can expire within the run.  "deadline": the skip guard beside an ordinary
\* caller at a time, for a shorter while.
Staged ==
    CASE scene = "bucket" -> \A g \in Priority : pc[g] = "idle"
      [] scene = "deadline" ->
            /\ now <= 3 /\ window = [from |-> 0, upto |-> MaxTime]
            /\ Cardinality({c \in Callers \ Priority : pc[c] # "idle"}) <= 1

MCInit == LimiterInit /\ scene \in {"bucket", "deadline"} /\ Staged

MCNext == LimiterNext /\ scene' = scene /\ Staged'

MCSpec == MCInit /\ [][MCNext]_<<limiterVars, scene>>

Symmetry == Permutations(Callers \ Priority) \cup Permutations(Priority)
=============================================================================
