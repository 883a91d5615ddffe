---------------------------- MODULE PlayHistory ----------------------------
(***************************************************************************)
(* What the stream ledger promises a listener, without cursors, workers,   *)
(* transactions or a catalogue: the log grows as a gapless prefix of what  *)
(* was heard, except for plays that had aged out of the feed; rows are     *)
(* never rewritten or removed one by one; a track, once attached to an     *)
(* imported row, stays; and an account that leaves takes everything along. *)
(***************************************************************************)
EXTENDS Integers

CONSTANTS Users, MaxPlays, Window

VARIABLES heard, missed, alive, polled, imported, linked

historyVars == <<heard, missed, alive, polled, imported, linked>>

Init ==
    /\ heard = [u \in Users |-> 0]
    /\ missed = [u \in Users |-> {}]
    /\ alive = [u \in Users |-> TRUE]
    /\ polled = [u \in Users |-> {}]
    /\ imported = [u \in Users |-> {}]
    /\ linked = [u \in Users |-> {}]

\* A play happens; a play may be lost, but only one the feed no longer shows.
Hear(u) ==
    /\ alive[u] /\ heard[u] < MaxPlays
    /\ heard' = [heard EXCEPT ![u] = @ + 1]
    /\ \E gone \in SUBSET {p \in 1..MaxPlays : p <= heard[u] + 1 - Window} :
         /\ gone \cap polled[u] = {}
         /\ missed' = [missed EXCEPT ![u] = @ \cup gone]
    /\ UNCHANGED <<alive, polled, imported, linked>>

\* Log some plays; no play before a logged one may be skipped.
Log(u) ==
    /\ alive[u]
    /\ \E S \in SUBSET (1..heard[u]) :
         /\ polled' = [polled EXCEPT ![u] = @ \cup S]
         /\ \A p \in S : 1..p \subseteq polled[u] \cup S \cup missed[u]
    /\ UNCHANGED <<heard, missed, alive, imported, linked>>

\* Import some plays that really happened.
Import(u) ==
    /\ alive[u]
    /\ \E S \in SUBSET (1..heard[u]) : imported' = [imported EXCEPT ![u] = @ \cup S]
    /\ UNCHANGED <<heard, missed, alive, polled, linked>>

\* Attach tracks to imported rows, of any number of users.
Attach ==
    /\ linked' \in [Users -> SUBSET (1..MaxPlays)]
    /\ \A u \in Users : linked[u] \subseteq linked'[u] /\ linked'[u] \subseteq imported[u]
    /\ UNCHANGED <<heard, missed, alive, polled, imported>>

Leave(u) ==
    /\ alive[u]
    /\ alive' = [alive EXCEPT ![u] = FALSE]
    /\ polled' = [polled EXCEPT ![u] = {}]
    /\ imported' = [imported EXCEPT ![u] = {}]
    /\ linked' = [linked EXCEPT ![u] = {}]
    /\ UNCHANGED <<heard, missed>>

Next ==
    \/ \E u \in Users : Hear(u) \/ Log(u) \/ Import(u) \/ Leave(u)
    \/ Attach

Spec == Init /\ [][Next]_historyVars
=============================================================================
