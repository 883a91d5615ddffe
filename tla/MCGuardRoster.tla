--------------------------- MODULE MCGuardRoster ---------------------------
(* Instances of GuardRoster for TLC.                                       *)
EXTENDS GuardRoster
=============================================================================
