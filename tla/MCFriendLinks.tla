--------------------------- MODULE MCFriendLinks ---------------------------
(* Instances of FriendLinks for TLC.                                       *)
EXTENDS FriendLinks, TLC

Symmetry == Permutations(Requests)
=============================================================================
