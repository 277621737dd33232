------------------------- MODULE MCAccountRegistry -------------------------
(* Instances of AccountRegistry for TLC. *)
EXTENDS AccountRegistry, TLC

Symmetry == Permutations(Emails) \cup Permutations(Admins)
=============================================================================
