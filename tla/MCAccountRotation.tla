------------------------- MODULE MCAccountRotation -------------------------
(* Instances of AccountRotation for TLC. *)
EXTENDS AccountRotation

CONSTANTS e1, E1, e2    \* e1 and E1 are spellings of one name

MCFold == [e \in {e1, E1, e2, Guest} |-> IF e = E1 THEN e1 ELSE e]
=============================================================================
