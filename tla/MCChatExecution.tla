-------------------------- MODULE MCChatExecution --------------------------
(* Instances of ChatExecution for TLC. *)
EXTENDS ChatExecution, TLC

CONSTANTS g, t1, t2

OneContext == {[prefix |-> <<t1>>, turn |-> t2]}
TwoContexts == {[prefix |-> <<>>, turn |-> t1], [prefix |-> <<t1>>, turn |-> t2]}
Symmetry == Permutations(Requests)
=============================================================================
