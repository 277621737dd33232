--------------------------- MODULE MCChatCleanup ---------------------------
(* Instances of ChatCleanup for TLC. *)
EXTENDS ChatCleanup, TLC

Symmetry == Permutations(Chats)
=============================================================================
