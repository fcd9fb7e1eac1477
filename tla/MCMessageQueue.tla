--------------------------- MODULE MCMessageQueue ---------------------------
(* Instances of MessageQueue for TLC. *)
EXTENDS MessageQueue, TLC

Symmetry == Permutations(Senders) \cup Permutations(Receivers)
=============================================================================
