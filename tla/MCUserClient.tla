---------------------------- MODULE MCUserClient ----------------------------
(* Instances of UserClient for TLC. *)
EXTENDS UserClient, TLC

Symmetry == Permutations(Clients) \cup Permutations(Threads)
=============================================================================
