---------------------------- MODULE MCSRBEngine ----------------------------
(* Instances of SRBEngine for TLC. *)
EXTENDS SRBEngine, TLC

\* Target 1, lun 3, with a data buffer of two segments; then a target and lun
\* apart from it, and a request without data.
OneRequest  == {[target |-> 11, segs |-> 2]}
FewRequests == OneRequest \cup {[target |-> 18, segs |-> 2], [target |-> 11, segs |-> 0]}

Symmetry == Permutations(Tasks)
=============================================================================
