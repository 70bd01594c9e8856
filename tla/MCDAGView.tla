----------------------------- MODULE MCDAGView ------------------------------
(* Four nodes, the smallest committee that tolerates a fault. *)
EXTENDS DAGView, TLC

\* The nodes other than the leader are interchangeable.
Symmetry == Permutations(Node \ {Leader})
=============================================================================
