------------------------------- MODULE MCSPB -------------------------------
(* Four nodes, the smallest committee that tolerates a fault. *)
EXTENDS SPB, TLC

\* Two nodes are interchangeable when neither is the proposer, and both or
\* none is faulty, and both or none may leave the view.
Symmetry ==
  UNION {Permutations(S) : S \in {Faulty, Leavers \ {Proposer},
                                  Honest \ (Leavers \cup {Proposer})}}
=============================================================================
