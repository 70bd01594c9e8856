---------------------------- MODULE MCViewChange ----------------------------
(* Four nodes, the smallest committee that tolerates a fault; five, of     *)
(* which the leader is silent, so that a node can be overtaken.             *)
EXTENDS ViewChange, TLC

CONSTANT MaxCounting   \* how many nodes may count reports

\* Everybody but the leader is interchangeable.
Symmetry == Permutations(Honest \ {Leader})

\* The invariants checked under this bound relate the counters and the proposal
\* of one node to the instance and the reports.
CountingBound ==
  Cardinality({n \in Node : \E l \in Level : reportNums[n][l] > 0}) <= MaxCounting
=============================================================================
