-------------------------- MODULE MCBigViewChange ---------------------------
(* Four live nodes, one of which counts reports. *)
EXTENDS BigViewChange, TLC

CONSTANT MaxCounting   \* how many nodes may count reports

\* Everybody but the leader is interchangeable.
Symmetry == Permutations(Honest \ {Leader})

CountingBound ==
  Cardinality({n \in Node : \E l \in Level : reportNums[n][l] > 0}) <= MaxCounting
=============================================================================
