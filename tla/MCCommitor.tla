----------------------------- MODULE MCCommitor -----------------------------
(***************************************************************************)
(* Blocks p and q of two nodes in view 0, and blocks of the leaders of the *)
(* views 2 and 3; view 1 commits nothing.  As chains, r1 extends the       *)
(* height-1 block of p, as after reports of LEVEL_1, so that p2, committed *)
(* with a speed certificate, is a fork.  As a DAG, r1 refers to both       *)
(* height-2 blocks.                                                        *)
(***************************************************************************)
EXTENDS DAGCommitor

CONSTANTS p1, p2, q1, q2, r1, r2, s1

MCBlock == {p1, p2, q1, q2, r1, r2, s1}

MCParent == [b \in MCBlock |->
  CASE b \in {p1, q1} -> NoBlock [] b = p2 -> p1 [] b = q2 -> q1
    [] b = r1 -> p1 [] b = r2 -> r1 [] b = s1 -> r2]

MCReferences == [b \in MCBlock |->
  CASE b \in {p1, q1} -> <<>> [] b \in {p2, q2} -> <<p1, q1>>
    [] b = r1 -> <<p2, q2>> [] b = r2 -> <<r1>> [] b = s1 -> <<r2>>]

MCViewOf == [b \in MCBlock |->
  CASE b \in {p1, p2, q1, q2} -> 0 [] b \in {r1, r2} -> 2 [] b = s1 -> 3]

MCHeightOf == [b \in MCBlock |-> IF b \in {p2, q2, r2} THEN 1 ELSE 0]
=============================================================================
