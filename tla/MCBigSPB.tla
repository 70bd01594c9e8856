------------------------------ MODULE MCBigSPB ------------------------------
(* One node of five, one of which is faulty, in either protocol, with its   *)
(* own instance or another's.                                               *)
EXTENDS DAGBigSPB
=============================================================================
