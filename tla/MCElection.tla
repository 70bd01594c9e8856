----------------------------- MODULE MCElection -----------------------------
(* Five nodes, one of them faulty and one gone after it voted: 2f+1 needs   *)
(* every running node, and the leader can have a speed certificate without  *)
(* its own vote.  In every protocol.                                        *)
EXTENDS BigElection
=============================================================================
