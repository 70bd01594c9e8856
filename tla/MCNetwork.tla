----------------------------- MODULE MCNetwork ------------------------------
(* A healthy peer beside one that is faulty and one that may fail; channels *)
(* of one place, so that they fill up.                                      *)
EXTENDS Network
=============================================================================
