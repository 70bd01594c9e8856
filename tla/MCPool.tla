------------------------------- MODULE MCPool -------------------------------
(* The ring has one slot more than a batch: the tightest size that works. *)
EXTENDS Pool
=============================================================================
