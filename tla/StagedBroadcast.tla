-------------------------- MODULE StagedBroadcast --------------------------
(***************************************************************************)
(* What an SPB instance promises: four stages, each open to a node when a  *)
(* quorum has reached the one before.  There are no messages, goroutines   *)
(* or counters here.                                                       *)
(***************************************************************************)
CONSTANTS Node,         \* the committee
          IsQuorum(_)   \* whether a set of nodes can certify something

VARIABLES held,       \* the nodes that recorded the height-1 block
          locked,     \* the nodes that recorded the height-1 QC
          finalized,  \* the nodes that recorded the height-2 QC
          sped        \* the proposer has the speed certificate

stages == <<held, locked, finalized, sped>>

Init ==
  /\ held = {}
  /\ locked = {}
  /\ finalized = {}
  /\ sped = FALSE

Hold(n) ==
  /\ n \notin held
  /\ held' = held \cup {n}
  /\ UNCHANGED <<locked, finalized, sped>>

Lock(n) ==
  /\ n \in held \ locked
  /\ IsQuorum(held)
  /\ locked' = locked \cup {n}
  /\ UNCHANGED <<held, finalized, sped>>

Finalize(n) ==
  /\ n \in locked \ finalized
  /\ IsQuorum(locked)
  /\ finalized' = finalized \cup {n}
  /\ UNCHANGED <<held, locked, sped>>

Speed ==
  /\ ~sped
  /\ IsQuorum(finalized)
  /\ sped' = TRUE
  /\ UNCHANGED <<held, locked, finalized>>

Next == Speed \/ \E n \in Node : Hold(n) \/ Lock(n) \/ Finalize(n)

Spec == Init /\ [][Next]_stages

\* The stages are nested, and an occupied stage has a quorum in the one before.
Backed ==
  /\ finalized \subseteq locked
  /\ locked \subseteq held
  /\ locked # {} => IsQuorum(held)
  /\ finalized # {} => IsQuorum(locked)
  /\ sped => IsQuorum(finalized)
=============================================================================
