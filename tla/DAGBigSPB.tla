----------------------------- MODULE DAGBigSPB ------------------------------
(***************************************************************************)
(* The instance of PAC_BIG_DAG (core/dag_bitspb.go), beside that of        *)
(* PAC_BIG.  The two differ in three points.  The height-2 block refers to *)
(* height-1 blocks of 2f+1 nodes and is proposed by the core, so it does   *)
(* not wait for the height-1 block of its proposer, neither when it is     *)
(* proposed nor when it is received; the height-1 QC is reported to the    *)
(* core (module DAGView); and speed votes go to the instance they are for. *)
(*                                                                         *)
(* A deployment runs one protocol, which the initial state chooses.        *)
(***************************************************************************)
EXTENDS BigSPB

PAC_BIG == 1
PAC_BIG_DAG == 2

VARIABLE protocol     \* parameters.Protocol (fixed)

vars == <<spbVars, protocol>>

InitEither == Init /\ protocol \in {PAC_BIG, PAC_BIG_DAG}

\* DAGBigCore gives a speed vote to the instance it is for.
DAGRoute(author, proposer) == proposer

DAGArrive ==
  \/ \E a \in Voters, q \in Node : handleSpeedVoteMsg(a, q, DAGRoute(a, q))
  \/ \E h \in Height : handleProposeMsg(h) \/ handleVoteMsg(h)

\* No Propose is parked.
DAGProcess == Goroutine \/ \E h \in Height : recordHash(h)

Arrive ==
  /\ \/ protocol = PAC_BIG /\ BigArrive
     \/ protocol = PAC_BIG_DAG /\ DAGArrive
  /\ UNCHANGED protocol

Process ==
  /\ \/ protocol = PAC_BIG /\ BigProcess
     \/ protocol = PAC_BIG_DAG /\ DAGProcess
  /\ UNCHANGED protocol

Next == Arrive \/ Process

Spec == InitEither /\ [][Next]_vars

\* The Go scheduler runs every goroutine.  Nothing is assumed of arrivals.
FairSpec == Spec /\ WF_vars(Process)
-----------------------------------------------------------------------------
\* An instance of PAC_BIG never counts more than one speed vote, that of its
\* proposer.  In a committee that tolerates a fault, SpeedCert stays FALSE and
\* processCoin commits height-1 blocks only.
SpeedVotesOfProposer ==
  protocol = PAC_BIG => speedVoteNums <= 1 /\ (isSpeedCert => HightThreshold = 1)
=============================================================================
