-------------------------------- MODULE SPB --------------------------------
(***************************************************************************)
(* One instance of the strong provable broadcast of PAC_LEAN (core/spb.go):*)
(* one proposer, one view, the whole committee.  Every handler of the Core *)
(* hands the message to a new goroutine, so the steps of one node's        *)
(* instance interleave freely.  The goroutines are modelled at the         *)
(* granularity of the critical sections: processProposeMsg has two, one    *)
(* under hMutex (record the hash, or park the message) and one under       *)
(* uMutex (wake what was parked), and votes after the second.              *)
(*                                                                         *)
(* The part of a Core handler that feeds the instance (storeBlock,         *)
(* messageFilter, the go statement) is here; the counting of FinVotes for  *)
(* the election is in module Election.                                     *)
(***************************************************************************)
EXTENDS Committee

CONSTANTS Proposer,   \* the proposer of the instance
          Leavers     \* the nodes that may move to a later view

ASSUME SPBAssumption ==
  /\ Proposer \in Honest
  /\ Leavers \subseteq Honest

HEIGHT_1 == 0
HEIGHT_2 == 1
Height == {HEIGHT_1, HEIGHT_2}

(***************************************************************************)
(* The proposer is honest and signs one block per height, so a message is  *)
(* known by its type, its height and the other node: the receiver of what  *)
(* the proposer broadcasts (Propose, FinVote), the author of what is sent  *)
(* to the proposer (Vote, SpeedVote).  A FinVote and a SpeedVote carry the *)
(* QC of the height-2 block.                                               *)
(***************************************************************************)
Message ==
  [type : {"Propose", "Vote"}, height : Height, node : Node]
    \cup [type : {"FinVote", "SpeedVote"}, height : {HEIGHT_2}, node : Node]

\* Mutant: a vote names the height after the block's.
VoteAbove(h, n) == [type |-> "Vote", height |-> h + 1, node |-> n]

Propose(h, n) == [type |-> "Propose", height |-> h, node |-> n]
Vote(h, n) == [type |-> "Vote", height |-> h, node |-> n]
FinVote(n) == [type |-> "FinVote", height |-> HEIGHT_2, node |-> n]
SpeedVote(n) == [type |-> "SpeedVote", height |-> HEIGHT_2, node |-> n]

VARIABLES
  net,              \* messages sent and not yet taken from a recvCh
  left,             \* the nodes whose corer.view is past this view
  stored,           \* stored[n]: the heights whose block is in n's store
  running,          \* messages whose goroutine has not entered hMutex
  waking,           \* Proposes whose goroutine is between the two sections
  blockHash,        \* blockHash[n]: the heights whose hash n has recorded
  blockQcs,         \* blockQcs[n]: the heights whose QC n has recorded
  unHandlePropose,  \* the nodes with a parked height-2 Propose
  unHandleFinVote,  \* the nodes with a parked FinVote
  voteNums,         \* the proposer's count of votes, by height
  speedVoteNums,    \* the proposer's count of speed votes
  isSpeedCert       \* the proposer's speed certificate

vars == <<net, left, stored, running, waking, blockHash, blockQcs,
          unHandlePropose, unHandleFinVote, voteNums, speedVoteNums,
          isSpeedCert>>

TypeOK ==
  /\ net \subseteq Message
  /\ left \subseteq Leavers
  /\ stored \in [Node -> SUBSET Height]
  /\ running \subseteq Message
  /\ waking \subseteq {Propose(h, n) : h \in Height, n \in Node}
  /\ blockHash \in [Node -> SUBSET Height]
  /\ blockQcs \in [Node -> SUBSET Height]
  /\ unHandlePropose \subseteq Node
  /\ unHandleFinVote \subseteq Node
  /\ voteNums \in [Height -> Nat]
  /\ speedVoteNums \in Nat
  /\ isSpeedCert \in BOOLEAN

\* The proposer has just broadcast its height-1 block, itself included.
Init ==
  /\ net = {Propose(HEIGHT_1, n) : n \in Node}
  /\ left = {}
  /\ stored = [n \in Node |-> {}]
  /\ running = {}
  /\ waking = {}
  /\ blockHash = [n \in Node |-> {}]
  /\ blockQcs = [n \in Node |-> {}]
  /\ unHandlePropose = {}
  /\ unHandleFinVote = {}
  /\ voteNums = [h \in Height |-> 0]
  /\ speedVoteNums = 0
  /\ isSpeedCert = FALSE
-----------------------------------------------------------------------------
(***************************************************************************)
(* The message loop of the Core.                                           *)
(***************************************************************************)

\* advanceView moved node n to a later view, for reasons outside the instance.
LeaveView(n) ==
  /\ n \in Leavers \ left
  /\ left' = left \cup {n}
  /\ UNCHANGED <<net, stored, running, waking, blockHash, blockQcs,
                 unHandlePropose, unHandleFinVote, voteNums, speedVoteNums,
                 isSpeedCert>>

messageFilter(n) == n \in left

\* m leaves the recvCh of node n: filtered out, or given to a goroutine.
Dispatch(n, m) ==
  /\ n \in Honest
  /\ m \in net
  /\ net' = net \ {m}
  /\ running' = IF messageFilter(n) THEN running ELSE running \cup {m}
  /\ UNCHANGED <<left, waking, blockHash, blockQcs, unHandlePropose,
                 unHandleFinVote, voteNums, speedVoteNums, isSpeedCert>>

\* Mutant: the view is looked at first.
handleProposeMsgFiltered(n, h) ==
  /\ Dispatch(n, Propose(h, n))
  /\ stored' = IF messageFilter(n) THEN stored
               ELSE [stored EXCEPT ![n] = @ \cup {h}]

\* The block is stored before the view is looked at.
handleProposeMsg(n, h) ==
  /\ Dispatch(n, Propose(h, n))
  /\ stored' = [stored EXCEPT ![n] = @ \cup {h}]

handleVoteMsg(n, h) ==
  /\ Dispatch(Proposer, Vote(h, n))
  /\ UNCHANGED stored

handleFinVoteMsg(n) ==
  /\ Dispatch(n, FinVote(n))
  /\ UNCHANGED stored

handleSpeedVoteMsg(n) ==
  /\ Dispatch(Proposer, SpeedVote(n))
  /\ UNCHANGED stored
-----------------------------------------------------------------------------
(***************************************************************************)
(* The goroutines of the instance.                                         *)
(***************************************************************************)

\* processProposeMsg, first section, height 1: record the hash.
processPropose1(n) ==
  /\ Propose(HEIGHT_1, n) \in running
  /\ running' = running \ {Propose(HEIGHT_1, n)}
  /\ waking' = waking \cup {Propose(HEIGHT_1, n)}
  /\ blockHash' = [blockHash EXCEPT ![n] = @ \cup {HEIGHT_1}]
  /\ UNCHANGED <<net, left, stored, blockQcs, unHandlePropose,
                 unHandleFinVote, voteNums, speedVoteNums, isSpeedCert>>

\* processProposeMsg, first section, height 2: the block carries the QC of
\* the height-1 block, whose hash must be known.
processPropose2(n) ==
  /\ Propose(HEIGHT_2, n) \in running
  /\ HEIGHT_1 \in blockHash[n]
  /\ running' = running \ {Propose(HEIGHT_2, n)}
  /\ waking' = waking \cup {Propose(HEIGHT_2, n)}
  /\ blockHash' = [blockHash EXCEPT ![n] = @ \cup {HEIGHT_2}]
  /\ blockQcs' = [blockQcs EXCEPT ![n] = @ \cup {HEIGHT_1}]
  /\ UNCHANGED <<net, left, stored, unHandlePropose, unHandleFinVote,
                 voteNums, speedVoteNums, isSpeedCert>>

\* ... and is parked when it is not.
parkPropose(n) ==
  /\ Propose(HEIGHT_2, n) \in running
  /\ HEIGHT_1 \notin blockHash[n]
  /\ running' = running \ {Propose(HEIGHT_2, n)}
  /\ unHandlePropose' = unHandlePropose \cup {n}
  /\ UNCHANGED <<net, left, stored, waking, blockHash, blockQcs,
                 unHandleFinVote, voteNums, speedVoteNums, isSpeedCert>>

\* Mutants: nothing is woken; both lists are woken at both heights.
ParkedNone(n, h) == {}

ParkedBoth(n, h) == {Propose(HEIGHT_2, m) : m \in unHandlePropose \cap {n}}
                      \cup {FinVote(m) : m \in unHandleFinVote \cap {n}}

\* What the second section of a height-h Propose restarts.  The lists are
\* not cleared.
Parked(n, h) ==
  IF h = HEIGHT_1 THEN {Propose(HEIGHT_2, m) : m \in unHandlePropose \cap {n}}
                  ELSE {FinVote(m) : m \in unHandleFinVote \cap {n}}

\* processProposeMsg, second section, and the vote.
wakeAndVote(n, h) ==
  /\ Propose(h, n) \in waking
  /\ waking' = waking \ {Propose(h, n)}
  /\ running' = running \cup Parked(n, h)
  /\ net' = net \cup {Vote(h, n)}
  /\ UNCHANGED <<left, stored, blockHash, blockQcs, unHandlePropose,
                 unHandleFinVote, voteNums, speedVoteNums, isSpeedCert>>

\* What the proposer broadcasts when a height-h block has its QC.
AfterQC(h) ==
  IF h = HEIGHT_1 THEN {Propose(HEIGHT_2, m) : m \in Node}
                  ELSE {FinVote(m) : m \in Node}

\* Mutant: a QC of f+1 votes.
CertifiesLow(nums) == nums = LowThreshold

\* The vote that makes 2f+1 gives the QC.
Certifies(nums) == nums = HightThreshold

processVoteMsg(n, h) ==
  /\ Vote(h, n) \in running
  /\ running' = running \ {Vote(h, n)}
  /\ voteNums' = [voteNums EXCEPT ![h] = @ + 1]
  /\ net' = IF Certifies(voteNums[h] + 1) THEN net \cup AfterQC(h) ELSE net
  /\ UNCHANGED <<left, stored, waking, blockHash, blockQcs, unHandlePropose,
                 unHandleFinVote, speedVoteNums, isSpeedCert>>

\* Mutant: the FinVote waits for the wrong height.
AwaitedHeight1 == HEIGHT_1

\* The block a FinVote waits for.
Awaited == HEIGHT_2

processFinVoteMsg(n) ==
  /\ FinVote(n) \in running
  /\ Awaited \in blockHash[n]
  /\ running' = running \ {FinVote(n)}
  /\ blockQcs' = [blockQcs EXCEPT ![n] = @ \cup {HEIGHT_2}]
  /\ net' = net \cup {SpeedVote(n)}
  /\ UNCHANGED <<left, stored, waking, blockHash, unHandlePropose,
                 unHandleFinVote, voteNums, speedVoteNums, isSpeedCert>>

parkFinVote(n) ==
  /\ FinVote(n) \in running
  /\ Awaited \notin blockHash[n]
  /\ running' = running \ {FinVote(n)}
  /\ unHandleFinVote' = unHandleFinVote \cup {n}
  /\ UNCHANGED <<net, left, stored, waking, blockHash, blockQcs,
                 unHandlePropose, voteNums, speedVoteNums, isSpeedCert>>

\* Mutant: a speed certificate of f+1 speed votes.
SpeedsLow(nums) == nums = LowThreshold

Speeds(nums) == nums = HightThreshold

processSpeedVoteMsg(n) ==
  /\ SpeedVote(n) \in running
  /\ running' = running \ {SpeedVote(n)}
  /\ speedVoteNums' = speedVoteNums + 1
  /\ isSpeedCert' = (isSpeedCert \/ Speeds(speedVoteNums + 1))
  /\ UNCHANGED <<net, left, stored, waking, blockHash, blockQcs,
                 unHandlePropose, unHandleFinVote, voteNums>>
-----------------------------------------------------------------------------
Handle(n) ==
  \/ \E h \in Height : handleProposeMsg(n, h) \/ handleVoteMsg(n, h)
  \/ handleFinVoteMsg(n)
  \/ handleSpeedVoteMsg(n)

Process(n) ==
  \/ processPropose1(n)
  \/ processPropose2(n)
  \/ parkPropose(n)
  \/ \E h \in Height : wakeAndVote(n, h) \/ processVoteMsg(n, h)
  \/ processFinVoteMsg(n)
  \/ parkFinVote(n)
  \/ processSpeedVoteMsg(n)

Next == \E n \in Node : LeaveView(n) \/ Handle(n) \/ Process(n)

Spec == Init /\ [][Next]_vars

\* A connection delivers what is written to it, the loop of an honest node
\* takes the next message, and the Go scheduler runs every goroutine.
Fairness == \A n \in Node : WF_vars(Handle(n)) /\ WF_vars(Process(n))

FairSpec == Spec /\ Fairness
-----------------------------------------------------------------------------
(***************************************************************************)
(* What the Core reads from an instance.                                   *)
(***************************************************************************)
Holders(h) == {n \in Node : h \in blockHash[n]}
Certified(h) == {n \in Node : h \in blockQcs[n]}

DecCert(n) == HEIGHT_1 \in blockQcs[n] /\ HEIGHT_2 \in blockQcs[n]

SpeedCert(n) == n = Proposer /\ isSpeedCert

(***************************************************************************)
(* Safety.                                                                 *)
(***************************************************************************)

\* A certificate stands for a quorum, although processVoteMsg and
\* processSpeedVoteMsg count messages and not authors: a node holds the QC of
\* the height-1 block only if 2f+1 nodes hold that block, the QC of the
\* height-2 block only if 2f+1 nodes hold the height-1 QC, and the proposer
\* has a speed certificate only if 2f+1 nodes hold both QCs.
QCBacked ==
  /\ Certified(HEIGHT_1) # {} => IsQuorum(Holders(HEIGHT_1))
  /\ Certified(HEIGHT_2) # {} => IsQuorum(Certified(HEIGHT_1))
  /\ isSpeedCert => IsQuorum({n \in Node : DecCert(n)})

\* processFinVoteMsg tests only the height-2 hash, and yet a node with the
\* height-2 QC has the height-2 hash and with it the height-1 QC, which DecCert
\* and QCLEvel need to find LEVEL_2; and each recorded hash has its block in the store, so that
\* the getBlock of processCoin finds it.
NestedCerts ==
  \A n \in Node :
    /\ HEIGHT_2 \in blockQcs[n] => HEIGHT_2 \in blockHash[n]
    /\ HEIGHT_2 \in blockHash[n] <=> HEIGHT_1 \in blockQcs[n]
    /\ HEIGHT_2 \in blockHash[n] => HEIGHT_1 \in blockHash[n]
    /\ blockHash[n] \subseteq stored[n]

\* No lost wake-up: when the hash a parked message waits for is recorded, a
\* goroutine is on its way that handles the message, or it was handled.
NoLostWakeup ==
  \A n \in Node :
    /\ n \in unHandlePropose /\ HEIGHT_1 \in blockHash[n] =>
         \/ Propose(HEIGHT_1, n) \in waking
         \/ Propose(HEIGHT_2, n) \in running
         \/ HEIGHT_2 \in blockHash[n]
    /\ n \in unHandleFinVote /\ HEIGHT_2 \in blockHash[n] =>
         \/ Propose(HEIGHT_2, n) \in waking
         \/ FinVote(n) \in running
         \/ HEIGHT_2 \in blockQcs[n]

\* Nodes that recorded the height-h hash and whose vote the proposer has not
\* counted yet.
VotePending(h) ==
  {n \in Node : Propose(h, n) \in waking \/ Vote(h, n) \in net \cup running}

SpeedVotePending == {n \in Node : SpeedVote(n) \in net \cup running}

Counted(h) == Holders(h) \ VotePending(h)
SpeedCounted == Certified(HEIGHT_2) \ SpeedVotePending

\* The parked lists are never cleared, and still no node is counted twice:
\* the counters stay below the number of distinct nodes that voted.
CountedOnce ==
  /\ \A h \in Height : voteNums[h] <= Cardinality(Counted(h))
  /\ speedVoteNums <= Cardinality(SpeedCounted)

(***************************************************************************)
(* Where the messages of one node can be.  With CountedOnce, NestedCerts   *)
(* and NoLostWakeup this is inductive.                                     *)
(***************************************************************************)
ProposePlaced(n, h) ==
  /\ Propose(h, n) \in net => Propose(h, n) \notin running
  /\ Propose(h, n) \in net \cup running => h \notin blockHash[n]
  /\ Propose(h, n) \in running => h \in stored[n]

VotePlaced(n, h) ==
  /\ Propose(h, n) \in waking => h \in blockHash[n] /\ Vote(h, n) \notin net \cup running
  /\ Vote(h, n) \in net => Vote(h, n) \notin running
  /\ Vote(h, n) \in net \cup running => h \in blockHash[n]

FinVotePlaced(n) ==
  /\ FinVote(n) \in net => FinVote(n) \notin running
  /\ FinVote(n) \in net \cup running => HEIGHT_2 \notin blockQcs[n]

SpeedVotePlaced(n) ==
  /\ SpeedVote(n) \in net => SpeedVote(n) \notin running
  /\ SpeedVote(n) \in net \cup running => HEIGHT_2 \in blockQcs[n]

\* A parked message that is still to be woken is nowhere else.
ParkedPlaced(n) ==
  /\ n \in unHandlePropose => HEIGHT_2 \in stored[n]
  /\ /\ n \in unHandlePropose
     /\ HEIGHT_1 \notin blockHash[n] \/ Propose(HEIGHT_1, n) \in waking
     => HEIGHT_2 \notin blockHash[n] /\ Propose(HEIGHT_2, n) \notin net \cup running
  /\ /\ n \in unHandleFinVote
     /\ HEIGHT_2 \notin blockHash[n] \/ Propose(HEIGHT_2, n) \in waking
     => HEIGHT_2 \notin blockQcs[n] /\ FinVote(n) \notin net \cup running

\* Every message is in one place and is handled once: also a parked message,
\* whose list is walked and kept by the goroutine that wakes it.
Placement ==
  \A n \in Node :
    /\ \A h \in Height : ProposePlaced(n, h) /\ VotePlaced(n, h)
    /\ FinVotePlaced(n)
    /\ SpeedVotePlaced(n)
    /\ ParkedPlaced(n)

\* What the proposer sends on a QC exists only when the counter has passed
\* 2f+1, and the counter passes it once.
SentOnQuorum ==
  /\ \A n \in Node :
       /\ \/ Propose(HEIGHT_2, n) \in net \cup running
          \/ n \in unHandlePropose
          \/ HEIGHT_2 \in blockHash[n]
          => voteNums[HEIGHT_1] >= HightThreshold
       /\ \/ FinVote(n) \in net \cup running
          \/ n \in unHandleFinVote
          \/ HEIGHT_2 \in blockQcs[n]
          => voteNums[HEIGHT_2] >= HightThreshold
  /\ isSpeedCert => speedVoteNums >= HightThreshold

(***************************************************************************)
(* Liveness.                                                               *)
(***************************************************************************)

\* If no node moves on and at most f are faulty, every honest node gets both
\* QCs and the proposer its speed certificate, whatever the order in which
\* goroutines take the messages.
Completion ==
  [](left = {}) /\ IsQuorum(Honest)
    => <>(isSpeedCert /\ \A n \in Honest : DecCert(n))

\* handleProposeMsg stores before it filters: a block with a QC reaches the
\* store of every honest node, also of one that has left the view.  The walk
\* of Commitor.run waits for exactly that.
EventuallyStored ==
  \A h \in Height :
    h \in UNION {blockQcs[n] : n \in Node}
      ~> \A n \in Honest : h \in stored[n]
-----------------------------------------------------------------------------
\* The abstract broadcast: see module StagedBroadcast.
Staged == INSTANCE StagedBroadcast
            WITH held      <- Holders(HEIGHT_1),
                 locked    <- Certified(HEIGHT_1),
                 finalized <- Certified(HEIGHT_2),
                 sped      <- isSpeedCert

\* The instance, with its goroutines, parked lists and counters, does
\* nothing but the four atomic steps of the abstract broadcast.
RefinesStaged == Staged!Spec
=============================================================================
