------------------------------- MODULE BigSPB -------------------------------
(***************************************************************************)
(* One instance of the broadcast of PAC_BIG (core/bigspb.go) at one node.  *)
(* Votes go to everybody, so every node counts for itself and takes its    *)
(* QCs from its own counters.  What the other nodes do shows only in the   *)
(* messages that arrive: the proposer's blocks, one vote per node and      *)
(* height, and speed votes, in any order.                                  *)
(*                                                                         *)
(* The handlers of BigCore start a goroutine per message and look at no    *)
(* view.  Arrival and handler are one step here.  A goroutine is modelled  *)
(* at the granularity of its critical sections.  Nothing looks at the      *)
(* author of a vote, so votes are numbers of votes: how many have arrived, *)
(* how many goroutines run, how many wait in a list.  Speed votes are told *)
(* apart, by author and proposer, until they are in the instance.          *)
(***************************************************************************)
EXTENDS Committee

CONSTANTS
  Proposer,           \* BigSPB.Proposer
  Observer            \* another node that takes part

ASSUME BigSPBAssumption == Proposer \in Honest /\ Observer \in Honest

HEIGHT_1 == 0
HEIGHT_2 == 1
Height == {HEIGHT_1, HEIGHT_2}

VARIABLES
  nodeID,             \* the node whose instance this is (fixed)
  stored,             \* the heights whose block has arrived
  proposing,          \* Proposes whose goroutine has not entered hMutex
  waking,             \* Proposes between hMutex and uMutex
  unHandlePropose,    \* the height-2 Propose is parked
  blockHash,          \* the heights whose hash is recorded
  arrived,            \* arrived[h]: votes of other nodes that have arrived
  running,            \* running[h]: votes whose goroutine is before hMutex
  unHandleVote,       \* unHandleVote[h]: the parked votes
  voteNums,
  certifying,         \* heights whose 2f+1st vote was counted, QC not yet set
  blockQcs,           \* the heights whose QC is recorded
  spoken,             \* speed votes taken in: <<author, proposer>>
  speedRunning,       \* speed votes whose goroutine is before hMutex
  unHandleSpeedVote,  \* the parked speed votes
  speedVoteNums,
  isSpeedCert

proposeVars == <<stored, proposing, waking, unHandlePropose, blockHash>>
voteVars == <<arrived, running, unHandleVote, voteNums>>
certVars == <<certifying, blockQcs>>
speedVars == <<spoken, speedRunning, unHandleSpeedVote, speedVoteNums, isSpeedCert>>
spbVars == <<nodeID, proposeVars, voteVars, certVars, speedVars>>

\* Mutant: a node that parameters.Faults declares faulty votes as well.
VotersAll == Node

\* The nodes that vote.
Voters == Honest

Others == Cardinality(Voters) - 1

TypeOK ==
  /\ nodeID \in {Proposer, Observer}
  /\ stored \subseteq Height
  /\ proposing \subseteq Height
  /\ waking \subseteq Height
  /\ unHandlePropose \in BOOLEAN
  /\ blockHash \subseteq Height
  /\ arrived \in [Height -> 0 .. (Cardinality(Honest) - 1)]
  /\ running \in [Height -> Nat]
  /\ unHandleVote \in [Height -> Nat]
  /\ voteNums \in [Height -> Nat]
  /\ certifying \subseteq Height
  /\ blockQcs \subseteq Height
  /\ spoken \subseteq Honest \X Node
  /\ speedRunning \in Nat
  /\ unHandleSpeedVote \in Nat
  /\ speedVoteNums \in Nat
  /\ isSpeedCert \in BOOLEAN

Init ==
  /\ nodeID \in {Proposer, Observer}
  /\ stored = {}
  /\ proposing = {}
  /\ waking = {}
  /\ unHandlePropose = FALSE
  /\ blockHash = {}
  /\ arrived = [h \in Height |-> 0]
  /\ running = [h \in Height |-> 0]
  /\ unHandleVote = [h \in Height |-> 0]
  /\ voteNums = [h \in Height |-> 0]
  /\ certifying = {}
  /\ blockQcs = {}
  /\ spoken = {}
  /\ speedRunning = 0
  /\ unHandleSpeedVote = 0
  /\ speedVoteNums = 0
  /\ isSpeedCert = FALSE
-----------------------------------------------------------------------------
(***************************************************************************)
(* Arrivals.                                                               *)
(***************************************************************************)

\* The block exists: the node's own height-2 block follows its height-1 QC.
Proposed(h) == nodeID = Proposer /\ h = HEIGHT_2 => HEIGHT_1 \in blockQcs

handleProposeMsg(h) ==
  /\ h \notin stored
  /\ stored' = stored \cup {h}
  /\ proposing' = proposing \cup {h}
  /\ UNCHANGED <<nodeID, waking, unHandlePropose, blockHash, voteVars, certVars,
                 speedVars>>

\* The vote of another node.
handleVoteMsg(h) ==
  /\ arrived[h] < Others
  /\ arrived' = [arrived EXCEPT ![h] = @ + 1]
  /\ running' = [running EXCEPT ![h] = @ + 1]
  /\ UNCHANGED <<nodeID, proposeVars, unHandleVote, voteNums, certVars, speedVars>>

\* Mutant: as in the DAG variant, to the instance of the proposer.
RouteOfProposer(author, proposer) == proposer

\* The instance to which BigCore gives a speed vote: its author's, whoever's
\* block the vote is for.
Route(author, proposer) == author

\* processSpeedVoteMsg returns when the vote is for another block.
Relevant(proposer) == proposer = Proposer

\* The speed vote of an author for the block of a proposer, which was given to
\* an instance.  It concerns this instance if it was given to this one and not
\* dropped.  The node itself sends one when it has the height-2 QC.
handleSpeedVoteMsg(author, proposer, instance) ==
  /\ instance = Proposer
  /\ Relevant(proposer)
  /\ <<author, proposer>> \notin spoken
  /\ author = nodeID /\ proposer = Proposer => HEIGHT_2 \in blockQcs
  /\ spoken' = spoken \cup {<<author, proposer>>}
  /\ speedRunning' = speedRunning + 1
  /\ UNCHANGED <<nodeID, proposeVars, voteVars, certVars, unHandleSpeedVote,
                 speedVoteNums, isSpeedCert>>
-----------------------------------------------------------------------------
(***************************************************************************)
(* The goroutines of the instance.                                         *)
(***************************************************************************)

\* processProposeMsg, first section: record the hash.
recordHash(h) ==
  /\ h \in proposing
  /\ proposing' = proposing \ {h}
  /\ waking' = waking \cup {h}
  /\ blockHash' = blockHash \cup {h}
  /\ UNCHANGED <<nodeID, stored, unHandlePropose, voteVars, certVars, speedVars>>

processPropose(h) == (h = HEIGHT_2 => HEIGHT_1 \in blockHash) /\ recordHash(h)

\* ... or park a height-2 block that came before the height-1 block.
parkPropose ==
  /\ HEIGHT_2 \in proposing
  /\ HEIGHT_1 \notin blockHash
  /\ proposing' = proposing \ {HEIGHT_2}
  /\ unHandlePropose' = TRUE
  /\ UNCHANGED <<nodeID, stored, waking, blockHash, voteVars, certVars, speedVars>>

\* Mutant: the parked Propose stays parked.
ParkedNone(h) == {}

\* The parked Propose is restarted when the height-1 block comes.
ParkedProposes(h) == {g \in {HEIGHT_2} : h = HEIGHT_1 /\ unHandlePropose}

\* Mutant: the votes parked at both heights are restarted.
WokenBoth(h) == unHandleVote[HEIGHT_1] + unHandleVote[HEIGHT_2]

\* The parked votes that are restarted.  The lists are not cleared.
Woken(h) == unHandleVote[h]

\* processProposeMsg, second section and the node's own vote.
wakeAndVote(h) ==
  /\ h \in waking
  /\ waking' = waking \ {h}
  /\ proposing' = proposing \cup ParkedProposes(h)
  /\ running' = [running EXCEPT ![h] = @ + Woken(h) + 1]
  /\ UNCHANGED <<nodeID, stored, unHandlePropose, blockHash, arrived,
                 unHandleVote, voteNums, certVars, speedVars>>

\* processVoteMsg: the vote is for a block that is not known yet.
parkVote(h) ==
  /\ running[h] > 0
  /\ h \notin blockHash
  /\ running' = [running EXCEPT ![h] = @ - 1]
  /\ unHandleVote' = [unHandleVote EXCEPT ![h] = @ + 1]
  /\ UNCHANGED <<nodeID, proposeVars, arrived, voteNums, certVars, speedVars>>

\* Mutant: f+1 votes.
CertifiesLow(nums) == nums = LowThreshold

\* The counter equals the threshold once: one goroutine sets the QC.
Certifies(nums) == nums = HightThreshold

\* processVoteMsg up to the counter.
countVote(h) ==
  /\ running[h] > 0
  /\ h \in blockHash
  /\ running' = [running EXCEPT ![h] = @ - 1]
  /\ voteNums' = [voteNums EXCEPT ![h] = @ + 1]
  /\ certifying' = IF Certifies(voteNums[h] + 1) THEN certifying \cup {h}
                                                 ELSE certifying
  /\ UNCHANGED <<nodeID, proposeVars, arrived, unHandleVote, blockQcs, speedVars>>

\* The rest of processVoteMsg: set the QC.  Then the proposer proposes at
\* height 2 (see Proposed), or, at height 2, the node sends a speed vote and
\* restarts the parked ones.
certify(h) ==
  /\ h \in certifying
  /\ certifying' = certifying \ {h}
  /\ blockQcs' = blockQcs \cup {h}
  /\ speedRunning' = IF h = HEIGHT_2 THEN speedRunning + unHandleSpeedVote
                                     ELSE speedRunning
  /\ UNCHANGED <<nodeID, proposeVars, voteVars, spoken, unHandleSpeedVote,
                 speedVoteNums, isSpeedCert>>

\* processSpeedVoteMsg.
parkSpeedVote ==
  /\ speedRunning > 0
  /\ HEIGHT_2 \notin blockQcs
  /\ speedRunning' = speedRunning - 1
  /\ unHandleSpeedVote' = unHandleSpeedVote + 1
  /\ UNCHANGED <<nodeID, proposeVars, voteVars, certVars, spoken, speedVoteNums,
                 isSpeedCert>>

processSpeedVoteMsg ==
  /\ speedRunning > 0
  /\ HEIGHT_2 \in blockQcs
  /\ speedRunning' = speedRunning - 1
  /\ speedVoteNums' = speedVoteNums + 1
  /\ isSpeedCert' = (isSpeedCert \/ Certifies(speedVoteNums + 1))
  /\ UNCHANGED <<nodeID, proposeVars, voteVars, certVars, spoken, unHandleSpeedVote>>
-----------------------------------------------------------------------------
BigArrive ==
  \/ \E a \in Voters, q \in Node : handleSpeedVoteMsg(a, q, Route(a, q))
  \/ \E h \in Height : Proposed(h) /\ (handleProposeMsg(h) \/ handleVoteMsg(h))

\* The goroutines that PAC_BIG and its DAG variant have in common.
Goroutine ==
  \/ parkSpeedVote
  \/ processSpeedVoteMsg
  \/ \E h \in Height : wakeAndVote(h) \/ parkVote(h) \/ countVote(h) \/ certify(h)

BigProcess == Goroutine \/ parkPropose \/ \E h \in Height : processPropose(h)
-----------------------------------------------------------------------------
(***************************************************************************)
(* What the proofs and the runs state of both protocols.                   *)
(***************************************************************************)
Voted(h) == IF h \in blockHash \ waking THEN 1 ELSE 0

\* Votes parked at height h that will be restarted.
Waiting(h) == IF h \in blockHash \ waking THEN 0 ELSE unHandleVote[h]

WaitingSpeed == IF HEIGHT_2 \in blockQcs THEN 0 ELSE unHandleSpeedVote

\* Every vote and speed vote that came is in one place: counted, running, or
\* waiting in a list for what it needs.  Nothing is lost or counted twice,
\* although the lists are appended under hMutex, walked under uMutex and never
\* cleared, and authors are not looked at.
CountedOnce ==
  /\ \A h \in Height :
       voteNums[h] + running[h] + Waiting(h) = arrived[h] + Voted(h)
  /\ speedVoteNums + speedRunning + WaitingSpeed = Cardinality(spoken)

\* So a QC stands for 2f+1 nodes that voted for a block this node knows, and
\* it is set by the one goroutine that counted the vote number 2f+1; a speed
\* certificate stands for 2f+1 speed votes.
QCBacked ==
  /\ \A h \in Height :
       /\ h \in blockQcs \cup certifying => h \in blockHash
       /\ h \in blockQcs \cup certifying => arrived[h] + 1 >= HightThreshold
       /\ voteNums[h] >= HightThreshold <=> h \in blockQcs \cup certifying
  /\ certifying \cap blockQcs = {}
  /\ isSpeedCert <=> speedVoteNums >= HightThreshold
  /\ isSpeedCert => HEIGHT_2 \in blockQcs

\* When blocks and votes have come, in whatever order, both QCs follow and no
\* parked message is left behind, the speed votes included.
Completion ==
  (stored = Height /\ \A h \in Height : arrived[h] + 1 >= HightThreshold)
    ~> blockQcs = Height /\ speedVoteNums = Cardinality(spoken)
=============================================================================
