---------------------------- MODULE BigSPBProofs ----------------------------
(***************************************************************************)
(* The counters and certificates of an instance of PAC_BIG or PAC_BIG_DAG, *)
(* for every committee, every number of faulty nodes and every order of    *)
(* messages and goroutines.                                                *)
(***************************************************************************)
EXTENDS DAGBigSPB, CommitteeProofs

\* Where a Propose can be: it is recorded once, and a parked one waits for the
\* goroutine of the height-1 block.
Placed ==
  /\ proposing \cap blockHash = {}
  /\ proposing \cup blockHash \subseteq stored
  /\ waking \subseteq blockHash
  /\ unHandlePropose => HEIGHT_2 \in stored
  /\ unHandlePropose /\ HEIGHT_1 \notin blockHash \ waking =>
       HEIGHT_2 \notin proposing \cup blockHash

\* The protocol makes a difference in two places.
PerProtocol ==
  /\ protocol \in {PAC_BIG, PAC_BIG_DAG}
  /\ protocol = PAC_BIG_DAG => ~unHandlePropose
  /\ protocol = PAC_BIG => spoken \subseteq {<<Proposer, Proposer>>}

IInv == TypeOK /\ Placed /\ CountedOnce /\ QCBacked

\* The number of nodes that handle messages.
LEMMA HonestNumber == Cardinality(Honest) \in Nat \ {0}
<1>1. IsFiniteSet(Honest)
  BY CommitteeAssumption, FS_Subset DEF Honest
<1> QED
  BY <1>1, BigSPBAssumption, FS_CardinalityType, FS_EmptySet

\* Speed votes can be counted.
LEMMA SpokenFinite ==
  ASSUME NEW S \in SUBSET (Honest \X Node)
  PROVE  IsFiniteSet(S) /\ Cardinality(S) \in Nat
<1>1. IsFiniteSet(Honest)
  BY CommitteeAssumption, FS_Subset DEF Honest
<1>2. IsFiniteSet(Honest \X Node)
  BY <1>1, CommitteeAssumption, FS_Product
<1> QED
  BY <1>2, FS_Subset, FS_CardinalityType

\* The two heights.
LEMMA HeightFacts ==
  Height = {HEIGHT_1, HEIGHT_2} /\ HEIGHT_1 # HEIGHT_2
BY DEF Height, HEIGHT_1, HEIGHT_2

\* The initial state satisfies the invariant.
LEMMA InitInductive == InitEither => IInv /\ PerProtocol
<1> SUFFICES ASSUME InitEither PROVE IInv /\ PerProtocol
  OBVIOUS
<1> USE HonestNumber, ThresholdType, HeightFacts DEF InitEither, Init
<1>1. TypeOK
  <2>1. 0 \in 0 .. (Cardinality(Honest) - 1)
    BY HonestNumber
  <2> QED
    BY <2>1 DEF TypeOK
<1>2. Placed /\ PerProtocol
  BY DEF Placed, PerProtocol, PAC_BIG, PAC_BIG_DAG
<1>3. CountedOnce
  BY FS_EmptySet DEF CountedOnce, Voted, Waiting, WaitingSpeed
<1>4. QCBacked
  BY DEF QCBacked
<1> QED
  BY <1>1, <1>2, <1>3, <1>4 DEF IInv

\* A Propose that arrives is not recorded yet.
LEMMA HandleProposeMsgStep ==
  ASSUME IInv, NEW h \in Height, handleProposeMsg(h)
  PROVE  IInv'
<1> USE HonestNumber, ThresholdType, HeightFacts
    DEF IInv, handleProposeMsg, proposeVars, voteVars, certVars, speedVars
<1>1. TypeOK'
  BY DEF TypeOK, Others, Voters, Placed, ParkedProposes, Woken
<1>2. Placed'
  BY DEF TypeOK, Placed, ParkedProposes
<1>3. CountedOnce'
  BY DEF TypeOK, Placed, CountedOnce, QCBacked, Voted, Waiting, WaitingSpeed, Woken
<1>4. QCBacked'
  BY DEF TypeOK, CountedOnce, QCBacked, Placed, Voted, Waiting, WaitingSpeed, Certifies
<1> QED
  BY <1>1, <1>2, <1>3, <1>4

\* A vote that arrives is one more that runs.
LEMMA HandleVoteMsgStep ==
  ASSUME IInv, NEW h \in Height, handleVoteMsg(h)
  PROVE  IInv'
<1> USE HonestNumber, ThresholdType, HeightFacts
    DEF IInv, handleVoteMsg, proposeVars, voteVars, certVars, speedVars
<1>1. TypeOK'
  BY DEF TypeOK, Others, Voters, Placed, ParkedProposes, Woken
<1>2. Placed'
  BY DEF TypeOK, Placed, ParkedProposes
<1>3. CountedOnce'
  BY DEF TypeOK, Placed, CountedOnce, QCBacked, Voted, Waiting, WaitingSpeed, Woken
<1>4. QCBacked'
  BY DEF TypeOK, CountedOnce, QCBacked, Placed, Voted, Waiting, WaitingSpeed, Certifies
<1> QED
  BY <1>1, <1>2, <1>3, <1>4

\* A hash is recorded once; the parked votes go on waiting.
LEMMA RecordHashStep ==
  ASSUME IInv, NEW h \in Height, recordHash(h)
  PROVE  IInv'
<1> USE HonestNumber, ThresholdType, HeightFacts
    DEF IInv, recordHash, proposeVars, voteVars, certVars, speedVars
<1>1. TypeOK'
  BY DEF TypeOK, Others, Voters, Placed, ParkedProposes, Woken
<1>2. Placed'
  BY DEF TypeOK, Placed, ParkedProposes
<1>3. CountedOnce'
  BY DEF TypeOK, Placed, CountedOnce, QCBacked, Voted, Waiting, WaitingSpeed, Woken
<1>4. QCBacked'
  BY DEF TypeOK, CountedOnce, QCBacked, Placed, Voted, Waiting, WaitingSpeed, Certifies
<1> QED
  BY <1>1, <1>2, <1>3, <1>4

\* A Propose is parked before the height-1 block is recorded.
LEMMA ParkProposeStep ==
  ASSUME IInv, parkPropose
  PROVE  IInv'
<1> USE HonestNumber, ThresholdType, HeightFacts
    DEF IInv, parkPropose, proposeVars, voteVars, certVars, speedVars
<1>1. TypeOK'
  BY DEF TypeOK, Others, Voters, Placed, ParkedProposes, Woken
<1>2. Placed'
  BY DEF TypeOK, Placed, ParkedProposes
<1>3. CountedOnce'
  BY DEF TypeOK, Placed, CountedOnce, QCBacked, Voted, Waiting, WaitingSpeed, Woken
<1>4. QCBacked'
  BY DEF TypeOK, CountedOnce, QCBacked, Placed, Voted, Waiting, WaitingSpeed, Certifies
<1> QED
  BY <1>1, <1>2, <1>3, <1>4

\* The parked votes run again, once, and the node's own vote with them.
LEMMA WakeAndVoteStep ==
  ASSUME IInv, NEW h \in Height, wakeAndVote(h)
  PROVE  IInv'
<1> USE HonestNumber, ThresholdType, HeightFacts
    DEF IInv, wakeAndVote, proposeVars, voteVars, certVars, speedVars
<1>1. TypeOK'
  BY DEF TypeOK, Others, Voters, Placed, ParkedProposes, Woken
<1>2. Placed'
  BY DEF TypeOK, Placed, ParkedProposes
<1>3. CountedOnce'
  BY DEF TypeOK, Placed, CountedOnce, QCBacked, Voted, Waiting, WaitingSpeed, Woken
<1>4. QCBacked'
  BY DEF TypeOK, CountedOnce, QCBacked, Placed, Voted, Waiting, WaitingSpeed, Certifies
<1> QED
  BY <1>1, <1>2, <1>3, <1>4

\* A parked vote will be woken: its block is not recorded.
LEMMA ParkVoteStep ==
  ASSUME IInv, NEW h \in Height, parkVote(h)
  PROVE  IInv'
<1> USE HonestNumber, ThresholdType, HeightFacts
    DEF IInv, parkVote, proposeVars, voteVars, certVars, speedVars
<1>1. TypeOK'
  BY DEF TypeOK, Others, Voters, Placed, ParkedProposes, Woken
<1>2. Placed'
  BY DEF TypeOK, Placed, ParkedProposes
<1>3. CountedOnce'
  BY DEF TypeOK, Placed, CountedOnce, QCBacked, Voted, Waiting, WaitingSpeed, Woken
<1>4. QCBacked'
  BY DEF TypeOK, CountedOnce, QCBacked, Placed, Voted, Waiting, WaitingSpeed, Certifies
<1> QED
  BY <1>1, <1>2, <1>3, <1>4

\* A vote is counted, and the counter meets the threshold once.
LEMMA CountVoteStep ==
  ASSUME IInv, NEW h \in Height, countVote(h)
  PROVE  IInv'
<1> USE HonestNumber, ThresholdType, HeightFacts
    DEF IInv, countVote, proposeVars, voteVars, certVars, speedVars
<1>1. TypeOK'
  BY DEF TypeOK, Others, Voters, Placed, ParkedProposes, Woken
<1>2. Placed'
  BY DEF TypeOK, Placed, ParkedProposes
<1>3. CountedOnce'
  BY DEF TypeOK, Placed, CountedOnce, QCBacked, Voted, Waiting, WaitingSpeed, Woken
<1>4. QCBacked'
  <2>1. UNCHANGED <<blockHash, arrived, blockQcs, speedVoteNums, isSpeedCert>>
    OBVIOUS
  <2>2. ASSUME NEW g \in Height
        PROVE  /\ (g \in blockQcs \cup certifying => g \in blockHash)'
               /\ (g \in blockQcs \cup certifying => arrived[g] + 1 >= HightThreshold)'
               /\ (voteNums[g] >= HightThreshold <=> g \in blockQcs \cup certifying)'
    <3>1. voteNums[g] + running[g] + Waiting(g) = arrived[g] + Voted(g)
      BY DEF CountedOnce
    <3> QED
      BY <2>1, <3>1 DEF TypeOK, QCBacked, Voted, Waiting, Certifies
  <2>3. (certifying \cap blockQcs = {})'
    BY <2>1 DEF TypeOK, QCBacked, Certifies
  <2> QED
    BY <2>1, <2>2, <2>3 DEF QCBacked
<1> QED
  BY <1>1, <1>2, <1>3, <1>4

\* The QC is set, and the parked speed votes run again.
LEMMA CertifyStep ==
  ASSUME IInv, NEW h \in Height, certify(h)
  PROVE  IInv'
<1> USE HonestNumber, ThresholdType, HeightFacts
    DEF IInv, certify, proposeVars, voteVars, certVars, speedVars
<1>1. TypeOK'
  BY DEF TypeOK, Others, Voters, Placed, ParkedProposes, Woken
<1>2. Placed'
  BY DEF TypeOK, Placed, ParkedProposes
<1>3. CountedOnce'
  BY DEF TypeOK, Placed, CountedOnce, QCBacked, Voted, Waiting, WaitingSpeed, Woken
<1>4. QCBacked'
  BY DEF TypeOK, CountedOnce, QCBacked, Placed, Voted, Waiting, WaitingSpeed, Certifies
<1> QED
  BY <1>1, <1>2, <1>3, <1>4

\* A parked speed vote will be woken: the QC is not set.
LEMMA ParkSpeedVoteStep ==
  ASSUME IInv, parkSpeedVote
  PROVE  IInv'
<1> USE HonestNumber, ThresholdType, HeightFacts
    DEF IInv, parkSpeedVote, proposeVars, voteVars, certVars, speedVars
<1>1. TypeOK'
  BY DEF TypeOK, Others, Voters, Placed, ParkedProposes, Woken
<1>2. Placed'
  BY DEF TypeOK, Placed, ParkedProposes
<1>3. CountedOnce'
  BY DEF TypeOK, Placed, CountedOnce, QCBacked, Voted, Waiting, WaitingSpeed, Woken
<1>4. QCBacked'
  BY DEF TypeOK, CountedOnce, QCBacked, Placed, Voted, Waiting, WaitingSpeed, Certifies
<1> QED
  BY <1>1, <1>2, <1>3, <1>4

\* A speed vote is counted.
LEMMA ProcessSpeedVoteMsgStep ==
  ASSUME IInv, processSpeedVoteMsg
  PROVE  IInv'
<1> USE HonestNumber, ThresholdType, HeightFacts
    DEF IInv, processSpeedVoteMsg, proposeVars, voteVars, certVars, speedVars
<1>1. TypeOK'
  BY DEF TypeOK, Others, Voters, Placed, ParkedProposes, Woken
<1>2. Placed'
  BY DEF TypeOK, Placed, ParkedProposes
<1>3. CountedOnce'
  BY DEF TypeOK, Placed, CountedOnce, QCBacked, Voted, Waiting, WaitingSpeed, Woken
<1>4. QCBacked'
  <2>1. /\ speedVoteNums \in Nat
        /\ speedVoteNums' = speedVoteNums + 1
        /\ HEIGHT_2 \in blockQcs
        /\ UNCHANGED <<blockHash, arrived, voteNums, certifying, blockQcs>>
    BY DEF TypeOK
  <2>2. isSpeedCert' <=> isSpeedCert \/ speedVoteNums + 1 = HightThreshold
    BY DEF Certifies
  <2>3. isSpeedCert <=> speedVoteNums >= HightThreshold
    BY DEF QCBacked
  <2>4. isSpeedCert' <=> speedVoteNums' >= HightThreshold
    BY <2>1, <2>2, <2>3
  <2> QED
    BY <2>1, <2>4 DEF QCBacked
<1> QED
  BY <1>1, <1>2, <1>3, <1>4

\* A speed vote that is taken in is one more that runs.
LEMMA HandleSpeedVoteMsgStep ==
  ASSUME IInv, NEW a \in Honest, NEW q \in Node, NEW i, handleSpeedVoteMsg(a, q, i)
  PROVE  IInv'
<1> USE DEF IInv, handleSpeedVoteMsg, proposeVars, voteVars, certVars
<1>1. TypeOK'
  BY DEF TypeOK
<1>2. Placed'
  BY DEF Placed
<1>3. Cardinality(spoken') = Cardinality(spoken) + 1 /\ Cardinality(spoken) \in Nat
  BY SpokenFinite, FS_AddElement DEF TypeOK
<1>4. CountedOnce'
  BY <1>3, HeightFacts DEF TypeOK, CountedOnce, Voted, Waiting, WaitingSpeed
<1>5. QCBacked'
  BY DEF QCBacked
<1> QED
  BY <1>1, <1>2, <1>4, <1>5

\* A step of either protocol keeps the invariant.
LEMMA Inductive == IInv /\ PerProtocol /\ [Next]_vars => IInv' /\ PerProtocol'
<1> SUFFICES ASSUME IInv, PerProtocol, [Next]_vars PROVE IInv' /\ PerProtocol'
  OBVIOUS
<1>2. CASE UNCHANGED vars
  <2>1. IInv'
    BY <1>2 DEF IInv, TypeOK, Placed, CountedOnce, QCBacked, Voted, Waiting, WaitingSpeed,
                vars, spbVars, proposeVars, voteVars, certVars, speedVars
  <2> QED
    BY <1>2, <2>1 DEF PerProtocol, vars, spbVars, proposeVars, speedVars
<1>3. CASE Arrive
  <2>1. IInv'
    BY <1>3, HandleProposeMsgStep, HandleVoteMsgStep, HandleSpeedVoteMsgStep
       DEF Arrive, BigArrive, DAGArrive, Voters
  <2>2. unHandlePropose' = unHandlePropose /\ protocol' = protocol
    BY <1>3 DEF Arrive, BigArrive, DAGArrive, handleProposeMsg, handleVoteMsg,
                handleSpeedVoteMsg, proposeVars
  <2>3. protocol = PAC_BIG => spoken' \subseteq {<<Proposer, Proposer>>}
    <3> SUFFICES ASSUME protocol = PAC_BIG PROVE spoken' \subseteq {<<Proposer, Proposer>>}
      OBVIOUS
    <3>1. BigArrive
      BY <1>3 DEF Arrive, PAC_BIG, PAC_BIG_DAG
    <3>2. spoken \subseteq {<<Proposer, Proposer>>}
      BY DEF PerProtocol
    <3>3. ASSUME NEW a \in Voters, NEW q \in Node, handleSpeedVoteMsg(a, q, Route(a, q))
          PROVE  spoken' \subseteq {<<Proposer, Proposer>>}
      BY <3>2, <3>3 DEF handleSpeedVoteMsg, Route, Relevant
    <3>4. CASE spoken' = spoken
      BY <3>2, <3>4
    <3> QED
      BY <3>1, <3>3, <3>4 DEF BigArrive, handleProposeMsg, handleVoteMsg, speedVars
  <2> QED
    BY <2>1, <2>2, <2>3 DEF PerProtocol
<1>4. CASE Process
  <2>1. IInv'
    BY <1>4, RecordHashStep, ParkProposeStep, WakeAndVoteStep, ParkVoteStep, CountVoteStep,
       CertifyStep, ParkSpeedVoteStep, ProcessSpeedVoteMsgStep
       DEF Process, BigProcess, DAGProcess, Goroutine, processPropose
  <2>2. spoken' = spoken /\ protocol' = protocol
    BY <1>4 DEF Process, BigProcess, DAGProcess, Goroutine, processPropose, recordHash,
                parkPropose, wakeAndVote, parkVote, countVote, certify, parkSpeedVote,
                processSpeedVoteMsg, speedVars
  <2>3. protocol = PAC_BIG_DAG => unHandlePropose' = unHandlePropose
    BY <1>4 DEF Process, DAGProcess, Goroutine, recordHash, wakeAndVote, parkVote, countVote,
                certify, parkSpeedVote, processSpeedVoteMsg, proposeVars, PAC_BIG, PAC_BIG_DAG
  <2> QED
    BY <2>1, <2>2, <2>3 DEF PerProtocol
<1> QED
  BY <1>2, <1>3, <1>4 DEF Next

\* The invariant holds in every reachable state.
LEMMA Invariance == Spec => [](IInv /\ PerProtocol)
BY InitInductive, Inductive, PTL DEF Spec

\* The variables keep their types; no more votes come than there are voters.
THEOREM TypeCorrect == Spec => []TypeOK
BY Invariance, PTL DEF IInv

\* No vote and no speed vote is lost or counted twice on its way through lists
\* and goroutines.
THEOREM EachCountedOnce == Spec => []CountedOnce
BY Invariance, PTL DEF IInv

\* A QC is set once and stands for the votes of 2f+1 nodes, a speed certificate
\* for 2f+1 speed votes.
THEOREM CertificatesBacked == Spec => []QCBacked
BY Invariance, PTL DEF IInv

\* The author's instance takes a speed vote, and drops it unless it is for the
\* author's own block.  So in PAC_BIG at most one speed vote is ever counted,
\* and a speed certificate needs a threshold of one.
THEOREM OneSpeedVote == Spec => []SpeedVotesOfProposer
<1>1. ASSUME IInv, PerProtocol PROVE SpeedVotesOfProposer
  <2> SUFFICES ASSUME protocol = PAC_BIG
               PROVE  speedVoteNums <= 1 /\ (isSpeedCert => HightThreshold = 1)
    BY DEF SpeedVotesOfProposer
  <2>1. /\ speedVoteNums <= Cardinality(spoken)
        /\ speedVoteNums \in Nat /\ Cardinality(spoken) \in Nat
    BY <1>1, SpokenFinite DEF IInv, TypeOK, CountedOnce, WaitingSpeed
  <2>2. Cardinality(spoken) <= 1
    <3>1. spoken \subseteq {<<Proposer, Proposer>>}
      BY <1>1 DEF PerProtocol
    <3>2. /\ IsFiniteSet({<<Proposer, Proposer>>})
          /\ Cardinality({<<Proposer, Proposer>>}) = 1
      BY FS_Singleton
    <3> QED
      BY <3>1, <3>2, FS_Subset
  <2>3. isSpeedCert => speedVoteNums >= HightThreshold
    BY <1>1 DEF IInv, QCBacked
  <2> QED
    BY <2>1, <2>2, <2>3, ThresholdType
<1> QED
  BY <1>1, Invariance, PTL
-----------------------------------------------------------------------------
\* A block that has come is on its way to the hash or recorded, but for a
\* height-2 block that is parked, and that one waits for the height-1 block.
Kept ==
  /\ HEIGHT_1 \in stored => HEIGHT_1 \in proposing \cup blockHash
  /\ HEIGHT_2 \in stored => HEIGHT_2 \in proposing \cup blockHash \/ unHandlePropose
  /\ unHandlePropose /\ HEIGHT_1 \in blockHash \ waking => HEIGHT_2 \in proposing \cup blockHash

\* Every step of either protocol keeps it.
LEMMA KeptStep == IInv /\ PerProtocol /\ Kept /\ [Next]_vars => Kept'
<1> SUFFICES ASSUME IInv, PerProtocol, Kept, [Next]_vars PROVE Kept'
  OBVIOUS
<1>1. ASSUME UNCHANGED proposeVars PROVE Kept'
  BY <1>1 DEF Kept, proposeVars
<1>2. ASSUME NEW h \in Height, handleProposeMsg(h) PROVE Kept'
  BY <1>2, HeightFacts DEF Kept, handleProposeMsg
<1>3. ASSUME NEW h \in Height, recordHash(h) PROVE Kept'
  BY <1>3, HeightFacts DEF Kept, recordHash
<1>4. CASE parkPropose
  BY <1>4, HeightFacts DEF Kept, parkPropose
<1>5. ASSUME NEW h \in Height, wakeAndVote(h) PROVE Kept'
  BY <1>5, HeightFacts DEF Kept, wakeAndVote, ParkedProposes
<1>6. CASE UNCHANGED vars
  BY <1>1, <1>6 DEF vars, spbVars
<1>7. CASE Arrive
  BY <1>1, <1>2, <1>7 DEF Arrive, BigArrive, DAGArrive, handleVoteMsg, handleSpeedVoteMsg
<1>8. CASE Process
  BY <1>1, <1>3, <1>4, <1>5, <1>8
     DEF Process, BigProcess, DAGProcess, Goroutine, processPropose, parkVote, countVote,
         certify, parkSpeedVote, processSpeedVoteMsg
<1> QED
  BY <1>6, <1>7, <1>8 DEF Next

\* No goroutine of the instance is left.
AtRest ==
  /\ proposing = {} /\ waking = {} /\ certifying = {}
  /\ \A h \in Height : running[h] = 0
  /\ speedRunning = 0

\* What the goroutines leave when they are done:
\*   - every block that has come is recorded, in PAC_BIG once the height-1
\*     block has come;
\*   - a recorded block has its QC exactly if votes of 2f+1 nodes have come,
\*     the node's own included;
\*   - all speed votes are counted, if there is a height-2 QC.
RestIsComplete ==
  AtRest =>
    /\ HEIGHT_1 \in stored \/ protocol = PAC_BIG_DAG => blockHash = stored
    /\ \A h \in blockHash : h \in blockQcs <=> arrived[h] + 1 >= HightThreshold
    /\ HEIGHT_2 \in blockQcs => speedVoteNums = Cardinality(spoken)

\* bigspb.go and dag_bitspb.go leave nothing behind in their lists: what
\* Completion promises can fail only by a goroutine that is never scheduled.
THEOREM RestsComplete == Spec => []RestIsComplete
<1>1. InitEither => Kept
  BY DEF InitEither, Init, Kept
<1>2. ASSUME IInv, PerProtocol, Kept, AtRest
      PROVE  /\ HEIGHT_1 \in stored \/ protocol = PAC_BIG_DAG => blockHash = stored
             /\ \A h \in blockHash : h \in blockQcs <=> arrived[h] + 1 >= HightThreshold
             /\ HEIGHT_2 \in blockQcs => speedVoteNums = Cardinality(spoken)
  <2>1. /\ stored \subseteq Height /\ blockHash \subseteq stored
        /\ arrived \in [Height -> Nat] /\ voteNums \in [Height -> Nat]
        /\ speedVoteNums \in Nat /\ Cardinality(spoken) \in Nat
    BY <1>2, HonestNumber, SpokenFinite DEF IInv, TypeOK, Placed
  <2>2. HEIGHT_1 \in stored \/ protocol = PAC_BIG_DAG => blockHash = stored
    BY <1>2, <2>1, HeightFacts DEF Kept, AtRest, PerProtocol
  <2>3. ASSUME NEW h \in blockHash PROVE h \in blockQcs <=> arrived[h] + 1 >= HightThreshold
    <3>1. h \in Height /\ Voted(h) = 1 /\ Waiting(h) = 0 /\ running[h] = 0
      BY <1>2, <2>1, <2>3 DEF AtRest, Voted, Waiting
    <3>2. voteNums[h] = arrived[h] + 1
      BY <1>2, <2>1, <3>1 DEF IInv, CountedOnce
    <3> QED
      BY <1>2, <3>1, <3>2 DEF IInv, QCBacked, AtRest
  <2>4. HEIGHT_2 \in blockQcs => speedVoteNums = Cardinality(spoken)
    BY <1>2, <2>1 DEF IInv, CountedOnce, WaitingSpeed, AtRest
  <2> QED
    BY <2>2, <2>3, <2>4
<1>3. IInv /\ PerProtocol /\ Kept => RestIsComplete
  BY <1>2 DEF RestIsComplete
<1> QED
  BY <1>1, <1>3, KeptStep, Invariance, PTL DEF Spec
=============================================================================
