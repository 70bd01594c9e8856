----------------------------- MODULE SPBProofs -----------------------------
(***************************************************************************)
(* SPB for every committee: type correctness, the safety invariants, the   *)
(* refinement of StagedBroadcast, and what an instance at rest has done.   *)
(***************************************************************************)
EXTENDS SPB, CommitteeProofs

\* Messages differ when their type, height or node differs, and all are
\* messages.  The other proofs use this and leave the records closed.
LEMMA MessageFacts ==
  ASSUME NEW h \in Height, NEW i \in Height, NEW n \in Node, NEW m \in Node
  PROVE  /\ Propose(h, n) \in Message
         /\ Vote(h, n) \in Message
         /\ FinVote(n) \in Message
         /\ SpeedVote(n) \in Message
         /\ Propose(h, n) = Propose(i, m) <=> h = i /\ n = m
         /\ Vote(h, n) = Vote(i, m) <=> h = i /\ n = m
         /\ FinVote(n) = FinVote(m) <=> n = m
         /\ SpeedVote(n) = SpeedVote(m) <=> n = m
         /\ Propose(h, n) # Vote(i, m)
         /\ Propose(h, n) # FinVote(m)
         /\ Propose(h, n) # SpeedVote(m)
         /\ Vote(h, n) # FinVote(m)
         /\ Vote(h, n) # SpeedVote(m)
         /\ FinVote(n) # SpeedVote(m)
BY DEF Propose, Vote, FinVote, SpeedVote, Message, Height

\* Both heights are heights, and they differ.
LEMMA HeightFacts ==
  /\ HEIGHT_1 \in Height
  /\ HEIGHT_2 \in Height
  /\ HEIGHT_1 # HEIGHT_2
  /\ \A h \in Height : h = HEIGHT_1 \/ h = HEIGHT_2
BY DEF Height, HEIGHT_1, HEIGHT_2
-----------------------------------------------------------------------------
\* Every handler and every goroutine section keeps the types.
LEMMA TypeStep == TypeOK /\ [Next]_vars => TypeOK'
<1> SUFFICES ASSUME TypeOK, [Next]_vars PROVE TypeOK'
  OBVIOUS
<1>1. ASSUME NEW n \in Node, LeaveView(n) PROVE TypeOK'
  BY <1>1 DEF TypeOK, LeaveView
<1>2. ASSUME NEW n \in Node, NEW h \in Height, handleProposeMsg(n, h)
      PROVE  TypeOK'
  BY <1>2 DEF TypeOK, handleProposeMsg, Dispatch
<1>3. ASSUME NEW n \in Node, NEW h \in Height, handleVoteMsg(n, h)
      PROVE  TypeOK'
  BY <1>3 DEF TypeOK, handleVoteMsg, Dispatch
<1>4. ASSUME NEW n \in Node, handleFinVoteMsg(n) PROVE TypeOK'
  BY <1>4 DEF TypeOK, handleFinVoteMsg, Dispatch
<1>5. ASSUME NEW n \in Node, handleSpeedVoteMsg(n) PROVE TypeOK'
  BY <1>5 DEF TypeOK, handleSpeedVoteMsg, Dispatch
<1>6. ASSUME NEW n \in Node, processPropose1(n) PROVE TypeOK'
  BY <1>6, HeightFacts DEF TypeOK, processPropose1
<1>7. ASSUME NEW n \in Node, processPropose2(n) PROVE TypeOK'
  BY <1>7, HeightFacts DEF TypeOK, processPropose2
<1>8. ASSUME NEW n \in Node, parkPropose(n) PROVE TypeOK'
  BY <1>8 DEF TypeOK, parkPropose
<1>9. ASSUME NEW n \in Node, NEW h \in Height, wakeAndVote(n, h)
      PROVE  TypeOK'
  <2>1. Parked(n, h) \subseteq Message
    BY MessageFacts, HeightFacts DEF Parked
  <2> QED
    BY <1>9, <2>1, MessageFacts DEF TypeOK, wakeAndVote
<1>10. ASSUME NEW n \in Node, NEW h \in Height, processVoteMsg(n, h)
       PROVE  TypeOK'
  <2>1. AfterQC(h) \subseteq Message
    BY MessageFacts, HeightFacts DEF AfterQC
  <2> QED
    BY <1>10, <2>1 DEF TypeOK, processVoteMsg, Certifies
<1>11. ASSUME NEW n \in Node, processFinVoteMsg(n) PROVE TypeOK'
  BY <1>11, HeightFacts, MessageFacts DEF TypeOK, processFinVoteMsg, Awaited
<1>12. ASSUME NEW n \in Node, parkFinVote(n) PROVE TypeOK'
  BY <1>12 DEF TypeOK, parkFinVote, Awaited
<1>13. ASSUME NEW n \in Node, processSpeedVoteMsg(n) PROVE TypeOK'
  BY <1>13 DEF TypeOK, processSpeedVoteMsg, Speeds
<1>14. CASE UNCHANGED vars
  BY <1>14 DEF TypeOK, vars
<1> QED
  BY <1>1, <1>2, <1>3, <1>4, <1>5, <1>6, <1>7, <1>8, <1>9, <1>10, <1>11,
     <1>12, <1>13, <1>14 DEF Next, Handle, Process

\* The state after the first broadcast has the right types.
LEMMA TypeInit == Init => TypeOK
<1> SUFFICES ASSUME Init PROVE TypeOK
  OBVIOUS
<1>1. {Propose(HEIGHT_1, n) : n \in Node} \subseteq Message
  BY MessageFacts, HeightFacts
<1>2. /\ stored \in [Node -> SUBSET Height]
      /\ blockHash \in [Node -> SUBSET Height]
      /\ blockQcs \in [Node -> SUBSET Height]
  BY DEF Init
<1>3. /\ voteNums \in [Height -> Nat]
      /\ speedVoteNums \in Nat
      /\ isSpeedCert \in BOOLEAN
  BY DEF Init
<1>4. waking \subseteq {Propose(h, n) : h \in Height, n \in Node}
  BY DEF Init
<1> QED
  BY <1>1, <1>2, <1>3, <1>4 DEF Init, TypeOK

\* The variables keep their types, for every committee: the handlers and the
\* goroutines of spb.go put nothing but messages of the instance in flight.
THEOREM TypeCorrect == Spec => []TypeOK
BY TypeInit, TypeStep, PTL DEF Spec
-----------------------------------------------------------------------------
\* The inductive invariant.  QCBacked is not inductive: that a counter at
\* 2f+1 stands for 2f+1 nodes rests on CountedOnce, that nothing is counted
\* twice on Placement, and that a QC implies a full counter on SentOnQuorum.
IInv ==
  /\ TypeOK
  /\ Placement
  /\ SentOnQuorum
  /\ NestedCerts
  /\ NoLostWakeup
  /\ CountedOnce

\* A step that counts no vote and takes no counted node out keeps CountedOnce.
LEMMA CountedKept ==
  ASSUME TypeOK, CountedOnce,
         UNCHANGED <<voteNums, speedVoteNums>>,
         \A h \in Height : Counted(h) \subseteq Counted(h)',
         SpeedCounted \subseteq SpeedCounted'
  PROVE  CountedOnce'
<1>1. \A h \in Height : Counted(h)' \in SUBSET Node
  BY DEF Counted, Holders
<1>2. SpeedCounted' \in SUBSET Node
  BY DEF SpeedCounted, Certified
<1>3. \A h \in Height : Cardinality(Counted(h)) <= Cardinality(Counted(h)')
  BY <1>1, CardMono
<1>4. Cardinality(SpeedCounted) <= Cardinality(SpeedCounted')
  BY <1>2, CardMono
<1>5. \A h \in Height : voteNums[h]' <= Cardinality(Counted(h)')
  BY <1>1, <1>3, CardMono DEF CountedOnce, TypeOK
<1>6. speedVoteNums' <= Cardinality(SpeedCounted')
  BY <1>2, <1>4, CardMono DEF CountedOnce, TypeOK
<1> QED
  BY <1>5, <1>6 DEF CountedOnce

\* One step per action of the Core and of the goroutines.
LEMMA Inductive == IInv /\ [Next]_vars => IInv'
<1> SUFFICES ASSUME IInv, [Next]_vars PROVE IInv'
  OBVIOUS
<1>0. TypeOK /\ TypeOK'
  BY TypeStep DEF IInv
<1>1. ASSUME NEW n \in Node, LeaveView(n)
      PROVE  IInv'
  <2>1. Placement'
    BY <1>0, <1>1, MessageFacts, HeightFacts
       DEF IInv, TypeOK, Placement, NestedCerts, SentOnQuorum,
           ProposePlaced, VotePlaced, FinVotePlaced, SpeedVotePlaced,
           ParkedPlaced, LeaveView
  <2>2. SentOnQuorum'
    BY <1>0, <1>1, MessageFacts, HeightFacts, ThresholdType
       DEF IInv, TypeOK, SentOnQuorum, LeaveView
  <2>3. NestedCerts'
    BY <1>0, <1>1, MessageFacts, HeightFacts
       DEF IInv, TypeOK, Placement, NestedCerts, ProposePlaced, VotePlaced,
           FinVotePlaced, SpeedVotePlaced, ParkedPlaced, LeaveView
  <2>4. NoLostWakeup'
    BY <1>0, <1>1, MessageFacts, HeightFacts
       DEF IInv, TypeOK, NoLostWakeup, LeaveView
  <2>5. \A i \in Height : Counted(i) \subseteq Counted(i)'
    BY <1>0, <1>1, MessageFacts, HeightFacts
       DEF IInv, TypeOK, Placement, ProposePlaced, VotePlaced,
           FinVotePlaced, SpeedVotePlaced, ParkedPlaced, Counted, Holders,
           VotePending, LeaveView
  <2>6. SpeedCounted \subseteq SpeedCounted'
    BY <1>0, <1>1, MessageFacts, HeightFacts
       DEF IInv, TypeOK, Placement, ProposePlaced, VotePlaced,
           FinVotePlaced, SpeedVotePlaced, ParkedPlaced, SpeedCounted,
           Certified, SpeedVotePending, LeaveView
  <2>7. CountedOnce'
    BY <1>1, <2>5, <2>6, CountedKept DEF IInv, LeaveView
  <2> QED
    BY <1>0, <2>1, <2>2, <2>3, <2>4, <2>7 DEF IInv
<1>2. ASSUME NEW n \in Node, NEW h \in Height, handleProposeMsg(n, h)
      PROVE  IInv'
  <2>1. Placement'
    BY <1>0, <1>2, MessageFacts, HeightFacts
       DEF IInv, TypeOK, Placement, NestedCerts, SentOnQuorum,
           ProposePlaced, VotePlaced, FinVotePlaced, SpeedVotePlaced,
           ParkedPlaced, handleProposeMsg, Dispatch
  <2>2. SentOnQuorum'
    BY <1>0, <1>2, MessageFacts, HeightFacts, ThresholdType
       DEF IInv, TypeOK, SentOnQuorum, handleProposeMsg, Dispatch
  <2>3. NestedCerts'
    BY <1>0, <1>2, MessageFacts, HeightFacts
       DEF IInv, TypeOK, Placement, NestedCerts, ProposePlaced, VotePlaced,
           FinVotePlaced, SpeedVotePlaced, ParkedPlaced, handleProposeMsg,
           Dispatch
  <2>4. NoLostWakeup'
    BY <1>0, <1>2, MessageFacts, HeightFacts
       DEF IInv, TypeOK, NoLostWakeup, handleProposeMsg, Dispatch
  <2>5. \A i \in Height : Counted(i) \subseteq Counted(i)'
    BY <1>0, <1>2, MessageFacts, HeightFacts
       DEF IInv, TypeOK, Placement, ProposePlaced, VotePlaced,
           FinVotePlaced, SpeedVotePlaced, ParkedPlaced, Counted, Holders,
           VotePending, handleProposeMsg, Dispatch
  <2>6. SpeedCounted \subseteq SpeedCounted'
    BY <1>0, <1>2, MessageFacts, HeightFacts
       DEF IInv, TypeOK, Placement, ProposePlaced, VotePlaced,
           FinVotePlaced, SpeedVotePlaced, ParkedPlaced, SpeedCounted,
           Certified, SpeedVotePending, handleProposeMsg, Dispatch
  <2>7. CountedOnce'
    BY <1>2, <2>5, <2>6, CountedKept DEF IInv, handleProposeMsg, Dispatch
  <2> QED
    BY <1>0, <2>1, <2>2, <2>3, <2>4, <2>7 DEF IInv
<1>3. ASSUME NEW n \in Node, NEW h \in Height, handleVoteMsg(n, h)
      PROVE  IInv'
  <2>1. Placement'
    BY <1>0, <1>3, MessageFacts, HeightFacts
       DEF IInv, TypeOK, Placement, NestedCerts, SentOnQuorum,
           ProposePlaced, VotePlaced, FinVotePlaced, SpeedVotePlaced,
           ParkedPlaced, handleVoteMsg, Dispatch
  <2>2. SentOnQuorum'
    BY <1>0, <1>3, MessageFacts, HeightFacts, ThresholdType
       DEF IInv, TypeOK, SentOnQuorum, handleVoteMsg, Dispatch
  <2>3. NestedCerts'
    BY <1>0, <1>3, MessageFacts, HeightFacts
       DEF IInv, TypeOK, Placement, NestedCerts, ProposePlaced, VotePlaced,
           FinVotePlaced, SpeedVotePlaced, ParkedPlaced, handleVoteMsg,
           Dispatch
  <2>4. NoLostWakeup'
    BY <1>0, <1>3, MessageFacts, HeightFacts
       DEF IInv, TypeOK, NoLostWakeup, handleVoteMsg, Dispatch
  <2>5. \A i \in Height : Counted(i) \subseteq Counted(i)'
    BY <1>0, <1>3, MessageFacts, HeightFacts
       DEF IInv, TypeOK, Placement, ProposePlaced, VotePlaced,
           FinVotePlaced, SpeedVotePlaced, ParkedPlaced, Counted, Holders,
           VotePending, handleVoteMsg, Dispatch
  <2>6. SpeedCounted \subseteq SpeedCounted'
    BY <1>0, <1>3, MessageFacts, HeightFacts
       DEF IInv, TypeOK, Placement, ProposePlaced, VotePlaced,
           FinVotePlaced, SpeedVotePlaced, ParkedPlaced, SpeedCounted,
           Certified, SpeedVotePending, handleVoteMsg, Dispatch
  <2>7. CountedOnce'
    BY <1>3, <2>5, <2>6, CountedKept DEF IInv, handleVoteMsg, Dispatch
  <2> QED
    BY <1>0, <2>1, <2>2, <2>3, <2>4, <2>7 DEF IInv
<1>4. ASSUME NEW n \in Node, handleFinVoteMsg(n)
      PROVE  IInv'
  <2>1. Placement'
    BY <1>0, <1>4, MessageFacts, HeightFacts
       DEF IInv, TypeOK, Placement, NestedCerts, SentOnQuorum,
           ProposePlaced, VotePlaced, FinVotePlaced, SpeedVotePlaced,
           ParkedPlaced, handleFinVoteMsg, Dispatch
  <2>2. SentOnQuorum'
    BY <1>0, <1>4, MessageFacts, HeightFacts, ThresholdType
       DEF IInv, TypeOK, SentOnQuorum, handleFinVoteMsg, Dispatch
  <2>3. NestedCerts'
    BY <1>0, <1>4, MessageFacts, HeightFacts
       DEF IInv, TypeOK, Placement, NestedCerts, ProposePlaced, VotePlaced,
           FinVotePlaced, SpeedVotePlaced, ParkedPlaced, handleFinVoteMsg,
           Dispatch
  <2>4. NoLostWakeup'
    BY <1>0, <1>4, MessageFacts, HeightFacts
       DEF IInv, TypeOK, NoLostWakeup, handleFinVoteMsg, Dispatch
  <2>5. \A i \in Height : Counted(i) \subseteq Counted(i)'
    BY <1>0, <1>4, MessageFacts, HeightFacts
       DEF IInv, TypeOK, Placement, ProposePlaced, VotePlaced,
           FinVotePlaced, SpeedVotePlaced, ParkedPlaced, Counted, Holders,
           VotePending, handleFinVoteMsg, Dispatch
  <2>6. SpeedCounted \subseteq SpeedCounted'
    BY <1>0, <1>4, MessageFacts, HeightFacts
       DEF IInv, TypeOK, Placement, ProposePlaced, VotePlaced,
           FinVotePlaced, SpeedVotePlaced, ParkedPlaced, SpeedCounted,
           Certified, SpeedVotePending, handleFinVoteMsg, Dispatch
  <2>7. CountedOnce'
    BY <1>4, <2>5, <2>6, CountedKept DEF IInv, handleFinVoteMsg, Dispatch
  <2> QED
    BY <1>0, <2>1, <2>2, <2>3, <2>4, <2>7 DEF IInv
<1>5. ASSUME NEW n \in Node, handleSpeedVoteMsg(n)
      PROVE  IInv'
  <2>1. Placement'
    BY <1>0, <1>5, MessageFacts, HeightFacts
       DEF IInv, TypeOK, Placement, NestedCerts, SentOnQuorum,
           ProposePlaced, VotePlaced, FinVotePlaced, SpeedVotePlaced,
           ParkedPlaced, handleSpeedVoteMsg, Dispatch
  <2>2. SentOnQuorum'
    BY <1>0, <1>5, MessageFacts, HeightFacts, ThresholdType
       DEF IInv, TypeOK, SentOnQuorum, handleSpeedVoteMsg, Dispatch
  <2>3. NestedCerts'
    BY <1>0, <1>5, MessageFacts, HeightFacts
       DEF IInv, TypeOK, Placement, NestedCerts, ProposePlaced, VotePlaced,
           FinVotePlaced, SpeedVotePlaced, ParkedPlaced, handleSpeedVoteMsg,
           Dispatch
  <2>4. NoLostWakeup'
    BY <1>0, <1>5, MessageFacts, HeightFacts
       DEF IInv, TypeOK, NoLostWakeup, handleSpeedVoteMsg, Dispatch
  <2>5. \A i \in Height : Counted(i) \subseteq Counted(i)'
    BY <1>0, <1>5, MessageFacts, HeightFacts
       DEF IInv, TypeOK, Placement, ProposePlaced, VotePlaced,
           FinVotePlaced, SpeedVotePlaced, ParkedPlaced, Counted, Holders,
           VotePending, handleSpeedVoteMsg, Dispatch
  <2>6. SpeedCounted \subseteq SpeedCounted'
    BY <1>0, <1>5, MessageFacts, HeightFacts
       DEF IInv, TypeOK, Placement, ProposePlaced, VotePlaced,
           FinVotePlaced, SpeedVotePlaced, ParkedPlaced, SpeedCounted,
           Certified, SpeedVotePending, handleSpeedVoteMsg, Dispatch
  <2>7. CountedOnce'
    BY <1>5, <2>5, <2>6, CountedKept DEF IInv, handleSpeedVoteMsg, Dispatch
  <2> QED
    BY <1>0, <2>1, <2>2, <2>3, <2>4, <2>7 DEF IInv
<1>6. ASSUME NEW n \in Node, processPropose1(n)
      PROVE  IInv'
  <2>1. Placement'
    BY <1>0, <1>6, MessageFacts, HeightFacts
       DEF IInv, TypeOK, Placement, NestedCerts, SentOnQuorum,
           ProposePlaced, VotePlaced, FinVotePlaced, SpeedVotePlaced,
           ParkedPlaced, processPropose1
  <2>2. SentOnQuorum'
    BY <1>0, <1>6, MessageFacts, HeightFacts, ThresholdType
       DEF IInv, TypeOK, SentOnQuorum, processPropose1
  <2>3. NestedCerts'
    BY <1>0, <1>6, MessageFacts, HeightFacts
       DEF IInv, TypeOK, Placement, NestedCerts, ProposePlaced, VotePlaced,
           FinVotePlaced, SpeedVotePlaced, ParkedPlaced, processPropose1
  <2>4. NoLostWakeup'
    BY <1>0, <1>6, MessageFacts, HeightFacts
       DEF IInv, TypeOK, NoLostWakeup, processPropose1
  <2>5. \A i \in Height : Counted(i) \subseteq Counted(i)'
    BY <1>0, <1>6, MessageFacts, HeightFacts
       DEF IInv, TypeOK, Placement, ProposePlaced, VotePlaced,
           FinVotePlaced, SpeedVotePlaced, ParkedPlaced, Counted, Holders,
           VotePending, processPropose1
  <2>6. SpeedCounted \subseteq SpeedCounted'
    BY <1>0, <1>6, MessageFacts, HeightFacts
       DEF IInv, TypeOK, Placement, ProposePlaced, VotePlaced,
           FinVotePlaced, SpeedVotePlaced, ParkedPlaced, SpeedCounted,
           Certified, SpeedVotePending, processPropose1
  <2>7. CountedOnce'
    BY <1>6, <2>5, <2>6, CountedKept DEF IInv, processPropose1
  <2> QED
    BY <1>0, <2>1, <2>2, <2>3, <2>4, <2>7 DEF IInv
<1>7. ASSUME NEW n \in Node, processPropose2(n)
      PROVE  IInv'
  <2>1. Placement'
    BY <1>0, <1>7, MessageFacts, HeightFacts
       DEF IInv, TypeOK, Placement, NestedCerts, SentOnQuorum,
           ProposePlaced, VotePlaced, FinVotePlaced, SpeedVotePlaced,
           ParkedPlaced, processPropose2
  <2>2. SentOnQuorum'
    BY <1>0, <1>7, MessageFacts, HeightFacts, ThresholdType
       DEF IInv, TypeOK, SentOnQuorum, processPropose2
  <2>3. NestedCerts'
    BY <1>0, <1>7, MessageFacts, HeightFacts
       DEF IInv, TypeOK, Placement, NestedCerts, ProposePlaced, VotePlaced,
           FinVotePlaced, SpeedVotePlaced, ParkedPlaced, processPropose2
  <2>4. NoLostWakeup'
    BY <1>0, <1>7, MessageFacts, HeightFacts
       DEF IInv, TypeOK, NoLostWakeup, processPropose2
  <2>5. \A i \in Height : Counted(i) \subseteq Counted(i)'
    BY <1>0, <1>7, MessageFacts, HeightFacts
       DEF IInv, TypeOK, Placement, ProposePlaced, VotePlaced,
           FinVotePlaced, SpeedVotePlaced, ParkedPlaced, Counted, Holders,
           VotePending, processPropose2
  <2>6. SpeedCounted \subseteq SpeedCounted'
    BY <1>0, <1>7, MessageFacts, HeightFacts
       DEF IInv, TypeOK, Placement, ProposePlaced, VotePlaced,
           FinVotePlaced, SpeedVotePlaced, ParkedPlaced, SpeedCounted,
           Certified, SpeedVotePending, processPropose2
  <2>7. CountedOnce'
    BY <1>7, <2>5, <2>6, CountedKept DEF IInv, processPropose2
  <2> QED
    BY <1>0, <2>1, <2>2, <2>3, <2>4, <2>7 DEF IInv
<1>8. ASSUME NEW n \in Node, parkPropose(n)
      PROVE  IInv'
  <2>1. Placement'
    BY <1>0, <1>8, MessageFacts, HeightFacts
       DEF IInv, TypeOK, Placement, NestedCerts, SentOnQuorum,
           ProposePlaced, VotePlaced, FinVotePlaced, SpeedVotePlaced,
           ParkedPlaced, parkPropose
  <2>2. SentOnQuorum'
    BY <1>0, <1>8, MessageFacts, HeightFacts, ThresholdType
       DEF IInv, TypeOK, SentOnQuorum, parkPropose
  <2>3. NestedCerts'
    BY <1>0, <1>8, MessageFacts, HeightFacts
       DEF IInv, TypeOK, Placement, NestedCerts, ProposePlaced, VotePlaced,
           FinVotePlaced, SpeedVotePlaced, ParkedPlaced, parkPropose
  <2>4. NoLostWakeup'
    BY <1>0, <1>8, MessageFacts, HeightFacts
       DEF IInv, TypeOK, NoLostWakeup, parkPropose
  <2>5. \A i \in Height : Counted(i) \subseteq Counted(i)'
    BY <1>0, <1>8, MessageFacts, HeightFacts
       DEF IInv, TypeOK, Placement, ProposePlaced, VotePlaced,
           FinVotePlaced, SpeedVotePlaced, ParkedPlaced, Counted, Holders,
           VotePending, parkPropose
  <2>6. SpeedCounted \subseteq SpeedCounted'
    BY <1>0, <1>8, MessageFacts, HeightFacts
       DEF IInv, TypeOK, Placement, ProposePlaced, VotePlaced,
           FinVotePlaced, SpeedVotePlaced, ParkedPlaced, SpeedCounted,
           Certified, SpeedVotePending, parkPropose
  <2>7. CountedOnce'
    BY <1>8, <2>5, <2>6, CountedKept DEF IInv, parkPropose
  <2> QED
    BY <1>0, <2>1, <2>2, <2>3, <2>4, <2>7 DEF IInv
<1>9. ASSUME NEW n \in Node, NEW h \in Height, wakeAndVote(n, h)
      PROVE  IInv'
  <2>1. Placement'
    BY <1>0, <1>9, MessageFacts, HeightFacts
       DEF IInv, TypeOK, Placement, NestedCerts, SentOnQuorum,
           ProposePlaced, VotePlaced, FinVotePlaced, SpeedVotePlaced,
           ParkedPlaced, wakeAndVote, Parked
  <2>2. SentOnQuorum'
    BY <1>0, <1>9, MessageFacts, HeightFacts, ThresholdType
       DEF IInv, TypeOK, SentOnQuorum, wakeAndVote, Parked
  <2>3. NestedCerts'
    BY <1>0, <1>9, MessageFacts, HeightFacts
       DEF IInv, TypeOK, Placement, NestedCerts, ProposePlaced, VotePlaced,
           FinVotePlaced, SpeedVotePlaced, ParkedPlaced, wakeAndVote,
           Parked
  <2>4. NoLostWakeup'
    BY <1>0, <1>9, MessageFacts, HeightFacts
       DEF IInv, TypeOK, NoLostWakeup, wakeAndVote, Parked
  <2>5. \A i \in Height : Counted(i) \subseteq Counted(i)'
    BY <1>0, <1>9, MessageFacts, HeightFacts
       DEF IInv, TypeOK, Placement, ProposePlaced, VotePlaced,
           FinVotePlaced, SpeedVotePlaced, ParkedPlaced, Counted, Holders,
           VotePending, wakeAndVote, Parked
  <2>6. SpeedCounted \subseteq SpeedCounted'
    BY <1>0, <1>9, MessageFacts, HeightFacts
       DEF IInv, TypeOK, Placement, ProposePlaced, VotePlaced,
           FinVotePlaced, SpeedVotePlaced, ParkedPlaced, SpeedCounted,
           Certified, SpeedVotePending, wakeAndVote, Parked
  <2>7. CountedOnce'
    BY <1>9, <2>5, <2>6, CountedKept DEF IInv, wakeAndVote, Parked
  <2> QED
    BY <1>0, <2>1, <2>2, <2>3, <2>4, <2>7 DEF IInv
<1>10. ASSUME NEW n \in Node, NEW h \in Height, processVoteMsg(n, h)
      PROVE  IInv'
  <2>1. Placement'
    BY <1>0, <1>10, MessageFacts, HeightFacts
       DEF IInv, TypeOK, Placement, NestedCerts, SentOnQuorum,
           ProposePlaced, VotePlaced, FinVotePlaced, SpeedVotePlaced,
           ParkedPlaced, processVoteMsg, Certifies, AfterQC
  <2>2. SentOnQuorum'
    BY <1>0, <1>10, MessageFacts, HeightFacts, ThresholdType
       DEF IInv, TypeOK, SentOnQuorum, processVoteMsg, Certifies, AfterQC
  <2>3. NestedCerts'
    BY <1>0, <1>10, MessageFacts, HeightFacts
       DEF IInv, TypeOK, Placement, NestedCerts, ProposePlaced, VotePlaced,
           FinVotePlaced, SpeedVotePlaced, ParkedPlaced, processVoteMsg, Certifies,
           AfterQC
  <2>4. NoLostWakeup'
    BY <1>0, <1>10, MessageFacts, HeightFacts
       DEF IInv, TypeOK, NoLostWakeup, processVoteMsg, Certifies, AfterQC
  <2>5. \A i \in Height :
          Counted(i) \subseteq Counted(i)' /\ Counted(i)' \in SUBSET Node
    BY <1>0, <1>10, MessageFacts, HeightFacts
       DEF IInv, TypeOK, Placement, VotePlaced, Counted, Holders, VotePending,
           processVoteMsg, Certifies, AfterQC
  <2>6. n \in Counted(h)' /\ n \notin Counted(h)
    BY <1>0, <1>10, MessageFacts, HeightFacts
       DEF IInv, TypeOK, Placement, VotePlaced, Counted, Holders, VotePending,
           processVoteMsg, Certifies, AfterQC
  <2>7. CountedOnce'
    <3>1. SpeedCounted \subseteq SpeedCounted' /\ SpeedCounted' \in SUBSET Node
      BY <1>0, <1>10, MessageFacts, HeightFacts
         DEF IInv, TypeOK, SpeedCounted, Certified, SpeedVotePending,
             processVoteMsg, Certifies, AfterQC
    <3>2. speedVoteNums' <= Cardinality(SpeedCounted')
      BY <1>0, <1>10, <3>1, CardMono
         DEF IInv, TypeOK, CountedOnce, processVoteMsg, Certifies
    <3>3. voteNums[h]' <= Cardinality(Counted(h)')
      BY <1>0, <1>10, <2>5, <2>6, CardMono, CardMore
         DEF IInv, TypeOK, CountedOnce, processVoteMsg, Certifies
    <3>4. ASSUME NEW i \in Height, i # h
          PROVE  voteNums[i]' <= Cardinality(Counted(i)')
      BY <1>0, <1>10, <2>5, <3>4, CardMono
         DEF IInv, TypeOK, CountedOnce, processVoteMsg, Certifies
    <3> QED
      BY <3>2, <3>3, <3>4 DEF CountedOnce
  <2> QED
    BY <1>0, <2>1, <2>2, <2>3, <2>4, <2>7 DEF IInv
<1>11. ASSUME NEW n \in Node, processFinVoteMsg(n)
      PROVE  IInv'
  <2>1. Placement'
    BY <1>0, <1>11, MessageFacts, HeightFacts
       DEF IInv, TypeOK, Placement, NestedCerts, SentOnQuorum,
           ProposePlaced, VotePlaced, FinVotePlaced, SpeedVotePlaced,
           ParkedPlaced, processFinVoteMsg, Awaited
  <2>2. SentOnQuorum'
    BY <1>0, <1>11, MessageFacts, HeightFacts, ThresholdType
       DEF IInv, TypeOK, SentOnQuorum, processFinVoteMsg, Awaited
  <2>3. NestedCerts'
    BY <1>0, <1>11, MessageFacts, HeightFacts
       DEF IInv, TypeOK, Placement, NestedCerts, ProposePlaced, VotePlaced,
           FinVotePlaced, SpeedVotePlaced, ParkedPlaced, processFinVoteMsg, Awaited
  <2>4. NoLostWakeup'
    BY <1>0, <1>11, MessageFacts, HeightFacts
       DEF IInv, TypeOK, NoLostWakeup, processFinVoteMsg, Awaited
  <2>5. \A i \in Height : Counted(i) \subseteq Counted(i)'
    BY <1>0, <1>11, MessageFacts, HeightFacts
       DEF IInv, TypeOK, Placement, ProposePlaced, VotePlaced,
           FinVotePlaced, SpeedVotePlaced, ParkedPlaced, Counted, Holders,
           VotePending, processFinVoteMsg, Awaited
  <2>6. SpeedCounted \subseteq SpeedCounted'
    BY <1>0, <1>11, MessageFacts, HeightFacts
       DEF IInv, TypeOK, Placement, ProposePlaced, VotePlaced,
           FinVotePlaced, SpeedVotePlaced, ParkedPlaced, SpeedCounted,
           Certified, SpeedVotePending, processFinVoteMsg, Awaited
  <2>7. CountedOnce'
    BY <1>11, <2>5, <2>6, CountedKept DEF IInv, processFinVoteMsg, Awaited
  <2> QED
    BY <1>0, <2>1, <2>2, <2>3, <2>4, <2>7 DEF IInv
<1>12. ASSUME NEW n \in Node, parkFinVote(n)
      PROVE  IInv'
  <2>1. Placement'
    BY <1>0, <1>12, MessageFacts, HeightFacts
       DEF IInv, TypeOK, Placement, NestedCerts, SentOnQuorum,
           ProposePlaced, VotePlaced, FinVotePlaced, SpeedVotePlaced,
           ParkedPlaced, parkFinVote, Awaited
  <2>2. SentOnQuorum'
    BY <1>0, <1>12, MessageFacts, HeightFacts, ThresholdType
       DEF IInv, TypeOK, SentOnQuorum, parkFinVote, Awaited
  <2>3. NestedCerts'
    BY <1>0, <1>12, MessageFacts, HeightFacts
       DEF IInv, TypeOK, Placement, NestedCerts, ProposePlaced, VotePlaced,
           FinVotePlaced, SpeedVotePlaced, ParkedPlaced, parkFinVote, Awaited
  <2>4. NoLostWakeup'
    BY <1>0, <1>12, MessageFacts, HeightFacts
       DEF IInv, TypeOK, NoLostWakeup, parkFinVote, Awaited
  <2>5. \A i \in Height : Counted(i) \subseteq Counted(i)'
    BY <1>0, <1>12, MessageFacts, HeightFacts
       DEF IInv, TypeOK, Placement, ProposePlaced, VotePlaced,
           FinVotePlaced, SpeedVotePlaced, ParkedPlaced, Counted, Holders,
           VotePending, parkFinVote, Awaited
  <2>6. SpeedCounted \subseteq SpeedCounted'
    BY <1>0, <1>12, MessageFacts, HeightFacts
       DEF IInv, TypeOK, Placement, ProposePlaced, VotePlaced,
           FinVotePlaced, SpeedVotePlaced, ParkedPlaced, SpeedCounted,
           Certified, SpeedVotePending, parkFinVote, Awaited
  <2>7. CountedOnce'
    BY <1>12, <2>5, <2>6, CountedKept DEF IInv, parkFinVote, Awaited
  <2> QED
    BY <1>0, <2>1, <2>2, <2>3, <2>4, <2>7 DEF IInv
<1>13. ASSUME NEW n \in Node, processSpeedVoteMsg(n)
      PROVE  IInv'
  <2>1. Placement'
    BY <1>0, <1>13, MessageFacts, HeightFacts
       DEF IInv, TypeOK, Placement, NestedCerts, SentOnQuorum,
           ProposePlaced, VotePlaced, FinVotePlaced, SpeedVotePlaced,
           ParkedPlaced, processSpeedVoteMsg, Speeds
  <2>2. SentOnQuorum'
    BY <1>0, <1>13, MessageFacts, HeightFacts, ThresholdType
       DEF IInv, TypeOK, SentOnQuorum, processSpeedVoteMsg, Speeds
  <2>3. NestedCerts'
    BY <1>0, <1>13, MessageFacts, HeightFacts
       DEF IInv, TypeOK, Placement, NestedCerts, ProposePlaced, VotePlaced,
           FinVotePlaced, SpeedVotePlaced, ParkedPlaced,
           processSpeedVoteMsg, Speeds
  <2>4. NoLostWakeup'
    BY <1>0, <1>13, MessageFacts, HeightFacts
       DEF IInv, TypeOK, NoLostWakeup, processSpeedVoteMsg, Speeds
  <2>5. \A i \in Height :
          Counted(i) \subseteq Counted(i)' /\ Counted(i)' \in SUBSET Node
    BY <1>0, <1>13, MessageFacts, HeightFacts
       DEF IInv, TypeOK, Counted, Holders, VotePending, processSpeedVoteMsg, Speeds
  <2>6. /\ SpeedCounted \subseteq SpeedCounted'
        /\ SpeedCounted' \in SUBSET Node
        /\ n \in SpeedCounted'
        /\ n \notin SpeedCounted
    BY <1>0, <1>13, MessageFacts, HeightFacts
       DEF IInv, TypeOK, Placement, SpeedVotePlaced, SpeedCounted, Certified,
           SpeedVotePending, processSpeedVoteMsg, Speeds
  <2>7. CountedOnce'
    <3>1. ASSUME NEW i \in Height
          PROVE  voteNums[i]' <= Cardinality(Counted(i)')
      BY <1>0, <1>13, <2>5, CardMono
         DEF IInv, TypeOK, CountedOnce, processSpeedVoteMsg, Speeds
    <3>2. speedVoteNums' <= Cardinality(SpeedCounted')
      BY <1>0, <1>13, <2>6, CardMono, CardMore
         DEF IInv, TypeOK, CountedOnce, processSpeedVoteMsg, Speeds
    <3> QED
      BY <3>1, <3>2 DEF CountedOnce
  <2> QED
    BY <1>0, <2>1, <2>2, <2>3, <2>4, <2>7 DEF IInv
<1>14. CASE UNCHANGED vars
  BY <1>0, <1>14 DEF IInv, vars, TypeOK, Placement, ProposePlaced,
                     VotePlaced, FinVotePlaced, SpeedVotePlaced,
                     ParkedPlaced, SentOnQuorum, NestedCerts, NoLostWakeup,
                     CountedOnce, Counted, SpeedCounted, Holders, Certified,
                     VotePending, SpeedVotePending
<1> QED
  BY <1>1, <1>2, <1>3, <1>4, <1>5, <1>6, <1>7, <1>8, <1>9, <1>10, <1>11,
     <1>12, <1>13, <1>14 DEF Next, Handle, Process

\* Right after the first broadcast nothing is recorded, parked or counted.
LEMMA InitInductive == Init => IInv
<1> SUFFICES ASSUME Init PROVE IInv
  OBVIOUS
<1>1. TypeOK
  BY TypeInit
<1>2. Placement
  BY MessageFacts, HeightFacts
     DEF Init, Placement, ProposePlaced, VotePlaced, FinVotePlaced,
         SpeedVotePlaced, ParkedPlaced
<1>3. SentOnQuorum /\ NestedCerts /\ NoLostWakeup
  BY MessageFacts, HeightFacts
     DEF Init, SentOnQuorum, NestedCerts, NoLostWakeup
<1>4. \A h \in Height : Counted(h) = {}
  BY DEF Init, Counted, Holders
<1>5. SpeedCounted = {}
  BY DEF Init, SpeedCounted, Certified
<1>6. CountedOnce
  BY <1>4, <1>5, FS_EmptySet DEF Init, CountedOnce
<1> QED
  BY <1>1, <1>2, <1>3, <1>6 DEF IInv

\* The inductive invariant holds in every reachable state.
THEOREM Invariance == Spec => []IInv
BY InitInductive, Inductive, PTL DEF Spec

\* The parts of the inductive invariant that matter by themselves: where each
\* message can be, and what was sent on a quorum.
THEOREM Bookkeeping == Spec => [](Placement /\ SentOnQuorum)
BY Invariance, PTL DEF IInv

\* A node with a later certificate has the earlier ones, in every deployment.
THEOREM CertificatesNested == Spec => []NestedCerts
BY Invariance, PTL DEF IInv

\* Whatever is parked waits for something that has not happened: no wake-up is
\* lost between the two mutexes.
THEOREM NoWakeupLost == Spec => []NoLostWakeup
BY Invariance, PTL DEF IInv

\* The counters are numbers of distinct nodes, although authors are not
\* looked at.
THEOREM EachCountedOnce == Spec => []CountedOnce
BY Invariance, PTL DEF IInv

\* What the counters stand for, in a state of the inductive invariant.
LEMMA CountersBacked ==
  ASSUME IInv
  PROVE  /\ \A h \in Height :
              voteNums[h] >= HightThreshold => IsQuorum(Holders(h))
         /\ speedVoteNums >= HightThreshold => IsQuorum(Certified(HEIGHT_2))
<1>1. ASSUME NEW h \in Height, voteNums[h] >= HightThreshold
      PROVE  IsQuorum(Holders(h))
  <2>1. Counted(h) \in SUBSET Holders(h) /\ Holders(h) \in SUBSET Node
    BY DEF Counted, Holders
  <2> QED
    BY <1>1, <2>1, CardMono, ThresholdType DEF IInv, TypeOK, CountedOnce, IsQuorum
<1>2. ASSUME speedVoteNums >= HightThreshold
      PROVE  IsQuorum(Certified(HEIGHT_2))
  <2>1. /\ SpeedCounted \in SUBSET Certified(HEIGHT_2)
        /\ Certified(HEIGHT_2) \in SUBSET Node
    BY DEF SpeedCounted, Certified
  <2> QED
    BY <1>2, <2>1, CardMono, ThresholdType DEF IInv, TypeOK, CountedOnce, IsQuorum
<1> QED
  BY <1>1, <1>2

\* The same after a step.
LEMMA CountersBackedNext ==
  ASSUME IInv'
  PROVE  speedVoteNums' >= HightThreshold => IsQuorum(Certified(HEIGHT_2)')
<1>1. /\ SpeedCounted' \in SUBSET Certified(HEIGHT_2)'
      /\ Certified(HEIGHT_2)' \in SUBSET Node
  BY DEF SpeedCounted, Certified
<1> QED
  BY <1>1, CardMono, ThresholdType DEF IInv, TypeOK, CountedOnce, IsQuorum

\* The height-2 hash is recorded with the height-1 QC, and a node with the
\* height-2 QC has both.
LEMMA SameNodes ==
  ASSUME IInv
  PROVE  /\ Holders(HEIGHT_2) = Certified(HEIGHT_1)
         /\ Certified(HEIGHT_2) = {n \in Node : DecCert(n)}
BY DEF IInv, NestedCerts, Holders, Certified, DecCert

\* A certificate stands for a quorum of distinct nodes, for every committee:
\* counting votes without looking at their authors is sound in spb.go.
THEOREM CertificatesBacked == Spec => []QCBacked
<1>1. ASSUME IInv PROVE QCBacked
  <2>1. Certified(HEIGHT_1) # {} => IsQuorum(Holders(HEIGHT_1))
    BY <1>1, CountersBacked, HeightFacts
       DEF IInv, SentOnQuorum, NestedCerts, Certified
  <2>2. Certified(HEIGHT_2) # {} => IsQuorum(Certified(HEIGHT_1))
    BY <1>1, CountersBacked, SameNodes, HeightFacts
       DEF IInv, SentOnQuorum, Certified
  <2>3. isSpeedCert => IsQuorum({n \in Node : DecCert(n)})
    BY <1>1, CountersBacked, SameNodes DEF IInv, SentOnQuorum
  <2> QED
    BY <2>1, <2>2, <2>3 DEF QCBacked
<1> QED
  BY <1>1, Invariance, PTL
-----------------------------------------------------------------------------
\* Every step of the Core and of the goroutines is one of the four atomic
\* steps of the abstract broadcast, or changes nothing it can see.
LEMMA RefinementStep == IInv /\ [Next]_vars => [Staged!Next]_(Staged!stages)
<1> SUFFICES ASSUME IInv, [Next]_vars PROVE [Staged!Next]_(Staged!stages)
  OBVIOUS
<1> DEFINE same == /\ Holders(HEIGHT_1)' = Holders(HEIGHT_1)
                   /\ Certified(HEIGHT_1)' = Certified(HEIGHT_1)
                   /\ Certified(HEIGHT_2)' = Certified(HEIGHT_2)
                   /\ isSpeedCert' = isSpeedCert
<1>1. same => UNCHANGED Staged!stages
  BY DEF Staged!stages
<1>2. CASE UNCHANGED <<blockHash, blockQcs, isSpeedCert>>
  BY <1>1, <1>2 DEF Holders, Certified
<1>3. ASSUME NEW n \in Node, processPropose1(n)
      PROVE  [Staged!Next]_(Staged!stages)
  <2>1. /\ n \notin Holders(HEIGHT_1)
        /\ Holders(HEIGHT_1)' = Holders(HEIGHT_1) \cup {n}
    BY <1>3, HeightFacts
       DEF IInv, TypeOK, Placement, ProposePlaced, processPropose1, Holders
  <2>2. UNCHANGED <<Certified(HEIGHT_1), Certified(HEIGHT_2), isSpeedCert>>
    BY <1>3 DEF processPropose1, Certified
  <2>3. Staged!Hold(n)
    BY <2>1, <2>2 DEF Staged!Hold
  <2> QED
    BY <2>3 DEF Staged!Next
<1>4. ASSUME NEW n \in Node, processPropose2(n)
      PROVE  [Staged!Next]_(Staged!stages)
  <2>1. IsQuorum(Holders(HEIGHT_1))
    BY <1>4, CountersBacked, HeightFacts
       DEF IInv, SentOnQuorum, processPropose2
  <2>2. /\ n \in Holders(HEIGHT_1) \ Certified(HEIGHT_1)
        /\ Certified(HEIGHT_1)' = Certified(HEIGHT_1) \cup {n}
    BY <1>4, HeightFacts
       DEF IInv, TypeOK, Placement, ProposePlaced, NestedCerts,
           processPropose2, Holders, Certified
  <2>3. UNCHANGED <<Holders(HEIGHT_1), Certified(HEIGHT_2), isSpeedCert>>
    BY <1>4, HeightFacts DEF IInv, TypeOK, processPropose2, Holders, Certified
  <2>4. Staged!Lock(n)
    BY <2>1, <2>2, <2>3 DEF Staged!Lock
  <2> QED
    BY <2>4 DEF Staged!Next
<1>5. ASSUME NEW n \in Node, processFinVoteMsg(n)
      PROVE  [Staged!Next]_(Staged!stages)
  <2>1. IsQuorum(Certified(HEIGHT_1))
    BY <1>5, CountersBacked, SameNodes, HeightFacts
       DEF IInv, SentOnQuorum, processFinVoteMsg, Awaited
  <2>2. /\ n \in Certified(HEIGHT_1) \ Certified(HEIGHT_2)
        /\ Certified(HEIGHT_2)' = Certified(HEIGHT_2) \cup {n}
    BY <1>5, HeightFacts
       DEF IInv, TypeOK, Placement, FinVotePlaced, NestedCerts,
           processFinVoteMsg, Awaited, Certified
  <2>3. UNCHANGED <<Holders(HEIGHT_1), Certified(HEIGHT_1), isSpeedCert>>
    BY <1>5, HeightFacts DEF IInv, TypeOK, processFinVoteMsg, Awaited, Holders, Certified
  <2>4. Staged!Finalize(n)
    BY <2>1, <2>2, <2>3 DEF Staged!Finalize
  <2> QED
    BY <2>4 DEF Staged!Next
<1>6. ASSUME NEW n \in Node, processSpeedVoteMsg(n)
      PROVE  [Staged!Next]_(Staged!stages)
  <2>1. UNCHANGED <<Holders(HEIGHT_1), Certified(HEIGHT_1), Certified(HEIGHT_2)>>
    BY <1>6 DEF processSpeedVoteMsg, Speeds, Holders, Certified
  <2>2. CASE isSpeedCert' = isSpeedCert
    BY <1>1, <2>1, <2>2
  <2>3. CASE isSpeedCert' # isSpeedCert
    <3>1. ~isSpeedCert /\ isSpeedCert' = TRUE
      <4> DEFINE full == speedVoteNums + 1 = HightThreshold
      <4>1. isSpeedCert \in BOOLEAN /\ isSpeedCert' = (isSpeedCert \/ full)
        BY <1>6 DEF IInv, TypeOK, processSpeedVoteMsg, Speeds
      <4> HIDE DEF full
      <4> QED
        BY <2>3, <4>1, Zenon
    <3>2. speedVoteNums' >= HightThreshold /\ IInv'
      BY <1>6, <3>1, Inductive, ThresholdType
         DEF IInv, TypeOK, processSpeedVoteMsg, Speeds
    <3>3. IsQuorum(Certified(HEIGHT_2))
      BY <2>1, <3>2, CountersBackedNext
    <3>4. Staged!Speed
      BY <2>1, <3>1, <3>3 DEF Staged!Speed
    <3> QED
      BY <3>4 DEF Staged!Next
  <2> QED
    BY <2>2, <2>3
<1>7. CASE UNCHANGED vars
  BY <1>2, <1>7 DEF vars
<1> QED
  BY <1>2, <1>3, <1>4, <1>5, <1>6, <1>7
     DEF Next, Handle, Process, LeaveView, handleProposeMsg, handleVoteMsg,
         handleFinVoteMsg, handleSpeedVoteMsg, Dispatch, parkPropose,
         wakeAndVote, processVoteMsg, Certifies, parkFinVote, Awaited

\* The instance implements the abstract broadcast: the initial states map to
\* initial states and every step to a step or a stutter.
THEOREM Refinement == Spec => RefinesStaged
<1>1. Init => Staged!Init
  BY DEF Init, Staged!Init, Holders, Certified
<1> QED
  BY <1>1, RefinementStep, Invariance, PTL DEF Spec, RefinesStaged, Staged!Spec
-----------------------------------------------------------------------------
\* Nothing the proposer sent to an honest node is lost before it is stored.
ToStore ==
  \A n \in Honest :
    /\ Propose(HEIGHT_1, n) \in net \/ HEIGHT_1 \in stored[n]
    /\ voteNums[HEIGHT_1] >= HightThreshold =>
         Propose(HEIGHT_2, n) \in net \/ HEIGHT_2 \in stored[n]

\* While nobody has left the view, it is not lost before it is handled.
ToHandle ==
  left = {} =>
    \A n \in Honest :
      /\ Propose(HEIGHT_1, n) \in net \cup running \/ HEIGHT_1 \in blockHash[n]
      /\ voteNums[HEIGHT_1] >= HightThreshold =>
           \/ Propose(HEIGHT_2, n) \in net \cup running
           \/ n \in unHandlePropose \/ HEIGHT_2 \in blockHash[n]
      /\ voteNums[HEIGHT_2] >= HightThreshold =>
           \/ FinVote(n) \in net \cup running
           \/ n \in unHandleFinVote \/ HEIGHT_2 \in blockQcs[n]

Underway == ToStore /\ ToHandle

\* While nobody has left, every vote that is not under way has been counted,
\* and 2f+1 speed votes have given the certificate.
AllCounted ==
  /\ left = {} => /\ \A h \in Height : voteNums[h] >= Cardinality(Counted(h))
                  /\ speedVoteNums >= Cardinality(SpeedCounted)
  /\ speedVoteNums >= HightThreshold => isSpeedCert

\* In the net or with a goroutine.
OnWay == net \cup running

\* What a step does to the messages if it counts no vote: one that was on its
\* way still is, or was handled or parked; a node that is new among those that
\* recorded something has its vote on its way.
Moved ==
  /\ \A n \in Node : \A h \in Height :
       Propose(h, n) \in OnWay =>
         Propose(h, n) \in OnWay' \/ h \in blockHash'[n] \/ (h = HEIGHT_2 /\ n \in unHandlePropose')
  /\ \A n \in Node :
       FinVote(n) \in OnWay =>
         FinVote(n) \in OnWay' \/ HEIGHT_2 \in blockQcs'[n] \/ n \in unHandleFinVote'
  /\ \A n \in Node : \A h \in Height :
       /\ n \in VotePending(h) => n \in VotePending(h)'
       /\ h \in blockHash'[n] => h \in blockHash[n] \/ n \in VotePending(h)'
  /\ \A n \in Node :
       /\ n \in SpeedVotePending => n \in SpeedVotePending'
       /\ HEIGHT_2 \in blockQcs'[n] => HEIGHT_2 \in blockQcs[n] \/ n \in SpeedVotePending'

\* Such a step keeps everything under way.
LEMMA MovedOn ==
  ASSUME TypeOK, ToHandle, AllCounted, UNCHANGED <<voteNums, speedVoteNums, isSpeedCert>>,
         \A n \in Node : blockHash[n] \subseteq blockHash'[n] /\ blockQcs[n] \subseteq blockQcs'[n],
         unHandlePropose \subseteq unHandlePropose', unHandleFinVote \subseteq unHandleFinVote',
         left \subseteq left', left' = {} => Moved
  PROVE  ToHandle' /\ AllCounted'
<1>1. CASE left' # {}
  BY <1>1 DEF ToHandle, AllCounted
<1>2. CASE left' = {}
  <2>0. left = {} /\ Moved /\ Honest \subseteq Node
    BY <1>2 DEF Honest
  <2>1. ToHandle'
    BY <2>0, HeightFacts DEF ToHandle, Moved, OnWay
  <2>2. ASSUME NEW h \in Height PROVE voteNums'[h] >= Cardinality(Counted(h)')
    <3>1. Counted(h)' \in SUBSET Counted(h) /\ Counted(h) \in SUBSET Node
      BY <2>0 DEF Moved, Counted, Holders
    <3>2. voteNums[h] >= Cardinality(Counted(h)) /\ voteNums[h] \in Nat
      BY <2>0 DEF AllCounted, TypeOK
    <3> QED
      BY <3>1, <3>2, CardMono
  <2>3. speedVoteNums' >= Cardinality(SpeedCounted')
    <3>1. SpeedCounted' \in SUBSET SpeedCounted /\ SpeedCounted \in SUBSET Node
      BY <2>0 DEF Moved, SpeedCounted, Certified
    <3>2. speedVoteNums >= Cardinality(SpeedCounted) /\ speedVoteNums \in Nat
      BY <2>0 DEF AllCounted, TypeOK
    <3> QED
      BY <3>1, <3>2, CardMono
  <2> QED
    BY <2>1, <2>2, <2>3 DEF AllCounted
<1> QED
  BY <1>1, <1>2

\* The four handlers: in a node that is in the view, the message goes from the
\* net to a goroutine.
LEMMA DispatchMoved ==
  ASSUME TypeOK, ToHandle, AllCounted, NEW n \in Node, NEW m \in Message, Dispatch(n, m)
  PROVE  ToHandle' /\ AllCounted'
<1>1. UNCHANGED <<left, waking, blockHash, blockQcs, unHandlePropose,
                  unHandleFinVote, voteNums, speedVoteNums, isSpeedCert>>
  BY DEF Dispatch
<1>2. left = {} => net' \cup running' = net \cup running
  BY DEF Dispatch, messageFilter
<1>3. left = {} => Moved
  BY <1>1, <1>2 DEF Moved, OnWay, VotePending, SpeedVotePending
<1> QED
  BY <1>1, <1>3, MovedOn

\* Nothing but a handler of a Propose takes one from the net.
LEMMA StoreKept ==
  ASSUME ToStore, UNCHANGED <<stored, voteNums>>,
         \A n \in Node, h \in Height : Propose(h, n) \in net => Propose(h, n) \in net'
  PROVE  ToStore'
BY HeightFacts DEF ToStore, Honest

\* One node more is at most one more to count.
LEMMA OneMore ==
  ASSUME NEW S \in SUBSET Node, NEW n \in Node, NEW T \in SUBSET (S \cup {n})
  PROVE  /\ Cardinality(T) <= Cardinality(S) + 1
         /\ Cardinality(T) \in Nat /\ Cardinality(S) \in Nat
<1>1. IsFiniteSet(S) /\ S \cup {n} \in SUBSET Node
  BY CommitteeAssumption, FS_Subset
<1>2. Cardinality(S \cup {n}) <= Cardinality(S) + 1 /\ Cardinality(S) \in Nat
  <2>1. Cardinality(S) \in Nat
    BY <1>1, FS_CardinalityType
  <2>2. CASE n \in S
    <3>1. S \cup {n} = S
      BY <2>2
    <3>2. Cardinality(S \cup {n}) = Cardinality(S)
      BY <3>1, Zenon
    <3> QED
      BY <2>1, <3>2
  <2>3. CASE n \notin S
    <3>1. Cardinality(S \cup {n}) = Cardinality(S) + 1
      BY <1>1, <2>3, FS_AddElement
    <3> QED
      BY <2>1, <3>1
  <2> QED
    BY <2>2, <2>3
<1>3. Cardinality(T) <= Cardinality(S \cup {n}) /\ Cardinality(T) \in Nat
      /\ Cardinality(S \cup {n}) \in Nat
  BY <1>1, CardMono
<1> QED
  BY <1>2, <1>3

\* Every step keeps both.
LEMMA UnderwayStep == IInv /\ Underway /\ AllCounted /\ [Next]_vars => Underway' /\ AllCounted'
<1> SUFFICES ASSUME IInv, Underway, AllCounted, [Next]_vars PROVE Underway' /\ AllCounted'
  OBVIOUS
<1>0. /\ TypeOK /\ TypeOK' /\ Honest \subseteq Node /\ Proposer \in Node
      /\ ToStore /\ ToHandle
  BY TypeStep, SPBAssumption DEF IInv, Honest, Underway
<1>1. ASSUME NEW n \in Node, LeaveView(n) PROVE Underway' /\ AllCounted'
  BY <1>1 DEF LeaveView, Underway, ToStore, ToHandle, AllCounted
<1>2. ASSUME NEW n \in Node, NEW h \in Height, handleProposeMsg(n, h)
      PROVE  Underway' /\ AllCounted'
  <2>1. net' = net \ {Propose(h, n)} /\ UNCHANGED voteNums
        /\ stored' = [stored EXCEPT ![n] = @ \cup {h}]
    BY <1>2 DEF handleProposeMsg, Dispatch
  <2>2. \A m \in Node : \A i \in Height :
          Propose(i, m) \in net => Propose(i, m) \in net' \/ (i = h /\ m = n)
    BY <2>1, MessageFacts
  <2>3. \A m \in Node : stored[m] \subseteq stored'[m] /\ h \in stored'[n]
    BY <1>0, <2>1 DEF TypeOK
  <2>4. ToStore'
    BY <1>0, <2>1, <2>2, <2>3, HeightFacts DEF ToStore
  <2> QED
    BY <1>0, <1>2, <2>4, DispatchMoved, MessageFacts DEF handleProposeMsg, Underway
<1>3. ASSUME NEW n \in Node, NEW m \in Message, Dispatch(n, m), UNCHANGED stored,
             \A k \in Node, h \in Height : Propose(h, k) # m
      PROVE  Underway' /\ AllCounted'
  <2>1. ToStore'
    BY <1>0, <1>3, StoreKept DEF Dispatch
  <2> QED
    BY <1>0, <1>3, <2>1, DispatchMoved DEF Underway
<1>4. ASSUME NEW n \in Node, NEW h \in Height, handleVoteMsg(n, h)
      PROVE  Underway' /\ AllCounted'
  BY <1>0, <1>3, <1>4, MessageFacts DEF handleVoteMsg
<1>5. ASSUME NEW n \in Node, handleFinVoteMsg(n) \/ handleSpeedVoteMsg(n)
      PROVE  Underway' /\ AllCounted'
  BY <1>0, <1>3, <1>5, MessageFacts, HeightFacts DEF handleFinVoteMsg, handleSpeedVoteMsg
\* The goroutines: none takes a message from the net.
<1>6. ASSUME net \subseteq net', UNCHANGED <<left, stored, voteNums, speedVoteNums, isSpeedCert>>,
             \A n \in Node : blockHash[n] \subseteq blockHash'[n]
                             /\ blockQcs[n] \subseteq blockQcs'[n],
             unHandlePropose \subseteq unHandlePropose',
             unHandleFinVote \subseteq unHandleFinVote', Moved
      PROVE  Underway' /\ AllCounted'
  <2>1. ToStore'
    BY <1>0, <1>6, StoreKept
  <2> QED
    BY <1>0, <1>6, <2>1, MovedOn DEF Underway
<1>7. ASSUME NEW n \in Node, processPropose1(n) PROVE Underway' /\ AllCounted'
  <2>1. OnWay \ {Propose(HEIGHT_1, n)} \subseteq OnWay' /\ net \subseteq net'
    BY <1>7 DEF processPropose1, OnWay
  <2>2. \A m \in Node : \A i \in Height :
          /\ Propose(i, m) = Propose(HEIGHT_1, n) => i = HEIGHT_1 /\ m = n
          /\ FinVote(m) # Propose(HEIGHT_1, n) /\ Vote(i, m) # Propose(HEIGHT_1, n)
          /\ SpeedVote(m) # Propose(HEIGHT_1, n)
    BY MessageFacts, HeightFacts
  <2>3. /\ waking \subseteq waking' /\ Propose(HEIGHT_1, n) \in waking'
        /\ \A m \in Node : blockHash[m] \subseteq blockHash'[m]
        /\ \A m \in Node : \A i \in blockHash'[m] : i \in blockHash[m] \/ (i = HEIGHT_1 /\ m = n)
        /\ HEIGHT_1 \in blockHash'[n]
        /\ \A m \in Node : blockQcs[m] \subseteq blockQcs'[m]
        /\ \A m \in Node : HEIGHT_2 \in blockQcs'[m] => HEIGHT_2 \in blockQcs[m]
        /\ UNCHANGED <<unHandlePropose, unHandleFinVote>>
    BY <1>0, <1>7, HeightFacts DEF TypeOK, processPropose1
  <2>4. UNCHANGED <<left, stored, voteNums, speedVoteNums, isSpeedCert>>
    BY <1>7 DEF processPropose1
  <2>5. Moved
    BY <2>1, <2>2, <2>3, HeightFacts DEF Moved, VotePending, SpeedVotePending, OnWay
  <2> QED
    BY <1>6, <2>1, <2>3, <2>4, <2>5
<1>8. ASSUME NEW n \in Node, processPropose2(n) PROVE Underway' /\ AllCounted'
  <2>1. OnWay \ {Propose(HEIGHT_2, n)} \subseteq OnWay' /\ net \subseteq net'
    BY <1>8 DEF processPropose2, OnWay
  <2>2. \A m \in Node : \A i \in Height :
          /\ Propose(i, m) = Propose(HEIGHT_2, n) => i = HEIGHT_2 /\ m = n
          /\ FinVote(m) # Propose(HEIGHT_2, n) /\ Vote(i, m) # Propose(HEIGHT_2, n)
          /\ SpeedVote(m) # Propose(HEIGHT_2, n)
    BY MessageFacts, HeightFacts
  <2>3. /\ waking \subseteq waking' /\ Propose(HEIGHT_2, n) \in waking'
        /\ \A m \in Node : blockHash[m] \subseteq blockHash'[m]
        /\ \A m \in Node : \A i \in blockHash'[m] : i \in blockHash[m] \/ (i = HEIGHT_2 /\ m = n)
        /\ HEIGHT_2 \in blockHash'[n]
        /\ \A m \in Node : blockQcs[m] \subseteq blockQcs'[m]
        /\ \A m \in Node : HEIGHT_2 \in blockQcs'[m] => HEIGHT_2 \in blockQcs[m]
        /\ UNCHANGED <<unHandlePropose, unHandleFinVote>>
    BY <1>0, <1>8, HeightFacts DEF TypeOK, processPropose2
  <2>4. UNCHANGED <<left, stored, voteNums, speedVoteNums, isSpeedCert>>
    BY <1>8 DEF processPropose2
  <2>5. Moved
    BY <2>1, <2>2, <2>3, HeightFacts DEF Moved, VotePending, SpeedVotePending, OnWay
  <2> QED
    BY <1>6, <2>1, <2>3, <2>4, <2>5
<1>9. ASSUME NEW n \in Node, parkPropose(n) PROVE Underway' /\ AllCounted'
  <2>1. OnWay \ {Propose(HEIGHT_2, n)} \subseteq OnWay' /\ net \subseteq net'
    BY <1>9 DEF parkPropose, OnWay
  <2>2. \A m \in Node : \A i \in Height :
          /\ Propose(i, m) = Propose(HEIGHT_2, n) => i = HEIGHT_2 /\ m = n
          /\ FinVote(m) # Propose(HEIGHT_2, n) /\ Vote(i, m) # Propose(HEIGHT_2, n)
          /\ SpeedVote(m) # Propose(HEIGHT_2, n)
    BY MessageFacts, HeightFacts
  <2>3. /\ n \in unHandlePropose' /\ unHandlePropose \subseteq unHandlePropose'
        /\ UNCHANGED <<waking, blockHash, blockQcs, unHandleFinVote>>
    BY <1>0, <1>9, HeightFacts DEF TypeOK, parkPropose
  <2>4. UNCHANGED <<left, stored, voteNums, speedVoteNums, isSpeedCert>>
    BY <1>9 DEF parkPropose
  <2>5. Moved
    BY <2>1, <2>2, <2>3, HeightFacts DEF Moved, VotePending, SpeedVotePending, OnWay
  <2> QED
    BY <1>6, <2>1, <2>3, <2>4, <2>5
<1>10. ASSUME NEW n \in Node, NEW h \in Height, wakeAndVote(n, h)
       PROVE  Underway' /\ AllCounted'
  <2>1. /\ OnWay \subseteq OnWay' /\ net \subseteq net' /\ Vote(h, n) \in OnWay'
        /\ waking' = waking \ {Propose(h, n)}
        /\ UNCHANGED <<left, stored, blockHash, blockQcs, unHandlePropose, unHandleFinVote,
                       voteNums, speedVoteNums, isSpeedCert>>
    BY <1>10 DEF wakeAndVote, OnWay
  <2>2. \A m \in Node : \A i \in Height : Propose(i, m) = Propose(h, n) => i = h /\ m = n
    BY MessageFacts
  <2>3. Moved
    BY <2>1, <2>2 DEF Moved, VotePending, SpeedVotePending, OnWay
  <2> QED
    BY <1>6, <2>1, <2>3
<1>11. ASSUME NEW n \in Node, processFinVoteMsg(n) PROVE Underway' /\ AllCounted'
  <2>1. OnWay \ {FinVote(n)} \subseteq OnWay' /\ net \subseteq net'
    BY <1>11 DEF processFinVoteMsg, OnWay
  <2>2. \A m \in Node : \A i \in Height :
          /\ Propose(i, m) # FinVote(n) /\ Vote(i, m) # FinVote(n)
          /\ SpeedVote(m) # FinVote(n) /\ (FinVote(m) = FinVote(n) => m = n)
    BY MessageFacts, HeightFacts
  <2>3. /\ SpeedVote(n) \in OnWay'
        /\ \A m \in Node : blockQcs[m] \subseteq blockQcs'[m]
        /\ \A m \in Node : HEIGHT_2 \in blockQcs'[m] => HEIGHT_2 \in blockQcs[m] \/ m = n
        /\ HEIGHT_2 \in blockQcs'[n]
        /\ UNCHANGED <<waking, blockHash, unHandlePropose, unHandleFinVote>>
    BY <1>0, <1>11, HeightFacts DEF TypeOK, processFinVoteMsg, OnWay
  <2>4. UNCHANGED <<left, stored, voteNums, speedVoteNums, isSpeedCert>>
    BY <1>11 DEF processFinVoteMsg
  <2>5. Moved
    BY <2>1, <2>2, <2>3, HeightFacts DEF Moved, VotePending, SpeedVotePending, OnWay
  <2> QED
    BY <1>6, <2>1, <2>3, <2>4, <2>5
<1>12. ASSUME NEW n \in Node, parkFinVote(n) PROVE Underway' /\ AllCounted'
  <2>1. OnWay \ {FinVote(n)} \subseteq OnWay' /\ net \subseteq net'
    BY <1>12 DEF parkFinVote, OnWay
  <2>2. \A m \in Node : \A i \in Height :
          /\ Propose(i, m) # FinVote(n) /\ Vote(i, m) # FinVote(n)
          /\ SpeedVote(m) # FinVote(n) /\ (FinVote(m) = FinVote(n) => m = n)
    BY MessageFacts, HeightFacts
  <2>3. /\ n \in unHandleFinVote' /\ unHandleFinVote \subseteq unHandleFinVote'
        /\ UNCHANGED <<waking, blockHash, blockQcs, unHandlePropose>>
    BY <1>0, <1>12, HeightFacts DEF TypeOK, parkFinVote
  <2>4. UNCHANGED <<left, stored, voteNums, speedVoteNums, isSpeedCert>>
    BY <1>12 DEF parkFinVote
  <2>5. Moved
    BY <2>1, <2>2, <2>3, HeightFacts DEF Moved, VotePending, SpeedVotePending, OnWay
  <2> QED
    BY <1>6, <2>1, <2>3, <2>4, <2>5
<1>13. ASSUME NEW n \in Node, NEW h \in Height, processVoteMsg(n, h)
       PROVE  Underway' /\ AllCounted'
  <2>1. /\ OnWay \ {Vote(h, n)} \subseteq OnWay' /\ net \subseteq net'
        /\ UNCHANGED <<left, stored, waking, blockHash, blockQcs, unHandlePropose,
                       unHandleFinVote, speedVoteNums, isSpeedCert>>
        /\ voteNums' = [voteNums EXCEPT ![h] = @ + 1]
    BY <1>13 DEF processVoteMsg, OnWay
  <2>2. \A m \in Node : \A i \in Height :
          /\ Propose(i, m) # Vote(h, n) /\ FinVote(m) # Vote(h, n)
          /\ SpeedVote(m) # Vote(h, n) /\ (Vote(i, m) = Vote(h, n) => i = h /\ m = n)
    BY MessageFacts, HeightFacts
  <2>3. \A m \in Node :
          /\ voteNums'[HEIGHT_1] >= HightThreshold =>
               voteNums[HEIGHT_1] >= HightThreshold \/ Propose(HEIGHT_2, m) \in net'
          /\ voteNums'[HEIGHT_2] >= HightThreshold =>
               voteNums[HEIGHT_2] >= HightThreshold \/ FinVote(m) \in net'
    <3>1. CASE voteNums[h] + 1 = HightThreshold
      <4>1. AfterQC(h) \subseteq net'
        BY <1>13, <3>1 DEF processVoteMsg, Certifies
      <4> QED
        BY <1>0, <2>1, <4>1, HeightFacts, ThresholdType DEF AfterQC, TypeOK
    <3>2. CASE voteNums[h] + 1 # HightThreshold
      BY <1>0, <2>1, <3>2, HeightFacts, ThresholdType DEF TypeOK
    <3> QED
      BY <3>1, <3>2
  <2>4. ToStore'
    BY <1>0, <2>1, <2>3 DEF ToStore
  <2>5. ToHandle'
    BY <1>0, <2>1, <2>2, <2>3, HeightFacts DEF ToHandle, OnWay
  <2>6. \A i \in Height : /\ Counted(i) \in SUBSET Node
                          /\ Counted(i)' \in SUBSET (Counted(i) \cup {n})
                          /\ i # h => Counted(i)' \in SUBSET Counted(i)
    BY <2>1, <2>2 DEF Counted, Holders, VotePending, OnWay
  <2>7. SpeedCounted' \in SUBSET SpeedCounted /\ SpeedCounted \in SUBSET Node
    BY <2>1, <2>2, HeightFacts DEF SpeedCounted, Certified, SpeedVotePending, OnWay
  <2>8. ASSUME left = {}, NEW i \in Height PROVE voteNums'[i] >= Cardinality(Counted(i)')
    <3>1. voteNums[i] >= Cardinality(Counted(i)) /\ voteNums[i] \in Nat
      BY <1>0, <2>8 DEF AllCounted, TypeOK
    <3>2. CASE i = h
      BY <1>0, <2>1, <2>6, <3>1, <3>2, OneMore DEF TypeOK
    <3>3. CASE i # h
      BY <1>0, <2>1, <2>6, <3>1, <3>3, CardMono DEF TypeOK
    <3> QED
      BY <3>2, <3>3
  <2>9. left = {} => speedVoteNums >= Cardinality(SpeedCounted')
    BY <1>0, <2>7, CardMono DEF AllCounted, TypeOK
  <2> QED
    BY <2>1, <2>4, <2>5, <2>8, <2>9 DEF Underway, AllCounted
<1>14. ASSUME NEW n \in Node, processSpeedVoteMsg(n) PROVE Underway' /\ AllCounted'
  <2>1. /\ OnWay \ {SpeedVote(n)} \subseteq OnWay'
        /\ UNCHANGED <<net, left, stored, waking, blockHash, blockQcs, unHandlePropose,
                       unHandleFinVote, voteNums>>
        /\ speedVoteNums' = speedVoteNums + 1
    BY <1>14 DEF processSpeedVoteMsg, OnWay
  <2>2. \A m \in Node : \A i \in Height :
          /\ Propose(i, m) # SpeedVote(n) /\ Vote(i, m) # SpeedVote(n)
          /\ FinVote(m) # SpeedVote(n) /\ (SpeedVote(m) = SpeedVote(n) => m = n)
    BY MessageFacts, HeightFacts
  <2>3. ToStore'
    BY <1>0, <2>1 DEF ToStore
  <2>4. ToHandle'
    BY <1>0, <2>1, <2>2, HeightFacts DEF ToHandle, OnWay
  <2>5. \A i \in Height : Counted(i)' \in SUBSET Counted(i) /\ Counted(i) \in SUBSET Node
    BY <2>1, <2>2 DEF Counted, Holders, VotePending, OnWay
  <2>6. SpeedCounted' \in SUBSET (SpeedCounted \cup {n}) /\ SpeedCounted \in SUBSET Node
    BY <2>1, <2>2, HeightFacts DEF SpeedCounted, Certified, SpeedVotePending, OnWay
  <2>7. speedVoteNums' >= HightThreshold => isSpeedCert'
    <3>1. CASE isSpeedCert
      BY <1>14, <3>1 DEF processSpeedVoteMsg
    <3>2. CASE ~isSpeedCert /\ speedVoteNums + 1 # HightThreshold
      BY <1>0, <2>1, <3>2, ThresholdType DEF AllCounted, TypeOK
    <3>3. CASE speedVoteNums + 1 = HightThreshold
      BY <1>14, <3>3 DEF processSpeedVoteMsg, Speeds
    <3> QED
      BY <3>1, <3>2, <3>3
  <2>8. left = {} => \A i \in Height : voteNums[i] >= Cardinality(Counted(i)')
    BY <1>0, <2>5, CardMono DEF AllCounted, TypeOK
  <2>9. left = {} => speedVoteNums' >= Cardinality(SpeedCounted')
    BY <1>0, <2>1, <2>6, OneMore DEF AllCounted, TypeOK
  <2> QED
    BY <2>1, <2>3, <2>4, <2>7, <2>8, <2>9 DEF Underway, AllCounted
<1>15. CASE UNCHANGED vars
  BY <1>15 DEF vars, Underway, ToStore, ToHandle, AllCounted, Counted, SpeedCounted, Holders,
               Certified, VotePending, SpeedVotePending
<1> QED
  BY <1>1, <1>2, <1>4, <1>5, <1>7, <1>8, <1>9, <1>10, <1>11, <1>12, <1>13, <1>14, <1>15
     DEF Next, Handle, Process

\* Nothing more can happen in the instance: no goroutine is left, and no
\* message that an honest node would take.
AtRest ==
  /\ running = {} /\ waking = {}
  /\ \A n \in Honest : FinVote(n) \notin net /\ \A h \in Height : Propose(h, n) \notin net
  /\ \A n \in Node : SpeedVote(n) \notin net /\ \A h \in Height : Vote(h, n) \notin net

\* What a finished instance leaves behind:
\*   - at every honest node, gone from the view or not, each block that has a
\*     QC anywhere;
\*   - if nobody left and 2f+1 nodes are honest, both QCs at every honest node
\*     and the speed certificate at the proposer.
RestIsComplete ==
  AtRest =>
    /\ \A h \in Height : \A m \in Node, n \in Honest : h \in blockQcs[m] => h \in stored[n]
    /\ left = {} /\ IsQuorum(Honest) => isSpeedCert /\ \A n \in Honest : DecCert(n)

\* All honest nodes are counted, if all votes are.
LEMMA HonestCounted ==
  ASSUME NEW S \in SUBSET Node, Honest \subseteq S, IsQuorum(Honest), NEW k \in Nat,
         k >= Cardinality(S)
  PROVE  k >= HightThreshold
<1>1. Honest \in SUBSET S
  OBVIOUS
<1>2. Cardinality(Honest) <= Cardinality(S) /\ Cardinality(S) \in Nat /\ Cardinality(Honest) \in Nat
  BY <1>1, CardMono
<1> QED
  BY <1>2, ThresholdType DEF IsQuorum

\* spb.go never stops half way, for any committee: what Completion and
\* EventuallyStored promise can fail only by a goroutine or a message that is
\* never scheduled.
THEOREM RestsComplete == Spec => []RestIsComplete
<1>1. Init => Underway /\ AllCounted
  <2> SUFFICES ASSUME Init PROVE Underway /\ AllCounted
    OBVIOUS
  <2>1. Honest \subseteq Node
    BY DEF Honest
  <2>2. Underway
    BY <2>1, ThresholdType, HeightFacts DEF Init, Underway, ToStore, ToHandle
  <2>3. \A h \in Height : Counted(h) = {}
    BY DEF Init, Counted, Holders
  <2>4. SpeedCounted = {}
    BY DEF Init, SpeedCounted, Certified
  <2> QED
    BY <2>2, <2>3, <2>4, FS_EmptySet, ThresholdType DEF Init, AllCounted
<1>2. ASSUME IInv, Underway, AllCounted, AtRest
      PROVE  /\ \A h \in Height : \A m \in Node, n \in Honest : h \in blockQcs[m] => h \in stored[n]
             /\ left = {} /\ IsQuorum(Honest) => isSpeedCert /\ \A n \in Honest : DecCert(n)
  <2>0. Honest \subseteq Node /\ voteNums \in [Height -> Nat] /\ speedVoteNums \in Nat
    BY <1>2 DEF Honest, IInv, TypeOK
  <2>1. ASSUME NEW h \in Height, NEW m \in Node, NEW n \in Honest, h \in blockQcs[m]
        PROVE  h \in stored[n]
    <3>1. CASE h = HEIGHT_1
      BY <1>2, <3>1 DEF Underway, ToStore, ToHandle, AtRest
    <3>2. CASE h = HEIGHT_2
      <4>1. voteNums[HEIGHT_1] >= HightThreshold
        BY <1>2, <2>1, <3>2 DEF IInv, NestedCerts, SentOnQuorum
      <4> QED
        BY <1>2, <3>2, <4>1 DEF Underway, ToStore, ToHandle, AtRest
    <3> QED
      BY <3>1, <3>2, HeightFacts
  <2>2. ASSUME left = {}, IsQuorum(Honest) PROVE isSpeedCert /\ \A n \in Honest : DecCert(n)
    <3>1. /\ \A h \in Height : Counted(h) = Holders(h)
          /\ SpeedCounted = Certified(HEIGHT_2)
      BY <1>2 DEF AtRest, Counted, VotePending, SpeedCounted, SpeedVotePending
    <3>2. /\ \A h \in Height : Holders(h) \in SUBSET Node /\ voteNums[h] >= Cardinality(Holders(h))
          /\ Certified(HEIGHT_2) \in SUBSET Node
          /\ speedVoteNums >= Cardinality(Certified(HEIGHT_2))
      BY <1>2, <2>2, <3>1 DEF AllCounted, Holders, Certified
    <3>3. Honest \subseteq Holders(HEIGHT_1)
      BY <1>2, <2>0, <2>2, HeightFacts DEF Underway, ToStore, ToHandle, AtRest, Holders
    <3>4. voteNums[HEIGHT_1] >= HightThreshold
      BY <2>0, <2>2, <3>2, <3>3, HonestCounted, HeightFacts
    <3>5. Honest \subseteq Holders(HEIGHT_2)
      BY <1>2, <2>0, <2>2, <3>3, <3>4, HeightFacts
         DEF Underway, ToStore, ToHandle, AtRest, Holders, IInv, NoLostWakeup
    <3>6. voteNums[HEIGHT_2] >= HightThreshold
      BY <2>0, <2>2, <3>2, <3>5, HonestCounted, HeightFacts
    <3>7. Honest \subseteq Certified(HEIGHT_2)
      BY <1>2, <2>0, <2>2, <3>5, <3>6, HeightFacts
         DEF Underway, ToStore, ToHandle, AtRest, Holders, Certified, IInv, NoLostWakeup
    <3>8. speedVoteNums >= HightThreshold
      BY <2>0, <2>2, <3>2, <3>7, HonestCounted
    <3> QED
      BY <1>2, <2>0, <3>7, <3>8, SameNodes DEF AllCounted
  <2> QED
    BY <2>1, <2>2
<1>3. IInv /\ Underway /\ AllCounted => RestIsComplete
  BY <1>2 DEF RestIsComplete
<1> QED
  BY <1>1, <1>3, UnderwayStep, Invariance, PTL DEF Spec
=============================================================================
