--------------------------- MODULE ElectionProofs ---------------------------
(***************************************************************************)
(* The coin of every protocol, for every committee and every number of     *)
(* faulty nodes.                                                           *)
(***************************************************************************)
EXTENDS BigElection, CommitteeProofs

Types ==
  /\ TypeOK
  /\ protocol \in {PAC_LEAN, PAC_BIG}
  /\ elects \in [Node -> Nat]
  /\ again \subseteq elected

\* Shares are released on 2f+1 completed broadcasts, Aggregators hold released
\* shares, and the coin, at a node or in a message, comes from 2f+1 of them.
Released ==
  /\ \A n \in Node : finVoteNums[n] \subseteq finished /\ used[n] \subseteq elected
  /\ \A n \in elected : IsQuorum(finVoteNums[n])
  /\ coinSent \cup coinViewFlags # {} => IsQuorum(elected)

\* A node has reported if it has processed the coin, and in PAC_BIG, which has
\* no flag, the length of the list says so.
Reported ==
  /\ \A n \in Node : reportsSent[n] = IF n \in coinViewFlags THEN 1 ELSE 0
  /\ protocol = PAC_BIG =>
       \A n \in Node :
         /\ elects[n] = Cardinality(used[n])
         /\ n \in coinViewFlags => elects[n] >= HightThreshold

\* The leader misses its hash only if 2f+1 others voted and sent speed votes:
\* it takes 2f+2 nodes for the coin to meet the error, and the protocol is
\* PAC_LEAN.
Missed ==
  /\ sped => Leader \in finished /\ protocol = PAC_LEAN
  /\ sped /\ ~hashed => IsQuorum(Honest \ {Leader})
  /\ refused # {} => sped /\ IsQuorum(Honest \ {Leader})
  /\ refused \subseteq coinSent

IInv == Types /\ Released /\ Reported /\ Missed

\* The two protocols differ.
LEMMA ProtocolFacts == PAC_LEAN # PAC_BIG
BY DEF PAC_LEAN, PAC_BIG

\* Running nodes are honest nodes of the committee.
LEMMA LiveFacts == Live \subseteq Honest /\ Honest \subseteq Node
BY DEF Live, Honest

\* A set of nodes that contains a quorum is one.
LEMMA QuorumGrows ==
  ASSUME NEW T \in SUBSET Node, NEW S \in SUBSET T, IsQuorum(S)
  PROVE  IsQuorum(T)
BY CardMono, ThresholdType DEF IsQuorum

\* A set that has exactly 2f+1 members is a quorum.
LEMMA ExactQuorum ==
  ASSUME NEW S \in SUBSET Node, Cardinality(S) = HightThreshold
  PROVE  IsQuorum(S)
BY ThresholdType DEF IsQuorum

\* The initial state satisfies the invariant.
LEMMA InitInductive == BigInit => IInv
<1> SUFFICES ASSUME BigInit PROVE IInv
  OBVIOUS
<1> USE DEF BigInit, Init
<1>1. Types
  BY DEF Types, TypeOK
<1>2. Released
  BY DEF Released
<1>3. Cardinality({}) = 0
  BY FS_EmptySet
<1>4. Reported
  BY <1>3 DEF Reported
<1>5. Missed
  BY DEF Missed
<1> QED
  BY <1>1, <1>2, <1>4, <1>5 DEF IInv

\* Progress of the broadcasts, or a node leaves the view.
LEMMA OutsideStep ==
  ASSUME IInv, NEW n \in Node,
         \/ RecordHash \/ FinishBroadcast(n) \/ LeaveView(n)
         \/ protocol = PAC_LEAN /\ SpeedCertified,
         UNCHANGED <<protocol, again, elects>>
  PROVE  IInv'
<1> USE DEF IInv, coinVars, broadcastVars
<1>1. CASE RecordHash
  BY <1>1 DEF RecordHash, Types, TypeOK, Released, Reported, Missed
<1>2. CASE FinishBroadcast(n)
  BY <1>2 DEF FinishBroadcast, Types, TypeOK, Released, Reported, Missed
<1>3. CASE LeaveView(n)
  BY <1>3 DEF LeaveView, Types, TypeOK, Released, Reported, Missed
<1>4. CASE protocol = PAC_LEAN /\ SpeedCertified
  BY <1>4 DEF SpeedCertified, VotersOf, Types, TypeOK, Released, Reported, Missed
<1> QED
  BY <1>1, <1>2, <1>3, <1>4

\* A FinVote, or in PAC_BIG a speed vote of the node itself, is counted; the
\* share is released with the one that makes 2f+1.
LEMMA VoteStep ==
  ASSUME IInv, NEW n \in Live, NEW p \in finished,
         finVoteNums' \in {finVoteNums, [finVoteNums EXCEPT ![n] = @ \cup {p}]},
         elected' \in {elected, elected \cup {n}},
         elected' # elected => Cardinality(finVoteNums'[n]) = HightThreshold,
         again' \subseteq elected',
         UNCHANGED <<broadcastVars, left, used, coinVars, protocol, elects>>
  PROVE  IInv'
<1> USE DEF IInv, broadcastVars, coinVars
<1>0. n \in Node
  BY LiveFacts
<1>1. Types'
  BY <1>0, LiveFacts DEF Types, TypeOK
<1>2. \A m \in Node : finVoteNums[m] \subseteq finVoteNums'[m]
                      /\ finVoteNums'[m] \subseteq finished
  BY <1>0 DEF Types, TypeOK, Released
<1>3. finished \subseteq Node /\ elected \subseteq Node /\ elected' \subseteq Node
  BY <1>0, LiveFacts DEF Types, TypeOK
<1>4. \A m \in elected' : IsQuorum(finVoteNums'[m])
  <2> TAKE m \in elected'
  <2>1. finVoteNums'[m] \in SUBSET Node /\ finVoteNums[m] \in SUBSET finVoteNums'[m]
    BY <1>2, <1>3
  <2>2. CASE m \in elected
    BY <2>1, <2>2, QuorumGrows DEF Released
  <2>3. CASE m \notin elected
    BY <2>1, <2>3, ExactQuorum
  <2> QED
    BY <2>2, <2>3
<1>5. IsQuorum(elected) => IsQuorum(elected')
  BY <1>3, QuorumGrows
<1>6. Released'
  BY <1>2, <1>4, <1>5 DEF Released
<1>7. Reported' /\ Missed'
  BY DEF Reported, Missed
<1> QED
  BY <1>1, <1>6, <1>7

\* A node processes the coin, which has been sent.
LEMMA CoinProcessed ==
  ASSUME IInv, protocol = PAC_LEAN, NEW n \in Live, NEW m \in coinSent', processCoin(n, m),
         coinSent \subseteq coinSent', coinSent' \subseteq Live,
         UNCHANGED <<hashed, sped, finished, protocol>>
  PROVE  /\ refused' \subseteq Live /\ coinViewFlags' \subseteq Live
         /\ reportsSent' \in [Node -> Nat] /\ Missed'
         /\ \A k \in Node : reportsSent'[k] = IF k \in coinViewFlags' THEN 1 ELSE 0
<1> USE ProtocolFacts, LiveFacts DEF IInv
<1>1. CASE FirstCoin(n) /\ GetBlockFails(n)
  <2>1. refused' = refused \cup {m} /\ UNCHANGED <<coinViewFlags, reportsSent>>
    BY <1>1 DEF processCoin
  <2>2. sped /\ IsQuorum(Honest \ {Leader})
    BY <1>1 DEF GetBlockFails, Missed
  <2> QED
    BY <2>1, <2>2 DEF Types, TypeOK, Reported, Missed
<1>2. CASE ~(FirstCoin(n) /\ GetBlockFails(n))
  <2>1. /\ refused' = refused /\ coinViewFlags' = coinViewFlags \cup {n}
        /\ reportsSent' = [reportsSent EXCEPT ![n] = IF n \notin coinViewFlags THEN @ + 1 ELSE @]
    BY <1>2 DEF processCoin, FirstCoin
  <2> QED
    BY <2>1 DEF Types, TypeOK, Reported, Missed
<1> QED
  BY <1>1, <1>2

\* A share reaches a node of PAC_LEAN.
LEMMA ElectStep ==
  ASSUME IInv, protocol = PAC_LEAN, NEW n \in Node, NEW m \in Node, handleElectMsg(n, m),
         UNCHANGED <<protocol, again, elects>>
  PROVE  IInv'
<1> USE ProtocolFacts DEF IInv
<1>1. /\ n \in Live
      /\ used' = [used EXCEPT ![n] = @ \cup {m}]
      /\ m \in elected
      /\ UNCHANGED <<hashed, sped, finished, left, finVoteNums, elected>>
  BY DEF handleElectMsg, broadcastVars
<1>2. used'[n] = used[n] \cup {m} /\ used[n] \cup {m} \in SUBSET elected
  BY <1>1 DEF Types, TypeOK, Released
<1>3. elected \in SUBSET Node
  BY LiveFacts DEF Types, TypeOK
<1>4. CASE AddGivesLeader(n, m)
  <2>1. IsQuorum(elected)
    BY <1>2, <1>3, <1>4, ExactQuorum, QuorumGrows DEF AddGivesLeader
  <2>2. coinSent' = coinSent \cup {n} /\ processCoin(n, n)
    BY <1>4 DEF handleElectMsg
  <2>3. n \in coinSent' /\ coinSent \subseteq coinSent' /\ coinSent' \subseteq Live
    BY <1>1, <2>2 DEF Types, TypeOK
  <2>4. /\ refused' \subseteq Live /\ coinViewFlags' \subseteq Live
        /\ reportsSent' \in [Node -> Nat] /\ Missed'
        /\ \A k \in Node : reportsSent'[k] = IF k \in coinViewFlags' THEN 1 ELSE 0
    BY <1>1, <2>2, <2>3, CoinProcessed
  <2>5. Types'
    BY <1>1, <2>3, <2>4 DEF Types, TypeOK
  <2>6. Released'
    BY <1>1, <1>2, <2>1 DEF Released, Types, TypeOK
  <2> QED
    BY <2>4, <2>5, <2>6 DEF Reported
<1>5. CASE ~AddGivesLeader(n, m)
  <2>1. UNCHANGED coinVars
    BY <1>5 DEF handleElectMsg
  <2>2. Types' /\ Reported' /\ Missed'
    BY <1>1, <2>1 DEF Types, TypeOK, Reported, Missed, coinVars
  <2>3. Released'
    BY <1>1, <1>2, <2>1 DEF Released, Types, TypeOK, coinVars
  <2> QED
    BY <2>2, <2>3
<1> QED
  BY <1>4, <1>5

\* A RandomCoinMsg reaches a node of PAC_LEAN.
LEMMA CoinStep ==
  ASSUME IInv, protocol = PAC_LEAN, NEW n \in Node, NEW m \in Node, handleCoinMsg(n, m),
         UNCHANGED <<protocol, again, elects>>
  PROVE  IInv'
<1> USE ProtocolFacts DEF IInv
<1>1. /\ n \in Live /\ m \in coinSent /\ processCoin(n, m)
      /\ UNCHANGED <<hashed, sped, finished, left, finVoteNums, elected, used, coinSent>>
  BY DEF handleCoinMsg, TakesCoin, broadcastVars
<1>2. /\ refused' \subseteq Live /\ coinViewFlags' \subseteq Live
      /\ reportsSent' \in [Node -> Nat] /\ Missed'
      /\ \A k \in Node : reportsSent'[k] = IF k \in coinViewFlags' THEN 1 ELSE 0
  BY <1>1, CoinProcessed DEF Types, TypeOK
<1>3. Types'
  BY <1>1, <1>2 DEF Types, TypeOK
<1>4. Released'
  BY <1>1 DEF Released
<1> QED
  BY <1>2, <1>3, <1>4 DEF Reported

\* A share reaches a node of PAC_BIG or PAC_BIG_DAG.  The length of the list
\* meets the threshold once, since a repeated share does not lengthen it.
LEMMA BigElectStep ==
  ASSUME IInv, protocol = PAC_BIG, NEW n \in Node, NEW m \in Node,
         bigHandleElectMsg(n, m), UNCHANGED protocol
  PROVE  IInv'
<1> USE ProtocolFacts DEF IInv, bigHandleElectMsg, broadcastVars
<1>1. /\ n \in Live
      /\ m \in elected
      /\ used' = [used EXCEPT ![n] = @ \cup {m}]
      /\ elects' = [elects EXCEPT ![n] = IF m \in used[n] THEN @ ELSE @ + 1]
      /\ UNCHANGED <<hashed, sped, finished, left, finVoteNums, elected, coinSent, refused,
                     again, protocol>>
  BY DEF append, Types
<1>2. used'[n] = used[n] \cup {m} /\ used'[n] \in SUBSET elected /\ elected \in SUBSET Node
  BY <1>1, LiveFacts DEF Types, TypeOK, Released
<1>3. elects'[n] = Cardinality(used'[n])
  <2>1. IsFiniteSet(used[n])
    BY CommitteeAssumption, FS_Subset DEF Types, TypeOK
  <2>2. CASE m \in used[n]
    <3>1. used'[n] = used[n]
      BY <1>2, <2>2
    <3> QED
      BY <1>1, <2>2, <3>1 DEF Reported, Types
  <2>3. CASE m \notin used[n]
    <3>1. Cardinality(used[n] \cup {m}) = Cardinality(used[n]) + 1
      BY <2>1, <2>3, FS_AddElement
    <3> QED
      BY <1>1, <1>2, <2>3, <3>1 DEF Reported, Types
  <2> QED
    BY <2>2, <2>3
<1>4. /\ elects[n] \in Nat
      /\ elects'[n] \in {elects[n], elects[n] + 1}
      /\ \A k \in Node \ {n} : elects'[k] = elects[k] /\ used'[k] = used[k]
  BY <1>1 DEF Types, TypeOK
<1>7. Missed'
  BY <1>1 DEF Missed
<1>5. CASE elects'[n] = HightThreshold /\ elects[n] # HightThreshold
  <2>1. /\ coinViewFlags' = coinViewFlags \cup {n}
        /\ reportsSent' = [reportsSent EXCEPT ![n] = @ + 1]
    BY <1>5
  <2>2. n \notin coinViewFlags
    BY <1>4, <1>5, ThresholdType DEF Reported
  <2>3. IsQuorum(elected)
    BY <1>2, <1>3, <1>5, ExactQuorum, QuorumGrows
  <2>4. Types'
    BY <1>1, <2>1 DEF Types, TypeOK
  <2>5. Released'
    BY <1>1, <1>2, <2>1, <2>3 DEF Released, Types, TypeOK
  <2>6. \A k \in Node : reportsSent'[k] = IF k \in coinViewFlags' THEN 1 ELSE 0
    BY <2>1, <2>2 DEF Reported, Types, TypeOK
  <2>7. ASSUME NEW k \in Node
        PROVE  /\ elects'[k] = Cardinality(used'[k])
               /\ k \in coinViewFlags' => elects'[k] >= HightThreshold
    <3>1. CASE k = n
      BY <1>3, <1>4, <1>5, <2>1, <3>1, ThresholdType DEF Reported
    <3>2. CASE k # n
      BY <1>4, <2>1, <3>2 DEF Reported
    <3> QED
      BY <3>1, <3>2
  <2> QED
    BY <1>7, <2>4, <2>5, <2>6, <2>7 DEF Reported
<1>6. CASE ~(elects'[n] = HightThreshold /\ elects[n] # HightThreshold)
  <2>1. UNCHANGED <<coinViewFlags, reportsSent>>
    BY <1>6
  <2>2. Types'
    BY <1>1, <2>1 DEF Types, TypeOK
  <2>3. Released'
    BY <1>1, <1>2, <2>1 DEF Released, Types, TypeOK
  <2>4. ASSUME NEW k \in Node
        PROVE  /\ elects'[k] = Cardinality(used'[k])
               /\ k \in coinViewFlags' => elects'[k] >= HightThreshold
    <3>1. CASE k = n
      BY <1>3, <1>4, <2>1, <3>1, ThresholdType DEF Reported
    <3>2. CASE k # n
      BY <1>4, <2>1, <3>2 DEF Reported
    <3> QED
      BY <3>1, <3>2
  <2>5. Reported'
    BY <2>1, <2>4 DEF Reported
  <2> QED
    BY <1>7, <2>2, <2>3, <2>5
<1> QED
  BY <1>5, <1>6

\* Every step keeps the invariant.
LEMMA Inductive == IInv /\ [BigNext]_bigVars => IInv'
<1> SUFFICES ASSUME IInv, [BigNext]_bigVars PROVE IInv'
  OBVIOUS
<1>1. CASE UNCHANGED bigVars
  BY <1>1 DEF bigVars, vars, broadcastVars, coinVars, IInv, Types, TypeOK, Released, Reported,
              Missed
<1>2. ASSUME NEW n \in Node, NEW m \in Node, handleFinVoteMsg(n, m),
             UNCHANGED <<protocol, again, elects>>
      PROVE  IInv'
  <2>1. again' \subseteq elected'
    BY <1>2 DEF handleFinVoteMsg, IInv, Types
  <2>2. finVoteNums'[n] = finVoteNums[n] \cup {m}
    BY <1>2 DEF handleFinVoteMsg, IInv, Types, TypeOK
  <2> QED
    BY <1>2, <2>1, <2>2, VoteStep DEF handleFinVoteMsg
<1>3. ASSUME NEW n \in Node, NEW m \in Node, bigHandleSpeedVoteMsg(n, m), UNCHANGED protocol
      PROVE  IInv'
  <2>1. again' \subseteq elected'
    BY <1>3 DEF bigHandleSpeedVoteMsg, IInv, Types
  <2> QED
    BY <1>3, <2>1, VoteStep DEF bigHandleSpeedVoteMsg, Releases
<1>4. ASSUME NEW n \in Node, EitherLoop(n) PROVE IInv'
  BY <1>2, <1>3, <1>4, ElectStep, CoinStep, BigElectStep DEF EitherLoop, Loop
<1>5. Node # {}
  BY CommitteeAssumption
<1> QED
  BY <1>1, <1>4, <1>5, OutsideStep DEF BigNext

\* The invariant holds in every reachable state.
LEMMA Invariance == BigSpec => []IInv
BY InitInductive, Inductive, PTL DEF BigSpec

\* The variables keep their types.
THEOREM TypeCorrect == BigSpec => []TypeOK
BY Invariance, PTL DEF IInv, Types

\* Whoever knows the coin owes it to 2f+1 shares, each released on 2f+1
\* completed broadcasts, in every protocol and committee.
THEOREM CoinNeedsQuorums == BigSpec => []CoinNeedsQuorum
<1>1. ASSUME IInv PROVE CoinNeedsQuorum
  <2> SUFFICES ASSUME coinViewFlags # {}
               PROVE  /\ IsQuorum(elected)
                      /\ \A n \in elected : IsQuorum(finVoteNums[n] \cap finished)
    BY DEF CoinNeedsQuorum
  <2>1. IsQuorum(elected)
    BY <1>1 DEF IInv, Released
  <2>2. \A n \in elected : finVoteNums[n] \cap finished = finVoteNums[n]
    BY <1>1, LiveFacts DEF IInv, Released, Types, TypeOK
  <2> QED
    BY <1>1, <2>1, <2>2 DEF IInv, Released
<1> QED
  BY <1>1, Invariance, PTL

\* A node reports once: in PAC_LEAN although the coin comes in two ways, in
\* PAC_BIG although shares come again and there is no flag.
THEOREM OneReport == BigSpec => []ReportsOnce
<1>1. IInv => ReportsOnce
  BY DEF IInv, Reported, ReportsOnce
<1> QED
  BY <1>1, Invariance, PTL
-----------------------------------------------------------------------------
\* No threshold is passed over: whoever counted 2f+1 has acted on it.  A node
\* of PAC_LEAN that sent the coin has processed it or is a leader without its
\* hash, one that knows the coin was told or has told, and nobody leaves the
\* view before the coin is known.
Passed ==
  /\ \A n \in Live : /\ IsQuorum(finVoteNums[n]) => n \in elected
                     /\ IsQuorum(used[n]) => n \in coinSent \cup coinViewFlags
  /\ left # {} => protocol = PAC_LEAN /\ coinViewFlags # {}
  /\ \A n \in coinSent \ coinViewFlags : n = Leader /\ n \in refused
  /\ coinSent # {} => protocol = PAC_LEAN
  /\ protocol = PAC_LEAN /\ coinViewFlags # {} => coinSent # {}

\* A set that reaches 2f+1 by one more node has exactly 2f+1.
LEMMA ReachQuorum ==
  ASSUME NEW S \in SUBSET Node, NEW m \in Node, ~IsQuorum(S), IsQuorum(S \cup {m})
  PROVE  Cardinality(S \cup {m}) = HightThreshold
<1>1. IsFiniteSet(S) /\ Cardinality(S) \in Nat
  BY CommitteeAssumption, FS_Subset, FS_CardinalityType
<1>2. Cardinality(S \cup {m}) <= Cardinality(S) + 1
  BY <1>1, FS_AddElement
<1>3. Cardinality(S \cup {m}) \in Nat
  BY <1>1, FS_AddElement, FS_CardinalityType
<1> QED
  BY <1>1, <1>2, <1>3, ThresholdType DEF IsQuorum

\* The votes are counted.
LEMMA PassedVote ==
  ASSUME IInv, Passed, NEW n \in Live, NEW p \in Node,
         finVoteNums' \in {finVoteNums, [finVoteNums EXCEPT ![n] = @ \cup {p}]},
         elected \subseteq elected',
         Cardinality(finVoteNums'[n]) = HightThreshold => n \in elected',
         UNCHANGED <<left, used, coinSent, coinViewFlags, refused, protocol>>
  PROVE  Passed'
<1>0. n \in Node /\ finVoteNums \in [Node -> SUBSET Node]
  BY LiveFacts DEF IInv, Types, TypeOK
<1>1. ASSUME NEW k \in Live, IsQuorum(finVoteNums'[k]) PROVE k \in elected'
  <2>0. k \in Node
    BY LiveFacts
  <2>1. CASE IsQuorum(finVoteNums[k])
    BY <2>1 DEF Passed
  <2>2. CASE ~IsQuorum(finVoteNums[k])
    <3>1. k = n /\ finVoteNums'[n] = finVoteNums[n] \cup {p}
      BY <1>0, <1>1, <2>0, <2>2
    <3>2. finVoteNums[n] \in SUBSET Node /\ ~IsQuorum(finVoteNums[n])
          /\ IsQuorum(finVoteNums[n] \cup {p})
      BY <1>0, <1>1, <2>2, <3>1
    <3> QED
      BY <3>1, <3>2, ReachQuorum
  <2> QED
    BY <2>1, <2>2
<1> QED
  BY <1>1 DEF Passed

\* The shares are counted.
LEMMA PassedShare ==
  ASSUME IInv, Passed, NEW n \in Live, NEW m \in Node,
         used' = [used EXCEPT ![n] = @ \cup {m}],
         coinViewFlags \subseteq coinViewFlags', coinSent \subseteq coinSent',
         ~IsQuorum(used[n]) /\ Cardinality(used[n] \cup {m}) = HightThreshold
           => n \in coinSent' \cup coinViewFlags',
         \A k \in coinSent' \ coinViewFlags' : k = Leader /\ k \in refused',
         coinSent' # {} => protocol = PAC_LEAN,
         protocol = PAC_LEAN /\ coinViewFlags' # {} => coinSent' # {},
         UNCHANGED <<left, finVoteNums, elected, protocol>>
  PROVE  Passed'
<1>0. n \in Node /\ used \in [Node -> SUBSET Node]
  BY LiveFacts DEF IInv, Types, TypeOK
<1>1. ASSUME NEW k \in Live, IsQuorum(used'[k]) PROVE k \in coinSent' \cup coinViewFlags'
  <2>0. k \in Node
    BY LiveFacts
  <2>1. CASE IsQuorum(used[k])
    BY <2>1 DEF Passed
  <2>2. CASE ~IsQuorum(used[k])
    <3>1. k = n /\ used'[n] = used[n] \cup {m}
      BY <1>0, <1>1, <2>0, <2>2
    <3>2. used[n] \in SUBSET Node /\ ~IsQuorum(used[n]) /\ IsQuorum(used[n] \cup {m})
      BY <1>0, <1>1, <2>2, <3>1
    <3> QED
      BY <3>1, <3>2, ReachQuorum
  <2> QED
    BY <2>1, <2>2
<1> QED
  BY <1>1 DEF Passed

\* The coin is processed, or the leader cannot.
LEMMA PassedCoin ==
  ASSUME NEW n, NEW m, processCoin(n, m)
  PROVE  /\ coinViewFlags \subseteq coinViewFlags' /\ refused \subseteq refused'
         /\ n \in coinViewFlags' \/ (n = Leader /\ m \in refused')
         /\ coinViewFlags' \subseteq coinViewFlags \cup {n}
BY DEF processCoin, GetBlockFails

\* Every step of either protocol keeps it.
LEMMA PassedStep == IInv /\ Passed /\ [BigNext]_bigVars => Passed'
<1> SUFFICES ASSUME IInv, Passed, [BigNext]_bigVars PROVE Passed'
  OBVIOUS
<1>0. /\ finVoteNums \in [Node -> SUBSET Node] /\ used \in [Node -> SUBSET Node]
      /\ elects \in [Node -> Nat] /\ finished \subseteq Node /\ elected \subseteq Node
      /\ again \subseteq Node
  BY LiveFacts DEF IInv, Types, TypeOK
<1>1. CASE UNCHANGED bigVars
  BY <1>1 DEF bigVars, vars, broadcastVars, coinVars, Passed
<1>2. ASSUME RecordHash \/ SpeedCertified \/ \E n \in Node : FinishBroadcast(n),
             UNCHANGED <<protocol, again, elects>>
      PROVE  Passed'
  BY <1>2 DEF RecordHash, SpeedCertified, FinishBroadcast, coinVars, Passed
<1>3. ASSUME NEW n \in Node, protocol = PAC_LEAN, LeaveView(n),
             UNCHANGED <<protocol, again, elects>>
      PROVE  Passed'
  BY <1>3 DEF LeaveView, coinVars, Passed
<1>4. ASSUME NEW n \in Node, NEW m \in Node, handleFinVoteMsg(n, m),
             UNCHANGED <<protocol, again, elects>>
      PROVE  Passed'
  <2>1. finVoteNums'[n] = finVoteNums[n] \cup {m}
    BY <1>0, <1>4 DEF handleFinVoteMsg
  <2> QED
    BY <1>4, <2>1, PassedVote DEF handleFinVoteMsg, coinVars
<1>5. ASSUME NEW n \in Node, NEW m \in Node, bigHandleSpeedVoteMsg(n, m), UNCHANGED protocol
      PROVE  Passed'
  BY <1>5, PassedVote DEF bigHandleSpeedVoteMsg, Releases, coinVars
<1>6. ASSUME NEW n \in Node, NEW m \in Node, protocol = PAC_LEAN, handleElectMsg(n, m),
             UNCHANGED <<protocol, again, elects>>
      PROVE  Passed'
  <2>1. /\ n \in Live /\ used' = [used EXCEPT ![n] = @ \cup {m}]
        /\ UNCHANGED <<left, finVoteNums, elected, protocol>>
    BY <1>6 DEF handleElectMsg
  <2>2. CASE AddGivesLeader(n, m)
    <3>1. coinSent' = coinSent \cup {n} /\ processCoin(n, n)
      BY <1>6, <2>2 DEF handleElectMsg
    <3>2. /\ coinViewFlags \subseteq coinViewFlags' /\ refused \subseteq refused'
          /\ n \in coinViewFlags' \/ (n = Leader /\ n \in refused')
      BY <3>1, PassedCoin
    <3>3. \A k \in coinSent' \ coinViewFlags' : k = Leader /\ k \in refused'
      BY <3>1, <3>2 DEF Passed
    <3>4. coinSent \subseteq coinSent' /\ n \in coinSent' \cup coinViewFlags' /\ coinSent' # {}
      BY <3>1
    <3> QED
      BY <1>6, <2>1, <3>2, <3>3, <3>4, PassedShare
  <2>3. CASE ~AddGivesLeader(n, m)
    <3>1. UNCHANGED <<coinSent, coinViewFlags, refused>>
      BY <1>6, <2>3 DEF handleElectMsg, coinVars
    <3>2. Cardinality(used[n] \cup {m}) # HightThreshold
      BY <2>3 DEF AddGivesLeader
    <3>3. /\ coinViewFlags \subseteq coinViewFlags' /\ coinSent \subseteq coinSent'
          /\ \A k \in coinSent' \ coinViewFlags' : k = Leader /\ k \in refused'
          /\ coinSent' # {} => protocol = PAC_LEAN
          /\ protocol = PAC_LEAN /\ coinViewFlags' # {} => coinSent' # {}
      BY <3>1 DEF Passed
    <3> QED
      BY <2>1, <3>2, <3>3, PassedShare
  <2> QED
    BY <2>2, <2>3
<1>7. ASSUME NEW n \in Node, NEW m \in Node, handleCoinMsg(n, m),
             UNCHANGED <<protocol, again, elects>>
      PROVE  Passed'
  <2>1. /\ m \in coinSent /\ processCoin(n, m)
        /\ UNCHANGED <<left, finVoteNums, elected, used, coinSent, protocol>>
    BY <1>7 DEF handleCoinMsg
  <2>2. coinViewFlags \subseteq coinViewFlags' /\ refused \subseteq refused'
    BY <2>1, PassedCoin
  <2> QED
    BY <2>1, <2>2 DEF Passed
<1>8. ASSUME NEW n \in Node, NEW m \in Node, protocol = PAC_BIG, bigHandleElectMsg(n, m),
             UNCHANGED protocol
      PROVE  Passed'
  <2>0. IInv'
    BY Inductive
  <2>1. /\ n \in Live /\ used' = [used EXCEPT ![n] = @ \cup {m}]
        /\ UNCHANGED <<left, finVoteNums, elected, protocol, coinSent, refused>>
        /\ coinViewFlags' \in {coinViewFlags, coinViewFlags \cup {n}}
    BY <1>8 DEF bigHandleElectMsg
  <2>2. used'[n] = used[n] \cup {m}
    BY <1>0, <2>1
  <2>3. elects'[n] = Cardinality(used[n] \cup {m}) /\ elects[n] = Cardinality(used[n])
    BY <1>8, <2>0, <2>2, ProtocolFacts DEF IInv, Reported
  <2>4. ASSUME ~IsQuorum(used[n]), Cardinality(used[n] \cup {m}) = HightThreshold
        PROVE  n \in coinViewFlags'
    <3>1. elects[n] # HightThreshold
      BY <1>0, <2>3, <2>4, ExactQuorum
    <3> QED
      BY <1>8, <2>3, <2>4, <3>1 DEF bigHandleElectMsg
  <2>5. /\ coinViewFlags \subseteq coinViewFlags' /\ coinSent \subseteq coinSent'
        /\ \A k \in coinSent' \ coinViewFlags' : k = Leader /\ k \in refused'
        /\ coinSent' # {} => protocol = PAC_LEAN
    BY <2>1 DEF Passed
  <2> QED
    BY <1>8, <2>1, <2>4, <2>5, PassedShare, ProtocolFacts
<1>9. ASSUME NEW n \in Node, EitherLoop(n) PROVE Passed'
  BY <1>4, <1>5, <1>6, <1>7, <1>8, <1>9 DEF EitherLoop, Loop
<1> QED
  BY <1>1, <1>2, <1>3, <1>9 DEF BigNext

\* No running node has a message left that would tell it anything: it has taken
\* every vote and every share, unless messageFilter drops them, and in PAC_LEAN
\* a node that has not processed the coin has no coin message left to take.
LoopsAtRest ==
  \A n \in Live :
    /\ n \notin left => finished \subseteq finVoteNums[n] /\ elected \subseteq used[n]
    /\ protocol = PAC_LEAN /\ n \notin coinViewFlags =>
         coinSent \ {n} \subseteq (IF n = Leader THEN refused ELSE {})

\* At rest:
\*   - a coin one node knows has been processed by every running node, but for
\*     a leader for which every coin, its own included, met the error, and that
\*     takes 2f+1 honest nodes besides the leader;
\*   - the coin is known if 2f+1 proposers completed their broadcast and 2f+1
\*     nodes run.
RestIsElected ==
  LoopsAtRest =>
    /\ Revealed =>
         \A n \in Live \ coinViewFlags :
           n = Leader /\ coinSent \subseteq refused /\ IsQuorum(Honest \ {n})
    /\ IsQuorum(finished) /\ IsQuorum(Live) => Revealed

\* The exact tests "= 2f+1" of the handlers pass over no count, in either
\* protocol, and processCoin's error is the one way to be left without the
\* coin: what CoinTotality and CoinRevealed promise can fail only by messages
\* that are never taken.
THEOREM RestsElected == BigSpec => []RestIsElected
<1>1. BigInit => Passed
  <2> SUFFICES ASSUME BigInit, NEW n \in Live PROVE ~IsQuorum({})
    BY LiveFacts DEF BigInit, Init, Passed
  <2> QED
    BY FS_EmptySet, ThresholdType DEF IsQuorum
<1>2. ASSUME IInv, Passed, LoopsAtRest
      PROVE  /\ Revealed =>
                  \A n \in Live \ coinViewFlags :
                    n = Leader /\ coinSent \subseteq refused /\ IsQuorum(Honest \ {n})
             /\ IsQuorum(finished) /\ IsQuorum(Live) => Revealed
  <2>0. /\ finVoteNums \in [Node -> SUBSET Node] /\ used \in [Node -> SUBSET Node]
        /\ Live \subseteq Node /\ protocol \in {PAC_LEAN, PAC_BIG}
    BY <1>2, LiveFacts DEF IInv, Types, TypeOK
  <2>1. ASSUME NEW n \in Live \ coinViewFlags, Revealed
        PROVE  n = Leader /\ coinSent \subseteq refused /\ IsQuorum(Honest \ {n})
    <3>1. CASE protocol = PAC_LEAN
      <4>1. coinSent # {}
        BY <1>2, <2>1, <3>1 DEF Passed, Revealed
      <4>2. coinSent \ {n} \subseteq (IF n = Leader THEN refused ELSE {})
        BY <1>2, <2>1, <3>1 DEF LoopsAtRest
      <4>3. n \in coinSent => n = Leader /\ n \in refused
        BY <1>2, <2>1 DEF Passed
      <4>4. n = Leader /\ coinSent \subseteq refused
        BY <4>1, <4>2, <4>3
      <4> QED
        BY <1>2, <4>1, <4>4 DEF IInv, Missed
    <3>2. CASE protocol = PAC_BIG
      <4>1. elected \in SUBSET used[n] /\ used[n] \in SUBSET Node
        BY <1>2, <2>0, <3>2, ProtocolFacts DEF Passed, LoopsAtRest
      <4>2. IsQuorum(elected)
        BY <1>2, <2>1 DEF IInv, Released, Revealed
      <4>3. IsQuorum(used[n])
        BY <4>1, <4>2, QuorumGrows
      <4> QED
        BY <1>2, <2>1, <3>2, <4>3, ProtocolFacts DEF Passed
    <3> QED
      BY <2>0, <3>1, <3>2
  <2>2. ASSUME IsQuorum(finished), IsQuorum(Live), ~Revealed PROVE FALSE
    <3>1. left = {}
      BY <1>2, <2>2 DEF Passed, Revealed
    <3>2. \A n \in Live : finished \in SUBSET finVoteNums[n] /\ elected \in SUBSET used[n]
      BY <1>2, <3>1 DEF LoopsAtRest
    <3>3. \A n \in Live : IsQuorum(finVoteNums[n])
      BY <2>0, <2>2, <3>2, QuorumGrows
    <3>4. Live \in SUBSET elected
      BY <1>2, <3>3 DEF Passed
    <3>5. Live # {}
      BY <2>2, FS_EmptySet, ThresholdType DEF IsQuorum
    <3>6. PICK n \in Live : TRUE
      BY <3>5
    <3>7. Live \in SUBSET used[n] /\ used[n] \in SUBSET Node
      BY <2>0, <3>2, <3>4
    <3>8. IsQuorum(used[n])
      BY <2>2, <3>7, QuorumGrows
    <3> QED
      BY <1>2, <2>2, <3>8 DEF Passed, Revealed
  <2> QED
    BY <2>1, <2>2
<1>3. IInv /\ Passed => RestIsElected
  BY <1>2 DEF RestIsElected
<1> QED
  BY <1>1, <1>3, PassedStep, Invariance, PTL DEF BigSpec
=============================================================================
