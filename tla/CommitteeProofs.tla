-------------------------- MODULE CommitteeProofs --------------------------
(***************************************************************************)
(* Facts about thresholds and quorums, for every size of the committee.    *)
(***************************************************************************)
EXTENDS Committee, FiniteSetTheorems, TLAPS

\* The threshold is a positive natural number, whatever the committee's size.
LEMMA ThresholdType == HightThreshold \in Nat \ {0} /\ Size \in Nat \ {0}
<1>1. Size \in Nat
  BY CommitteeAssumption, FS_CardinalityType DEF Size
<1>2. Size # 0
  BY CommitteeAssumption, FS_EmptySet DEF Size
<1>3. MaxFaults \in Nat
  BY <1>1, <1>2 DEF MaxFaults
<1> QED
  BY <1>1, <1>2, <1>3 DEF HightThreshold

\* Sets of nodes are finite, and a larger one has at least as many elements.
LEMMA CardMono ==
  ASSUME NEW T \in SUBSET Node, NEW S \in SUBSET T
  PROVE  /\ Cardinality(S) \in Nat
         /\ Cardinality(T) \in Nat
         /\ Cardinality(S) <= Cardinality(T)
BY CommitteeAssumption, FS_Subset, FS_CardinalityType

\* ... and strictly more when it has a further element.
LEMMA CardMore ==
  ASSUME NEW T \in SUBSET Node, NEW S \in SUBSET T, NEW n \in T, n \notin S
  PROVE  Cardinality(S) + 1 <= Cardinality(T)
<1>1. IsFiniteSet(S)
  BY CommitteeAssumption, FS_Subset
<1>2. Cardinality(S \cup {n}) = Cardinality(S) + 1
  BY <1>1, FS_AddElement
<1>3. S \cup {n} \in SUBSET T
  OBVIOUS
<1> QED
  BY <1>2, <1>3, CardMono

\* Two sets of nodes that together have more members than the committee share
\* one.
LEMMA SetsMeet ==
  ASSUME NEW S \in SUBSET Node, NEW T \in SUBSET Node,
         Cardinality(S) + Cardinality(T) > Size
  PROVE  S \cap T # {}
<1>1. IsFiniteSet(S) /\ IsFiniteSet(T)
  BY CommitteeAssumption, FS_Subset
<1>2. /\ Cardinality(S \cup T) = Cardinality(S) + Cardinality(T) - Cardinality(S \cap T)
      /\ IsFiniteSet(S \cap T)
  BY <1>1, FS_Union, FS_Intersection
<1>3. Cardinality(S \cup T) <= Size
  BY CardMono DEF Size
<1>4. /\ Cardinality(S) \in Nat
      /\ Cardinality(T) \in Nat
      /\ Cardinality(S \cap T) \in Nat
      /\ Cardinality(S \cup T) \in Nat
      /\ Size \in Nat
  BY CardMono, ThresholdType
<1>5. Cardinality(S \cap T) # 0
  BY <1>2, <1>3, <1>4
<1> QED
  BY <1>5, FS_EmptySet

\* For the committee sizes the protocol is made for, 3f+1, any two sets that
\* reach HightThreshold share a node.
THEOREM QuorumsMeet ==
  ASSUME Size = 3 * MaxFaults + 1,
         NEW S \in SUBSET Node, NEW T \in SUBSET Node, IsQuorum(S), IsQuorum(T)
  PROVE  S \cap T # {}
<1>1. Cardinality(S) \in Nat /\ Cardinality(T) \in Nat /\ Size \in Nat
  BY CardMono, ThresholdType
<1>2. MaxFaults \in Nat
  BY ThresholdType DEF MaxFaults
<1>3. Cardinality(S) + Cardinality(T) > Size
  BY <1>1, <1>2 DEF IsQuorum, HightThreshold
<1> QED
  BY <1>3, SetsMeet

\* What the thresholds of config.go give for committees of other sizes, which
\* the code accepts: two sets of 2f+1 nodes have to meet in all but three
\* sizes, a set of 2f+1 and one of f+1 only in committees of 3f+1.
THEOREM SizesThatWork ==
  /\ 2 * HightThreshold > Size <=> Size \notin {2, 3, 6}
  /\ HightThreshold + LowThreshold > Size <=> Size = 3 * MaxFaults + 1
<1>1. Size \in Nat \ {0}
  BY ThresholdType
<1>2. MaxFaults \in Nat /\ 3 * MaxFaults <= Size - 1 /\ Size - 1 < 3 * MaxFaults + 3
  BY <1>1 DEF MaxFaults
<1> QED
  BY <1>1, <1>2 DEF HightThreshold, LowThreshold
=============================================================================
