-------------------------- MODULE ViewChangeProofs --------------------------
(***************************************************************************)
(* The view changes of PAC_LEAN and of PAC_BIG for every committee in      *)
(* which two quorums intersect.                                            *)
(***************************************************************************)
EXTENDS BigViewChange, CommitteeProofs

\* The levels, the heights and NONE are different numbers.
LEMMA LevelFacts ==
  /\ LEVEL_2 \in Level /\ LEVEL_1 \in Level /\ LEVEL_0 \in Level
  /\ LEVEL_2 # LEVEL_1 /\ LEVEL_2 # LEVEL_0 /\ LEVEL_1 # LEVEL_0
  /\ NONE \notin Level
  /\ \A l \in Level : l = LEVEL_2 \/ l = LEVEL_1 \/ l = LEVEL_0
  /\ HEIGHT_1 # HEIGHT_2 /\ HEIGHT_1 # NONE /\ HEIGHT_2 # NONE
BY DEF LEVEL_2, LEVEL_1, LEVEL_0, Level, NONE, HEIGHT_1, HEIGHT_2

\* QCLEvel returns a level with the QC that belongs to it.
LEMMA QCLEvelFacts ==
  ASSUME NEW n \in Node
  PROVE  \/ /\ n \in locked /\ n \in finalized
            /\ QCLEvel(n) = [level |-> LEVEL_2, qc |-> "height2"]
         \/ /\ n \in locked /\ n \notin finalized
            /\ QCLEvel(n) = [level |-> LEVEL_1, qc |-> "height1"]
         \/ /\ n \notin locked
            /\ \E q \in {"preQc", "nil"} :
                 QCLEvel(n) = [level |-> LEVEL_0, qc |-> q]
<1>1. CASE n \in locked /\ n \in finalized
  BY <1>1 DEF QCLEvel
<1>2. CASE n \in locked /\ n \notin finalized
  BY <1>2 DEF QCLEvel
<1>3. CASE n \notin locked
  BY <1>3 DEF QCLEvel
<1> QED
  BY <1>1, <1>2, <1>3
-----------------------------------------------------------------------------
\* The first state has the right types.
LEMMA TypeInit == Init => TypeOK
<1> SUFFICES ASSUME Init PROVE TypeOK
  OBVIOUS
<1>1. /\ pc \in [Node -> {"loop", "report"}]
      /\ \A n \in Faulty : pc[n] = "loop"
      /\ decided \in [Node -> {NONE, HEIGHT_1, HEIGHT_2}]
  BY CommitteeAssumption DEF Init
<1>2. reportNums \in [Node -> [Level -> Nat]]
  BY DEF Init
<1>3. proposal \in [Node -> [qc : QC, level : Level] \cup {NoProposal}]
  BY DEF Init
<1>4. sped \in BOOLEAN /\ coin \in BOOLEAN
  BY DEF Init, Broadcast!Init
<1> QED
  BY <1>1, <1>2, <1>3, <1>4 DEF Init, Broadcast!Init, TypeOK

\* Every step keeps the types.
LEMMA TypeStep == TypeOK /\ [Next]_vars => TypeOK'
<1> SUFFICES ASSUME TypeOK, [Next]_vars PROVE TypeOK'
  OBVIOUS
<1>1. CASE InstanceStep
  <2>1. UNCHANGED <<coin, pc, coinViewFlags, decided, reports, reportNums,
                    ahead, proposal>>
    BY <1>1 DEF InstanceStep
  <2>2. held' \subseteq Honest /\ locked' \subseteq Honest /\ finalized' \subseteq Honest
    BY <1>1 DEF InstanceStep, TypeOK, Broadcast!Speed, Broadcast!Hold,
                Broadcast!Lock, Broadcast!Finalize
  <2>3. sped' \in BOOLEAN
    BY <1>1 DEF InstanceStep, TypeOK, Broadcast!Speed, Broadcast!Hold,
                Broadcast!Lock, Broadcast!Finalize
  <2> QED
    BY <2>1, <2>2, <2>3 DEF TypeOK
<1>2. CASE RevealCoin
  BY <1>2 DEF RevealCoin, TypeOK, instance
<1>3. ASSUME NEW n \in Node, processCoin(n) PROVE TypeOK'
  <2>1. decided'[n] \in {NONE, HEIGHT_1, HEIGHT_2}
    BY <1>3 DEF processCoin, TypeOK
  <2>2. \A m \in Faulty : pc'[m] = "loop"
    BY <1>3, CommitteeAssumption DEF processCoin, TypeOK, Honest
  <2> QED
    BY <1>3, <2>1, <2>2 DEF processCoin, TypeOK, instance
<1>4. ASSUME NEW n \in Node, sendReport(n) PROVE TypeOK'
  <2>1. [author |-> n, level |-> QCLEvel(n).level, qc |-> QCLEvel(n).qc] \in Report
    BY QCLEvelFacts, LevelFacts DEF Report, QC
  <2>2. n \in Honest
    BY <1>4 DEF sendReport, TypeOK, Honest
  <2>3. \A m \in Faulty : pc'[m] = "loop"
    BY <1>4, CommitteeAssumption DEF sendReport, TypeOK
  <2> QED
    BY <1>4, <2>1, <2>2, <2>3 DEF sendReport, TypeOK, instance
<1>5. ASSUME NEW n \in Node, NEW r \in reports, handleReportMsg(n, r)
      PROVE  TypeOK'
  <2>1. r \in Report
    BY DEF TypeOK
  <2>2. [qc |-> r.qc, level |-> r.level] \in [qc : QC, level : Level]
    BY <2>1 DEF Report
  <2>3. reportNums' \in [Node -> [Level -> Nat]]
    BY <1>5, <2>1 DEF handleReportMsg, TypeOK, Report
  <2>4. ahead' \subseteq Honest
    BY <1>5 DEF handleReportMsg, advanceView, TypeOK
  <2>5. proposal' \in [Node -> [qc : QC, level : Level] \cup {NoProposal}]
    BY <1>5, <2>2 DEF handleReportMsg, advanceView, TypeOK
  <2> QED
    BY <1>5, <2>3, <2>4, <2>5 DEF handleReportMsg, TypeOK, instance
<1>6. ASSUME NEW n \in Node, SkipView(n) PROVE TypeOK'
  BY <1>6 DEF SkipView, TypeOK, instance
<1>7. CASE UNCHANGED vars
  BY <1>7 DEF vars, instance, TypeOK
<1> QED
  BY <1>1, <1>2, <1>3, <1>4, <1>5, <1>6, <1>7 DEF Next, Loop

\* The variables keep their types, for every committee.
THEOREM TypeCorrect == Spec => []TypeOK
BY TypeInit, TypeStep, PTL DEF Spec
-----------------------------------------------------------------------------
\* While a node is between its commit and its report, its flag is not set.
FlagLast == \A n \in Node : pc[n] = "report" => n \notin coinViewFlags

\* Who advanced has counted reports that were sent.
AdvanceBacked ==
  \A n \in Advanced :
    /\ proposal[n].level \in Level
    /\ proposal[n].level = LEVEL_2 =>
         ReportsOf(LEVEL_2) # {} /\ proposal[n].qc = "height2"
    /\ proposal[n].level = LEVEL_1 =>
         /\ Cardinality(ReportsOf(LEVEL_1)) >= HightThreshold
         /\ proposal[n].qc = "height1"
    /\ proposal[n].level = LEVEL_0 =>
         /\ Cardinality(ReportsOf(LEVEL_0)) >= HightThreshold
         /\ proposal[n].qc \in {"preQc", "nil"}

\* A commit is never outlived by the certificate it was read from.
CommitKept ==
  \A n \in Node :
    /\ decided[n] = HEIGHT_2 => n = Leader /\ sped
    /\ decided[n] = HEIGHT_1 => n \in finalized

\* What both protocols keep of the reports.  DocGExclusive compares the
\* proposals of two nodes and is inductive only with what they stand for:
\* counters, the reports behind them, and the one report per author.
ReportInv ==
  /\ TypeOK
  /\ FlagLast
  /\ IsFiniteSet(reports)
  /\ ReportsBacked
  /\ AdvanceBacked

\* The inductive invariant of PAC_LEAN.
IInv == ReportInv /\ Broadcast!Backed /\ CommitKept

\* A larger set of nodes is a quorum if a smaller one is.
LEMMA QuorumGrows ==
  ASSUME NEW T \in SUBSET Node, NEW S \in SUBSET T, IsQuorum(S)
  PROVE  IsQuorum(T)
BY CardMono, ThresholdType DEF IsQuorum

\* The reports of a level are finitely many and do not become fewer.
LEMMA MoreReports ==
  ASSUME IsFiniteSet(reports), NEW R, IsFiniteSet(R), reports \subseteq R,
         NEW l \in Level
  PROVE  /\ Cardinality(ReportsOf(l)) \in Nat
         /\ Cardinality({r \in R : r.level = l}) \in Nat
         /\ Cardinality(ReportsOf(l)) <= Cardinality({r \in R : r.level = l})
<1>1. IsFiniteSet({r \in R : r.level = l})
  BY FS_Subset
<1>2. ReportsOf(l) \subseteq {r \in R : r.level = l}
  BY DEF ReportsOf
<1> QED
  BY <1>1, <1>2, FS_Subset, FS_CardinalityType

\* A step that at most lets the leader's instance go on: what a report says
\* stays true.
LEMMA StagesGrow ==
  ASSUME ReportInv, TypeOK', locked \subseteq locked', finalized \subseteq finalized',
         UNCHANGED <<pc, coinViewFlags, reports, reportNums, ahead, proposal>>
  PROVE  ReportInv'
<1>1. ReportsBacked'
  BY DEF ReportInv, ReportsBacked, ReportsOf
<1>2. AdvanceBacked' /\ FlagLast' /\ IsFiniteSet(reports)'
  BY DEF ReportInv, AdvanceBacked, Advanced, ReportsOf, FlagLast
<1> QED
  BY <1>1, <1>2 DEF ReportInv

\* processCoin up to the commit.
LEMMA CoinInductive ==
  ASSUME ReportInv, TypeOK', NEW n \in Node, processCoin(n)
  PROVE  /\ ReportInv'
         /\ \A m \in Node : /\ decided'[m] = HEIGHT_2 => decided[m] = HEIGHT_2 \/ (m = n /\ SpeedCert(n))
                            /\ decided'[m] = HEIGHT_1 => decided[m] = HEIGHT_1 \/ (m = n /\ DecCert(n))
<1>1. UNCHANGED <<held, locked, finalized, sped, coinViewFlags, reports,
                  reportNums, ahead, proposal>>
  BY DEF processCoin, instance
<1>2. FlagLast'
  BY <1>1 DEF ReportInv, TypeOK, FlagLast, processCoin
<1>3. ReportsBacked' /\ AdvanceBacked' /\ IsFiniteSet(reports)'
  BY <1>1 DEF ReportInv, ReportsBacked, ReportsOf, AdvanceBacked, Advanced
<1>4. /\ decided'[n] = HEIGHT_2 => SpeedCert(n)
      /\ decided'[n] = HEIGHT_1 => DecCert(n)
  BY LevelFacts DEF ReportInv, TypeOK, processCoin
<1>5. \A m \in Node : m # n => decided'[m] = decided[m]
  BY DEF ReportInv, TypeOK, processCoin
<1> QED
  BY <1>2, <1>3, <1>4, <1>5 DEF ReportInv

\* The rest of processCoin.
LEMMA ReportInductive ==
  ASSUME ReportInv, TypeOK', NEW n \in Node, sendReport(n)
  PROVE  ReportInv'
<1> DEFINE new == [author |-> n, level |-> QCLEvel(n).level, qc |-> QCLEvel(n).qc]
<1>1. UNCHANGED <<held, locked, finalized, sped, decided, reportNums, ahead,
                  proposal>>
  BY DEF sendReport, instance
<1>2. reports' = reports \cup {new} /\ coinViewFlags' = coinViewFlags \cup {n}
  BY DEF sendReport
<1>3. n \notin coinViewFlags
  BY DEF ReportInv, FlagLast, sendReport
<1>4. IsFiniteSet(reports')
  BY <1>2, FS_AddElement DEF ReportInv
<1>5. \A l \in Level :
        /\ Cardinality(ReportsOf(l)) \in Nat
        /\ Cardinality(ReportsOf(l)') \in Nat
        /\ Cardinality(ReportsOf(l)) <= Cardinality(ReportsOf(l)')
        /\ ReportsOf(l) \subseteq ReportsOf(l)'
  <2> SUFFICES ASSUME NEW l \in Level
               PROVE  /\ Cardinality(ReportsOf(l)) \in Nat
                      /\ Cardinality(ReportsOf(l)') \in Nat
                      /\ Cardinality(ReportsOf(l)) <= Cardinality(ReportsOf(l)')
                      /\ ReportsOf(l) \subseteq ReportsOf(l)'
    OBVIOUS
  <2>1. ReportsOf(l)' = {r \in reports' : r.level = l}
    BY DEF ReportsOf
  <2>2. reports \subseteq reports'
    BY <1>2
  <2>3. ReportsOf(l) \subseteq ReportsOf(l)'
    BY <2>2 DEF ReportsOf
  <2> HIDE DEF new
  <2> QED
    BY <1>4, <2>1, <2>2, <2>3, MoreReports DEF ReportInv
<1>6. FlagLast'
  BY <1>2 DEF ReportInv, TypeOK, FlagLast, sendReport
<1>7. ReportsBacked'
  <2>1. /\ new.author = n
        /\ new.level = LEVEL_2 => n \in finalized /\ new.qc = "height2"
        /\ new.level = LEVEL_1 => n \in locked /\ new.qc = "height1"
        /\ new.level = LEVEL_0 => new.qc \in {"preQc", "nil"}
    BY QCLEvelFacts, LevelFacts
  <2> HIDE DEF new
  <2>2. \A r \in reports : r.author # n
    BY <1>3 DEF ReportInv, ReportsBacked
  <2>3. \A r \in reports' :
          /\ r.author \in coinViewFlags'
          /\ r.level = LEVEL_2 => r.author \in finalized /\ r.qc = "height2"
          /\ r.level = LEVEL_1 => r.author \in locked /\ r.qc = "height1"
          /\ r.level = LEVEL_0 => r.qc \in {"preQc", "nil"}
          /\ \A q \in reports' : q.author = r.author => q = r
    BY <1>2, <2>1, <2>2 DEF ReportInv, ReportsBacked
  <2>4. \A m \in Node, l \in Level : reportNums[m][l] <= Cardinality(ReportsOf(l)')
    BY <1>5 DEF ReportInv, TypeOK, ReportsBacked
  <2> QED
    BY <1>1, <2>3, <2>4 DEF ReportInv, ReportsBacked
<1>8. AdvanceBacked'
  <2>1. \A l \in Level : Cardinality(ReportsOf(l)) >= HightThreshold
                           => Cardinality(ReportsOf(l)') >= HightThreshold
    BY <1>5, ThresholdType
  <2>2. ReportsOf(LEVEL_2) # {} => ReportsOf(LEVEL_2)' # {}
    BY <1>5, LevelFacts
  <2> QED
    BY <1>1, <2>1, <2>2, LevelFacts DEF ReportInv, AdvanceBacked, Advanced
<1> QED
  BY <1>4, <1>6, <1>7, <1>8 DEF ReportInv

\* handleReportMsg, with or without advanceView.
LEMMA HandleReportInductive ==
  ASSUME ReportInv, TypeOK', NEW n \in Node, NEW r \in reports, handleReportMsg(n, r)
  PROVE  ReportInv'
<1> DEFINE nums == [reportNums[n] EXCEPT ![r.level] = @ + 1]
           decisive == Enough(nums)
<1>1. UNCHANGED <<held, locked, finalized, sped, pc, coinViewFlags, decided,
                  reports>>
  BY DEF handleReportMsg, instance
<1>2. r \in Report /\ r.level \in Level
  BY DEF ReportInv, TypeOK, Report
<1>3. /\ n \in Honest \ ahead
      /\ reportNums[n][r.level] < Cardinality(ReportsOf(r.level))
      /\ reportNums' = [reportNums EXCEPT ![n] = nums]
  BY DEF handleReportMsg
<1>4. /\ nums[r.level] = reportNums[n][r.level] + 1
      /\ \A l \in Level : l # r.level => nums[l] = reportNums[n][l]
      /\ \A l \in Level : nums[l] \in Nat /\ reportNums[n][l] \in Nat
  BY <1>2 DEF ReportInv, TypeOK
<1>5. reportNums'[n] = nums /\ \A m \in Node : m # n => reportNums'[m] = reportNums[m]
  BY <1>3 DEF ReportInv, TypeOK
<1>6. \A l \in Level : Cardinality(ReportsOf(l)) \in Nat
  BY MoreReports DEF ReportInv
<1> HIDE DEF nums
<1>7. \A l \in Level : nums[l] <= Cardinality(ReportsOf(l))
  BY <1>2, <1>3, <1>4, <1>6 DEF ReportInv, ReportsBacked
<1>8. /\ reportNums[n][LEVEL_2] = 0
      /\ reportNums[n][LEVEL_1] < HightThreshold
      /\ reportNums[n][LEVEL_0] < HightThreshold
  BY <1>3 DEF ReportInv, ReportsBacked
<1>9. decisive => /\ r.level = LEVEL_1 => nums[LEVEL_1] = HightThreshold
                  /\ r.level = LEVEL_0 => nums[LEVEL_0] = HightThreshold
  BY <1>2, <1>4, <1>8, LevelFacts, ThresholdType DEF Enough
<1>10. ~decisive => /\ nums[LEVEL_2] = 0
                    /\ nums[LEVEL_1] < HightThreshold
                    /\ nums[LEVEL_0] < HightThreshold
  BY <1>2, <1>4, <1>8, LevelFacts, ThresholdType DEF Enough
<1>11. IF decisive THEN advanceView(n, r) ELSE UNCHANGED <<ahead, proposal>>
  BY DEF handleReportMsg, nums
<1>12. ReportsBacked'
  <2>1. \A m \in Node, l \in Level : reportNums'[m][l] <= Cardinality(ReportsOf(l)')
    BY <1>1, <1>5, <1>7 DEF ReportInv, ReportsBacked, ReportsOf
  <2>2. \A m \in Honest \ ahead' :
          /\ reportNums'[m][LEVEL_2] = 0
          /\ reportNums'[m][LEVEL_1] < HightThreshold
          /\ reportNums'[m][LEVEL_0] < HightThreshold
    BY <1>3, <1>5, <1>10, <1>11 DEF ReportInv, ReportsBacked, advanceView, Honest
  <2> QED
    BY <1>1, <2>1, <2>2 DEF ReportInv, ReportsBacked
<1>13. AdvanceBacked'
  <2>1. CASE decisive
    <3>1. proposal'[n] = [qc |-> r.qc, level |-> r.level]
      BY <1>11, <2>1 DEF ReportInv, TypeOK, advanceView
    <3>2. \A m \in Node : m # n => proposal'[m] = proposal[m]
      BY <1>11, <2>1 DEF ReportInv, TypeOK, advanceView
    <3>3. /\ r.level = LEVEL_2 => ReportsOf(LEVEL_2) # {} /\ r.qc = "height2"
          /\ r.level = LEVEL_1 => /\ Cardinality(ReportsOf(LEVEL_1)) >= HightThreshold
                                  /\ r.qc = "height1"
          /\ r.level = LEVEL_0 => /\ Cardinality(ReportsOf(LEVEL_0)) >= HightThreshold
                                  /\ r.qc \in {"preQc", "nil"}
      BY <1>2, <1>4, <1>6, <1>7, <1>9, <2>1, ThresholdType, LevelFacts
         DEF ReportInv, ReportsBacked, ReportsOf
    <3>4. proposal'[n].qc = r.qc /\ proposal'[n].level = r.level
      BY <3>1
    <3>5. ReportsOf(LEVEL_2)' = ReportsOf(LEVEL_2)
          /\ ReportsOf(LEVEL_1)' = ReportsOf(LEVEL_1)
          /\ ReportsOf(LEVEL_0)' = ReportsOf(LEVEL_0)
      BY <1>1 DEF ReportsOf
    <3>6. \A m \in Advanced' : m = n \/ (m \in Advanced /\ proposal'[m] = proposal[m])
      BY <3>2 DEF Advanced
    <3> QED
      BY <1>2, <3>3, <3>4, <3>5, <3>6 DEF ReportInv, AdvanceBacked
  <2>2. CASE ~decisive
    BY <1>1, <1>11, <2>2 DEF ReportInv, AdvanceBacked, Advanced, ReportsOf
  <2> QED
    BY <2>1, <2>2
<1>14. FlagLast' /\ IsFiniteSet(reports)'
  BY <1>1 DEF ReportInv, FlagLast
<1> QED
  BY <1>12, <1>13, <1>14 DEF ReportInv

\* A node that is taken to a later view leaves without having counted enough.
LEMMA SkipInductive ==
  ASSUME ReportInv, TypeOK', NEW n \in Node, SkipView(n)
  PROVE  ReportInv'
BY DEF SkipView, instance, ReportInv, FlagLast, ReportsBacked, ReportsOf,
       AdvanceBacked, Advanced

\* A step outside the instance and processCoin leaves commits and stages alone.
LEMMA StagesKept ==
  ASSUME Broadcast!Backed, CommitKept, UNCHANGED <<held, locked, finalized, sped, decided>>
  PROVE  (Broadcast!Backed)' /\ CommitKept'
BY DEF Broadcast!Backed, CommitKept

\* Every step keeps the inductive invariant.
LEMMA Inductive == IInv /\ [Next]_vars => IInv'
<1> SUFFICES ASSUME IInv, [Next]_vars PROVE IInv'
  OBVIOUS
<1>0. TypeOK' /\ ReportInv /\ Broadcast!Backed /\ CommitKept
  BY TypeStep DEF IInv, ReportInv
<1>1. CASE InstanceStep
  <2>1. UNCHANGED <<coin, pc, coinViewFlags, decided, reports, reportNums,
                    ahead, proposal>>
    BY <1>1 DEF InstanceStep
  <2>2. /\ held \subseteq held' /\ locked \subseteq locked'
        /\ finalized \subseteq finalized' /\ (sped => sped')
    BY <1>1 DEF InstanceStep, Broadcast!Speed, Broadcast!Hold, Broadcast!Lock,
                Broadcast!Finalize
  <2>3. /\ IsQuorum(held) => IsQuorum(held')
        /\ IsQuorum(locked) => IsQuorum(locked')
        /\ IsQuorum(finalized) => IsQuorum(finalized')
    BY <1>0, <2>2, QuorumGrows DEF TypeOK, Honest
  <2>4. (Broadcast!Backed)'
    BY <1>0, <1>1, <2>3 DEF InstanceStep, Broadcast!Backed, Broadcast!Speed,
                            Broadcast!Hold, Broadcast!Lock, Broadcast!Finalize
  <2>5. CommitKept'
    BY <1>0, <2>1, <2>2 DEF CommitKept
  <2>6. ReportInv'
    BY <1>0, <2>1, <2>2, StagesGrow
  <2> QED
    BY <2>4, <2>5, <2>6 DEF IInv
<1>2. ASSUME UNCHANGED <<held, locked, finalized, sped, decided>>, ReportInv' PROVE IInv'
  BY <1>0, <1>2, StagesKept DEF IInv
<1>3. ASSUME NEW n \in Node, processCoin(n) PROVE IInv'
  <2>1. ReportInv'
    BY <1>0, <1>3, CoinInductive
  <2>2. UNCHANGED <<held, locked, finalized, sped>>
    BY <1>3 DEF processCoin, instance
  <2>3. CommitKept'
    BY <1>0, <1>3, <2>2, CoinInductive DEF CommitKept, SpeedCert, DecCert
  <2>4. (Broadcast!Backed)'
    BY <1>0, <2>2 DEF Broadcast!Backed
  <2> QED
    BY <2>1, <2>3, <2>4 DEF IInv
<1>4. ASSUME NEW n \in Node, sendReport(n) PROVE IInv'
  BY <1>0, <1>2, <1>4, ReportInductive DEF sendReport, instance
<1>5. ASSUME NEW n \in Node, NEW r \in reports, handleReportMsg(n, r)
      PROVE  IInv'
  BY <1>0, <1>2, <1>5, HandleReportInductive DEF handleReportMsg, instance
<1>6. ASSUME NEW n \in Node, SkipView(n) PROVE IInv'
  BY <1>0, <1>2, <1>6, SkipInductive DEF SkipView, instance
<1>7. CASE RevealCoin \/ UNCHANGED vars
  <2>1. UNCHANGED <<held, locked, finalized, sped, decided, pc, coinViewFlags, reports,
                    reportNums, ahead, proposal>>
    BY <1>7 DEF RevealCoin, vars, instance
  <2> QED
    BY <1>0, <1>2, <2>1, StagesGrow
<1> QED
  BY <1>1, <1>3, <1>4, <1>5, <1>6, <1>7 DEF Next, Loop

\* The first state satisfies the inductive invariant.
LEMMA InitInductive == Init => IInv
<1> SUFFICES ASSUME Init PROVE IInv
  OBVIOUS
<1>1. TypeOK
  BY TypeInit
<1>2. Broadcast!Backed
  BY DEF Init, Broadcast!Init, Broadcast!Backed
<1>3. FlagLast /\ AdvanceBacked
  BY DEF Init, FlagLast, AdvanceBacked, Advanced
<1>4. IsFiniteSet(reports)
  BY FS_EmptySet DEF Init
<1>5. ReportsBacked
  <2>1. \A l \in Level : ReportsOf(l) = {}
    BY DEF Init, ReportsOf
  <2>2. \A n \in Node, l \in Level : reportNums[n][l] = 0
    BY DEF Init
  <2>3. \A n \in Node, l \in Level : reportNums[n][l] <= Cardinality(ReportsOf(l))
    BY <2>1, <2>2, FS_EmptySet
  <2> QED
    BY <2>2, <2>3, LevelFacts, ThresholdType DEF Init, ReportsBacked, Honest
<1>6. CommitKept
  BY LevelFacts DEF Init, CommitKept
<1> QED
  BY <1>1, <1>2, <1>3, <1>4, <1>5, <1>6 DEF IInv, ReportInv

\* The inductive invariant holds in every reachable state.
LEMMA Invariance == Spec => []IInv
BY InitInductive, Inductive, PTL DEF Spec

\* Reports say what their authors had, are sent once and counted once, and no
\* node that saw decisive reports stays in the view.
THEOREM ReportsAreBacked == Spec => []ReportsBacked
<1>1. IInv => ReportsBacked
  BY DEF IInv, ReportInv
<1> QED
  BY <1>1, Invariance, PTL

\* The height-2 QC in a report means that 2f+1 nodes had the height-1 QC, the
\* height-1 QC that 2f+1 nodes had the height-1 block.
LEMMA ReportsCertified ==
  ASSUME IInv
  PROVE  /\ ReportsOf(LEVEL_2) # {} => IsQuorum(locked)
         /\ ReportsOf(LEVEL_1) # {} => IsQuorum(held)
BY DEF IInv, ReportInv, ReportsBacked, ReportsOf, Broadcast!Backed

\* advanceView proposes on a QC that the leader's instance backs, with the DocG
\* level that belongs to it.
THEOREM ProposalsAreBacked == Spec => []ProposalBacked
<1>1. ASSUME IInv PROVE ProposalBacked
  <2> SUFFICES ASSUME NEW n \in Advanced
               PROVE  /\ proposal[n].level = LEVEL_2 <=> proposal[n].qc = "height2"
                      /\ proposal[n].level = LEVEL_1 <=> proposal[n].qc = "height1"
                      /\ proposal[n].qc = "height2" => IsQuorum(locked)
                      /\ proposal[n].qc = "height1" => IsQuorum(held)
    BY DEF ProposalBacked
  <2>1. ReportsOf(LEVEL_1) = {} => ~(Cardinality(ReportsOf(LEVEL_1)) >= HightThreshold)
    BY FS_EmptySet, ThresholdType
  <2> QED
    BY <1>1, <2>1, ReportsCertified, LevelFacts DEF IInv, ReportInv, AdvanceBacked
<1> QED
  BY <1>1, Invariance, PTL

\* A speed commit happens at the leader only, with the height-2 QC at 2f+1
\* nodes, and every commit with the height-1 QC at 2f+1 nodes.
THEOREM CommitsAreBacked == Spec => []CommitBacked
<1>1. ASSUME IInv PROVE CommitBacked
  <2>1. \A n \in Committed(HEIGHT_2) : n = Leader /\ sped
    BY <1>1 DEF IInv, CommitKept, Committed
  <2>2. Committed(HEIGHT_1) # {} => finalized # {}
    BY <1>1 DEF IInv, CommitKept, Committed
  <2>3. IsQuorum(finalized) => finalized # {}
    BY FS_EmptySet, ThresholdType DEF IsQuorum
  <2> QED
    BY <1>1, <2>1, <2>2, <2>3 DEF IInv, CommitBacked, Broadcast!Backed
<1> QED
  BY <1>1, Invariance, PTL
-----------------------------------------------------------------------------
Authors(l) == {r.author : r \in ReportsOf(l)}

\* As a node reports once, a level has as many authors as reports.
LEMMA ManyAuthors ==
  ASSUME ReportInv, NEW l \in Level
  PROVE  /\ Authors(l) \in SUBSET Node
         /\ Cardinality(ReportsOf(l)) \in Nat
         /\ Cardinality(Authors(l)) \in Nat
         /\ Cardinality(ReportsOf(l)) <= Cardinality(Authors(l))
<1> DEFINE author == [r \in ReportsOf(l) |-> r.author]
<1>1. Authors(l) \in SUBSET Node
  BY DEF ReportInv, TypeOK, Report, Authors, ReportsOf
<1>2. IsFiniteSet(Authors(l))
  BY <1>1, CommitteeAssumption, FS_Subset
<1>3. author \in Injection(ReportsOf(l), Authors(l))
  BY DEF ReportInv, ReportsBacked, ReportsOf, Authors, Injection, IsInjective
<1>4. Cardinality(ReportsOf(l)) <= Cardinality(Authors(l))
  <2> HIDE DEF author
  <2> QED BY <1>2, <1>3, FS_Injection
<1> QED
  BY <1>1, <1>4, MoreReports, CardMono DEF ReportInv

\* The reports of a level cannot reach 2f+1 without a member of a given quorum.
LEMMA QuorumNeeded ==
  ASSUME ReportInv, NEW l \in Level, NEW S \in SUBSET Node, IsQuorum(S),
         S \cap Authors(l) = {}
  PROVE  ~(Cardinality(ReportsOf(l)) >= HightThreshold)
<1>1. ~(Cardinality(S) + Cardinality(Authors(l)) > Size)
  BY ManyAuthors, SetsMeet
<1>2. Cardinality(S) \in Nat
  BY CardMono
<1> QED
  BY <1>1, <1>2, ManyAuthors, ThresholdType, ViewChangeAssumption DEF IsQuorum

\* A node that proposes with a DocG of LEVEL_1 or LEVEL_0 saw 2f+1 reports.
LEMMA AdvancedSaw ==
  ASSUME ReportInv, NEW l \in {LEVEL_1, LEVEL_0}, NEW n \in AdvancedOn(l)
  PROVE  Cardinality(ReportsOf(l)) >= HightThreshold
<1>1. n \in Node /\ proposal[n].level = l
  BY DEF AdvancedOn
<1>2. NoProposal.level = NONE
  BY DEF NoProposal
<1>3. n \in Advanced
  BY <1>1, <1>2, LevelFacts DEF Advanced
<1> QED
  BY <1>1, <1>3 DEF ReportInv, AdvanceBacked

\* 2f+1 authors of reports of LEVEL_1 and 2f+1 of LEVEL_0 would share a node.
LEMMA LevelsExclude == ReportInv => DocGExclusive
<1> SUFFICES ASSUME ReportInv, NEW n \in AdvancedOn(LEVEL_1), NEW m \in AdvancedOn(LEVEL_0)
             PROVE  FALSE
  BY DEF DocGExclusive
<1>1. /\ Cardinality(ReportsOf(LEVEL_1)) >= HightThreshold
      /\ Cardinality(ReportsOf(LEVEL_0)) >= HightThreshold
  BY AdvancedSaw
<1>2. Authors(LEVEL_1) \in SUBSET Node /\ IsQuorum(Authors(LEVEL_1))
  BY <1>1, ManyAuthors, ThresholdType, LevelFacts DEF IsQuorum
<1>3. Authors(LEVEL_1) \cap Authors(LEVEL_0) = {}
  BY LevelFacts DEF ReportInv, ReportsBacked, Authors, ReportsOf
<1> QED
  BY <1>1, <1>2, <1>3, QuorumNeeded, LevelFacts

\* handleReportMsg never lets two nodes open the next view with DocGs of
\* LEVEL_1 and of LEVEL_0.
THEOREM DocGsExclude == Spec => []DocGExclusive
<1>1. IInv => DocGExclusive
  BY LevelsExclude DEF IInv
<1> QED
  BY <1>1, Invariance, PTL
-----------------------------------------------------------------------------
\* A quorum has the height-1 QC and none of it reported that it had not.
Settled ==
  \E S \in SUBSET Node :
    IsQuorum(S) /\ S \subseteq locked /\ S \cap Authors(LEVEL_0) = {}

\* A quorum has the height-2 QC and none of it reported that it had not.
SpeedSettled ==
  \E S \in SUBSET Node :
    /\ IsQuorum(S)
    /\ S \subseteq finalized
    /\ S \cap (Authors(LEVEL_1) \cup Authors(LEVEL_0)) = {}

\* What a step may add to the reports and to the stages.
LEMMA StepGrows ==
  ASSUME IInv, [Next]_vars
  PROVE  /\ locked \subseteq locked' /\ finalized \subseteq finalized'
         /\ \/ reports' = reports
            \/ \E n \in Node : sendReport(n)
<1>1. CASE InstanceStep
  BY <1>1 DEF InstanceStep, Broadcast!Speed, Broadcast!Hold, Broadcast!Lock,
              Broadcast!Finalize
<1>2. CASE RevealCoin
  BY <1>2 DEF RevealCoin, instance
<1>3. ASSUME NEW n \in Node, processCoin(n)
      PROVE  UNCHANGED <<locked, finalized, reports>>
  BY <1>3 DEF processCoin, instance
<1>4. ASSUME NEW n \in Node, sendReport(n)
      PROVE  UNCHANGED <<locked, finalized>>
  BY <1>4 DEF sendReport, instance
<1>5. ASSUME NEW n \in Node, NEW r \in reports, handleReportMsg(n, r)
      PROVE  UNCHANGED <<locked, finalized, reports>>
  BY <1>5 DEF handleReportMsg, instance
<1>6. ASSUME NEW n \in Node, SkipView(n)
      PROVE  UNCHANGED <<locked, finalized, reports>>
  BY <1>6 DEF SkipView, instance
<1>7. CASE UNCHANGED vars
  BY <1>7 DEF vars, instance
<1> QED
  BY <1>1, <1>2, <1>3, <1>4, <1>5, <1>6, <1>7 DEF Next, Loop

\* sendReport reads QCLEvel after the certificates, which are kept: a node that
\* has a QC does not report that it has none.
LEMMA LateReports ==
  ASSUME IInv, [Next]_vars
  PROVE  /\ \A n \in Authors(LEVEL_0)' : n \in Authors(LEVEL_0) \/ n \notin locked
         /\ \A n \in Authors(LEVEL_1)' : n \in Authors(LEVEL_1) \/ n \notin finalized
<1>1. CASE reports' = reports
  BY <1>1 DEF Authors, ReportsOf
<1>2. ASSUME NEW n \in Node, sendReport(n)
      PROVE  /\ \A m \in Authors(LEVEL_0)' : m \in Authors(LEVEL_0) \/ m \notin locked
             /\ \A m \in Authors(LEVEL_1)' : m \in Authors(LEVEL_1) \/ m \notin finalized
  <2> DEFINE new == [author |-> n, level |-> QCLEvel(n).level, qc |-> QCLEvel(n).qc]
  <2>1. reports' = reports \cup {new}
    BY <1>2 DEF sendReport
  <2>2. /\ new.author = n
        /\ new.level = LEVEL_0 => n \notin locked
        /\ new.level = LEVEL_1 => n \notin finalized
    BY QCLEvelFacts, LevelFacts
  <2> HIDE DEF new
  <2> QED
    BY <2>1, <2>2 DEF Authors, ReportsOf
<1> QED
  BY <1>1, <1>2, StepGrows

\* Both are kept by every step.
LEMMA SettledStable ==
  ASSUME IInv, [Next]_vars
  PROVE  (Settled => Settled') /\ (SpeedSettled => SpeedSettled')
<1>1. locked \subseteq locked' /\ finalized \subseteq finalized'
  BY StepGrows
<1>2. finalized \subseteq locked
  BY DEF IInv, Broadcast!Backed
<1>3. Settled => Settled'
  BY <1>1, LateReports DEF Settled, IsQuorum
<1>4. SpeedSettled => SpeedSettled'
  BY <1>1, <1>2, LateReports DEF SpeedSettled, IsQuorum
<1> QED
  BY <1>3, <1>4

\* A block committed by processCoin before any report of LEVEL_0 is never
\* bypassed: no node opens the next view with a DocG of LEVEL_0.
THEOREM EarlyCommitsSurvive == Spec => EarlyCommitSurvives
<1> DEFINE first == /\ Committed(HEIGHT_1) \cup Committed(HEIGHT_2) # {}
                    /\ ReportsOf(LEVEL_0) = {}
           kept == AdvancedOn(LEVEL_0) = {}
<1>1. CommitBacked /\ IInv /\ first => Settled
  BY DEF CommitBacked, Settled, Authors, IInv, ReportInv, TypeOK, Honest
<1>2. IInv /\ Settled => kept
  BY AdvancedSaw, QuorumNeeded, LevelFacts DEF Settled, IInv
<1>3. IInv /\ Settled /\ [Next]_vars => Settled'
  BY SettledStable
<1>4. EarlyCommitSurvives <=> [](first => []kept)
  BY DEF EarlyCommitSurvives
<1> HIDE DEF first, kept
<1> QED
  BY <1>1, <1>2, <1>3, <1>4, Invariance, CommitsAreBacked, PTL DEF Spec

\* A height-2 block the leader commits with its speed certificate before any
\* report of LEVEL_1 or LEVEL_0 is what every proposal of the next view extends.
THEOREM EarlySpeedCommitsSurvive == Spec => EarlySpeedCommitSurvives
<1> DEFINE first == /\ Committed(HEIGHT_2) # {}
                    /\ ReportsOf(LEVEL_1) \cup ReportsOf(LEVEL_0) = {}
           kept == Advanced = AdvancedOn(LEVEL_2)
<1>1. CommitBacked /\ IInv /\ first => SpeedSettled
  BY DEF CommitBacked, SpeedSettled, Authors, IInv, ReportInv, TypeOK, Honest
<1>2. IInv /\ SpeedSettled => kept
  <2> SUFFICES ASSUME IInv, SpeedSettled PROVE kept
    OBVIOUS
  <2>1. AdvancedOn(LEVEL_1) = {} /\ AdvancedOn(LEVEL_0) = {}
    BY AdvancedSaw, QuorumNeeded, LevelFacts DEF SpeedSettled, IInv
  <2>2. \A n \in Advanced : proposal[n].level \in Level
    BY DEF IInv, ReportInv, AdvanceBacked
  <2>3. NoProposal.level = NONE
    BY DEF NoProposal
  <2> QED
    BY <2>1, <2>2, <2>3, LevelFacts DEF Advanced, AdvancedOn
<1>3. IInv /\ SpeedSettled /\ [Next]_vars => SpeedSettled'
  BY SettledStable
<1>4. EarlySpeedCommitSurvives <=> [](first => []kept)
  BY DEF EarlySpeedCommitSurvives
<1> HIDE DEF first, kept
<1> QED
  BY <1>1, <1>2, <1>3, <1>4, Invariance, CommitsAreBacked, PTL DEF Spec
-----------------------------------------------------------------------------
\* No honest node can take a step of its loop: it is not in the middle of
\* processCoin, has been through it or is a leader with a speed certificate,
\* for which every coin may have met the error of getBlock, and has counted
\* every report of the view, unless it left.
LoopsAtRest ==
  \A n \in Honest :
    /\ pc[n] = "loop"
    /\ coin /\ n \notin coinViewFlags => SpeedCert(n)
    /\ n \notin ahead =>
         \A r \in reports : reportNums[n][r.level] >= Cardinality(ReportsOf(r.level))

\* Whoever completed processCoin has reported.  A leader that never proposed
\* has no instance.  Whoever commits the height-1 block is about to report
\* LEVEL_2, or has done so: no QC is forgotten between commit and report.
Reported ==
  /\ \A n \in coinViewFlags : \E r \in reports : r.author = n
  /\ Leader \in Faulty =>
       /\ held = {} /\ locked = {} /\ finalized = {} /\ ~sped
       /\ ReportsOf(LEVEL_2) = {} /\ ReportsOf(LEVEL_1) = {}
  /\ \A n \in Committed(HEIGHT_1) :
       /\ n \in Honest /\ n \in locked /\ n \in finalized
       /\ pc[n] = "report" \/ \E r \in reports : r.author = n /\ r.level = LEVEL_2

\* A step that at most lets the leader's instance go on.
LEMMA ReportedGrow ==
  ASSUME Reported, locked \subseteq locked', finalized \subseteq finalized',
         Leader \in Faulty => UNCHANGED <<held, locked, finalized, sped>>,
         UNCHANGED <<pc, coinViewFlags, reports, decided>>
  PROVE  Reported'
BY DEF Reported, ReportsOf, Committed

\* processCoin up to the commit.
LEMMA ReportedCoin ==
  ASSUME TypeOK, Reported, NEW n \in Node, processCoin(n)
  PROVE  Reported'
<1>1. UNCHANGED <<held, locked, finalized, sped, coinViewFlags, reports>>
  BY DEF processCoin, instance
<1>2. n \in Honest /\ pc'[n] = "report" /\ (decided'[n] = HEIGHT_1 => DecCert(n))
  BY LevelFacts DEF processCoin, TypeOK
<1>3. \A m \in Node : m # n => pc'[m] = pc[m] /\ decided'[m] = decided[m]
  BY DEF processCoin, TypeOK
<1> QED
  BY <1>1, <1>2, <1>3 DEF Reported, ReportsOf, Committed, DecCert

\* The rest of processCoin.
LEMMA ReportedSend ==
  ASSUME TypeOK, Reported, NEW n \in Node, sendReport(n)
  PROVE  Reported'
<1> DEFINE mine == [author |-> n, level |-> QCLEvel(n).level, qc |-> QCLEvel(n).qc]
<1>1. /\ n \in locked /\ n \in finalized => mine.level = LEVEL_2
      /\ n \notin locked => mine.level = LEVEL_0
  BY DEF QCLEvel
<1>2. mine.author = n /\ reports' = reports \cup {mine}
  BY DEF sendReport
<1>3. UNCHANGED <<held, locked, finalized, sped, decided>> /\ coinViewFlags' = coinViewFlags \cup {n}
  BY DEF sendReport, instance
<1>4. \A m \in Node : m # n => pc'[m] = pc[m]
  BY DEF sendReport, TypeOK
<1> HIDE DEF mine
<1>5. \A m \in coinViewFlags' : \E r \in reports' : r.author = m
  BY <1>2, <1>3 DEF Reported
<1>6. Leader \in Faulty => ReportsOf(LEVEL_2)' = {} /\ ReportsOf(LEVEL_1)' = {}
  BY <1>1, <1>2, LevelFacts DEF Reported, ReportsOf
<1>7. ASSUME NEW m \in Committed(HEIGHT_1)
      PROVE  pc'[m] = "report" \/ \E r \in reports' : r.author = m /\ r.level = LEVEL_2
  BY <1>1, <1>2, <1>4 DEF Reported, Committed
<1> QED
  BY <1>3, <1>5, <1>6, <1>7 DEF Reported, Committed

\* Every step of PAC_LEAN keeps it.
LEMMA ReportedStep == TypeOK /\ Reported /\ [Next]_vars => Reported'
<1> SUFFICES ASSUME TypeOK, Reported, [Next]_vars PROVE Reported'
  OBVIOUS
<1>1. CASE InstanceStep
  <2>1. /\ locked \subseteq locked' /\ finalized \subseteq finalized' /\ Leader \notin Faulty
        /\ UNCHANGED <<pc, coinViewFlags, reports, decided>>
    BY <1>1 DEF InstanceStep, Broadcast!Speed, Broadcast!Hold, Broadcast!Lock,
                Broadcast!Finalize, Honest
  <2> QED
    BY <2>1, ReportedGrow
<1>2. ASSUME UNCHANGED <<held, locked, finalized, sped, pc, coinViewFlags, reports, decided>>
      PROVE  Reported'
  BY <1>2, ReportedGrow
<1>3. CASE RevealCoin \/ UNCHANGED vars
  BY <1>2, <1>3 DEF RevealCoin, vars, instance
<1>4. ASSUME NEW n \in Node, SkipView(n) \/ \E r \in reports : handleReportMsg(n, r)
      PROVE  Reported'
  BY <1>2, <1>4 DEF SkipView, handleReportMsg, instance
<1> QED
  BY <1>1, <1>3, <1>4, ReportedCoin, ReportedSend DEF Next, Loop

\* In a state in which the loops rest, the view is over for every honest node
\*   - if the reports are decisive;
\*   - if processCoin committed the height-1 block anywhere;
\*   - if the coin selected a silent leader and 2f+1 nodes are honest.
RestIsAhead ==
  /\ LoopsAtRest
  /\ \/ Decisive
     \/ Committed(HEIGHT_1) # {}
     \/ coin /\ Leader \in Faulty /\ IsQuorum(Honest)
  => Honest \subseteq ahead

\* The case of decisive reports.
LEMMA DecisiveRest == ReportInv /\ LoopsAtRest /\ Decisive => Honest \subseteq ahead
<1> SUFFICES ASSUME ReportInv, LoopsAtRest, Decisive, NEW n \in Honest, n \notin ahead
             PROVE  FALSE
  OBVIOUS
<1>0. /\ n \in Node /\ HightThreshold \in Nat \ {0}
      /\ reportNums[n] \in [Level -> Nat] /\ IsFiniteSet(reports)
  BY ThresholdType DEF ReportInv, TypeOK, Honest
<1>1. \A l \in Level : IsFiniteSet(ReportsOf(l)) /\ Cardinality(ReportsOf(l)) \in Nat
  BY <1>0, FS_Subset, FS_CardinalityType DEF ReportsOf
<1>2. \A l \in Level : ReportsOf(l) # {} => reportNums[n][l] >= Cardinality(ReportsOf(l))
  BY DEF LoopsAtRest, ReportsOf
<1>3. \A l \in Level : ReportsOf(l) # {} => Cardinality(ReportsOf(l)) # 0
  BY <1>1, FS_EmptySet
<1>4. \A l \in Level : Cardinality(ReportsOf(l)) >= 1 => ReportsOf(l) # {}
  BY <1>1, FS_EmptySet
<1>5. /\ reportNums[n][LEVEL_2] = 0
      /\ reportNums[n][LEVEL_1] < HightThreshold
      /\ reportNums[n][LEVEL_0] < HightThreshold
  BY DEF ReportInv, ReportsBacked
<1>6. CASE ReportsOf(LEVEL_2) # {}
  BY <1>0, <1>1, <1>2, <1>3, <1>5, <1>6, LevelFacts
<1>7. ASSUME NEW l \in {LEVEL_1, LEVEL_0}, Cardinality(ReportsOf(l)) >= HightThreshold
      PROVE  FALSE
  BY <1>0, <1>1, <1>2, <1>4, <1>5, <1>7, LevelFacts
<1> QED
  BY <1>6, <1>7 DEF Decisive

\* The case of a silent leader: all honest nodes have reported LEVEL_0.
LEMMA SilentRest ==
  ASSUME ReportInv, Reported, LoopsAtRest, coin, Leader \in Faulty, IsQuorum(Honest)
  PROVE  Decisive
<1>1. Honest \subseteq coinViewFlags
  BY DEF LoopsAtRest, SpeedCert, Honest
<1>2. \A r \in reports : r.level \in Level /\ r.author \in Node
  BY DEF ReportInv, TypeOK, Report
<1>3. \A r \in reports : r.level = LEVEL_0
  BY <1>2 DEF Reported, ReportsOf, Level
<1>4. ReportsOf(LEVEL_0) = reports
  BY <1>3 DEF ReportsOf
<1> DEFINE by == [n \in Honest |-> CHOOSE r \in reports : r.author = n]
<1>5. \A n \in Honest : by[n] \in reports /\ by[n].author = n
  BY <1>1 DEF Reported
<1>6. by \in Injection(Honest, reports)
  BY <1>5 DEF Injection, IsInjective
<1>7. IsFiniteSet(reports) /\ IsFiniteSet(Honest)
  BY CommitteeAssumption, FS_Subset DEF ReportInv, Honest
<1>8. Cardinality(Honest) <= Cardinality(reports)
  BY <1>6, <1>7, FS_Injection
<1>9. Cardinality(Honest) \in Nat /\ Cardinality(reports) \in Nat /\ HightThreshold \in Nat
  BY <1>7, FS_CardinalityType, ThresholdType
<1>10. Cardinality(reports) >= HightThreshold
  BY <1>8, <1>9 DEF IsQuorum
<1> QED
  BY <1>4, <1>10 DEF Decisive

\* The case of a commit: its node has reported LEVEL_2.
LEMMA CommitRest == Reported /\ LoopsAtRest /\ Committed(HEIGHT_1) # {} => Decisive
BY DEF Reported, LoopsAtRest, Decisive, ReportsOf

\* The three cases.
LEMMA RestCases == ReportInv /\ Reported => RestIsAhead
BY DecisiveRest, SilentRest, CommitRest DEF RestIsAhead

\* handleReportMsg leaves nobody behind: what DecisiveAdvances and
\* SilentLeaderAdvances promise can fail only by a loop that stops with steps
\* left to take.  Nor does a view in which processCoin committed the height-1
\* block go on for ever.
THEOREM RestsAhead == Spec => []RestIsAhead
<1>1. Init => Reported
  BY LevelFacts DEF Init, Broadcast!Init, Reported, ReportsOf, Committed
<1>2. IInv /\ Reported => RestIsAhead
  BY RestCases DEF IInv
<1>3. IInv => TypeOK
  BY DEF IInv, ReportInv
<1> QED
  BY <1>1, <1>2, <1>3, ReportedStep, Invariance, PTL DEF Spec
-----------------------------------------------------------------------------
\* PAC_BIG.  The stages of the leader's instance without the nesting that
\* PAC_LEAN has: a height-2 QC needs the height-1 QC at the leader only.
BigStaged ==
  /\ ~sped
  /\ locked \cup finalized \subseteq held
  /\ locked \cup finalized # {} => IsQuorum(held)
  /\ finalized # {} => Leader \in locked

\* A commit of processCoin is on both QCs of the leader's blocks.
BigCommits == \A n \in Node : decided[n] # NONE => decided[n] = HEIGHT_1 /\ DecCert(n)

\* The inductive invariant of PAC_BIG.
BigInv == ReportInv /\ BigStaged /\ BigCommits

\* The types, which all actions but two keep as in PAC_LEAN.
LEMMA BigTypeStep == TypeOK /\ [BigNext]_bigVars => TypeOK'
<1> SUFFICES ASSUME TypeOK, [BigNext]_bigVars PROVE TypeOK'
  OBVIOUS
<1>1. CASE bigInstanceStep
  BY <1>1 DEF bigInstanceStep, bigFinalize, Broadcast!Hold, Broadcast!Lock, TypeOK
<1>2. ASSUME NEW n \in Node, NEW r \in reports, bigHandleReportMsg(n, r) PROVE TypeOK'
  <2>1. CASE n \notin ahead
    <3>1. handleReportMsg(n, r)
      BY <1>2, <2>1 DEF bigHandleReportMsg, handleReportMsg
    <3> QED
      BY <3>1, TypeStep DEF Next, Loop
  <2>2. CASE n \in ahead
    <3>1. UNCHANGED <<held, locked, finalized, sped, coin, pc, coinViewFlags, decided, reports, ahead, proposal>>
      BY <1>2, <2>2 DEF bigHandleReportMsg, instance
    <3>2. r.level \in Level /\ reportNums[n] \in [Level -> Nat]
      BY DEF TypeOK, Report
    <3>3. [reportNums[n] EXCEPT ![r.level] = @ + 1] \in [Level -> Nat]
      BY <3>2
    <3>4. reportNums' = [reportNums EXCEPT ![n] = [reportNums[n] EXCEPT ![r.level] = @ + 1]]
      BY <1>2 DEF bigHandleReportMsg
    <3>5. reportNums' \in [Node -> [Level -> Nat]]
      BY <3>3, <3>4 DEF TypeOK
    <3> QED
      BY <3>1, <3>5 DEF TypeOK
  <2> QED
    BY <2>1, <2>2
<1>3. CASE RevealCoin \/ \E n \in Node : processCoin(n) \/ sendReport(n) \/ SkipView(n)
  BY <1>3, TypeStep DEF Next, Loop
<1>4. CASE UNCHANGED bigVars
  BY <1>4, TypeStep DEF bigVars
<1> QED
  BY <1>1, <1>2, <1>3, <1>4 DEF BigNext, bigProcessCoin

\* A report counted after the view was left changes that counter only.
LEMMA LateCount ==
  ASSUME ReportInv, TypeOK', NEW n \in Node, NEW r \in reports,
         bigHandleReportMsg(n, r), n \in ahead
  PROVE  ReportInv'
<1>1. UNCHANGED <<held, locked, finalized, sped, pc, coinViewFlags, reports, ahead, proposal>>
  BY DEF bigHandleReportMsg, instance
<1>2. r.level \in Level /\ reportNums \in [Node -> [Level -> Nat]]
  BY DEF ReportInv, TypeOK, Report
<1>3. /\ reportNums'[n][r.level] = reportNums[n][r.level] + 1
      /\ \A l \in Level : l # r.level => reportNums'[n][l] = reportNums[n][l]
      /\ \A m \in Node : m # n => reportNums'[m] = reportNums[m]
  BY <1>2 DEF bigHandleReportMsg
<1>4. reportNums[n][r.level] < Cardinality(ReportsOf(r.level))
  BY DEF bigHandleReportMsg
<1>5. \A l \in Level : Cardinality(ReportsOf(l)) \in Nat
  BY FS_Subset, FS_CardinalityType DEF ReportInv, ReportsOf
<1>6. \A l \in Level : reportNums'[n][l] >= reportNums[n][l] /\ reportNums[n][l] \in Nat
                       /\ reportNums'[n][l] \in Nat
  BY <1>2, <1>3
<1>7. \A m \in Node, l \in Level : reportNums'[m][l] <= Cardinality(ReportsOf(l))
  BY <1>2, <1>3, <1>4, <1>5 DEF ReportInv, ReportsBacked
<1>8. ReportsBacked'
  BY <1>1, <1>3, <1>7 DEF ReportInv, ReportsBacked, ReportsOf, Honest
<1>9. AdvanceBacked'
  BY <1>1, <1>2, <1>3, <1>6 DEF ReportInv, AdvanceBacked, Advanced, ReportsOf
<1> QED
  BY <1>1, <1>8, <1>9 DEF ReportInv, FlagLast

\* A step that leaves stages and commits alone.
LEMMA BigStagesKept ==
  ASSUME BigInv, ReportInv', UNCHANGED <<held, locked, finalized, sped, decided>>
  PROVE  BigInv'
BY DEF BigInv, BigStaged, BigCommits, DecCert

\* Every step of PAC_BIG keeps its invariant.
LEMMA BigInductive == BigInv /\ [BigNext]_bigVars => BigInv'
<1> SUFFICES ASSUME BigInv, [BigNext]_bigVars PROVE BigInv'
  OBVIOUS
<1>0. TypeOK' /\ TypeOK /\ ReportInv /\ BigStaged /\ BigCommits
  BY BigTypeStep DEF BigInv, ReportInv
<1>1. CASE bigInstanceStep
  <2>1. UNCHANGED <<coin, pc, coinViewFlags, decided, reports, reportNums, ahead, proposal>>
    BY <1>1 DEF bigInstanceStep
  <2>2. /\ held \subseteq held' /\ locked \subseteq locked' /\ finalized \subseteq finalized'
        /\ sped' = sped
    BY <1>1 DEF bigInstanceStep, bigFinalize, Broadcast!Hold, Broadcast!Lock
  <2>3. IsQuorum(held) => IsQuorum(held')
    BY <1>0, <2>2, QuorumGrows DEF TypeOK, Honest
  <2>4. BigStaged'
    BY <1>0, <1>1, <2>2, <2>3 DEF bigInstanceStep, BigStaged, bigFinalize, Broadcast!Hold,
                            Broadcast!Lock
  <2>5. BigCommits'
    BY <1>0, <2>1, <2>2 DEF BigCommits, DecCert
  <2> QED
    BY <1>0, <2>1, <2>2, <2>4, <2>5, StagesGrow DEF BigInv
<1>2. ASSUME NEW n \in Node, bigProcessCoin(n) PROVE BigInv'
  <2>1. processCoin(n)
    BY <1>2 DEF bigProcessCoin
  <2>2. UNCHANGED <<held, locked, finalized, sped>>
    BY <2>1 DEF processCoin, instance
  <2>3. decided' \in [Node -> {NONE, HEIGHT_1, HEIGHT_2}]
    BY <1>0 DEF TypeOK
  <2>4. BigCommits'
    BY <1>0, <2>1, <2>2, <2>3, CoinInductive, LevelFacts
       DEF BigCommits, BigStaged, SpeedCert, DecCert
  <2>5. BigStaged' /\ ReportInv'
    BY <1>0, <2>1, <2>2, CoinInductive DEF BigStaged
  <2> QED
    BY <2>4, <2>5 DEF BigInv
<1>3. ASSUME NEW n \in Node, sendReport(n) PROVE BigInv'
  BY <1>0, <1>3, ReportInductive, BigStagesKept DEF sendReport, instance
<1>4. ASSUME NEW n \in Node, SkipView(n) PROVE BigInv'
  BY <1>0, <1>4, SkipInductive, BigStagesKept DEF SkipView, instance
<1>5. ASSUME NEW n \in Node, NEW r \in reports, bigHandleReportMsg(n, r) PROVE BigInv'
  <2>1. UNCHANGED <<held, locked, finalized, sped, decided>>
    BY <1>5 DEF bigHandleReportMsg, instance
  <2>2. n \notin ahead => handleReportMsg(n, r)
    BY <1>5 DEF bigHandleReportMsg, handleReportMsg
  <2>3. ReportInv'
    BY <1>0, <1>5, <2>2, HandleReportInductive, LateCount
  <2> QED
    BY <2>1, <2>3, BigStagesKept
<1>6. CASE RevealCoin \/ UNCHANGED bigVars
  <2>1. UNCHANGED <<held, locked, finalized, sped, decided, pc, coinViewFlags, reports,
                    reportNums, ahead, proposal>>
    BY <1>6 DEF RevealCoin, bigVars, vars, instance
  <2> QED
    BY <1>0, <2>1, StagesGrow, BigStagesKept
<1> QED
  BY <1>1, <1>2, <1>3, <1>4, <1>5, <1>6 DEF BigNext

\* The rest of processCoin and the counting, in PAC_BIG.
LEMMA BigReportedStep == TypeOK /\ Reported /\ [BigNext]_bigVars => Reported'
<1> SUFFICES ASSUME TypeOK, Reported, [BigNext]_bigVars PROVE Reported'
  OBVIOUS
<1>1. CASE bigInstanceStep
  <2>1. /\ locked \subseteq locked' /\ finalized \subseteq finalized' /\ Leader \notin Faulty
        /\ UNCHANGED <<pc, coinViewFlags, reports, decided>>
    BY <1>1 DEF bigInstanceStep, bigFinalize, Broadcast!Hold, Broadcast!Lock, Honest
  <2> QED
    BY <2>1, ReportedGrow
<1>2. ASSUME UNCHANGED <<held, locked, finalized, sped, pc, coinViewFlags, reports, decided>>
      PROVE  Reported'
  BY <1>2, ReportedGrow
<1>3. CASE RevealCoin \/ UNCHANGED bigVars
  BY <1>2, <1>3 DEF RevealCoin, bigVars, vars, instance
<1>4. ASSUME NEW n \in Node, SkipView(n) \/ \E r \in reports : bigHandleReportMsg(n, r)
      PROVE  Reported'
  BY <1>2, <1>4 DEF SkipView, bigHandleReportMsg, instance
<1> QED
  BY <1>1, <1>3, <1>4, ReportedCoin, ReportedSend DEF BigNext, bigProcessCoin

\* The invariant of PAC_BIG holds in every reachable state.
LEMMA BigInvariance == BigSpec => [](BigInv /\ Reported)
<1>1. BigInit => BigInv /\ Reported
  <2> SUFFICES ASSUME BigInit PROVE BigInv /\ Reported
    OBVIOUS
  <2>1. Init
    BY DEF BigInit
  <2>2. ReportInv
    BY <2>1, InitInductive DEF IInv
  <2>3. BigStaged /\ BigCommits /\ Reported
    BY <2>1, LevelFacts DEF Init, Broadcast!Init, BigStaged, BigCommits, Reported, ReportsOf,
                            Committed
  <2> QED
    BY <2>2, <2>3 DEF BigInv
<1>2. BigInv => TypeOK
  BY DEF BigInv, ReportInv
<1> QED
  BY <1>1, <1>2, BigInductive, BigReportedStep, PTL DEF BigSpec

\* What the view change of bigcore.go keeps of what ProposalBacked and
\* CommitBacked say of core.go:
\*   - only height-1 blocks are committed, with both QCs at the node that
\*     commits, and 2f+1 nodes then hold the block;
\*   - the QC a node opens the next view with is the one its level names; a
\*     height-2 QC has the height-1 QC at the leader, and any QC of the
\*     leader's blocks has 2f+1 holders of the height-1 block.
BigBacked ==
  /\ Committed(HEIGHT_2) = {}
  /\ Committed(HEIGHT_1) \subseteq locked \cap finalized
  /\ Committed(HEIGHT_1) # {} => IsQuorum(held)
  /\ \A n \in Advanced :
       /\ proposal[n].level = LEVEL_2 <=> proposal[n].qc = "height2"
       /\ proposal[n].level = LEVEL_1 <=> proposal[n].qc = "height1"
       /\ proposal[n].qc = "height2" => Leader \in locked
       /\ proposal[n].qc \in {"height1", "height2"} => IsQuorum(held)

\* bigcore.go keeps that much.
THEOREM BigIsBacked == BigSpec => []BigBacked
<1> SUFFICES ASSUME BigInv PROVE BigBacked
  <2>1. BigInv => BigBacked
    OBVIOUS
  <2> QED
    BY <2>1, BigInvariance, PTL
<1>1. /\ Committed(HEIGHT_2) = {}
      /\ Committed(HEIGHT_1) \subseteq locked \cap finalized
  BY LevelFacts DEF BigInv, BigCommits, Committed, DecCert
<1>2. Committed(HEIGHT_1) # {} => IsQuorum(held)
  BY <1>1 DEF BigInv, BigStaged
<1>3. ASSUME NEW n \in Advanced
      PROVE  /\ proposal[n].level = LEVEL_2 <=> proposal[n].qc = "height2"
             /\ proposal[n].level = LEVEL_1 <=> proposal[n].qc = "height1"
             /\ proposal[n].qc = "height2" => Leader \in locked
             /\ proposal[n].qc \in {"height1", "height2"} => IsQuorum(held)
  <2>1. /\ ReportsOf(LEVEL_2) # {} => finalized # {}
        /\ Cardinality(ReportsOf(LEVEL_1)) >= HightThreshold => locked # {}
    <3>1. ReportsOf(LEVEL_2) # {} => finalized # {}
      BY DEF BigInv, ReportInv, ReportsBacked, ReportsOf
    <3>2. ReportsOf(LEVEL_1) # {} => locked # {}
      BY DEF BigInv, ReportInv, ReportsBacked, ReportsOf
    <3>3. Cardinality(ReportsOf(LEVEL_1)) >= HightThreshold => ReportsOf(LEVEL_1) # {}
      BY ThresholdType, FS_EmptySet
    <3> QED
      BY <3>1, <3>2, <3>3
  <2> QED
    BY <2>1, LevelFacts DEF BigInv, ReportInv, AdvanceBacked, BigStaged, Level
<1> QED
  BY <1>1, <1>2, <1>3 DEF BigBacked

\* Nor do two nodes of PAC_BIG open the next view on 2f+1 reports of LEVEL_1
\* and on 2f+1 of LEVEL_0; counters match the reports, one per author.
THEOREM BigReportsKept == BigSpec => [](TypeOK /\ ReportsBacked /\ DocGExclusive)
<1>1. BigInv => TypeOK /\ ReportsBacked /\ DocGExclusive
  BY LevelsExclude DEF BigInv, ReportInv
<1> QED
  BY <1>1, BigInvariance, PTL

\* In PAC_BIG, too, nobody is left behind when the loops rest.
THEOREM BigRestsAhead == BigSpec => []RestIsAhead
<1>1. BigInv /\ Reported => RestIsAhead
  BY RestCases DEF BigInv
<1> QED
  BY <1>1, BigInvariance, PTL
=============================================================================
