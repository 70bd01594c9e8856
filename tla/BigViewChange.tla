--------------------------- MODULE BigViewChange ----------------------------
(***************************************************************************)
(* The end of one view of PAC_BIG (core/bigcore.go, core/bigspb.go).  The  *)
(* coin, processCoin and the reports are as in ViewChange.  What differs:  *)
(*   - a node takes both QCs of the leader's instance from its own counters*)
(*     (module BigSPB), so it may have the height-2 QC and not the height-1*)
(*     QC, although the height-2 block it voted for carries the latter;    *)
(*   - speed certificates do not arise (BigSPB: SpeedVotesOfProposer);     *)
(*   - reports are counted also after the view was left, and the next view *)
(*     is opened without a DocG.                                           *)
(***************************************************************************)
EXTENDS ViewChange

VARIABLE early    \* ghost: a block was committed before anyone reported

bigVars == <<vars, early>>

BigInit == Init /\ early = FALSE

\* The height-2 QC at n: the leader proposed the block on its height-1 QC, and
\* 2f+1 nodes, which all hold the height-1 block, voted for it.
bigFinalize(n) ==
  /\ n \in held \ finalized
  /\ Leader \in locked
  /\ IsQuorum(held)
  /\ finalized' = finalized \cup {n}
  /\ UNCHANGED <<held, locked, sped>>

bigInstanceStep ==
  /\ Leader \in Honest
  /\ \E n \in Honest : Broadcast!Hold(n) \/ Broadcast!Lock(n) \/ bigFinalize(n)
  /\ UNCHANGED <<coin, pc, coinViewFlags, decided, reports, reportNums, ahead,
                 proposal, early>>

\* processCoin up to the commit.
bigProcessCoin(n) ==
  /\ processCoin(n)
  /\ early' = (early \/ (reports = {} /\ decided'[n] # NONE))

\* There is no messageFilter; advanceView returns when the view is not new.
bigHandleReportMsg(n, r) ==
  LET nums == [reportNums[n] EXCEPT ![r.level] = @ + 1]
  IN /\ n \in Honest
     /\ pc[n] = "loop"
     /\ reportNums[n][r.level] < Cardinality(ReportsOf(r.level))
     /\ reportNums' = [reportNums EXCEPT ![n] = nums]
     /\ IF Enough(nums) /\ n \notin ahead THEN advanceView(n, r)
                                          ELSE UNCHANGED <<ahead, proposal>>
     /\ UNCHANGED <<instance, coin, pc, coinViewFlags, decided, reports, early>>

BigNext ==
  \/ bigInstanceStep
  \/ RevealCoin /\ UNCHANGED early
  \/ \E n \in Node :
       \/ bigProcessCoin(n)
       \/ (sendReport(n) \/ SkipView(n)) /\ UNCHANGED early
       \/ \E r \in reports : bigHandleReportMsg(n, r)

BigSpec == BigInit /\ [][BigNext]_bigVars
-----------------------------------------------------------------------------
\* The comment of LEVEL_0 in core.go, "no_endorsed_height-1_QC", read as a claim
\* about the reports on which a view ends: nobody opens the next view on 2f+1
\* reports of LEVEL_0 when the leader's height-1 block had been committed on
\* its QC before any of these reports was made.  (In PAC_LEAN this holds:
\* EarlyCommitSurvives.)
LevelTold == early => AdvancedOn(LEVEL_0) = {}
=============================================================================
