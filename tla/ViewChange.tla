----------------------------- MODULE ViewChange -----------------------------
(***************************************************************************)
(* The end of one view of PAC_LEAN (core/core.go): the coin reveals the    *)
(* leader, every node reads the leader's SPB instance, commits what it     *)
(* finds there and reports the highest QC it has (processCoin), and moves  *)
(* to the next view when enough reports say the same (handleReportMsg,     *)
(* advanceView).  Goroutines of the leader's instance run all the while:   *)
(* nothing stops them when the coin is known or when the node moves on.    *)
(*                                                                         *)
(* The leader's instance takes the steps of StagedBroadcast, which SPB     *)
(* implements.  How the coin comes to be known is in module Election; the  *)
(* instances of the other proposers do not matter once it is.              *)
(***************************************************************************)
EXTENDS Committee

CONSTANT Leader   \* the node the threshold signature of the view selects

\* Two sets of 2f+1 nodes intersect: true of every committee of 3f+1 nodes,
\* false of 2, 3 and 6 nodes, which the code accepts as well.
ASSUME ViewChangeAssumption ==
  /\ Leader \in Node
  /\ 2 * HightThreshold > Size

HEIGHT_1 == 0
HEIGHT_2 == 1
NONE == -1

LEVEL_2 == 0
LEVEL_1 == 1
LEVEL_0 == 2
Level == {LEVEL_2, LEVEL_1, LEVEL_0}

\* What a report can carry: the QCs of the leader's blocks, the QC inside the
\* leader's height-1 block, or no QC.
QC == {"height2", "height1", "preQc", "nil"}

Report == [author : Node, level : Level, qc : QC]

VARIABLES
  held, locked, finalized, sped,  \* the leader's instance
  coin,           \* 2f+1 nodes have released their share of the coin
  pc,             \* pc[n]: where the loop of n is in processCoin
  coinViewFlags,  \* the nodes that have completed processCoin
  decided,        \* decided[n]: the height processCoin committed at n
  reports,        \* the ReportMsgs sent
  reportNums,     \* reportNums[n][l]: reports of level l that n counted
  ahead,          \* the nodes whose corer.view is past this view
  proposal        \* proposal[n]: QC and DocG level n opened the next view with

instance == <<held, locked, finalized, sped>>
vars == <<instance, coin, pc, coinViewFlags, decided, reports, reportNums,
          ahead, proposal>>

Broadcast == INSTANCE StagedBroadcast

NoProposal == [qc |-> "none", level |-> NONE]

TypeOK ==
  /\ held \subseteq Honest
  /\ locked \subseteq Honest
  /\ finalized \subseteq Honest
  /\ sped \in BOOLEAN
  /\ coin \in BOOLEAN
  /\ pc \in [Node -> {"loop", "report"}]
  /\ \A n \in Faulty : pc[n] = "loop"
  /\ coinViewFlags \subseteq Honest
  /\ decided \in [Node -> {NONE, HEIGHT_1, HEIGHT_2}]
  /\ reports \subseteq Report
  /\ reportNums \in [Node -> [Level -> Nat]]
  /\ ahead \subseteq Honest
  /\ proposal \in [Node -> [qc : QC, level : Level] \cup {NoProposal}]

Init ==
  /\ Broadcast!Init
  /\ coin = FALSE
  /\ pc = [n \in Node |-> "loop"]
  /\ coinViewFlags = {}
  /\ decided = [n \in Node |-> NONE]
  /\ reports = {}
  /\ reportNums = [n \in Node |-> [l \in Level |-> 0]]
  /\ ahead = {}
  /\ proposal = [n \in Node |-> NoProposal]
-----------------------------------------------------------------------------
\* A goroutine of the leader's instance, at any honest node, at any time.
InstanceStep ==
  /\ Leader \in Honest
  /\ \/ Broadcast!Speed
     \/ \E n \in Honest :
          Broadcast!Hold(n) \/ Broadcast!Lock(n) \/ Broadcast!Finalize(n)
  /\ UNCHANGED <<coin, pc, coinViewFlags, decided, reports, reportNums, ahead,
                 proposal>>

\* The FinVotes of 2f+1 proposers made 2f+1 nodes release their shares.
RevealCoin ==
  /\ ~coin
  /\ coin' = TRUE
  /\ UNCHANGED <<instance, pc, coinViewFlags, decided, reports, reportNums,
                 ahead, proposal>>

\* Mutant: the leader's own height-1 QC passes for a speed certificate.
SpeedCertEarly(n) == n = Leader /\ n \in locked

\* Only the proposer of an instance receives its speed votes.
SpeedCert(n) == n = Leader /\ sped

\* Mutant: the height-2 QC is not looked at.
DecCertHalf(n) == n \in locked

\* Mutant: the hash of the height-1 block passes for its QC.
DecCertHash(n) == n \in held

DecCert(n) == n \in locked /\ n \in finalized

\* Mutant: LEVEL_2 on the height-1 QC alone.
QCLEvelHigh(n) ==
  IF n \in locked THEN [level |-> LEVEL_2, qc |-> "height2"]
                  ELSE [level |-> LEVEL_0, qc |-> "nil"]

\* Mutant: no level when there is no QC.
QCLEvelNone(n) ==
  [level |-> IF n \in locked THEN LEVEL_1 ELSE NONE, qc |-> "height1"]

QCLEvel(n) ==
  CASE n \in locked \cap finalized -> [level |-> LEVEL_2, qc |-> "height2"]
    [] n \in locked \ finalized    -> [level |-> LEVEL_1, qc |-> "height1"]
    [] n \notin locked             ->
         [level |-> LEVEL_0, qc |-> IF n \in held THEN "preQc" ELSE "nil"]

\* processCoin up to the commit.  The certificates are read one lock at a
\* time, so the instance may move before QCLEvel is read.  With a speed
\* certificate but no height-2 hash of its own yet, the leader's getBlock
\* fails and processCoin returns with nothing changed: no step here.  Whether
\* a later coin message calls it again is in module Election.
processCoin(n) ==
  /\ coin
  /\ n \in Honest \ coinViewFlags
  /\ pc[n] = "loop"
  /\ SpeedCert(n) => n \in locked
  /\ decided' = [decided EXCEPT ![n] =
                   CASE SpeedCert(n)                  -> HEIGHT_2
                     [] ~SpeedCert(n) /\ DecCert(n)   -> HEIGHT_1
                     [] ~SpeedCert(n) /\ ~DecCert(n)  -> NONE]
  /\ pc' = [pc EXCEPT ![n] = "report"]
  /\ UNCHANGED <<instance, coin, coinViewFlags, reports, reportNums, ahead,
                 proposal>>

\* The rest of processCoin: report the level and set the flag.
sendReport(n) ==
  /\ pc[n] = "report"
  /\ reports' = reports \cup {[author |-> n, level |-> QCLEvel(n).level,
                               qc |-> QCLEvel(n).qc]}
  /\ coinViewFlags' = coinViewFlags \cup {n}
  /\ pc' = [pc EXCEPT ![n] = "loop"]
  /\ UNCHANGED <<instance, coin, decided, reportNums, ahead, proposal>>

\* Propose in the next view, on the QC of the report just counted.
advanceView(n, r) ==
  /\ ahead' = ahead \cup {n}
  /\ proposal' = [proposal EXCEPT ![n] = [qc |-> r.qc, level |-> r.level]]

\* Mutants: LEVEL_2's single report at every level; two reports of LEVEL_2;
\* no rule for LEVEL_0.
EnoughAny(nums) == \E l \in Level : nums[l] = 1

EnoughTwo(nums) == nums[LEVEL_2] = 2 \/ HightThreshold \in {nums[LEVEL_1], nums[LEVEL_0]}

EnoughQC(nums) == nums[LEVEL_2] = 1 \/ nums[LEVEL_1] = HightThreshold

\* The counts on which handleReportMsg calls advanceView.
Enough(nums) ==
  \/ nums[LEVEL_2] = 1
  \/ nums[LEVEL_1] = HightThreshold
  \/ nums[LEVEL_0] = HightThreshold

ReportsOf(l) == {r \in reports : r.level = l}

\* The reports of one level are counted, not remembered: n may still receive
\* one of level l as long as it counted fewer than were sent.
handleReportMsg(n, r) ==
  LET nums == [reportNums[n] EXCEPT ![r.level] = @ + 1]
  IN /\ n \in Honest
     /\ pc[n] = "loop"
     /\ n \notin ahead                      \* messageFilter
     /\ reportNums[n][r.level] < Cardinality(ReportsOf(r.level))
     /\ reportNums' = [reportNums EXCEPT ![n] = nums]
     /\ IF Enough(nums) THEN advanceView(n, r) ELSE UNCHANGED <<ahead, proposal>>
     /\ UNCHANGED <<instance, coin, pc, coinViewFlags, decided, reports>>

Advanced == {n \in Node : proposal[n] # NoProposal}

\* The reports of a later view take n there directly.  There are such reports
\* only when 2f+1 nodes have proposed in a later view.
SkipView(n) ==
  /\ IsQuorum(Advanced)
  /\ n \in Honest \ ahead
  /\ pc[n] = "loop"
  /\ ahead' = ahead \cup {n}
  /\ UNCHANGED <<instance, coin, pc, coinViewFlags, decided, reports,
                 reportNums, proposal>>

Loop(n) ==
  \/ processCoin(n)
  \/ sendReport(n)
  \/ \E r \in reports : handleReportMsg(n, r)

Next ==
  \/ InstanceStep
  \/ RevealCoin
  \/ \E n \in Node : Loop(n) \/ SkipView(n)

Spec == Init /\ [][Next]_vars

\* Every honest node keeps consuming its messages.  Nothing is assumed of the
\* leader's instance: it may stop anywhere.
FairSpec == Spec /\ \A n \in Node : WF_vars(Loop(n))
-----------------------------------------------------------------------------
AdvancedOn(l) == {n \in Node : proposal[n].level = l}

\* A DocG of LEVEL_1 and one of LEVEL_0 for the same view exclude each other:
\* each stands for 2f+1 reports and a node reports once.
DocGExclusive == AdvancedOn(LEVEL_1) = {} \/ AdvancedOn(LEVEL_0) = {}

\* The QC a node opens the next view with is backed by the leader's instance:
\* on the height-2 block only if 2f+1 nodes hold the height-1 QC, on the
\* height-1 block only if 2f+1 nodes hold that block, and always as the DocG
\* level of the proposal says.
ProposalBacked ==
  \A n \in Advanced :
    /\ proposal[n].level = LEVEL_2 <=> proposal[n].qc = "height2"
    /\ proposal[n].level = LEVEL_1 <=> proposal[n].qc = "height1"
    /\ proposal[n].qc = "height2" => IsQuorum(locked)
    /\ proposal[n].qc = "height1" => IsQuorum(held)

\* Between coin and proposal, what a report says stays true although nothing
\* stops the instance: its author had the QC it names, and a node sends one
\* report, which handleReportMsg counts at most once at each node.  A node
\* that is still in the view has seen no decisive count.
ReportsBacked ==
  /\ \A r \in reports :
       /\ r.author \in coinViewFlags
       /\ r.level = LEVEL_2 => r.author \in finalized /\ r.qc = "height2"
       /\ r.level = LEVEL_1 => r.author \in locked /\ r.qc = "height1"
       /\ r.level = LEVEL_0 => r.qc \in {"preQc", "nil"}
       /\ \A q \in reports : q.author = r.author => q = r
  /\ \A n \in Node, l \in Level : reportNums[n][l] <= Cardinality(ReportsOf(l))
  /\ \A n \in Honest \ ahead :
       /\ reportNums[n][LEVEL_2] = 0
       /\ reportNums[n][LEVEL_1] < HightThreshold
       /\ reportNums[n][LEVEL_0] < HightThreshold

Committed(h) == {n \in Node : decided[n] = h}

\* What a commit rests on when it happens: a speed commit (height 2) on 2f+1
\* nodes with the height-2 QC, any commit on 2f+1 nodes with the height-1 QC.
CommitBacked ==
  /\ Committed(HEIGHT_2) # {} => IsQuorum(finalized) /\ Committed(HEIGHT_2) = {Leader}
  /\ Committed(HEIGHT_1) \cup Committed(HEIGHT_2) # {} => IsQuorum(locked)

\* A commit made before anyone reported LEVEL_0 survives the view change:
\* 2f+1 nodes will then report at least LEVEL_1, so nobody opens the next view
\* on a QC older than the committed height-1 block.
EarlyCommitSurvives ==
  [](/\ Committed(HEIGHT_1) \cup Committed(HEIGHT_2) # {}
     /\ ReportsOf(LEVEL_0) = {}
     => [](AdvancedOn(LEVEL_0) = {}))

\* Likewise for the speed commit of the height-2 block: if it was made before
\* anyone reported LEVEL_1 or LEVEL_0, every proposal of the next view is on
\* the height-2 QC.
EarlySpeedCommitSurvives ==
  [](/\ Committed(HEIGHT_2) # {}
     /\ ReportsOf(LEVEL_1) \cup ReportsOf(LEVEL_0) = {}
     => [](Advanced = AdvancedOn(LEVEL_2)))

\* The level comments of core.go read as a claim: a node that opens the next
\* view with a DocG of LEVEL_0 (no endorsed height-1 QC) or LEVEL_1 (no
\* endorsed height-2 QC) does so in a view where no node commits the leader's
\* height-1 or height-2 block, respectively, on such a QC.
DocGHolds ==
  /\ AdvancedOn(LEVEL_0) # {} => Committed(HEIGHT_1) \cup Committed(HEIGHT_2) = {}
  /\ AdvancedOn(LEVEL_1) # {} => Committed(HEIGHT_2) = {}

Decisive ==
  \/ ReportsOf(LEVEL_2) # {}
  \/ Cardinality(ReportsOf(LEVEL_1)) >= HightThreshold
  \/ Cardinality(ReportsOf(LEVEL_0)) >= HightThreshold

\* Once the reports are decisive, no order of arrival leaves a node behind.
\* Reports split between LEVEL_1 and LEVEL_0 are not decisive, and nothing
\* promises that a view ends with decisive reports.
DecisiveAdvances == Decisive ~> Honest \subseteq ahead

\* When the coin selects a node that never proposed, its view still ends at
\* every honest node, on 2f+1 reports of LEVEL_0 or on those of a later view.
SilentLeaderAdvances ==
  coin /\ Leader \in Faulty /\ IsQuorum(Honest) ~> Honest \subseteq ahead
=============================================================================
