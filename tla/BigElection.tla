---------------------------- MODULE BigElection -----------------------------
(***************************************************************************)
(* How one view of PAC_BIG or PAC_BIG_DAG gets its leader (core/bigcore.go,*)
(* core/dag_bigcore.go, core/elector.go), beside PAC_LEAN.  A node sends a *)
(* speed vote for every instance whose height-2 QC it has; when 2f+1 of    *)
(* its own have come back to it, it releases its share of the coin.  The   *)
(* test is made on every speed vote, whoever sent it, so the share may be  *)
(* sent again.  Nobody is told the leader: a node processes the coin when  *)
(* it has 2f+1 shares, and no flag says that it has done so.               *)
(*                                                                         *)
(* The variables of Election serve again: finVoteNums[n] are the instances *)
(* whose own speed vote n has taken.  coinViewFlags is a ghost, the nodes  *)
(* at which processCoin was called.  The two handlers are the same in both *)
(* cores.  The call ends with a report in PAC_BIG, where a certificate     *)
(* comes with the hash; reportsSent counts the calls in PAC_BIG_DAG, where *)
(* module DAGView says how they end.                                       *)
(***************************************************************************)
EXTENDS Election

PAC_LEAN == 0
PAC_BIG == 1

VARIABLES
  protocol,   \* parameters.Protocol (fixed); PAC_BIG stands for PAC_BIG_DAG too
  again,      \* the nodes that sent their share more than once
  elects      \* elects[n]: the number of shares in n's Aggregator

bigVars == <<vars, protocol, again, elects>>

BigInit ==
  /\ Init
  /\ protocol \in {PAC_LEAN, PAC_BIG}
  /\ again = {}
  /\ elects = [n \in Node |-> 0]
-----------------------------------------------------------------------------
\* The test behind every speed vote.
Releases(n) == Cardinality(finVoteNums'[n]) = HightThreshold

\* A speed vote reaches n: its own for the instance of p, or one of another
\* node, whose count is never read.
bigHandleSpeedVoteMsg(n, p) ==
  /\ n \in Live
  /\ \/ p \in finished \ finVoteNums[n] /\ finVoteNums' = [finVoteNums EXCEPT ![n] = @ \cup {p}]
     \/ p \in finished /\ UNCHANGED finVoteNums
  /\ elected' = IF Releases(n) THEN elected \cup {n} ELSE elected
  /\ again' = IF Releases(n) /\ n \in elected THEN again \cup {n} ELSE again
  /\ UNCHANGED <<broadcastVars, left, used, coinVars, elects>>

\* Mutant: used is not consulted.
appendAll(n, m) == elects' = [elects EXCEPT ![n] = @ + 1]

\* Aggregator.Append; a second share of an author is an error.
append(n, m) == elects' = [elects EXCEPT ![n] = IF m \in used[n] THEN @ ELSE @ + 1]

\* A share of m reaches n, the first or a repeated one.  The one that makes
\* 2f+1 gives the leader.
bigHandleElectMsg(n, m) ==
  /\ n \in Live
  /\ m \in (elected \ used[n]) \cup again
  /\ append(n, m)
  /\ used' = [used EXCEPT ![n] = @ \cup {m}]
  /\ IF elects'[n] = HightThreshold /\ elects[n] # HightThreshold
     THEN /\ coinViewFlags' = coinViewFlags \cup {n}
          /\ reportsSent' = [reportsSent EXCEPT ![n] = @ + 1]
     ELSE UNCHANGED <<coinViewFlags, reportsSent>>
  /\ UNCHANGED <<broadcastVars, left, finVoteNums, elected, coinSent, refused, again>>

\* The loop of a node in either protocol.
EitherLoop(n) ==
  /\ \/ protocol = PAC_LEAN /\ Loop(n) /\ UNCHANGED <<again, elects>>
     \/ /\ protocol = PAC_BIG
        /\ \E m \in Node : bigHandleSpeedVoteMsg(n, m) \/ bigHandleElectMsg(n, m)
  /\ UNCHANGED protocol

\* Only PAC_LEAN filters messages of views left and has a proposer alone hold
\* the speed certificate.
BigNext ==
  \/ \E n \in Node : EitherLoop(n)
  \/ /\ RecordHash \/ \E n \in Node : FinishBroadcast(n)
     /\ UNCHANGED <<protocol, again, elects>>
  \/ /\ protocol = PAC_LEAN
     /\ SpeedCertified \/ \E n \in Node : LeaveView(n)
     /\ UNCHANGED <<protocol, again, elects>>

BigSpec == BigInit /\ [][BigNext]_bigVars

\* The loop of a running node takes every message that reaches it: its speed
\* votes, which follow its height-2 QCs (BigSPB), and the shares.
BigFairSpec == BigSpec /\ \A n \in Node : WF_bigVars(EitherLoop(n))
=============================================================================
