------------------------------ MODULE Election ------------------------------
(***************************************************************************)
(* How one view of PAC_LEAN gets its leader (core/core.go, core/elector.go)*)
(* FinVotes of 2f+1 proposers make a node release its share of the coin;   *)
(* 2f+1 shares give the leader; the first nodes that combine them tell the *)
(* others.  A node processes the coin on whichever comes first, its own    *)
(* 2f+1 shares or somebody's RandomCoinMsg.                                *)
(*                                                                         *)
(* The threshold signature is unique, so every set of 2f+1 shares selects  *)
(* the same leader.  Its identity matters at the leader itself, which may  *)
(* hold a speed certificate without the hash of its own height-2 block:    *)
(* processCoin then returns with an error, and only a further coin message *)
(* makes it try again.                                                     *)
(***************************************************************************)
EXTENDS Committee

CONSTANTS
  Leader,         \* the node the coin selects
  Absent          \* honest nodes that voted in the broadcast of the leader and
                  \* crashed before their own was complete

ASSUME ElectionAssumption == Leader \in Node /\ Absent \subseteq Honest

\* The nodes whose loop runs.
Live == Honest \ Absent

VARIABLES
  hashed,         \* the leader has recorded the hash of its height-2 block
  finished,       \* the proposers that broadcast a FinVote (their SPB is done)
  sped,           \* the leader has the speed certificate
  left,           \* the nodes whose corer.view is past this view
  finVoteNums,    \* finVoteNums[n]: the authors of the FinVotes n counted
  elected,        \* the nodes that broadcast an ElectMsg
  used,           \* used[n]: the authors of the shares in n's Aggregator
  coinSent,       \* the nodes that broadcast a RandomCoinMsg
  coinViewFlags,  \* the nodes that have processed the coin
  refused,        \* the senders of the coins that met an error at the leader,
                  \* the leader itself for the coin it combined
  reportsSent     \* reportsSent[n]: ReportMsgs n broadcast for the view

broadcastVars == <<hashed, finished, sped>>
coinVars == <<coinSent, coinViewFlags, refused, reportsSent>>
vars == <<broadcastVars, left, finVoteNums, elected, used, coinVars>>

TypeOK ==
  /\ hashed \in BOOLEAN
  /\ finished \subseteq Live
  /\ sped \in BOOLEAN
  /\ left \subseteq Live
  /\ finVoteNums \in [Node -> SUBSET Node]
  /\ elected \subseteq Live
  /\ used \in [Node -> SUBSET Node]
  /\ coinSent \subseteq Live
  /\ coinViewFlags \subseteq Live
  /\ refused \subseteq Live
  /\ reportsSent \in [Node -> Nat]

Init ==
  /\ hashed = FALSE
  /\ finished = {}
  /\ sped = FALSE
  /\ left = {}
  /\ finVoteNums = [n \in Node |-> {}]
  /\ elected = {}
  /\ used = [n \in Node |-> {}]
  /\ coinSent = {}
  /\ coinViewFlags = {}
  /\ refused = {}
  /\ reportsSent = [n \in Node |-> 0]
-----------------------------------------------------------------------------
\* processProposeMsg at the leader reached its own height-2 block.
RecordHash ==
  /\ Leader \in Live
  /\ ~hashed
  /\ hashed' = TRUE
  /\ UNCHANGED <<finished, sped, left, finVoteNums, elected, used, coinVars>>

\* The nodes that vote in the broadcast of p: a node votes when it has recorded
\* the hash, the proposer too.
VotersOf(p) == IF p = Leader /\ ~hashed THEN Honest \ {p} ELSE Honest

\* processVoteMsg at proposer p completed the height-2 QC.
FinishBroadcast(p) ==
  /\ p \in Live \ finished
  /\ IsQuorum(VotersOf(p))
  /\ finished' = finished \cup {p}
  /\ UNCHANGED <<hashed, sped, left, finVoteNums, elected, used, coinVars>>

\* processSpeedVoteMsg at the leader counted the speed vote number 2f+1.  They
\* come from nodes that have the hash.
SpeedCertified ==
  /\ ~sped
  /\ Leader \in finished
  /\ IsQuorum(VotersOf(Leader))
  /\ sped' = TRUE
  /\ UNCHANGED <<hashed, finished, left, finVoteNums, elected, used, coinVars>>

\* Reports, which exist once some node processed the coin, move n on.
LeaveView(n) ==
  /\ coinViewFlags # {}
  /\ n \in Live \ left
  /\ left' = left \cup {n}
  /\ UNCHANGED <<broadcastVars, finVoteNums, elected, used, coinVars>>

\* A message that messageFilter drops is one that is never taken here.
messageFilter(n) == n \in left

\* The FinVote of p reaches n.
handleFinVoteMsg(n, p) ==
  /\ n \in Live
  /\ ~messageFilter(n)
  /\ p \in finished \ finVoteNums[n]
  /\ finVoteNums' = [finVoteNums EXCEPT ![n] = @ \cup {p}]
  /\ elected' = IF Cardinality(finVoteNums[n] \cup {p}) = HightThreshold
                THEN elected \cup {n} ELSE elected
  /\ UNCHANGED <<broadcastVars, left, used, coinVars>>

\* Mutant: coinViewFlags is not consulted.
FirstCoinAny(n) == TRUE

FirstCoin(n) == n \notin coinViewFlags

\* SpeedCert() holds and getBlock finds nothing under BlockHash(HEIGHT_2).  Only
\* the proposer has a speed certificate.
GetBlockFails(n) == n = Leader /\ sped /\ ~hashed

\* The first call commits and reports (module ViewChange), unless it returns
\* with the error, which leaves no trace; later calls do nothing.
processCoin(n, sender) ==
  \/ /\ FirstCoin(n) /\ GetBlockFails(n)
     /\ refused' = refused \cup {sender}
     /\ UNCHANGED <<coinViewFlags, reportsSent>>
  \/ /\ ~(FirstCoin(n) /\ GetBlockFails(n))
     /\ coinViewFlags' = coinViewFlags \cup {n}
     /\ reportsSent' = [reportsSent EXCEPT ![n] = IF FirstCoin(n) THEN @ + 1 ELSE @]
     /\ UNCHANGED refused

\* Mutant: the coin with one share too many.
AddGivesLeaderLate(n, m) == Cardinality(used[n]) = HightThreshold

\* Elector.Add and Aggregator.Append: the share that makes the count exactly
\* 2f+1 gives the leader, later ones give NONE.  (Elector.leaders is written
\* and never read.)
AddGivesLeader(n, m) == Cardinality(used[n] \cup {m}) = HightThreshold

\* The share of m reaches n.
handleElectMsg(n, m) ==
  /\ n \in Live
  /\ ~messageFilter(n)
  /\ m \in elected \ used[n]
  /\ used' = [used EXCEPT ![n] = @ \cup {m}]
  /\ IF AddGivesLeader(n, m)
     THEN coinSent' = coinSent \cup {n} /\ processCoin(n, n)
     ELSE UNCHANGED coinVars
  /\ UNCHANGED <<broadcastVars, left, finVoteNums, elected>>

\* Mutants: the coin message is filtered by its view; Run goes on at a node
\* that parameters.Faults declares faulty.
TakesCoinFiltered(n) == n \in Live /\ ~messageFilter(n)

TakesCoinFaulty(n) == n \notin Absent

\* Every running node takes a coin message: there is no messageFilter here.
TakesCoin(n) == n \in Live

\* The RandomCoinMsg of m reaches n.
handleCoinMsg(n, m) ==
  /\ TakesCoin(n)
  /\ m \in coinSent \ {n}
  /\ n = Leader => m \notin refused
  /\ processCoin(n, m)
  /\ UNCHANGED <<broadcastVars, left, finVoteNums, elected, used, coinSent>>

Loop(n) == \E m \in Node : handleFinVoteMsg(n, m) \/ handleElectMsg(n, m) \/ handleCoinMsg(n, m)
-----------------------------------------------------------------------------
\* The leader stays unknown until 2f+1 proposers have completed their
\* broadcast: whoever knows the coin, directly or from a RandomCoinMsg, owes
\* it to 2f+1 shares, each released on the FinVotes of 2f+1 proposers.
CoinNeedsQuorum ==
  coinViewFlags # {} =>
    /\ IsQuorum(elected)
    /\ \A n \in elected : IsQuorum(finVoteNums[n] \cap finished)

\* The two ways to learn the coin race, and a node still reports once.
\* handleReportMsg counts reports without looking at the author.
ReportsOnce == \A n \in Node : reportsSent[n] <= 1

\* Some node knows the coin.
Revealed == coinSent \cup coinViewFlags # {}

\* If one node knows the coin, every running node processes it, also one that
\* has left the view and filters the shares.  The exception is a leader whose
\* speed certificate met no hash: it may be out of coin messages by the time
\* the hash is there.
CoinTotality ==
  Revealed ~> \A n \in Live : n \in coinViewFlags \/ (n = Leader /\ refused # {})

\* If 2f+1 proposers complete their broadcast and 2f+1 nodes run, the coin
\* becomes known.
CoinRevealed == IsQuorum(finished) /\ IsQuorum(Live) ~> Revealed
=============================================================================
