------------------------------ MODULE DAGView -------------------------------
(***************************************************************************)
(* One view of PAC_BIG_DAG (core/dag_bigcore.go), from the height-1 blocks *)
(* to the height-1 blocks of the next view.  A node that has the height-1  *)
(* QCs of 2f+1 instances proposes a height-2 block that refers to them;    *)
(* one that has the height-2 QCs of 2f+1 instances releases its share of   *)
(* the coin; the coin makes a node commit what it knows of the leader's    *)
(* blocks and open the next view with a block that refers to all height-2  *)
(* QCs it has.  It tries to do so once: there are no reports in this       *)
(* protocol and nothing calls advanceView again.                           *)
(*                                                                         *)
(* Which blocks and QCs a node has when it acts is a free choice, as       *)
(* messages come in any order (module DAGBigSPB is one instance at one     *)
(* node); what the other nodes build on is state.  A node that crashed is  *)
(* one that takes no more steps.                                           *)
(***************************************************************************)
EXTENDS Committee

CONSTANT Leader     \* the node the threshold signature of the view selects

\* Sets of 2f+1 and of f+1 nodes meet: true of every committee of 3f+1 nodes.
ASSUME DAGViewAssumption ==
  /\ Leader \in Node
  /\ HightThreshold + LowThreshold > Size

HEIGHT_1 == 0
HEIGHT_2 == 1

VARIABLES
  opened,     \* the nodes whose corer.view has reached the view
  proposed,   \* those that proposed a height-2 block
  referring,  \* those whose height-2 block refers to the leader's height-1 block
  finalized,  \* those that have the height-2 QC of the leader's instance
  elected,    \* those that released their share of the coin
  coinDone,   \* those whose Elector gave the leader: processCoin was called
  failed,     \* those whose processCoin returned with an error of getBlock
  missed,     \* those whose corer.view had not reached the view by then
  decided,    \* decided[n]: the leader's blocks that n committed, by height
  advanced,   \* the nodes that opened the next view
  history,    \* history[n]: the leader's blocks that n's first block there is on
  early       \* ghost: a speed commit met no block of the next view without its own

nextVars == <<failed, missed, decided, advanced, history, early>>
viewVars == <<opened, proposed, referring, finalized, elected, coinDone, nextVars>>

ViewTypeOK ==
  /\ opened \subseteq Node
  /\ proposed \subseteq Node
  /\ finalized \subseteq Node
  /\ elected \subseteq Node
  /\ coinDone \subseteq Node
  /\ referring \subseteq proposed
  /\ failed \subseteq coinDone
  /\ missed \subseteq coinDone
  /\ advanced \subseteq coinDone
  /\ decided \in [Node -> SUBSET {HEIGHT_1, HEIGHT_2}]
  /\ history \in [Node -> SUBSET {HEIGHT_1, HEIGHT_2}]
  /\ early \in BOOLEAN

ViewInit ==
  /\ opened = {}
  /\ proposed = {}
  /\ referring = {}
  /\ finalized = {}
  /\ elected = {}
  /\ coinDone = {}
  /\ failed = {}
  /\ missed = {}
  /\ decided = [n \in Node |-> {}]
  /\ advanced = {}
  /\ history = [n \in Node |-> {}]
  /\ early = FALSE
-----------------------------------------------------------------------------
\* Node n enters the view and proposes its height-1 block: advanceView of the
\* view before, or the start of Run.
OpenView(n) ==
  /\ n \in Node \ opened
  /\ opened' = opened \cup {n}
  /\ UNCHANGED <<proposed, referring, finalized, elected, coinDone, nextVars>>

\* The references on which advanceView makes a block.
Enough(R) == Cardinality(R) >= HightThreshold

\* advanceView at height 2, called back for the height-1 QC of an instance of
\* the view while n is at height 1 of the view.  R is getReference: the
\* instances whose height-1 QC n has.
proposeHeight2(n, R) ==
  /\ n \in opened \ (proposed \cup advanced)
  /\ Enough(R)
  /\ proposed' = proposed \cup {n}
  /\ referring' = IF Leader \in R THEN referring \cup {n} ELSE referring
  /\ UNCHANGED <<opened, finalized, elected, coinDone, nextVars>>

\* n gets the height-2 QC of the leader's instance and sends its speed vote.
Finalize(n) ==
  /\ Leader \in proposed
  /\ n \in Node \ finalized
  /\ finalized' = finalized \cup {n}
  /\ UNCHANGED <<opened, proposed, referring, elected, coinDone, nextVars>>

\* The instances whose height-2 QC n may have.
Certified(n) == {Q \in SUBSET proposed : Leader \in Q <=> n \in finalized}

\* Mutant: f+1 speed votes of the node.
ReleasesLow(Q) == Cardinality(Q) >= LowThreshold

\* handleSpeedVoteMsg: 2f+1 speed votes of the node itself have come back to it.
Releases(Q) == Cardinality(Q) >= HightThreshold

\* The node releases its share: one speed vote of its own per height-2 QC.
handleSpeedVoteMsg(n) ==
  /\ n \in Node \ elected
  /\ \E Q \in Certified(n) : Releases(Q)
  /\ elected' = elected \cup {n}
  /\ UNCHANGED <<opened, proposed, referring, finalized, coinDone, nextVars>>
-----------------------------------------------------------------------------
\* Mutant: Append gives the leader again with every further share.
TossedAgain(n) == coinDone

\* Append gives the leader with the 2f+1st share and with no other.
Tossed(n) == coinDone \cup {n}

\* Mutant: f+1 speed votes make a speed certificate.
SpeedCertLow(n) == n \in finalized /\ Cardinality(finalized) >= LowThreshold

\* The speed certificate may be there: 2f+1 speed votes and the QC at the node.
SpeedCert(n) == n \in finalized /\ IsQuorum(finalized)

\* Mutant: f references.
WeakCertLow(T) == Cardinality(T \cap referring) >= MaxFaults

\* getWeakVotes: of the height-2 blocks T that have come (addWeakVotes), f+1
\* refer to the leader's height-1 block.
WeakCert(T) == Cardinality(T \cap referring) >= LowThreshold

\* advanceView at height 1 of the next view, with the height-2 QCs of Q: once,
\* from this view, and with enough references.
advanceView(n, Q) ==
  /\ missed' = IF n \in opened THEN missed ELSE missed \cup {n}
  /\ IF n \in opened /\ Enough(Q)
     THEN /\ advanced' = advanced \cup {n}
          /\ history' = [history EXCEPT ![n] =
                          {h \in {HEIGHT_1, HEIGHT_2} :
                             \/ h = HEIGHT_1 /\ Q \cap referring # {}
                             \/ h = HEIGHT_2 /\ Leader \in Q}]
     ELSE UNCHANGED <<advanced, history>>

\* The blocks of the next view that do not refer to the leader's height-2 block.
Lacking == {n \in advanced : HEIGHT_2 \notin history[n]}

\* The 2f+1st share reaches n.  T are the height-2 blocks it has, Q those with
\* a QC; speed says whether the speed votes have come, known whether the
\* leader's height-1 block has.
processCoin(n, T, Q, speed, known) ==
  /\ IsQuorum(elected)
  /\ n \in Node \ coinDone
  /\ Q \in Certified(n)
  /\ n \in elected => Releases(Q)
  /\ speed => SpeedCert(n)
  /\ n \in referring => known
  /\ coinDone' = Tossed(n)
  /\ \/ /\ speed
        /\ decided' = [decided EXCEPT ![n] = {HEIGHT_2}]
        /\ early' = (early \/ Lacking = {})
        /\ advanceView(n, Q)
        /\ UNCHANGED failed
     \/ /\ ~speed /\ WeakCert(T) /\ known
        /\ decided' = [decided EXCEPT ![n] = {HEIGHT_1}]
        /\ advanceView(n, Q)
        /\ UNCHANGED <<failed, early>>
     \/ /\ ~speed /\ WeakCert(T) /\ ~known
        /\ failed' = failed \cup {n}
        /\ UNCHANGED <<decided, missed, advanced, history, early>>
     \/ /\ ~speed /\ ~WeakCert(T)
        /\ advanceView(n, Q)
        /\ UNCHANGED <<failed, decided, early>>
  /\ UNCHANGED <<opened, proposed, referring, finalized, elected>>

ViewNext ==
  \E n \in Node :
    \/ OpenView(n)
    \/ Finalize(n)
    \/ handleSpeedVoteMsg(n)
    \/ \E R \in SUBSET opened : proposeHeight2(n, R)
    \/ \E T \in SUBSET proposed : \E Q \in SUBSET T, speed, known \in BOOLEAN :
         processCoin(n, T, Q, speed, known)

ViewSpec == ViewInit /\ [][ViewNext]_viewVars
-----------------------------------------------------------------------------
\* The nodes that committed the leader's block of height h.
Committed(h) == {n \in Node : h \in decided[n]}

\* The height-1 block of the leader, committed on f+1 references to it, is in
\* the history of every block that opens the next view: each refers to 2f+1
\* height-2 blocks, one of which refers to the leader's.  This holds whenever
\* the commit is made, also after others have opened the next view.
WeakCommitCarried ==
  Committed(HEIGHT_1) # {} => \A n \in advanced : HEIGHT_1 \in history[n]

\* The one attempt at opening the next view: at most f nodes make it in this
\* view and find too few height-2 QCs.  They have no second chance, since
\* nothing calls advanceView again.  (Other reasons to stay behind are the
\* error of getBlock and not having entered this view in time.)
StuckAtMostF ==
  Cardinality(coinDone \ (advanced \cup failed \cup missed)) <= Size - HightThreshold

\* The height-2 block of the leader is certain only of the blocks made later:
\* if all blocks that opened the next view refer to it when it is committed on
\* speed votes, all but f of the ones that will ever open it do.
EarlySpeedCarried == early => Cardinality(Lacking) <= Size - HightThreshold
=============================================================================
