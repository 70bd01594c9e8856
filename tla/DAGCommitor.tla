---------------------------- MODULE DAGCommitor -----------------------------
(***************************************************************************)
(* The Commitor of PAC_BIG_DAG (core/dag_commitor.go), beside the other    *)
(* one.  Its goroutine commits the block it is given and then, breadth     *)
(* first, the blocks the committed ones refer to.  References are looked   *)
(* up one at a time while the store fills up.  One that is not there yet   *)
(* is passed over, where the other Commitor would wait for it.             *)
(***************************************************************************)
EXTENDS Commitor

CONSTANT References   \* References[b]: the blocks of b's References, in order

ASSUME DAGCommitorAssumption ==
  /\ References \in [Block -> Seq(Block)]
  /\ \A b \in Block : \A r \in ToSet(References[b]) : Older(r, ViewOf[b], HeightOf[b])

PAC_LEAN == 0
PAC_BIG_DAG == 2

VARIABLES
  protocol,   \* parameters.Protocol (fixed); PAC_LEAN stands for PAC_BIG too
  refs,       \* the references of the block just committed still to look up
  skipped     \* ghost: the blocks that a lookup did not find

dagVars == <<vars, protocol, refs, skipped>>

DAGInit ==
  /\ Init
  /\ protocol \in {PAC_LEAN, PAC_BIG_DAG}
  /\ refs = <<>>
  /\ skipped = {}

dagTake ==
  /\ queue = <<>> /\ refs = <<>>
  /\ blocksChan # <<>>
  /\ blocksChan' = Tail(blocksChan)
  /\ queue' = <<Head(blocksChan)>>
  /\ UNCHANGED <<store, coinViews, lastView, lastHeight, pending, walking, committed,
                 log, refs, skipped>>

\* The block at the head of the queue is committed unless it was before.
dagCommit ==
  /\ queue # <<>> /\ refs = <<>>
  /\ queue' = Tail(queue)
  /\ IF Head(queue) \in committed
     THEN UNCHANGED <<committed, log, refs>>
     ELSE /\ committed' = committed \cup {Head(queue)}
          /\ log' = Append(log, Head(queue))
          /\ refs' = References[Head(queue)]
  /\ UNCHANGED <<store, coinViews, lastView, lastHeight, pending, blocksChan,
                 walking, skipped>>

\* Mutant: the first lookup that fails ends the loop.
RefsAfterBreak == IF Head(refs) \in store THEN Tail(refs) ELSE <<>>

RefsAfter == Tail(refs)

\* One turn of the loop over References.
dagLookup ==
  /\ refs # <<>>
  /\ refs' = RefsAfter
  /\ IF Head(refs) \in store
     THEN queue' = Append(queue, Head(refs)) /\ UNCHANGED skipped
     ELSE skipped' = skipped \cup {Head(refs)} /\ UNCHANGED queue
  /\ UNCHANGED <<store, coinViews, lastView, lastHeight, pending, blocksChan,
                 walking, committed, log>>

Goroutine ==
  /\ \/ protocol = PAC_LEAN /\ run /\ UNCHANGED <<refs, skipped>>
     \/ protocol = PAC_BIG_DAG /\ (dagTake \/ dagCommit \/ dagLookup)
  /\ UNCHANGED protocol

Next == Goroutine \/ (CoreStep /\ UNCHANGED <<protocol, refs, skipped>>)

Spec == DAGInit /\ [][Next]_dagVars

\* run is a goroutine of its own.  A block with a QC reaches every honest
\* store (SPB!EventuallyStored), and only such blocks are committed, parents
\* or references: the message loop stores it when it is not blocked.
FairSpec ==
  /\ Spec
  /\ WF_dagVars(Goroutine)
  /\ WF_dagVars(sendBlock /\ UNCHANGED <<protocol, refs, skipped>>)
  /\ \A b \in Block : WF_dagVars(storeBlock(b) /\ UNCHANGED <<protocol, refs, skipped>>)
-----------------------------------------------------------------------------
\* The first property of Commitor, which its walk from the old end is for.
LeanAncestorsFirst == protocol = PAC_LEAN => AncestorsFirst

\* The commits of PAC_BIG_DAG are closed under references, but for those that
\* were not in the store when they were looked up: run does not come back to
\* them, since the blocks that refer to them are committed already.  In either
\* protocol no block is committed twice, however many blocks refer to it.
HistoryClosed ==
  /\ IsInjective(log)
  /\ protocol = PAC_BIG_DAG /\ refs = <<>> =>
       \A b \in committed :
         ToSet(References[b]) \subseteq committed \cup ToSet(queue) \cup skipped
=============================================================================
