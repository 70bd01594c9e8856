------------------------------ MODULE Commitor ------------------------------
(***************************************************************************)
(* The Commitor of PAC_LEAN and PAC_BIG at one node (core/commitor.go): the*)
(* Core hands it the blocks the coin endorses, a goroutine walks the QCs   *)
(* back to a committed ancestor and commits the path, oldest block first.  *)
(* The store fills up at the same time, from the message loop, unless that *)
(* loop is blocked in Commit on a full channel.                            *)
(***************************************************************************)
EXTENDS Integers, SequencesExt

CONSTANTS Block,     \* the blocks proposed, known by their hash
          Parent,    \* Parent[b]: the block of b's QC, NoBlock for a nil Qc
          NoBlock,
          ViewOf, HeightOf,
          ChanCap    \* capacity of blocksChan

ASSUME CommitorAssumption ==
  /\ NoBlock \notin Block
  /\ Parent \in [Block -> Block \cup {NoBlock}]
  /\ ViewOf \in [Block -> Nat]
  /\ HeightOf \in [Block -> {0, 1}]
  /\ ChanCap \in Nat \ {0}

\* Commit's order on blocks.
Older(b, view, height) ==
  ViewOf[b] < view \/ (ViewOf[b] = view /\ HeightOf[b] < height)

\* A QC certifies an earlier block: the height-1 block of the same view, or a
\* block of an earlier view.
ASSUME ParentIsOlder ==
  \A b \in Block :
    Parent[b] # NoBlock => Older(Parent[b], ViewOf[b], HeightOf[b])

VARIABLES
  store,         \* the blocks in the node's store
  coinViews,     \* the views for which processCoin has committed
  lastView, lastHeight,
  pending,       \* the block the message loop is sending, NoBlock if none
  blocksChan,
  queue,         \* run's path from the block taken back to an old ancestor
  walking,       \* run is still extending the path
  committed,     \* committedBlcoks
  log            \* the blocks in the order they were committed

vars == <<store, coinViews, lastView, lastHeight, pending, blocksChan, queue,
          walking, committed, log>>

TypeOK ==
  /\ store \subseteq Block
  /\ coinViews \subseteq Nat
  /\ lastView \in Nat
  /\ lastHeight \in {0, 1}
  /\ pending \in Block \cup {NoBlock}
  /\ blocksChan \in Seq(Block)
  /\ Len(blocksChan) <= ChanCap
  /\ queue \in Seq(Block)
  /\ walking \in BOOLEAN
  /\ committed \subseteq Block
  /\ log \in Seq(Block)

Init ==
  /\ store = {}
  /\ coinViews = {}
  /\ lastView = 0
  /\ lastHeight = 0
  /\ pending = NoBlock
  /\ blocksChan = <<>>
  /\ queue = <<>>
  /\ walking = FALSE
  /\ committed = {}
  /\ log = <<>>
-----------------------------------------------------------------------------
\* handleProposeMsg stores block b.  It runs in the message loop, as Commit
\* does, so not while Commit waits.
storeBlock(b) ==
  /\ pending = NoBlock
  /\ b \notin store
  /\ store' = store \cup {b}
  /\ UNCHANGED <<coinViews, lastView, lastHeight, pending, blocksChan, queue,
                 walking, committed, log>>

\* Mutant: view and height are swapped.
LastSwapped(b) == <<HeightOf[b], ViewOf[b]>>

LastOf(b) == <<ViewOf[b], HeightOf[b]>>

\* processCoin found b endorsed, once for its view, and calls Commit.  Coins
\* arrive in any order of views.
Commit(b) ==
  /\ pending = NoBlock
  /\ b \in store
  /\ ViewOf[b] \notin coinViews
  /\ coinViews' = coinViews \cup {ViewOf[b]}
  /\ IF Older(b, lastView, lastHeight)
     THEN UNCHANGED <<lastView, lastHeight, pending>>
     ELSE /\ lastView' = LastOf(b)[1]
          /\ lastHeight' = LastOf(b)[2]
          /\ pending' = b
  /\ UNCHANGED <<store, blocksChan, queue, walking, committed, log>>

\* The send at the end of Commit, which waits while the channel is full.
sendBlock ==
  /\ pending # NoBlock
  /\ Len(blocksChan) < ChanCap
  /\ blocksChan' = Append(blocksChan, pending)
  /\ pending' = NoBlock
  /\ UNCHANGED <<store, coinViews, lastView, lastHeight, queue, walking,
                 committed, log>>

\* Mutant: a block whose parent is missing is skipped.
FreshReady(b) == b \notin committed /\ Parent[b] \in store \cup {NoBlock}

Fresh(b) == b \notin committed

\* run takes the next block and skips it when it is committed already.
take ==
  /\ queue = <<>>
  /\ blocksChan # <<>>
  /\ blocksChan' = Tail(blocksChan)
  /\ IF Fresh(Head(blocksChan))
     THEN /\ queue' = <<Head(blocksChan)>>
          /\ walking' = TRUE
     ELSE UNCHANGED <<queue, walking>>
  /\ UNCHANGED <<store, coinViews, lastView, lastHeight, pending, committed, log>>

\* Mutant: a missing parent ends the path.
PathEndsMissing(parent) == parent \notin store \ committed

\* The path ends at a nil Qc or below a committed block.
PathEnds(parent) == parent = NoBlock \/ parent \in store \cap committed

\* One turn of run's inner loop.  While the parent is not in the store the
\* loop spins and changes nothing.
walk ==
  LET parent == Parent[Last(queue)]
  IN /\ walking
     /\ \/ /\ PathEnds(parent)
           /\ walking' = FALSE
           /\ UNCHANGED queue
        \/ /\ ~PathEnds(parent)
           /\ parent \in store
           /\ queue' = Append(queue, parent)
           /\ UNCHANGED walking
     /\ UNCHANGED <<store, coinViews, lastView, lastHeight, pending,
                    blocksChan, committed, log>>

\* One turn of the loop that commits the path from its old end.
commitOldest ==
  /\ ~walking
  /\ queue # <<>>
  /\ committed' = committed \cup {Last(queue)}
  /\ log' = Append(log, Last(queue))
  /\ queue' = Front(queue)
  /\ UNCHANGED <<store, coinViews, lastView, lastHeight, pending, blocksChan,
                 walking>>

run == take \/ walk \/ commitOldest

\* What the message loop does meanwhile.
CoreStep == sendBlock \/ \E b \in Block : storeBlock(b) \/ Commit(b)
-----------------------------------------------------------------------------
\* No block is committed twice, and none before its parent, whatever the order
\* in which blocks are stored and endorsed.  Two nodes that commit blocks of
\* one chain therefore have logs of which one is a prefix of the other.
AncestorsFirst ==
  \A i \in 1..Len(log) :
    /\ \A j \in 1..(i - 1) : log[j] # log[i]
    /\ Parent[log[i]] # NoBlock => \E j \in 1..(i - 1) : log[j] = Parent[log[i]]

Accepted == ToSet(blocksChan) \cup ToSet(queue) \cup ({pending} \ {NoBlock})

\* The message loop waits for room behind a walk that waits for a block only
\* the message loop can store.
Stuck ==
  /\ pending # NoBlock
  /\ Len(blocksChan) = ChanCap
  /\ walking
  /\ Parent[Last(queue)] \notin store \cup {NoBlock}

\* Every block Commit lets through is committed, with all its ancestors, since
\* the spinning walk ends when the store has the missing parent, unless the
\* channel fills up first and loop and walk wait for each other.
EventuallyCommitted ==
  \A b \in Block : b \in Accepted ~> b \in committed \/ Stuck
=============================================================================
