---------------------------- MODULE CommitProofs ----------------------------
(***************************************************************************)
(* What is committed, and in which order: the Commitors of all protocols,  *)
(* for every set of blocks whose parents and references are older and      *)
(* every order in which they are stored and endorsed; and the view of      *)
(* PAC_BIG_DAG, for every committee in which a set of 2f+1 nodes meets     *)
(* every set of f+1.                                                       *)
(***************************************************************************)
EXTENDS DAGCommitor, DAGView, CommitteeProofs

(***************************************************************************)
(* The Commitors.                                                          *)
(***************************************************************************)

Before(a, b) == Older(a, ViewOf[b], HeightOf[b])

Types ==
  /\ TypeOK
  /\ protocol \in {PAC_LEAN, PAC_BIG_DAG}
  /\ refs \in Seq(Block)
  /\ skipped \subseteq Block

\* The log lists committedBlcoks, each block once.
LogInv ==
  /\ \A i \in 1..Len(log) : log[i] \in committed
  /\ \A b \in committed : \E i \in 1..Len(log) : log[i] = b
  /\ \A i, j \in 1..Len(log) : log[i] = log[j] => i = j

\* The path of the lean run goes from child to parent, so it gets older and
\* older, and all of it is new.  When the walk has ended, what is below it is
\* committed.
PathInv ==
  /\ \A i \in 1..Len(queue) : queue[i] \notin committed
  /\ \A i \in 1..(Len(queue) - 1) : Parent[queue[i]] = queue[i + 1]
  /\ \A i, j \in 1..Len(queue) : i < j => Before(queue[j], queue[i])
  /\ walking => queue # <<>>
  /\ ~walking /\ queue # <<>> => Parent[queue[Len(queue)]] \in committed \cup {NoBlock}

\* What a committed block refers to has been committed, was passed over, or is
\* still to come up.
RefsInv ==
  \A b \in committed :
    ToSet(References[b]) \subseteq committed \cup ToSet(queue) \cup ToSet(refs) \cup skipped

IInv ==
  /\ Types
  /\ LogInv
  /\ protocol = PAC_LEAN => PathInv /\ AncestorsFirst
  /\ protocol = PAC_BIG_DAG => RefsInv /\ ~walking

\* The two protocols differ.
LEMMA ProtocolFacts == PAC_LEAN # PAC_BIG_DAG
BY DEF PAC_LEAN, PAC_BIG_DAG

\* The order of blocks is strict.
LEMMA BeforeStrict ==
  ASSUME NEW a \in Block, NEW b \in Block, NEW c \in Block
  PROVE  /\ ~Before(a, a)
         /\ Before(a, b) /\ Before(b, c) => Before(a, c)
BY CommitorAssumption DEF Before, Older

\* What is in a sequence, element by element.
LEMMA SetOfSeq ==
  ASSUME NEW s \in Seq(Block), NEW b \in Block
  PROVE  /\ ToSet(Append(s, b)) = ToSet(s) \cup {b}
         /\ ToSet(<<b>>) = {b}
         /\ s # <<>> => /\ Head(s) \in Block
                        /\ Tail(s) \in Seq(Block)
                        /\ ToSet(s) = {Head(s)} \cup ToSet(Tail(s))
<1>1. ToSet(Append(s, b)) = ToSet(s) \cup {b}
  <2>1. ToSet(Append(s, b)) \subseteq ToSet(s) \cup {b}
    BY DEF ToSet
  <2>2. ASSUME NEW c \in ToSet(s) PROVE c \in ToSet(Append(s, b))
    <3>1. PICK i \in 1..Len(s) : c = s[i]
      BY DEF ToSet
    <3>2. Append(s, b)[i] = c /\ i \in 1..Len(Append(s, b))
      BY <3>1
    <3> QED
      BY <3>2 DEF ToSet
  <2>3. Append(s, b)[Len(s) + 1] = b /\ Len(s) + 1 \in 1..Len(Append(s, b))
    OBVIOUS
  <2>4. b \in ToSet(Append(s, b))
    BY <2>3 DEF ToSet
  <2> QED
    BY <2>1, <2>2, <2>4
<1>2. ToSet(<<b>>) = {b}
  BY DEF ToSet
<1>3. ASSUME s # <<>>
      PROVE  /\ Head(s) \in Block
             /\ Tail(s) \in Seq(Block)
             /\ ToSet(s) = {Head(s)} \cup ToSet(Tail(s))
  <2>1. Head(s) = s[1] /\ 1 \in 1..Len(s) /\ Head(s) \in Block /\ Tail(s) \in Seq(Block)
    BY <1>3
  <2>2. \A i \in 1..Len(Tail(s)) : i + 1 \in 1..Len(s) /\ Tail(s)[i] = s[i + 1]
    BY <1>3
  <2>3. \A i \in 1..Len(s) : i = 1 \/ (i - 1 \in 1..Len(Tail(s)) /\ s[i] = Tail(s)[i - 1])
    BY <1>3
  <2>4. {Head(s)} \cup ToSet(Tail(s)) \subseteq ToSet(s)
    BY <2>1, <2>2 DEF ToSet
  <2>5. ASSUME NEW c \in ToSet(s) PROVE c \in {Head(s)} \cup ToSet(Tail(s))
    <3>1. PICK i \in 1..Len(s) : c = s[i]
      BY DEF ToSet
    <3>2. CASE i = 1
      BY <2>1, <3>1, <3>2
    <3>3. CASE i # 1
      <4>1. i - 1 \in DOMAIN Tail(s) /\ c = Tail(s)[i - 1]
        BY <2>1, <2>3, <3>1, <3>3
      <4> QED
        BY <4>1 DEF ToSet
    <3> QED
      BY <3>2, <3>3
  <2> QED
    BY <2>1, <2>4, <2>5
<1> QED
  BY <1>1, <1>2, <1>3

\* A block that was not committed goes to the end of the log.
LEMMA LogGrows ==
  ASSUME Types, LogInv, NEW b \in Block \ committed,
         committed' = committed \cup {b}, log' = Append(log, b)
  PROVE  /\ LogInv'
         /\ Len(log') = Len(log) + 1
         /\ log'[Len(log) + 1] = b
         /\ \A i \in 1..Len(log) : log'[i] = log[i]
<1>1. log \in Seq(Block)
  BY DEF Types, TypeOK
<1>2. /\ Len(log') = Len(log) + 1 /\ Len(log) \in Nat
      /\ log'[Len(log) + 1] = b
      /\ \A i \in 1..Len(log) : log'[i] = log[i]
  BY <1>1
<1>3. \A i \in 1..Len(log') : i \in 1..Len(log) \/ i = Len(log) + 1
  BY <1>2
<1>4. \A i \in 1..Len(log') : log'[i] \in committed'
  BY <1>2, <1>3 DEF LogInv
<1>5. ASSUME NEW c \in committed' PROVE \E i \in 1..Len(log') : log'[i] = c
  <2>1. CASE c = b
    BY <1>2, <2>1
  <2>2. CASE c \in committed
    BY <1>2, <2>2 DEF LogInv
  <2> QED
    BY <2>1, <2>2
<1>6. \A i, j \in 1..Len(log') : log'[i] = log'[j] => i = j
  BY <1>2, <1>3 DEF LogInv
<1> QED
  BY <1>2, <1>4, <1>5, <1>6 DEF LogInv

\* The message loop stores a block, endorses one or sends it: none of this
\* touches the goroutine.
LEMMA CoreKeeps ==
  ASSUME IInv, CoreStep, UNCHANGED <<protocol, refs, skipped>>
  PROVE  IInv'
<1>1. UNCHANGED <<queue, walking, committed, log>>
  BY DEF CoreStep, storeBlock, Commit, sendBlock
<1>2. Types'
  <2>1. ASSUME NEW b \in Block, storeBlock(b) PROVE Types'
    BY <2>1 DEF IInv, Types, TypeOK, storeBlock
  <2>2. ASSUME NEW b \in Block, Commit(b) PROVE Types'
    <3>1. ViewOf[b] \in Nat /\ HeightOf[b] \in {0, 1}
      BY CommitorAssumption
    <3>2. LastOf(b)[1] = ViewOf[b] /\ LastOf(b)[2] = HeightOf[b]
      BY DEF LastOf
    <3>3. lastView' \in Nat /\ lastHeight' \in {0, 1} /\ coinViews' \subseteq Nat
      BY <2>2, <3>1, <3>2 DEF IInv, Types, TypeOK, Commit
    <3>4. pending' \in Block \cup {NoBlock}
      BY <2>2 DEF IInv, Types, TypeOK, Commit
    <3> QED
      BY <2>2, <3>3, <3>4 DEF IInv, Types, TypeOK, Commit
  <2>3. ASSUME sendBlock PROVE Types'
    <3>1. /\ blocksChan \in Seq(Block) /\ Len(blocksChan) < ChanCap /\ ChanCap \in Nat
          /\ pending \in Block
      BY <2>3, CommitorAssumption DEF IInv, Types, TypeOK, sendBlock
    <3>2. blocksChan' = Append(blocksChan, pending) /\ pending' = NoBlock
      BY <2>3 DEF sendBlock
    <3>3. blocksChan' \in Seq(Block) /\ Len(blocksChan') <= ChanCap
      BY <3>1, <3>2
    <3> QED
      BY <2>3, <3>2, <3>3 DEF IInv, Types, TypeOK, sendBlock
  <2> QED
    BY <2>1, <2>2, <2>3 DEF CoreStep
<1>3. LogInv' /\ (protocol' = PAC_LEAN => PathInv' /\ AncestorsFirst')
  BY <1>1 DEF IInv, LogInv, PathInv, AncestorsFirst
<1>4. protocol' = PAC_BIG_DAG => RefsInv' /\ ~walking'
  BY <1>1 DEF IInv, RefsInv
<1> QED
  BY <1>2, <1>3, <1>4 DEF IInv

\* The lean run takes a block: a path of one block, which is new.
LEMMA TakeKeeps ==
  ASSUME IInv, protocol = PAC_LEAN, take, UNCHANGED <<protocol, refs, skipped>>
  PROVE  IInv'
<1> DEFINE b == Head(blocksChan)
<1>1. b \in Block /\ Tail(blocksChan) \in Seq(Block) /\ Len(Tail(blocksChan)) <= ChanCap
  <2>1. /\ blocksChan \in Seq(Block) /\ Len(blocksChan) <= ChanCap /\ ChanCap \in Nat
        /\ blocksChan # <<>>
    BY CommitorAssumption DEF take, IInv, Types, TypeOK
  <2> QED
    BY <2>1
<1>2. Types'
  <2>1. queue' \in Seq(Block) /\ walking' \in BOOLEAN
    <3>1. (queue' = <<b>> /\ walking' = TRUE) \/ UNCHANGED <<queue, walking>>
      BY DEF take
    <3>2. queue \in Seq(Block) /\ walking \in BOOLEAN
      BY DEF IInv, Types, TypeOK
    <3>3. <<b>> \in Seq(Block)
      BY <1>1
    <3> QED
      BY <3>1, <3>2, <3>3
  <2>2. blocksChan' \in Seq(Block) /\ Len(blocksChan') <= ChanCap
    BY <1>1 DEF take
  <2> QED
    BY <2>1, <2>2 DEF take, IInv, Types, TypeOK
<1>3. LogInv' /\ AncestorsFirst'
  BY DEF take, IInv, LogInv, AncestorsFirst
<1>4. PathInv'
  <2>1. CASE Fresh(b)
    <3>1. queue' = <<b>> /\ walking' = TRUE /\ b \notin committed /\ committed' = committed
      BY <2>1 DEF take, Fresh
    <3>2. Len(queue') = 1 /\ queue'[1] = b /\ queue' # <<>>
      BY <3>1
    <3> QED
      BY <3>1, <3>2 DEF PathInv
  <2>2. CASE ~Fresh(b)
    BY <2>2 DEF take, IInv, PathInv
  <2> QED
    BY <2>1, <2>2
<1> QED
  BY <1>2, <1>3, <1>4, ProtocolFacts DEF IInv

\* The walk ends above a committed block, or adds the parent, which is older
\* than the whole path and new.
LEMMA WalkKeeps ==
  ASSUME IInv, protocol = PAC_LEAN, walk, UNCHANGED <<protocol, refs, skipped>>
  PROVE  IInv'
<1> DEFINE n == Len(queue)
<1> DEFINE parent == Parent[queue[n]]
<1>1. n \in Nat /\ n > 0 /\ queue \in Seq(Block) /\ queue[n] \in Block
  BY ProtocolFacts DEF walk, IInv, PathInv, Types, TypeOK
<1>2. LogInv' /\ AncestorsFirst'
  BY DEF walk, IInv, LogInv, AncestorsFirst
<1>3. CASE PathEnds(parent)
  <2>1. queue' = queue /\ walking' = FALSE /\ committed' = committed
    BY <1>3 DEF walk, Last
  <2>2. parent \in committed \cup {NoBlock}
    BY <1>3 DEF PathEnds
  <2>3. PathInv'
    BY <2>1, <2>2 DEF IInv, PathInv
  <2>4. Types'
    BY <2>1 DEF walk, IInv, Types, TypeOK
  <2> QED
    BY <1>2, <2>3, <2>4, ProtocolFacts DEF IInv
<1>4. CASE ~PathEnds(parent)
  <2>1. /\ parent \in store /\ walking' = walking /\ walking /\ committed' = committed
        /\ queue' = Append(queue, parent)
    BY <1>4 DEF walk, Last
  <2>2. parent \in Block \ committed /\ parent # NoBlock
    BY <1>4, <2>1 DEF PathEnds, IInv, Types, TypeOK
  <2>3. /\ Len(queue') = n + 1 /\ queue'[n + 1] = parent
        /\ \A i \in 1..n : queue'[i] = queue[i]
        /\ queue' \in Seq(Block)
    BY <1>1, <2>1, <2>2
  <2>4. \A i \in 1..n : Before(parent, queue[i])
    <3>1. Before(parent, queue[n])
      BY <1>1, <2>2, ParentIsOlder DEF Before
    <3>2. \A i \in 1..n : queue[i] \in Block /\ (i = n \/ Before(queue[n], queue[i]))
      BY <1>1 DEF IInv, PathInv
    <3> QED
      BY <1>1, <2>2, <3>1, <3>2, BeforeStrict
  <2>5. \A i \in 1..Len(queue') : queue'[i] \notin committed'
    BY <1>1, <2>1, <2>2, <2>3 DEF IInv, PathInv
  <2>6. \A i \in 1..(Len(queue') - 1) : Parent[queue'[i]] = queue'[i + 1]
    BY <1>1, <2>3 DEF IInv, PathInv
  <2>7. \A i, j \in 1..Len(queue') : i < j => Before(queue'[j], queue'[i])
    BY <1>1, <2>3, <2>4 DEF IInv, PathInv
  <2>8. PathInv'
    <3>1. queue' # <<>>
      BY <1>1, <2>3
    <3> QED
      BY <2>1, <2>5, <2>6, <2>7, <3>1 DEF PathInv, Before
  <2>9. Types'
    BY <2>1, <2>3 DEF walk, IInv, Types, TypeOK
  <2> QED
    BY <1>2, <2>8, <2>9, ProtocolFacts DEF IInv
<1> QED
  BY <1>3, <1>4

\* The old end of the path is committed: its parent is in the log, and it is
\* the parent of the new end.
LEMMA OldestKeeps ==
  ASSUME IInv, protocol = PAC_LEAN, commitOldest, UNCHANGED <<protocol, refs, skipped>>
  PROVE  IInv'
<1> DEFINE n == Len(queue)
<1> DEFINE b == queue[n]
<1>1. /\ n \in Nat /\ n > 0 /\ queue \in Seq(Block) /\ b \in Block \ committed
      /\ Parent[b] \in committed \cup {NoBlock}
  <2>1. queue \in Seq(Block) /\ queue # <<>> /\ ~walking /\ PathInv
    BY DEF commitOldest, IInv, Types, TypeOK
  <2>2. n \in Nat /\ n > 0 /\ n \in 1..n /\ b \in Block
    BY <2>1
  <2> QED
    BY <2>1, <2>2 DEF PathInv
<1>2. committed' = committed \cup {b} /\ log' = Append(log, b) /\ walking' = FALSE
  <2>1. committed' = committed \cup {b} /\ log' = Append(log, b)
    BY DEF commitOldest, Last
  <2>2. walking \in BOOLEAN /\ ~walking /\ walking' = walking
    BY DEF commitOldest, IInv, Types, TypeOK
  <2> QED
    BY <2>1, <2>2
<1>3. /\ queue' \in Seq(Block) /\ Len(queue') = n - 1
      /\ \A i \in 1..(n - 1) : queue'[i] = queue[i]
  <2>1. queue' = SubSeq(queue, 1, n - 1)
    BY DEF commitOldest, Front
  <2>2. queue' = [i \in 1..(n - 1) |-> queue[i]]
    BY <1>1, <2>1
  <2>3. \A i \in 1..(n - 1) : queue[i] \in Block
    BY <1>1
  <2>4. queue' \in Seq(Block) /\ Len(queue') = n - 1
    BY <1>1, <2>2, <2>3
  <2> QED
    BY <2>2, <2>4
<1>4. /\ LogInv'
      /\ Len(log') = Len(log) + 1 /\ Len(log) \in Nat
      /\ log'[Len(log) + 1] = b
      /\ \A i \in 1..Len(log) : log'[i] = log[i]
  <2>1. Len(log) \in Nat
    BY DEF IInv, Types, TypeOK
  <2> QED
    BY <1>1, <1>2, <2>1, LogGrows DEF IInv
<1>5. AncestorsFirst'
  <2> SUFFICES ASSUME NEW i \in 1..Len(log')
               PROVE  /\ \A j \in 1..(i - 1) : log'[j] # log'[i]
                      /\ Parent[log'[i]] # NoBlock =>
                           \E j \in 1..(i - 1) : log'[j] = Parent[log'[i]]
    BY DEF AncestorsFirst
  <2>1. CASE i \in 1..Len(log)
    <3>1. log'[i] = log[i] /\ \A j \in 1..(i - 1) : log'[j] = log[j]
      BY <1>4, <2>1
    <3> QED
      BY <2>1, <3>1 DEF IInv, AncestorsFirst
  <2>2. CASE i = Len(log) + 1
    <3>1. log'[i] = b /\ 1..(i - 1) = 1..Len(log)
      BY <1>4, <2>2
    <3>2. \A j \in 1..Len(log) : log'[j] # b
      BY <1>1, <1>4 DEF IInv, LogInv
    <3>3. Parent[b] # NoBlock => \E j \in 1..Len(log) : log'[j] = Parent[b]
      BY <1>1, <1>4 DEF IInv, LogInv
    <3> QED
      BY <3>1, <3>2, <3>3
  <2> QED
    BY <1>4, <2>1, <2>2
<1>6. PathInv'
  <2>1. \A i \in 1..(n - 1) : queue[i] \in Block /\ Before(b, queue[i])
    BY <1>1 DEF IInv, PathInv
  <2>2. \A i \in 1..(n - 1) : queue[i] # b
    BY <1>1, <2>1, BeforeStrict
  <2>3. \A i \in 1..Len(queue') : queue'[i] \notin committed'
    BY <1>1, <1>2, <1>3, <2>2 DEF IInv, PathInv
  <2>4. \A i \in 1..(Len(queue') - 1) : Parent[queue'[i]] = queue'[i + 1]
    BY <1>1, <1>3 DEF IInv, PathInv
  <2>5. \A i, j \in 1..Len(queue') : i < j => Before(queue'[j], queue'[i])
    BY <1>1, <1>3 DEF IInv, PathInv
  <2>6. ASSUME queue' # <<>> PROVE Parent[queue'[Len(queue')]] \in committed'
    <3>1. n - 1 > 0 /\ n - 1 \in 1..(n - 1)
      BY <1>1, <1>3, <2>6
    <3>2. Parent[queue[n - 1]] = queue[n - 1 + 1]
      BY <1>1, <3>1 DEF IInv, PathInv
    <3> QED
      BY <1>1, <1>2, <1>3, <3>1, <3>2
  <2> QED
    BY <1>2, <2>3, <2>4, <2>5, <2>6 DEF PathInv, Before
<1>7. Types'
  <2>1. log' \in Seq(Block) /\ committed' \subseteq Block
    BY <1>1, <1>2 DEF IInv, Types, TypeOK
  <2> QED
    BY <1>2, <1>3, <2>1 DEF commitOldest, IInv, Types, TypeOK
<1> QED
  BY <1>4, <1>5, <1>6, <1>7, ProtocolFacts DEF IInv

\* The DAG run takes a block.
LEMMA DagTakeKeeps ==
  ASSUME IInv, protocol = PAC_BIG_DAG, dagTake, UNCHANGED protocol
  PROVE  IInv'
<1>1. /\ blocksChan \in Seq(Block) /\ blocksChan # <<>>
      /\ Len(blocksChan) <= ChanCap /\ ChanCap \in Nat
  BY CommitorAssumption DEF dagTake, IInv, Types, TypeOK
<1>2. /\ Head(blocksChan) \in Block /\ <<Head(blocksChan)>> \in Seq(Block)
      /\ Tail(blocksChan) \in Seq(Block) /\ Len(Tail(blocksChan)) <= ChanCap
  BY <1>1
<1>3. Types'
  <2>1. /\ queue' \in Seq(Block)
        /\ blocksChan' \in Seq(Block) /\ Len(blocksChan') <= ChanCap
    BY <1>2 DEF dagTake
  <2> QED
    BY <2>1 DEF dagTake, IInv, Types, TypeOK
<1>4. LogInv'
  BY DEF dagTake, IInv, LogInv
<1>5. RefsInv'
  <2>1. ToSet(queue) = {}
    BY DEF dagTake, ToSet
  <2> QED
    BY <2>1 DEF dagTake, IInv, RefsInv
<1>6. ~walking'
  BY DEF dagTake, IInv
<1> QED
  BY <1>3, <1>4, <1>5, <1>6, ProtocolFacts DEF IInv

\* A block leaves the queue: what refers to it finds it committed.
LEMMA DagCommitKeeps ==
  ASSUME IInv, protocol = PAC_BIG_DAG, dagCommit, UNCHANGED protocol
  PROVE  IInv'
<1> DEFINE b == Head(queue)
<1>1. /\ b \in Block /\ Tail(queue) \in Seq(Block)
      /\ ToSet(queue) = {b} \cup ToSet(Tail(queue))
  <2>1. queue \in Seq(Block) /\ queue # <<>>
    BY DEF dagCommit, IInv, Types, TypeOK
  <2>2. queue[1] \in Block
    BY <2>1
  <2> QED
    BY <2>1, <2>2, SetOfSeq
<1>2. refs = <<>> /\ ToSet(refs) = {} /\ queue' = Tail(queue) /\ skipped' = skipped
  BY DEF dagCommit, ToSet
<1>0. ~walking'
  BY DEF dagCommit, IInv
<1>3. CASE b \in committed
  <2>1. UNCHANGED <<committed, log, refs>>
    BY <1>3 DEF dagCommit
  <2>2. Types'
    BY <1>1, <1>2, <2>1 DEF dagCommit, IInv, Types, TypeOK
  <2>3. LogInv'
    BY <2>1 DEF IInv, LogInv
  <2>4. RefsInv'
    BY <1>1, <1>2, <1>3, <2>1 DEF IInv, RefsInv
  <2> QED
    BY <1>0, <2>2, <2>3, <2>4, ProtocolFacts DEF IInv
<1>4. CASE b \notin committed
  <2>1. /\ committed' = committed \cup {b} /\ log' = Append(log, b)
        /\ refs' = References[b]
    BY <1>4 DEF dagCommit
  <2>2. refs' \in Seq(Block)
    BY <1>1, <2>1, DAGCommitorAssumption
  <2>3. log' \in Seq(Block)
    BY <1>1, <2>1 DEF IInv, Types, TypeOK
  <2>4. Types'
    BY <1>1, <1>2, <2>1, <2>2, <2>3 DEF dagCommit, IInv, Types, TypeOK
  <2>5. LogInv'
    BY <1>1, <1>4, <2>1, LogGrows DEF IInv
  <2>6. RefsInv'
    BY <1>1, <1>2, <2>1 DEF IInv, RefsInv
  <2> QED
    BY <1>0, <2>4, <2>5, <2>6, ProtocolFacts DEF IInv
<1> QED
  BY <1>3, <1>4

\* A reference is put into the queue or passed over.
LEMMA DagLookupKeeps ==
  ASSUME IInv, protocol = PAC_BIG_DAG, dagLookup, UNCHANGED protocol
  PROVE  IInv'
<1> DEFINE b == Head(refs)
<1>1. /\ b \in Block /\ Tail(refs) \in Seq(Block)
      /\ ToSet(refs) = {b} \cup ToSet(Tail(refs))
  <2>1. refs \in Seq(Block) /\ refs # <<>>
    BY DEF dagLookup, IInv, Types
  <2>2. refs[1] \in Block
    BY <2>1
  <2> QED
    BY <2>1, <2>2, SetOfSeq
<1>2. refs' = Tail(refs) /\ UNCHANGED <<committed, log>>
  BY DEF dagLookup, RefsAfter
<1>3. /\ queue' \in Seq(Block) /\ skipped' \subseteq Block
      /\ ToSet(queue') \cup skipped' = ToSet(queue) \cup skipped \cup {b}
  <2>1. queue \in Seq(Block) /\ skipped \subseteq Block
    BY DEF IInv, Types, TypeOK
  <2>2. \/ queue' = Append(queue, b) /\ skipped' = skipped
        \/ queue' = queue /\ skipped' = skipped \cup {b}
    BY DEF dagLookup
  <2>3. Append(queue, b) \in Seq(Block) /\ ToSet(Append(queue, b)) = ToSet(queue) \cup {b}
    <3>1. Append(queue, b) \in Seq(Block)
      BY <1>1, <2>1
    <3>2. ToSet(Append(queue, b)) = ToSet(queue) \cup {b}
      BY <1>1, <2>1, SetOfSeq, Zenon
    <3> QED
      BY <3>1, <3>2
  <2>4. CASE queue' = Append(queue, b) /\ skipped' = skipped
    BY <2>1, <2>3, <2>4
  <2>5. CASE queue' = queue /\ skipped' = skipped \cup {b}
    BY <1>1, <2>1, <2>5
  <2> QED
    BY <2>2, <2>4, <2>5
<1>4. Types'
  BY <1>1, <1>2, <1>3 DEF dagLookup, IInv, Types, TypeOK
<1>5. LogInv'
  BY <1>2 DEF IInv, LogInv
<1>6. RefsInv'
  BY <1>1, <1>2, <1>3 DEF IInv, RefsInv
<1>7. ~walking'
  BY DEF dagLookup, IInv
<1> QED
  BY <1>4, <1>5, <1>6, <1>7, ProtocolFacts DEF IInv

\* The initial state satisfies the invariant.
LEMMA InitInductive == DAGInit => IInv
<1> SUFFICES ASSUME DAGInit PROVE IInv
  OBVIOUS
<1> USE DEF DAGInit, Init
<1>1. Types
  <2>1. <<>> \in Seq(Block) /\ Len(<<>>) = 0 /\ 0 <= ChanCap
    BY CommitorAssumption
  <2>2. /\ blocksChan \in Seq(Block) /\ Len(blocksChan) <= ChanCap
        /\ queue \in Seq(Block) /\ log \in Seq(Block) /\ refs \in Seq(Block)
    BY <2>1
  <2> QED
    BY <2>2 DEF Types, TypeOK
<1>2. Len(log) = 0 /\ Len(queue) = 0 /\ queue = <<>> /\ committed = {} /\ ~walking
  <2>1. log = <<>> /\ queue = <<>> /\ committed = {}
    OBVIOUS
  <2>2. Len(log) = 0 /\ Len(queue) = 0
    BY <2>1
  <2> QED
    BY <2>1, <2>2
<1>3. LogInv /\ AncestorsFirst
  BY <1>2 DEF LogInv, AncestorsFirst
<1>4. PathInv
  BY <1>2 DEF PathInv
<1>5. RefsInv
  BY <1>2 DEF RefsInv
<1> QED
  BY <1>1, <1>2, <1>3, <1>4, <1>5 DEF IInv

\* Every step keeps it.
LEMMA Inductive == IInv /\ [Next]_dagVars => IInv'
<1> SUFFICES ASSUME IInv, [Next]_dagVars PROVE IInv'
  OBVIOUS
<1>1. CASE UNCHANGED dagVars
  BY <1>1 DEF dagVars, vars, IInv, Types, TypeOK, LogInv, PathInv, AncestorsFirst, RefsInv
<1>2. CASE Goroutine
  BY <1>2, TakeKeeps, WalkKeeps, OldestKeeps, DagTakeKeeps, DagCommitKeeps,
     DagLookupKeeps DEF Goroutine, run
<1> QED
  BY <1>1, <1>2, CoreKeeps DEF Next

\* The invariant holds in every reachable state.
LEMMA Invariance == Spec => []IInv
BY InitInductive, Inductive, PTL DEF Spec

\* The variables keep their types; in particular blocksChan its capacity.
THEOREM TypeCorrect == Spec => []TypeOK
<1>1. IInv => TypeOK
  BY DEF IInv, Types
<1> QED
  BY <1>1, Invariance, PTL

\* Commitor.run commits no block twice and none before its parent, for every
\* tree of blocks.
THEOREM ParentsFirst == Spec => []LeanAncestorsFirst
<1>1. IInv => LeanAncestorsFirst
  BY DEF IInv, LeanAncestorsFirst
<1> QED
  BY <1>1, Invariance, PTL

\* DAGCommitor.run commits no block twice, and all references of a committed
\* block but those it did not find, for every graph of blocks.
THEOREM ReferencesFollow == Spec => []HistoryClosed
<1>1. ASSUME IInv PROVE HistoryClosed
  <2>1. IsInjective(log)
    <3>1. DOMAIN log = 1..Len(log)
      BY <1>1 DEF IInv, Types, TypeOK
    <3> QED
      BY <1>1, <3>1 DEF IInv, LogInv, IsInjective
  <2>2. refs = <<>> => ToSet(refs) = {}
    BY DEF ToSet
  <2> QED
    BY <1>1, <2>1, <2>2 DEF HistoryClosed, IInv, RefsInv
<1> QED
  BY <1>1, Invariance, PTL
-----------------------------------------------------------------------------
\* A chain of blocks: each one's QC is for the one before.
IsChain(c) ==
  /\ \A i, j \in 1..Len(c) : c[i] = c[j] => i = j
  /\ c # <<>> => Parent[c[1]] = NoBlock
  /\ \A i \in 1..(Len(c) - 1) : Parent[c[i + 1]] = c[i]

\* The path and the channel lie on the chain, and the log is its beginning.
OnChain(c) ==
  /\ \A i \in 1..Len(queue) : \E k \in 1..Len(c) : queue[i] = c[k]
  /\ Len(log) <= Len(c)
  /\ \A i \in 1..Len(log) : log[i] = c[i]

\* A parent on the chain is the block before.
LEMMA ParentOnChain ==
  ASSUME NEW c \in Seq(Block), IsChain(c), NEW k \in 1..Len(c), Parent[c[k]] # NoBlock
  PROVE  k > 1 /\ k - 1 \in 1..Len(c) /\ Parent[c[k]] = c[k - 1]
<1>1. Len(c) \in Nat /\ c # <<>>
  OBVIOUS
<1>2. k # 1
  BY <1>1 DEF IsChain
<1>3. k - 1 \in 1..(Len(c) - 1) /\ (k - 1) + 1 = k /\ k > 1 /\ k - 1 \in 1..Len(c)
  BY <1>1, <1>2
<1>4. Parent[c[(k - 1) + 1]] = c[k - 1]
  BY <1>3 DEF IsChain
<1> QED
  BY <1>3, <1>4

\* A step of the lean Commitor whose channel holds blocks of the chain only.
LEMMA ChainStep ==
  ASSUME NEW c \in Seq(Block), IsChain(c), IInv, protocol = PAC_LEAN, OnChain(c),
         ToSet(blocksChan) \subseteq ToSet(c), [Next]_dagVars
  PROVE  OnChain(c)' /\ protocol' = PAC_LEAN
<1>1. /\ queue \in Seq(Block) /\ blocksChan \in Seq(Block) /\ log \in Seq(Block)
      /\ Len(queue) \in Nat /\ Len(log) \in Nat /\ Len(c) \in Nat
      /\ PathInv /\ LogInv
  BY DEF IInv, Types, TypeOK
<1>2. CASE UNCHANGED <<queue, log, protocol>>
  BY <1>2 DEF OnChain
<1>3. ASSUME take, protocol' = protocol PROVE OnChain(c)' /\ protocol' = PAC_LEAN
  <2> DEFINE b == Head(blocksChan)
  <2>1. blocksChan # <<>> /\ log' = log /\ (queue' = <<b>> \/ queue' = queue)
    BY <1>3 DEF take
  <2>2. b \in ToSet(c)
    <3>1. b = blocksChan[1] /\ 1 \in DOMAIN blocksChan
      BY <1>1, <2>1
    <3>2. b \in ToSet(blocksChan)
      BY <3>1 DEF ToSet
    <3> QED
      BY <3>2
  <2>3. \E k \in 1..Len(c) : b = c[k]
    BY <2>2 DEF ToSet
  <2> HIDE DEF b
  <2>4. CASE queue' = <<b>>
    <3>1. Len(queue') = 1 /\ queue'[1] = b
      BY <2>4
    <3>2. \A i \in 1..Len(queue') : \E k \in 1..Len(c) : queue'[i] = c[k]
      BY <2>3, <3>1
    <3> QED
      BY <1>3, <2>1, <3>2 DEF OnChain
  <2> QED
    BY <1>3, <2>1, <2>4 DEF OnChain
<1>4. ASSUME walk, protocol' = protocol PROVE OnChain(c)' /\ protocol' = PAC_LEAN
  <2> DEFINE n == Len(queue)
             parent == Parent[queue[n]]
  <2>1. /\ log' = log /\ walking
        /\ queue' = queue \/ (~PathEnds(parent) /\ parent \in store /\ queue' = Append(queue, parent))
    BY <1>4 DEF walk, Last
  <2>2. n > 0 /\ n \in 1..n /\ queue[n] \in Block
    BY <1>1, <2>1 DEF PathInv
  <2>3. CASE queue' = queue
    BY <1>4, <2>1, <2>3 DEF OnChain
  <2>4. CASE ~PathEnds(parent) /\ parent \in store /\ queue' = Append(queue, parent)
    <3>1. parent # NoBlock /\ parent \in Block
      BY <2>4 DEF PathEnds, IInv, Types, TypeOK
    <3>2. PICK k \in 1..Len(c) : queue[n] = c[k]
      BY <2>2 DEF OnChain
    <3>3. k - 1 \in 1..Len(c) /\ parent = c[k - 1]
      BY <3>1, <3>2, ParentOnChain
    <3>4. /\ Len(queue') = n + 1 /\ queue'[n + 1] = parent
          /\ \A i \in 1..n : queue'[i] = queue[i]
      BY <1>1, <2>4, <3>1
    <3>5. \A i \in 1..Len(queue') : i \in 1..n \/ i = n + 1
      BY <1>1, <3>4
    <3> HIDE DEF n, parent
    <3>6. \A i \in 1..Len(queue') : \E j \in 1..Len(c) : queue'[i] = c[j]
      BY <3>3, <3>4, <3>5 DEF OnChain, n
    <3> QED
      BY <1>4, <2>1, <3>6 DEF OnChain
  <2> QED
    BY <2>1, <2>3, <2>4
<1>5. ASSUME commitOldest, protocol' = protocol PROVE OnChain(c)' /\ protocol' = PAC_LEAN
  <2> DEFINE n == Len(queue)
             b == queue[n]
             l == Len(log)
  <2>1. queue # <<>> /\ ~walking /\ log' = Append(log, b) /\ queue' = SubSeq(queue, 1, n - 1)
    BY <1>5 DEF commitOldest, Last, Front
  <2>2. n > 0 /\ n \in 1..n /\ b \in Block
    BY <1>1, <2>1
  <2>3. b \notin committed /\ Parent[b] \in committed \cup {NoBlock}
    BY <1>1, <2>1, <2>2 DEF PathInv
  <2>4. PICK k \in 1..Len(c) : b = c[k]
    BY <2>2 DEF OnChain
  <2>5. k > l
    <3>1. ASSUME k \in 1..l PROVE FALSE
      <4>1. log[k] = c[k] /\ log[k] \in committed
        BY <1>1, <3>1 DEF OnChain, LogInv
      <4> QED
        BY <2>3, <2>4, <4>1
    <3> QED
      BY <1>1, <3>1
  <2>6. k <= l + 1
    <3>1. CASE Parent[b] = NoBlock
      <4>1. ASSUME k > 1 PROVE FALSE
        <5>1. k - 1 \in 1..(Len(c) - 1) /\ (k - 1) + 1 = k /\ k - 1 \in 1..Len(c)
          BY <1>1, <4>1
        <5>2. Parent[c[(k - 1) + 1]] = c[k - 1] /\ c[k - 1] \in Block
          BY <5>1 DEF IsChain
        <5> QED
          BY <2>4, <3>1, <5>1, <5>2, CommitorAssumption
      <4> QED
        BY <1>1, <4>1
    <3>2. CASE Parent[b] # NoBlock
      <4>1. k - 1 \in 1..Len(c) /\ Parent[b] = c[k - 1] /\ Parent[b] \in committed
        BY <2>3, <2>4, <3>2, ParentOnChain
      <4>2. PICK i \in 1..l : log[i] = Parent[b]
        BY <1>1, <4>1 DEF LogInv
      <4>3. i \in 1..Len(c) /\ c[i] = c[k - 1]
        BY <1>1, <4>1, <4>2 DEF OnChain
      <4>4. i = k - 1
        BY <4>1, <4>3 DEF IsChain
      <4> QED
        BY <1>1, <4>2, <4>4
    <3> QED
      BY <3>1, <3>2
  <2>7. k = l + 1 /\ l + 1 <= Len(c)
    BY <1>1, <2>5, <2>6
  <2>8. Len(log') = l + 1 /\ log'[l + 1] = b /\ \A i \in 1..l : log'[i] = log[i]
    BY <1>1, <2>1, <2>2
  <2>9. \A i \in 1..Len(log') : i \in 1..l \/ i = l + 1
    BY <1>1, <2>8
  <2>10. Len(queue') = n - 1 /\ \A i \in 1..(n - 1) : queue'[i] = queue[i] /\ i \in 1..n
    <3>1. queue' = [i \in 1..(n - 1) |-> queue[i]]
      BY <1>1, <2>1, <2>2
    <3>2. \A i \in 1..(n - 1) : queue[i] \in Block /\ i \in 1..n
      BY <1>1, <2>2
    <3> QED
      BY <1>1, <2>2, <3>1, <3>2
  <2> HIDE DEF n, b, l
  <2>11. Len(log') <= Len(c) /\ \A i \in 1..Len(log') : log'[i] = c[i]
    BY <2>4, <2>7, <2>8, <2>9 DEF OnChain, l
  <2>12. \A i \in 1..Len(queue') : \E j \in 1..Len(c) : queue'[i] = c[j]
    BY <2>10 DEF OnChain, n
  <2> QED
    BY <1>5, <2>11, <2>12 DEF OnChain
<1>6. CASE UNCHANGED dagVars
  BY <1>2, <1>6 DEF dagVars, vars
<1>7. CASE Goroutine
  BY <1>3, <1>4, <1>5, <1>7, ProtocolFacts DEF Goroutine, run
<1>8. ASSUME CoreStep, UNCHANGED <<protocol, refs, skipped>>
      PROVE  OnChain(c)' /\ protocol' = PAC_LEAN
  BY <1>2, <1>8 DEF CoreStep, storeBlock, Commit, sendBlock
<1> QED
  BY <1>6, <1>7, <1>8 DEF Next

\* As long as the coins endorse blocks of one chain, what Commitor.run commits
\* is the beginning of that chain, in its order and without a gap, whatever the
\* order of the coins and of the stores.
THEOREM LogFollowsChain ==
  ASSUME NEW CONSTANT c \in Seq(Block), IsChain(c)
  PROVE  Spec /\ protocol = PAC_LEAN /\ [](ToSet(blocksChan) \subseteq ToSet(c))
           => []IsPrefix(log, c)
<1> DEFINE Endorsed == ToSet(blocksChan) \subseteq ToSet(c)
           Lean == protocol = PAC_LEAN
           Follows == OnChain(c)
           Prefix == IsPrefix(log, c)
<1>1. DAGInit => Follows
  <2> SUFFICES ASSUME DAGInit PROVE Follows
    OBVIOUS
  <2>1. Len(queue) = 0 /\ Len(log) = 0 /\ Len(c) \in Nat
    BY DEF DAGInit, Init
  <2> QED
    BY <2>1 DEF OnChain
<1>2. IInv /\ Lean /\ Follows /\ Endorsed /\ [Next]_dagVars => Follows' /\ Lean'
  BY ChainStep
<1>3. ASSUME IInv, Follows PROVE Prefix
  <2>1. log \in Seq(Block) /\ Len(log) \in Nat /\ Len(c) \in Nat
    BY <1>3 DEF IInv, Types, TypeOK
  <2>2. Len(log) <= Len(c) /\ \A i \in 1..Len(log) : log[i] = c[i]
    BY <1>3 DEF OnChain
  <2>3. SubSeq(log, 1, Len(log)) = SubSeq(c, 1, Len(log))
    BY <2>1, <2>2
  <2> QED
    BY <2>2, <2>3 DEF IsPrefix
<1> HIDE DEF Endorsed, Lean, Follows, Prefix
<1>4. Spec /\ Lean /\ []Endorsed => []Prefix
  BY <1>1, <1>2, <1>3, Invariance, PTL DEF Spec
<1> QED
  BY <1>4 DEF Endorsed, Lean, Prefix
-----------------------------------------------------------------------------
\* The last element of a sequence and the rest.
LEMMA SetOfFront ==
  ASSUME NEW s \in Seq(Block), s # <<>>
  PROVE  ToSet(s) = ToSet(Front(s)) \cup {Last(s)}
<1>1. Len(s) \in 1..Len(s) /\ Len(s) \in Nat
  OBVIOUS
<1>2. /\ Front(s) \in Seq(Block)
      /\ Len(Front(s)) = Len(s) - 1
      /\ \A i \in 1..(Len(s) - 1) : Front(s)[i] = s[i]
  <2>1. Front(s) = SubSeq(s, 1, Len(s) - 1)
    BY DEF Front
  <2>2. Front(s) = [i \in 1..(Len(s) - 1) |-> s[i]]
    BY <1>1, <2>1
  <2>3. \A i \in 1..(Len(s) - 1) : s[i] \in Block
    BY <1>1
  <2>4. Front(s) \in Seq(Block) /\ Len(Front(s)) = Len(s) - 1
    BY <1>1, <2>2, <2>3
  <2> QED
    BY <2>2, <2>4
<1>3. Last(s) = s[Len(s)]
  BY DEF Last
<1>4. \A i \in 1..Len(s) : i \in 1..(Len(s) - 1) \/ i = Len(s)
  BY <1>1
<1>5. DOMAIN s = 1..Len(s) /\ DOMAIN Front(s) = 1..(Len(s) - 1)
      /\ 1..(Len(s) - 1) \subseteq 1..Len(s)
  BY <1>1, <1>2
<1>6. ToSet(s) \subseteq ToSet(Front(s)) \cup {Last(s)}
  BY <1>2, <1>3, <1>4, <1>5 DEF ToSet
<1>7. ToSet(Front(s)) \cup {Last(s)} \subseteq ToSet(s)
  BY <1>1, <1>2, <1>3, <1>5 DEF ToSet
<1> QED
  BY <1>6, <1>7

\* No block is lost between Commit and committedBlcoks.
LEMMA AcceptedStep ==
  IInv /\ [Next]_dagVars => Accepted \cup committed \subseteq Accepted' \cup committed'
<1> SUFFICES ASSUME IInv, [Next]_dagVars
             PROVE  Accepted \cup committed \subseteq Accepted' \cup committed'
  OBVIOUS
<1>0. blocksChan \in Seq(Block) /\ queue \in Seq(Block) /\ refs \in Seq(Block)
  BY DEF IInv, Types, TypeOK
<1> DEFINE Kept == Accepted \cup committed \subseteq Accepted' \cup committed'
<1>1. CASE UNCHANGED <<pending, blocksChan, queue, committed>>
  BY <1>1 DEF Accepted
<1>2. ASSUME NEW b \in Block, Commit(b) PROVE Kept
  BY <1>2 DEF Commit, Accepted
<1>3. ASSUME take PROVE Kept
  <2> DEFINE b == Head(blocksChan)
  <2>0. blocksChan # <<>> /\ b \in Block
    BY <1>0, <1>3 DEF take
  <2>1. ToSet(blocksChan) = {b} \cup ToSet(Tail(blocksChan))
    BY <1>0, <2>0, SetOfSeq
  <2>2. /\ blocksChan' = Tail(blocksChan) /\ committed' = committed /\ queue = <<>>
        /\ pending' = pending
    BY <1>3 DEF take
  <2>3. ToSet(queue) = {}
    BY <2>2 DEF ToSet
  <2>4. CASE b \notin committed
    <3>1. queue' = <<b>>
      BY <1>3, <2>4 DEF take, Fresh
    <3>2. ToSet(queue') = {b}
      BY <1>0, <2>0, <3>1, SetOfSeq
    <3> QED
      BY <2>1, <2>2, <2>3, <3>2 DEF Accepted
  <2>5. CASE b \in committed
    BY <2>1, <2>2, <2>3, <2>5 DEF Accepted
  <2> QED
    BY <2>4, <2>5
<1>4. ASSUME walk PROVE Kept
  <2>1. \/ queue' = queue
        \/ Parent[Last(queue)] \in store /\ queue' = Append(queue, Parent[Last(queue)])
    BY <1>4 DEF walk
  <2>2. store \subseteq Block /\ UNCHANGED <<pending, blocksChan, committed>>
    BY <1>4 DEF IInv, Types, TypeOK, walk
  <2>3. ASSUME NEW b \in Block PROVE ToSet(Append(queue, b)) = ToSet(queue) \cup {b}
    BY <1>0, SetOfSeq
  <2>4. ToSet(queue) \subseteq ToSet(queue')
    BY <2>1, <2>2, <2>3
  <2> QED
    BY <2>2, <2>4 DEF Accepted
<1>5. ASSUME commitOldest PROVE Kept
  <2>1. ToSet(queue) = ToSet(Front(queue)) \cup {Last(queue)}
    BY <1>0, <1>5, SetOfFront DEF commitOldest
  <2>2. /\ queue' = Front(queue) /\ committed' = committed \cup {Last(queue)}
        /\ UNCHANGED <<pending, blocksChan>>
    BY <1>5 DEF commitOldest
  <2> QED
    BY <2>1, <2>2 DEF Accepted
<1>6. ASSUME dagTake PROVE Kept
  <2> DEFINE b == Head(blocksChan)
  <2>0. blocksChan # <<>> /\ b \in Block
    BY <1>0, <1>6 DEF dagTake
  <2>1. ToSet(blocksChan) = {b} \cup ToSet(Tail(blocksChan))
    BY <1>0, <2>0, SetOfSeq
  <2>2. /\ blocksChan' = Tail(blocksChan) /\ committed' = committed
        /\ queue = <<>> /\ queue' = <<b>> /\ pending' = pending
    BY <1>6 DEF dagTake
  <2>3. ToSet(queue) = {}
    BY <2>2 DEF ToSet
  <2>4. ToSet(queue') = {b}
    BY <1>0, <2>0, <2>2, SetOfSeq
  <2> QED
    BY <2>1, <2>2, <2>3, <2>4 DEF Accepted
<1>7. ASSUME dagCommit PROVE Kept
  <2>1. queue # <<>> /\ queue' = Tail(queue) /\ UNCHANGED <<pending, blocksChan>>
    BY <1>7 DEF dagCommit
  <2>2. Head(queue) \in committed' /\ committed \subseteq committed'
    BY <1>7 DEF dagCommit
  <2>3. Head(queue) \in Block
    BY <1>0, <2>1
  <2>4. ToSet(queue) = {Head(queue)} \cup ToSet(Tail(queue))
    BY <1>0, <2>1, <2>3, SetOfSeq
  <2> QED
    BY <2>1, <2>2, <2>4 DEF Accepted
<1>8. ASSUME dagLookup PROVE Kept
  <2>1. refs # <<>> /\ UNCHANGED <<pending, blocksChan, committed>>
        /\ (queue' = queue \/ queue' = Append(queue, Head(refs)))
    BY <1>8 DEF dagLookup
  <2>2. Head(refs) \in Block
    BY <1>0, <2>1
  <2>3. ToSet(Append(queue, Head(refs))) = ToSet(queue) \cup {Head(refs)}
    BY <1>0, <2>2, SetOfSeq
  <2>4. ToSet(queue) \subseteq ToSet(queue')
    BY <2>1, <2>3
  <2> QED
    BY <2>1, <2>4 DEF Accepted
<1>9. ASSUME NEW b \in Block, storeBlock(b) PROVE Kept
  BY <1>1, <1>9 DEF storeBlock
<1>10. ASSUME sendBlock PROVE Kept
  <2>1. /\ pending \in Block /\ blocksChan' = Append(blocksChan, pending)
        /\ UNCHANGED <<queue, committed>>
    BY <1>10 DEF IInv, Types, TypeOK, sendBlock
  <2>2. ToSet(blocksChan') = ToSet(blocksChan) \cup {pending}
    BY <1>0, <2>1, SetOfSeq
  <2> QED
    BY <2>1, <2>2 DEF Accepted
<1>11. CASE UNCHANGED dagVars
  BY <1>1, <1>11 DEF dagVars, vars
<1> QED
  BY <1>2, <1>3, <1>4, <1>5, <1>6, <1>7, <1>8, <1>9, <1>10, <1>11
     DEF Next, Goroutine, run, CoreStep

\* In all protocols a block that Commit has let through stays with the loop
\* that sends it, in the channel or on run's path until it is committed,
\* whatever is stored and endorsed meanwhile.
THEOREM AcceptedStays ==
  Spec => [][Accepted \cup committed \subseteq Accepted' \cup committed']_dagVars
BY AcceptedStep, Invariance, PTL DEF Spec

\* run cannot go on: it waits on its channel, or its walk spins.
RunAtRest ==
  /\ protocol = PAC_LEAN =>
       /\ queue = <<>> => blocksChan = <<>>
       /\ ~walking => queue = <<>>
       /\ walking => /\ ~PathEnds(Parent[Last(queue)])
                     /\ Parent[Last(queue)] \notin store
  /\ protocol = PAC_BIG_DAG => blocksChan = <<>> /\ queue = <<>> /\ refs = <<>>

\* The message loop cannot go on either: Commit waits for room, or there is
\* nothing left to store.
CoreAtRest == IF pending = NoBlock THEN store = Block ELSE Len(blocksChan) = ChanCap

\* Then nothing is left to commit, or loop and walk wait for each other.
RestIsCommitted == RunAtRest /\ CoreAtRest => Accepted = {} \/ Stuck

\* Commitor and message loop stop nowhere else: what EventuallyCommitted
\* promises can fail only by one of them not being scheduled or by a certified
\* block that is never received.
THEOREM RestsCommitted == Spec => []RestIsCommitted
<1>1. ASSUME IInv, RunAtRest, CoreAtRest, ~Stuck PROVE Accepted = {}
  <2>1. ASSUME walking, protocol = PAC_LEAN PROVE FALSE
    <3>1. queue # <<>> /\ queue \in Seq(Block)
      BY <1>1, <2>1 DEF IInv, PathInv, Types, TypeOK
    <3>2. Last(queue) \in Block
      BY <3>1 DEF Last
    <3>3. Parent[Last(queue)] \in Block \cup {NoBlock}
      BY <3>2, CommitorAssumption
    <3>4. Parent[Last(queue)] \in Block \ store
      BY <1>1, <2>1, <3>3 DEF RunAtRest, PathEnds
    <3>5. NoBlock \notin Block
      BY CommitorAssumption
    <3> QED
      BY <1>1, <2>1, <3>4, <3>5 DEF CoreAtRest, Stuck
  <2>2. queue = <<>> /\ blocksChan = <<>>
    BY <1>1, <2>1 DEF RunAtRest, IInv, Types
  <2>3. Len(blocksChan) # ChanCap
    BY <2>2, CommitorAssumption
  <2>4. pending = NoBlock
    BY <1>1, <2>3 DEF CoreAtRest
  <2> QED
    BY <2>2, <2>4 DEF Accepted, ToSet
<1>2. IInv => RestIsCommitted
  BY <1>1 DEF RestIsCommitted
<1> QED
  BY <1>2, Invariance, PTL

\* The exception of EventuallyCommitted is a deadlock: with the message loop
\* behind the full channel, the parent the walk spins on is never stored.
THEOREM StuckForEver == Spec => [](Stuck => []Stuck)
<1>1. ASSUME IInv, Stuck, [Next]_dagVars PROVE Stuck'
  <2>1. /\ pending # NoBlock /\ Len(blocksChan) = ChanCap /\ walking
        /\ Parent[Last(queue)] \notin store \cup {NoBlock}
    BY <1>1 DEF Stuck
  <2>2. ~CoreStep
    <3>0. ~(Len(blocksChan) < ChanCap)
      BY <2>1, CommitorAssumption
    <3>1. ~sendBlock
      BY <3>0 DEF sendBlock
    <3>2. ASSUME NEW b \in Block PROVE ~storeBlock(b) /\ ~Commit(b)
      BY <2>1 DEF storeBlock, Commit
    <3> QED
      BY <3>1, <3>2 DEF CoreStep
  <2>3. protocol = PAC_LEAN => ~run
    <3>1. protocol = PAC_LEAN => queue # <<>>
      BY <1>1, <2>1 DEF IInv, PathInv
    <3>2. protocol = PAC_LEAN => ~take
      BY <3>1 DEF take
    <3>3. ~walk
      BY <2>1 DEF walk, PathEnds
    <3>4. ~commitOldest
      BY <2>1 DEF commitOldest
    <3> QED
      BY <3>2, <3>3, <3>4 DEF run
  <2>4. protocol # PAC_BIG_DAG
    BY <1>1, <2>1 DEF IInv
  <2>5. UNCHANGED dagVars
    BY <1>1, <2>2, <2>3, <2>4 DEF Next, Goroutine
  <2> QED
    BY <2>1, <2>5 DEF dagVars, vars, Stuck
<1>2. IInv /\ Stuck /\ [Next]_dagVars => Stuck'
  BY <1>1
<1> QED
  BY <1>2, Invariance, PTL DEF Spec
-----------------------------------------------------------------------------
(***************************************************************************)
(* The view of PAC_BIG_DAG.                                                *)
(***************************************************************************)

\* What keeps the properties true:
\*   - a height-1 commit has seen f+1 referring blocks, and a block of the next
\*     view without the leader's in its history leaves 2f+1 that do not refer;
\*   - the first 2f+1 shares come from nodes that have the references to go on;
\*   - an early speed commit leaves 2f+1 nodes that cannot miss the block.
ReferencesCount ==
  /\ Committed(HEIGHT_1) # {} => Cardinality(referring) >= LowThreshold
  /\ \A n \in advanced :
       HEIGHT_1 \notin history[n] => Cardinality(proposed \ referring) >= HightThreshold

SharersGoOn ==
  coinDone # {} =>
    \E S \in SUBSET elected :
      IsQuorum(S) /\ S \cap coinDone \subseteq advanced \cup failed \cup missed

CarriersStay ==
  early => \E S \in SUBSET finalized : IsQuorum(S) /\ S \cap Lacking = {}

ViewInv == ViewTypeOK /\ ReferencesCount /\ SharersGoOn /\ CarriersStay

\* The two heights differ.
LEMMA HeightFacts == HEIGHT_1 # HEIGHT_2
BY DEF HEIGHT_1, HEIGHT_2

\* f+1 is a natural number.
LEMMA LowType == LowThreshold \in Nat
BY ThresholdType DEF LowThreshold, MaxFaults

\* The complement of 2f+1 nodes has at most Size - (2f+1) members.
LEMMA OutsideQuorum ==
  ASSUME NEW S \in SUBSET Node, IsQuorum(S), NEW T \in SUBSET (Node \ S)
  PROVE  Cardinality(T) <= Size - HightThreshold
<1>1. IsFiniteSet(Node)
  BY CommitteeAssumption
<1>2. Cardinality(Node \ S) = Size - Cardinality(Node \cap S)
  BY <1>1, FS_Difference DEF Size
<1>3. Node \cap S = S
  OBVIOUS
<1>4. /\ Cardinality(T) <= Cardinality(Node \ S)
      /\ Cardinality(T) \in Nat
      /\ Cardinality(Node \ S) \in Nat
  BY CardMono
<1>5. Cardinality(S) \in Nat /\ Cardinality(S) >= HightThreshold
  BY CardMono DEF IsQuorum
<1>6. Cardinality(Node \ S) = Size - Cardinality(S)
  BY <1>2, <1>3
<1> QED
  BY <1>4, <1>5, <1>6, ThresholdType

\* The initial state satisfies the invariant.
LEMMA ViewInitInductive == ViewInit => ViewInv
BY DEF ViewInit, ViewInv, ViewTypeOK, ReferencesCount, SharersGoOn, CarriersStay, Committed

\* A step that leaves the coin alone keeps the invariant: nodes enter, propose,
\* certify and release.
LEMMA QuietStep ==
  ASSUME ViewInv, UNCHANGED <<coinDone, nextVars>>,
         opened' \subseteq Node, proposed' \subseteq Node, finalized' \subseteq Node,
         elected' \subseteq Node, referring' \subseteq proposed',
         referring \subseteq referring', proposed \ referring \subseteq proposed' \ referring',
         finalized \subseteq finalized', elected \subseteq elected'
  PROVE  ViewInv'
<1>1. ViewTypeOK'
  BY DEF ViewInv, ViewTypeOK, nextVars
<1>2. /\ Cardinality(referring') \in Nat
      /\ Cardinality(referring) \in Nat
      /\ Cardinality(referring) <= Cardinality(referring')
  BY CardMono
<1>3. /\ Cardinality(proposed' \ referring') \in Nat
      /\ Cardinality(proposed \ referring) \in Nat
      /\ Cardinality(proposed \ referring) <= Cardinality(proposed' \ referring')
  BY CardMono
<1>4. ReferencesCount'
  BY <1>2, <1>3, LowType, ThresholdType DEF ViewInv, ReferencesCount, Committed, nextVars
<1>5. SharersGoOn'
  BY DEF ViewInv, SharersGoOn, nextVars
<1>6. CarriersStay'
  BY DEF ViewInv, CarriersStay, Lacking, nextVars
<1> QED
  BY <1>1, <1>4, <1>5, <1>6 DEF ViewInv

\* What advanceView leaves behind: the history of the block it makes, if any.
LEMMA AdvanceFacts ==
  ASSUME ViewTypeOK, NEW n \in Node \ coinDone, NEW Q \in SUBSET proposed,
         advanceView(n, Q)
  PROVE  /\ advanced' \in {advanced, advanced \cup {n}}
         /\ n \notin advanced
         /\ missed' \in {missed, missed \cup {n}}
         /\ \A m \in advanced : history'[m] = history[m]
         /\ history' \in [Node -> SUBSET {HEIGHT_1, HEIGHT_2}]
         /\ n \in advanced' => /\ Enough(Q)
                               /\ HEIGHT_1 \in history'[n] <=> Q \cap referring # {}
                               /\ HEIGHT_2 \in history'[n] <=> Leader \in Q
         /\ Enough(Q) => n \in advanced' \cup missed'
BY HeightFacts DEF ViewTypeOK, advanceView

\* The coin reaches a node: the one step that commits and opens the next view.
LEMMA CoinStep ==
  ASSUME ViewInv, NEW n \in Node, NEW T \in SUBSET proposed, NEW Q \in SUBSET T,
         NEW speed \in BOOLEAN, NEW known \in BOOLEAN,
         processCoin(n, T, Q, speed, known)
  PROVE  ViewInv'
<1> USE DEF ViewInv
<1>1. /\ n \in Node \ coinDone
      /\ coinDone' = coinDone \cup {n}
      /\ IsQuorum(elected)
      /\ Q \in SUBSET proposed
      /\ Leader \in Q <=> n \in finalized
      /\ n \in elected => Enough(Q)
      /\ speed => n \in finalized /\ IsQuorum(finalized)
      /\ UNCHANGED <<opened, proposed, referring, finalized, elected>>
  BY DEF processCoin, Tossed, Certified, Releases, Enough, SpeedCert
<1>2. /\ advanced' \in {advanced, advanced \cup {n}}
      /\ n \notin advanced
      /\ missed' \in {missed, missed \cup {n}}
      /\ failed' \in {failed, failed \cup {n}}
      /\ \A m \in advanced : history'[m] = history[m]
      /\ history' \in [Node -> SUBSET {HEIGHT_1, HEIGHT_2}]
      /\ n \in advanced' => /\ Enough(Q)
                            /\ HEIGHT_1 \in history'[n] <=> Q \cap referring # {}
                            /\ HEIGHT_2 \in history'[n] <=> Leader \in Q
      /\ Enough(Q) => n \in advanced' \cup missed' \cup failed'
      /\ early' => early \/ (speed /\ Lacking = {})
      /\ early' \in BOOLEAN
  <2>1. CASE advanceView(n, Q)
    BY <1>1, <2>1, AdvanceFacts DEF processCoin, ViewTypeOK
  <2>2. CASE failed' = failed \cup {n} /\ UNCHANGED <<decided, missed, advanced, history, early>>
    BY <1>1, <2>2 DEF ViewTypeOK
  <2> QED
    BY <2>1, <2>2 DEF processCoin
<1>3. /\ decided' \in [Node -> SUBSET {HEIGHT_1, HEIGHT_2}]
      /\ \A m \in Node : HEIGHT_1 \in decided'[m] =>
           HEIGHT_1 \in decided[m] \/ WeakCert(T)
  BY HeightFacts DEF processCoin, ViewTypeOK
<1>4. ViewTypeOK'
  BY <1>1, <1>2, <1>3 DEF ViewTypeOK
<1>5. ReferencesCount'
  <2>1. ASSUME WeakCert(T) PROVE Cardinality(referring) >= LowThreshold
    <3>1. /\ Cardinality(T \cap referring) <= Cardinality(referring)
          /\ Cardinality(T \cap referring) \in Nat
          /\ Cardinality(referring) \in Nat
      BY CardMono DEF ViewTypeOK
    <3> QED
      BY <2>1, <3>1, LowType DEF WeakCert
  <2>2. ASSUME Q \cap referring = {}, Enough(Q)
        PROVE  Cardinality(proposed \ referring) >= HightThreshold
    <3>1. Q \in SUBSET (proposed \ referring)
      BY <2>2
    <3>2. /\ Cardinality(Q) <= Cardinality(proposed \ referring)
          /\ Cardinality(Q) \in Nat
          /\ Cardinality(proposed \ referring) \in Nat
      BY <3>1, CardMono DEF ViewTypeOK
    <3> QED
      BY <2>2, <3>2, ThresholdType DEF Enough
  <2> QED
    BY <1>1, <1>2, <1>3, <2>1, <2>2 DEF ReferencesCount, Committed
<1>6. SharersGoOn'
  <2>1. PICK S \in SUBSET elected :
               IsQuorum(S) /\ S \cap coinDone \subseteq advanced \cup failed \cup missed
    BY <1>1 DEF SharersGoOn
  <2>2. S \cap coinDone' \subseteq advanced' \cup failed' \cup missed'
    BY <1>1, <1>2, <2>1
  <2> QED
    BY <1>1, <2>1, <2>2 DEF SharersGoOn
<1>7. CarriersStay'
  <2> SUFFICES ASSUME early'
               PROVE  \E S \in SUBSET finalized : IsQuorum(S) /\ S \cap Lacking' = {}
    BY <1>1 DEF CarriersStay
  <2>1. PICK S \in SUBSET finalized : IsQuorum(S) /\ S \cap Lacking = {}
    BY <1>1, <1>2 DEF CarriersStay
  <2>2. S \cap Lacking' = {}
    BY <1>1, <1>2, <2>1 DEF Lacking
  <2> QED
    BY <2>1, <2>2
<1> QED
  BY <1>4, <1>5, <1>6, <1>7

\* Every step keeps the invariant.
LEMMA ViewInductive == ViewInv /\ [ViewNext]_viewVars => ViewInv'
<1> SUFFICES ASSUME ViewInv, [ViewNext]_viewVars PROVE ViewInv'
  OBVIOUS
<1>1. ASSUME NEW n \in Node, OpenView(n) PROVE ViewInv'
  BY <1>1, QuietStep DEF OpenView, ViewInv, ViewTypeOK
<1>2. ASSUME NEW n \in Node, Finalize(n) PROVE ViewInv'
  BY <1>2, QuietStep DEF Finalize, ViewInv, ViewTypeOK
<1>3. ASSUME NEW n \in Node, handleSpeedVoteMsg(n) PROVE ViewInv'
  BY <1>3, QuietStep DEF handleSpeedVoteMsg, ViewInv, ViewTypeOK
<1>4. ASSUME NEW n \in Node, NEW R \in SUBSET opened, proposeHeight2(n, R) PROVE ViewInv'
  <2>1. /\ n \in Node \ proposed
        /\ proposed' = proposed \cup {n}
        /\ referring' \in {referring, referring \cup {n}}
        /\ UNCHANGED <<opened, finalized, elected, coinDone, nextVars>>
    BY <1>4 DEF proposeHeight2
  <2> QED
    BY <2>1, QuietStep DEF ViewInv, ViewTypeOK
<1>5. CASE UNCHANGED viewVars
  BY <1>5, QuietStep DEF viewVars, ViewInv, ViewTypeOK
<1> QED
  BY <1>1, <1>2, <1>3, <1>4, <1>5, CoinStep DEF ViewNext

\* The invariant holds in every reachable state.
LEMMA ViewInvariance == ViewSpec => []ViewInv
BY ViewInitInductive, ViewInductive, PTL DEF ViewSpec

\* The variables keep their types.
THEOREM ViewTypeCorrect == ViewSpec => []ViewTypeOK
BY ViewInvariance, PTL DEF ViewInv

\* The height-1 block of the leader, once some node committed it, is in the
\* history of every block that opens the next view.
THEOREM WeakCommitsAreCarried == ViewSpec => []WeakCommitCarried
<1>1. ASSUME ViewInv PROVE WeakCommitCarried
  <2> SUFFICES ASSUME Committed(HEIGHT_1) # {}, NEW n \in advanced, HEIGHT_1 \notin history[n]
               PROVE  FALSE
    BY DEF WeakCommitCarried
  <2>1. /\ Cardinality(referring) >= LowThreshold
        /\ Cardinality(proposed \ referring) >= HightThreshold
    BY <1>1 DEF ViewInv, ReferencesCount
  <2>2. referring \in SUBSET Node /\ proposed \ referring \in SUBSET Node
    BY <1>1 DEF ViewInv, ViewTypeOK
  <2>3. Cardinality(referring) \in Nat /\ Cardinality(proposed \ referring) \in Nat
    BY <2>2, CardMono
  <2>4. Cardinality(referring) + Cardinality(proposed \ referring) > Size
    BY <2>1, <2>3, DAGViewAssumption, LowType, ThresholdType
  <2>5. referring \cap (proposed \ referring) # {}
    BY <2>2, <2>4, SetsMeet
  <2> QED
    BY <2>5
<1> QED
  BY <1>1, ViewInvariance, PTL

\* At most Size - (2f+1) nodes use up their one attempt with too few references.
THEOREM FewStayBehind == ViewSpec => []StuckAtMostF
<1>1. ASSUME ViewInv PROVE StuckAtMostF
  <2> DEFINE Behind == coinDone \ (advanced \cup failed \cup missed)
  <2>1. CASE coinDone = {}
    <3>1. Behind = {}
      BY <2>1
    <3>2. Cardinality(Behind) = 0
      BY <3>1, FS_EmptySet
    <3>3. HightThreshold <= Size
      BY ThresholdType DEF HightThreshold, MaxFaults
    <3> QED
      BY <3>2, <3>3, ThresholdType DEF StuckAtMostF
  <2>2. CASE coinDone # {}
    <3>1. PICK S \in SUBSET elected :
                 IsQuorum(S) /\ S \cap coinDone \subseteq advanced \cup failed \cup missed
      BY <1>1, <2>2 DEF ViewInv, SharersGoOn
    <3>2. S \in SUBSET Node /\ Behind \in SUBSET (Node \ S)
      BY <1>1, <3>1 DEF ViewInv, ViewTypeOK
    <3> QED
      BY <3>1, <3>2, OutsideQuorum DEF StuckAtMostF
  <2> QED
    BY <2>1, <2>2
<1> QED
  BY <1>1, ViewInvariance, PTL

\* After an early speed commit, at most Size - (2f+1) blocks of the next view
\* do without the committed block.
THEOREM EarlySpeedCommitsAreCarried == ViewSpec => []EarlySpeedCarried
<1>1. ASSUME ViewInv PROVE EarlySpeedCarried
  <2> SUFFICES ASSUME early PROVE Cardinality(Lacking) <= Size - HightThreshold
    BY DEF EarlySpeedCarried
  <2>1. PICK S \in SUBSET finalized : IsQuorum(S) /\ S \cap Lacking = {}
    BY <1>1 DEF ViewInv, CarriersStay
  <2>2. S \in SUBSET Node /\ Lacking \in SUBSET (Node \ S)
    BY <1>1, <2>1 DEF ViewInv, ViewTypeOK, Lacking
  <2> QED
    BY <2>1, <2>2, OutsideQuorum
<1> QED
  BY <1>1, ViewInvariance, PTL
=============================================================================
