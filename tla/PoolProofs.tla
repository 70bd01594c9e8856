----------------------------- MODULE PoolProofs -----------------------------
(***************************************************************************)
(* The transaction pool, for every ring, every batch that is smaller than  *)
(* the ring, any capacities and any number of getters.                     *)
(***************************************************************************)
EXTENDS Pool, SequenceTheorems, TLAPS

\* The write index is as far from the read index as there are transactions
\* in the ring, and a full batch never stays in it.
RingInv ==
  /\ wind \in Index
  /\ rind \in Index \cup {-1}
  /\ nums \in Nat
  /\ nums < BatchSize
  /\ wind = Step(rind, nums + 1)

\* The index k slots after i, without the remainder.
LEMMA StepValue ==
  ASSUME NEW i \in Index \cup {-1}, NEW k \in Nat, 0 < k, k <= MaxQueueSize
  PROVE  /\ i + k < MaxQueueSize => Step(i, k) = i + k
         /\ i + k >= MaxQueueSize => Step(i, k) = i + k - MaxQueueSize
         /\ Step(i, k) \in Index
BY PoolAssumption DEF Step, Index

\* Steps add up, as long as they do not go round the ring.
LEMMA StepSum ==
  ASSUME NEW i \in Index \cup {-1}, NEW k \in Nat, 0 < k, k < MaxQueueSize
  PROVE  Step(Step(i, k), 1) = Step(i, k + 1)
<1> DEFINE j == Step(i, k)
<1>1. /\ j \in Index
      /\ i + k < MaxQueueSize => j = i + k
      /\ i + k >= MaxQueueSize => j = i + k - MaxQueueSize
  BY StepValue, PoolAssumption
<1>2. /\ j + 1 < MaxQueueSize => Step(j, 1) = j + 1
      /\ j + 1 >= MaxQueueSize => Step(j, 1) = j + 1 - MaxQueueSize
  BY <1>1, StepValue, PoolAssumption
<1>3. /\ i + k + 1 < MaxQueueSize => Step(i, k + 1) = i + k + 1
      /\ i + k + 1 >= MaxQueueSize => Step(i, k + 1) = i + k + 1 - MaxQueueSize
  <2> DEFINE l == k + 1
  <2>1. l \in Nat /\ 0 < l /\ l <= MaxQueueSize /\ i + k + 1 = i + l
    BY PoolAssumption DEF Index
  <2> HIDE DEF l
  <2>2. /\ i + l < MaxQueueSize => Step(i, l) = i + l
        /\ i + l >= MaxQueueSize => Step(i, l) = i + l - MaxQueueSize
    BY <2>1, StepValue
  <2>3. /\ i + k + 1 < MaxQueueSize => Step(i, l) = i + k + 1
        /\ i + k + 1 >= MaxQueueSize => Step(i, l) = i + k + 1 - MaxQueueSize
    BY <2>1, <2>2, PoolAssumption DEF Index
  <2> QED
    BY <2>3 DEF l
<1> HIDE DEF j
<1>4. Step(j, 1) = Step(i, k + 1)
  BY <1>1, <1>2, <1>3, PoolAssumption DEF Index
<1> QED
  BY <1>4 DEF j

\* A full ring would have a whole batch in it.
LEMMA RoomLeft == RingInv => NeverFull
<1> SUFFICES ASSUME RingInv PROVE wind # rind
  BY DEF NeverFull
<1> QED
  BY StepValue, PoolAssumption DEF RingInv, Index

\* The ring is empty at first: wind is one slot after rind.
LEMMA InitRing == Init => RingInv
<1> SUFFICES ASSUME Init PROVE RingInv
  OBVIOUS
<1>1. wind = 0 /\ rind = -1 /\ nums = 0
  BY DEF Init
<1>2. Step(-1, 1) = 0
  BY StepValue, PoolAssumption
<1> QED
  BY <1>1, <1>2, PoolAssumption DEF RingInv, Index

\* Every step keeps the ring in order.
LEMMA NextRing == RingInv /\ [Next]_vars => RingInv'
<1> SUFFICES ASSUME RingInv, [Next]_vars PROVE RingInv'
  OBVIOUS
<1>1. CASE runQueue
  <2>1. wind # rind
    BY RoomLeft DEF NeverFull
  <2>2. wind' = Step(wind, 1) /\ wind' = Step(rind, nums + 2) /\ wind' \in Index
    <3>1. wind' = Step(wind, 1)
      BY <1>1, <2>1 DEF runQueue
    <3>2. Step(Step(rind, nums + 1), 1) = Step(rind, nums + 1 + 1)
      BY StepSum, PoolAssumption DEF RingInv
    <3>3. Step(wind, 1) \in Index
      BY StepValue, PoolAssumption DEF RingInv
    <3> QED
      BY <3>1, <3>2, <3>3 DEF RingInv
  <2>3. CASE Ready(nums + 1)
    <3>1. nums + 1 = BatchSize
      BY <2>3, PoolAssumption DEF Ready, RingInv
    <3>2. rind' = Step(rind, BatchSize) /\ nums' = 0
      BY <1>1, <2>1, <2>3, <3>1, PoolAssumption DEF runQueue, RingInv
    <3>3. rind' \in Index
      BY <3>2, StepValue, PoolAssumption DEF RingInv
    <3>4. wind' = Step(rind', 1)
      BY <2>2, <3>1, <3>2 DEF RingInv
    <3> QED
      BY <2>2, <3>2, <3>3, <3>4, PoolAssumption DEF RingInv
  <2>4. CASE ~Ready(nums + 1)
    <3>1. nums' = nums + 1 /\ rind' = rind
      BY <1>1, <2>1, <2>4 DEF runQueue
    <3> QED
      BY <2>2, <2>4, <3>1, PoolAssumption DEF RingInv, Ready
  <2> QED
    BY <2>3, <2>4
<1>2. CASE UNCHANGED <<wind, rind, nums>>
  BY <1>2 DEF RingInv
<1>3. CASE makeTx \/ sendBatch \/ \E g \in Getter : checkLen(g) \/ receive(g)
  BY <1>2, <1>3 DEF makeTx, sendBatch, checkLen, receive
<1>4. CASE UNCHANGED vars
  BY <1>2, <1>4 DEF vars
<1> QED
  BY <1>1, <1>3, <1>4 DEF Next

\* run never finds the ring full, so no transaction is dropped there, for
\* every ring and every batch smaller than it.
THEOREM RingNeverFull == Spec => []NeverFull
<1>1. Spec => []RingInv
  BY InitRing, NextRing, PTL DEF Spec
<1> QED
  BY <1>1, RoomLeft, PTL
-----------------------------------------------------------------------------
\* The numbers of the transactions, without the remainder.
LEMMA NumberValue ==
  ASSUME NEW n \in Nat, n < 2 * Wrap
  PROVE  /\ n % Wrap = IF n < Wrap THEN n ELSE n - Wrap
         /\ n % Wrap \in Tx
BY PoolAssumption DEF Tx

\* Moving the origin of the numbers moves them all.
LEMMA NumberShift ==
  ASSUME NEW t \in Tx, NEW k \in Nat, NEW o \in Nat, k + o < Wrap
  PROVE  (((t + k) % Wrap) + o) % Wrap = (t + k + o) % Wrap
<1> DEFINE u == (t + k) % Wrap
<1>1. t \in Nat /\ t < Wrap /\ Wrap \in Nat
  BY PoolAssumption DEF Tx
<1>2. u = (IF t + k < Wrap THEN t + k ELSE t + k - Wrap) /\ u \in Tx
  BY <1>1, NumberValue
<1> HIDE DEF u
<1>3. u \in Nat /\ u < Wrap
  BY <1>1, <1>2 DEF Tx
<1>4. (u + o) % Wrap = IF u + o < Wrap THEN u + o ELSE u + o - Wrap
  BY <1>1, <1>3, NumberValue
<1>5. (t + k + o) % Wrap = IF t + k + o < Wrap THEN t + k + o ELSE t + k + o - Wrap
  BY <1>1, NumberValue
<1>6. (u + o) % Wrap = (t + k + o) % Wrap
  BY <1>1, <1>2, <1>3, <1>4, <1>5
<1> QED
  BY <1>6 DEF u

\* The transactions in b batches, without the product.
LEMMA InValue ==
  ASSUME NEW b \in Nat
  PROVE  /\ In(b) \in Nat
         /\ In(0) = 0
         /\ In(b + 1) = In(b) + BatchSize
         /\ b <= BatchCap => In(b) + BatchSize + TxCap + MaxQueueSize < Wrap
<1>1. BatchSize \in Nat /\ BatchCap \in Nat
  BY PoolAssumption
<1>2. In(b) \in Nat /\ In(0) = 0 /\ In(b + 1) = In(b) + BatchSize
  BY <1>1 DEF In
<1>3. ASSUME b <= BatchCap PROVE BatchSize * b <= BatchSize * BatchCap
  <2>1. PICK d \in Nat : BatchCap = b + d
    BY <1>1, <1>3
  <2>2. BatchSize * (b + d) = BatchSize * b + BatchSize * d
    BY <1>1
  <2>3. BatchSize * d \in Nat /\ BatchSize * b \in Nat
    BY <1>1
  <2> QED
    BY <2>1, <2>2, <2>3
<1>4. (BatchCap + 1) * BatchSize = BatchSize * BatchCap + BatchSize
  BY <1>1
<1>5. BatchSize * BatchCap \in Nat
  BY <1>1
<1> QED
  BY <1>2, <1>3, <1>4, <1>5, PoolAssumption DEF In

\* Numbered sequences: the empty one.
LEMMA NumberedEmpty == \A n : Numbered(<<>>, n)
BY DEF Numbered

\* One transaction more at the end.
LEMMA NumberedAppend ==
  ASSUME NEW s \in Seq(Tx), NEW n \in Nat, Numbered(s, n),
         (n + Len(s)) % Wrap \in Tx
  PROVE  Numbered(Append(s, (n + Len(s)) % Wrap), n)
<1> DEFINE e == (n + Len(s)) % Wrap
           t == Append(s, e)
<1>1. Len(s) \in Nat /\ e \in Tx
  OBVIOUS
<1>2. /\ Len(t) = Len(s) + 1
      /\ \A i \in 1..Len(s) : t[i] = s[i]
      /\ t[Len(s) + 1] = e
  BY <1>1, AppendProperties
<1>3. ASSUME NEW i \in 1..Len(t) PROVE t[i] = (n + i - 1) % Wrap
  <2>1. CASE i \in 1..Len(s)
    BY <1>2, <2>1 DEF Numbered
  <2>2. CASE i = Len(s) + 1
    <3>1. n + i - 1 = n + Len(s)
      BY <1>1, <2>2
    <3> QED
      BY <1>2, <2>2, <3>1
  <2> QED
    BY <1>1, <1>2, <2>1, <2>2
<1> QED
  BY <1>3 DEF Numbered

\* The first one taken.
LEMMA NumberedTail ==
  ASSUME NEW s \in Seq(Tx), s # <<>>, NEW n \in Nat, Numbered(s, n)
  PROVE  Head(s) = n % Wrap /\ Numbered(Tail(s), n + 1)
<1>1. /\ Len(s) \in Nat /\ Len(s) > 0 /\ Head(s) = s[1]
      /\ Len(Tail(s)) = Len(s) - 1
      /\ \A i \in 1..Len(Tail(s)) : Tail(s)[i] = s[i + 1]
  BY HeadTailProperties
<1>2. Head(s) = n % Wrap
  <2>1. s[1] = (n + 1 - 1) % Wrap /\ n + 1 - 1 = n
    BY <1>1 DEF Numbered
  <2> QED
    BY <1>1, <2>1
<1>3. ASSUME NEW i \in 1..Len(Tail(s)) PROVE Tail(s)[i] = (n + 1 + i - 1) % Wrap
  <2>1. i + 1 \in 1..Len(s) /\ n + (i + 1) - 1 = n + 1 + i - 1
    BY <1>1
  <2>2. s[i + 1] = (n + (i + 1) - 1) % Wrap
    BY <2>1 DEF Numbered
  <2> QED
    BY <1>1, <2>1, <2>2
<1> QED
  BY <1>2, <1>3 DEF Numbered

\* The origin moved to t + k, back into the numbers below Wrap.
LEMMA NumberedShift ==
  ASSUME NEW s, Len(s) \in Nat, NEW t \in Tx, NEW k \in Nat, NEW o \in Nat,
         k + o + Len(s) < Wrap, Numbered(s, t + k + o)
  PROVE  Numbered(s, ((t + k) % Wrap) + o)
<1> DEFINE u == (t + k) % Wrap
<1>1. t \in Nat /\ t < Wrap /\ Wrap \in Nat
  BY PoolAssumption DEF Tx
<1>2. u \in Nat
  BY <1>1, NumberValue DEF Tx
<1>3. ASSUME NEW i \in 1..Len(s) PROVE s[i] = (u + o + i - 1) % Wrap
  <2> DEFINE p == o + i - 1
  <2>1. p \in Nat /\ k + p < Wrap
    BY <1>1
  <2>2. (u + p) % Wrap = (t + k + p) % Wrap
    BY <2>1, NumberShift
  <2>3. t + k + p = t + k + o + i - 1 /\ u + p = u + o + i - 1
    BY <1>1, <1>2
  <2>4. s[i] = (t + k + o + i - 1) % Wrap
    BY DEF Numbered
  <2> QED
    BY <2>2, <2>3, <2>4
<1> QED
  BY <1>3 DEF Numbered

\* Slots of the ring that are no round apart are different.
LEMMA Slots ==
  ASSUME NEW r \in Index \cup {-1},
         NEW i \in 1..MaxQueueSize, NEW j \in 1..MaxQueueSize, i # j
  PROVE  Step(r, i) \in Index /\ Step(r, i) # Step(r, j)
<1>1. /\ r + i < MaxQueueSize => Step(r, i) = r + i
      /\ r + i >= MaxQueueSize => Step(r, i) = r + i - MaxQueueSize
      /\ Step(r, i) \in Index
  BY StepValue, PoolAssumption
<1>2. /\ r + j < MaxQueueSize => Step(r, j) = r + j
      /\ r + j >= MaxQueueSize => Step(r, j) = r + j - MaxQueueSize
  BY StepValue, PoolAssumption
<1> QED
  BY <1>1, <1>2, PoolAssumption DEF Index
-----------------------------------------------------------------------------
\* The transactions in the n slots after r: the ring's contents, and a batch.
Cut(q, r, n) == [i \in 1..n |-> q[Step(r, i)]]

\* It is a sequence of n transactions.
LEMMA CutSeq ==
  ASSUME NEW q \in [Index -> Tx], NEW r \in Index \cup {-1},
         NEW n \in Nat, n <= MaxQueueSize
  PROVE  /\ Cut(q, r, n) \in Seq(Tx)
         /\ Len(Cut(q, r, n)) = n
         /\ \A i \in 1..n : Cut(q, r, n)[i] = q[Step(r, i)]
<1> DEFINE s == [i \in 1..n |-> q[Step(r, i)]]
<1>1. ASSUME NEW i \in 1..n PROVE Step(r, i) \in Index
  BY StepValue, PoolAssumption
<1>2. s \in [1..n -> Tx]
  BY <1>1
<1>3. s \in Seq(Tx)
  BY <1>2, SeqDef
<1>4. Len(s) = n
  BY <1>2, <1>3, LenProperties
<1> QED
  BY <1>3, <1>4 DEF Cut

\* A getter waits only while the channel is empty, so a batch handed to it
\* overtakes none.
HandOver == waiting # <<>> => batchChannel = <<>>

\* The pool starts empty, with nobody waiting.
LEMMA InitTypes == Init => TypeOK /\ HandOver
<1> SUFFICES ASSUME Init PROVE TypeOK /\ HandOver
  OBVIOUS
<1>1. 0 \in Tx /\ 0 \in Index
  BY PoolAssumption DEF Tx, Index
<1> QED
  BY <1>1, PoolAssumption DEF Init, TypeOK, HandOver

\* Every step keeps the types.
LEMMA NextTypes ==
  TypeOK /\ HandOver /\ RingInv /\ RingInv' /\ [Next]_vars => TypeOK' /\ HandOver'
<1> SUFFICES ASSUME TypeOK, HandOver, RingInv, RingInv', [Next]_vars
             PROVE  TypeOK' /\ HandOver'
  OBVIOUS
<1>0. /\ wind' \in Index /\ rind' \in Index \cup {-1} /\ nums' \in 0..MaxQueueSize
      /\ BatchSize \in Nat /\ Wrap \in Nat /\ BatchSize < Wrap /\ TxCap \in Nat /\ BatchCap \in Nat
  <2>1. In(0) + BatchSize + TxCap + MaxQueueSize < Wrap /\ In(0) = 0
    BY InValue, PoolAssumption
  <2> QED
    BY <2>1, PoolAssumption DEF RingInv
<1>1. CASE makeTx
  <2>1. (made + 1) % Wrap \in Tx
    BY <1>0, NumberValue DEF TypeOK, Tx
  <2>2. txChannel' \in Seq(Tx) /\ Len(txChannel') <= TxCap
    BY <1>0, <1>1, AppendProperties DEF makeTx, TypeOK
  <2> QED
    BY <1>0, <1>1, <2>1, <2>2 DEF makeTx, TypeOK, HandOver
<1>2. CASE runQueue
  <2> DEFINE q == [queue EXCEPT ![wind] = Head(txChannel)]
  <2>1. wind # rind
    BY RoomLeft DEF NeverFull
  <2>2. txChannel' \in Seq(Tx) /\ Len(txChannel') <= TxCap /\ Head(txChannel) \in Tx
    BY <1>0, <1>2, HeadTailProperties DEF runQueue, TypeOK
  <2>3. q \in [Index -> Tx]
    BY <2>2 DEF TypeOK
  <2> HIDE DEF q
  <2>4. Batch(q, rind) \in Seq(Tx)
    <3>1. Batch(q, rind) = Cut(q, rind, BatchSize)
      BY DEF Batch, Cut
    <3>2. rind \in Index \cup {-1} /\ BatchSize \in Nat /\ BatchSize <= MaxQueueSize
      BY PoolAssumption DEF RingInv
    <3>3. Cut(q, rind, BatchSize) \in Seq(Tx)
      BY ONLY <2>3, <3>2, CutSeq
    <3> QED
      BY <3>1, <3>3
  <2>5. queue' = q /\ (sending' = Batch(q, rind) \/ sending' = sending)
    BY <1>2, <2>1 DEF runQueue, q
  <2>6. UNCHANGED <<made, batchChannel, pc, waiting, taken>>
    BY <1>2 DEF runQueue
  <2> QED
    BY <1>0, <2>2, <2>3, <2>4, <2>5, <2>6 DEF TypeOK, HandOver
<1>3. ASSUME NEW g \in Getter, Deliver(g)
      PROVE  pc' \in [Getter -> {"idle", "receive", "wait"}] /\ taken' \in Tx
  BY <1>0, <1>3, NumberValue DEF Deliver, TypeOK, Tx
<1>4. CASE sendBatch
  <2>1. UNCHANGED <<made, txChannel, queue, wind, rind, nums>> /\ sending' = <<>>
    BY <1>4 DEF sendBatch
  <2>2. CASE waiting # <<>>
    <3>1. waiting' = Tail(waiting) /\ Deliver(Head(waiting)) /\ UNCHANGED batchChannel
      BY <1>4, <2>2 DEF sendBatch
    <3>2. Head(waiting) \in Getter /\ Tail(waiting) \in Seq(Getter)
      BY <2>2, HeadTailProperties DEF TypeOK
    <3> QED
      BY <1>0, <1>3, <2>1, <2>2, <3>1, <3>2 DEF TypeOK, HandOver
  <2>3. CASE waiting = <<>>
    <3>1. /\ batchChannel' = Append(batchChannel, sending) /\ UNCHANGED <<pc, waiting, taken>>
          /\ Len(batchChannel) < BatchCap
      BY <1>4, <2>3 DEF sendBatch
    <3>2. batchChannel' \in Seq(Seq(Tx)) /\ Len(batchChannel') <= BatchCap
      BY <1>0, <3>1, AppendProperties DEF TypeOK
    <3> QED
      BY <1>0, <2>1, <2>3, <3>1, <3>2 DEF TypeOK, HandOver
  <2> QED
    BY <2>2, <2>3
<1>5. ASSUME NEW g \in Getter, checkLen(g) PROVE TypeOK' /\ HandOver'
  BY <1>0, <1>5 DEF checkLen, TypeOK, HandOver
<1>6. ASSUME NEW g \in Getter, receive(g) PROVE TypeOK' /\ HandOver'
  <2>1. UNCHANGED <<made, txChannel, queue, wind, rind, nums, sending>>
    BY <1>6 DEF receive
  <2>2. CASE batchChannel # <<>>
    <3>1. batchChannel' = Tail(batchChannel) /\ Deliver(g) /\ UNCHANGED waiting
      BY <1>6, <2>2 DEF receive
    <3>2. batchChannel' \in Seq(Seq(Tx)) /\ Len(batchChannel') <= BatchCap
      BY <1>0, <2>2, <3>1, HeadTailProperties DEF TypeOK
    <3> QED
      BY <1>0, <1>3, <2>1, <2>2, <3>1, <3>2 DEF TypeOK, HandOver
  <2>3. CASE batchChannel = <<>>
    <3>1. /\ waiting' = Append(waiting, g) /\ UNCHANGED <<batchChannel, taken>>
          /\ pc' = [pc EXCEPT ![g] = "wait"]
      BY <1>6, <2>3 DEF receive
    <3> QED
      BY <1>0, <2>1, <2>3, <3>1, AppendProperties DEF TypeOK, HandOver
  <2> QED
    BY <2>2, <2>3
<1>7. CASE UNCHANGED vars
  BY <1>0, <1>7 DEF vars, TypeOK, HandOver
<1> QED
  BY <1>1, <1>2, <1>4, <1>5, <1>6, <1>7 DEF Next

\* The offsets of Stream stay below Wrap, so that no two transactions in the
\* pool have one number.
LEMMA Sizes ==
  ASSUME TypeOK, RingInv, Stream
  PROVE  /\ Len(batchChannel) \in Nat /\ In(Len(batchChannel)) \in Nat
         /\ Len(sending) \in Nat /\ Len(txChannel) \in Nat /\ nums \in Nat
         /\ taken \in Nat /\ taken < Wrap /\ Wrap \in Nat /\ BatchSize \in Nat
         /\ In(Len(batchChannel)) + Len(sending) + nums + Len(txChannel) + 1 < Wrap
         /\ In(Len(batchChannel)) + BatchSize + nums + Len(txChannel) < Wrap
         /\ Ring = Cut(queue, rind, nums) /\ Ring \in Seq(Tx) /\ Len(Ring) = nums
<1>1. Len(batchChannel) \in Nat /\ Len(batchChannel) <= BatchCap
  BY DEF TypeOK
<1>2. /\ In(Len(batchChannel)) \in Nat
      /\ In(Len(batchChannel)) + BatchSize + TxCap + MaxQueueSize < Wrap
  BY <1>1, InValue
<1>3. /\ Len(sending) \in Nat /\ Len(sending) <= BatchSize
      /\ Len(txChannel) \in Nat /\ Len(txChannel) <= TxCap
      /\ nums \in Nat /\ nums < BatchSize
      /\ taken \in Nat /\ taken < Wrap
  BY PoolAssumption DEF TypeOK, RingInv, Stream, Tx
<1>4. Ring = Cut(queue, rind, nums)
  BY DEF Ring, Cut
<1>5. queue \in [Index -> Tx] /\ rind \in Index \cup {-1} /\ nums <= MaxQueueSize
  BY <1>3, PoolAssumption DEF TypeOK
<1>6. Cut(queue, rind, nums) \in Seq(Tx) /\ Len(Cut(queue, rind, nums)) = nums
  BY ONLY <1>3, <1>5, CutSeq
<1>7. Wrap \in Nat /\ BatchSize \in Nat /\ TxCap \in Nat /\ MaxQueueSize \in Nat
      /\ BatchSize < MaxQueueSize
  BY PoolAssumption
<1>8. /\ In(Len(batchChannel)) + Len(sending) + nums + Len(txChannel) + 1 < Wrap
      /\ In(Len(batchChannel)) + BatchSize + nums + Len(txChannel) < Wrap
  <2> DEFINE m == In(Len(batchChannel))
             s == Len(sending)
             t == Len(txChannel)
  <2>1. /\ m \in Nat /\ m + BatchSize + TxCap + MaxQueueSize < Wrap
        /\ s \in Nat /\ s <= BatchSize /\ t \in Nat /\ t <= TxCap
    BY <1>2, <1>3
  <2> HIDE DEF m, s, t
  <2>2. m + s + nums + t + 1 < Wrap /\ m + BatchSize + nums + t < Wrap
    BY <1>3, <1>7, <2>1
  <2> QED
    BY <2>2 DEF m, s, t
<1> QED
  BY <1>1, <1>2, <1>3, <1>4, <1>6, <1>7, <1>8

\* A transaction is made: it is the next number, at the end of txChannel.
LEMMA makeTxStream ==
  ASSUME TypeOK, RingInv, Stream, makeTx PROVE Stream'
<1> DEFINE n == taken + In(Len(batchChannel)) + Len(sending) + nums
<1>0. /\ In(Len(batchChannel)) \in Nat /\ Len(sending) \in Nat
      /\ Len(txChannel) \in Nat /\ nums \in Nat
      /\ taken \in Nat /\ taken < Wrap /\ Wrap \in Nat
      /\ In(Len(batchChannel)) + Len(sending) + nums + Len(txChannel) + 1 < Wrap
  BY Sizes
<1>1. n \in Nat /\ n + Len(txChannel) < 2 * Wrap
  BY <1>0
<1>2. made = (n + Len(txChannel)) % Wrap /\ Numbered(txChannel, n) /\ made \in Tx
  BY DEF Stream, TypeOK
<1>3. txChannel \in Seq(Tx) /\ txChannel' = Append(txChannel, made)
  BY DEF TypeOK, makeTx
<1>8. Len(txChannel') = Len(txChannel) + 1
  BY <1>2, <1>3, AppendProperties
<1>4. Numbered(txChannel', n)
  BY ONLY <1>1, <1>2, <1>3, NumberedAppend
<1>5. made' = (n + Len(txChannel')) % Wrap
  <2> DEFINE b == In(Len(batchChannel))
             c == Len(sending)
             e == Len(txChannel)
             k == b + c + nums + e
  <2>1. /\ b \in Nat /\ c \in Nat /\ e \in Nat /\ nums \in Nat /\ taken \in Nat
        /\ b + c + nums + e + 1 < Wrap /\ Wrap \in Nat
    BY <1>0
  <2>2. made = (taken + b + c + nums + e) % Wrap /\ made' = (made + 1) % Wrap
    BY <1>2 DEF makeTx
  <2>3. n + Len(txChannel') = taken + b + c + nums + (e + 1)
    BY <1>8
  <2> HIDE DEF b, c, e
  <2>4. /\ taken + b + c + nums + (e + 1) = taken + k + 1
        /\ taken + b + c + nums + e = taken + k
        /\ k \in Nat /\ k + 1 < Wrap
    BY <2>1
  <2> HIDE DEF k
  <2>5. taken \in Tx
    BY DEF TypeOK
  <2>6. (((taken + k) % Wrap) + 1) % Wrap = (taken + k + 1) % Wrap
    BY ONLY <2>4, <2>5, NumberShift
  <2> QED
    BY <2>2, <2>3, <2>4, <2>6
<1>6. UNCHANGED <<queue, rind, nums, sending, batchChannel, taken>>
  BY DEF makeTx
<1>7. Ring' = Ring
  BY <1>6 DEF Ring
<1> QED
  BY <1>4, <1>5, <1>6, <1>7 DEF Stream

\* A transaction enters the ring, behind the others; a full ring becomes the
\* batch to send.
LEMMA runQueueStream ==
  ASSUME TypeOK, RingInv, Stream, runQueue PROVE Stream'
<1> DEFINE q == [queue EXCEPT ![wind] = Head(txChannel)]
           c == taken + In(Len(batchChannel))
<1>1. /\ sending = <<>> /\ txChannel # <<>> /\ txChannel' = Tail(txChannel)
      /\ UNCHANGED <<made, batchChannel, taken>>
  BY DEF runQueue
<1>2. wind # rind
  BY RoomLeft DEF NeverFull
<1>3. /\ c \in Nat /\ nums \in Nat /\ nums < BatchSize /\ BatchSize < MaxQueueSize
      /\ nums + 1 <= MaxQueueSize /\ rind \in Index \cup {-1}
      /\ BatchSize \in Nat /\ MaxQueueSize \in Nat
  BY Sizes, PoolAssumption DEF RingInv
<1>4. txChannel \in Seq(Tx) /\ queue \in [Index -> Tx] /\ wind \in Index
  BY DEF TypeOK
<1>5. /\ Numbered(Ring, c) /\ Numbered(txChannel, c + nums)
      /\ made = (c + nums + Len(txChannel)) % Wrap
  <2>1. Len(sending) = 0 /\ c + Len(sending) = c
    BY <1>1, <1>3
  <2> QED
    BY <2>1 DEF Stream
<1>6. Head(txChannel) = (c + nums) % Wrap /\ Numbered(Tail(txChannel), c + nums + 1)
  <2>1. c + nums \in Nat
    BY <1>3
  <2> QED
    BY <1>1, <1>4, <1>5, <2>1, NumberedTail
<1>7. /\ Len(txChannel') = Len(txChannel) - 1 /\ Head(txChannel) \in Tx
      /\ Len(txChannel) \in Nat
  BY <1>1, <1>4, HeadTailProperties
<1>8. q \in [Index -> Tx] /\ q[wind] = Head(txChannel)
      /\ \A j \in Index : j # wind => q[j] = queue[j]
  BY <1>4, <1>7
<1>9. wind = Step(rind, nums + 1)
  BY DEF RingInv
<1> HIDE DEF q, c
<1>10. Numbered(Cut(q, rind, nums + 1), c)
  <2>1. /\ Cut(q, rind, nums + 1) \in Seq(Tx)
        /\ Len(Cut(q, rind, nums + 1)) = nums + 1
        /\ \A i \in 1..(nums + 1) : Cut(q, rind, nums + 1)[i] = q[Step(rind, i)]
    <3>1. nums + 1 \in Nat
      BY <1>3
    <3> QED
      BY ONLY <1>3, <1>8, <3>1, CutSeq
  <2>2. ASSUME NEW i \in 1..(nums + 1) PROVE q[Step(rind, i)] = (c + i - 1) % Wrap
    <3>1. CASE i = nums + 1
      <4>1. c + i - 1 = c + nums
        BY <1>3, <3>1
      <4> QED
        BY <1>6, <1>8, <1>9, <3>1, <4>1
    <3>2. CASE i # nums + 1
      <4>1. i \in 1..nums /\ i \in 1..MaxQueueSize /\ nums + 1 \in 1..MaxQueueSize
        BY <1>3, <3>2
      <4>2. Step(rind, i) \in Index /\ Step(rind, i) # wind
        BY <1>3, <1>9, <3>2, <4>1, Slots
      <4>3. Ring[i] = (c + i - 1) % Wrap
        BY <1>5, <4>1, Sizes DEF Numbered
      <4>4. Ring[i] = queue[Step(rind, i)]
        BY <4>1 DEF Ring
      <4> QED
        BY <1>8, <4>2, <4>3, <4>4
    <3> QED
      BY <3>1, <3>2
  <2> QED
    BY <2>1, <2>2 DEF Numbered
<1>11. queue' = q
  BY <1>2 DEF runQueue, q
<1>12. CASE Ready(nums + 1)
  <2>1. nums + 1 = BatchSize
    BY <1>3, <1>12 DEF Ready
  <2>2. sending' = Batch(q, rind) /\ nums' = nums + 1 - BatchSize
    BY <1>2, <1>12 DEF runQueue, q
  <2>3. sending' = Cut(q, rind, nums + 1) /\ nums' = 0
    BY <1>3, <2>1, <2>2 DEF Batch, Cut
  <2>4. Len(sending') = BatchSize
    BY <1>3, <1>8, <2>1, <2>3, CutSeq
  <2>5. Ring' = <<>>
    BY <2>3 DEF Ring
  <2>6. /\ c' = c /\ c' + Len(sending') + nums' = c + nums + 1
        /\ c' + Len(sending') + nums' + Len(txChannel') = c + nums + Len(txChannel)
    BY <1>1, <1>3, <1>7, <2>1, <2>3, <2>4 DEF c
  <2>7. Numbered(Ring', c' + Len(sending'))
    BY <2>5, NumberedEmpty
  <2>8. Numbered(sending', c')
    BY <1>10, <2>3, <2>6
  <2>9. Numbered(txChannel', c' + Len(sending') + nums')
    BY <1>1, <1>6, <2>6
  <2> QED
    BY <1>1, <1>5, <2>4, <2>6, <2>7, <2>8, <2>9 DEF Stream, c
<1>13. CASE ~Ready(nums + 1)
  <2>1. nums' = nums + 1 /\ rind' = rind /\ sending' = sending
    BY <1>2, <1>13 DEF runQueue
  <2>2. Ring' = Cut(q, rind, nums + 1)
    BY <1>11, <2>1 DEF Ring, Cut
  <2>3. Len(sending') = 0 /\ c' = c /\ c' + Len(sending') = c
        /\ c' + Len(sending') + nums' = c + nums + 1
        /\ c' + Len(sending') + nums' + Len(txChannel') = c + nums + Len(txChannel)
    BY <1>1, <1>3, <1>7, <2>1 DEF c
  <2>4. Numbered(Ring', c' + Len(sending'))
    BY <1>10, <2>2, <2>3
  <2>5. Numbered(txChannel', c' + Len(sending') + nums')
    BY <1>1, <1>6, <2>3
  <2>6. Numbered(sending', c')
    BY <1>1, <2>1, NumberedEmpty
  <2> QED
    BY <1>1, <1>5, <2>1, <2>3, <2>4, <2>5, <2>6 DEF Stream, c
<1> QED
  BY <1>12, <1>13

\* A batch moves on: to a getter that waits, when nothing is before it, or to
\* the end of the channel.
LEMMA sendBatchStream ==
  ASSUME TypeOK, HandOver, RingInv, Stream, sendBatch PROVE Stream'
<1> DEFINE m == In(Len(batchChannel))
           c == taken + m
<1>0. /\ m \in Nat /\ nums \in Nat /\ Len(txChannel) \in Nat /\ Len(batchChannel) \in Nat
      /\ taken \in Nat /\ Wrap \in Nat /\ BatchSize \in Nat
      /\ m + BatchSize + nums + Len(txChannel) < Wrap
      /\ Ring \in Seq(Tx) /\ Len(Ring) = nums
  BY Sizes
<1>1. sending # <<>> /\ sending' = <<>> /\ UNCHANGED <<made, txChannel, queue, rind, nums>>
  BY DEF sendBatch
<1>2. Len(sending) = BatchSize
  <2>1. Len(sending) # 0
    BY <1>1, EmptySeq DEF TypeOK
  <2> QED
    BY <2>1 DEF Stream
<1>3. /\ Numbered(sending, c) /\ Numbered(Ring, c + BatchSize)
      /\ Numbered(txChannel, c + BatchSize + nums)
      /\ made = (c + BatchSize + nums + Len(txChannel)) % Wrap
  BY <1>2 DEF Stream
<1>4. Ring' = Ring /\ Len(sending') = 0 /\ Numbered(sending', c')
  BY <1>1, NumberedEmpty DEF Ring
<1>5. CASE waiting # <<>>
  <2>1. batchChannel = <<>> /\ batchChannel' = batchChannel /\ taken' = (taken + BatchSize) % Wrap
    BY <1>5 DEF HandOver, sendBatch, Deliver
  <2>2. m = 0 /\ m' = 0 /\ c = taken
    <3>1. Len(batchChannel) = 0 /\ In(0) = 0
      BY <2>1, InValue
    <3> QED
      BY <1>0, <2>1, <3>1
  <2>3. taken' \in Nat /\ taken \in Tx
    BY <1>0, <2>1, NumberValue DEF TypeOK, Tx
  <2>4. /\ Numbered(Ring, taken + BatchSize + 0)
        /\ Numbered(txChannel, taken + BatchSize + nums)
        /\ made = (taken + BatchSize + (nums + Len(txChannel))) % Wrap
    BY <1>0, <1>3, <2>2
  <2>5. /\ BatchSize + 0 + Len(Ring) < Wrap
        /\ BatchSize + nums + Len(txChannel) < Wrap
        /\ BatchSize + (nums + Len(txChannel)) < Wrap
        /\ Len(Ring) \in Nat /\ nums + Len(txChannel) \in Nat
    BY <1>0, <2>2
  <2>6. Numbered(Ring, taken' + 0) /\ Numbered(txChannel, taken' + nums)
    <3>1. Numbered(Ring, ((taken + BatchSize) % Wrap) + 0)
      BY ONLY <1>0, <2>3, <2>4, <2>5, NumberedShift
    <3>2. Numbered(txChannel, ((taken + BatchSize) % Wrap) + nums)
      BY ONLY <1>0, <2>3, <2>4, <2>5, NumberedShift
    <3> QED
      BY <2>1, <3>1, <3>2
  <2>7. made = (taken' + (nums + Len(txChannel))) % Wrap
    <3>1. (((taken + BatchSize) % Wrap) + (nums + Len(txChannel))) % Wrap
             = (taken + BatchSize + (nums + Len(txChannel))) % Wrap
      BY ONLY <1>0, <2>3, <2>5, NumberShift
    <3> QED
      BY <2>1, <2>4, <3>1
  <2>8. /\ taken' + m' + Len(sending') = taken' + 0
        /\ taken' + m' + Len(sending') + nums' = taken' + nums
        /\ taken' + m' + Len(sending') + nums' + Len(txChannel') = taken' + (nums + Len(txChannel))
    BY <1>0, <1>1, <1>4, <2>2, <2>3
  <2>9. 1..Len(batchChannel') = {}
    BY <2>1
  <2> QED
    BY <1>1, <1>4, <2>6, <2>7, <2>8, <2>9 DEF Stream
<1>6. CASE waiting = <<>>
  <2>1. batchChannel' = Append(batchChannel, sending) /\ taken' = taken
    BY <1>6 DEF sendBatch
  <2>2. /\ Len(batchChannel') = Len(batchChannel) + 1
        /\ \A b \in 1..Len(batchChannel) : batchChannel'[b] = batchChannel[b]
        /\ batchChannel'[Len(batchChannel) + 1] = sending
    BY <2>1, AppendProperties DEF TypeOK
  <2>3. m' = m + BatchSize /\ c' = c + BatchSize
    BY <1>0, <2>1, <2>2, InValue
  <2>4. ASSUME NEW b \in 1..Len(batchChannel')
        PROVE  /\ Len(batchChannel'[b]) = BatchSize
               /\ Numbered(batchChannel'[b], taken' + In(b - 1))
    <3>1. CASE b \in 1..Len(batchChannel)
      BY <2>1, <2>2, <3>1 DEF Stream
    <3>2. CASE b = Len(batchChannel) + 1
      <4>1. b - 1 = Len(batchChannel)
        BY <1>0, <3>2
      <4> QED
        BY <1>2, <1>3, <2>1, <2>2, <3>2, <4>1
    <3> QED
      BY <1>0, <2>2, <3>1, <3>2
  <2>5. /\ c' + Len(sending') = c + BatchSize
        /\ c' + Len(sending') + nums' = c + BatchSize + nums
        /\ c' + Len(sending') + nums' + Len(txChannel') = c + BatchSize + nums + Len(txChannel)
    BY <1>0, <1>1, <1>4, <2>3
  <2> QED
    BY <1>1, <1>3, <1>4, <2>4, <2>5 DEF Stream
<1> QED
  BY <1>5, <1>6

\* A getter takes the oldest batch, and the others move up.
LEMMA receiveStream ==
  ASSUME TypeOK, RingInv, Stream, NEW g \in Getter, receive(g) PROVE Stream'
<1> DEFINE m == In(Len(batchChannel))
           l == Len(batchChannel)
<1>0. /\ m \in Nat /\ nums \in Nat /\ Len(txChannel) \in Nat /\ l \in Nat
      /\ Len(sending) \in Nat /\ taken \in Nat /\ Wrap \in Nat /\ BatchSize \in Nat
      /\ m + Len(sending) + nums + Len(txChannel) + 1 < Wrap
      /\ Ring \in Seq(Tx) /\ Len(Ring) = nums
  BY Sizes
<1>9. /\ TxCap \in Nat /\ MaxQueueSize \in Nat /\ BatchSize < MaxQueueSize
      /\ l <= BatchCap /\ BatchCap \in Nat
  BY PoolAssumption DEF TypeOK
<1>1. UNCHANGED <<made, txChannel, queue, rind, nums, sending>> /\ Ring' = Ring
  BY DEF receive, Ring
<1>2. CASE batchChannel = <<>>
  <2>1. UNCHANGED <<batchChannel, taken>>
    BY <1>2 DEF receive
  <2> QED
    BY <1>1, <2>1 DEF Stream
<1>3. CASE batchChannel # <<>>
  <2>1. batchChannel' = Tail(batchChannel) /\ taken' = (taken + BatchSize) % Wrap
    BY <1>3 DEF receive, Deliver
  <2>2. /\ l > 0 /\ Len(batchChannel') = l - 1
        /\ \A b \in 1..(l - 1) : batchChannel'[b] = batchChannel[b + 1]
    BY <1>3, <2>1, HeadTailProperties DEF TypeOK
  <2>3. taken' \in Nat /\ taken \in Tx
    <3>1. In(l) + BatchSize + TxCap + MaxQueueSize < Wrap
      BY <1>0, <1>9, InValue
    <3>2. \A a, b, c, d, w \in Nat : a + b + c + d < w => b < w
      OBVIOUS
    <3>3. BatchSize < Wrap
      BY ONLY <1>0, <1>9, <3>1, <3>2
    <3>4. taken \in Tx
      BY DEF TypeOK
    <3> QED
      BY <1>0, <2>1, <3>3, <3>4, NumberValue DEF Tx
  <2> DEFINE o == In(l - 1)
  <2>4. o \in Nat /\ m = o + BatchSize /\ m' = o
    <3>1. l - 1 \in Nat /\ (l - 1) + 1 = l
      BY <1>0, <2>2
    <3> QED
      BY <2>2, <3>1, InValue
  <2> HIDE DEF o
  <2>5. /\ Numbered(sending, taken + BatchSize + o)
        /\ Numbered(Ring, taken + BatchSize + (o + Len(sending)))
        /\ Numbered(txChannel, taken + BatchSize + (o + Len(sending) + nums))
        /\ made = (taken + BatchSize + (o + Len(sending) + nums + Len(txChannel))) % Wrap
    <3>1. /\ taken + BatchSize + o = taken + m
          /\ taken + BatchSize + (o + Len(sending)) = taken + m + Len(sending)
          /\ taken + BatchSize + (o + Len(sending) + nums) = taken + m + Len(sending) + nums
          /\ taken + BatchSize + (o + Len(sending) + nums + Len(txChannel))
               = taken + m + Len(sending) + nums + Len(txChannel)
      BY ONLY <1>0, <2>4
    <3> QED
      BY <3>1 DEF Stream
  <2>6. /\ BatchSize + o + Len(sending) < Wrap
        /\ BatchSize + (o + Len(sending)) + Len(Ring) < Wrap
        /\ BatchSize + (o + Len(sending) + nums) + Len(txChannel) < Wrap
        /\ BatchSize + (o + Len(sending) + nums + Len(txChannel)) < Wrap
        /\ o + Len(sending) \in Nat /\ o + Len(sending) + nums \in Nat
        /\ o + Len(sending) + nums + Len(txChannel) \in Nat /\ Len(Ring) \in Nat
    BY ONLY <1>0, <2>4
  <2>7. Numbered(sending, taken' + o)
    BY ONLY <1>0, <2>1, <2>3, <2>4, <2>5, <2>6, NumberedShift
  <2>8. Numbered(Ring, taken' + (o + Len(sending)))
    BY ONLY <1>0, <2>1, <2>3, <2>4, <2>5, <2>6, NumberedShift
  <2>9. Numbered(txChannel, taken' + (o + Len(sending) + nums))
    BY ONLY <1>0, <2>1, <2>3, <2>4, <2>5, <2>6, NumberedShift
  <2>10. made = (taken' + (o + Len(sending) + nums + Len(txChannel))) % Wrap
    <3> DEFINE w == o + Len(sending) + nums + Len(txChannel)
    <3>1. w \in Nat /\ BatchSize + w < Wrap /\ made = (taken + BatchSize + w) % Wrap
      BY <2>5, <2>6
    <3> HIDE DEF w
    <3>2. (((taken + BatchSize) % Wrap) + w) % Wrap = (taken + BatchSize + w) % Wrap
      BY ONLY <1>0, <2>3, <3>1, NumberShift
    <3>3. made = (taken' + w) % Wrap
      BY <2>1, <3>1, <3>2
    <3> QED
      BY <3>3 DEF w
  <2>11. ASSUME NEW b \in 1..(l - 1)
         PROVE  /\ Len(batchChannel'[b]) = BatchSize
                /\ Numbered(batchChannel'[b], taken' + In(b - 1))
    <3>1. b + 1 \in 1..l /\ b - 1 \in Nat /\ b \in Nat /\ (b - 1) + 1 = b /\ (b + 1) - 1 = b
      BY <1>0, <2>2
    <3>2. /\ Len(batchChannel[b + 1]) = BatchSize
          /\ Numbered(batchChannel[b + 1], taken + In((b + 1) - 1))
      BY <3>1 DEF Stream
    <3>3. In(b) = In(b - 1) + BatchSize /\ In(b - 1) \in Nat
      BY <3>1, InValue
    <3>4. Numbered(batchChannel[b + 1], taken + BatchSize + In(b - 1))
      <4>1. taken + BatchSize + In(b - 1) = taken + In(b)
        BY <1>0, <3>3
      <4> QED
        BY <3>1, <3>2, <4>1
    <3>5. BatchSize + In(b - 1) + BatchSize < Wrap
      <4>1. b <= BatchCap
        BY <1>0, <1>9
      <4>2. In(b) + BatchSize + TxCap + MaxQueueSize < Wrap
        BY <3>1, <4>1, InValue
      <4>3. \A a, c, d, e, w \in Nat : (a + c) + c + d + e < w => c + a + c < w
        OBVIOUS
      <4> QED
        BY ONLY <1>0, <1>9, <3>3, <4>2, <4>3
    <3>6. Numbered(batchChannel[b + 1], ((taken + BatchSize) % Wrap) + In(b - 1))
      BY ONLY <1>0, <2>3, <3>2, <3>3, <3>4, <3>5, NumberedShift
    <3> QED
      BY <2>1, <2>2, <3>2, <3>6
  <2>12. /\ taken' + m' = taken' + o
         /\ taken' + m' + Len(sending') = taken' + (o + Len(sending))
         /\ taken' + m' + Len(sending') + nums' = taken' + (o + Len(sending) + nums)
         /\ taken' + m' + Len(sending') + nums' + Len(txChannel')
              = taken' + (o + Len(sending) + nums + Len(txChannel))
    BY <1>0, <1>1, <2>3, <2>4
  <2>13. Len(sending') \in {0, BatchSize}
    BY <1>1 DEF Stream
  <2> QED
    BY <1>1, <2>2, <2>7, <2>8, <2>9, <2>10, <2>11, <2>12, <2>13 DEF Stream
<1> QED
  BY <1>2, <1>3

\* There is nothing to number at first.
LEMMA InitStream == Init => Stream
<1> SUFFICES ASSUME Init PROVE Stream
  OBVIOUS
<1>1. /\ batchChannel = <<>> /\ sending = <<>> /\ txChannel = <<>> /\ Ring = <<>>
      /\ taken = 0 /\ made = 0 /\ nums = 0
  BY DEF Init, Ring
<1>2. 0 % Wrap = 0 /\ In(0) = 0
  BY NumberValue, InValue, PoolAssumption
<1> QED
  BY <1>1, <1>2, NumberedEmpty DEF Stream

\* Every step keeps the stream.
LEMMA NextStream ==
  TypeOK /\ HandOver /\ RingInv /\ Stream /\ [Next]_vars => Stream'
<1> SUFFICES ASSUME TypeOK, HandOver, RingInv, Stream, [Next]_vars PROVE Stream'
  OBVIOUS
<1>1. CASE UNCHANGED <<made, txChannel, queue, rind, nums, sending, batchChannel, taken>>
  <2>1. Ring' = Ring
    BY <1>1 DEF Ring
  <2> QED
    BY <1>1, <2>1 DEF Stream
<1>2. ASSUME NEW g \in Getter, checkLen(g) PROVE Stream'
  BY <1>1, <1>2 DEF checkLen
<1>3. CASE UNCHANGED vars
  BY <1>1, <1>3 DEF vars
<1> QED
  BY <1>2, <1>3, makeTxStream, runQueueStream, sendBatchStream, receiveStream DEF Next

\* The pool's variables keep their types; the ring's indices stay in it and
\* the channels within their capacities.
THEOREM PoolTypes == Spec => []TypeOK
<1>1. Spec => []RingInv
  BY InitRing, NextRing, PTL DEF Spec
<1> QED
  BY <1>1, InitTypes, NextTypes, PTL DEF Spec

\* No transaction is lost, duplicated or reordered on its way from the maker
\* through txChannel, the ring and the batch channel to the getters, for every
\* ring, batch and channel size and any number of getters.
THEOREM StreamKept == Spec => []Stream
<1>1. Spec => []RingInv
  BY InitRing, NextRing, PTL DEF Spec
<1>2. Spec => [](TypeOK /\ HandOver)
  BY <1>1, InitTypes, NextTypes, PTL DEF Spec
<1> QED
  BY <1>1, <1>2, InitStream, NextStream, PTL DEF Spec
=============================================================================
