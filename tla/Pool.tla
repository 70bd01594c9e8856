-------------------------------- MODULE Pool --------------------------------
(***************************************************************************)
(* The transaction pool (pool/pool.go): a maker goroutine produces         *)
(* transactions, a queue goroutine cuts them into batches through a ring   *)
(* buffer, and the goroutines that generate blocks (the message loop and   *)
(* every SPB goroutine that completes a height-1 QC) take the batches.     *)
(*                                                                         *)
(* Transactions are numbered in the order they are made.  Numbers are kept *)
(* modulo Wrap, which exceeds what can be in the pool at one time.         *)
(***************************************************************************)
EXTENDS Integers, SequencesExt

CONSTANTS MaxQueueSize, BatchSize,   \* the pool's parameters
          TxCap, BatchCap,           \* capacities of the two channels
          Getter,                    \* the goroutines that call GetBatch
          Wrap

\* The code checks no parameter.  A batch as large as the ring would stop the
\* pool after the first one.
ASSUME PoolAssumption ==
  /\ BatchSize \in Nat \ {0}
  /\ MaxQueueSize \in Nat
  /\ BatchSize < MaxQueueSize
  /\ TxCap \in Nat \ {0}
  /\ BatchCap \in Nat \ {0}
  /\ Wrap \in Nat
  /\ Wrap > TxCap + MaxQueueSize + (BatchCap + 1) * BatchSize

VARIABLES
  made,          \* number of the next transaction the maker makes
  txChannel,
  queue,         \* the ring
  wind, rind, nums,
  sending,       \* the batch make is handing over, <<>> if none
  batchChannel,
  pc,            \* pc[g]: where getter g is in get
  waiting,       \* the getters blocked in a receive, first come first
  taken          \* number of the next transaction to reach a getter

vars == <<made, txChannel, queue, wind, rind, nums, sending, batchChannel, pc,
          waiting, taken>>

Tx == 0..(Wrap - 1)
Index == 0..(MaxQueueSize - 1)

TypeOK ==
  /\ made \in Tx
  /\ txChannel \in Seq(Tx)
  /\ Len(txChannel) <= TxCap
  /\ queue \in [Index -> Tx]
  /\ wind \in Index
  /\ rind \in Index \cup {-1}
  /\ nums \in 0..MaxQueueSize
  /\ sending \in Seq(Tx)
  /\ batchChannel \in Seq(Seq(Tx))
  /\ Len(batchChannel) <= BatchCap
  /\ pc \in [Getter -> {"idle", "receive", "wait"}]
  /\ waiting \in Seq(Getter)
  /\ taken \in Tx

Init ==
  /\ made = 0
  /\ txChannel = <<>>
  /\ queue = [i \in Index |-> 0]
  /\ wind = 0
  /\ rind = -1
  /\ nums = 0
  /\ sending = <<>>
  /\ batchChannel = <<>>
  /\ pc = [g \in Getter |-> "idle"]
  /\ waiting = <<>>
  /\ taken = 0
-----------------------------------------------------------------------------
\* Mutant: the maker stops after the first burst.
makeTxBurst ==
  /\ Len(txChannel) < TxCap
  /\ made < BatchSize
  /\ txChannel' = Append(txChannel, made)
  /\ made' = made + 1
  /\ UNCHANGED <<queue, wind, rind, nums, sending, batchChannel, pc, waiting,
                 taken>>

\* txMaker.run: blocks while the channel is full.
makeTx ==
  /\ Len(txChannel) < TxCap
  /\ txChannel' = Append(txChannel, made)
  /\ made' = (made + 1) % Wrap
  /\ UNCHANGED <<queue, wind, rind, nums, sending, batchChannel, pc, waiting,
                 taken>>

\* The index k slots after i.
Step(i, k) == (i + k) % MaxQueueSize

\* Mutant: make waits for one transaction more than a batch.
ReadyLate(k) == k > BatchSize

Ready(k) == k >= BatchSize

\* Mutant: make reads the slot of rind first.
BatchFromRind(q, r) == [i \in 1..BatchSize |-> q[Step(r, i - 1)]]

\* txQueue.make reads BatchSize slots from the one after rind.
Batch(q, r) == [i \in 1..BatchSize |-> q[Step(r, i)]]

\* One turn of txQueue.run, with its call of make up to the channel send.
runQueue ==
  LET q == [queue EXCEPT ![wind] = Head(txChannel)]
  IN /\ sending = <<>>
     /\ txChannel # <<>>
     /\ txChannel' = Tail(txChannel)
     /\ IF wind = rind
        THEN UNCHANGED <<queue, wind, rind, nums, sending>>  \* pool is full
        ELSE /\ queue' = q
             /\ wind' = Step(wind, 1)
             /\ IF Ready(nums + 1)
                THEN /\ sending' = Batch(q, rind)
                     /\ rind' = Step(rind, BatchSize)
                     /\ nums' = nums + 1 - BatchSize
                ELSE /\ nums' = nums + 1
                     /\ UNCHANGED <<rind, sending>>
     /\ UNCHANGED <<made, batchChannel, pc, waiting, taken>>

\* A getter that receives a batch.
Deliver(g) ==
  /\ pc' = [pc EXCEPT ![g] = "idle"]
  /\ taken' = (taken + BatchSize) % Wrap

\* make's send: to the first blocked getter if there is one, else into the
\* channel, when it has room.
sendBatch ==
  /\ sending # <<>>
  /\ sending' = <<>>
  /\ \/ /\ waiting # <<>>
        /\ waiting' = Tail(waiting)
        /\ Deliver(Head(waiting))
        /\ UNCHANGED batchChannel
     \/ /\ waiting = <<>>
        /\ Len(batchChannel) < BatchCap
        /\ batchChannel' = Append(batchChannel, sending)
        /\ UNCHANGED <<pc, waiting, taken>>
  /\ UNCHANGED <<made, txChannel, queue, wind, rind, nums>>

\* txQueue.get looks at the length of the channel.  When it is 0 the getter
\* has an empty batch (ID -1) at once, and nothing changes.
checkLen(g) ==
  /\ pc[g] = "idle"
  /\ Len(batchChannel) > 0
  /\ pc' = [pc EXCEPT ![g] = "receive"]
  /\ UNCHANGED <<made, txChannel, queue, wind, rind, nums, sending,
                 batchChannel, waiting, taken>>

\* ... and receives.  By then another getter may have emptied the channel.
receive(g) ==
  /\ pc[g] = "receive"
  /\ \/ /\ batchChannel # <<>>
        /\ batchChannel' = Tail(batchChannel)
        /\ Deliver(g)
        /\ UNCHANGED waiting
     \/ /\ batchChannel = <<>>
        /\ waiting' = Append(waiting, g)
        /\ pc' = [pc EXCEPT ![g] = "wait"]
        /\ UNCHANGED <<batchChannel, taken>>
  /\ UNCHANGED <<made, txChannel, queue, wind, rind, nums, sending>>

Next ==
  \/ makeTx
  \/ runQueue
  \/ sendBatch
  \/ \E g \in Getter : checkLen(g) \/ receive(g)

Spec == Init /\ [][Next]_vars

\* The maker ticks for ever, the queue goroutine runs, a receive that can
\* proceed does.  Nobody has to call GetBatch.
FairSpec ==
  /\ Spec
  /\ WF_vars(makeTx)
  /\ WF_vars(runQueue)
  /\ WF_vars(sendBatch)
  /\ \A g \in Getter : WF_vars(receive(g))
-----------------------------------------------------------------------------
Ring == [i \in 1..nums |-> queue[Step(rind, i)]]

\* How many transactions there are in b batches.
In(b) == BatchSize * b

\* The transactions of s are numbered one after the other, from n on.
Numbered(s, n) == \A i \in 1..Len(s) : s[i] = (n + i - 1) % Wrap

\* No transaction is lost, duplicated or reordered between the maker and the
\* getters, at any position of the ring's indices: every batch is full and
\* starts where the one before it ends, the next getter receives the oldest
\* transactions, and the ring and txChannel hold the ones that follow.
Stream ==
  LET inChannel == taken + In(Len(batchChannel))
      inRing == inChannel + Len(sending)
  IN /\ \A b \in 1..Len(batchChannel) :
          /\ Len(batchChannel[b]) = BatchSize
          /\ Numbered(batchChannel[b], taken + In(b - 1))
     /\ Len(sending) \in {0, BatchSize}
     /\ Numbered(sending, inChannel)
     /\ Numbered(Ring, inRing)
     /\ Numbered(txChannel, inRing + nums)
     /\ made = (inRing + nums + Len(txChannel)) % Wrap

\* run never finds the ring full: make empties it in time, for every batch
\* smaller than the ring, so "Transaction pool is full" is never logged.
NeverFull == wind # rind

\* The length that get looks at may be stale when it receives, so a getter
\* can block (and with it the message loop), but not for ever.
GetReturns == \A g \in Getter : pc[g] # "idle" ~> pc[g] = "idle"
=============================================================================
