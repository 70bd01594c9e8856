# A TLA+ model of s2PAC

s2PAC is an asynchronous BFT consensus protocol in Go. This directory holds
TLA+ modules translated from its source, the TLC configurations that check them
on small committees, and TLAPS proofs for every committee.

## The system

A deployment is a fixed committee of `n` nodes with `f = (n-1)/3` (integer
division), `HightThreshold = 2f+1` and `LowThreshold = f+1`. Nodes whose ID is
below `parameters.Faults` open their network and handle no message. All nodes run
one of three protocols.

A **view of PAC_LEAN** (`core.go`, `spb.go`) goes as follows.

1. Every node proposes a height-1 block in an SPB instance of its own. The others
   vote to the proposer; 2f+1 votes are the QC of the block, which the
   proposer's height-2 block carries. 2f+1 votes for that are broadcast as a
   FinVote; the nodes answer with speed votes, and 2f+1 of these are the speed
   certificate of the proposer.
2. The FinVotes of 2f+1 proposers make a node broadcast its share of the coin;
   2f+1 shares select the leader of the view. Who combines them first also
   broadcasts a RandomCoinMsg.
3. In `processCoin` a node looks at the leader's instance. With a speed
   certificate it commits the height-2 block, with both QCs the height-1 block.
   It reports the best QC it has: LEVEL_2 (both), LEVEL_1 (height 1), LEVEL_0
   (neither).
4. One report of LEVEL_2, or 2f+1 reports of LEVEL_1, or of LEVEL_0, take a
   node to the next view, where its first block extends the reported QC.

The `Commitor` walks the QCs back from an endorsed block and commits the path.

**PAC_BIG** (`bigcore.go`, `bigspb.go`) differs in this. Votes and speed votes go
to everybody, and each node takes the QCs of every instance from its own counters;
there are no FinVotes. A node that has the height-2 QC of 2f+1 instances sends
its share of the coin, and nobody is told the leader. No message is filtered by
its view.

**PAC_BIG_DAG** (`dag_bigcore.go`, `dag_bitspb.go`, `dag_commitor.go`) is PAC_BIG
with blocks that refer to many others. A node proposes at height 2 when it has the
height-1 QCs of 2f+1 instances, and refers to them all. The coin lets it commit the
leader's height-2 block on a speed certificate, or else the height-1 block if f+1
height-2 blocks refer to it. Then it opens the next view with a block that
refers to all height-2 QCs it has, if they are 2f+1. There are no reports.

Below all three, the **Transmitor** and the **network** carry messages through
bounded channels and one TCP connection per peer, and the **pool** makes batches.

## Modules

| Module | Models |
|---|---|
| `Committee` | committee, faulty nodes, thresholds |
| `StagedBroadcast` | what an SPB instance promises: hold, lock, finalize, speed |
| `SPB` | one SPB instance at all nodes, with the part of the Core that feeds it |
| `Election` | FinVote counting, coin shares, RandomCoinMsg, `processCoin`'s flag |
| `BigElection` | the election of PAC_BIG and PAC_BIG_DAG, beside `Election` |
| `ViewChange` | `processCoin`, reports and `advanceView`, on top of the leader's broadcast |
| `BigViewChange` | the same for PAC_BIG |
| `BigSPB` | one PAC_BIG instance at one node, any order of arrivals |
| `DAGBigSPB` | the instance of PAC_BIG_DAG, beside `BigSPB` |
| `DAGView` | one view of PAC_BIG_DAG: references, coin, both commit rules, `advanceView` |
| `Commitor` | `Commit` and `run`, concurrent with the store |
| `DAGCommitor` | the `run` of PAC_BIG_DAG, beside `Commitor` |
| `Pool` | maker, ring buffer, batches, getters |
| `Network` | Transmitor, Sender, connections, Receiver, and the loops that read |
| `CommitteeProofs`, `SPBProofs`, `BigSPBProofs`, `ElectionProofs`, `ViewChangeProofs` (both view changes), `CommitProofs` (both Commitors and `DAGView`), `PoolProofs`, `NetworkProofs` | the theorems |
| `MCSPB`, `MCElection`, `MCViewChange`, `MCBigSPB`, `MCBigViewChange`, `MCDAGView`, `MCCommitor`, `MCPool`, `MCNetwork` | instances for TLC |

Operators keep the names of the functions they translate. An operator whose
comment starts with "Mutant" is not part of the specification: it is a wrong
variant of the definition that follows it, against which a property was tried.

Where two protocols share most of a component, a module describes both: the
initial state chooses `protocol`, which no step changes, as `Consensus` chooses
the Core to start (`consensus.go:81`). A run of such a module covers both.

**Composition.** `SPB` implements `StagedBroadcast` (`RefinesStaged`), and
`ViewChange` composes the abstract broadcast of the leader with the loops of all
nodes. What `ViewChange` says of the leader's instance therefore holds for the
goroutines of `spb.go`.

**SPB.** A message is in `net` (sent), in `running` (its goroutine has not yet
taken `hMutex`) or, for a Propose, in `waking` (between the two critical
sections); `unHandlePropose` and `unHandleFinVote` are the parked lists, which the
code never clears. An action is one critical section with what follows it up to
the next one. `Leavers` may move to a later view at any moment and filter from
then on, except that blocks are stored first. A proposer is honest or silent, as
in the code's own fault injection, so a message is identified by type, height
and the other node. Signatures always verify.

**Election, BigElection.** FinVotes, speed votes and shares carry no data but their
author. The filter of a node that left the view is a message that is never taken. The
leader matters at one place: it may hold a speed certificate made of the votes of
others without the hash of its own height-2 block. `processCoin` then returns the
error of `getBlock`, leaves no trace, and is called again only by a further coin
message; `refused` remembers whose coins were spent that way. This takes 2f+1 voters
beside the leader, of which some may be gone when the coin comes (`Absent`).
`reportsSent` counts the calls of `processCoin` that go through. In PAC_BIG only the
count of a node's own speed votes is read by the code, so only that is kept; a speed
vote of another node repeats the test and may repeat the share (`again`), any number
of times.

**ViewChange, BigViewChange.** `processCoin` is two steps, as the certificates and the
level are read under separate locks. A leader with a speed certificate and no height-2
hash gets an error from `getBlock` and has to be called again: here the step is
disabled until then, and `Election` says what becomes of the calls. Reports of a level
are counted, not remembered. `SkipView` is `handleReportMsg` on a report of a later
view. The instance may step at nodes that have moved on, because goroutines started
before are not stopped. `BigViewChange` replaces the steps of the instance, which in
PAC_BIG may give a node its QCs in either order, and drops the filter.

**BigSPB, DAGBigSPB.** As every node counts for itself, the other nodes show only in
what arrives, and the module has the state of one node. A vote of each honest node
arrives once per height, at any time; so do blocks and speed votes, except that the
node's own messages wait for its own state. No other order is imposed on arrivals.
That is exact when the other nodes can make a quorum by themselves, as with four live
nodes, and allows more orders otherwise. A speed vote has an author and the proposer
it is for; the Core gives it to the instance of one or of the other (`Route`,
`DAGRoute`), which drops it if it is for another block (`Relevant`). Nothing else
looks at an author, so votes are numbers: arrived, running (their goroutine has not
taken `hMutex`), parked, counted. `certifying` is the gap between the counter and the
section that sets the QC.

**DAGView.** The state is what other nodes can build on: who proposed, whose
height-2 block refers to the leader's height-1 block (`referring`), who has the
leader's height-2 QC (`finalized`), who released a share, and what each node made
of the coin. Which blocks, QCs and speed votes a node has when the coin comes is
chosen freely within what exists. `processCoin` has the four outcomes of the code:
speed commit, weak commit, error of `getBlock`, neither; all but the error end in
`advanceView`, which may find the view not entered yet (`missed`) or too few QCs.
`history` is the part of the leader's blocks that a node's first block of the next
view has among its ancestors.

**Commitor, DAGCommitor.** Blocks are given with their parents and references.
`Commit` runs in the message loop, which also stores blocks; while its send waits
for room in `blocksChan` (`pending`), the loop does neither.
`walk` is one turn of the loop that looks for parents; the turns that find none
are stuttering steps. `dagLookup` is one turn of the loop over references; the
store may grow between two turns. `skipped` remembers what was not found.

**Pool.** Transactions are numbered modulo `Wrap`. A blocked receive is an entry
in `waiting`, served in order, as Go channels do.

**Network.** One sending node and the loops of its peers. Channels that a goroutine
only joins are one channel. A peer is healthy, `Deaf` (its loop never reads, as with
`parameters.Faults`) or `Fragile` (a Dial or a write may fail). `handle` may leave the
loop about to send itself a message, for which it needs room in the channel it
reads: an ElectMsg, a report or a Propose, each of which may make the next one when
it is handled. Before that the handler sends to other nodes or commits, and may not
return, when the channels behind those calls are full for good (`BLOCKED`); those
channels of a peer are not modelled, so this is a free choice. What goroutines send to
the channel blocks them and not the loop.

## Runs

| Run | Instance | States | Checks |
|---|---|---|---|
| `spb` | 4 live nodes, one may leave | 566,243 | `TypeOK`, `QCBacked`, `NestedCerts`, `NoLostWakeup`, `CountedOnce`, refinement |
| `spb_live` | 2 nodes, threshold 1, both may leave | 38,634 | `Completion`, `EventuallyStored` |
| `election` | 5 nodes, one silent, one gone after its votes, either kind of protocol | 65,980 | `TypeOK`, `CoinNeedsQuorum`, `ReportsOnce`, `CoinTotality`, `CoinRevealed` |
| `view_change` | 4 nodes, one silent | 246,022 | `TypeOK`, `ReportsBacked`, `ProposalBacked`, `CommitBacked`, `DocGExclusive`, `EarlyCommitSurvives`, `EarlySpeedCommitSurvives`, `DecisiveAdvances` |
| `view_change_silent` | 5 nodes, silent leader | 4,885 | `SilentLeaderAdvances` |
| `view_change_docg` | 4 live nodes, one counts reports | violated | `DocGHolds` |
| `big_spb` | 5 nodes, one silent, PAC_BIG and PAC_BIG_DAG | 625,128 | `TypeOK`, `CountedOnce`, `QCBacked`, `SpeedVotesOfProposer`, `Completion` |
| `big_view` | 4 live nodes, one counts reports | violated | `LevelTold` |
| `dag` | 4 nodes | 123,781 | `ViewTypeOK`, `WeakCommitCarried`, `StuckAtMostF`, `EarlySpeedCarried` |
| `commitor` | 7 blocks of 3 views, a fork, cross references, a channel of 1, both Commitors | 41,186 | `TypeOK`, `LeanAncestorsFirst`, `HistoryClosed`, `EventuallyCommitted` |
| `pool` | ring 4, batch 3, 2 getters | 2,535 | `Stream`, `NeverFull`, `GetReturns`, no deadlock |
| `network` | a healthy, a deaf and a fragile peer, channels of 1, 3 messages | 172,209 | `LinkOrder`, `Handled` |

**Bounds.** Four nodes are the smallest committee with a fault to tolerate, and the
smallest in which fewer than all nodes form a quorum. With one of them silent a quorum
is all the others. Five nodes, one silent, leave one honest node beside a quorum: to
be overtaken (`view_change_silent`), or whose vote comes after the QC (`big_spb`), or
which crashed after it had voted (`election`): the other three are a quorum of shares,
while the leader has its certificate without its own vote. Two nodes have a threshold
of one, so that an SPB proposer runs ahead of the other node, whose messages get
parked. In `dag` nobody is declared faulty: a silent node is one that takes no step,
and nothing is said of progress. `MaxCounting = 1`, in the two violations, lets one
node count reports, which is enough for them. The ring has one slot more than a batch,
the tightest size the pool works with. `ChanCap = 1` for the Commitor's channel, 100
in the code, lets it fill up with the blocks of three views. In `network` channels of
capacity one fill up at once, and three messages are more than the channels to a dead
peer hold, so that the sender jams in some behaviours and not in others.

**Deadlock** is checked for the pool. The other modules describe one view, a given
set of blocks or a number of messages, after which there is nothing left to do.

**Fairness.** Weak fairness of the message loop of every honest node (`Handle`,
`Loop`, `EitherLoop`), of the goroutines of an instance (`Process`), of `run`, of
`Sender.Run` and the writer of each connection: the Go scheduler runs every
goroutine that can go on, and an established connection delivers. Fairness says
nothing of a send into a full channel, nor of a handler that `Network` has made
`BLOCKED`. Nothing is
assumed of `LeaveView`, `SkipView`, `RevealCoin`, of the leader's instance in
`ViewChange`, of arrivals in `BigSPB` (`Completion` says what follows if they
happen), of failures in `Network`, or of calls to `Send`, `GetBatch` and `Commit`.
The Commitors assume that the message loop stores every certified block while it
runs, which is `EventuallyStored` of `SPB`, and that it completes the send of a
`Commit` when there is room.

`SPB` and the modules above it take delivery for granted. `Network` says when it
is: a peer that reads gets every message in order (`LinkOrder`) unless a write to
it has failed, and gets it at all (`Handled`) unless the one goroutine of `Sender.Run`
waits on the full queue of a peer that is broken or does not read, or the peer's
own loop has halted: it waits for room in the channel only it empties, or in a
handler. With the code's capacities of 1000, these ends need that many messages
behind the obstacle; the model has them with one.

### Where liveness ends

Three liveness properties name the one way out that the code leaves open; the runs
reach each of them. `CoinTotality`: a leader that met the error of `getBlock` with
every coin message there is stays without a report of its own. `EventuallyCommitted`:
the message loop waits in `Commit` for room in `blocksChan`, behind a walk that waits
for a block which only that loop can store (`Stuck`). `Handled`: see above.

### What `view_change_docg` shows

`core.go:17-19` annotates the levels with "no_endorsed_height-2_QC" and
"no_endorsed_height-1_QC". Read as a claim about the view, `DocGHolds`, this
fails. Three nodes that have not seen the height-1 QC report LEVEL_0, one with no
QC at all; a node counts them and opens the next view there. The instance of the
leader is still running at the same nodes, which now lock and finalize the
block, and a node that is late with its coin commits it. The next view's proposal
does not extend the committed block. `EarlyCommitSurvives` and
`EarlySpeedCommitSurvives` say what does hold: a commit that is made before the
first lower report is safe.

### What `big_view` and `SpeedVotesOfProposer` show

When a node of PAC_LEAN takes a height-2 block it records the height-1 QC the block
carries (`spb.go:59`). `BigSPB` does not, and waits for its own counter. So the
leader may have both QCs and commit its height-1 block before anybody reports,
while nodes that voted for the height-2 block still lack votes for height 1.
Their `QCLEvel` is LEVEL_0, "no_endorsed_height-1_QC", and 2f+1 such reports open the
next view on the QC of the view before. In PAC_LEAN this cannot happen
(`EarlyCommitSurvives`).

`BigCore` gives a speed vote to the instance of its author (`bigcore.go:143`),
which drops it unless the author is also the proposer voted for. An instance
counts one speed vote at most; with a threshold above one, `SpeedCert` is never
true in PAC_BIG and the branch of `processCoin` that commits height-2 blocks is
not taken. PAC_BIG_DAG gives it to the instance of the proposer.

### What `dag` shows

The weak commit rule is safe at any time: f+1 height-2 blocks refer to the
leader's height-1 block, every block of the next view refers to 2f+1 height-2
blocks, and the two sets meet. The speed rule gives less: a next-view block made
without the leader's height-2 QC does not refer to the committed block, but there are
at most f of these if there were none when it was committed. As for progress, a node
whose coin comes before its QCs has no second attempt; `StuckAtMostF` bounds their
number by f, since the nodes that released shares had 2f+1 QCs already.

## Proofs

| Theorem | Statement |
|---|---|
| `CommitteeProofs!QuorumsMeet` | two quorums of a committee of 3f+1 share a node |
| `CommitteeProofs!SizesThatWork` | for which sizes of the committee two quorums meet, and a quorum and f+1 nodes |
| `SPBProofs!TypeCorrect`, `Bookkeeping`, `CertificatesNested`, `NoWakeupLost`, `EachCountedOnce`, `CertificatesBacked` | `TypeOK`, `Placement` and `SentOnQuorum`, `NestedCerts`, `NoLostWakeup`, `CountedOnce`, `QCBacked` |
| `SPBProofs!Refinement` | `Spec => RefinesStaged` |
| `BigSPBProofs!TypeCorrect`, `EachCountedOnce`, `CertificatesBacked`, `OneSpeedVote` | the invariants of run `big_spb` |
| `ElectionProofs!TypeCorrect`, `CoinNeedsQuorums`, `OneReport` | the invariants of run `election` |
| `ViewChangeProofs!TypeCorrect`, `ReportsAreBacked`, `ProposalsAreBacked`, `CommitsAreBacked`, `DocGsExclude` | the invariants of run `view_change` |
| `ViewChangeProofs!EarlyCommitsSurvive`, `EarlySpeedCommitsSurvive` | the two temporal safety properties of that run |
| `ViewChangeProofs!BigReportsKept`, `BigIsBacked` | PAC_BIG: `TypeOK`, `ReportsBacked`, `DocGExclusive`, and what is left of the other two |
| `CommitProofs!ViewTypeCorrect`, `WeakCommitsAreCarried`, `FewStayBehind`, `EarlySpeedCommitsAreCarried` | the invariants of run `dag` |
| `CommitProofs!TypeCorrect`, `ParentsFirst`, `ReferencesFollow` | the invariants of run `commitor` |
| `CommitProofs!LogFollowsChain` | if the endorsed blocks lie on one chain, the log is a prefix of it |
| `CommitProofs!AcceptedStays` | a block Commit let through stays with `run` until it is committed |
| `PoolProofs!PoolTypes`, `RingNeverFull`, `StreamKept` | types, and the invariants of run `pool` |
| `NetworkProofs!LinkKeepsOrder` | the invariant of run `network` |
| `CommitProofs!StuckForEver`, `NetworkProofs!HaltedForEver`, `JammedForEver` | the exceptions of `EventuallyCommitted` and `Handled` are for ever, a jam unless a failing write makes room |
| `RestsComplete` (`SPBProofs`, `BigSPBProofs`), `ElectionProofs!RestsElected`, `ViewChangeProofs!RestsAhead`, `BigRestsAhead`, `CommitProofs!RestsCommitted`, `NetworkProofs!RestIsDone` | nothing stops before its goal: see "At rest" |

They hold for every finite nonempty committee, every set of faulty nodes, every
honest proposer and set of leavers (`CommitteeAssumption`, `SPBAssumption`; in
`BigSPB`, an honest proposer and observer; in `Election`, every leader and set of
absent nodes). `ViewChange` needs two quorums to intersect
(`2 * HightThreshold > Size`), `DAGView` a quorum and f+1 nodes (`HightThreshold +
LowThreshold > Size`). Both are so for 3f+1 nodes, the first not for 2, 3 or 6 nodes,
the second for no other size (`SizesThatWork`); the code accepts any. The Commitors
are proved for every forest of blocks whose parents and references are older
(`ParentIsOlder`, `DAGCommitorAssumption`), the pool for every batch smaller than the
ring and all capacities, the network for any number of peers and messages and all
capacities.

**SPB.** `QCBacked` is not inductive: the counters do not know who voted. The
inductive invariant is `TypeOK` with `Placement` (a message is in one place, and
a parked one that is still to be woken is nowhere else), `SentOnQuorum`,
`NestedCerts`, `NoLostWakeup` and `CountedOnce` (a counter is at most the number of
nodes past the stage whose vote is not on its way). `QCBacked` follows by
cardinality, and refinement by mapping each critical section to one abstract
step or none.

**BigSPB.** `CountedOnce` balances what arrived against what is counted, running
or parked, so it is inductive once it is known where a Propose can be (`Placed`):
the list of a height is walked once, since its block is recorded once.

**Election.** `Released` follows the coin back to the FinVotes or speed votes. For
`ReportsOnce`, PAC_LEAN has its flag; in PAC_BIG the length of the Aggregator's
list plays that part (`Reported`): it equals the number of authors, and passes 2f+1
once.

**ViewChange.** `DocGExclusive` compares two nodes' proposals. The invariant
ties a proposal to the reports behind it (`AdvanceBacked`), a counter to the
reports sent, and a report to its author's QCs (`ReportsBacked`); one report per
author makes the authors of two levels disjoint, and two quorums are not. For the
temporal theorems the proof exhibits a quorum that has the QC and has not
reported otherwise (`Settled`), which every step keeps, since a node that has a
QC never again reports that it has none. The part of the invariant about reports
(`ReportInv`) does not depend on how the instance steps and is shared with PAC_BIG
(`BigInv`), whose instance promises less (`BigStaged`): `BigBacked` is what remains of
`ProposalBacked` and `CommitBacked`.

**DAGView.** The invariant keeps, for every block of the next view, the 2f+1
height-2 blocks it refers to (`ReferencesCount`); a quorum of nodes that released their
share and did not get stuck (`SharersGoOn`); and, after an early speed commit, a
quorum of nodes with the leader's QC, none of which made a block without it
(`CarriersStay`).

**Commitors.** The lean path is a chain of uncommitted blocks, each the parent of
the one before, that ends below a committed block when the walk has ended
(`PathInv`); its blocks differ because parents are older. For the DAG, what a
committed block refers to is committed, queued, still to look up, or was not found
(`RefsInv`). `LogFollowsChain` adds that path and log lie on the chain (`OnChain`):
the parent below the old end of the path is the next block of the log. It takes the
blocks handed over to be on one chain, which the theorems of `ViewChange` give for
early commits of one view and nothing here gives across views.

**Pool.** The write index is always `nums + 1` slots after the read index, and
`nums` is below the batch size between two steps (`RingInv`). For `Stream` each
place's contents are numbered from the first transaction it can hold (`Numbered`),
and a getter waits only when no batch does (`HandOver`).

**Network.** `LinkOrder` is about equal sequences, of which the invariant keeps enough
to tell where each message is: identities rise along the way from `Send` to the loop
(`InOrder`), what the loop handled is what was addressed after the dropped messages
(`HandledFirst`), and what is not handled is exactly what is under way on a connection
that has not failed.

**At rest.** Liveness needs fairness and is out of the prover's reach, but half of
it is safety: a system that stops short of its goal is a state in which no loop or
goroutine has a step left and the goal is not reached. The theorems exclude such
states for every committee, number of peers and set of blocks. Each has a predicate
that says that no step is left, in terms of the guards of the actions:

- `SPB`: no message that an honest node would take and no goroutine. Then every
  block with a QC is in every honest store, and if nobody left the view and 2f+1
  nodes are honest, all certificates exist. The proof keeps what the proposer
  sent in view until it is stored or handled (`Underway`) and bounds the counters
  from below (`AllCounted`), the other half of `CountedOnce`.
- `BigSPB`: no goroutine. Then each block that came is recorded (in PAC_BIG, if the
  height-1 block came), it has a QC exactly if enough votes came, and with the
  height-2 QC all speed votes are counted.
- `Election`: nothing left to take. Then the coin was processed by all running nodes
  or by none, and by some if 2f+1 broadcasts completed and 2f+1 nodes run. Left out
  can only be a leader for which every coin message met the error, with 2f+1 honest
  nodes beside it. The tests `== 2f+1` pass over no count (`Passed`), and a coin that
  was spent is in `refused` (`Missed`).
- `ViewChange`, in both protocols: no loop has a step. Then all honest nodes are in
  the next view if the reports are decisive, if the height-1 block was committed,
  or if the leader is silent and 2f+1 nodes are honest.
- `Commitor`, `DAGCommitor`: `run` has no step, and the message loop has stored all
  blocks or waits in `Commit`. Then channel and path are empty, or the two wait for
  each other, for ever.
- `Network`: no sender, connection or loop can go on. Then every healthy peer has
  handled all that was sent to it, or `Sender.Run` is jammed or that peer's loop
  has halted. A halted loop stays so, and so does a jam that no failing write can end.

With fairness, a behaviour that does not come to rest goes on taking steps; that it
comes to rest, because messages are finite in number, is left to TLC.

Only model-checked: the liveness properties themselves (`Completion`,
`EventuallyStored`, `CoinTotality`, `CoinRevealed`, `DecisiveAdvances`,
`SilentLeaderAdvances`, `EventuallyCommitted`, `GetReturns`, `Handled`). All
invariants and all other action and temporal properties of the runs are proved.

## Not modelled

- **Signatures, threshold signatures, hashes.** Signatures verify, the coin is
  some leader, and a block is told apart by identity. The base-2 encoding under
  `Block.Hash` is listed as a hazard; whether two encodings collide depends on
  concrete numbers and on no step of the protocol.
- **SigService and Store as services.** Each is one goroutine that answers one
  request after the other, and each caller waits for its answer. To the rest of
  the system a call is one step, as modelled; the database below is external.
- **Nodes that deviate from the code** other than by silence or by stopping.
- **Restarts.** A node keeps its protocol state in memory and does not recover it.
- **Several views at once.** Each module has one view; others show as nodes that
  leave early, are overtaken, or have not come yet. Whole views are not composed
  with one another or with the Commitor; one view of four nodes alone has some
  250,000 states.
- `DAGBigCore.handleReportMsg`, which no message reaches, configuration files,
  startup, the codec, logging and the benchmark scripts.
