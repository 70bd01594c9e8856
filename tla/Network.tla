------------------------------ MODULE Network -------------------------------
(***************************************************************************)
(* The way of a message from the Send of one node to the message loops of  *)
(* its peers (core/transimtor.go, network/network.go).  All of it is       *)
(* bounded channels and goroutines that move messages between them:        *)
(*                                                                         *)
(*   Send -> msgCh -> Sender.Run -> a queue per peer -> its writer -> TCP  *)
(*        -> serveConn -> recvCh -> the loop of the peer's Core            *)
(*                                                                         *)
(* Sender.Run is one goroutine for all peers and waits when the queue of a *)
(* peer is full.  The loop of a Core puts messages to itself into the same *)
(* recvCh that it reads.  Its handlers also wait for room in the node's    *)
(* own Transmitor and Commitor.  Those of a peer are not modelled here, so *)
(* that wait may be endless; one that ends is part of the handling.        *)
(*                                                                         *)
(* Channels joined by a goroutine that only moves messages are one channel *)
(* here: Transmitor.msgCh and Sender.msgCh on one side; the socket, the    *)
(* Receiver's channel and the Transmitor's recvCh on the other.            *)
(***************************************************************************)
EXTENDS Integers, Sequences, Functions

CONSTANTS
  Peer,       \* the other nodes
  Deaf,       \* those below parameters.Faults: their loop never runs
  Fragile,    \* those whose host or connection may fail
  SendCap, ConnCap, RecvCap,   \* capacities, 1000 each in the code
  MaxMsgs     \* how many messages are sent, for TLC

ASSUME NetworkAssumption ==
  /\ Deaf \subseteq Peer
  /\ Fragile \subseteq Peer
  /\ {SendCap, ConnCap, RecvCap, MaxMsgs} \subseteq Nat \ {0}

VARIABLES
  addressed,  \* addressed[p]: the messages to p that Send accepted (history)
  msgCh,      \* NetMessages on their way to Sender.Run
  current,    \* the message in Sender.Run and the addresses still to serve
  conns,      \* the peers with an entry in Sender.conns
  broken,     \* those whose writer goroutine has ended
  dropped,    \* dropped[p]: messages to p lost because Dial failed
  connCh,     \* connCh[p]: the channel from Sender.Run to the writer
  recvCh,     \* recvCh[p]: the channel the loop of p reads
  loop,       \* loop[p]: the message p's loop is about to send to itself, if any
  handled     \* handled[p]: the messages p's loop has taken

links == <<dropped, conns, broken>>
peers == <<recvCh, loop, handled>>
netVars == <<addressed, msgCh, current, links, connCh, peers>>

\* The messages of a loop to itself.  One may make another, in this order.
ELECT == -1
REPORT == -2
PROPOSE == -3
SELECT == 0    \* none: the loop takes the next message
BLOCKED == -4  \* none: the loop is in a handler for good
ToSelf == {ELECT, REPORT, PROPOSE}

NetMessage == [id : 1..MaxMsgs, rest : SUBSET Peer]
Idle == [id |-> 0, rest |-> {}]
Sent == UNION {Range(addressed[p]) : p \in Peer}

NetInit ==
  /\ addressed = [p \in Peer |-> <<>>]
  /\ msgCh = <<>>
  /\ current = Idle
  /\ conns = {}
  /\ broken = {}
  /\ dropped = [p \in Peer |-> 0]
  /\ connCh = [p \in Peer |-> <<>>]
  /\ recvCh = [p \in Peer |-> <<>>]
  /\ loop = [p \in Peer |-> SELECT]
  /\ handled = [p \in Peer |-> <<>>]
-----------------------------------------------------------------------------
(***************************************************************************)
(* The sending node.                                                       *)
(***************************************************************************)

\* Transmitor.Send to everybody or to one node.  The messages are numbered as
\* they are sent.
Send(to, id) ==
  /\ Sent = 1..(id - 1)
  /\ Len(msgCh) < SendCap
  /\ msgCh' = Append(msgCh, [id |-> id, rest |-> to])
  /\ addressed' = [p \in Peer |-> IF p \in to THEN Append(addressed[p], id)
                                              ELSE addressed[p]]
  /\ UNCHANGED <<current, links, connCh, peers>>

\* Sender.Run takes the next message.
takeMsg ==
  /\ current.rest = {}
  /\ msgCh # <<>>
  /\ current' = Head(msgCh)
  /\ msgCh' = Tail(msgCh)
  /\ UNCHANGED <<addressed, links, connCh, peers>>

\* Mutant: a channel without a buffer, which a writer that ended blocks at once.
RoomUnbuffered(p) == connCh[p] = <<>> /\ p \notin broken

Room(p) == Len(connCh[p]) < ConnCap

\* ... and serves an address: over the connection it has, or over a new one.
\* It waits while the queue is full.
enqueue(p) ==
  /\ p \in current.rest
  /\ Room(p)
  /\ conns' = conns \cup {p}
  /\ connCh' = [connCh EXCEPT ![p] = Append(@, current.id)]
  /\ current' = [current EXCEPT !.rest = @ \ {p}]
  /\ UNCHANGED <<addressed, msgCh, dropped, broken, peers>>

\* Dial fails: the message to this address is dropped, the next one dials again.
dialFail(p) ==
  /\ p \in (current.rest \cap Fragile) \ conns
  /\ dropped' = [dropped EXCEPT ![p] = @ + 1]
  /\ current' = [current EXCEPT !.rest = @ \ {p}]
  /\ UNCHANGED <<addressed, msgCh, conns, broken, connCh, peers>>

senderRun == takeMsg \/ \E p \in Peer : enqueue(p) \/ dialFail(p)

\* The writer goroutine of p's connection, serveConn at p and the Transmitor's
\* goroutine there.
write(p) ==
  /\ p \notin broken
  /\ connCh[p] # <<>>
  /\ Len(recvCh[p]) < RecvCap
  /\ recvCh' = [recvCh EXCEPT ![p] = Append(@, Head(connCh[p]))]
  /\ connCh' = [connCh EXCEPT ![p] = Tail(@)]
  /\ UNCHANGED <<addressed, msgCh, current, links, loop, handled>>

\* Mutant: the writer goes on after a failed write.
EndedNot(p) == broken

\* The writer returns.  The entry stays in conns, and nobody reads its queue.
Ended(p) == broken \cup {p}

\* A write fails: the writer ends, with the message it had.
writeFail(p) ==
  /\ p \in (Fragile \cap conns) \ broken
  /\ connCh[p] # <<>>
  /\ broken' = Ended(p)
  /\ connCh' = [connCh EXCEPT ![p] = Tail(@)]
  /\ UNCHANGED <<addressed, msgCh, current, dropped, conns, peers>>
-----------------------------------------------------------------------------
(***************************************************************************)
(* A peer.                                                                 *)
(***************************************************************************)

\* What handling m may make the loop send to itself: an ElectMsg on a FinVote or
\* speed vote, a report on the coin, a Propose on a report or on the coin.
Follow(m) == {s \in ToSelf : s < m}

\* Where handling m may leave the loop.  The handlers that send to themselves
\* first send to the others or commit, and that blocks for good when p's own
\* Sender.Run waits for a peer that has stopped and msgCh is full, or when p's
\* Commitor waits behind a full blocksChan.
After(m) == {SELECT} \cup Follow(m) \cup {s \in {BLOCKED} : Follow(m) # {}}

\* Core.Run takes a message and handles it.
handle(p) ==
  LET m == Head(recvCh[p])
  IN /\ p \notin Deaf
     /\ loop[p] = SELECT
     /\ recvCh[p] # <<>>
     /\ recvCh' = [recvCh EXCEPT ![p] = Tail(@)]
     /\ handled' = IF m > 0 THEN [handled EXCEPT ![p] = Append(@, m)] ELSE handled
     /\ \E s \in After(m) : loop' = [loop EXCEPT ![p] = s]
     /\ UNCHANGED <<addressed, msgCh, current, links, connCh>>

\* transmitor.RecvChannel() <- msg in the loop.
selfSend(p) ==
  /\ loop[p] \in ToSelf
  /\ Len(recvCh[p]) < RecvCap
  /\ recvCh' = [recvCh EXCEPT ![p] = Append(@, loop[p])]
  /\ loop' = [loop EXCEPT ![p] = SELECT]
  /\ UNCHANGED <<addressed, msgCh, current, links, connCh, handled>>

Loop(p) == handle(p) \/ selfSend(p)

NetNext ==
  \/ senderRun
  \/ \E to \in {Peer} \cup {{p} : p \in Peer}, id \in 1..MaxMsgs : Send(to, id)
  \/ \E p \in Peer : write(p) \/ writeFail(p) \/ Loop(p)

NetSpec == NetInit /\ [][NetNext]_netVars

\* Every goroutine runs when its channels let it.  Nothing is assumed of a
\* handler's wait: After may choose BLOCKED every time.
NetFairSpec ==
  /\ NetSpec
  /\ WF_netVars(senderRun)
  /\ \A p \in Peer : WF_netVars(write(p)) /\ WF_netVars(Loop(p))
-----------------------------------------------------------------------------
\* The loop of p waits for room in the channel that only it empties.
Choked(p) == loop[p] \in ToSelf /\ Len(recvCh[p]) = RecvCap

\* The loop of p takes no message any more.
Halted(p) == p \in Deaf \/ loop[p] = BLOCKED \/ Choked(p)

\* Nothing but a failing write makes room in the queue of p any more.
Stopped(p) ==
  /\ Len(connCh[p]) = ConnCap
  /\ p \in broken \/ (Halted(p) /\ Len(recvCh[p]) = RecvCap)

\* Sender.Run waits for such a peer, and with it all messages to all others.
Jammed == \E p \in current.rest : Stopped(p)

\* A peer handles what is sent to it in the order of the Sends and without a
\* gap: Dial fails only before the first message that gets through, and after
\* a failed write nothing is sent on that connection or on another.
LinkOrder ==
  \A p \in Peer :
    LET last == dropped[p] + Len(handled[p])
    IN  /\ last <= Len(addressed[p])
        /\ handled[p] = SubSeq(addressed[p], dropped[p] + 1, last)

\* A message to a live peer with a good connection is handled, whatever
\* happens to the other peers, unless Sender.Run waits for a peer whose queue
\* has filled up for good, or the loop of the peer itself waits for ever, on
\* its own recvCh or in a handler.
Handled ==
  \A p \in Peer \ (Deaf \cup Fragile), i \in 1..MaxMsgs :
    i \in Range(addressed[p]) ~> i \in Range(handled[p]) \/ Jammed \/ Halted(p)
=============================================================================
