--------------------------- MODULE NetworkProofs ----------------------------
(***************************************************************************)
(* The links between the nodes, for any number of peers and messages and   *)
(* any capacities.  The messages to a peer that it has not handled are, in *)
(* the order of the Sends, those in its recvCh, those in the queue of its  *)
(* writer, the one in Sender.Run and those in msgCh.                       *)
(***************************************************************************)
EXTENDS Network, SequenceTheorems, TLAPS

\* The numbers of the messages; a loop's messages to itself have none of them.
Id == Nat \ {0}

\* The types of the state, and that only a connection can break.
NetTypes ==
  /\ addressed \in [Peer -> Seq(Id)]
  /\ msgCh \in Seq(NetMessage)
  /\ current \in [id : Nat, rest : SUBSET Peer]
  /\ current.rest # {} => current.id \in Id
  /\ conns \in SUBSET Peer
  /\ broken \in SUBSET conns
  /\ dropped \in [Peer -> Nat]
  /\ connCh \in [Peer -> Seq(Id)]
  /\ recvCh \in [Peer -> Seq(Int)]
  /\ loop \in [Peer -> ToSelf \cup {SELECT, BLOCKED}]
  /\ handled \in [Peer -> Seq(Id)]

\* The messages in a channel, and in msgCh those to p.
Elems(s) == {m \in Id : \E i \in 1..Len(s) : s[i] = m}
ElemsTo(s, p) == {m \in Id : \E i \in 1..Len(s) : p \in s[i].rest /\ s[i].id = m}

\* The messages to p that Sender.Run has not passed on yet.
InRun(p) == {m \in Id : p \in current.rest /\ m = current.id}
Waiting(p) == InRun(p) \cup ElemsTo(msgCh, p)

\* The messages that p has not handled, on their way or lost.
Left(p) == {m \in Id : \E i \in (dropped[p] + Len(handled[p]) + 1)..Len(addressed[p]) :
                          addressed[p][i] = m}

\* Older messages have smaller numbers.
Below(S, T) == \A a \in S, b \in T : a < b
Rising(s) == \A i, j \in 1..Len(s) : i < j /\ s[i] > 0 /\ s[j] > 0 => s[i] < s[j]

\* Send has numbered its messages from 1 on, and they reach Sender.Run in turn.
Numbers ==
  \E c \in Nat :
    /\ Sent = 1..c
    /\ current.id <= c
    /\ \A i \in 1..Len(msgCh) : current.id < msgCh[i].id /\ msgCh[i].id <= c
    /\ \A i, j \in 1..Len(msgCh) : i < j => msgCh[i].id < msgCh[j].id

\* LinkOrder by positions.
HandledFirst(p) ==
  /\ Rising(addressed[p])
  /\ dropped[p] + Len(handled[p]) <= Len(addressed[p])
  /\ \A i \in 1..Len(handled[p]) : handled[p][i] = addressed[p][dropped[p] + i]

\* The messages to p that it has not handled lie in its recvCh, in the queue of
\* its writer and before Sender.Run, the older ones further on.  After a failed
\* write some are lost, all of them younger than the ones in recvCh.
InOrder(p) ==
  LET recv == Elems(recvCh[p])
      conn == Elems(connCh[p])
  IN /\ Rising(recvCh[p])
     /\ recv \subseteq Left(p)
     /\ Below(recv, Left(p) \ recv)
     /\ p \notin broken =>
          /\ Rising(connCh[p])
          /\ Left(p) \ recv = conn \cup Waiting(p)
          /\ Below(conn, Waiting(p))
     /\ p \notin conns => connCh[p] = <<>> /\ recv = {} /\ handled[p] = <<>>

\* The inductive invariant of LinkOrder.
NetInv == NetTypes /\ Numbers /\ \A p \in Peer : HandledFirst(p) /\ InOrder(p)
-----------------------------------------------------------------------------
\* An empty channel.
LEMMA ElemsEmpty == Elems(<<>>) = {} /\ Rising(<<>>) /\ \A p : ElemsTo(<<>>, p) = {}
BY DEF Elems, Rising, ElemsTo

\* The elements of a sequence that grew by one.
LEMMA RangeAppend ==
  ASSUME NEW S, NEW s \in Seq(S), NEW e \in S
  PROVE  Range(Append(s, e)) = Range(s) \cup {e}
<1> DEFINE t == Append(s, e)
<1>1. /\ t \in Seq(S) /\ Len(s) \in Nat /\ Len(t) = Len(s) + 1
      /\ \A i \in 1..Len(s) : t[i] = s[i]
      /\ t[Len(s) + 1] = e
  BY AppendProperties
<1>2. Range(s) = {s[i] : i \in 1..Len(s)} /\ Range(t) = {t[i] : i \in 1..Len(t)}
  BY <1>1, RangeEquality
<1> HIDE DEF t
<1>3. 1..Len(t) = 1..Len(s) \cup {Len(s) + 1}
  BY <1>1
<1>4. Range(t) = Range(s) \cup {e}
  BY <1>1, <1>2, <1>3
<1> QED
  BY <1>4 DEF t

\* A send on a channel adds its message, in order if it is above the others.
LEMMA ElemsAppend ==
  ASSUME NEW s \in Seq(Int), NEW e \in Int
  PROVE  /\ e \in Id => Elems(Append(s, e)) = Elems(s) \cup {e}
         /\ e \notin Id => Elems(Append(s, e)) = Elems(s)
         /\ Rising(s) /\ (e \in Id => Below(Elems(s), {e})) => Rising(Append(s, e))
<1> DEFINE t == Append(s, e)
<1>1. /\ Len(s) \in Nat /\ Len(t) = Len(s) + 1
      /\ \A i \in 1..Len(s) : t[i] = s[i] /\ s[i] \in Int
      /\ t[Len(s) + 1] = e
  BY AppendProperties
<1> HIDE DEF t
<1>2. 1..Len(t) = 1..Len(s) \cup {Len(s) + 1}
  BY <1>1
<1>3. e \in Id => Elems(t) = Elems(s) \cup {e}
  BY <1>1, <1>2 DEF Elems
<1>4. e \notin Id => Elems(t) = Elems(s)
  BY <1>1, <1>2 DEF Elems
<1>5. ASSUME Rising(s), e \in Id => Below(Elems(s), {e}) PROVE Rising(t)
  <2> SUFFICES ASSUME NEW i \in 1..Len(t), NEW j \in 1..Len(t), i < j, t[i] > 0, t[j] > 0
               PROVE  t[i] < t[j]
    BY DEF Rising
  <2>1. i \in 1..Len(s) /\ t[i] = s[i]
    BY <1>1
  <2>2. CASE j \in 1..Len(s)
    BY <1>1, <1>5, <2>1, <2>2 DEF Rising
  <2>3. CASE j = Len(s) + 1
    <3>1. e \in Id /\ s[i] \in Id
      BY <1>1, <2>1, <2>3 DEF Id
    <3>2. s[i] \in Elems(s)
      BY <2>1, <3>1 DEF Elems
    <3> QED
      BY <1>1, <1>5, <2>1, <2>3, <3>1, <3>2 DEF Below
  <2> QED
    BY <1>2, <2>2, <2>3
<1> QED
  BY <1>3, <1>4, <1>5 DEF t

\* A receive takes the least message, if it takes one of the node's at all.
LEMMA ElemsTail ==
  ASSUME NEW s \in Seq(Int), s # <<>>, Rising(s)
  PROVE  /\ Rising(Tail(s))
         /\ Head(s) \in Int
         /\ Head(s) \in Id => /\ Head(s) \in Elems(s)
                              /\ Elems(Tail(s)) = Elems(s) \ {Head(s)}
                              /\ Below({Head(s)}, Elems(Tail(s)))
         /\ Head(s) \notin Id => Elems(Tail(s)) = Elems(s)
<1> DEFINE t == Tail(s)
           h == Head(s)
<1>1. /\ Len(s) \in Nat /\ Len(s) > 0 /\ Len(t) = Len(s) - 1
      /\ \A i \in 1..Len(t) : t[i] = s[i + 1]
      /\ h = s[1] /\ h \in Int
      /\ \A i \in 1..Len(s) : s[i] \in Int
  BY HeadTailProperties, ElementOfSeq
<1> HIDE DEF t, h
<1>2. Rising(t)
  <2> SUFFICES ASSUME NEW i \in 1..Len(t), NEW j \in 1..Len(t), i < j, t[i] > 0, t[j] > 0
               PROVE  t[i] < t[j]
    BY DEF Rising
  <2>1. i + 1 \in 1..Len(s) /\ j + 1 \in 1..Len(s) /\ i + 1 < j + 1
    BY <1>1
  <2> QED
    BY <1>1, <2>1 DEF Rising
<1>3. \A m \in Id : m \in Elems(s) <=> m = h \/ m \in Elems(t)
  <2> TAKE m \in Id
  <2>1. ASSUME m \in Elems(s) PROVE m = h \/ m \in Elems(t)
    <3>1. PICK i \in 1..Len(s) : s[i] = m
      BY <2>1 DEF Elems
    <3>2. CASE i = 1
      BY <1>1, <3>1, <3>2
    <3>3. CASE i # 1
      <4>1. i - 1 \in 1..Len(t) /\ (i - 1) + 1 = i
        BY <1>1, <3>3
      <4>2. t[i - 1] = m
        BY <1>1, <3>1, <4>1
      <4> QED
        BY <4>1, <4>2 DEF Elems
    <3> QED
      BY <3>2, <3>3
  <2>2. ASSUME m \in Elems(t) PROVE m \in Elems(s)
    <3>1. PICK i \in 1..Len(t) : t[i] = m
      BY <2>2 DEF Elems
    <3>2. i + 1 \in 1..Len(s) /\ s[i + 1] = m
      BY <1>1, <3>1
    <3> QED
      BY <3>2 DEF Elems
  <2>3. ASSUME m = h PROVE m \in Elems(s)
    <3>1. 1 \in 1..Len(s) /\ s[1] = m
      BY <1>1, <2>3
    <3> QED
      BY <3>1 DEF Elems
  <2> QED
    BY <2>1, <2>2, <2>3
<1>4. ASSUME h \in Id PROVE Below({h}, Elems(t))
  <2> SUFFICES ASSUME NEW m \in Elems(t) PROVE h < m
    BY DEF Below
  <2>1. PICK i \in 1..Len(t) : t[i] = m /\ m \in Id
    BY DEF Elems
  <2>2. 1 \in 1..Len(s) /\ i + 1 \in 1..Len(s) /\ 1 < i + 1 /\ s[i + 1] = m
    BY <1>1, <2>1
  <2>3. s[1] > 0 /\ s[i + 1] > 0
    BY <1>1, <1>4, <2>1, <2>2 DEF Id
  <2> QED
    BY <1>1, <2>2, <2>3 DEF Rising
<1>5. Elems(t) \subseteq Id /\ Elems(s) \subseteq Id /\ \A m \in Id : ~(m < m)
  BY DEF Elems, Id
<1>6. ASSUME h \in Id PROVE h \in Elems(s) /\ Elems(t) = Elems(s) \ {h}
  <2>1. h \notin Elems(t)
    BY <1>4, <1>5, <1>6 DEF Below
  <2> QED
    BY <1>3, <1>5, <1>6, <2>1
<1>7. ASSUME h \notin Id PROVE Elems(t) = Elems(s)
  BY <1>3, <1>5, <1>7
<1> QED
  BY <1>1, <1>2, <1>4, <1>6, <1>7 DEF t, h

\* What a NetMessage carries.
LEMMA MessageId == \A m \in NetMessage : m.id \in Id /\ m.rest \subseteq Peer
BY NetworkAssumption DEF NetMessage, Id

\* Send adds its message to those for its addresses.
LEMMA ToAppend ==
  ASSUME NEW s \in Seq(NetMessage), NEW e \in NetMessage, NEW p
  PROVE  /\ p \in e.rest => ElemsTo(Append(s, e), p) = ElemsTo(s, p) \cup {e.id}
         /\ p \notin e.rest => ElemsTo(Append(s, e), p) = ElemsTo(s, p)
<1> DEFINE t == Append(s, e)
<1>1. /\ Len(s) \in Nat /\ Len(t) = Len(s) + 1
      /\ \A i \in 1..Len(s) : t[i] = s[i]
      /\ t[Len(s) + 1] = e /\ e.id \in Id
  BY AppendProperties, MessageId
<1> HIDE DEF t
<1>2. 1..Len(t) = 1..Len(s) \cup {Len(s) + 1}
  BY <1>1
<1>3. p \in e.rest => ElemsTo(t, p) = ElemsTo(s, p) \cup {e.id}
  BY <1>1, <1>2 DEF ElemsTo
<1>4. p \notin e.rest => ElemsTo(t, p) = ElemsTo(s, p)
  BY <1>1, <1>2 DEF ElemsTo
<1> QED
  BY <1>3, <1>4 DEF t

\* Sender.Run takes the first message from those for its addresses.
LEMMA ToTail ==
  ASSUME NEW s \in Seq(NetMessage), s # <<>>, NEW p
  PROVE  /\ p \in Head(s).rest => ElemsTo(s, p) = ElemsTo(Tail(s), p) \cup {Head(s).id}
         /\ p \notin Head(s).rest => ElemsTo(s, p) = ElemsTo(Tail(s), p)
<1> DEFINE t == Tail(s)
           h == Head(s)
<1>1. /\ Len(s) \in Nat /\ Len(s) > 0 /\ Len(t) = Len(s) - 1
      /\ \A i \in 1..Len(t) : t[i] = s[i + 1]
      /\ h = s[1] /\ h.id \in Id
  BY HeadTailProperties, MessageId
<1> HIDE DEF t, h
<1>2. ASSUME NEW m \in ElemsTo(s, p) PROVE m \in ElemsTo(t, p) \/ (p \in h.rest /\ m = h.id)
  <2>1. PICK i \in 1..Len(s) : p \in s[i].rest /\ s[i].id = m /\ m \in Id
    BY DEF ElemsTo
  <2>2. CASE i = 1
    BY <1>1, <2>1, <2>2
  <2>3. CASE i # 1
    <3>1. i - 1 \in 1..Len(t) /\ (i - 1) + 1 = i
      BY <1>1, <2>3
    <3>2. t[i - 1] = s[i]
      BY <1>1, <3>1
    <3> QED
      BY <2>1, <3>1, <3>2 DEF ElemsTo
  <2> QED
    BY <2>2, <2>3
<1>3. ASSUME NEW m \in ElemsTo(t, p) PROVE m \in ElemsTo(s, p)
  <2>1. PICK i \in 1..Len(t) : p \in t[i].rest /\ t[i].id = m /\ m \in Id
    BY DEF ElemsTo
  <2>2. i + 1 \in 1..Len(s) /\ s[i + 1] = t[i]
    BY <1>1
  <2> QED
    BY <2>1, <2>2 DEF ElemsTo
<1>4. p \in h.rest => h.id \in ElemsTo(s, p)
  <2>1. 1 \in 1..Len(s)
    BY <1>1
  <2> QED
    BY <1>1, <2>1 DEF ElemsTo
<1> QED
  BY <1>2, <1>3, <1>4 DEF t, h

\* The message in Sender.Run is the oldest that is to be passed on to p.
LEMMA RunFirst ==
  ASSUME NetTypes, Numbers, NEW p \in current.rest
  PROVE  /\ current.id \in Id
         /\ Waiting(p) = ElemsTo(msgCh, p) \cup {current.id}
         /\ Below({current.id}, ElemsTo(msgCh, p))
         /\ current.id \notin ElemsTo(msgCh, p)
<1>1. current.id \in Id
  BY DEF NetTypes
<1>2. Waiting(p) = ElemsTo(msgCh, p) \cup {current.id}
  BY <1>1 DEF Waiting, InRun
<1>3. \A i \in 1..Len(msgCh) : current.id < msgCh[i].id
  BY DEF Numbers
<1>4. Below({current.id}, ElemsTo(msgCh, p))
  BY <1>3 DEF Below, ElemsTo
<1>5. current.id \notin ElemsTo(msgCh, p)
  BY <1>1, <1>4 DEF Below, Id
<1> QED
  BY <1>1, <1>2, <1>4, <1>5

\* The least message left is the next one in the order of the Sends, and the
\* others are left after it.
LEMMA FirstLeft ==
  ASSUME NetTypes, NEW p \in Peer, HandledFirst(p),
         NEW m \in Left(p), Below({m}, Left(p) \ {m})
  PROVE  LET k == dropped[p] + Len(handled[p]) + 1
         IN /\ k \in 1..Len(addressed[p])
            /\ addressed[p][k] = m
            /\ Left(p) \ {m} = {l \in Id : \E i \in (k + 1)..Len(addressed[p]) :
                                             addressed[p][i] = l}
<1> DEFINE s == addressed[p]
           k == dropped[p] + Len(handled[p]) + 1
           n == Len(addressed[p])
<1>1. /\ k \in Nat /\ k > 0 /\ n \in Nat
      /\ \A i \in 1..n : s[i] \in Id
  BY ElementOfSeq DEF NetTypes
<1>2. /\ \A i, j \in 1..n : i < j /\ s[i] > 0 /\ s[j] > 0 => s[i] < s[j]
      /\ Left(p) = {l \in Id : \E i \in k..n : s[i] = l}
  BY DEF HandledFirst, Rising, Left
<1> HIDE DEF s, k, n
<1>3. PICK i \in k..n : s[i] = m
  BY <1>2
<1>4. k \in 1..n /\ i \in 1..n
  BY <1>1, <1>3
<1>5. s[k] \in Left(p) /\ s[k] \in Id /\ m \in Id
  <2>1. k \in k..n
    BY <1>1, <1>4
  <2> QED
    BY <1>1, <1>2, <1>3, <1>4, <2>1
<1>6. s[k] = m
  <2> SUFFICES ASSUME s[k] # m PROVE FALSE
    OBVIOUS
  <2>1. m < s[k]
    BY <1>5 DEF Below
  <2>2. k < i
    BY <1>1, <1>3, <1>4
  <2>3. s[k] < s[i]
    BY <1>2, <1>3, <1>4, <1>5, <2>2 DEF Id
  <2> QED
    BY <1>3, <1>5, <2>1, <2>3 DEF Id
<1>7. ASSUME NEW l \in Left(p) \ {m} PROVE \E j \in (k + 1)..n : s[j] = l
  <2>1. PICK j \in k..n : s[j] = l
    BY <1>2
  <2>2. j # k
    BY <1>6, <2>1
  <2>3. j \in (k + 1)..n
    BY <1>1, <2>1, <2>2
  <2> QED
    BY <2>1, <2>3
<1>8. ASSUME NEW l \in Id, NEW j \in (k + 1)..n, s[j] = l PROVE l \in Left(p) \ {m}
  <2>1. j \in k..n /\ j \in 1..n /\ k < j
    BY <1>1, <1>4
  <2>2. l \in Left(p)
    BY <1>2, <1>8, <2>1
  <2>3. m < l
    BY <1>2, <1>4, <1>5, <1>6, <1>8, <2>1 DEF Id
  <2> QED
    BY <1>5, <2>2, <2>3 DEF Id
<1>9. Left(p) \subseteq Id
  BY <1>2
<1>10. Left(p) \ {m} = {l \in Id : \E j \in (k + 1)..n : s[j] = l}
  BY <1>7, <1>8, <1>9
<1> QED
  BY <1>4, <1>6, <1>10 DEF s, k, n

\* What waits for p's writer depends on current and msgCh alone ...
LEMMA WaitingKept ==
  ASSUME NEW p, UNCHANGED <<current, msgCh>>
  PROVE  Waiting(p)' = Waiting(p)
BY DEF Waiting, InRun

\* ... and loses only current's message when Sender.Run is done with it for p.
LEMMA WaitingPassedOn ==
  ASSUME NEW p, UNCHANGED msgCh,
         current'.id = current.id, current'.rest = current.rest \ {p}
  PROVE  /\ Waiting(p)' = ElemsTo(msgCh, p)
         /\ \A q : q # p => Waiting(q)' = Waiting(q)
<1>1. p \notin current'.rest /\ \A q : q # p => (q \in current'.rest <=> q \in current.rest)
  OBVIOUS
<1>2. InRun(p)' = {} /\ \A q : q # p => InRun(q)' = InRun(q)
  BY <1>1 DEF InRun
<1> QED
  BY <1>2 DEF Waiting

\* What is left for p, and that it handled the messages before, stay as they
\* are with the three histories.
LEMMA HistoryKept ==
  ASSUME NEW p, addressed'[p] = addressed[p], dropped'[p] = dropped[p],
         handled'[p] = handled[p]
  PROVE  Left(p)' = Left(p) /\ (HandledFirst(p) => HandledFirst(p)')
BY DEF Left, HandledFirst

\* A step that leaves the link to p alone.
LEMMA Untouched ==
  ASSUME NEW p \in Peer, HandledFirst(p), InOrder(p),
         addressed'[p] = addressed[p], dropped'[p] = dropped[p], handled'[p] = handled[p],
         recvCh'[p] = recvCh[p], connCh'[p] = connCh[p], Waiting(p)' = Waiting(p),
         p \in broken' <=> p \in broken, p \in conns => p \in conns'
  PROVE  HandledFirst(p)' /\ InOrder(p)'
<1>1. HandledFirst(p)'
  BY DEF HandledFirst
<1>2. Left(p)' = Left(p)
  BY DEF Left
<1> QED
  BY <1>1, <1>2 DEF InOrder
-----------------------------------------------------------------------------
\* Every step keeps the types: Send ...
LEMMA SendTypes ==
  ASSUME NetTypes, NEW to \in SUBSET Peer, NEW id \in 1..MaxMsgs, Send(to, id)
  PROVE  NetTypes'
<1> DEFINE msg == [id |-> id, rest |-> to]
<1>1. id \in Id
  BY NetworkAssumption DEF Id
<1>2. /\ msgCh' = Append(msgCh, msg)
      /\ addressed' = [p \in Peer |-> IF p \in to THEN Append(addressed[p], id) ELSE addressed[p]]
      /\ UNCHANGED <<current, dropped, conns, broken, connCh, recvCh, loop, handled>>
  BY DEF Send, links, peers
<1>3. msg \in NetMessage
  BY <1>1 DEF NetMessage
<1> HIDE DEF msg
<1>4. msgCh' \in Seq(NetMessage)
  BY <1>2, <1>3, AppendProperties DEF NetTypes
<1>5. addressed' \in [Peer -> Seq(Id)]
  BY <1>1, <1>2, AppendProperties DEF NetTypes
<1> QED
  BY <1>2, <1>4, <1>5 DEF NetTypes

\* ... Sender.Run ...
LEMMA SenderTypes ==
  ASSUME NetTypes, senderRun PROVE NetTypes'
<1>1. CASE takeMsg
  <2>1. Head(msgCh) \in NetMessage /\ Tail(msgCh) \in Seq(NetMessage)
    BY <1>1, HeadTailProperties DEF NetTypes, takeMsg
  <2>2. Head(msgCh) \in [id : Nat, rest : SUBSET Peer] /\ Head(msgCh).id \in Id
    <3>1. Head(msgCh).id \in Id /\ Id \subseteq Nat
      BY <2>1, MessageId DEF Id
    <3> QED
      BY <2>1, <3>1 DEF NetMessage
  <2> QED
    BY <1>1, <2>1, <2>2 DEF NetTypes, takeMsg, links, peers
<1>2. ASSUME NEW p \in Peer, enqueue(p) PROVE NetTypes'
  <2>1. current' = [current EXCEPT !.rest = @ \ {p}] /\ p \in current.rest
        /\ connCh' = [connCh EXCEPT ![p] = Append(@, current.id)]
        /\ conns' = conns \cup {p}
        /\ UNCHANGED <<addressed, msgCh, dropped, broken, recvCh, loop, handled>>
    BY <1>2 DEF enqueue, peers
  <2>2. current' \in [id : Nat, rest : SUBSET Peer] /\ current'.id = current.id
        /\ current.id \in Id
    BY <2>1 DEF NetTypes
  <2>3. connCh' \in [Peer -> Seq(Id)]
    BY <2>1, <2>2, AppendProperties DEF NetTypes
  <2> QED
    BY <2>1, <2>2, <2>3 DEF NetTypes
<1>3. ASSUME NEW p \in Peer, dialFail(p) PROVE NetTypes'
  <2>1. current' = [current EXCEPT !.rest = @ \ {p}] /\ p \in current.rest
        /\ dropped' = [dropped EXCEPT ![p] = @ + 1]
        /\ UNCHANGED <<addressed, msgCh, conns, broken, connCh, recvCh, loop, handled>>
    BY <1>3 DEF dialFail, peers
  <2>2. current' \in [id : Nat, rest : SUBSET Peer] /\ current'.id = current.id
        /\ current.id \in Id
    BY <2>1 DEF NetTypes
  <2>3. dropped' \in [Peer -> Nat]
    BY <2>1 DEF NetTypes
  <2> QED
    BY <2>1, <2>2, <2>3 DEF NetTypes
<1> QED
  BY <1>1, <1>2, <1>3 DEF senderRun

\* ... the writers and the peers.
LEMMA PeerTypes ==
  ASSUME NetTypes, NEW p \in Peer, write(p) \/ writeFail(p) \/ Loop(p) PROVE NetTypes'
<1>1. /\ connCh[p] \in Seq(Id) /\ recvCh[p] \in Seq(Int) /\ handled[p] \in Seq(Id)
      /\ loop[p] \in Int /\ Id \subseteq Int
  <2>1. /\ connCh[p] \in Seq(Id) /\ recvCh[p] \in Seq(Int) /\ handled[p] \in Seq(Id)
        /\ loop[p] \in ToSelf \cup {SELECT, BLOCKED}
    BY DEF NetTypes
  <2>2. ToSelf \cup {SELECT, BLOCKED} \subseteq Int /\ Id \subseteq Int
    BY DEF ToSelf, ELECT, REPORT, PROPOSE, SELECT, BLOCKED, Id
  <2> QED
    BY <2>1, <2>2
<1>2. CASE write(p)
  <2>1. Head(connCh[p]) \in Int /\ Tail(connCh[p]) \in Seq(Id)
    BY <1>1, <1>2, HeadTailProperties DEF write
  <2>2. recvCh' \in [Peer -> Seq(Int)]
    BY <1>1, <1>2, <2>1, AppendProperties DEF write, NetTypes
  <2>3. connCh' \in [Peer -> Seq(Id)]
    BY <1>2, <2>1 DEF write, NetTypes
  <2> QED
    BY <1>2, <2>2, <2>3 DEF NetTypes, write, links
<1>3. CASE writeFail(p)
  <2>1. Tail(connCh[p]) \in Seq(Id)
    BY <1>1, <1>3, HeadTailProperties DEF writeFail
  <2>2. connCh' \in [Peer -> Seq(Id)]
    BY <1>3, <2>1 DEF writeFail, NetTypes
  <2> QED
    BY <1>3, <2>2 DEF NetTypes, writeFail, peers, Ended
<1>4. CASE handle(p)
  <2>1. Head(recvCh[p]) \in Int /\ Tail(recvCh[p]) \in Seq(Int)
    BY <1>1, <1>4, HeadTailProperties DEF handle
  <2>2. recvCh' \in [Peer -> Seq(Int)]
    BY <1>4, <2>1 DEF handle, NetTypes
  <2>3. handled' \in [Peer -> Seq(Id)]
    <3>1. CASE Head(recvCh[p]) > 0
      <4>1. Head(recvCh[p]) \in Id
        BY <2>1, <3>1 DEF Id
      <4>2. Append(handled[p], Head(recvCh[p])) \in Seq(Id)
        BY <1>1, <4>1, AppendProperties
      <4> QED
        BY <1>4, <3>1, <4>2 DEF handle, NetTypes
    <3>2. CASE ~(Head(recvCh[p]) > 0)
      BY <1>4, <3>2 DEF handle, NetTypes
    <3> QED
      BY <3>1, <3>2
  <2>4. loop' \in [Peer -> ToSelf \cup {SELECT, BLOCKED}]
    BY <1>4 DEF handle, NetTypes, After, Follow
  <2>5. UNCHANGED <<addressed, msgCh, current, dropped, conns, broken, connCh>>
    BY <1>4 DEF handle, links
  <2> QED
    BY <2>2, <2>3, <2>4, <2>5 DEF NetTypes
<1>5. CASE selfSend(p)
  <2>1. recvCh' \in [Peer -> Seq(Int)]
    BY <1>1, <1>5, AppendProperties DEF selfSend, NetTypes
  <2> QED
    BY <1>5, <2>1 DEF NetTypes, selfSend, links
<1> QED
  BY <1>2, <1>3, <1>4, <1>5 DEF Loop
-----------------------------------------------------------------------------
\* Send numbers the messages in the order in which it takes them.
LEMMA SendNumbers ==
  ASSUME NetTypes, Numbers,
         NEW to \in SUBSET Peer, to # {}, NEW id \in 1..MaxMsgs, Send(to, id)
  PROVE  /\ Numbers'
         /\ id \in Id
         /\ \A p \in Peer : \A i \in 1..Len(addressed[p]) : addressed[p][i] < id
         /\ \A p \in Peer : Below(Waiting(p), {id})
<1> DEFINE msg == [id |-> id, rest |-> to]
<1>1. PICK c \in Nat : /\ Sent = 1..c
                       /\ current.id <= c
                       /\ \A i \in 1..Len(msgCh) : current.id < msgCh[i].id /\ msgCh[i].id <= c
                       /\ \A i, j \in 1..Len(msgCh) : i < j => msgCh[i].id < msgCh[j].id
  BY DEF Numbers
<1>2. id \in Id /\ id = c + 1
  <2>1. id \in Id
    BY NetworkAssumption DEF Id
  <2>2. 1..c = 1..(id - 1)
    BY <1>1 DEF Send
  <2> QED
    BY <1>1, <2>1, <2>2 DEF Id
<1>3. /\ msgCh' = Append(msgCh, msg)
      /\ addressed' = [p \in Peer |-> IF p \in to THEN Append(addressed[p], id) ELSE addressed[p]]
      /\ current' = current
  BY DEF Send
<1>5. msg \in NetMessage /\ msg.id = id
  BY DEF NetMessage
<1> HIDE DEF msg
<1>6. ASSUME NEW p \in Peer, NEW i \in 1..Len(addressed[p]) PROVE addressed[p][i] \in 1..c
  <2>1. addressed[p][i] \in Range(addressed[p])
    BY DEF Range, NetTypes
  <2> QED
    BY <1>1, <2>1 DEF Sent
<1>7. Sent' = Sent \cup {id}
  <2>1. ASSUME NEW p \in Peer
        PROVE  Range(addressed'[p]) = IF p \in to THEN Range(addressed[p]) \cup {id}
                                                  ELSE Range(addressed[p])
    <3>1. CASE p \in to
      <4>1. addressed[p] \in Seq(Id) /\ addressed'[p] = Append(addressed[p], id)
        BY <1>3, <3>1 DEF NetTypes
      <4>2. Range(addressed'[p]) = Range(addressed[p]) \cup {id}
        BY <1>2, <4>1, RangeAppend
      <4> QED
        BY <3>1, <4>2
    <3>2. CASE p \notin to
      BY <1>3, <3>2 DEF NetTypes
    <3> QED
      BY <3>1, <3>2
  <2>2. PICK q \in Peer : q \in to
    OBVIOUS
  <2>3. \A x : x \in Sent <=> \E p \in Peer : x \in Range(addressed[p])
    BY DEF Sent
  <2>4. \A x : x \in Sent' <=> \E p \in Peer : x \in Range(addressed'[p])
    BY DEF Sent
  <2>5. ASSUME NEW x PROVE x \in Sent' <=> x \in Sent \/ x = id
    <3>1. ASSUME x \in Sent' PROVE x \in Sent \/ x = id
      <4>1. PICK p \in Peer : x \in Range(addressed'[p])
        BY <2>4, <3>1
      <4>2. x \in Range(addressed[p]) \/ x = id
        BY <2>1, <4>1
      <4> QED
        BY <2>3, <4>2
    <3>2. ASSUME x \in Sent PROVE x \in Sent'
      <4>1. PICK p \in Peer : x \in Range(addressed[p])
        BY <2>3, <3>2
      <4>2. x \in Range(addressed'[p])
        BY <2>1, <4>1
      <4> QED
        BY <2>4, <4>2
    <3>3. ASSUME x = id PROVE x \in Sent'
      <4>1. x \in Range(addressed'[q])
        BY <2>1, <2>2, <3>3
      <4> QED
        BY <2>4, <4>1
    <3> QED
      BY <3>1, <3>2, <3>3
  <2> QED
    BY <2>5
<1>8. Sent' = 1..(c + 1)
  BY <1>1, <1>2, <1>7
<1>9. /\ Len(msgCh) \in Nat /\ Len(msgCh') = Len(msgCh) + 1
      /\ \A i \in 1..Len(msgCh) : msgCh'[i] = msgCh[i] /\ msgCh[i].id \in Id
      /\ msgCh'[Len(msgCh) + 1] = msg
  <2>1. msgCh \in Seq(NetMessage)
    BY DEF NetTypes
  <2> QED
    BY <1>3, <1>5, <2>1, AppendProperties, ElementOfSeq, MessageId
<1>10. current'.id = current.id /\ current.id \in Nat
  BY <1>3 DEF NetTypes
<1>11. Numbers'
  <2>1. c + 1 \in Nat /\ current'.id <= c + 1
    BY <1>1, <1>10
  <2>2. ASSUME NEW i \in 1..Len(msgCh')
        PROVE  current'.id < msgCh'[i].id /\ msgCh'[i].id <= c + 1
    BY <1>1, <1>2, <1>5, <1>9, <1>10 DEF Id
  <2>3. ASSUME NEW i \in 1..Len(msgCh'), NEW j \in 1..Len(msgCh'), i < j
        PROVE  msgCh'[i].id < msgCh'[j].id
    <3>1. i \in 1..Len(msgCh)
      BY <1>9, <2>3
    <3>2. CASE j \in 1..Len(msgCh)
      BY <1>1, <1>9, <2>3, <3>1, <3>2
    <3>3. CASE j = Len(msgCh) + 1
      BY <1>1, <1>2, <1>5, <1>9, <3>1, <3>3 DEF Id
    <3> QED
      BY <1>9, <3>2, <3>3
  <2> QED
    BY <1>8, <2>1, <2>2, <2>3 DEF Numbers
<1>12. ASSUME NEW p \in Peer PROVE Below(Waiting(p), {id})
  <2> SUFFICES ASSUME NEW m \in Waiting(p) PROVE m < id
    BY DEF Below
  <2>1. CASE m \in InRun(p)
    BY <1>1, <1>2, <1>10, <2>1 DEF InRun
  <2>2. CASE m \in ElemsTo(msgCh, p)
    <3>1. PICK i \in 1..Len(msgCh) : msgCh[i].id = m
      BY <2>2 DEF ElemsTo
    <3> QED
      BY <1>1, <1>2, <1>9, <3>1 DEF Id
  <2> QED
    BY <2>1, <2>2 DEF Waiting
<1>13. \A p \in Peer : \A i \in 1..Len(addressed[p]) : addressed[p][i] < id
  BY <1>2, <1>6
<1> QED
  BY <1>2, <1>11, <1>12, <1>13

\* The other steps take messages from msgCh at most.
LEMMA OtherNumbers ==
  ASSUME NetTypes, Numbers, addressed' = addressed,
         \/ takeMsg
         \/ msgCh' = msgCh /\ current'.id = current.id
  PROVE  Numbers'
<1>1. PICK c \in Nat : /\ Sent = 1..c
                       /\ current.id <= c
                       /\ \A i \in 1..Len(msgCh) : current.id < msgCh[i].id /\ msgCh[i].id <= c
                       /\ \A i, j \in 1..Len(msgCh) : i < j => msgCh[i].id < msgCh[j].id
  BY DEF Numbers
<1>2. Sent' = Sent
  BY DEF Sent
<1>3. CASE takeMsg
  <2>1. msgCh # <<>> /\ msgCh' = Tail(msgCh) /\ current' = Head(msgCh) /\ msgCh \in Seq(NetMessage)
    BY <1>3 DEF takeMsg, NetTypes
  <2>2. /\ Len(msgCh) \in Nat /\ Len(msgCh) > 0 /\ Len(msgCh') = Len(msgCh) - 1
        /\ \A i \in 1..Len(msgCh') : msgCh'[i] = msgCh[i + 1]
        /\ current' = msgCh[1]
    BY <2>1, HeadTailProperties
  <2>3. \A i \in 1..Len(msgCh') : i + 1 \in 1..Len(msgCh) /\ 1 < i + 1
    BY <2>2
  <2>4. 1 \in 1..Len(msgCh)
    BY <2>2
  <2>5. /\ current'.id <= c
        /\ \A i \in 1..Len(msgCh') : current'.id < msgCh'[i].id /\ msgCh'[i].id <= c
    BY <1>1, <2>2, <2>3, <2>4
  <2>6. ASSUME NEW i \in 1..Len(msgCh'), NEW j \in 1..Len(msgCh'), i < j
        PROVE  msgCh'[i].id < msgCh'[j].id
    <3>1. i + 1 < j + 1
      BY <2>2, <2>6
    <3> QED
      BY <1>1, <2>2, <2>3, <3>1
  <2> QED
    BY <1>1, <1>2, <2>5, <2>6 DEF Numbers
<1>4. CASE msgCh' = msgCh /\ current'.id = current.id
  BY <1>1, <1>2, <1>4 DEF Numbers
<1> QED
  BY <1>3, <1>4
-----------------------------------------------------------------------------
\* A new message is the last one to each of its addresses.
LEMMA SendOrder ==
  ASSUME NetInv, NEW to \in SUBSET Peer, to # {}, NEW id \in 1..MaxMsgs, Send(to, id),
         NEW p \in Peer
  PROVE  HandledFirst(p)' /\ InOrder(p)'
<1> DEFINE msg == [id |-> id, rest |-> to]
<1>1. /\ id \in Id
      /\ \A i \in 1..Len(addressed[p]) : addressed[p][i] < id
      /\ Below(Waiting(p), {id})
  BY SendNumbers DEF NetInv
<1>2. /\ msgCh' = Append(msgCh, msg)
      /\ addressed' = [q \in Peer |-> IF q \in to THEN Append(addressed[q], id) ELSE addressed[q]]
      /\ UNCHANGED <<current, dropped, conns, broken, connCh, recvCh, loop, handled>>
  BY DEF Send, links, peers
<1>3. NetTypes /\ HandledFirst(p) /\ InOrder(p) /\ msgCh \in Seq(NetMessage)
  <2>1. NetTypes /\ HandledFirst(p) /\ InOrder(p)
    BY DEF NetInv
  <2>2. msgCh \in Seq(NetMessage)
    BY <2>1 DEF NetTypes
  <2> QED
    BY <2>1, <2>2
<1>4. msg \in NetMessage /\ msg.id = id /\ msg.rest = to
  BY DEF NetMessage
<1> HIDE DEF msg
<1>5. InRun(p)' = InRun(p)
  BY <1>2 DEF InRun
<1>6. CASE p \notin to
  <2>1. ElemsTo(msgCh', p) = ElemsTo(msgCh, p)
    BY <1>2, <1>3, <1>4, <1>6, ToAppend
  <2>2. Waiting(p)' = Waiting(p) /\ addressed'[p] = addressed[p]
    BY <1>2, <1>5, <1>6, <2>1 DEF Waiting
  <2> QED
    BY <1>2, <1>3, <2>2, Untouched
<1>7. CASE p \in to
  <2>1. ElemsTo(msgCh', p) = ElemsTo(msgCh, p) \cup {id}
    BY <1>2, <1>3, <1>4, <1>7, ToAppend
  <2>2. Waiting(p)' = Waiting(p) \cup {id}
    BY <1>5, <2>1 DEF Waiting
  <2> DEFINE s == addressed[p]
             t == addressed'[p]
             k == dropped[p] + Len(handled[p]) + 1
  <2>3. s \in Seq(Id) /\ t = Append(s, id) /\ k \in Nat /\ k > 0
    <3>1. s \in Seq(Id) /\ dropped[p] \in Nat /\ Len(handled[p]) \in Nat
      BY <1>3 DEF NetTypes
    <3>2. t = Append(s, id)
      BY <1>2, <1>7
    <3> QED
      BY <3>1, <3>2
  <2>4. /\ Len(s) \in Nat /\ Len(t) = Len(s) + 1
        /\ \A i \in 1..Len(s) : t[i] = s[i] /\ s[i] \in Id
        /\ t[Len(s) + 1] = id
    BY <1>1, <2>3, AppendProperties, ElementOfSeq
  <2>5. dropped'[p] = dropped[p] /\ handled'[p] = handled[p] /\ connCh'[p] = connCh[p]
        /\ recvCh'[p] = recvCh[p] /\ broken' = broken /\ conns' = conns
    BY <1>2
  <2>6. /\ Rising(s) /\ k <= Len(s) + 1
        /\ dropped[p] + Len(handled[p]) <= Len(s) /\ dropped[p] \in Nat /\ Len(handled[p]) \in Nat
        /\ \A i \in 1..Len(handled[p]) : handled[p][i] = s[dropped[p] + i]
    <3>1. dropped[p] + Len(handled[p]) <= Len(s) /\ dropped[p] \in Nat /\ Len(handled[p]) \in Nat
      BY <1>3 DEF HandledFirst, NetTypes
    <3>2. k <= Len(s) + 1
      <4>1. Len(s) \in Nat
        BY <2>4
      <4> QED
        BY <3>1, <4>1
    <3>3. Rising(s) /\ \A i \in 1..Len(handled[p]) : handled[p][i] = s[dropped[p] + i]
      BY <1>3 DEF HandledFirst
    <3> QED
      BY <3>1, <3>2, <3>3
  <2>7. Rising(t)
    <3>1. s \in Seq(Int) /\ id \in Int
      <4>1. Id \subseteq Int
        BY DEF Id
      <4> QED
        BY <1>1, <2>3, <4>1, SeqMonotonic
    <3>2. Below(Elems(s), {id})
      <4> SUFFICES ASSUME NEW l \in Elems(s) PROVE l < id
        BY DEF Below
      <4>1. PICK i \in 1..Len(s) : s[i] = l
        BY DEF Elems
      <4> QED
        BY <1>1, <4>1
    <3> HIDE DEF s, t, k
    <3> QED
      BY <2>3, <2>6, <3>1, <3>2, ElemsAppend
  <2>8. HandledFirst(p)'
    <3>1. /\ dropped[p] \in Nat /\ Len(handled[p]) \in Nat
          /\ dropped[p] + Len(handled[p]) <= Len(s)
      BY <2>6
    <3>2. Len(s) \in Nat /\ Len(t) = Len(s) + 1
      BY <2>4
    <3> HIDE DEF s, t, k
    <3>3. \A i \in 1..Len(handled[p]) : dropped[p] + i \in 1..Len(s)
      BY <3>1, <3>2
    <3>4. dropped[p] + Len(handled[p]) <= Len(t)
      BY <3>1, <3>2
    <3>5. \A i \in 1..Len(handled[p]) : handled[p][i] = t[dropped[p] + i]
      BY <2>4, <2>6, <3>3
    <3> USE DEF t
    <3> QED
      BY <2>5, <2>7, <3>4, <3>5 DEF HandledFirst
  <2>9. Left(p)' = Left(p) \cup {id} /\ id \notin Left(p) /\ Below(Left(p), {id})
    <3>1. Left(p) = {l \in Id : \E i \in k..Len(s) : s[i] = l}
      BY DEF Left
    <3>2. Left(p)' = {l \in Id : \E i \in k..Len(t) : t[i] = l}
      BY <2>5 DEF Left
    <3>3. k..Len(t) = k..Len(s) \cup {Len(s) + 1} /\ k..Len(s) \subseteq 1..Len(s)
      BY <2>3, <2>4, <2>6
    <3>4. Below(Left(p), {id})
      BY <1>1, <3>1, <3>3 DEF Below
    <3>5. id \notin Left(p)
      BY <1>1, <3>4 DEF Below, Id
    <3> HIDE DEF s, t, k
    <3>6. Left(p)' = Left(p) \cup {id}
      <4>1. ASSUME NEW l \in Left(p)' PROVE l \in Left(p) \cup {id}
        <5>1. PICK i \in k..Len(t) : t[i] = l /\ l \in Id
          BY <3>2
        <5> QED
          BY <2>4, <3>1, <3>3, <5>1
      <4>2. ASSUME NEW l \in Left(p) PROVE l \in Left(p)'
        <5>1. PICK i \in k..Len(s) : s[i] = l /\ l \in Id
          BY <3>1
        <5> QED
          BY <2>4, <3>2, <3>3, <5>1
      <4>3. id \in Left(p)'
        BY <1>1, <2>4, <3>2, <3>3
      <4> QED
        BY <4>1, <4>2, <4>3
    <3> QED
      BY <3>4, <3>5, <3>6
  <2> HIDE DEF s, t, k
  <2>10. InOrder(p)'
    <3> DEFINE recv == Elems(recvCh[p])
               conn == Elems(connCh[p])
    <3>1. recv' = recv /\ conn' = conn
      BY <2>5
    <3>2. /\ Rising(recvCh[p])
          /\ recv \subseteq Left(p)
          /\ Below(recv, Left(p) \ recv)
          /\ p \notin broken =>
               /\ Rising(connCh[p])
               /\ Left(p) \ recv = conn \cup Waiting(p)
               /\ Below(conn, Waiting(p))
          /\ p \notin conns => connCh[p] = <<>> /\ recv = {} /\ handled[p] = <<>>
      BY <1>3 DEF InOrder
    <3> HIDE DEF recv, conn
    <3>3. recv \subseteq Left(p)' /\ Left(p)' \ recv = (Left(p) \ recv) \cup {id}
      BY <2>9, <3>2
    <3>4. Below(recv, Left(p)' \ recv)
      BY <2>9, <3>2, <3>3 DEF Below
    <3>5. ASSUME p \notin broken
          PROVE  /\ Left(p)' \ recv = conn \cup Waiting(p)'
                 /\ Below(conn, Waiting(p)')
      <4>1. conn \subseteq Left(p)
        BY <3>2, <3>5
      <4> QED
        BY <2>2, <2>9, <3>2, <3>3, <3>5, <4>1 DEF Below
    <3> QED
      BY <2>5, <3>1, <3>2, <3>3, <3>4, <3>5 DEF InOrder, recv, conn
  <2> QED
    BY <2>8, <2>10
<1> QED
  BY <1>6, <1>7

\* Sender.Run takes a message: the ones to pass on to p are the same.
LEMMA takeMsgOrder ==
  ASSUME NetInv, takeMsg, NEW p \in Peer
  PROVE  HandledFirst(p)' /\ InOrder(p)'
<1>1. /\ current.rest = {} /\ msgCh # <<>> /\ current' = Head(msgCh) /\ msgCh' = Tail(msgCh)
      /\ UNCHANGED <<addressed, dropped, conns, broken, connCh, recvCh, loop, handled>>
  BY DEF takeMsg, links, peers
<1>2. HandledFirst(p) /\ InOrder(p) /\ msgCh \in Seq(NetMessage)
  BY DEF NetInv, NetTypes
<1>3. Head(msgCh).id \in Id
  BY <1>1, <1>2, HeadTailProperties, MessageId
<1>4. /\ p \in Head(msgCh).rest => ElemsTo(msgCh, p) = ElemsTo(Tail(msgCh), p) \cup {Head(msgCh).id}
      /\ p \notin Head(msgCh).rest => ElemsTo(msgCh, p) = ElemsTo(Tail(msgCh), p)
  BY <1>1, <1>2, ToTail
<1>5. Waiting(p) = ElemsTo(msgCh, p)
  BY <1>1 DEF Waiting, InRun
<1>6. Waiting(p)' = {m \in Id : p \in Head(msgCh).rest /\ m = Head(msgCh).id} \cup ElemsTo(Tail(msgCh), p)
  BY <1>1 DEF Waiting, InRun
<1>7. Waiting(p)' = Waiting(p)
  BY <1>3, <1>4, <1>5, <1>6
<1> QED
  BY <1>1, <1>2, <1>7, Untouched

\* What InOrder says, for the proofs of the steps that move a message to p.
LEMMA OrderOf ==
  ASSUME NetInv, NEW p \in Peer
  PROVE  /\ NetTypes /\ Numbers /\ HandledFirst(p)
         /\ Rising(recvCh[p]) /\ recvCh[p] \in Seq(Int) /\ connCh[p] \in Seq(Int)
         /\ Elems(recvCh[p]) \subseteq Left(p)
         /\ Below(Elems(recvCh[p]), Left(p) \ Elems(recvCh[p]))
         /\ p \notin broken =>
              /\ Rising(connCh[p])
              /\ Left(p) \ Elems(recvCh[p]) = Elems(connCh[p]) \cup Waiting(p)
              /\ Below(Elems(connCh[p]), Waiting(p))
         /\ p \notin conns => connCh[p] = <<>> /\ Elems(recvCh[p]) = {} /\ handled[p] = <<>>
<1>1. NetTypes /\ Numbers /\ HandledFirst(p) /\ InOrder(p)
  BY DEF NetInv
<1>2. recvCh[p] \in Seq(Int) /\ connCh[p] \in Seq(Id) /\ Id \subseteq Int
  BY <1>1 DEF NetTypes, Id
<1>3. connCh[p] \in Seq(Int)
  BY <1>2, SeqMonotonic
<1> QED
  BY <1>1, <1>2, <1>3 DEF InOrder

\* Sender.Run puts its message behind those that wait for p's writer.
LEMMA enqueueOrder ==
  ASSUME NetInv, NEW p \in Peer, enqueue(p), NEW q \in Peer
  PROVE  HandledFirst(q)' /\ InOrder(q)'
<1>1. /\ p \in current.rest
      /\ conns' = conns \cup {p}
      /\ connCh' = [connCh EXCEPT ![p] = Append(@, current.id)]
      /\ current' = [current EXCEPT !.rest = @ \ {p}]
      /\ UNCHANGED <<addressed, msgCh, dropped, broken, recvCh, loop, handled>>
  BY DEF enqueue, peers
<1>2. current'.id = current.id /\ current'.rest = current.rest \ {p}
      /\ connCh'[p] = Append(connCh[p], current.id) /\ \A r \in Peer \ {p} : connCh'[r] = connCh[r]
  BY <1>1 DEF NetInv, NetTypes
<1>3. CASE q # p
  <2>1. Waiting(q)' = Waiting(q)
    BY <1>1, <1>2, <1>3, WaitingPassedOn
  <2>2. HandledFirst(q) /\ InOrder(q) /\ connCh'[q] = connCh[q]
    BY <1>2, <1>3 DEF NetInv
  <2> QED
    BY <1>1, <2>1, <2>2, <1>3, Untouched
<1>4. CASE q = p
  <2> DEFINE conn == Elems(connCh[p])
             recv == Elems(recvCh[p])
             to == ElemsTo(msgCh, p)
             m == current.id
  <2>1. /\ m \in Id /\ m \in Int
        /\ Waiting(p) = to \cup {m} /\ Below({m}, to) /\ m \notin to
    <3>1. m \in Id /\ Waiting(p) = to \cup {m} /\ Below({m}, to) /\ m \notin to
      BY <1>1, RunFirst, OrderOf
    <3> QED
      BY <3>1 DEF Id
  <2>2. Waiting(p)' = to
    BY <1>1, <1>2, WaitingPassedOn
  <2>3. Elems(connCh'[p]) = conn \cup {m}
    <3>1. connCh[p] \in Seq(Int) /\ connCh'[p] = Append(connCh[p], m)
      BY <1>2, OrderOf
    <3> HIDE DEF m
    <3> QED
      BY <2>1, <3>1, ElemsAppend
  <2>4. Left(p)' = Left(p) /\ HandledFirst(p)'
    <3>1. HandledFirst(p)
      BY DEF NetInv
    <3> QED
      BY <1>1, <3>1, HistoryKept
  <2>5. ASSUME p \notin broken
        PROVE  /\ Rising(connCh'[p])
               /\ Left(p) \ recv = (conn \cup {m}) \cup to
               /\ Below(conn \cup {m}, to)
    <3>1. /\ Rising(connCh[p]) /\ Left(p) \ recv = conn \cup Waiting(p)
          /\ Below(conn, Waiting(p)) /\ connCh[p] \in Seq(Int)
      BY <2>5, OrderOf
    <3>2. Below(conn, {m}) /\ Below(conn \cup {m}, to)
      BY <2>1, <3>1 DEF Below
    <3>3. Rising(connCh'[p])
      BY <1>2, <2>1, <3>1, <3>2, ElemsAppend
    <3> QED
      BY <2>1, <3>1, <3>2, <3>3
  <2>6. /\ p \in conns' /\ recvCh'[p] = recvCh[p] /\ broken' = broken
        /\ Elems(recvCh'[p]) = recv
    BY <1>1
  <2>7. Rising(recvCh[p]) /\ recv \subseteq Left(p) /\ Below(recv, Left(p) \ recv)
    BY OrderOf
  <2> HIDE DEF conn, recv, to, m
  <2> QED
    BY <1>4, <2>2, <2>3, <2>4, <2>5, <2>6, <2>7 DEF InOrder
<1> QED
  BY <1>3, <1>4

\* Dial fails: nothing has got through to p yet, so the message dropped is the
\* first one that is left.
LEMMA dialFailOrder ==
  ASSUME NetInv, NEW p \in Peer, dialFail(p), NEW q \in Peer
  PROVE  HandledFirst(q)' /\ InOrder(q)'
<1>1. /\ p \in current.rest /\ p \notin conns
      /\ dropped' = [dropped EXCEPT ![p] = @ + 1]
      /\ current' = [current EXCEPT !.rest = @ \ {p}]
      /\ UNCHANGED <<addressed, msgCh, conns, broken, connCh, recvCh, loop, handled>>
  BY DEF dialFail, peers
<1>2. /\ current'.id = current.id /\ current'.rest = current.rest \ {p}
      /\ dropped'[p] = dropped[p] + 1 /\ \A r \in Peer \ {p} : dropped'[r] = dropped[r]
      /\ p \notin broken
  BY <1>1 DEF NetInv, NetTypes
<1>3. CASE q # p
  <2>1. Waiting(q)' = Waiting(q)
    BY <1>1, <1>2, <1>3, WaitingPassedOn
  <2>2. HandledFirst(q) /\ InOrder(q) /\ dropped'[q] = dropped[q]
    BY <1>2, <1>3 DEF NetInv
  <2> QED
    BY <1>1, <2>1, <2>2, <1>3, Untouched
<1>4. CASE q = p
  <2> DEFINE to == ElemsTo(msgCh, p)
             m == current.id
             k == dropped[p] + Len(handled[p]) + 1
  <2>1. /\ m \in Id /\ Waiting(p) = to \cup {m} /\ Below({m}, to) /\ m \notin to
    BY <1>1, RunFirst, OrderOf
  <2>2. Waiting(p)' = to
    BY <1>1, <1>2, WaitingPassedOn
  <2>3. /\ connCh[p] = <<>> /\ Elems(recvCh[p]) = {} /\ handled[p] = <<>>
        /\ Left(p) \ Elems(recvCh[p]) = Elems(connCh[p]) \cup Waiting(p)
        /\ NetTypes /\ HandledFirst(p) /\ Rising(recvCh[p])
    BY <1>1, <1>2, OrderOf
  <2>4. Left(p) = to \cup {m} /\ m \in Left(p) /\ Below({m}, Left(p) \ {m})
        /\ Left(p) \ {m} = to
    BY <2>1, <2>3, ElemsEmpty DEF Below
  <2>5. /\ k \in 1..Len(addressed[p])
        /\ Left(p) \ {m} = {l \in Id : \E i \in (k + 1)..Len(addressed[p]) :
                                         addressed[p][i] = l}
    BY <2>3, <2>4, FirstLeft
  <2>6. /\ Len(handled[p]) = 0 /\ dropped[p] \in Nat /\ Len(addressed[p]) \in Nat
        /\ k = dropped[p] + 1 /\ k + 1 = dropped'[p] + Len(handled'[p]) + 1
        /\ addressed'[p] = addressed[p] /\ handled'[p] = <<>>
    BY <1>1, <1>2, <2>3 DEF NetTypes
  <2> HIDE DEF to, m, k
  <2>7. Left(p)' = to
    <3>1. Left(p)' = {l \in Id : \E i \in (k + 1)..Len(addressed[p]) : addressed[p][i] = l}
      BY <2>6 DEF Left
    <3> QED
      BY <2>4, <2>5, <3>1
  <2>8. HandledFirst(p)'
    <3>1. Rising(addressed'[p])
      BY <2>3, <2>6 DEF HandledFirst
    <3>2. Len(handled'[p]) = 0 /\ dropped'[p] + Len(handled'[p]) <= Len(addressed'[p])
      BY <1>2, <2>5, <2>6
    <3> QED
      BY <3>1, <3>2 DEF HandledFirst
  <2>9. /\ connCh'[p] = <<>> /\ Elems(recvCh'[p]) = {} /\ Rising(recvCh'[p])
        /\ Elems(connCh'[p]) = {} /\ Rising(connCh'[p])
    BY <1>1, <2>3, ElemsEmpty
  <2>10. /\ Left(p)' \ Elems(recvCh'[p]) = Elems(connCh'[p]) \cup Waiting(p)'
         /\ Below(Elems(connCh'[p]), Waiting(p)')
         /\ Elems(recvCh'[p]) \subseteq Left(p)'
         /\ Below(Elems(recvCh'[p]), Left(p)' \ Elems(recvCh'[p]))
    BY <2>2, <2>7, <2>9 DEF Below
  <2> QED
    BY <1>4, <2>6, <2>8, <2>9, <2>10 DEF InOrder
<1> QED
  BY <1>3, <1>4

\* The oldest message in connCh goes behind those in recvCh.
LEMMA writeOrder ==
  ASSUME NetInv, NEW p \in Peer, write(p), NEW q \in Peer
  PROVE  HandledFirst(q)' /\ InOrder(q)'
<1>1. /\ p \notin broken /\ connCh[p] # <<>>
      /\ recvCh' = [recvCh EXCEPT ![p] = Append(@, Head(connCh[p]))]
      /\ connCh' = [connCh EXCEPT ![p] = Tail(@)]
      /\ UNCHANGED <<addressed, msgCh, current, dropped, conns, broken, loop, handled>>
  BY DEF write, links
<1>2. Waiting(q)' = Waiting(q)
  BY <1>1, WaitingKept
<1>3. /\ recvCh'[p] = Append(recvCh[p], Head(connCh[p])) /\ connCh'[p] = Tail(connCh[p])
      /\ \A r \in Peer \ {p} : recvCh'[r] = recvCh[r] /\ connCh'[r] = connCh[r]
      /\ connCh[p] \in Seq(Id)
  BY <1>1 DEF NetInv, NetTypes
<1>4. CASE q # p
  <2>1. HandledFirst(q) /\ InOrder(q)
    BY DEF NetInv
  <2> QED
    BY <1>1, <1>2, <1>3, <1>4, <2>1, Untouched
<1>5. CASE q = p
  <2> DEFINE conn == Elems(connCh[p])
             recv == Elems(recvCh[p])
             m == Head(connCh[p])
  <2>1. /\ Rising(recvCh[p]) /\ recv \subseteq Left(p) /\ Below(recv, Left(p) \ recv)
        /\ Rising(connCh[p]) /\ Left(p) \ recv = conn \cup Waiting(p)
        /\ Below(conn, Waiting(p)) /\ HandledFirst(p)
        /\ recvCh[p] \in Seq(Int) /\ connCh[p] \in Seq(Int)
        /\ p \notin conns => connCh[p] = <<>>
    BY <1>1, OrderOf
  <2>2. m \in Id /\ m \in Int
    <3>1. m \in Id
      BY <1>1, <1>3, HeadTailProperties
    <3> QED
      BY <3>1 DEF Id
  <2>3. /\ Rising(connCh'[p]) /\ m \in conn
        /\ Elems(connCh'[p]) = conn \ {m} /\ Below({m}, conn \ {m})
    BY <1>1, <1>3, <2>1, <2>2, ElemsTail
  <2>4. Below(recv, {m}) /\ m \in Left(p) \ recv
    BY <2>1, <2>3 DEF Below
  <2>5. Elems(recvCh'[p]) = recv \cup {m} /\ Rising(recvCh'[p])
    <3>1. /\ recvCh[p] \in Seq(Int) /\ Rising(recvCh[p])
          /\ recvCh'[p] = Append(recvCh[p], m)
      BY <1>3, <2>1
    <3> HIDE DEF m
    <3> QED
      BY <2>2, <2>4, <3>1, ElemsAppend
  <2>6. Left(p)' = Left(p) /\ HandledFirst(p)' /\ p \in conns' /\ p \notin broken'
    BY <1>1, <2>1, HistoryKept
  <2>7. m \notin Waiting(p)
    <3>1. \A w \in Waiting(p) : m < w
      BY <2>1, <2>3 DEF Below
    <3> QED
      BY <2>2, <3>1 DEF Id
  <2> HIDE DEF conn, recv, m
  <2>8. /\ recv \cup {m} \subseteq Left(p)
        /\ Left(p) \ (recv \cup {m}) = (conn \ {m}) \cup Waiting(p)
        /\ Below(conn \ {m}, Waiting(p))
    BY <2>1, <2>3, <2>4, <2>7 DEF Below
  <2>9. Below(recv \cup {m}, Left(p) \ (recv \cup {m}))
    BY <2>1, <2>3, <2>8 DEF Below
  <2> QED
    BY <1>2, <1>5, <2>3, <2>5, <2>6, <2>8, <2>9 DEF InOrder
<1> QED
  BY <1>4, <1>5

\* After a failed write the connection only loses messages, and what p has
\* received by then stays ahead of all that are left.
LEMMA writeFailOrder ==
  ASSUME NetInv, NEW p \in Peer, writeFail(p), NEW q \in Peer
  PROVE  HandledFirst(q)' /\ InOrder(q)'
<1>1. /\ p \in conns /\ broken' = broken \cup {p}
      /\ connCh' = [connCh EXCEPT ![p] = Tail(@)]
      /\ UNCHANGED <<addressed, msgCh, current, dropped, conns, recvCh, loop, handled>>
  BY DEF writeFail, Ended, peers
<1>2. Waiting(q)' = Waiting(q) /\ Left(q)' = Left(q)
  BY <1>1, WaitingKept, HistoryKept
<1>3. HandledFirst(q) /\ InOrder(q)
  BY DEF NetInv
<1>4. CASE q # p
  <2>1. connCh'[q] = connCh[q]
    <3>1. DOMAIN connCh = Peer
      BY DEF NetInv, NetTypes
    <3> QED
      BY <1>1, <1>4, <3>1
  <2> QED
    BY <1>1, <1>2, <1>3, <1>4, <2>1, Untouched
<1>5. CASE q = p
  <2>1. HandledFirst(p)'
    BY <1>1, <1>3, <1>5, HistoryKept
  <2> QED
    BY <1>1, <1>2, <1>3, <1>5, <2>1 DEF InOrder
<1> QED
  BY <1>4, <1>5

\* The message p's loop takes is its own, or the least of those left.
LEMMA handleOrder ==
  ASSUME NetInv, NEW p \in Peer, handle(p), NEW q \in Peer
  PROVE  HandledFirst(q)' /\ InOrder(q)'
<1> DEFINE m == Head(recvCh[p])
<1>1. /\ recvCh[p] # <<>>
      /\ recvCh' = [recvCh EXCEPT ![p] = Tail(@)]
      /\ handled' = IF m > 0 THEN [handled EXCEPT ![p] = Append(@, m)] ELSE handled
      /\ UNCHANGED <<addressed, msgCh, current, dropped, conns, broken, connCh>>
  BY DEF handle, links
<1>2. Waiting(q)' = Waiting(q)
  BY <1>1, WaitingKept
<1>3. /\ recvCh'[p] = Tail(recvCh[p])
      /\ \A r \in Peer \ {p} : recvCh'[r] = recvCh[r] /\ handled'[r] = handled[r]
      /\ handled'[p] = IF m > 0 THEN Append(handled[p], m) ELSE handled[p]
  BY <1>1 DEF NetInv, NetTypes
<1>4. CASE q # p
  <2>1. HandledFirst(q) /\ InOrder(q)
    BY DEF NetInv
  <2> QED
    BY <1>1, <1>2, <1>3, <1>4, <2>1, Untouched
<1>5. CASE q = p
  <2> DEFINE recv == Elems(recvCh[p])
             conn == Elems(connCh[p])
             k == dropped[p] + Len(handled[p]) + 1
  <2>1. /\ Rising(recvCh[p]) /\ recv \subseteq Left(p) /\ Below(recv, Left(p) \ recv)
        /\ HandledFirst(p) /\ NetTypes /\ recvCh[p] \in Seq(Int)
        /\ p \notin broken => /\ Rising(connCh[p]) /\ Left(p) \ recv = conn \cup Waiting(p)
                              /\ Below(conn, Waiting(p))
        /\ p \notin conns => connCh[p] = <<>> /\ recv = {} /\ handled[p] = <<>>
    BY OrderOf
  <2>2. /\ Rising(Tail(recvCh[p])) /\ m \in Int
        /\ m \in Id => /\ m \in recv /\ Elems(Tail(recvCh[p])) = recv \ {m}
                       /\ Below({m}, recv \ {m})
        /\ m \notin Id => Elems(Tail(recvCh[p])) = recv
    BY <1>1, <2>1, ElemsTail
  <2>3. CASE m \notin Id
    <3>0. ~(m > 0)
      BY <2>2, <2>3 DEF Id
    <3>1. handled'[p] = handled[p]
      BY <1>3, <3>0
    <3>2. Left(p)' = Left(p) /\ HandledFirst(p)'
      BY <1>1, <2>1, <3>1, HistoryKept
    <3>3. Elems(recvCh'[p]) = recv /\ Rising(recvCh'[p])
      BY <1>3, <2>2, <2>3
    <3> QED
      BY <1>1, <1>2, <1>5, <2>1, <3>1, <3>2, <3>3 DEF InOrder
  <2>4. CASE m \in Id
    <3>1. handled'[p] = Append(handled[p], m)
      BY <1>3, <2>4 DEF Id
    <3>2. m \in Left(p) /\ Below({m}, Left(p) \ {m})
      BY <2>1, <2>2, <2>4 DEF Below
    <3>3. /\ k \in 1..Len(addressed[p]) /\ addressed[p][k] = m
          /\ Left(p) \ {m} = {l \in Id : \E i \in (k + 1)..Len(addressed[p]) :
                                           addressed[p][i] = l}
      BY <2>1, <3>2, FirstLeft
    <3>4. handled[p] \in Seq(Id) /\ Len(handled[p]) \in Nat /\ dropped[p] \in Nat
      BY <2>1 DEF NetTypes
    <3>5. /\ Len(handled'[p]) = Len(handled[p]) + 1
          /\ \A i \in 1..Len(handled[p]) : handled'[p][i] = handled[p][i]
          /\ handled'[p][Len(handled[p]) + 1] = m
      BY <2>4, <3>1, <3>4, AppendProperties
    <3>6. dropped'[p] = dropped[p] /\ addressed'[p] = addressed[p]
      BY <1>1
    <3>7. Left(p)' = Left(p) \ {m}
      <4>1. k + 1 = dropped'[p] + Len(handled'[p]) + 1
        BY <3>4, <3>5, <3>6
      <4> QED
        BY <3>3, <3>6, <4>1 DEF Left
    <3>8. HandledFirst(p)'
      <4>1. dropped'[p] + Len(handled'[p]) <= Len(addressed'[p])
        BY <2>1, <3>3, <3>4, <3>5, <3>6 DEF NetTypes
      <4>2. ASSUME NEW i \in 1..Len(handled'[p])
            PROVE  handled'[p][i] = addressed'[p][dropped'[p] + i]
        <5>1. CASE i \in 1..Len(handled[p])
          BY <2>1, <3>5, <3>6, <5>1 DEF HandledFirst
        <5>2. CASE i = Len(handled[p]) + 1
          <6>1. dropped[p] + i = k
            BY <3>4, <5>2
          <6> QED
            BY <3>3, <3>5, <3>6, <5>2, <6>1
        <5>3. i \in 1..(Len(handled[p]) + 1)
          BY <3>5
        <5> HIDE DEF m, recv, conn, k
        <5>4. i \in 1..Len(handled[p]) \/ i = Len(handled[p]) + 1
          BY <3>4, <5>3
        <5> QED
          BY <5>1, <5>2, <5>4
      <4> QED
        BY <2>1, <3>6, <4>1, <4>2 DEF HandledFirst
    <3>9. Elems(recvCh'[p]) = recv \ {m} /\ Rising(recvCh'[p])
      BY <1>3, <2>2, <2>4
    <3> HIDE DEF m, recv, conn, k
    <3>10. /\ recv \ {m} \subseteq Left(p) \ {m}
           /\ (Left(p) \ {m}) \ (recv \ {m}) = Left(p) \ recv
           /\ Below(recv \ {m}, Left(p) \ recv)
      BY <2>1, <2>2, <2>4 DEF Below
    <3>11. p \in conns
      BY <2>1, <2>2, <2>4
    <3>12. /\ connCh' = connCh /\ broken' = broken /\ p \in conns'
           /\ Elems(connCh'[p]) = conn /\ Waiting(p)' = Waiting(p)
      BY <1>1, <1>2, <1>5, <3>11 DEF conn
    <3>13. InOrder(p)'
      BY <2>1, <3>7, <3>9, <3>10, <3>12 DEF InOrder
    <3> QED
      BY <1>5, <3>8, <3>13
  <2> QED
    BY <2>3, <2>4
<1> QED
  BY <1>4, <1>5

\* A loop's message to itself is none of the node's.
LEMMA selfSendOrder ==
  ASSUME NetInv, NEW p \in Peer, selfSend(p), NEW q \in Peer
  PROVE  HandledFirst(q)' /\ InOrder(q)'
<1>1. /\ loop[p] \in ToSelf
      /\ recvCh' = [recvCh EXCEPT ![p] = Append(@, loop[p])]
      /\ UNCHANGED <<addressed, msgCh, current, dropped, conns, broken, connCh, handled>>
  BY DEF selfSend, links
<1>2. Waiting(q)' = Waiting(q) /\ Left(q)' = Left(q)
  BY <1>1, WaitingKept, HistoryKept
<1>3. HandledFirst(q) /\ InOrder(q)
  BY DEF NetInv
<1>4. CASE q # p
  <2>1. recvCh'[q] = recvCh[q]
    <3>1. DOMAIN recvCh = Peer
      BY DEF NetInv, NetTypes
    <3> QED
      BY <1>1, <1>4, <3>1
  <2> QED
    BY <1>1, <1>2, <1>3, <1>4, <2>1, Untouched
<1>5. CASE q = p
  <2>1. loop[p] \in Int /\ loop[p] \notin Id
    BY <1>1 DEF ToSelf, ELECT, REPORT, PROPOSE, Id
  <2>2. recvCh'[p] = Append(recvCh[p], loop[p]) /\ recvCh[p] \in Seq(Int) /\ Rising(recvCh[p])
    BY <1>1, OrderOf DEF NetInv, NetTypes
  <2>3. Elems(recvCh'[p]) = Elems(recvCh[p]) /\ Rising(recvCh'[p])
    BY <2>1, <2>2, ElemsAppend
  <2>4. HandledFirst(p)'
    BY <1>1, <1>3, <1>5 DEF HandledFirst
  <2> QED
    BY <1>1, <1>2, <1>3, <1>5, <2>3, <2>4 DEF InOrder
<1> QED
  BY <1>4, <1>5

\* Nothing is on its way at first.
LEMMA InitNet ==
  ASSUME NetInit PROVE NetInv
<1>1. NetTypes
  BY DEF NetInit, NetTypes, Idle
<1>2. Numbers
  <2>1. \A p \in Peer : Range(addressed[p]) = {}
    BY DEF NetInit, Range
  <2>2. Sent = 1..0
    BY <2>1 DEF Sent
  <2>3. current.id = 0 /\ Len(msgCh) = 0
    BY DEF NetInit, Idle
  <2> QED
    BY <2>2, <2>3 DEF Numbers
<1>3. ASSUME NEW p \in Peer PROVE HandledFirst(p) /\ InOrder(p)
  <2>1. /\ addressed[p] = <<>> /\ dropped[p] = 0 /\ handled[p] = <<>>
        /\ connCh[p] = <<>> /\ recvCh[p] = <<>> /\ msgCh = <<>> /\ current.rest = {}
    BY DEF NetInit, Idle
  <2>2. HandledFirst(p)
    BY <2>1 DEF HandledFirst, Rising
  <2>3. Left(p) = {} /\ InRun(p) = {}
    BY <2>1 DEF Left, InRun
  <2>4. Waiting(p) = {} /\ Elems(connCh[p]) = {} /\ Elems(recvCh[p]) = {}
        /\ Rising(connCh[p]) /\ Rising(recvCh[p])
    BY <2>1, <2>3, ElemsEmpty DEF Waiting
  <2> QED
    BY <2>1, <2>2, <2>3, <2>4 DEF InOrder, Below
<1> QED
  BY <1>1, <1>2, <1>3 DEF NetInv

\* Every step of the network keeps the order of the messages.
LEMMA NextNet ==
  ASSUME Peer # {}, NetInv, [NetNext]_netVars PROVE NetInv'
<1> NetTypes /\ Numbers
  BY DEF NetInv
<1>1. CASE UNCHANGED netVars
  <2>1. UNCHANGED <<addressed, msgCh, current, dropped, conns, broken, connCh, recvCh, loop, handled>>
    BY <1>1 DEF netVars, links, peers
  <2>2. NetTypes'
    BY <2>1 DEF NetTypes
  <2>3. Numbers'
    BY <2>1, OtherNumbers
  <2>4. \A p \in Peer : Waiting(p)' = Waiting(p)
    BY <2>1, WaitingKept
  <2>5. ASSUME NEW p \in Peer PROVE HandledFirst(p)' /\ InOrder(p)'
    <3>1. HandledFirst(p) /\ InOrder(p)
      BY DEF NetInv
    <3> QED
      BY <2>1, <2>4, <3>1, Untouched
  <2> QED
    BY <2>2, <2>3, <2>5 DEF NetInv
<1>2. ASSUME NEW to \in {Peer} \cup {{p} : p \in Peer}, NEW id \in 1..MaxMsgs, Send(to, id)
      PROVE  NetInv'
  <2>1. to \in SUBSET Peer /\ to # {}
    OBVIOUS
  <2>2. NetTypes'
    BY <1>2, <2>1, SendTypes
  <2>3. Numbers'
    BY <1>2, <2>1, SendNumbers
  <2>4. \A p \in Peer : HandledFirst(p)' /\ InOrder(p)'
    BY <1>2, <2>1, SendOrder
  <2> QED
    BY <2>2, <2>3, <2>4 DEF NetInv
<1>3. CASE senderRun
  <2>1. NetTypes'
    BY <1>3, SenderTypes
  <2>2. /\ addressed' = addressed
        /\ takeMsg \/ (msgCh' = msgCh /\ current'.id = current.id)
    <3>1. takeMsg => addressed' = addressed
      BY DEF takeMsg
    <3>2. \A p \in Peer : enqueue(p) \/ dialFail(p) =>
             /\ addressed' = addressed /\ msgCh' = msgCh
             /\ current' = [current EXCEPT !.rest = @ \ {p}]
      BY DEF enqueue, dialFail
    <3>3. CASE takeMsg
      BY <3>1, <3>3
    <3>4. ASSUME NEW p \in Peer, enqueue(p) \/ dialFail(p)
          PROVE  addressed' = addressed /\ msgCh' = msgCh /\ current'.id = current.id
      <4>1. current \in [id : Nat, rest : SUBSET Peer]
        BY DEF NetTypes
      <4> QED
        BY <3>2, <3>4, <4>1
    <3> QED
      BY <1>3, <3>3, <3>4 DEF senderRun
  <2>3. Numbers'
    BY <2>2, OtherNumbers
  <2>4. \A q \in Peer : HandledFirst(q)' /\ InOrder(q)'
    BY <1>3, takeMsgOrder, enqueueOrder, dialFailOrder DEF senderRun
  <2> QED
    BY <2>1, <2>3, <2>4 DEF NetInv
<1>4. ASSUME NEW p \in Peer, write(p) \/ writeFail(p) \/ Loop(p) PROVE NetInv'
  <2>1. NetTypes'
    BY <1>4, PeerTypes
  <2>2. addressed' = addressed /\ msgCh' = msgCh /\ current' = current
    BY <1>4 DEF write, writeFail, Loop, handle, selfSend
  <2>3. Numbers'
    BY <2>2, OtherNumbers
  <2>4. \A q \in Peer : HandledFirst(q)' /\ InOrder(q)'
    BY <1>4, writeOrder, writeFailOrder, handleOrder, selfSendOrder DEF Loop
  <2> QED
    BY <2>1, <2>3, <2>4 DEF NetInv
<1> QED
  BY <1>1, <1>2, <1>3, <1>4 DEF NetNext

\* So the order is never lost.  (Without a peer nothing numbers the messages.)
LEMMA NetInvariant ==
  ASSUME Peer # {} PROVE NetSpec => []NetInv
<1>1. NetInit => NetInv
  BY InitNet
<1>2. NetInv /\ [NetNext]_netVars => NetInv'
  BY NextNet
<1> QED
  BY <1>1, <1>2, PTL DEF NetSpec

\* HandledFirst says LinkOrder by positions.
LEMMA PrefixByPlace ==
  ASSUME NetTypes, NEW p \in Peer, HandledFirst(p)
  PROVE  handled[p] = SubSeq(addressed[p], dropped[p] + 1, dropped[p] + Len(handled[p]))
<1> DEFINE h == handled[p]
           a == addressed[p]
           d == dropped[p]
           lo == d + 1
           hi == d + Len(h)
           t == SubSeq(a, lo, hi)
<1>1. h \in Seq(Id) /\ a \in Seq(Id) /\ d \in Nat /\ Len(h) \in Nat /\ Len(a) \in Nat
  BY DEF NetTypes
<1>2. hi <= Len(a) /\ \A i \in 1..Len(h) : h[i] = a[d + i]
  BY DEF HandledFirst
<1> HIDE DEF h, a, d
<1>3. /\ lo \in Int /\ hi \in Int /\ hi - lo + 1 = Len(h)
      /\ ~(lo <= hi) => Len(h) = 0
      /\ \A i \in 1..Len(h) : lo + i - 1 = d + i
  BY <1>1
<1>4. \A i \in lo..hi : a[i] \in Id
  <2>1. \A i \in lo..hi : i \in 1..Len(a)
    BY <1>1, <1>2
  <2> QED
    BY <1>1, <2>1, ElementOfSeq
<1> HIDE DEF lo, hi
<1>5. /\ t \in Seq(Id)
      /\ Len(t) = IF lo <= hi THEN hi - lo + 1 ELSE 0
      /\ \A i \in 1..(hi - lo + 1) : t[i] = a[lo + i - 1]
  BY <1>3, <1>4, SubSeqProperties
<1> HIDE DEF t
<1>6. Len(t) = Len(h) /\ \A i \in 1..Len(h) : t[i] = h[i]
  BY <1>2, <1>3, <1>5
<1>7. h = t
  BY <1>1, <1>5, <1>6, SeqEqual
<1> QED
  BY <1>7 DEF h, t, lo, hi, a, d

\* LinkOrder for any number of peers and messages and any capacities: what a
\* peer's loop takes from recvCh is what Send accepted for it, in that order
\* and without a gap behind the messages lost to a failed Dial.
THEOREM LinkKeepsOrder == NetSpec => []LinkOrder
<1>1. CASE Peer = {}
  <2>1. LinkOrder
    BY <1>1 DEF LinkOrder
  <2> QED
    BY <2>1, PTL
<1>2. CASE Peer # {}
  <2>1. NetSpec => []NetInv
    BY <1>2, NetInvariant
  <2>2. NetInv => LinkOrder
    BY PrefixByPlace DEF NetInv, HandledFirst, LinkOrder
  <2> QED
    BY <2>1, <2>2, PTL
<1> QED
  BY <1>1, <1>2
-----------------------------------------------------------------------------
(***************************************************************************)
(* The ways out that Handled leaves are final, and they are the only       *)
(* reasons for which a network that has come to rest may hold messages     *)
(* back.                                                                   *)
(***************************************************************************)

\* Stopped for good: writeFail, which would take a message from the queue, is
\* over or cannot happen.
StoppedForGood(p) == Stopped(p) /\ p \notin Fragile \ broken

\* A loop that has halted stays so.  In particular one that waits for room in
\* its own recvCh waits for ever: nobody else takes from that channel.
THEOREM HaltedForEver == NetSpec => \A p \in Peer : [](Halted(p) => []Halted(p))
<1> SUFFICES ASSUME NEW p \in Peer PROVE NetSpec => [](Halted(p) => []Halted(p))
  OBVIOUS
<1>0. NetSpec => []NetInv
  BY NetInvariant
<1>1. NetInv /\ Halted(p) /\ [NetNext]_netVars => Halted(p)'
  <2> SUFFICES ASSUME NetInv, Halted(p), [NetNext]_netVars, p \notin Deaf PROVE Halted(p)'
    BY DEF Halted
  <2> recvCh \in [Peer -> Seq(Int)] /\ loop \in [Peer -> ToSelf \cup {SELECT, BLOCKED}]
    BY DEF NetInv, NetTypes
  <2>1. ~Loop(p) /\ (loop[p] = BLOCKED \/ ~write(p))
    <3>1. loop[p] = BLOCKED \/ (loop[p] \in ToSelf /\ Len(recvCh[p]) = RecvCap)
      BY DEF Halted, Choked
    <3>2. RecvCap \in Nat /\ SELECT \notin ToSelf /\ BLOCKED \notin ToSelf /\ BLOCKED # SELECT
      BY NetworkAssumption DEF ToSelf, SELECT, BLOCKED, ELECT, REPORT, PROPOSE
    <3>3. handle(p) => loop[p] = SELECT
      BY DEF handle
    <3>4. selfSend(p) => loop[p] \in ToSelf /\ Len(recvCh[p]) < RecvCap
      BY DEF selfSend
    <3>5. write(p) => Len(recvCh[p]) < RecvCap
      BY DEF write
    <3> QED
      BY <3>1, <3>2, <3>3, <3>4, <3>5 DEF Loop
  <2> SUFFICES loop'[p] = loop[p] /\ (loop[p] = BLOCKED \/ recvCh'[p] = recvCh[p])
    BY DEF Halted, Choked
  <2>2. CASE UNCHANGED netVars
    BY <2>2 DEF netVars, peers
  <2>3. CASE senderRun \/ \E to \in {Peer} \cup {{q} : q \in Peer}, id \in 1..MaxMsgs : Send(to, id)
    BY <2>3 DEF senderRun, takeMsg, enqueue, dialFail, Send, peers
  <2>4. ASSUME NEW q \in Peer, write(q) \/ writeFail(q) \/ Loop(q)
        PROVE  loop'[p] = loop[p] /\ (loop[p] = BLOCKED \/ recvCh'[p] = recvCh[p])
    <3>1. CASE q = p
      <4>1. write(p) \/ writeFail(p)
        BY <2>1, <2>4, <3>1
      <4>2. loop' = loop /\ (writeFail(p) => recvCh' = recvCh)
        BY <4>1 DEF write, writeFail, peers
      <4> QED
        BY <2>1, <4>1, <4>2
    <3>2. CASE q # p
      BY <2>4, <3>2 DEF write, writeFail, Loop, handle, selfSend, peers
    <3> QED
      BY <3>1, <3>2
  <2> QED
    BY <2>2, <2>3, <2>4 DEF NetNext
<1> QED
  BY <1>0, <1>1, PTL DEF NetSpec

\* Sender.Run never gets past a peer whose queue is full for good.  It then
\* always has an address to serve, and takes no further message from msgCh.
THEOREM JammedForEver ==
  NetSpec => \A p \in Peer :
    []((p \in current.rest /\ StoppedForGood(p)) => [](p \in current.rest /\ StoppedForGood(p)))
<1> SUFFICES ASSUME NEW p \in Peer
             PROVE  NetSpec => []((p \in current.rest /\ StoppedForGood(p)) =>
                                    [](p \in current.rest /\ StoppedForGood(p)))
  OBVIOUS
<1> DEFINE Stuck == p \in current.rest /\ StoppedForGood(p)
<1>1. NetSpec => []NetInv
  BY NetInvariant
<1>2. NetInv /\ Stuck /\ [NetNext]_netVars => Stuck'
  <2> SUFFICES ASSUME NetInv, Stuck, [NetNext]_netVars PROVE Stuck'
    OBVIOUS
  <2>1. /\ p \in current.rest /\ Len(connCh[p]) = ConnCap /\ p \notin Fragile \ broken
        /\ p \in broken \/ (Len(recvCh[p]) = RecvCap /\ Halted(p))
        /\ ConnCap \in Nat \ {0} /\ RecvCap \in Nat
    BY NetworkAssumption DEF StoppedForGood, Stopped
  <2>2. p \in conns /\ NetTypes
    <3>1. connCh[p] # <<>>
      BY <2>1
    <3> QED
      BY <3>1, OrderOf
  <2> SUFFICES /\ p \in current'.rest /\ connCh'[p] = connCh[p]
               /\ p \in broken' <=> p \in broken
               /\ p \in broken \/ (recvCh'[p] = recvCh[p] /\ loop'[p] = loop[p])
    BY <2>1 DEF StoppedForGood, Stopped, Halted, Choked
  <2>3. CASE UNCHANGED netVars
    BY <2>1, <2>3 DEF netVars, links, peers
  <2>4. CASE \E to \in {Peer} \cup {{q} : q \in Peer}, id \in 1..MaxMsgs : Send(to, id)
    BY <2>1, <2>4 DEF Send, links, peers
  <2>5. CASE senderRun
    <3>1. ~takeMsg /\ ~enqueue(p) /\ ~dialFail(p)
      BY <2>1, <2>2 DEF takeMsg, enqueue, dialFail, Room
    <3>2. PICK q \in Peer \ {p} : enqueue(q) \/ dialFail(q)
      BY <2>5, <3>1 DEF senderRun
    <3>3. /\ current' = [current EXCEPT !.rest = @ \ {q}] /\ broken' = broken
          /\ connCh'[p] = connCh[p] /\ recvCh' = recvCh /\ loop' = loop
      BY <2>2, <3>2 DEF enqueue, dialFail, peers, NetTypes
    <3>4. p \in current'.rest
      BY <2>1, <2>2, <3>3 DEF NetTypes
    <3> QED
      BY <3>3, <3>4
  <2>6. ASSUME NEW q \in Peer, write(q) \/ writeFail(q) \/ Loop(q)
        PROVE  /\ p \in current'.rest /\ connCh'[p] = connCh[p]
               /\ p \in broken' <=> p \in broken
               /\ p \in broken \/ (recvCh'[p] = recvCh[p] /\ loop'[p] = loop[p])
    <3>1. CASE q = p
      <4>1. ~write(p) /\ ~writeFail(p)
        <5>1. write(p) => p \notin broken /\ Len(recvCh[p]) < RecvCap
          BY DEF write
        <5>2. writeFail(p) => p \in Fragile \ broken
          BY DEF writeFail
        <5> QED
          BY <2>1, <5>1, <5>2
      <4>2. Loop(p) => p \in broken
        <5>1. handle(p) => p \notin Deaf /\ loop[p] = SELECT
          BY DEF handle
        <5>2. selfSend(p) => Len(recvCh[p]) < RecvCap
          BY DEF selfSend
        <5>3. Halted(p) => p \in Deaf \/ loop[p] # SELECT
          BY DEF Halted, Choked, ToSelf, SELECT, BLOCKED, ELECT, REPORT, PROPOSE
        <5> QED
          BY <2>1, <5>1, <5>2, <5>3 DEF Loop
      <4>3. Loop(p)
        BY <2>6, <3>1, <4>1
      <4> QED
        BY <2>1, <4>2, <4>3 DEF Loop, handle, selfSend, links
    <3>2. CASE q # p
      <4>1. current' = current /\ connCh'[p] = connCh[p]
            /\ recvCh'[p] = recvCh[p] /\ loop'[p] = loop[p]
        BY <2>2, <2>6, <3>2 DEF write, writeFail, Loop, handle, selfSend, links, peers, NetTypes
      <4>2. p \in broken' <=> p \in broken
        BY <2>6, <3>2 DEF write, writeFail, Ended, Loop, handle, selfSend, links
      <4> QED
        BY <2>1, <4>1, <4>2
    <3> QED
      BY <3>1, <3>2
  <2> QED
    BY <2>3, <2>4, <2>5, <2>6 DEF NetNext
<1> QED
  BY <1>1, <1>2, PTL DEF NetSpec

\* No goroutine that takes part can run: Sender.Run, the writers, and the loops
\* of the peers that have one.
AtRest ==
  /\ current.rest = {} => msgCh = <<>>
  /\ \A p \in current.rest : ~Room(p)
  /\ \A p \in Peer :
       /\ p \in broken \/ connCh[p] = <<>> \/ Len(recvCh[p]) >= RecvCap
       /\ p \notin Deaf /\ loop[p] = SELECT => recvCh[p] = <<>>
       /\ loop[p] \in ToSelf => Len(recvCh[p]) >= RecvCap

\* Handled without its "eventually": in a network at rest every message that
\* Send accepted for a live peer with a good connection has been handled,
\* unless Sender.Run is jammed or the loop of the peer itself has halted.
NothingHeldBack ==
  AtRest => \A p \in Peer \ (Deaf \cup Fragile) :
              handled[p] = addressed[p] \/ Jammed \/ Halted(p)

\* No channel holds more than it has room for, and only connections that may
\* fail lose anything.
Capped ==
  /\ \A p \in Peer : Len(connCh[p]) <= ConnCap /\ Len(recvCh[p]) <= RecvCap
  /\ broken \subseteq Fragile
  /\ \A p \in Peer \ Fragile : dropped[p] = 0

\* Every send waits for room.
LEMMA NextCapped ==
  ASSUME NetTypes, Capped, [NetNext]_netVars PROVE Capped'
<1>0. /\ \A p \in Peer : Len(connCh[p]) <= ConnCap /\ Len(recvCh[p]) <= RecvCap
      /\ broken \subseteq Fragile /\ \A p \in Peer \ Fragile : dropped[p] = 0
      /\ ConnCap \in Nat /\ RecvCap \in Nat
      /\ \A p \in Peer : /\ connCh[p] \in Seq(Id) /\ Len(connCh[p]) \in Nat
                         /\ recvCh[p] \in Seq(Int) /\ Len(recvCh[p]) \in Nat
      /\ connCh \in [Peer -> Seq(Id)] /\ recvCh \in [Peer -> Seq(Int)]
      /\ dropped \in [Peer -> Nat]
  BY NetworkAssumption DEF Capped, NetTypes
<1>1. \A n, c \in Nat : n < c => n + 1 <= c
  OBVIOUS
<1>2. CASE UNCHANGED <<links, connCh, recvCh>>
  BY <1>0, <1>2 DEF Capped, links
<1>3. ASSUME NEW p \in Peer, enqueue(p) PROVE Capped'
  <2>1. /\ Len(connCh[p]) < ConnCap /\ connCh' = [connCh EXCEPT ![p] = Append(@, current.id)]
        /\ UNCHANGED <<recvCh, broken, dropped>>
    BY <1>3 DEF enqueue, Room, peers
  <2>2. Len(Append(connCh[p], current.id)) = Len(connCh[p]) + 1
    BY <1>0
  <2>3. \A q \in Peer : Len(connCh'[q]) <= ConnCap
    BY <1>0, <1>1, <2>1, <2>2
  <2> QED
    BY <1>0, <2>1, <2>3 DEF Capped
<1>4. ASSUME NEW p \in Peer, dialFail(p) PROVE Capped'
  <2>1. /\ p \in Fragile /\ dropped' = [dropped EXCEPT ![p] = @ + 1]
        /\ UNCHANGED <<connCh, recvCh, broken>>
    BY <1>4 DEF dialFail, peers
  <2> QED
    BY <1>0, <2>1 DEF Capped
<1>5. ASSUME NEW p \in Peer, write(p) \/ writeFail(p) PROVE Capped'
  <2>1. /\ connCh' = [connCh EXCEPT ![p] = Tail(@)] /\ connCh[p] # <<>>
        /\ UNCHANGED dropped
        /\ broken' \subseteq broken \cup (Fragile \cap {p})
    BY <1>5 DEF write, writeFail, Ended, links
  <2>2. Len(Tail(connCh[p])) = Len(connCh[p]) - 1
    BY <1>0, <2>1, HeadTailProperties
  <2>3. \A q \in Peer : Len(connCh'[q]) <= ConnCap
    <3>1. Len(connCh[p]) - 1 <= ConnCap
      BY <1>0
    <3> QED
      BY <1>0, <2>1, <2>2, <3>1
  <2>4. \A q \in Peer : Len(recvCh'[q]) <= RecvCap
    <3>1. CASE write(p)
      <4>1. /\ Len(recvCh[p]) < RecvCap
            /\ recvCh' = [recvCh EXCEPT ![p] = Append(@, Head(connCh[p]))]
        BY <3>1 DEF write
      <4>2. Len(Append(recvCh[p], Head(connCh[p]))) = Len(recvCh[p]) + 1
        BY <1>0
      <4> QED
        BY <1>0, <1>1, <4>1, <4>2
    <3>2. CASE writeFail(p)
      BY <1>0, <3>2 DEF writeFail, peers
    <3> QED
      BY <1>5, <3>1, <3>2
  <2> QED
    BY <1>0, <2>1, <2>3, <2>4 DEF Capped
<1>6. ASSUME NEW p \in Peer, handle(p) PROVE Capped'
  <2>1. /\ recvCh[p] # <<>> /\ recvCh' = [recvCh EXCEPT ![p] = Tail(@)]
        /\ UNCHANGED <<connCh, broken, dropped>>
    BY <1>6 DEF handle, links
  <2>2. Len(Tail(recvCh[p])) = Len(recvCh[p]) - 1
    BY <1>0, <2>1, HeadTailProperties
  <2>3. Len(recvCh[p]) - 1 <= RecvCap
    BY <1>0
  <2>4. \A q \in Peer : Len(recvCh'[q]) <= RecvCap
    BY <1>0, <2>1, <2>2, <2>3
  <2> QED
    BY <1>0, <2>1, <2>4 DEF Capped
<1>7. ASSUME NEW p \in Peer, selfSend(p) PROVE Capped'
  <2>1. /\ Len(recvCh[p]) < RecvCap /\ recvCh' = [recvCh EXCEPT ![p] = Append(@, loop[p])]
        /\ UNCHANGED <<connCh, broken, dropped>>
    BY <1>7 DEF selfSend, links
  <2>2. Len(Append(recvCh[p], loop[p])) = Len(recvCh[p]) + 1
    BY <1>0
  <2>3. \A q \in Peer : Len(recvCh'[q]) <= RecvCap
    BY <1>0, <1>1, <2>1, <2>2
  <2> QED
    BY <1>0, <2>1, <2>3 DEF Capped
<1>8. CASE UNCHANGED netVars
  BY <1>2, <1>8 DEF netVars, peers
<1>9. ASSUME \/ takeMsg
             \/ \E to \in {Peer} \cup {{p} : p \in Peer}, id \in 1..MaxMsgs : Send(to, id)
      PROVE  Capped'
  <2>1. UNCHANGED <<links, connCh, recvCh>>
    BY <1>9 DEF takeMsg, Send, peers
  <2> QED
    BY <1>2, <2>1
<1> QED
  BY <1>3, <1>4, <1>5, <1>6, <1>7, <1>8, <1>9 DEF NetNext, senderRun, Loop

\* What keeps the queue of a peer full in a network at rest.
LEMMA FullAtRest ==
  ASSUME NetTypes, Capped, AtRest, NEW q \in Peer, ~Room(q) PROVE Stopped(q)
<1>1. /\ ConnCap \in Nat \ {0} /\ RecvCap \in Nat \ {0}
      /\ Len(connCh[q]) \in Nat /\ Len(connCh[q]) <= ConnCap /\ ~(Len(connCh[q]) < ConnCap)
      /\ Len(recvCh[q]) \in Nat /\ Len(recvCh[q]) <= RecvCap
  BY NetworkAssumption DEF NetTypes, Capped, Room
<1>2. Len(connCh[q]) = ConnCap /\ connCh[q] # <<>>
  BY <1>1
<1>3. q \in broken \/ Len(recvCh[q]) = RecvCap
  BY <1>1, <1>2 DEF AtRest
<1>4. Len(recvCh[q]) = RecvCap => recvCh[q] # <<>>
  BY <1>1
<1>5. q \in broken \/ (Len(recvCh[q]) = RecvCap /\ (q \in Deaf \/ loop[q] # SELECT))
  BY <1>3, <1>4 DEF AtRest
<1>6. loop[q] \in ToSelf \cup {SELECT, BLOCKED}
  BY DEF NetTypes
<1> QED
  BY <1>2, <1>5, <1>6 DEF Stopped, Halted, Choked

\* At rest, a message to p could only wait behind one that Sender.Run waits with.
LEMMA RestHandled ==
  ASSUME NetInv, Capped, AtRest, ~Jammed,
         NEW p \in Peer \ (Deaf \cup Fragile), ~Halted(p)
  PROVE  handled[p] = addressed[p]
<1>1. /\ NetTypes /\ HandledFirst(p) /\ p \notin broken /\ dropped[p] = 0
      /\ Left(p) \ Elems(recvCh[p]) = Elems(connCh[p]) \cup Waiting(p)
      /\ Elems(recvCh[p]) \subseteq Left(p)
  BY OrderOf DEF Capped
<1>2. RecvCap \in Nat \ {0} /\ Len(recvCh[p]) \in Nat /\ Len(recvCh[p]) <= RecvCap
  BY <1>1, NetworkAssumption DEF Capped, NetTypes
<1>3. loop[p] = SELECT
  BY <1>1, <1>2 DEF AtRest, Halted, Choked, NetTypes
<1>4. recvCh[p] = <<>>
  BY <1>3 DEF AtRest
<1>5. connCh[p] = <<>>
  BY <1>1, <1>2, <1>4 DEF AtRest
<1>6. current.rest = {} /\ msgCh = <<>>
  <2>1. ASSUME NEW q \in current.rest PROVE FALSE
    <3>1. q \in Peer
      BY <1>1, <2>1 DEF NetTypes
    <3>2. ~Room(q)
      BY <2>1 DEF AtRest
    <3>3. Stopped(q)
      BY <1>1, <3>1, <3>2, FullAtRest
    <3> QED
      BY <2>1, <3>3 DEF Jammed
  <2> QED
    BY <2>1 DEF AtRest
<1>7. Waiting(p) = {} /\ Elems(recvCh[p]) = {} /\ Elems(connCh[p]) = {}
  BY <1>4, <1>5, <1>6, ElemsEmpty DEF Waiting, InRun
<1>8. Left(p) = {}
  BY <1>1, <1>7
<1>9. /\ handled[p] \in Seq(Id) /\ addressed[p] \in Seq(Id)
      /\ Len(handled[p]) \in Nat /\ Len(addressed[p]) \in Nat
      /\ \A i \in 1..Len(addressed[p]) : addressed[p][i] \in Id
  <2>1. handled[p] \in Seq(Id) /\ addressed[p] \in Seq(Id)
    BY <1>1 DEF NetTypes
  <2> QED
    BY <2>1, ElementOfSeq
<1>10. /\ Len(handled[p]) <= Len(addressed[p])
       /\ \A i \in 1..Len(handled[p]) : handled[p][i] = addressed[p][i]
  <2>1. /\ dropped[p] + Len(handled[p]) <= Len(addressed[p])
        /\ \A i \in 1..Len(handled[p]) : handled[p][i] = addressed[p][dropped[p] + i]
    BY <1>1 DEF HandledFirst
  <2>2. dropped[p] + Len(handled[p]) = Len(handled[p])
        /\ \A i \in 1..Len(handled[p]) : dropped[p] + i = i
    BY <1>1, <1>9
  <2> QED
    BY <2>1, <2>2
<1>11. Len(handled[p]) = Len(addressed[p])
  <2>1. ASSUME Len(handled[p]) < Len(addressed[p]) PROVE FALSE
    <3> DEFINE k == Len(addressed[p])
    <3>1. k \in (dropped[p] + Len(handled[p]) + 1)..k /\ k \in 1..k
      <4>1. dropped[p] = 0 /\ k \in Nat /\ Len(handled[p]) \in Nat /\ Len(handled[p]) < k
        BY <1>1, <1>9, <2>1
      <4> HIDE DEF k
      <4> QED
        BY <4>1
    <3>2. addressed[p][k] \in Left(p)
      BY <1>9, <3>1 DEF Left
    <3> QED
      BY <1>8, <3>2
  <2> QED
    BY <1>9, <1>10, <2>1
<1> QED
  BY <1>9, <1>10, <1>11, SeqEqual

\* NothingHeldBack for any number of peers and messages and any capacities.
THEOREM RestIsDone == NetSpec => []NothingHeldBack
<1>1. CASE Peer = {}
  <2>1. NothingHeldBack
    BY <1>1 DEF NothingHeldBack
  <2> QED
    BY <2>1, PTL
<1>2. CASE Peer # {}
  <2>1. NetSpec => []NetInv
    BY <1>2, NetInvariant
  <2>2. NetInit => Capped
    BY NetworkAssumption DEF NetInit, Capped
  <2>3. NetInv /\ Capped /\ [NetNext]_netVars => Capped'
    BY NextCapped DEF NetInv
  <2>4. NetInv /\ Capped => NothingHeldBack
    BY RestHandled DEF NothingHeldBack
  <2> QED
    BY <2>1, <2>2, <2>3, <2>4, PTL DEF NetSpec
<1> QED
  BY <1>1, <1>2
=============================================================================
