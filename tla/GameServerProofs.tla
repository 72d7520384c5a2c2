-------------------------- MODULE GameServerProofs --------------------------
(***************************************************************************)
(* Theorems about GameServer, the message path of the servers, for any     *)
(* clients, sizes of frames and sizes of the send buffer: every frame is   *)
(* in one place, a client sees a FIFO channel, and a closed session is     *)
(* erased for good.                                                        *)
(***************************************************************************)
EXTENDS GameServer, PrefixLemmas

Buffers == [msgs : Seq(Frame), pos : 0..NET_DATA_BUFSIZE]
Queues  == [front : Seq(Frame), back : Seq(Frame)]

(* OnUpdate has a message in hand exactly while it dispatches.              *)
Dispatching == {"dispatch", "reply", "erase"}
HandInvariant == IF tick \in Dispatching THEN msg \in Frame ELSE msg = NoMsg

(* The client stub of no message is no frame.                               *)
LEMMA NoMsgIsNoFrame == NoMsg \notin Frame
<1> SUFFICES ASSUME NoMsg \in Frame PROVE FALSE
  OBVIOUS
<1>1. DOMAIN NoMsg = {"client", "n", "size"}
  BY DEF Frame
<1>2. DOMAIN NoMsg = {"client"}
  BY DEF NoMsg
<1> QED
  BY <1>1, <1>2

(* addMsg keeps a buffer a buffer (send_msg_buffer.cpp:25-61).              *)
LEMMA AddMsgType ==
  ASSUME NEW b \in Buffers, NEW m \in Frame
  PROVE  addMsg(b, m) \in Buffers
<1>1. m.size \in Nat
  BY GameServerAssumption DEF Frame
<1>2. << m >> \in Seq(Frame) /\ Append(b.msgs, m) \in Seq(Frame)
  BY DEF Buffers
<1>3. CASE addMsgResult(b, m) = "BUFFER_ADDED"
  <2>1. b.pos + m.size \in 0..NET_DATA_BUFSIZE
    BY <1>1, <1>3, BufferSizesAssumption DEF addMsgResult, Buffers
  <2> QED
    BY <1>2, <1>3, <2>1 DEF addMsg, Buffers
<1>4. CASE addMsgResult(b, m) = "BUFFER_SEND"
  <2>1. m.size \in 0..NET_DATA_BUFSIZE
    BY <1>1, <1>4, BufferSizesAssumption DEF addMsgResult, Buffers
  <2> QED
    BY <1>2, <1>4, <2>1 DEF addMsg, Buffers
<1> QED
  BY <1>3, <1>4 DEF addMsg

(* What Send puts out and what it leaves behind.                            *)
LEMMA SendType ==
  ASSUME NEW b \in Buffers, NEW m \in Frame
  PROVE  SentNow(b, m) \in Seq(Frame) /\ LeftInBuffer(b, m) \in Buffers
<1>1. EmptyBuffer \in Buffers
  BY BufferSizesAssumption DEF EmptyBuffer, Buffers
<1>2. addMsg(EmptyBuffer, m) \in Buffers /\ addMsg(b, m) \in Buffers
  BY <1>1, AddMsgType
<1>3. b.msgs \in Seq(Frame) /\ << m >> \in Seq(Frame) /\ << >> \in Seq(Frame)
  BY DEF Buffers
<1> QED
  BY <1>1, <1>2, <1>3 DEF SentNow, LeftInBuffer

(* Close() keeps the types of what it changes.                              *)
LEMMA CloseType ==
  ASSUME TypeOK, NEW c \in Clients, Close(c)
  PROVE  link' \in [Clients -> {"new", "stored", "up", "down"}] /\ packets' \in [Clients -> Seq(Frame)]
<1>1. << >> \in Seq(Frame)
  OBVIOUS
<1> QED
  BY <1>1 DEF Close, TypeOK

(* The message path keeps its type (msg_manager.h, send_msg_buffer.cpp and  *)
(* the servers' OnAccept, OnUpdate and dispatch).                           *)
THEOREM PathTypeCorrect == Spec => [](TypeOK /\ HandInvariant)
<1>1. Init => TypeOK /\ HandInvariant
  BY BufferSizesAssumption DEF Init, TypeOK, HandInvariant, Dispatching, EmptyQueues, EmptyBuffer
<1>2. TypeOK /\ HandInvariant /\ [Next]_vars => HandInvariant'
  <2> SUFFICES ASSUME TypeOK, HandInvariant, [Next]_vars PROVE HandInvariant'
    OBVIOUS
  <2> USE DEF HandInvariant, Dispatching
  <2>1. CASE UNCHANGED << tick, msg >>
    BY <2>1
  <2>2. CASE OnUpdateGets
    <3>1. Head(m_recvMsgs.back) \in Frame
      BY <2>2, HeadTailProperties DEF OnUpdateGets, CanGetMsg, TypeOK
    <3> QED
      BY <2>2, <3>1 DEF OnUpdateGets, GetMsg
  <2>3. CASE OnUpdate /\ ~OnUpdateGets
    BY <2>3 DEF OnUpdate, OnUpdateFlips, OnUpdateDrained, DispatchDrops, DispatchFinds, ReplyTooLarge, TickErases,
       Reply, OnUpdateFlushes
  <2>4. CASE \E c \in Clients : \/ OnAcceptStores(c) \/ OnAcceptStarts(c) \/ ReadEnds(c) \/ OnClose(c) \/ Transmit(c)
                               \/ \E size \in Sizes : Receive(c, size)
    BY <2>1, <2>4 DEF OnAcceptStores, OnAcceptStarts, ReadEnds, OnClose, Transmit, Receive
  <2> QED
    BY <2>1, <2>2, <2>3, <2>4 DEF Next, vars
<1>3. TypeOK /\ HandInvariant /\ [Next]_vars => TypeOK'
  <2> SUFFICES ASSUME TypeOK, HandInvariant, [Next]_vars PROVE TypeOK'
    OBVIOUS
  <2> USE DEF TypeOK, clientSide, inbound, outbound
  <2>0. m_sendBuffer \in [Clients -> Buffers] /\ m_recvMsgs \in Queues
    BY DEF Buffers, Queues
  <2>1. CASE \E c \in Clients : OnAcceptStores(c) \/ OnAcceptStarts(c) \/ OnClose(c)
    BY <2>1 DEF OnAcceptStores, OnAcceptStarts, OnClose
  <2>2. ASSUME NEW c \in Clients, NEW size \in Sizes, Receive(c, size) PROVE TypeOK'
    <3> DEFINE frame == [client |-> c, n |-> Len(received[c]) + 1, size |-> size]
    <3>1. received[c] \in Seq(Frame) /\ Len(received[c]) \in Nat
      OBVIOUS
    <3>2. frame.n \in 1..MaxFrames
      BY <2>2, <3>1, GameServerAssumption DEF Receive
    <3>3. frame \in Frame
      BY <3>2 DEF Frame
    <3>4. m_recvMsgs' = [front |-> Append(m_recvMsgs.front, frame), back |-> m_recvMsgs.back]
      BY <2>2, <2>0 DEF Receive, MsgQueueInsert, Queues
    <3> HIDE DEF frame
    <3>5. Append(received[c], frame) \in Seq(Frame) /\ m_recvMsgs' \in Queues
      BY <3>1, <3>3, <3>4, <2>0, AppendProperties DEF Queues
    <3> QED
      BY <2>2, <3>5 DEF Receive, frame, Queues
  <2>3. CASE \E c \in Clients : ReadEnds(c)
    <3>1. PICK c \in Clients : ReadEnds(c)
      BY <2>3
    <3>2. link' \in [Clients -> {"new", "stored", "up", "down"}] /\ packets' \in [Clients -> Seq(Frame)]
      BY <3>1, CloseType DEF ReadEnds
    <3>3. erasing' \subseteq Clients
      BY <3>1 DEF ReadEnds
    <3> QED
      BY <3>1, <3>2, <3>3 DEF ReadEnds
  <2>4. ASSUME NEW c \in Clients, Transmit(c) PROVE TypeOK'
    <3>1. Head(packets[c]) \in Frame /\ Tail(packets[c]) \in Seq(Frame)
      BY <2>4, HeadTailProperties DEF Transmit
    <3>2. Append(echoed[c], Head(packets[c])) \in Seq(Frame)
      BY <3>1, AppendProperties
    <3> QED
      BY <2>4, <3>1, <3>2 DEF Transmit
  <2>5. CASE OnUpdateFlips
    BY <2>5 DEF OnUpdateFlips, MsgQueueFlip
  <2>6. CASE OnUpdateGets
    <3>1. Head(m_recvMsgs.back) \in Frame /\ Tail(m_recvMsgs.back) \in Seq(Frame)
      BY <2>6, <2>0, HeadTailProperties DEF OnUpdateGets, CanGetMsg, Queues
    <3>2. m_recvMsgs' = [front |-> m_recvMsgs.front, back |-> Tail(m_recvMsgs.back)]
      BY <2>6, <2>0 DEF OnUpdateGets, Popped, Queues
    <3> QED
      BY <2>6, <3>1, <3>2 DEF OnUpdateGets, GetMsg
  <2>7. CASE OnUpdateDrained \/ DispatchDrops \/ DispatchFinds \/ TickErases
    BY <2>7 DEF OnUpdateDrained, DispatchDrops, DispatchFinds, TickErases
  <2>8. CASE ReplyTooLarge
    <3>1. msg.client \in Clients
      BY <2>8 DEF ReplyTooLarge, HandInvariant, Dispatching, Frame
    <3>2. link' \in [Clients -> {"new", "stored", "up", "down"}] /\ packets' \in [Clients -> Seq(Frame)]
      BY <2>8, <3>1, CloseType DEF ReplyTooLarge
    <3>3. tick' \in {"erase", "drain"} /\ msg' \in Frame \cup {NoMsg}
      BY <2>8 DEF ReplyTooLarge
    <3> QED
      BY <2>8, <3>2, <3>3 DEF ReplyTooLarge
  <2>9. CASE Reply
    <3>1. msg \in Frame
      BY <2>9 DEF Reply, HandInvariant, Dispatching
    <3>2. /\ SentNow(m_sendBuffer[msg.client], msg) \in Seq(Frame)
          /\ LeftInBuffer(m_sendBuffer[msg.client], msg) \in Buffers
      BY <2>0, <3>1, SendType DEF Frame
    <3>3. packets[msg.client] \o SentNow(m_sendBuffer[msg.client], msg) \in Seq(Frame)
      BY <3>1, <3>2, ConcatProperties DEF Frame
    <3> QED
      BY <2>0, <2>9, <3>1, <3>2, <3>3 DEF Reply, Buffers
  <2>10. CASE OnUpdateFlushes
    <3>1. EmptyBuffer \in Buffers
      BY BufferSizesAssumption DEF EmptyBuffer, Buffers
    <3>2. \A c \in Clients : packets[c] \o m_sendBuffer[c].msgs \in Seq(Frame)
      BY <2>0, ConcatProperties DEF Buffers
    <3> QED
      BY <2>0, <2>10, <3>1, <3>2 DEF OnUpdateFlushes, Buffers
  <2>11. CASE UNCHANGED vars
    BY <2>11 DEF vars
  <2> QED
    BY <2>1, <2>2, <2>3, <2>4, <2>5, <2>6, <2>7, <2>8, <2>9, <2>10, <2>11 DEF Next, OnUpdate
<1> QED
  BY <1>1, <1>2, <1>3, PTL DEF Spec

-----------------------------------------------------------------------------
(* The invariant, in terms of values: a sequence of handled frames h, the   *)
(* frames r received from client c, and the receive queue q.                *)

Numbered(r, c) == \A n \in 1..Len(r) : r[n].client = c /\ r[n].n = n

Ordered(q) ==
  \A i, j \in 1..Len(q) : i < j /\ q[i].client = q[j].client => q[i].n < q[j].n

(* What is not handled yet waits in the queue, and nothing else of c does.  *)
Waits(q, c, h, r) ==
  /\ Agrees(h, r)
  /\ \A n \in Len(h) + 1 .. Len(r) : \E i \in 1..Len(q) : q[i] = r[n]
  /\ \A i \in 1..Len(q) : q[i].client = c => q[i].n > Len(h)

(* Agreement index by index is being a prefix.                              *)
LEMMA AgreesIsPrefix ==
  ASSUME NEW s \in Seq(Frame), NEW t \in Seq(Frame), Agrees(s, t)
  PROVE  IsPrefix(s, t) /\ s = SubSeq(t, 1, Len(s))
<1>1. SubSeq(s, 1, Len(s)) = s /\ s = SubSeq(t, 1, Len(s))
  BY SubSeqFull, AgreesIsBeginning
<1> QED
  BY <1>1 DEF IsPrefix, Agrees

(* A read loop inserts the next frame of its client.                        *)
LEMMA WaitsAppend ==
  ASSUME NEW q \in Seq(Frame), NEW h \in Seq(Frame), NEW r \in Seq(Frame), NEW f \in Frame,
         Waits(q, f.client, h, r), f.n = Len(r) + 1
  PROVE  Waits(Append(q, f), f.client, h, Append(r, f))
<1> USE DEF Waits, Agrees
<1>1. Len(q) \in Nat /\ Len(h) \in Nat /\ Len(r) \in Nat
  BY LenProperties
<1>2. /\ Len(Append(q, f)) = Len(q) + 1 /\ Append(q, f)[Len(q) + 1] = f
      /\ \A i \in 1..Len(q) : Append(q, f)[i] = q[i]
      /\ Len(Append(r, f)) = Len(r) + 1 /\ Append(r, f)[Len(r) + 1] = f
      /\ \A i \in 1..Len(r) : Append(r, f)[i] = r[i]
  BY AppendProperties
<1>3. Agrees(h, Append(r, f))
  BY <1>1, <1>2
<1>4. ASSUME NEW n \in Len(h) + 1 .. Len(r) + 1
      PROVE  \E i \in 1..Len(q) + 1 : Append(q, f)[i] = Append(r, f)[n]
  <2>1. CASE n = Len(r) + 1
    BY <1>1, <1>2, <2>1
  <2>2. CASE n \in Len(h) + 1 .. Len(r)
    <3>1. PICK i \in 1..Len(q) : q[i] = r[n]
      BY <2>2
    <3> QED
      BY <1>1, <1>2, <2>2, <3>1
  <2> QED
    BY <1>1, <2>1, <2>2
<1>5. ASSUME NEW i \in 1..Len(q) + 1, Append(q, f)[i].client = f.client
      PROVE  Append(q, f)[i].n > Len(h)
  <2>1. CASE i = Len(q) + 1
    BY <1>1, <1>2, <2>1
  <2>2. CASE i \in 1..Len(q)
    BY <1>2, <1>5, <2>2
  <2> QED
    BY <1>1, <2>1, <2>2
<1> QED
  BY <1>2, <1>3, <1>4, <1>5

(* For the other clients nothing changes.                                   *)
LEMMA WaitsAppendOther ==
  ASSUME NEW q \in Seq(Frame), NEW h \in Seq(Frame), NEW r \in Seq(Frame), NEW f \in Frame, NEW c,
         Waits(q, c, h, r), f.client # c
  PROVE  Waits(Append(q, f), c, h, r)
<1> USE DEF Waits
<1>1. Len(q) \in Nat
  BY LenProperties
<1>2. /\ Len(Append(q, f)) = Len(q) + 1 /\ Append(q, f)[Len(q) + 1] = f
      /\ \A i \in 1..Len(q) : Append(q, f)[i] = q[i]
  BY AppendProperties
<1>3. ASSUME NEW n \in Len(h) + 1 .. Len(r)
      PROVE  \E i \in 1..Len(q) + 1 : Append(q, f)[i] = r[n]
  <2>1. PICK i \in 1..Len(q) : q[i] = r[n]
    OBVIOUS
  <2> QED
    BY <1>1, <1>2, <2>1
<1>4. ASSUME NEW i \in 1..Len(q) + 1, Append(q, f)[i].client = c
      PROVE  Append(q, f)[i].n > Len(h)
  <2>1. i \in 1..Len(q)
    BY <1>1, <1>2, <1>4
  <2> QED
    BY <1>2, <1>4, <2>1
<1> QED
  BY <1>2, <1>3, <1>4

(* The tick takes the oldest frame of the queue: the next one of its client *)
(* that is not handled yet.                                                 *)
LEMMA WaitsTail ==
  ASSUME NEW q \in Seq(Frame), NEW h \in Seq(Frame), NEW r \in Seq(Frame), q # << >>, NEW c,
         Head(q).client = c, Waits(q, c, h, r), Numbered(r, c), Ordered(q),
         Head(q).n \in 1..Len(r), Head(q) = r[Head(q).n]
  PROVE  Waits(Tail(q), c, Append(h, Head(q)), r)
<1> USE DEF Waits, Agrees, Numbered
<1>1. /\ Len(q) \in Nat \ {0} /\ Len(h) \in Nat /\ Len(r) \in Nat /\ Head(q) \in Frame /\ Head(q) = q[1]
      /\ Tail(q) \in Seq(Frame) /\ Len(Tail(q)) = Len(q) - 1 /\ \A i \in 1..Len(q) - 1 : Tail(q)[i] = q[i + 1]
  BY LenProperties, HeadTailProperties, EmptySeq
<1>2. /\ Len(Append(h, Head(q))) = Len(h) + 1 /\ Append(h, Head(q))[Len(h) + 1] = Head(q)
      /\ \A i \in 1..Len(h) : Append(h, Head(q))[i] = h[i]
  BY <1>1, AppendProperties
<1>3. Head(q).n = Len(h) + 1
  <2>1. Head(q).n > Len(h)
    BY <1>1
  <2>2. PICK i \in 1..Len(q) : q[i] = r[Len(h) + 1]
    BY <1>1, <2>1
  <2>3. q[i].client = c /\ q[i].n = Len(h) + 1
    BY <1>1, <2>1, <2>2
  <2>4. i # 1 => q[1].n < q[i].n
    BY <1>1, <2>3 DEF Ordered
  <2> QED
    BY <1>1, <2>1, <2>3, <2>4
<1>4. Agrees(Append(h, Head(q)), r)
  BY <1>1, <1>2, <1>3
<1>5. ASSUME NEW n \in Len(h) + 2 .. Len(r)
      PROVE  \E i \in 1..Len(q) - 1 : Tail(q)[i] = r[n]
  <2>1. PICK i \in 1..Len(q) : q[i] = r[n]
    BY <1>1
  <2>2. i # 1
    BY <1>1, <1>3, <2>1
  <2>3. i - 1 \in 1..Len(q) - 1 /\ Tail(q)[i - 1] = q[i]
    BY <1>1, <2>2
  <2> QED
    BY <2>1, <2>3
<1>6. ASSUME NEW i \in 1..Len(q) - 1, Tail(q)[i].client = c
      PROVE  Tail(q)[i].n > Len(h) + 1
  <2>1. Tail(q)[i] = q[i + 1] /\ q[1].client = q[i + 1].client
    BY <1>1, <1>6
  <2> QED
    BY <1>1, <1>3, <2>1 DEF Ordered
<1> QED
  BY <1>1, <1>2, <1>4, <1>5, <1>6

(* For the other clients nothing changes.                                   *)
LEMMA WaitsTailOther ==
  ASSUME NEW q \in Seq(Frame), NEW h \in Seq(Frame), NEW r \in Seq(Frame), q # << >>, NEW c,
         Head(q).client # c, Waits(q, c, h, r), Numbered(r, c)
  PROVE  Waits(Tail(q), c, h, r)
<1> USE DEF Waits, Numbered
<1>1. /\ Len(q) \in Nat \ {0} /\ Len(h) \in Nat /\ Len(r) \in Nat /\ Head(q) = q[1]
      /\ Len(Tail(q)) = Len(q) - 1 /\ \A i \in 1..Len(q) - 1 : Tail(q)[i] = q[i + 1]
  BY LenProperties, HeadTailProperties, EmptySeq
<1>2. ASSUME NEW n \in Len(h) + 1 .. Len(r)
      PROVE  \E i \in 1..Len(q) - 1 : Tail(q)[i] = r[n]
  <2>1. PICK i \in 1..Len(q) : q[i] = r[n]
    OBVIOUS
  <2>2. i # 1
    BY <1>1, <2>1
  <2>3. i - 1 \in 1..Len(q) - 1 /\ Tail(q)[i - 1] = q[i]
    BY <1>1, <2>2
  <2> QED
    BY <2>1, <2>3
<1>3. ASSUME NEW i \in 1..Len(q) - 1, Tail(q)[i].client = c
      PROVE  Tail(q)[i].n > Len(h)
  BY <1>1, <1>3
<1> QED
  BY <1>1, <1>2, <1>3

(* The first frame of a concatenation, and what is behind it.               *)
LEMMA HeadTailConcat ==
  ASSUME NEW s \in Seq(Frame), NEW t \in Seq(Frame), s # << >>
  PROVE  s \o t # << >> /\ Head(s \o t) = Head(s) /\ Tail(s \o t) = Tail(s) \o t
<1>1. /\ Len(s) \in Nat \ {0} /\ Len(t) \in Nat
      /\ s \o t \in Seq(Frame) /\ Len(s \o t) = Len(s) + Len(t)
      /\ \A i \in 1..Len(s) + Len(t) : (s \o t)[i] = IF i <= Len(s) THEN s[i] ELSE t[i - Len(s)]
  BY EmptySeq, LenProperties, ConcatProperties
<1>2. s \o t # << >> /\ Head(s \o t) = (s \o t)[1] /\ Head(s) = s[1]
  BY <1>1
<1>3. /\ Tail(s) \in Seq(Frame) /\ Len(Tail(s)) = Len(s) - 1 /\ \A i \in 1..Len(s) - 1 : Tail(s)[i] = s[i + 1]
      /\ Tail(s \o t) \in Seq(Frame) /\ Len(Tail(s \o t)) = Len(s) + Len(t) - 1
      /\ \A i \in 1..Len(s) + Len(t) - 1 : Tail(s \o t)[i] = (s \o t)[i + 1]
  BY <1>1, <1>2, HeadTailProperties
<1>4. /\ Tail(s) \o t \in Seq(Frame) /\ Len(Tail(s) \o t) = Len(s) - 1 + Len(t)
      /\ \A i \in 1..Len(s) - 1 + Len(t) :
           (Tail(s) \o t)[i] = IF i <= Len(s) - 1 THEN Tail(s)[i] ELSE t[i - (Len(s) - 1)]
  BY <1>3, ConcatProperties
<1>5. ASSUME NEW i \in 1..Len(s) + Len(t) - 1
      PROVE  Tail(s \o t)[i] = (Tail(s) \o t)[i]
  BY <1>1, <1>3, <1>4
<1>6. Tail(s \o t) = Tail(s) \o t
  BY <1>1, <1>3, <1>4, <1>5, SeqEqual
<1> QED
  BY <1>1, <1>2, <1>6

(* A sequence is its first frame and the rest.                              *)
LEMMA HeadAndTail ==
  ASSUME NEW s \in Seq(Frame), s # << >>
  PROVE  << Head(s) >> \o Tail(s) = s
<1>1. << Head(s) >> \in Seq(Frame) /\ Tail(s) \in Seq(Frame) /\ Len(<< Head(s) >>) = 1 /\ << Head(s) >>[1] = Head(s)
  BY HeadTailProperties
<1>2. Len(s) \in Nat \ {0} /\ Len(Tail(s)) = Len(s) - 1 /\ \A i \in 1..Len(s) - 1 : Tail(s)[i] = s[i + 1]
  BY EmptySeq, HeadTailProperties
<1>3. /\ << Head(s) >> \o Tail(s) \in Seq(Frame) /\ Len(<< Head(s) >> \o Tail(s)) = Len(s)
      /\ \A i \in 1..Len(s) :
           (<< Head(s) >> \o Tail(s))[i] = IF i <= 1 THEN Head(s) ELSE Tail(s)[i - 1]
  BY <1>1, <1>2, ConcatProperties
<1>4. \A i \in 1..Len(s) : (<< Head(s) >> \o Tail(s))[i] = s[i]
  BY <1>2, <1>3
<1> QED
  BY <1>3, <1>4, SeqEqual

(* Appending and concatenating.                                             *)
LEMMA AppendConcat ==
  ASSUME NEW s \in Seq(Frame), NEW t \in Seq(Frame), NEW f \in Frame
  PROVE  s \o Append(t, f) = Append(s \o t, f)
<1>1. << f >> \in Seq(Frame) /\ s \o t \in Seq(Frame)
  BY ConcatProperties
<1>2. Append(t, f) = t \o << f >> /\ Append(s \o t, f) = (s \o t) \o << f >>
  BY <1>1, AppendIsConcat
<1> QED
  BY <1>1, <1>2, ConcatAssociative

(* Concatenation of frames is associative.                                  *)
LEMMA FramesAssociative ==
  \A s, t, u \in Seq(Frame) : s \o t \in Seq(Frame) /\ (s \o t) \o u = s \o (t \o u)
BY ConcatAssociative, ConcatProperties

(* Send keeps every frame, in order: the batch it puts out, if any, and the *)
(* one it leaves are the old batch and the new frame                        *)
(* (session.cpp:41-72, send_msg_buffer.cpp:25-61).                          *)
LEMMA SendConserves ==
  ASSUME NEW b \in Buffers, NEW m \in Frame, addMsgResult(b, m) # "BUFFER_ERROR",
         b.pos = 0 => b.msgs = << >>
  PROVE  /\ SentNow(b, m) \o LeftInBuffer(b, m).msgs = Append(b.msgs, m)
         /\ LeftInBuffer(b, m).pos = 0 => LeftInBuffer(b, m).msgs = << >>
<1>0. m.size \in Nat \ {0}
  BY GameServerAssumption DEF Frame
<1>1. m.size \in Nat \ {0} /\ b.msgs \in Seq(Frame) /\ b.pos \in Nat /\ << m >> \in Seq(Frame)
  BY <1>0, BufferSizesAssumption DEF Buffers
<1>2. /\ Append(b.msgs, m) = b.msgs \o << m >> /\ Append(b.msgs, m) \in Seq(Frame)
      /\ << >> \o Append(b.msgs, m) = Append(b.msgs, m) /\ << m >> \o << >> = << m >>
      /\ << >> \o << m >> = << m >> /\ Append(<< >>, m) = << m >>
  BY <1>1, AppendIsConcat, AppendProperties, ConcatEmptySeq
<1>3. CASE addMsgResult(b, m) = "BUFFER_SEND"
  <2>1. SentNow(b, m) = << m >> /\ LeftInBuffer(b, m) = [msgs |-> << >>, pos |-> 0]
    BY <1>3 DEF SentNow, LeftInBuffer, EmptyBuffer
  <2>2. b.pos = 0
    BY <1>1, <1>3, BufferSizesAssumption DEF addMsgResult
  <2> QED
    BY <1>2, <2>1, <2>2
<1>4. CASE addMsgResult(b, m) = "BUFFER_ADDED"
  <2>1. SentNow(b, m) = << >> /\ LeftInBuffer(b, m) = [msgs |-> Append(b.msgs, m), pos |-> b.pos + m.size]
    BY <1>4 DEF SentNow, LeftInBuffer, addMsg
  <2> QED
    BY <1>1, <1>2, <2>1
<1>5. CASE addMsgResult(b, m) = "BUFFER_SEND_ADD"
  <2>1. m.size <= NET_DATA_BUFSIZE
    BY <1>1, <1>5, BufferSizesAssumption DEF addMsgResult
  <2>2. addMsgResult(EmptyBuffer, m) \in {"BUFFER_ADDED", "BUFFER_SEND"}
    BY <1>1, <2>1, BufferSizesAssumption DEF addMsgResult, EmptyBuffer
  <2>3. addMsg(EmptyBuffer, m) = [msgs |-> << m >>, pos |-> m.size]
    BY <1>1, <1>2, <2>2 DEF addMsg, EmptyBuffer
  <2>4. SentNow(b, m) = b.msgs /\ LeftInBuffer(b, m) = [msgs |-> << m >>, pos |-> m.size]
    BY <1>5, <2>3 DEF SentNow, LeftInBuffer
  <2> QED
    BY <1>1, <1>2, <2>4
<1>6. addMsgResult(b, m) \in {"BUFFER_ADDED", "BUFFER_SEND", "BUFFER_SEND_ADD"}
  BY DEF addMsgResult
<1> QED
  BY <1>3, <1>4, <1>5, <1>6

-----------------------------------------------------------------------------
(* Who is in the session map and who may hold a session that is closed.     *)
SessionInvariant ==
  /\ \A c \in Clients : link[c] \in {"new", "stored"} => received[c] = << >> /\ c \notin reading
  /\ \A c \in Clients : link[c] \in {"stored", "up"} => c \in m_sessions
  /\ \A c \in erasing : link[c] = "down"
  /\ tick \in Dispatching => link[msg.client] \in {"up", "down"}
  /\ tick = "erase" => link[msg.client] = "down"

BuffersInvariant == \A c \in Clients : m_sendBuffer[c].pos = 0 => m_sendBuffer[c].msgs = << >>

InboundInvariant ==
  LET q == Content(m_recvMsgs) IN
  /\ \A c \in Clients : Numbered(received[c], c)
  /\ \A i \in 1..Len(q) :
       q[i].n \in 1..Len(received[q[i].client]) /\ q[i] = received[q[i].client][q[i].n]
  /\ Ordered(q)

PathInvariant ==
  \A c \in Clients : link[c] # "down" => Waits(Content(m_recvMsgs), c, Handled(c), received[c])

Typed == TypeOK /\ HandInvariant

(* How the contents of the receive queue change.                            *)
LEMMA ContentSteps ==
  ASSUME Typed, [Next]_vars
  PROVE  /\ Content(m_recvMsgs) \in Seq(Frame)
         /\ ~OnUpdateGets /\ (\A c \in Clients, size \in Sizes : ~Receive(c, size))
              => Content(m_recvMsgs)' = Content(m_recvMsgs)
         /\ OnUpdateGets => /\ Content(m_recvMsgs) # << >>
                            /\ msg' = Head(Content(m_recvMsgs))
                            /\ Content(m_recvMsgs)' = Tail(Content(m_recvMsgs))
         /\ \A c \in Clients, size \in Sizes : Receive(c, size) =>
              LET f == [client |-> c, n |-> Len(received[c]) + 1, size |-> size] IN
              f \in Frame /\ Content(m_recvMsgs)' = Append(Content(m_recvMsgs), f)
<1>1. /\ m_recvMsgs.back \in Seq(Frame) /\ m_recvMsgs.front \in Seq(Frame)
      /\ m_recvMsgs = [front |-> m_recvMsgs.front, back |-> m_recvMsgs.back]
  BY DEF Typed, TypeOK
<1>2. Content(m_recvMsgs) \in Seq(Frame)
  BY <1>1, ConcatProperties DEF Content
<1>3. ASSUME ~OnUpdateGets, \A c \in Clients, size \in Sizes : ~Receive(c, size)
      PROVE  Content(m_recvMsgs)' = Content(m_recvMsgs)
  <2>1. CASE OnUpdateFlips
    <3>1. m_recvMsgs' = [front |-> << >>, back |-> m_recvMsgs.back \o m_recvMsgs.front]
      BY <2>1 DEF OnUpdateFlips, MsgQueueFlip
    <3> QED
      BY <1>1, <1>2, <3>1, ConcatEmptySeq DEF Content
  <2>2. CASE ~OnUpdateFlips
    <3>1. m_recvMsgs' = m_recvMsgs
      BY <1>3, <2>2 DEF Next, OnUpdate, vars, OnUpdateDrained, DispatchDrops, DispatchFinds, ReplyTooLarge,
         TickErases, Reply, OnUpdateFlushes, OnAcceptStores, OnAcceptStarts, ReadEnds, OnClose, Transmit
    <3> QED
      BY <3>1
  <2> QED
    BY <2>1, <2>2
<1>4. ASSUME OnUpdateGets
      PROVE  /\ Content(m_recvMsgs) # << >>
             /\ msg' = Head(Content(m_recvMsgs))
             /\ Content(m_recvMsgs)' = Tail(Content(m_recvMsgs))
  <2>1. /\ m_recvMsgs.back # << >> /\ msg' = Head(m_recvMsgs.back)
        /\ m_recvMsgs' = [front |-> m_recvMsgs.front, back |-> Tail(m_recvMsgs.back)]
    BY <1>1, <1>4 DEF OnUpdateGets, CanGetMsg, GetMsg, Popped
  <2> DEFINE b == m_recvMsgs.back
             f == m_recvMsgs.front
  <2>2. b \o f # << >> /\ Head(b \o f) = Head(b) /\ Tail(b \o f) = Tail(b) \o f
    BY <1>1, <2>1, HeadTailConcat
  <2> QED
    BY <2>1, <2>2 DEF Content
<1>5. ASSUME NEW c \in Clients, NEW size \in Sizes, Receive(c, size)
      PROVE  LET f == [client |-> c, n |-> Len(received[c]) + 1, size |-> size] IN
             f \in Frame /\ Content(m_recvMsgs)' = Append(Content(m_recvMsgs), f)
  <2> DEFINE f == [client |-> c, n |-> Len(received[c]) + 1, size |-> size]
  <2>1. Len(received[c]) \in Nat
    BY DEF Typed, TypeOK
  <2>2. f \in Frame
    BY <1>5, <2>1, GameServerAssumption DEF Receive, Frame
  <2>3. m_recvMsgs' = [front |-> Append(m_recvMsgs.front, f), back |-> m_recvMsgs.back]
    BY <1>1, <1>5 DEF Receive, MsgQueueInsert
  <2> HIDE DEF f
  <2>4. m_recvMsgs.back \o Append(m_recvMsgs.front, f) = Append(m_recvMsgs.back \o m_recvMsgs.front, f)
    BY <1>1, <2>2, AppendConcat
  <2> QED
    BY <2>2, <2>3, <2>4 DEF Content, f
<1> QED
  BY <1>2, <1>3, <1>4, <1>5

(* How the frames of a client that are handled change: they grow by the     *)
(* frame the tick takes, and Reply, flush and socket only move them on.     *)
LEMMA HandledSteps ==
  ASSUME Typed, SessionInvariant, BuffersInvariant, [Next]_vars, NEW c \in Clients, link'[c] # "down"
  PROVE  /\ link[c] # "down"
         /\ Handled(c) \in Seq(Frame)
         /\ Handled(c)' = IF OnUpdateGets /\ msg'.client = c THEN Append(Handled(c), msg') ELSE Handled(c)
<1> DEFINE e == echoed[c]
           p == packets[c]
           b == m_sendBuffer[c]
<1> USE NoMsgIsNoFrame
<1>0. e \in Seq(Frame) /\ p \in Seq(Frame) /\ b \in Buffers /\ b.msgs \in Seq(Frame)
  BY DEF Typed, TypeOK, Buffers
<1>1. InHand(c) \in Seq(Frame) /\ (tick \notin Dispatching \/ msg.client # c => InHand(c) = << >>)
  <2>1. msg \in Frame => << msg >> \in Seq(Frame)
    OBVIOUS
  <2>2. << >> \in Seq(Frame)
    OBVIOUS
  <2> QED
    BY <2>1, <2>2 DEF InHand, Typed, HandInvariant
<1>2. Handled(c) = ((e \o p) \o b.msgs) \o InHand(c) /\ Handled(c) \in Seq(Frame)
  BY <1>0, <1>1, ConcatProperties DEF Handled
<1>3. CASE OnUpdateGets
  <2>1. /\ InHand(c) = << >> /\ msg' \in Frame /\ UNCHANGED << clientSide, echoed, packets, m_sendBuffer >>
    <3>1. msg' = Head(m_recvMsgs.back) /\ m_recvMsgs.back # << >> /\ m_recvMsgs.back \in Seq(Frame)
      BY <1>3 DEF OnUpdateGets, CanGetMsg, GetMsg, Typed, TypeOK
    <3> QED
      BY <1>1, <1>3, <3>1, HeadTailProperties DEF OnUpdateGets, Dispatching, outbound
  <2>2. InHand(c)' = IF msg'.client = c THEN << msg' >> ELSE << >>
    BY <2>1 DEF InHand
  <2>3. Handled(c)' = ((e \o p) \o b.msgs) \o InHand(c)'
    BY <2>1 DEF Handled, outbound
  <2>4. (e \o p) \o b.msgs \in Seq(Frame)
    BY <1>0, ConcatProperties
  <2>5. Handled(c) = (e \o p) \o b.msgs
    BY <1>2, <2>1, <2>4, ConcatEmptySeq
  <2>6. Append(Handled(c), msg') = Handled(c) \o << msg' >>
    BY <1>2, <2>1, AppendIsConcat
  <2>7. Handled(c) \o << >> = Handled(c)
    BY <1>2, ConcatEmptySeq
  <2> QED
    BY <1>2, <1>3, <2>1, <2>2, <2>3, <2>5, <2>6, <2>7 DEF clientSide
<1>4. ASSUME UNCHANGED << echoed[c], packets[c], m_sendBuffer[c], InHand(c) >>, link[c] # "down", ~OnUpdateGets
      PROVE  /\ link[c] # "down" /\ Handled(c)' = Handled(c)
  BY <1>4 DEF Handled
<1>5. CASE \E d \in Clients : OnAcceptStores(d) \/ OnAcceptStarts(d) \/ OnClose(d) \/ ReadEnds(d)
                             \/ \E size \in Sizes : Receive(d, size)
  <2>1. UNCHANGED << echoed, m_sendBuffer, msg, tick >>
    BY <1>5 DEF OnAcceptStores, OnAcceptStarts, OnClose, ReadEnds, Receive, outbound
  <2>2. link[c] # "down" /\ packets'[c] = packets[c]
    BY <1>5 DEF OnAcceptStores, OnAcceptStarts, OnClose, ReadEnds, Receive, Close, outbound, clientSide, Typed, TypeOK
  <2>3. ~OnUpdateGets
    BY <2>1 DEF OnUpdateGets
  <2> QED
    BY <1>2, <1>4, <2>1, <2>2, <2>3 DEF InHand
<1>6. CASE OnUpdateFlips \/ OnUpdateDrained \/ DispatchFinds \/ UNCHANGED vars
  <2>1. UNCHANGED << echoed, m_sendBuffer, packets, link, msg >> /\ (tick' # "dispatch" \/ UNCHANGED tick)
    BY <1>6 DEF OnUpdateFlips, OnUpdateDrained, DispatchFinds, outbound, clientSide, vars
  <2>2. ~OnUpdateGets
    BY <1>6 DEF OnUpdateFlips, OnUpdateDrained, DispatchFinds, vars, OnUpdateGets
  <2> QED
    BY <1>2, <1>4, <2>1, <2>2 DEF InHand
<1>7. CASE DispatchDrops \/ TickErases
  <2>1. UNCHANGED << echoed, m_sendBuffer, packets, link >> /\ msg' = NoMsg /\ tick' = "drain" /\ tick \in Dispatching
    BY <1>7 DEF DispatchDrops, TickErases, outbound, clientSide, Dispatching
  <2>2. msg.client # c
    <3>1. link[c] # "down"
      BY <2>1
    <3>2. CASE DispatchDrops
      BY <2>1, <3>1, <3>2 DEF DispatchDrops, SessionInvariant, Typed, TypeOK
    <3>3. CASE TickErases
      BY <3>1, <3>3 DEF TickErases, SessionInvariant
    <3> QED
      BY <1>7, <3>2, <3>3
  <2>3. InHand(c) = << >> /\ InHand(c)' = << >>
    BY <1>1, <2>1, <2>2 DEF InHand
  <2>4. ~OnUpdateGets
    BY <2>1 DEF OnUpdateGets
  <2> QED
    BY <1>2, <1>4, <2>1, <2>3, <2>4
<1>8. CASE ReplyTooLarge
  <2>1. UNCHANGED << echoed, m_sendBuffer >> /\ tick = "reply" /\ tick' # "dispatch" /\ msg.client \in Clients
    BY <1>8 DEF ReplyTooLarge, outbound, Typed, HandInvariant, Dispatching, Frame
  <2>2. CASE link[msg.client] = "up"
    <3>1. link'[msg.client] = "down" /\ msg' = msg /\ Close(msg.client)
      BY <1>8, <2>1, <2>2 DEF ReplyTooLarge, Close, Typed, TypeOK
    <3>2. msg.client # c /\ link[c] # "down" /\ packets'[c] = packets[c]
      BY <2>1, <3>1 DEF Close, Typed, TypeOK
    <3> QED
      BY <1>2, <1>4, <2>1, <3>1, <3>2 DEF InHand, OnUpdateGets
  <2>3. CASE link[msg.client] # "up"
    <3>1. UNCHANGED << link, packets >> /\ msg' = NoMsg
      BY <1>8, <2>3 DEF ReplyTooLarge
    <3>2. msg.client # c
      BY <2>1, <2>3, <3>1 DEF SessionInvariant, Dispatching
    <3>3. InHand(c) = << >> /\ InHand(c)' = << >>
      BY <1>1, <3>1, <3>2 DEF InHand
    <3> QED
      BY <1>2, <1>4, <2>1, <3>1, <3>3 DEF OnUpdateGets
  <2> QED
    BY <2>2, <2>3
<1>9. CASE Reply
  <2>1. /\ msg \in Frame /\ msg.client \in Clients /\ msg' = NoMsg /\ tick = "reply" /\ UNCHANGED << echoed, link >>
        /\ addMsgResult(m_sendBuffer[msg.client], msg) # "BUFFER_ERROR"
    BY <1>9 DEF Reply, Typed, HandInvariant, Dispatching, Frame, clientSide
  <2>2. ~OnUpdateGets /\ InHand(c)' = << >>
    BY <2>1 DEF OnUpdateGets, InHand
  <2>3. CASE msg.client # c
    <3>1. packets'[c] = packets[c] /\ m_sendBuffer'[c] = m_sendBuffer[c] /\ InHand(c) = << >>
      BY <1>1, <1>9, <2>1, <2>3 DEF Reply, Typed, TypeOK
    <3> QED
      BY <1>2, <1>4, <2>1, <2>2, <3>1
  <2>4. CASE msg.client = c
    <3> DEFINE now == SentNow(b, msg)
               left == LeftInBuffer(b, msg)
    <3>1. packets'[c] = p \o now /\ m_sendBuffer'[c] = left /\ InHand(c) = << msg >>
      BY <1>9, <2>1, <2>4 DEF Reply, Typed, TypeOK, InHand
    <3>2. now \in Seq(Frame) /\ left \in Buffers /\ left.msgs \in Seq(Frame)
      BY <1>0, <2>1, SendType DEF Buffers
    <3>3. now \o left.msgs = b.msgs \o << msg >>
      BY <1>0, <2>1, <2>4, SendConserves, AppendIsConcat DEF BuffersInvariant
    <3> HIDE DEF now, left, e, p, b
    <3>4. << msg >> \in Seq(Frame) /\ e \o p \in Seq(Frame) /\ p \o now \in Seq(Frame) /\ e \o (p \o now) \in Seq(Frame)
          /\ (e \o (p \o now)) \o left.msgs \in Seq(Frame)
      BY <1>0, <2>1, <3>2, ConcatProperties
    <3> DEFINE stays == left.msgs
               batch == b.msgs
               new   == << msg >>
    <3>5. (e \o (p \o now)) \o stays = ((e \o p) \o batch) \o new
      <4>1. e \in Seq(Frame) /\ p \in Seq(Frame)
        BY <1>0
      <4>2. now \in Seq(Frame)
        BY <3>2
      <4>3. stays \in Seq(Frame)
        BY <3>2
      <4>4. batch \in Seq(Frame) /\ new \in Seq(Frame)
        BY <1>0, <3>4
      <4>5. now \o stays = batch \o new
        BY <3>3
      <4> HIDE DEF stays, batch, new
      <4>6. (e \o p) \o now = e \o (p \o now)
        BY ONLY FramesAssociative, <4>1, <4>2
      <4> DEFINE w == e \o p
      <4>7. w \in Seq(Frame)
        BY <4>1, FramesAssociative
      <4> HIDE DEF w
      <4>8. (w \o now) \o stays = w \o (now \o stays)
        BY ONLY FramesAssociative, <4>2, <4>3, <4>7
      <4>9. (w \o batch) \o new = w \o (batch \o new)
        BY ONLY FramesAssociative, <4>4, <4>7
      <4>10. (w \o now) \o stays = (w \o batch) \o new
        BY <4>5, <4>8, <4>9, Zenon
      <4> QED
        BY <4>6, <4>10, Zenon DEF w
    <3>7. ((e \o (p \o now)) \o left.msgs) \o << >> = (e \o (p \o now)) \o left.msgs
      BY <3>4, ConcatEmptySeq
    <3>8. Handled(c)' = ((e \o (p \o now)) \o left.msgs) \o << >>
      BY <2>1, <2>2, <3>1 DEF Handled, e, now, left, p, b
    <3> QED
      BY <1>2, <2>1, <2>2, <3>1, <3>5, <3>7, <3>8 DEF e, p, b
  <2> QED
    BY <2>3, <2>4
<1>10. CASE OnUpdateFlushes
  <2>1. UNCHANGED << echoed, msg, link >> /\ tick = "flush" /\ ~OnUpdateGets
    BY <1>10 DEF OnUpdateFlushes, clientSide, OnUpdateGets
  <2>2. InHand(c)' = InHand(c)
    BY <2>1 DEF InHand
  <2>3. CASE c \notin m_sessions
    BY <1>2, <1>4, <1>10, <2>1, <2>2, <2>3 DEF OnUpdateFlushes
  <2>4. CASE c \in m_sessions
    <3>1. packets'[c] = p \o b.msgs /\ m_sendBuffer'[c].msgs = << >>
      BY <1>10, <2>4 DEF OnUpdateFlushes, EmptyBuffer
    <3> HIDE DEF e, p, b
    <3>2. e \o (p \o b.msgs) = (e \o p) \o b.msgs /\ e \o (p \o b.msgs) \in Seq(Frame)
      BY <1>0, FramesAssociative, Zenon
    <3>3. (e \o (p \o b.msgs)) \o << >> = e \o (p \o b.msgs)
      BY <3>2, ConcatEmptySeq
    <3>4. Handled(c)' = ((e \o (p \o b.msgs)) \o << >>) \o InHand(c)
      BY <2>1, <2>2, <3>1 DEF Handled, e
    <3> QED
      BY <1>2, <2>1, <3>2, <3>3, <3>4 DEF e, p, b
  <2> QED
    BY <2>3, <2>4
<1>11. CASE \E d \in Clients : Transmit(d)
  <2>0. PICK d \in Clients : Transmit(d)
    BY <1>11
  <2>1. UNCHANGED << msg, link, m_sendBuffer, tick >> /\ ~OnUpdateGets
    BY <2>0 DEF Transmit, clientSide, OnUpdateGets
  <2>2. InHand(c)' = InHand(c)
    BY <2>1 DEF InHand
  <2>3. CASE c # d
    BY <1>2, <1>4, <2>0, <2>1, <2>2, <2>3 DEF Transmit, Typed, TypeOK
  <2>4. CASE c = d
    <3>1. echoed'[c] = Append(e, Head(p)) /\ packets'[c] = Tail(p) /\ p # << >>
      BY <2>0, <2>4 DEF Transmit, Typed, TypeOK
    <3> HIDE DEF e, p, b
    <3>2. Append(e, Head(p)) \o Tail(p) = e \o p
      <4>1. Head(p) \in Frame /\ Tail(p) \in Seq(Frame) /\ << Head(p) >> \in Seq(Frame)
        BY <1>0, <3>1, HeadTailProperties
      <4>2. Append(e, Head(p)) = e \o << Head(p) >>
        BY <1>0, <4>1, AppendIsConcat
      <4>3. << Head(p) >> \o Tail(p) = p
        BY <1>0, <3>1, HeadAndTail
      <4> QED
        BY <1>0, <4>1, <4>2, <4>3, ConcatAssociative
    <3>3. Handled(c)' = ((Append(e, Head(p)) \o Tail(p)) \o b.msgs) \o InHand(c)
      BY <2>1, <2>2, <3>1 DEF Handled, b
    <3> QED
      BY <1>2, <2>1, <3>2, <3>3
  <2> QED
    BY <2>3, <2>4
<1> QED
  BY <1>2, <1>3, <1>5, <1>6, <1>7, <1>8, <1>9, <1>10, <1>11 DEF Next, OnUpdate

(* What is written agrees with what was received if all that is handled     *)
(* does.                                                                    *)
LEMMA WrittenAgrees ==
  ASSUME NEW s \in Seq(Frame), NEW t \in Seq(Frame), NEW u \in Seq(Frame), NEW v \in Seq(Frame),
         NEW r \in Seq(Frame), Agrees(((s \o t) \o u) \o v, r)
  PROVE  Agrees(s, r)
<1>1. /\ Len(s) \in Nat /\ Len(t) \in Nat /\ Len(u) \in Nat /\ Len(v) \in Nat
      /\ s \o t \in Seq(Frame) /\ Len(s \o t) = Len(s) + Len(t)
      /\ \A i \in 1..Len(s) : (s \o t)[i] = s[i]
  BY LenProperties, ConcatProperties
<1> DEFINE w == s \o t
<1>2. w \in Seq(Frame) /\ Len(w) \in Nat /\ Len(s) <= Len(w) /\ \A i \in 1..Len(s) : w[i] = s[i]
  BY <1>1
<1> HIDE DEF w
<1>3. /\ w \o u \in Seq(Frame) /\ Len(w \o u) = Len(w) + Len(u)
      /\ \A i \in 1..Len(w) : (w \o u)[i] = w[i]
  BY <1>1, <1>2, ConcatProperties
<1> DEFINE x == w \o u
<1>4. x \in Seq(Frame) /\ Len(x) \in Nat /\ Len(s) <= Len(x) /\ \A i \in 1..Len(s) : x[i] = s[i]
  BY <1>1, <1>2, <1>3
<1>5. Agrees(x \o v, r)
  BY DEF w
<1> HIDE DEF x
<1>6. /\ Len(x \o v) = Len(x) + Len(v) /\ \A i \in 1..Len(x) : (x \o v)[i] = x[i]
  BY <1>1, <1>4, ConcatProperties
<1>7. Len(r) \in Nat /\ Len(x) + Len(v) <= Len(r) /\ \A i \in 1..Len(x) + Len(v) : (x \o v)[i] = r[i]
  BY <1>5, <1>6, LenProperties DEF Agrees
<1>8. Len(s) <= Len(r)
  BY <1>1, <1>4, <1>7
<1>9. ASSUME NEW i \in 1..Len(s) PROVE s[i] = r[i]
  <2>1. i \in 1..Len(x) /\ i \in 1..Len(x) + Len(v)
    BY <1>1, <1>4
  <2> QED
    BY <1>4, <1>6, <1>7, <2>1
<1> QED
  BY <1>8, <1>9 DEF Agrees

-----------------------------------------------------------------------------
(* The invariant is inductive.                                              *)
EchoInvariant == \A c \in Clients : Agrees(echoed[c], received[c])

Inv == SessionInvariant /\ BuffersInvariant /\ InboundInvariant /\ PathInvariant /\ EchoInvariant

(* The sessions: who may be in the map, and whose session dispatch holds.   *)
LEMMA SessionSteps ==
  ASSUME Typed, SessionInvariant, InboundInvariant, [Next]_vars
  PROVE  SessionInvariant'
<1> USE DEF SessionInvariant, Typed, TypeOK, Dispatching, clientSide, inbound, outbound
<1>1. CASE OnUpdateGets
  <2>1. /\ Content(m_recvMsgs) # << >> /\ msg' = Head(Content(m_recvMsgs)) /\ Content(m_recvMsgs) \in Seq(Frame)
    BY <1>1, ContentSteps
  <2>2. Content(m_recvMsgs)[1] = msg' /\ 1 \in 1..Len(Content(m_recvMsgs)) /\ msg' \in Frame
    BY <2>1, EmptySeq, HeadTailProperties
  <2>3. msg'.client \in Clients /\ msg'.n \in 1..Len(received[msg'.client])
    BY <2>2 DEF InboundInvariant, Frame
  <2>4. link[msg'.client] \in {"up", "down"}
    BY <2>3
  <2> QED
    BY <1>1, <2>4 DEF OnUpdateGets
<1>2. CASE OnUpdateFlips \/ OnUpdateDrained \/ DispatchFinds \/ DispatchDrops \/ Reply \/ OnUpdateFlushes
  BY <1>2 DEF OnUpdateFlips, OnUpdateDrained, DispatchFinds, DispatchDrops, Reply, OnUpdateFlushes
<1>3. CASE ReplyTooLarge
  <2>1. msg.client \in Clients /\ tick = "reply"
    BY <1>3 DEF ReplyTooLarge, HandInvariant, Frame
  <2>2. CASE link[msg.client] = "up"
    BY <1>3, <2>1, <2>2 DEF ReplyTooLarge, Close
  <2>3. CASE link[msg.client] # "up"
    BY <1>3, <2>1, <2>3 DEF ReplyTooLarge
  <2> QED
    BY <2>2, <2>3
<1>4. CASE TickErases
  BY <1>4 DEF TickErases
<1>5. CASE \E c \in Clients : OnAcceptStores(c)
  BY <1>5 DEF OnAcceptStores
<1>6. CASE \E c \in Clients : OnAcceptStarts(c)
  BY <1>6 DEF OnAcceptStarts
<1>7. CASE \E c \in Clients, size \in Sizes : Receive(c, size)
  BY <1>7 DEF Receive
<1>8. CASE \E c \in Clients : ReadEnds(c)
  <2>1. PICK c \in Clients : ReadEnds(c)
    BY <1>8
  <2>2. CASE link[c] = "up"
    <3>1. /\ link' = [link EXCEPT ![c] = "down"] /\ erasing' = erasing \cup {c} /\ reading' = reading \ {c}
          /\ UNCHANGED << m_sessions, received, tick, msg >>
      BY <2>1, <2>2 DEF ReadEnds, Close
    <3>2. /\ link'[c] = "down" /\ \A d \in Clients \ {c} : link'[d] = link[d]
      BY <3>1
    <3>3. tick \in Dispatching => msg.client \in Clients
      BY DEF HandInvariant, Frame
    <3> QED
      BY <3>1, <3>2, <3>3
  <2>3. CASE link[c] # "up"
    BY <2>1, <2>3 DEF ReadEnds
  <2> QED
    BY <2>2, <2>3
<1>9. CASE \E c \in Clients : OnClose(c) \/ Transmit(c)
  BY <1>9 DEF OnClose, Transmit
<1>10. CASE UNCHANGED vars
  BY <1>10 DEF vars
<1> QED
  BY <1>1, <1>2, <1>3, <1>4, <1>5, <1>6, <1>7, <1>8, <1>9, <1>10 DEF Next, OnUpdate

(* An empty send buffer has position 0.                                     *)
LEMMA BufferSteps ==
  ASSUME Typed, BuffersInvariant, [Next]_vars
  PROVE  BuffersInvariant'
<1> USE DEF BuffersInvariant
<1>1. CASE Reply
  <2>1. msg \in Frame /\ msg.client \in Clients /\ addMsgResult(m_sendBuffer[msg.client], msg) # "BUFFER_ERROR"
    BY <1>1 DEF Reply, Typed, HandInvariant, Dispatching, Frame
  <2>2. m_sendBuffer \in [Clients -> Buffers]
    BY DEF Typed, TypeOK, Buffers
  <2> DEFINE left == LeftInBuffer(m_sendBuffer[msg.client], msg)
  <2>3. left.pos = 0 => left.msgs = << >>
    BY <2>1, <2>2, SendConserves
  <2>4. m_sendBuffer' = [m_sendBuffer EXCEPT ![msg.client] = left]
    BY <1>1 DEF Reply
  <2> HIDE DEF left
  <2> QED
    BY <2>1, <2>2, <2>3, <2>4
<1>2. CASE OnUpdateFlushes
  BY <1>2 DEF OnUpdateFlushes, EmptyBuffer
<1>3. CASE ~Reply /\ ~OnUpdateFlushes
  <2>1. m_sendBuffer' = m_sendBuffer
    BY <1>3 DEF Next, OnUpdate, vars, outbound, OnUpdateFlips, OnUpdateGets, OnUpdateDrained, DispatchDrops,
       DispatchFinds, ReplyTooLarge, TickErases, OnAcceptStores, OnAcceptStarts, Receive, ReadEnds, OnClose, Transmit
  <2> QED
    BY <2>1
<1> QED
  BY <1>1, <1>2, <1>3

(* What the read loops and the tick do to the queue keeps it a selection of *)
(* the frames received, each once and each client's in order.               *)
LEMMA InboundSteps ==
  ASSUME Typed, InboundInvariant, [Next]_vars
  PROVE  InboundInvariant'
<1> DEFINE q == Content(m_recvMsgs)
<1>1. q \in Seq(Frame) /\ Len(q) \in Nat /\ \A i \in 1..Len(q) : q[i] \in Frame
  BY ContentSteps, LenProperties
<1>2. ASSUME NEW d \in Clients, NEW size \in Sizes, Receive(d, size) PROVE InboundInvariant'
  <2> DEFINE f == [client |-> d, n |-> Len(received[d]) + 1, size |-> size]
             r == received[d]
  <2>1. f \in Frame /\ q' = Append(q, f) /\ f.client = d /\ f.n = Len(r) + 1 /\ r \in Seq(Frame) /\ Len(r) \in Nat
    BY <1>2, ContentSteps DEF Typed, TypeOK
  <2>2. received'[d] = Append(r, f) /\ \A c \in Clients : c # d => received'[c] = received[c]
    BY <1>2 DEF Receive, Typed, TypeOK
  <2> HIDE DEF f
  <2>3. /\ Len(q') = Len(q) + 1 /\ q'[Len(q) + 1] = f /\ \A i \in 1..Len(q) : q'[i] = q[i]
    BY <1>1, <2>1, AppendProperties
  <2>4. /\ Len(received'[d]) = Len(r) + 1 /\ received'[d][Len(r) + 1] = f
        /\ \A n \in 1..Len(r) : received'[d][n] = r[n]
    BY <2>1, <2>2, AppendProperties
  <2>5. /\ \A c \in Clients : Numbered(received[c], c)
        /\ \A i \in 1..Len(q) :
             q[i].n \in 1..Len(received[q[i].client]) /\ q[i] = received[q[i].client][q[i].n]
        /\ Ordered(q)
    BY DEF InboundInvariant
  <2>6. ASSUME NEW c \in Clients PROVE Numbered(received'[c], c)
    <3>1. CASE c # d
      BY <2>2, <2>5, <3>1
    <3>2. CASE c = d
      <4>1. \A n \in 1..Len(r) : r[n].client = d /\ r[n].n = n
        BY <2>5 DEF Numbered
      <4>2. ASSUME NEW n \in 1..Len(r) + 1 PROVE received'[d][n].client = d /\ received'[d][n].n = n
        BY <2>1, <2>4, <4>1
      <4> QED
        BY <2>4, <3>2, <4>2 DEF Numbered
    <3> QED
      BY <3>1, <3>2
  <2>7. ASSUME NEW i \in 1..Len(q) + 1
        PROVE  q'[i].n \in 1..Len(received'[q'[i].client]) /\ q'[i] = received'[q'[i].client][q'[i].n]
    <3>1. CASE i = Len(q) + 1
      BY <2>1, <2>3, <2>4, <3>1
    <3>2. CASE i \in 1..Len(q)
      <4>1. q'[i] = q[i] /\ q[i].client \in Clients
        BY <1>1, <2>3, <3>2 DEF Frame
      <4>2. CASE q[i].client = d
        <5>1. q[i].n \in 1..Len(r) /\ q[i] = r[q[i].n]
          BY <2>5, <3>2, <4>2
        <5>2. q[i].n \in 1..Len(r) + 1 /\ received'[d][q[i].n] = q[i]
          BY <2>1, <2>4, <5>1
        <5> QED
          BY <2>4, <4>1, <4>2, <5>2
      <4>3. CASE q[i].client # d
        BY <2>2, <2>5, <3>2, <4>1, <4>3
      <4> QED
        BY <4>2, <4>3
    <3> QED
      BY <1>1, <3>1, <3>2
  <2>8. ASSUME NEW i \in 1..Len(q) + 1, NEW j \in 1..Len(q) + 1, i < j, q'[i].client = q'[j].client
        PROVE  q'[i].n < q'[j].n
    <3>1. i \in 1..Len(q) /\ q'[i] = q[i]
      BY <1>1, <2>3, <2>8
    <3>2. CASE j = Len(q) + 1
      <4>1. q[i].client = d /\ q[i].n \in 1..Len(r)
        BY <2>1, <2>3, <2>5, <2>8, <3>1, <3>2
      <4> QED
        BY <2>1, <2>3, <3>1, <3>2, <4>1
    <3>3. CASE j \in 1..Len(q)
      BY <2>3, <2>5, <2>8, <3>1, <3>3 DEF Ordered
    <3> QED
      BY <1>1, <3>2, <3>3
  <2> QED
    BY <2>3, <2>6, <2>7, <2>8 DEF InboundInvariant, Ordered
<1>3. CASE OnUpdateGets
  <2>1. q # << >> /\ q' = Tail(q) /\ received' = received
    BY <1>3, ContentSteps DEF OnUpdateGets, inbound
  <2>2. Len(q') = Len(q) - 1 /\ \A i \in 1..Len(q) - 1 : q'[i] = q[i + 1]
    BY <1>1, <2>1, HeadTailProperties, EmptySeq
  <2> HIDE DEF q
  <2>3. \A i \in 1..Len(q) - 1 : i + 1 \in 1..Len(q)
    BY <1>1
  <2> QED
    BY <1>1, <2>1, <2>2, <2>3 DEF InboundInvariant, Ordered, q
<1>4. CASE ~OnUpdateGets /\ \A c \in Clients, size \in Sizes : ~Receive(c, size)
  <2>1. q' = q
    BY <1>4, ContentSteps
  <2>2. received' = received
    BY <1>4 DEF Next, OnUpdate, vars, inbound, OnUpdateFlips, OnUpdateDrained, DispatchDrops, DispatchFinds, ReplyTooLarge,
       TickErases, Reply, OnUpdateFlushes, OnAcceptStores, OnAcceptStarts, ReadEnds, OnClose, Transmit
  <2> QED
    BY <2>1, <2>2 DEF InboundInvariant
<1> QED
  BY <1>2, <1>3, <1>4

(* Every step keeps each frame of a link that stays up in its place, or     *)
(* moves it to the next one.                                                *)
LEMMA PathSteps ==
  ASSUME Typed, SessionInvariant, BuffersInvariant, InboundInvariant, PathInvariant, [Next]_vars
  PROVE  PathInvariant'
<1> SUFFICES ASSUME NEW c \in Clients, link'[c] # "down"
             PROVE  Waits(Content(m_recvMsgs)', c, Handled(c)', received'[c])
  BY DEF PathInvariant
<1> DEFINE q == Content(m_recvMsgs)
           h == Handled(c)
           r == received[c]
<1> SUFFICES Waits(q', c, h', received'[c])
  OBVIOUS
<1>1. /\ link[c] # "down" /\ h \in Seq(Frame)
      /\ h' = IF OnUpdateGets /\ msg'.client = c THEN Append(h, msg') ELSE h
  BY HandledSteps
<1>2. q \in Seq(Frame) /\ r \in Seq(Frame) /\ Waits(q, c, h, r) /\ Numbered(r, c) /\ Ordered(q)
  BY <1>1, ContentSteps DEF PathInvariant, InboundInvariant, Typed, TypeOK
<1>3. ASSUME NEW d \in Clients, NEW size \in Sizes, Receive(d, size)
      PROVE  Waits(q', c, h', received'[c])
  <2> DEFINE f == [client |-> d, n |-> Len(received[d]) + 1, size |-> size]
  <2>1. f \in Frame /\ q' = Append(q, f) /\ f.client = d /\ f.n = Len(received[d]) + 1
    BY <1>3, ContentSteps
  <2>2. received'[c] = IF c = d THEN Append(r, f) ELSE r
    BY <1>3 DEF Receive, Typed, TypeOK
  <2>3. h' = h
    BY <1>1, <1>3 DEF Receive, OnUpdateGets, inbound
  <2> HIDE DEF q, h, r, f
  <2>4. CASE c = d
    <3>1. Waits(Append(q, f), c, h, Append(r, f))
      BY <1>1, <1>2, <2>1, <2>4, WaitsAppend DEF r
    <3> QED
      BY <2>1, <2>2, <2>3, <2>4, <3>1
  <2>5. CASE c # d
    <3>1. Waits(Append(q, f), c, h, r)
      BY <1>1, <1>2, <2>1, <2>5, WaitsAppendOther
    <3> QED
      BY <2>1, <2>2, <2>3, <2>5, <3>1
  <2> QED
    BY <2>4, <2>5
<1>4. CASE OnUpdateGets
  <2>1. q # << >> /\ msg' = Head(q) /\ q' = Tail(q) /\ received' = received
    BY <1>4, ContentSteps DEF OnUpdateGets, inbound
  <2>2. Head(q) = q[1] /\ 1 \in 1..Len(q)
    BY <1>2, <2>1, EmptySeq, LenProperties
  <2>3. Head(q).n \in 1..Len(received[Head(q).client]) /\ Head(q) = received[Head(q).client][Head(q).n]
    BY <2>2 DEF InboundInvariant
  <2>6. received'[c] = r /\ h' = IF Head(q).client = c THEN Append(h, Head(q)) ELSE h
    BY <1>1, <1>4, <2>1
  <2> HIDE DEF q, h
  <2>4. CASE Head(q).client = c
    <3>1. Waits(Tail(q), c, Append(h, Head(q)), r)
      BY <1>1, <1>2, <2>1, <2>3, <2>4, WaitsTail
    <3> HIDE DEF r
    <3> QED
      BY <2>1, <2>4, <2>6, <3>1
  <2>5. CASE Head(q).client # c
    <3>1. Waits(Tail(q), c, h, r)
      BY <1>1, <1>2, <2>1, <2>5, WaitsTailOther
    <3> HIDE DEF r
    <3> QED
      BY <2>1, <2>5, <2>6, <3>1
  <2> QED
    BY <2>4, <2>5
<1>5. CASE ~OnUpdateGets /\ \A d \in Clients, size \in Sizes : ~Receive(d, size)
  <2>1. q' = q /\ h' = h
    BY <1>1, <1>5, ContentSteps
  <2>2. received' = received
    BY <1>5 DEF Next, OnUpdate, vars, inbound, OnUpdateFlips, OnUpdateDrained, DispatchDrops, DispatchFinds, ReplyTooLarge,
       TickErases, Reply, OnUpdateFlushes, OnAcceptStores, OnAcceptStarts, ReadEnds, OnClose, Transmit
  <2>3. received'[c] = r
    BY <2>2
  <2> HIDE DEF q, h, r
  <2> QED
    BY <1>2, <2>1, <2>3
<1> QED
  BY <1>3, <1>4, <1>5

(* What a client has received back, it had sent, also after its link went   *)
(* down: nothing is written to a socket that is closed (session.cpp:47-49). *)
LEMMA EchoSteps ==
  ASSUME Typed, TypeOK', HandInvariant', EchoInvariant, PathInvariant', [Next]_vars
  PROVE  EchoInvariant'
<1> SUFFICES ASSUME NEW c \in Clients PROVE Agrees(echoed'[c], received'[c])
  BY DEF EchoInvariant
<1>1. CASE link'[c] # "down"
  <2> DEFINE e == echoed'[c]
             p == packets'[c]
             b == m_sendBuffer'[c].msgs
             v == InHand(c)'
             r == received'[c]
  <2>1. e \in Seq(Frame) /\ p \in Seq(Frame) /\ b \in Seq(Frame) /\ r \in Seq(Frame)
    BY DEF TypeOK
  <2>2. v \in Seq(Frame)
    <3>1. msg' \in Frame => << msg' >> \in Seq(Frame)
      OBVIOUS
    <3>2. << >> \in Seq(Frame)
      OBVIOUS
    <3> QED
      BY <3>1, <3>2 DEF InHand, HandInvariant
  <2>3. Agrees(((e \o p) \o b) \o v, r)
    BY <1>1 DEF PathInvariant, Waits, Handled
  <2> HIDE DEF e, p, b, v, r
  <2>4. Agrees(e, r)
    BY <2>1, <2>2, <2>3, WrittenAgrees
  <2> QED
    BY <2>4 DEF e, r
<1>2. CASE link'[c] = "down"
  <2>1. echoed'[c] = echoed[c]
    BY <1>2 DEF Next, OnUpdate, vars, clientSide, outbound, OnUpdateFlips, OnUpdateGets, OnUpdateDrained, DispatchDrops,
       DispatchFinds, ReplyTooLarge, TickErases, Reply, OnUpdateFlushes, OnAcceptStores, OnAcceptStarts, Receive,
       ReadEnds, OnClose, Transmit, Typed, TypeOK
  <2>2. CASE \E size \in Sizes : Receive(c, size)
    <3>1. PICK size \in Sizes : Receive(c, size)
      BY <2>2
    <3> DEFINE f == [client |-> c, n |-> Len(received[c]) + 1, size |-> size]
               r == received[c]
    <3>2. received'[c] = Append(r, f) /\ f \in Frame /\ r \in Seq(Frame)
      BY <3>1, ContentSteps DEF Receive, Typed, TypeOK
    <3>3. echoed[c] \in Seq(Frame) /\ Agrees(echoed[c], r)
      BY DEF EchoInvariant, Typed, TypeOK
    <3> HIDE DEF f, r
    <3>4. Agrees(echoed[c], Append(r, f))
      BY <3>2, <3>3, AgreesAppend
    <3> QED
      BY <2>1, <3>2, <3>4
  <2>3. CASE \A size \in Sizes : ~Receive(c, size)
    <3>1. received'[c] = received[c]
      BY <2>3 DEF Next, OnUpdate, vars, inbound, OnUpdateFlips, OnUpdateGets, OnUpdateDrained, DispatchDrops,
         DispatchFinds, ReplyTooLarge, TickErases, Reply, OnUpdateFlushes, OnAcceptStores, OnAcceptStarts, Receive,
         ReadEnds, OnClose, Transmit, Typed, TypeOK
    <3> QED
      BY <2>1, <3>1 DEF EchoInvariant
  <2> QED
    BY <2>2, <2>3
<1> QED
  BY <1>1, <1>2

(* The invariant of the message path: every frame of a client whose link is *)
(* up is handled, or waits in the receive queue, once and in order          *)
(* (msg_manager.h:27-48, agent_server.cpp:55-96).                           *)
THEOREM PathCorrect == Spec => [](Typed /\ Inv)
<1>1. Init => Inv
  BY EmptySeq DEF Init, Inv, SessionInvariant, BuffersInvariant, InboundInvariant, PathInvariant, EchoInvariant, Content,
     EmptyQueues, EmptyBuffer, Handled, InHand, Waits, Agrees, Numbered, Ordered, Dispatching
<1>2. Typed /\ Inv /\ [Next]_vars /\ Typed' => Inv'
  <2> SUFFICES ASSUME Typed, Inv, [Next]_vars, Typed' PROVE Inv'
    OBVIOUS
  <2>1. SessionInvariant'
    BY SessionSteps DEF Inv
  <2>2. BuffersInvariant'
    BY BufferSteps DEF Inv
  <2>3. InboundInvariant'
    BY InboundSteps DEF Inv
  <2>4. PathInvariant'
    BY PathSteps DEF Inv
  <2>5. EchoInvariant'
    BY <2>4, EchoSteps DEF Inv, Typed
  <2> QED
    BY <2>1, <2>2, <2>3, <2>4, <2>5 DEF Inv
<1>3. Spec => []Typed
  BY PathTypeCorrect DEF Typed
<1> QED
  BY <1>1, <1>2, <1>3, PTL DEF Spec

(* What is handled are frames.                                              *)
LEMMA HandledType ==
  ASSUME TypeOK, HandInvariant, NEW c \in Clients
  PROVE  Handled(c) \in Seq(Frame)
<1>1. echoed[c] \in Seq(Frame) /\ packets[c] \in Seq(Frame) /\ m_sendBuffer[c].msgs \in Seq(Frame)
  BY DEF TypeOK
<1>2. InHand(c) \in Seq(Frame)
  <2>1. msg \in Frame => << msg >> \in Seq(Frame)
    OBVIOUS
  <2>2. << >> \in Seq(Frame)
    OBVIOUS
  <2> QED
    BY <2>1, <2>2 DEF InHand, HandInvariant
<1> QED
  BY <1>1, <1>2, ConcatProperties DEF Handled

(* No frame is lost, repeated, reordered or misrouted between a client's    *)
(* read loop and its socket (msg_manager.h:27-48, agent_server.cpp:55-96).  *)
THEOREM FramesConservedCorrect == Spec => []FramesConserved
<1>1. Typed /\ Inv => FramesConserved
  <2> SUFFICES ASSUME Typed, Inv, NEW c \in Clients
               PROVE  IF link[c] = "up"
                        THEN /\ IsPrefix(Handled(c), received[c])
                             /\ \A n \in Len(Handled(c)) + 1 .. Len(received[c]) :
                                  \E i \in Queued(c) : Content(m_recvMsgs)[i] = received[c][n]
                             /\ \A i \in Queued(c) : Content(m_recvMsgs)[i].n > Len(Handled(c))
                             /\ \A i, j \in Queued(c) :
                                  i < j => Content(m_recvMsgs)[i].n < Content(m_recvMsgs)[j].n
                        ELSE IsPrefix(echoed[c], received[c])
    BY DEF FramesConserved
  <2>1. received[c] \in Seq(Frame) /\ echoed[c] \in Seq(Frame) /\ Handled(c) \in Seq(Frame)
    BY HandledType DEF Typed, TypeOK
  <2>2. IsPrefix(echoed[c], received[c])
    BY <2>1, AgreesIsPrefix DEF Inv, EchoInvariant
  <2>3. CASE link[c] = "up"
    <3> DEFINE q == Content(m_recvMsgs)
               h == Handled(c)
               r == received[c]
    <3>1. Waits(q, c, h, r) /\ Numbered(r, c) /\ Ordered(q)
      BY <2>3 DEF Inv, PathInvariant, InboundInvariant
    <3>2. \A i : i \in Queued(c) <=> i \in 1..Len(q) /\ q[i].client = c
      BY DEF Queued
    <3>3. IsPrefix(h, r)
      BY <2>1, <3>1, AgreesIsPrefix DEF Waits
    <3> HIDE DEF q, h, r
    <3>4. Len(h) \in Nat /\ Len(r) \in Nat
      BY <2>1, LenProperties DEF h, r
    <3>5. ASSUME NEW n \in Len(h) + 1 .. Len(r) PROVE \E i \in Queued(c) : q[i] = r[n]
      <4>1. PICK i \in 1..Len(q) : q[i] = r[n]
        BY <3>1 DEF Waits
      <4>2. r[n].client = c
        BY <3>1, <3>4 DEF Numbered
      <4> QED
        BY <3>2, <4>1, <4>2
    <3>6. \A i \in Queued(c) : q[i].n > Len(h)
      BY <3>1, <3>2 DEF Waits
    <3>7. \A i, j \in Queued(c) : i < j => q[i].n < q[j].n
      BY <3>1, <3>2 DEF Ordered
    <3> QED
      BY <2>3, <3>3, <3>5, <3>6, <3>7 DEF q, h, r
  <2> QED
    BY <2>2, <2>3
<1> QED
  BY <1>1, PathCorrect, PTL

(* The message path implements one FIFO channel per client: a read loop's   *)
(* step is a Send of the channel, a write to the socket a Deliver, a Close  *)
(* a Break, and no other step shows (session.cpp:41-72, 133-158).           *)
THEOREM EchoesInOrderCorrect == Spec => EchoesInOrder
<1> USE DEF Echo!Init, Echo!Next, Echo!vars, Echo!Send, Echo!Deliver, Echo!Break
<1>1. Init => \A c \in Clients : Echo(c)!Init
  BY DEF Init
<1>2. Typed /\ Inv /\ Typed' /\ Inv' /\ [Next]_vars => \A c \in Clients : [Echo(c)!Next]_(Echo(c)!vars)
  <2> SUFFICES ASSUME Typed, Inv, Typed', Inv', [Next]_vars, NEW c \in Clients
               PROVE  [Echo(c)!Next]_(Echo(c)!vars)
    OBVIOUS
  <2>1. CASE \E size \in Sizes : Receive(c, size)
    <3>1. PICK size \in Sizes : Receive(c, size)
      BY <2>1
    <3> DEFINE f == [client |-> c, n |-> Len(received[c]) + 1, size |-> size]
    <3>2. received'[c] = Append(received[c], f) /\ f \in Frame /\ echoed'[c] = echoed[c] /\ link'[c] = link[c]
      BY <3>1, ContentSteps DEF Receive, Typed, TypeOK, outbound, clientSide
    <3> QED
      BY <3>2
  <2>2. CASE Transmit(c)
    <3>1. received'[c] = received[c] /\ link'[c] = link[c] /\ link[c] = "up"
      BY <2>2 DEF Transmit, inbound, clientSide
    <3>2. packets[c] \in Seq(Frame) /\ packets[c] # << >> /\ echoed[c] \in Seq(Frame) /\ received[c] \in Seq(Frame)
      BY <2>2 DEF Transmit, Typed, TypeOK
    <3>3. echoed'[c] = Append(echoed[c], Head(packets[c])) /\ Head(packets[c]) \in Frame
      BY <2>2, <3>2, HeadTailProperties DEF Transmit, Typed, TypeOK
    <3>4. /\ echoed'[c] \in Seq(Frame) /\ Len(echoed'[c]) = Len(echoed[c]) + 1
          /\ Len(echoed[c]) \in Nat /\ Len(received[c]) \in Nat
      BY <3>2, <3>3, AppendProperties, LenProperties
    <3>5. Agrees(echoed'[c], received'[c])
      BY DEF Inv, EchoInvariant
    <3>6. Agrees(echoed'[c], received[c])
      BY <3>1, <3>5
    <3>7. echoed'[c] = SubSeq(received[c], 1, Len(echoed'[c]))
      BY <3>2, <3>4, <3>6, AgreesIsPrefix
    <3>8. Len(echoed'[c]) \in Len(echoed[c]) + 1 .. Len(received[c])
      BY <3>4, <3>6 DEF Agrees
    <3>9. Echo(c)!Deliver
      BY <3>1, <3>7, <3>8
    <3> QED
      BY <3>9
  <2>3. CASE link[c] # "down" /\ link'[c] = "down"
    <3>1. received'[c] = received[c] /\ echoed'[c] = echoed[c]
      BY <2>3 DEF Next, OnUpdate, vars, inbound, clientSide, outbound, OnUpdateFlips, OnUpdateGets, OnUpdateDrained,
         DispatchDrops, DispatchFinds, ReplyTooLarge, TickErases, Reply, OnUpdateFlushes, OnAcceptStores,
         OnAcceptStarts, Receive, ReadEnds, OnClose, Transmit
    <3> QED
      BY <2>3, <3>1
  <2>4. CASE /\ ~Transmit(c) /\ \A size \in Sizes : ~Receive(c, size)
             /\ link[c] # "down" => link'[c] # "down"
    <3>1. received'[c] = received[c] /\ echoed'[c] = echoed[c]
      BY <2>4 DEF Next, OnUpdate, vars, inbound, outbound, OnUpdateFlips, OnUpdateGets, OnUpdateDrained,
         DispatchDrops, DispatchFinds, ReplyTooLarge, TickErases, Reply, OnUpdateFlushes, OnAcceptStores,
         OnAcceptStarts, Receive, ReadEnds, OnClose, Transmit, Typed, TypeOK
    <3>2. link[c] = "down" => link'[c] = "down"
      BY HandledSteps DEF Inv
    <3>3. (link[c] = "down") = (link'[c] = "down")
      BY <2>4, <3>2
    <3> QED
      BY <3>1, <3>3
  <2> QED
    BY <2>1, <2>2, <2>3, <2>4
<1> QED
  BY <1>1, <1>2, PathCorrect, PTL DEF Spec, EchoesInOrder

-----------------------------------------------------------------------------
(* What ClosedIsForgotten rests on: a session that is down and still in the *)
(* map is about to be erased, by the worker or by the tick that closed it.  *)
ClosedIsBeingErased ==
  \A c \in Clients :
    link[c] = "down" /\ c \in m_sessions => c \in erasing \/ (tick = "erase" /\ msg.client = c)

(* A session that is down and out of the map.                               *)
Forgotten(c) == link[c] = "down" /\ c \notin m_sessions

(* Every Close() is followed by the m_onClose that erases the session, on   *)
(* the thread that closed it: no session that is down stays in the map with *)
(* nobody left to erase it (session.cpp:128-141, agent_server.cpp:55-67).   *)
THEOREM ClosedIsBeingErasedCorrect == Spec => []ClosedIsBeingErased
<1>1. Init => ClosedIsBeingErased
  BY DEF Init, ClosedIsBeingErased
<1>2. TypeOK /\ HandInvariant /\ ClosedIsBeingErased /\ [Next]_vars => ClosedIsBeingErased'
  <2> SUFFICES ASSUME TypeOK, HandInvariant, ClosedIsBeingErased, [Next]_vars,
                      NEW c \in Clients, link'[c] = "down", c \in m_sessions'
               PROVE  c \in erasing' \/ (tick' = "erase" /\ msg'.client = c)
    BY DEF ClosedIsBeingErased
  <2> USE DEF clientSide, inbound, outbound
  <2>0. /\ link \in [Clients -> {"new", "stored", "up", "down"}]
        /\ link[c] = "down" /\ c \in m_sessions => c \in erasing \/ (tick = "erase" /\ msg.client = c)
    BY DEF TypeOK, ClosedIsBeingErased
  <2>1. CASE \E d \in Clients : OnAcceptStores(d) \/ OnAcceptStarts(d)
    BY <2>0, <2>1 DEF OnAcceptStores, OnAcceptStarts
  <2>2. CASE \E d \in Clients : ReadEnds(d)
    BY <2>0, <2>2 DEF ReadEnds, Close
  <2>3. CASE \E d \in Clients : OnClose(d)
    BY <2>0, <2>3 DEF OnClose
  <2>4. CASE \E d \in Clients : Transmit(d) \/ \E size \in Sizes : Receive(d, size)
    BY <2>0, <2>4 DEF Transmit, Receive
  <2>5. CASE ReplyTooLarge
    BY <2>0, <2>5 DEF ReplyTooLarge, Close
  <2>6. CASE TickErases
    BY <2>0, <2>6 DEF TickErases
  <2>7. CASE UNCHANGED vars
    BY <2>0, <2>7 DEF vars
  <2>8. CASE OnUpdate /\ ~ReplyTooLarge /\ ~TickErases
    BY <2>0, <2>8 DEF OnUpdate, OnUpdateFlips, OnUpdateGets, OnUpdateDrained, DispatchDrops, DispatchFinds, Reply,
       OnUpdateFlushes
  <2> QED
    BY <2>1, <2>2, <2>3, <2>4, <2>5, <2>6, <2>7, <2>8 DEF Next
<1> QED
  BY <1>1, <1>2, PathTypeCorrect, PTL DEF Spec

(* The safety half of ClosedIsForgotten: once a closed session has left the *)
(* map, no step of OnAccept or of anyone else brings it back                *)
(* (agent_server.cpp:55-67).                                                *)
THEOREM ForgottenForGood == Spec => [][\A c \in Clients : Forgotten(c) => Forgotten(c)']_vars
<1>1. TypeOK /\ HandInvariant /\ [Next]_vars => \A c \in Clients : Forgotten(c) => Forgotten(c)'
  <2> SUFFICES ASSUME TypeOK, HandInvariant, [Next]_vars, NEW c \in Clients, link[c] = "down", c \notin m_sessions
               PROVE  link'[c] = "down" /\ c \notin m_sessions'
    BY DEF Forgotten
  <2> USE DEF clientSide, inbound, outbound
  <2>0. link \in [Clients -> {"new", "stored", "up", "down"}]
    BY DEF TypeOK
  <2>1. CASE \E d \in Clients : \/ OnAcceptStores(d) \/ OnAcceptStarts(d) \/ ReadEnds(d) \/ OnClose(d) \/ Transmit(d)
                               \/ \E size \in Sizes : Receive(d, size)
    BY <2>0, <2>1 DEF OnAcceptStores, OnAcceptStarts, ReadEnds, OnClose, Transmit, Receive, Close
  <2>2. CASE OnUpdate
    BY <2>0, <2>2 DEF OnUpdate, OnUpdateFlips, OnUpdateGets, OnUpdateDrained, DispatchDrops, DispatchFinds, ReplyTooLarge,
       TickErases, Reply, OnUpdateFlushes, Close
  <2> QED
    BY <2>1, <2>2 DEF Next, vars
<1> QED
  BY <1>1, PathTypeCorrect, PTL DEF Spec
=============================================================================
