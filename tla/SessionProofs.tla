--------------------------- MODULE SessionProofs ---------------------------
(***************************************************************************)
(* Theorems about Session for every value of its constants, with the proof *)
(* that the invariant they follow from is inductive.                       *)
(***************************************************************************)
EXTENDS Session, PrefixLemmas

Buffers == [msgs : Packets, pos : Nat]

(* addMsg keeps the buffer a buffer.                                        *)
LEMMA AddMsgType ==
  ASSUME NEW b \in Buffers, NEW m \in Message
  PROVE  addMsg(b, m) \in Buffers
<1>0. m.size \in Nat
  BY SizesAssumption DEF Message
<1>1. << m >> \in Packets
  BY DEF Packets
<1>2. Append(b.msgs, m) \in Packets /\ b.pos + m.size \in Nat
  BY <1>0 DEF Buffers, Packets
<1> QED
  BY <1>0, <1>1, <1>2 DEF addMsg, Buffers

(* The message Send builds is a message while the bound leaves room for it. *)
LEMMA NextMessageType ==
  ASSUME TypeOK, NEW size \in Sizes, Len(accepted) < MaxSends
  PROVE  NextMessage(size) \in Message
BY SizesAssumption DEF TypeOK, NextMessage, Message, Packets

(* Session keeps its type (session.cpp, send_msg_buffer.cpp): in particular *)
(* the pops and copies of the write queue only ever see packets.            *)
THEOREM TypeCorrect == Spec => []TypeOK
<1>1. Init => TypeOK
  <2>1. << >> \in Packets /\ << >> \in Seq(Packets)
    BY DEF Packets
  <2> SUFFICES ASSUME Init PROVE TypeOK
    OBVIOUS
  <2>2. m_sendBuffer \in [msgs : Packets, pos : Nat]
    BY <2>1 DEF Init, EmptyBuffer
  <2>3. writeOp \in [state : {"none", "pending", "done", "failed"}, packet : Packets]
    BY <2>1 DEF Init, NoWrite
  <2>4. repliesLeft \in 0..MaxReplies
    BY SizesAssumption DEF Init
  <2> QED
    BY <2>1, <2>2, <2>3, <2>4 DEF Init, TypeOK
<1>2. TypeOK /\ [Next]_vars => TypeOK'
  <2> SUFFICES ASSUME TypeOK, [Next]_vars PROVE TypeOK'
    OBVIOUS
  <2> USE DEF TypeOK, Go, GoBack, Threads, Tick, Reader, Writer, CloseSteps,
              buffering, queueing, closing, io
  <2>1. CASE Lookup
    BY <2>1, SizesAssumption DEF Lookup
  <2>2. CASE Return
    BY <2>2, SizesAssumption DEF Return
  <2>3. CASE Send
    <3> PICK size \in Sizes :
          /\ Len(accepted) < MaxSends
          /\ repliesLeft > 0 /\ repliesLeft' = repliesLeft - 1
          /\ \/ SendError(size) \/ SendAdded(size) \/ SendNow(size) \/ SendThenAdd(size)
      BY <2>3 DEF Send
    <3> DEFINE m == NextMessage(size)
    <3>1. m \in Message
      BY NextMessageType
    <3>2. Append(accepted, m) \in Packets
      BY <3>1 DEF Packets
    <3>3. addMsg(m_sendBuffer, m) \in Buffers /\ addMsg(EmptyBuffer, m) \in Buffers
      <4>1. EmptyBuffer \in Buffers /\ m_sendBuffer \in Buffers
        BY DEF EmptyBuffer, Buffers, Packets
      <4> QED
        BY <4>1, <3>1, AddMsgType
    <3>4. repliesLeft' \in 0..MaxReplies
      BY SizesAssumption
    <3>5. CASE SendError(size)
      BY <3>4, <3>5 DEF SendError
    <3>6. CASE SendAdded(size)
      BY <3>2, <3>3, <3>4, <3>6 DEF SendAdded, Buffers
    <3>7. \A p \in Packets : Append(m_writeQueue, p) \in Seq(Packets)
      OBVIOUS
    <3>8. CASE SendNow(size)
      <4>1. getSendBuffer(addMsg(m_sendBuffer, m)) \in Packets
        BY <3>3 DEF getSendBuffer, Buffers
      <4>2. EmptyBuffer \in [msgs : Packets, pos : Nat]
        BY DEF EmptyBuffer, Packets
      <4> QED
        BY <3>2, <3>4, <3>7, <3>8, <4>1, <4>2 DEF SendNow, enqueueWrite
    <3>9. CASE SendThenAdd(size)
      <4>1. getSendBuffer(m_sendBuffer) \in Packets
        BY DEF getSendBuffer
      <4> QED
        BY <3>2, <3>3, <3>4, <3>7, <3>9, <4>1 DEF SendThenAdd, enqueueWrite, Buffers
    <3> QED
      BY <3>5, <3>6, <3>8, <3>9
  <2>4. CASE DispatchClose
    BY <2>4, SizesAssumption DEF DispatchClose
  <2>5. CASE Flush
    <3>1. getSendBuffer(m_sendBuffer) \in Packets /\ EmptyBuffer \in [msgs : Packets, pos : Nat]
      BY DEF getSendBuffer, EmptyBuffer, Packets
    <3> QED
      BY <2>5, <3>1 DEF Flush, enqueueWrite
  <2>6. ASSUME NEW t \in Threads, doWrite(t) PROVE TypeOK'
    <3>1. Head(m_writeQueue) \in Packets
      BY <2>6 DEF doWrite
    <3> QED
      BY <2>6, <3>1 DEF doWrite
  <2>7. ASSUME NEW t \in Threads, doWriteNothing(t) PROVE TypeOK'
    BY <2>7 DEF doWriteNothing
  <2>8. ASSUME NEW t \in Threads, async_write(t) PROVE TypeOK'
    BY <2>8 DEF async_write
  <2>9. CASE ReadFailed \/ ReadBadFrame \/ ReadMessages
    BY <2>9 DEF ReadFailed, ReadBadFrame, ReadMessages
  <2>10. CASE WriteFailed \/ WriteDone
    <3>1. << >> \in Packets
      BY DEF Packets
    <3> QED
      BY <2>10, <3>1 DEF WriteFailed, WriteDone, NoWrite
  <2>11. CASE PopFront
    <3>1. m_writeQueue # << >> => Tail(m_writeQueue) \in Seq(Packets)
      OBVIOUS
    <3> QED
      BY <2>11, <3>1 DEF PopFront
  <2>12. ASSUME NEW t \in Threads, Close(t) PROVE TypeOK'
    <3>1. CASE CloseAgain(t)
      BY <3>1 DEF CloseAgain
    <3>5. CASE CloseTest(t)
      BY <3>5 DEF CloseTest
    <3>6. CASE CloseMark(t)
      <4>1. m_closed' \in BOOLEAN /\ registered' \in BOOLEAN /\ onCloseCalls' \in Nat
        BY <3>6 DEF CloseMark
      <4> QED
        BY <3>6, <4>1 DEF CloseMark
    <3>2. CASE CloseSocket(t)
      BY <3>2 DEF CloseSocket
    <3>3. CASE CloseClear(t)
      <4>1. << >> \in Seq(Packets)
        OBVIOUS
      <4> QED
        BY <3>3, <4>1 DEF CloseClear
    <3>4. CASE CloseNotify(t)
      <4>2. pc' \in [Threads -> {"idle", "hold", "doWrite", "issue", "pop"} \cup CloseSteps]
        BY <3>4 DEF CloseNotify
      <4>3. m_sessMx' \in BOOLEAN
        BY <3>4 DEF CloseNotify
      <4>4. UNCHANGED << buffering, queueing, io, repliesLeft, poppedEmpty >>
        BY <3>4 DEF CloseNotify
      <4> HIDE DEF Go, GoBack, CloseSteps, Threads
      <4>5. onCloseCalls' \in Nat
        BY <3>4, SMT DEF CloseNotify
      <4>6. m_closed' = m_closed
        BY <3>4 DEF CloseNotify
      <4>7. registered' \in BOOLEAN
        BY <3>4, Zenon DEF CloseNotify
      <4>8. m_closed' \in BOOLEAN
        BY <4>6, Zenon
      <4>1. m_closed' \in BOOLEAN /\ registered' \in BOOLEAN /\ onCloseCalls' \in Nat
        BY <4>5, <4>8, <4>7
      <4> QED
        BY <4>1, <4>2, <4>3, <4>4
    <3> QED
      BY <2>12, <3>1, <3>2, <3>3, <3>4, <3>5, <3>6 DEF Close
  <2>13. CASE IoReadData \/ IoReadFails
    BY <2>13 DEF IoReadData, IoReadFails
  <2>14. CASE IoWriteDone
    <3>1. wire \o writeOp.packet \in Packets
      BY DEF Packets
    <3> QED
      BY <2>14, <3>1 DEF IoWriteDone
  <2>15. CASE IoWriteFails
    BY <2>15 DEF IoWriteFails
  <2>16. CASE UNCHANGED vars
    BY <2>16 DEF vars
  <2> QED
    BY <2>1, <2>2, <2>3, <2>4, <2>5, <2>6, <2>7, <2>8, <2>9, <2>10, <2>11, <2>12, <2>13, <2>14, <2>15, <2>16
    DEF Next, TickNext, ReaderNext, WriterNext, IoNext, Gone
<1> QED
  BY <1>1, <1>2, PTL DEF Spec

(* The invariant that makes m_writeInProgress a token is inductive: it      *)
(* holds in Init and every step of every thread keeps it.                   *)
THEOREM TurnInvariantHolds == Spec => []TurnInvariant
<1> USE DEF Threads, Tick, Reader, Writer, CloseSteps, Go, GoBack, TickTurn, WriterTurn, IoTurn,
            OnFront, PastMark, buffering, queueing, closing, io
<1>1. Init => TurnInvariant
  BY DEF Init, TurnInvariant
<1>2. TypeOK /\ TurnInvariant /\ [Next]_vars => TurnInvariant'
  <2> SUFFICES ASSUME TypeOK, TurnInvariant, [Next]_vars PROVE TurnInvariant'
    OBVIOUS
  <2>0. pc \in [Threads -> {"idle", "hold", "doWrite", "issue", "pop"} \cup CloseSteps]
    BY DEF TypeOK
  <2> USE <2>0 DEF TurnInvariant
  <2>1. CASE Lookup
    BY <2>1 DEF Lookup
  <2>2. CASE Return
    BY <2>2 DEF Return
  <2>3. CASE Send
    <3> PICK size \in Sizes :
          SendError(size) \/ SendAdded(size) \/ SendNow(size) \/ SendThenAdd(size)
      BY <2>3 DEF Send
    <3>1. \A p : Append(m_writeQueue, p) # << >>
      BY DEF TypeOK
    <3>2. CASE SendError(size)
      BY <3>2 DEF SendError
    <3>3. CASE SendAdded(size)
      BY <3>3 DEF SendAdded
    <3>4. CASE SendNow(size)
      BY <3>1, <3>4 DEF SendNow, enqueueWrite
    <3>5. CASE SendThenAdd(size)
      BY <3>1, <3>5 DEF SendThenAdd, enqueueWrite
    <3> QED
      BY <3>2, <3>3, <3>4, <3>5
  <2>4. CASE DispatchClose
    BY <2>4 DEF DispatchClose
  <2>5. CASE Flush
    <3>1. \A p : Append(m_writeQueue, p) # << >>
      BY DEF TypeOK
    <3> QED
      BY <2>5, <3>1 DEF Flush, enqueueWrite
  <2>6. ASSUME NEW t \in {Tick, Writer}, doWrite(t) PROVE TurnInvariant'
    BY <2>6 DEF doWrite
  <2>7. ASSUME NEW t \in {Tick, Writer}, doWriteNothing(t) PROVE TurnInvariant'
    BY <2>7 DEF doWriteNothing
  <2>8. ASSUME NEW t \in {Tick, Writer}, async_write(t) PROVE TurnInvariant'
    <3>1. writeOp'.state # "none" /\ writeOp' # NoWrite
      BY <2>8 DEF async_write, NoWrite
    <3> QED
      BY <2>8, <3>1 DEF async_write
  <2>9. CASE ReadFailed \/ ReadBadFrame \/ ReadMessages
    BY <2>9 DEF ReadFailed, ReadBadFrame, ReadMessages
  <2>10. CASE WriteFailed \/ WriteDone
    <3>1. IoTurn
      BY <2>10 DEF WriteFailed, WriteDone, NoWrite
    <3>2. CASE WriteFailed
      BY <3>1, <3>2 DEF WriteFailed
    <3>3. CASE WriteDone
      BY <3>1, <3>3 DEF WriteDone
    <3> QED
      BY <2>10, <3>2, <3>3
  <2>11. CASE PopFront
    BY <2>11 DEF PopFront
  <2>12. ASSUME NEW t \in Threads, Close(t) PROVE TurnInvariant'
    <3>1. CASE CloseAgain(t)
      BY <2>12, <3>1 DEF CloseAgain
    <3>2. CASE CloseTest(t)
      BY <2>12, <3>2 DEF CloseTest
    <3>3. CASE CloseMark(t)
      BY <2>12, <3>3 DEF CloseMark
    <3>4. CASE CloseSocket(t)
      BY <2>12, <3>4 DEF CloseSocket
    <3>5. CASE CloseClear(t)
      BY <2>12, <3>5 DEF CloseClear
    <3>6. CASE CloseNotify(t)
      BY <2>12, <3>6 DEF CloseNotify
    <3> QED
      BY <2>12, <3>1, <3>2, <3>3, <3>4, <3>5, <3>6 DEF Close
  <2>13. CASE IoReadData \/ IoReadFails
    BY <2>13 DEF IoReadData, IoReadFails
  <2>14. CASE IoWriteDone \/ IoWriteFails
    <3>1. IoTurn /\ writeOp'.state # "none" /\ writeOp' # NoWrite
      BY <2>14 DEF IoWriteDone, IoWriteFails, NoWrite, TypeOK
    <3>2. UNCHANGED << pc, m_writeQueue, m_writeInProgress, m_closed, poppedEmpty >>
      BY <2>14 DEF IoWriteDone, IoWriteFails
    <3> QED
      BY <3>1, <3>2
  <2>15. CASE UNCHANGED vars
    BY <2>15 DEF vars
  <2> QED
    BY <2>1, <2>2, <2>3, <2>4, <2>5, <2>6, <2>7, <2>8, <2>9, <2>10, <2>11, <2>12, <2>13, <2>14, <2>15
    DEF Next, TickNext, ReaderNext, WriterNext, IoNext, Gone
<1> QED
  BY <1>1, <1>2, TypeCorrect, PTL DEF Spec

(* Never two async_write at once (session.cpp:86-126): the turn that        *)
(* TurnInvariant passes around is held by at most one.                      *)
THEOREM OneWriteCorrect == Spec => []OneWriteAtATime
<1>1. TypeOK /\ TurnInvariant => OneWriteAtATime
  <2> SUFFICES ASSUME TypeOK, TurnInvariant PROVE Cardinality(WriteTurns) <= 1
    BY DEF OneWriteAtATime
  <2> USE DEF TurnInvariant, TickTurn, WriterTurn, IoTurn, WriteTurns, InWrite, Tick, Writer
  <2>1. \E x : WriteTurns \subseteq {x}
    <3>1. CASE TickTurn
      <4>1. WriteTurns \subseteq {Tick}
        BY <3>1
      <4> QED
        BY <4>1
    <3>2. CASE WriterTurn
      <4>1. WriteTurns \subseteq {Writer}
        BY <3>2
      <4> QED
        BY <4>1
    <3>3. CASE ~TickTurn /\ ~WriterTurn
      <4>1. WriteTurns \subseteq {"io"}
        BY <3>3
      <4> QED
        BY <4>1
    <3> QED
      BY <3>1, <3>2, <3>3
  <2>2. PICK x : WriteTurns \subseteq {x}
    BY <2>1
  <2> HIDE DEF WriteTurns
  <2>3. IsFiniteSet({x}) /\ Cardinality({x}) = 1
    BY FS_Singleton
  <2> QED
    BY <2>2, <2>3, FS_Subset, FS_CardinalityType
<1> QED
  BY <1>1, TypeCorrect, TurnInvariantHolds, PTL

(* A queued packet always has someone who will write it, until the link is  *)
(* being dropped (session.cpp:101-126).                                     *)
THEOREM QueueServedCorrect == Spec => []QueueIsServed
<1>1. TurnInvariant => QueueIsServed
  <2> SUFFICES ASSUME TurnInvariant, m_writeQueue # << >>, WriteTurns = {}
               PROVE  m_closed \/ pc[Writer] \in CloseSteps
    BY DEF QueueIsServed
  <2>1. ~TickTurn /\ ~WriterTurn /\ ~IoTurn
    BY DEF WriteTurns, InWrite, TickTurn, WriterTurn, IoTurn
  <2> QED
    BY <2>1 DEF TurnInvariant
<1> QED
  BY <1>1, TurnInvariantHolds, PTL

(* The completion handler's pop_front (session.cpp:122) meets an empty deque*)
(* only after Close().                                                      *)
THEOREM PopsEmptyOnlyIfClosedCorrect == Spec => []PopsEmptyOnlyIfClosed
<1>1. TurnInvariant => PopsEmptyOnlyIfClosed
  BY DEF TurnInvariant, PopsEmptyOnlyIfClosed
<1> QED
  BY <1>1, TurnInvariantHolds, PTL

(* What the send buffer holds after addMsg: nothing, a batch below the      *)
(* threshold, or one message that fits (send_msg_buffer.cpp:31-63).         *)
BufferInvariant(b) ==
  /\ (b.pos = 0) <=> (b.msgs = << >>)
  /\ b.pos <= NET_DATA_BUFSIZE
  /\ b.pos >= COMPRESS_PACKET_SIZE => Len(b.msgs) = 1

(* addMsg keeps the bounds of a batch.                                      *)
LEMMA AddMsgInvariant ==
  ASSUME NEW b \in Buffers, BufferInvariant(b), NEW m \in Message
  PROVE  BufferInvariant(addMsg(b, m))
<1>1. m.size \in Nat \ {0}
  BY SizesAssumption DEF Message
<1>2. b.pos \in Nat /\ b.msgs \in Packets
  BY DEF Buffers
<1>3. CASE addMsgResult(b, m) = "BUFFER_ADDED"
  <2>1. b.pos + m.size < COMPRESS_PACKET_SIZE
    BY <1>3 DEF addMsgResult
  <2>2. addMsg(b, m) = [msgs |-> Append(b.msgs, m), pos |-> b.pos + m.size]
    BY <1>3 DEF addMsg
  <2>3. Append(b.msgs, m) # << >>
    BY <1>2 DEF Packets
  <2> QED
    BY <1>1, <1>2, <2>1, <2>2, <2>3, BufferSizesAssumption DEF BufferInvariant
<1>4. CASE addMsgResult(b, m) = "BUFFER_SEND"
  <2>1. m.size <= NET_DATA_BUFSIZE
    BY <1>1, <1>4, BufferSizesAssumption DEF addMsgResult
  <2>2. addMsg(b, m) = [msgs |-> << m >>, pos |-> m.size]
    BY <1>4 DEF addMsg
  <2> QED
    BY <1>1, <2>1, <2>2 DEF BufferInvariant
<1> QED
  BY <1>3, <1>4 DEF addMsg

(* Every copy into m_pBuffer and m_pSendBuffer stays inside it              *)
(* (send_msg_buffer.cpp:44,53,97).                                          *)
THEOREM BufferFitsCorrect == Spec => []BufferFits
<1>1. Init => BufferInvariant(m_sendBuffer)
  BY BufferSizesAssumption DEF Init, EmptyBuffer, BufferInvariant
<1>2. TypeOK /\ BufferInvariant(m_sendBuffer) /\ [Next]_vars => BufferInvariant(m_sendBuffer)'
  <2> SUFFICES ASSUME TypeOK, BufferInvariant(m_sendBuffer), [Next]_vars
               PROVE  BufferInvariant(m_sendBuffer')
    BY DEF BufferInvariant
  <2>1. BufferInvariant(EmptyBuffer) /\ EmptyBuffer \in Buffers /\ m_sendBuffer \in Buffers
    BY BufferSizesAssumption DEF EmptyBuffer, BufferInvariant, Buffers, TypeOK, Packets
  <2>2. CASE Send
    <3> PICK size \in Sizes :
          /\ Len(accepted) < MaxSends
          /\ SendError(size) \/ SendAdded(size) \/ SendNow(size) \/ SendThenAdd(size)
      BY <2>2 DEF Send
    <3>1. NextMessage(size) \in Message
      BY NextMessageType
    <3>2. m_sendBuffer' \in {m_sendBuffer, EmptyBuffer, addMsg(m_sendBuffer, NextMessage(size)),
                             addMsg(EmptyBuffer, NextMessage(size))}
      BY DEF SendError, SendAdded, SendNow, SendThenAdd, buffering
    <3> QED
      BY <2>1, <3>1, <3>2, AddMsgInvariant
  <2>3. CASE Flush
    BY <2>1, <2>3 DEF Flush
  <2>4. CASE ~Send /\ ~Flush
    <3>1. m_sendBuffer' = m_sendBuffer
      BY <2>4 DEF Next, TickNext, ReaderNext, WriterNext, IoNext, Gone, vars, buffering, Close,
           Lookup, Return, DispatchClose, doWrite, doWriteNothing, async_write,
           ReadFailed, ReadBadFrame, ReadMessages, WriteFailed, WriteDone, PopFront,
           CloseAgain, CloseTest, CloseMark, CloseSocket, CloseClear, CloseNotify,
           IoReadData, IoReadFails, IoWriteDone, IoWriteFails
    <3> QED
      BY <3>1
  <2> QED
    BY <2>2, <2>3, <2>4
<1>3. TypeOK /\ BufferInvariant(m_sendBuffer) => BufferFits
  BY BufferSizesAssumption DEF TypeOK, BufferInvariant, BufferFits
<1> QED
  BY <1>1, <1>2, <1>3, TypeCorrect, PTL DEF Spec

-----------------------------------------------------------------------------
(***************************************************************************)
(* Session implements the FIFO channel, but for its liveness: whatever the *)
(* three threads interleave, what goes out is what was accepted, in order, *)
(* without a gap and without a repetition.  Messages carry the number of   *)
(* their acceptance, so a packet is a run of accepted messages and the     *)
(* queue a chain of such runs.  Put together, written, queued and batched  *)
(* messages are the accepted ones: nothing is lost before Close().         *)
(***************************************************************************)

(* p holds the accepted messages from number k on.                          *)
Segment(p, k, a) == k + Len(p) - 1 <= Len(a) /\ \A j \in 1..Len(p) : p[j] = a[k + j - 1]

Run(p, a) == p # << >> /\ Segment(p, p[1].n, a)

(* The packets of q follow each other from message k to the one before e.   *)
Chained(q, k, e) ==
  IF q = << >> THEN k = e
  ELSE /\ q[1][1].n = k
       /\ \A i \in 1..Len(q) - 1 : q[i + 1][1].n = q[i][1].n + Len(q[i])
       /\ q[Len(q)][1].n + Len(q[Len(q)]) = e

NonEmptyPackets == Packets \ {<< >>}

(* A packet's first message has a number.                                   *)
LEMMA FirstNumber ==
  ASSUME NEW p \in NonEmptyPackets
  PROVE  Len(p) \in Nat \ {0} /\ p[1] \in Message /\ p[1].n \in Nat \ {0}
<1>1. Len(p) \in Nat \ {0} /\ p[1] \in Message
  BY EmptySeq, LenProperties DEF NonEmptyPackets, Packets
<1> QED
  BY <1>1, SizesAssumption DEF Message

(* A run stays a run while more is accepted.                                *)
LEMMA SegmentGrows ==
  ASSUME NEW p \in Packets, NEW a \in Packets, NEW k \in Nat \ {0}, NEW m \in Message, Segment(p, k, a)
  PROVE  Segment(p, k, Append(a, m))
<1>1. /\ Len(p) \in Nat /\ Len(a) \in Nat /\ Len(Append(a, m)) = Len(a) + 1
      /\ \A i \in 1..Len(a) : Append(a, m)[i] = a[i]
  BY LenProperties, AppendProperties DEF Packets
<1>2. ASSUME NEW j \in 1..Len(p) PROVE p[j] = Append(a, m)[k + j - 1]
  <2>1. k + j - 1 \in 1..Len(a) /\ p[j] = a[k + j - 1]
    BY <1>1 DEF Segment
  <2> QED
    BY <1>1, <2>1
<1> QED
  BY <1>1, <1>2 DEF Segment

(* A batch that ends with the last accepted message, and the next one.      *)
LEMMA SegmentAppend ==
  ASSUME NEW p \in Packets, NEW a \in Packets, NEW m \in Message, Len(p) <= Len(a), Segment(p, Len(a) + 1 - Len(p), a)
  PROVE  Segment(Append(p, m), Len(a) + 1 - Len(p), Append(a, m))
<1>1. /\ Len(p) \in Nat /\ Len(a) \in Nat
      /\ Len(Append(a, m)) = Len(a) + 1 /\ Append(a, m)[Len(a) + 1] = m
      /\ \A i \in 1..Len(a) : Append(a, m)[i] = a[i]
      /\ Len(Append(p, m)) = Len(p) + 1 /\ Append(p, m)[Len(p) + 1] = m
      /\ \A i \in 1..Len(p) : Append(p, m)[i] = p[i]
  BY LenProperties, AppendProperties DEF Packets
<1> DEFINE k == Len(a) + 1 - Len(p)
<1>2. k \in Nat \ {0} /\ k + Len(p) = Len(a) + 1
  BY <1>1
<1> HIDE DEF k
<1>3. ASSUME NEW j \in 1..Len(p) + 1 PROVE Append(p, m)[j] = Append(a, m)[k + j - 1]
  <2>1. CASE j = Len(p) + 1
    BY <1>1, <1>2, <2>1
  <2>2. CASE j \in 1..Len(p)
    <3>1. k + j - 1 \in 1..Len(a) /\ p[j] = a[k + j - 1]
      BY <1>1, <1>2, <2>2 DEF Segment, k
    <3> QED
      BY <1>1, <2>2, <3>1
  <2>3. j = Len(p) + 1 \/ j \in 1..Len(p)
    BY <1>1
  <2> QED
    BY <2>1, <2>2, <2>3
<1>4. k + Len(Append(p, m)) - 1 <= Len(Append(a, m))
  BY <1>1, <1>2
<1> QED
  BY <1>1, <1>3, <1>4 DEF Segment, k

(* A packet put behind the queue continues its chain.                       *)
LEMMA ChainAppend ==
  ASSUME NEW q \in Seq(NonEmptyPackets), NEW p \in NonEmptyPackets, NEW k \in Nat, NEW e \in Nat,
         Chained(q, k, e), p[1].n = e
  PROVE  Chained(Append(q, p), k, e + Len(p))
<1>1. /\ Len(q) \in Nat /\ (q = << >> <=> Len(q) = 0)
      /\ Append(q, p) # << >> /\ Len(Append(q, p)) = Len(q) + 1 /\ Append(q, p)[Len(q) + 1] = p
      /\ \A i \in 1..Len(q) : Append(q, p)[i] = q[i]
  BY EmptySeq, LenProperties, AppendProperties
<1>2. CASE q = << >>
  BY <1>1, <1>2 DEF Chained
<1>3. CASE q # << >>
  <2>1. /\ q[1][1].n = k
        /\ \A i \in 1..Len(q) - 1 : q[i + 1][1].n = q[i][1].n + Len(q[i])
        /\ q[Len(q)][1].n + Len(q[Len(q)]) = e
    BY <1>3 DEF Chained
  <2>2. Append(q, p)[1][1].n = k
    BY <1>1, <1>3, <2>1
  <2>3. ASSUME NEW i \in 1..Len(q)
        PROVE  Append(q, p)[i + 1][1].n = Append(q, p)[i][1].n + Len(Append(q, p)[i])
    <3>1. CASE i = Len(q)
      BY <1>1, <2>1, <3>1
    <3>2. CASE i \in 1..Len(q) - 1
      BY <1>1, <2>1, <3>2
    <3> QED
      BY <1>1, <3>1, <3>2
  <2> QED
    BY <1>1, <2>2, <2>3 DEF Chained
<1> QED
  BY <1>2, <1>3

(* Without its front the queue is the rest of the chain.                    *)
LEMMA ChainTail ==
  ASSUME NEW q \in Seq(NonEmptyPackets), q # << >>, NEW k \in Nat, NEW e \in Nat, Chained(q, k, e)
  PROVE  Chained(Tail(q), k + Len(Head(q)), e)
<1>1. /\ Len(q) \in Nat \ {0} /\ Head(q) = q[1] /\ Tail(q) \in Seq(NonEmptyPackets)
      /\ Len(Tail(q)) = Len(q) - 1 /\ \A i \in 1..Len(q) - 1 : Tail(q)[i] = q[i + 1]
  BY EmptySeq, LenProperties, HeadTailProperties
<1>2. /\ q[1][1].n = k
      /\ \A i \in 1..Len(q) - 1 : q[i + 1][1].n = q[i][1].n + Len(q[i])
      /\ q[Len(q)][1].n + Len(q[Len(q)]) = e
  BY DEF Chained
<1> DEFINE r == Tail(q)
<1>5. r = << >> <=> Len(r) = 0
  BY <1>1, EmptySeq
<1>3. CASE Len(q) = 1
  <2>1. Tail(q) = << >>
    BY <1>1, <1>3, <1>5
  <2> QED
    BY <1>1, <1>2, <1>3, <2>1 DEF Chained
<1>4. CASE Len(q) > 1
  <2>1. Tail(q) # << >> /\ 1 \in 1..Len(q) - 1 /\ Len(q) - 1 \in 1..Len(q) - 1
    BY <1>1, <1>4, <1>5
  <2>2. Tail(q)[1][1].n = k + Len(Head(q))
    BY <1>1, <1>2, <2>1
  <2>3. Tail(q)[Len(q) - 1] = q[Len(q)]
    BY <1>1, <2>1
  <2>4. ASSUME NEW i \in 1..Len(q) - 2
        PROVE  Tail(q)[i + 1][1].n = Tail(q)[i][1].n + Len(Tail(q)[i])
    <3>1. i \in 1..Len(q) - 1 /\ i + 1 \in 1..Len(q) - 1
      BY <1>1
    <3> QED
      BY <1>1, <1>2, <3>1
  <2> QED
    BY <1>1, <1>2, <2>1, <2>2, <2>3, <2>4 DEF Chained
<1> QED
  BY <1>1, <1>3, <1>4

(* A batch is a run.                                                        *)
LEMMA BatchIsRun ==
  ASSUME NEW p \in NonEmptyPackets, NEW a \in Packets, NEW k \in Nat \ {0}, Segment(p, k, a),
         \A i \in 1..Len(a) : a[i].n = i
  PROVE  p[1].n = k /\ Run(p, a)
<1>1. Len(p) \in Nat \ {0} /\ Len(a) \in Nat
  BY FirstNumber, LenProperties DEF Packets
<1>2. p[1] = a[k] /\ k \in 1..Len(a)
  BY <1>1 DEF Segment
<1> QED
  BY <1>2 DEF Run, NonEmptyPackets

(* Writing the next run keeps what is written a beginning of what was       *)
(* accepted.                                                                *)
LEMMA DeliverRun ==
  ASSUME NEW w \in Packets, NEW p \in NonEmptyPackets, NEW a \in Packets,
         Agrees(w, a), Run(p, a), p[1].n = Len(w) + 1
  PROVE  /\ Agrees(w \o p, a) /\ Len(w \o p) = Len(w) + Len(p) /\ Len(w \o p) > Len(w)
         /\ w \o p \in Packets
<1>1. /\ Len(w) \in Nat /\ Len(p) \in Nat \ {0} /\ Len(a) \in Nat
      /\ w \o p \in Packets /\ Len(w \o p) = Len(w) + Len(p)
      /\ \A i \in 1..Len(w) + Len(p) : (w \o p)[i] = IF i <= Len(w) THEN w[i] ELSE p[i - Len(w)]
  BY FirstNumber, LenProperties, ConcatProperties DEF Packets, NonEmptyPackets
<1>2. ASSUME NEW i \in 1..Len(w) + Len(p) PROVE (w \o p)[i] = a[i]
  <2>1. CASE i <= Len(w)
    BY <1>1, <2>1 DEF Agrees
  <2>2. CASE i > Len(w)
    <3> DEFINE j == i - Len(w)
    <3>1. j \in 1..Len(p) /\ i = Len(w) + 1 + j - 1
      BY <1>1, <2>2
    <3>2. p[j] = a[Len(w) + 1 + j - 1]
      BY <3>1 DEF Run, Segment
    <3> QED
      BY <1>1, <2>2, <3>1, <3>2
  <2> QED
    BY <1>1, <2>1, <2>2
<1>3. Len(w) + Len(p) <= Len(a)
  BY <1>1 DEF Run, Segment
<1> QED
  BY <1>1, <1>2, <1>3 DEF Agrees

-----------------------------------------------------------------------------
(* h is flattening done step by step.                                       *)
Flattens(h, q) == h = [i \in 1..Len(q) |-> IF i = 1 THEN q[i] ELSE h[i - 1] \o q[i]]

(* A function that flattens a queue step by step says what flattening it    *)
(* gives.                                                                   *)
LEMMA FlattenSteps ==
  ASSUME NEW q, NEW h, Len(q) \in Nat \ {0}, Flattens(h, q)
  PROVE  FlattenSeq(q) = h[Len(q)]
<1> DEFINE c == CHOOSE f : Flattens(f, q)
<1>1. FlattenSeq(q) = c[Len(q)]
  BY DEF FlattenSeq, Flattens
<1>2. Flattens(c, q)
  OBVIOUS
<1> HIDE DEF c
<1> DEFINE S == {i \in Nat : i + 1 \in 1..Len(q) => c[i + 1] = h[i + 1]}
<1>3. 0 \in S
  BY <1>2 DEF Flattens
<1>4. ASSUME NEW i \in S PROVE i + 1 \in S
  <2>1. SUFFICES ASSUME i + 2 \in 1..Len(q)
                 PROVE  c[i + 2] = h[i + 2]
    OBVIOUS
  <2>2. c[i + 1] = h[i + 1] /\ i + 2 # 1 /\ (i + 2) - 1 = i + 1
    BY <2>1
  <2>3. c[i + 2] = c[(i + 2) - 1] \o q[i + 2]
    BY <1>2, <2>1, <2>2 DEF Flattens
  <2>4. h[i + 2] = h[(i + 2) - 1] \o q[i + 2]
    BY <2>1, <2>2 DEF Flattens
  <2> QED
    BY <2>2, <2>3, <2>4
<1>5. S = Nat
  <2> HIDE DEF S
  <2>1. S \in SUBSET Nat
    BY DEF S
  <2> QED
    BY <1>3, <1>4, <2>1, SetInduction
<1>6. Len(q) - 1 \in S
  <2> HIDE DEF S
  <2> QED
    BY <1>5
<1> QED
  BY <1>1, <1>6

(* A run is the part of the accepted messages that it numbers.              *)
LEMMA SegmentIsSubSeq ==
  ASSUME NEW p \in Packets, NEW a \in Packets, NEW k \in Nat \ {0}, Segment(p, k, a)
  PROVE  p = SubSeq(a, k, k + Len(p) - 1)
<1> DEFINE l == k + Len(p) - 1
           s == SubSeq(a, k, l)
<1>1. Len(p) \in Nat /\ Len(a) \in Nat /\ l \in Int /\ k \in Int /\ l <= Len(a)
  BY LenProperties DEF Packets, Segment
<1>2. \A i \in k..l : a[i] \in Message
  BY <1>1 DEF Packets
<1>3. s \in Seq(Message) /\ Len(s) = (IF k <= l THEN l - k + 1 ELSE 0) /\ \A i \in 1..l - k + 1 : s[i] = a[k + i - 1]
  <2> HIDE DEF l
  <2> QED
    BY <1>1, <1>2, SubSeqProperties
<1>4. Len(s) = Len(p) /\ l - k + 1 = Len(p)
  BY <1>1, <1>3
<1> HIDE DEF s, l
<1>5. \A i \in 1..Len(p) : p[i] = s[i]
  BY <1>3, <1>4 DEF Segment
<1>6. p = s
  BY <1>3, <1>4, <1>5, SeqEqual DEF Packets
<1> QED
  BY <1>6 DEF s, l

(* No packet of a chain starts before the chain does.                       *)
LEMMA ChainStarts ==
  ASSUME NEW q \in Seq(NonEmptyPackets), q # << >>, NEW k \in Nat, NEW e \in Nat, Chained(q, k, e)
  PROVE  \A i \in 1..Len(q) : q[i][1].n >= k
<1> DEFINE S == {i \in Nat : i + 1 \in 1..Len(q) => q[i + 1][1].n >= k}
<1>1. /\ Len(q) \in Nat /\ q[1][1].n = k
      /\ \A i \in 1..Len(q) - 1 : q[i + 1][1].n = q[i][1].n + Len(q[i])
  BY LenProperties DEF Chained
<1>2. \A i \in 1..Len(q) : q[i][1].n \in Nat /\ Len(q[i]) \in Nat
  BY FirstNumber
<1>3. 0 \in S
  BY <1>1
<1>4. ASSUME NEW i \in S PROVE i + 1 \in S
  <2>1. SUFFICES ASSUME (i + 1) + 1 \in 1..Len(q)
                 PROVE  q[(i + 1) + 1][1].n >= k
    OBVIOUS
  <2>2. i + 1 \in 1..Len(q) - 1 /\ i + 1 \in 1..Len(q)
    BY <1>1, <2>1
  <2>3. q[i + 1][1].n >= k
    BY <2>2
  <2> QED
    BY <1>1, <1>2, <2>2, <2>3
<1>5. S = Nat
  <2> HIDE DEF S
  <2>1. S \in SUBSET Nat
    BY DEF S
  <2> QED
    BY <1>3, <1>4, <2>1, SetInduction
<1>6. ASSUME NEW i \in 1..Len(q) PROVE q[i][1].n >= k
  <2>1. i - 1 \in Nat /\ (i - 1) + 1 = i
    BY <1>1
  <2>2. i - 1 \in S
    <3> HIDE DEF S
    <3> QED
      BY <1>5, <2>1
  <2> QED
    BY <2>1, <2>2
<1> QED
  BY <1>6

(* The messages of a queue, put together, are the accepted ones from the    *)
(* first number of its chain to the last.                                   *)
LEMMA ChainContents ==
  ASSUME NEW q \in Seq(NonEmptyPackets), NEW a \in Packets, NEW k \in Nat \ {0}, NEW e \in Nat \ {0},
         Chained(q, k, e), \A i \in 1..Len(q) : Run(q[i], a)
  PROVE  k <= e /\ FlattenSeq(q) = SubSeq(a, k, e - 1)
<1>1. CASE q = << >>
  <2>1. k = e
    BY <1>1 DEF Chained
  <2>2. FlattenSeq(q) = << >>
    BY <1>1, Zenon, EmptySeq DEF FlattenSeq
  <2>3. k \in Int /\ e - 1 \in Int /\ e - 1 < k
    BY <2>1
  <2>4. SubSeq(a, k, e - 1) = << >>
    BY <2>3, SubSeqEmpty
  <2> QED
    BY <2>1, <2>2, <2>4
<1>2. CASE q # << >>
  <2> DEFINE last(i) == q[i][1].n + Len(q[i]) - 1
             h == [i \in 1..Len(q) |-> SubSeq(a, k, last(i))]
  <2>1. /\ Len(q) \in Nat \ {0} /\ q[1][1].n = k
        /\ \A i \in 1..Len(q) - 1 : q[i + 1][1].n = q[i][1].n + Len(q[i])
        /\ q[Len(q)][1].n + Len(q[Len(q)]) = e
    BY <1>2, LenProperties, EmptySeq DEF Chained
  <2>2. \A i \in 1..Len(q) : /\ q[i] \in NonEmptyPackets /\ q[i] \in Packets
                             /\ q[i][1].n \in Nat \ {0} /\ Len(q[i]) \in Nat \ {0} /\ q[i][1].n >= k
    <3>1. \A i \in 1..Len(q) : q[i][1].n >= k
      BY <1>2, ChainStarts
    <3>2. \A p \in NonEmptyPackets : p \in Packets /\ p[1].n \in Nat \ {0} /\ Len(p) \in Nat \ {0}
      BY FirstNumber DEF NonEmptyPackets
    <3>3. \A i \in 1..Len(q) : q[i] \in NonEmptyPackets
      OBVIOUS
    <3> QED
      BY <3>1, <3>2, <3>3
  <2>3. ASSUME NEW i \in 1..Len(q)
        PROVE  q[i] = SubSeq(a, q[i][1].n, last(i)) /\ last(i) <= Len(a) /\ last(i) \in Nat /\ last(i) >= k
    <3> DEFINE p == q[i]
    <3>1. p \in Packets /\ p[1].n \in Nat \ {0} /\ Len(p) \in Nat \ {0} /\ p[1].n >= k
      BY <2>2
    <3>2. Segment(p, p[1].n, a) /\ last(i) <= Len(a)
      BY DEF Run, Segment
    <3> HIDE DEF p
    <3>3. p = SubSeq(a, p[1].n, p[1].n + Len(p) - 1)
      BY <3>1, <3>2, SegmentIsSubSeq
    <3> QED
      BY <3>1, <3>2, <3>3 DEF p
  <2>4. Flattens(h, q)
    <3>1. ASSUME NEW i \in 1..Len(q)
          PROVE  h[i] = IF i = 1 THEN q[i] ELSE h[i - 1] \o q[i]
      <4>1. CASE i = 1
        BY <2>1, <2>3, <4>1
      <4>2. CASE i # 1
        <5>1. i - 1 \in 1..Len(q) /\ i - 1 \in 1..Len(q) - 1 /\ (i - 1) + 1 = i
          BY <2>1, <4>2
        <5> DEFINE j == i - 1
        <5>7. j \in 1..Len(q) /\ j \in 1..Len(q) - 1 /\ j + 1 = i
          BY <5>1
        <5> HIDE DEF j
        <5>8. q[i][1].n = q[j][1].n + Len(q[j])
          BY <2>1, <5>7
        <5>9. /\ q[i][1].n \in Nat /\ Len(q[i]) \in Nat \ {0} /\ q[j][1].n \in Nat /\ Len(q[j]) \in Nat
              /\ last(j) \in Nat /\ last(j) >= k
          BY <2>2, <2>3, <5>7
        <5>10. q[i][1].n = last(j) + 1 /\ last(i) >= last(j)
          <6> DEFINE x == q[i][1].n
                     y == q[j][1].n
                     z == Len(q[j])
                     w == Len(q[i])
          <6>1. last(j) = y + z - 1 /\ last(i) = x + w - 1
            OBVIOUS
          <6>3. x = y + z /\ x \in Nat /\ w \in Nat \ {0} /\ y \in Nat /\ z \in Nat
            BY <5>8, <5>9
          <6> HIDE DEF last, x, y, z, w
          <6>2. x = last(j) + 1 /\ last(i) >= last(j)
            BY <6>1, <6>3
          <6> QED
            BY <6>2 DEF x
        <5>2. q[i][1].n = last(i - 1) + 1 /\ last(i - 1) \in Nat /\ last(i - 1) >= k /\ last(i) >= last(i - 1)
          BY <5>9, <5>10 DEF j
        <5>3. h[i] = SubSeq(a, k, last(i)) /\ h[i - 1] = SubSeq(a, k, last(i - 1))
          BY <5>1
        <5>4. q[i] = SubSeq(a, last(i - 1) + 1, last(i)) /\ last(i) <= Len(a) /\ last(i) \in Nat
          BY <2>3, <5>2
        <5> HIDE DEF h, last
        <5> DEFINE m == last(i - 1)
                   n == last(i)
        <5>5. a \in Seq(Message) /\ k \in 1..Len(a) + 1 /\ m \in k - 1..Len(a) /\ n \in m..Len(a)
          BY <5>2, <5>4, LenProperties DEF Packets
        <5> HIDE DEF m, n
        <5>6. SubSeq(a, k, m) \o SubSeq(a, m + 1, n) = SubSeq(a, k, n)
          BY <5>5, ConcatAdjacentSubSeq
        <5> QED
          BY <4>2, <5>3, <5>4, <5>6 DEF m, n
      <4> QED
        BY <4>1, <4>2
    <3> HIDE DEF last
    <3>2. h = [i \in 1..Len(q) |-> h[i]]
      BY Zenon
    <3> HIDE DEF h
    <3> QED
      BY <3>1, <3>2 DEF Flattens
  <2> HIDE DEF last
  <2>5. Len(q) \in 1..Len(q) /\ h[Len(q)] = SubSeq(a, k, last(Len(q)))
    <3>1. Len(q) \in 1..Len(q)
      BY <2>1
    <3> QED
      BY <3>1, Zenon
  <2> HIDE DEF h
  <2>6. FlattenSeq(q) = h[Len(q)]
    BY <2>1, <2>4, FlattenSteps
  <2>7. last(Len(q)) = e - 1 /\ k <= e
    <3>1. last(Len(q)) >= k /\ last(Len(q)) \in Nat
      BY <2>3, <2>5
    <3>2. q[Len(q)][1].n \in Nat /\ Len(q[Len(q)]) \in Nat
      BY <2>2, <2>5
    <3> QED
      BY <2>1, <3>1, <3>2 DEF last
  <2> QED
    BY <2>5, <2>6, <2>7
<1> QED
  BY <1>1, <1>2

(* A sequence cut in two places is its three parts put together.            *)
LEMMA ThreeParts ==
  ASSUME NEW S, NEW a \in Seq(S), NEW i \in Nat, NEW j \in Nat, i <= j, j <= Len(a)
  PROVE  SubSeq(a, 1, i) \o SubSeq(a, i + 1, j) \o SubSeq(a, j + 1, Len(a)) = a
<1> DEFINE n == Len(a)
<1>1. n \in Nat /\ 1 \in 1..n + 1 /\ i \in 1 - 1..n /\ j \in i..n /\ j \in 1 - 1..n /\ n \in j..n
  BY LenProperties
<1> HIDE DEF n
<1>2. Len(a) = n
  BY DEF n
<1>3. SubSeq(a, 1, i) \o SubSeq(a, i + 1, j) = SubSeq(a, 1, j)
  BY <1>1, <1>2, ConcatAdjacentSubSeq
<1>4. SubSeq(a, 1, j) \o SubSeq(a, j + 1, n) = SubSeq(a, 1, n)
  BY <1>1, <1>2, ConcatAdjacentSubSeq
<1>5. SubSeq(a, 1, n) = a
  BY <1>2, SubSeqFull
<1> QED
  BY <1>2, <1>3, <1>4, <1>5

(* What is written, the chain behind it and the batch behind the chain are  *)
(* three adjacent parts of what was accepted.                               *)
LEMMA AdjacentParts ==
  ASSUME NEW w \in Packets, NEW u \in Seq(NonEmptyPackets), NEW p \in Packets, NEW a \in Packets,
         NEW k \in Nat \ {0}, NEW e \in Nat \ {0}, k = Len(w) + 1, e = Len(a) + 1 - Len(p),
         Agrees(w, a), Chained(u, k, e), \A i \in 1..Len(u) : Run(u[i], a), Segment(p, e, a)
  PROVE  w \o FlattenSeq(u) \o p = a
<1>1. Len(w) \in Nat /\ Len(p) \in Nat /\ Len(a) \in Nat /\ a \in Seq(Message) /\ w \in Seq(Message)
  BY LenProperties DEF Packets
<1>2. w = SubSeq(a, 1, Len(w))
  BY <1>1, AgreesIsBeginning
<1>3. k <= e /\ FlattenSeq(u) = SubSeq(a, k, e - 1)
  BY ChainContents
<1>4. p = SubSeq(a, e, e + Len(p) - 1)
  BY SegmentIsSubSeq
<1>5. /\ k - 1 = Len(w) /\ (k - 1) + 1 = k /\ (e - 1) + 1 = e /\ e + Len(p) - 1 = Len(a)
      /\ k - 1 \in Nat /\ e - 1 \in Nat /\ k - 1 <= e - 1 /\ e - 1 <= Len(a)
  BY <1>1, <1>3
<1> DEFINE i == k - 1
           j == e - 1
<1>6. i \in Nat /\ j \in Nat /\ i <= j /\ j <= Len(a) /\ i + 1 = k /\ j + 1 = e
  BY <1>5
<1>7. w = SubSeq(a, 1, i) /\ FlattenSeq(u) = SubSeq(a, i + 1, j) /\ p = SubSeq(a, j + 1, Len(a))
  BY <1>2, <1>3, <1>4, <1>5
<1> HIDE DEF i, j
<1>8. SubSeq(a, 1, i) \o SubSeq(a, i + 1, j) \o SubSeq(a, j + 1, Len(a)) = a
  BY <1>1, <1>6, ThreeParts
<1> QED
  BY <1>7, <1>8


-----------------------------------------------------------------------------
(* The invariant of the stream while the socket is open: what is written,   *)
(* the queue and the batch follow each other without a gap; the front is    *)
(* written already between its completion and its pop_front, and until      *)
(* then it is the packet that doWrite copied and the operation carries.     *)
Written == writeOp.state = "done" \/ pc[Writer] = "pop"

QueueStart == IF Written THEN Len(wire) + 1 - Len(Head(m_writeQueue)) ELSE Len(wire) + 1
BatchStart == Len(accepted) + 1 - Len(m_sendBuffer.msgs)

OpenInvariant ==
  /\ OnFront => m_writeQueue # << >>
  /\ \A t \in {Tick, Writer} : pc[t] = "issue" => packet[t] = Head(m_writeQueue)
  /\ IoTurn => writeOp.packet = Head(m_writeQueue)
  /\ m_writeQueue \in Seq(NonEmptyPackets)
  /\ \A i \in 1..Len(m_writeQueue) : Run(m_writeQueue[i], accepted)
  /\ Chained(m_writeQueue, QueueStart, BatchStart)
  /\ Len(m_sendBuffer.msgs) <= Len(accepted)
  /\ Segment(m_sendBuffer.msgs, BatchStart, accepted)

StreamInvariant ==
  /\ Agrees(wire, accepted)
  /\ \A i \in 1..Len(accepted) : accepted[i].n = i
  /\ \A t \in Threads : pc[t] \in {"clear", "notify"} => sock = "closed"
  /\ sock = "open" => OpenInvariant

(* The numbers in it are numbers, and what is written is still at the front.*)
LEMMA OpenFacts ==
  ASSUME TypeOK, OpenInvariant
  PROVE  /\ Written => OnFront
         /\ QueueStart \in Nat
         /\ BatchStart \in Nat \ {0}
         /\ Len(wire) \in Nat /\ Len(accepted) \in Nat /\ Len(m_sendBuffer.msgs) \in Nat
         /\ m_writeQueue # << >> =>
              /\ Head(m_writeQueue) = m_writeQueue[1] /\ Head(m_writeQueue) \in NonEmptyPackets
              /\ Head(m_writeQueue)[1].n = QueueStart /\ Run(Head(m_writeQueue), accepted)
<1>1. Len(wire) \in Nat /\ Len(accepted) \in Nat /\ Len(m_sendBuffer.msgs) \in Nat
  BY LenProperties DEF TypeOK, Packets
<1>2. Written => OnFront
  BY DEF Written, OnFront, IoTurn, NoWrite
<1>3. ASSUME m_writeQueue # << >>
      PROVE  /\ Head(m_writeQueue) = m_writeQueue[1] /\ Head(m_writeQueue) \in NonEmptyPackets
             /\ Head(m_writeQueue)[1].n = QueueStart /\ Run(Head(m_writeQueue), accepted)
  <2>1. /\ m_writeQueue \in Seq(NonEmptyPackets) /\ Chained(m_writeQueue, QueueStart, BatchStart)
        /\ \A i \in 1..Len(m_writeQueue) : Run(m_writeQueue[i], accepted)
    BY DEF OpenInvariant
  <2> DEFINE q == m_writeQueue
  <2>2. Head(q) = q[1] /\ Head(q) \in NonEmptyPackets /\ 1 \in 1..Len(q)
    BY <1>3, <2>1, EmptySeq, HeadTailProperties, LenProperties
  <2>3. q[1][1].n = QueueStart
    BY <1>3, <2>1 DEF Chained
  <2> QED
    BY <2>1, <2>2, <2>3
<1>4. QueueStart \in Nat
  <2>1. CASE Written
    BY <1>2, <1>3, <2>1, FirstNumber DEF OpenInvariant
  <2>2. CASE ~Written
    BY <1>1, <2>2 DEF QueueStart
  <2> QED
    BY <2>1, <2>2
<1>5. BatchStart \in Nat \ {0}
  BY <1>1 DEF BatchStart, OpenInvariant
<1> QED
  BY <1>1, <1>2, <1>3, <1>4, <1>5

(* Steps that move no message: the place of a thread or of the operation    *)
(* changes, and whoever is on the front has it in hand.                     *)
LEMMA Moves ==
  ASSUME OpenInvariant, UNCHANGED << m_writeQueue, m_sendBuffer, accepted, wire >>,
         Written' <=> Written, OnFront' => m_writeQueue # << >>,
         \A t \in {Tick, Writer} : pc'[t] = "issue" => packet'[t] = Head(m_writeQueue),
         IoTurn' => writeOp'.packet = Head(m_writeQueue)
  PROVE  OpenInvariant'
<1>1. QueueStart' = QueueStart /\ BatchStart' = BatchStart
  BY DEF QueueStart, BatchStart
<1> QED
  BY <1>1 DEF OpenInvariant

(* enqueueWrite puts the batch, or the message that goes out alone, behind  *)
(* the queue (session.cpp:41-98).                                           *)
LEMMA Enqueues ==
  ASSUME TypeOK, OpenInvariant, NEW p \in NonEmptyPackets,
         UNCHANGED << wire, writeOp, packet >>,
         pc'[Writer] = pc[Writer], pc[Tick] # "issue", pc'[Tick] # "issue",
         m_writeQueue' = Append(m_writeQueue, p),
         \A r \in NonEmptyPackets : Run(r, accepted) => Run(r, accepted'),
         Run(p, accepted'), p[1].n = BatchStart, BatchStart' = BatchStart + Len(p),
         Len(m_sendBuffer'.msgs) <= Len(accepted'),
         Segment(m_sendBuffer'.msgs, BatchStart', accepted')
  PROVE  OpenInvariant'
<1> DEFINE q == m_writeQueue
<1>1. /\ q \in Seq(NonEmptyPackets) /\ \A i \in 1..Len(q) : Run(q[i], accepted)
      /\ Chained(q, QueueStart, BatchStart)
  BY DEF OpenInvariant
<1>2. /\ Len(q) \in Nat /\ q' \in Seq(NonEmptyPackets) /\ q' # << >> /\ Len(q') = Len(q) + 1 /\ q'[Len(q) + 1] = p
      /\ \A i \in 1..Len(q) : q'[i] = q[i] /\ q[i] \in NonEmptyPackets
  BY <1>1, EmptySeq, LenProperties, AppendProperties
<1>3. q # << >> => Head(q') = Head(q)
  BY <1>1, <1>2, EmptySeq, HeadTailProperties
<1>4. (Written' <=> Written) /\ (OnFront' <=> OnFront) /\ (IoTurn' <=> IoTurn)
  BY DEF Written, OnFront, IoTurn, Tick, Writer
<1>5. OnFront => q # << >>
  BY DEF OpenInvariant
<1>6. QueueStart' = QueueStart
  BY <1>3, <1>4, <1>5, OpenFacts DEF QueueStart
<1>7. \A i \in 1..Len(q') : Run(q'[i], accepted')
  <2> SUFFICES ASSUME NEW i \in 1..Len(q) + 1 PROVE Run(q'[i], accepted')
    BY <1>2
  <2>1. CASE i = Len(q) + 1
    BY <1>2, <2>1
  <2>2. CASE i \in 1..Len(q)
    BY <1>1, <1>2, <2>2
  <2> QED
    BY <1>2, <2>1, <2>2
<1>8. Chained(q', QueueStart', BatchStart')
  <2>1. Chained(Append(q, p), QueueStart, BatchStart + Len(p))
    BY <1>1, ChainAppend, OpenFacts
  <2> HIDE DEF q
  <2> QED
    BY <1>6, <2>1 DEF q
<1>9. \A t \in {Tick, Writer} : pc'[t] = "issue" => packet'[t] = Head(q')
  <2>1. pc[Writer] = "issue" => packet[Writer] = Head(q) /\ q # << >>
    BY DEF OpenInvariant, OnFront
  <2> QED
    BY <1>3, <2>1
<1>10. IoTurn' => writeOp'.packet = Head(q')
  <2>1. IoTurn => writeOp.packet = Head(q) /\ q # << >>
    BY DEF OpenInvariant, OnFront
  <2> QED
    BY <1>3, <1>4, <2>1
<1> QED
  BY <1>2, <1>7, <1>8, <1>9, <1>10 DEF OpenInvariant

(* What each answer of addMsg makes of the batch (send_msg_buffer.cpp:25-61)*)
(* and of the message that Session::Send adds to the emptied buffer.        *)
LEMMA AddMsgMessages ==
  ASSUME NEW b \in Buffers, NEW m \in Message, (b.pos = 0) <=> (b.msgs = << >>)
  PROVE  /\ addMsgResult(b, m) = "BUFFER_ADDED" => addMsg(b, m).msgs = Append(b.msgs, m)
         /\ addMsgResult(b, m) = "BUFFER_SEND" => b.msgs = << >> /\ addMsg(b, m).msgs = << m >>
         /\ addMsgResult(b, m) = "BUFFER_SEND_ADD" => b.msgs # << >> /\ addMsg(EmptyBuffer, m).msgs = << m >>
<1>1. m.size \in Nat \ {0}
  BY SizesAssumption DEF Message
<1>2. b.pos \in Nat /\ Append(<< >>, m) = << m >>
  BY DEF Buffers
<1>3. CASE addMsgResult(b, m) = "BUFFER_ADDED"
  BY <1>3 DEF addMsg
<1>4. CASE addMsgResult(b, m) = "BUFFER_SEND"
  <2>1. b.pos = 0
    BY <1>1, <1>2, <1>4, BufferSizesAssumption DEF addMsgResult
  <2> QED
    BY <1>4, <2>1 DEF addMsg
<1>5. CASE addMsgResult(b, m) = "BUFFER_SEND_ADD"
  <2>1. b.pos # 0 /\ m.size <= NET_DATA_BUFSIZE
    BY <1>1, <1>2, <1>5, BufferSizesAssumption DEF addMsgResult
  <2>2. addMsgResult(EmptyBuffer, m) \in {"BUFFER_ADDED", "BUFFER_SEND"}
    BY <1>1, <2>1, BufferSizesAssumption DEF addMsgResult, EmptyBuffer
  <2>3. addMsg(EmptyBuffer, m).msgs = << m >>
    BY <1>2, <2>2 DEF addMsg, EmptyBuffer
  <2> QED
    BY <1>5, <2>1, <2>3
<1> QED
  BY <1>3, <1>4, <1>5

(* A message that goes out alone is a run of what is accepted with it.      *)
LEMMA LoneRun ==
  ASSUME NEW a \in Packets, NEW m \in Message, m.n = Len(a) + 1
  PROVE  /\ << m >> \in NonEmptyPackets /\ << m >>[1].n = Len(a) + 1 /\ Len(<< m >>) = 1
         /\ Run(<< m >>, Append(a, m)) /\ Segment(<< m >>, Len(a) + 1, Append(a, m))
<1>1. /\ << m >> \in NonEmptyPackets /\ << m >> # << >> /\ << m >>[1] = m /\ Len(<< m >>) = 1
  BY DEF NonEmptyPackets, Packets
<1>2. Len(a) \in Nat /\ Len(Append(a, m)) = Len(a) + 1 /\ Append(a, m)[Len(a) + 1] = m
  BY LenProperties, AppendProperties DEF Packets
<1>3. Segment(<< m >>, Len(a) + 1, Append(a, m))
  BY <1>1, <1>2 DEF Segment
<1> QED
  BY <1>1, <1>3 DEF Run

(* Send keeps the stream without a gap, whatever addMsg answers             *)
(* (session.cpp:41-72).                                                     *)
LEMMA SendStream ==
  ASSUME TypeOK, BufferFits, StreamInvariant, OpenInvariant, Send
  PROVE  OpenInvariant'
<1> DEFINE a == accepted
           b == m_sendBuffer
<1> PICK size \in Sizes :
      /\ Len(accepted) < MaxSends
      /\ SendError(size) \/ SendAdded(size) \/ SendNow(size) \/ SendThenAdd(size)
  BY DEF Send
<1> DEFINE m == NextMessage(size)
<1>1. m \in Message /\ m.n = Len(a) + 1
  BY NextMessageType DEF NextMessage
<1>2. a \in Packets /\ b \in Buffers /\ b.msgs \in Packets
  BY DEF TypeOK, Buffers
<1>3. /\ addMsgResult(b, m) = "BUFFER_ADDED" => addMsg(b, m).msgs = Append(b.msgs, m)
      /\ addMsgResult(b, m) = "BUFFER_SEND" => b.msgs = << >> /\ addMsg(b, m).msgs = << m >>
      /\ addMsgResult(b, m) = "BUFFER_SEND_ADD" => b.msgs # << >> /\ addMsg(EmptyBuffer, m).msgs = << m >>
  BY <1>1, <1>2, AddMsgMessages DEF BufferFits
<1>4. /\ Len(a) \in Nat /\ Len(b.msgs) \in Nat /\ BatchStart \in Nat \ {0} /\ Len(b.msgs) <= Len(a)
      /\ Segment(b.msgs, BatchStart, a) /\ \A i \in 1..Len(a) : a[i].n = i
  BY OpenFacts DEF OpenInvariant, StreamInvariant
<1>5. \A r \in NonEmptyPackets : Run(r, a) => Run(r, Append(a, m))
  <2> SUFFICES ASSUME NEW r \in NonEmptyPackets, Run(r, a) PROVE Run(r, Append(a, m))
    OBVIOUS
  <2>1. r[1].n \in Nat \ {0} /\ r \in Packets
    BY FirstNumber DEF NonEmptyPackets
  <2> HIDE DEF m, a
  <2> QED
    BY <1>1, <1>2, <2>1, SegmentGrows DEF Run
<1>6. Len(Append(a, m)) = Len(a) + 1 /\ Append(a, m) \in Packets
  BY <1>1, <1>2, AppendProperties DEF Packets
<1>7. CASE SendError(size)
  <2>1. UNCHANGED << m_writeQueue, m_sendBuffer, accepted, wire, writeOp, packet >> /\ pc' = [pc EXCEPT ![Tick] = "close"]
    BY <1>7 DEF SendError, Go, buffering, queueing, io
  <2>2. pc'[Writer] = pc[Writer] /\ pc'[Tick] \notin {"issue", "doWrite"}
    BY <2>1 DEF TypeOK, Tick, Writer, Threads
  <2> QED
    BY <2>1, <2>2, Moves DEF OpenInvariant, Written, OnFront, IoTurn
<1>8. CASE SendAdded(size)
  <2>1. /\ UNCHANGED << m_writeQueue, wire, writeOp, packet, pc >>
        /\ m_sendBuffer' = addMsg(b, m) /\ accepted' = Append(a, m) /\ addMsgResult(b, m) = "BUFFER_ADDED"
    BY <1>8 DEF SendAdded, queueing, io
  <2>2. m_sendBuffer'.msgs = Append(b.msgs, m) /\ Len(m_sendBuffer'.msgs) = Len(b.msgs) + 1
    BY <1>1, <1>2, <1>3, <2>1, AppendProperties DEF Packets
  <2>3. BatchStart' = BatchStart
    <3>1. Len(accepted') = Len(accepted) + 1 /\ Len(m_sendBuffer'.msgs) = Len(m_sendBuffer.msgs) + 1
      BY <1>6, <2>1, <2>2
    <3>2. \A x, y \in Nat : (x + 1) + 1 - (y + 1) = x + 1 - y
      OBVIOUS
    <3>3. Len(accepted) \in Nat /\ Len(m_sendBuffer.msgs) \in Nat
      BY <1>4
    <3>4. BatchStart' = (Len(accepted) + 1) + 1 - (Len(m_sendBuffer.msgs) + 1)
      BY <3>1, Zenon DEF BatchStart
    <3> QED
      BY <3>2, <3>3, <3>4, Zenon DEF BatchStart
  <2>4. Segment(m_sendBuffer'.msgs, BatchStart, accepted')
    <3> DEFINE s == b.msgs
    <3>1. Segment(s, Len(a) + 1 - Len(s), a) /\ BatchStart = Len(a) + 1 - Len(s)
      BY <1>4 DEF BatchStart
    <3>2. s \in Packets /\ Len(s) <= Len(a)
      BY <1>2, <1>4
    <3> HIDE DEF s, a, m
    <3>3. Segment(Append(s, m), Len(a) + 1 - Len(s), Append(a, m))
      BY <1>1, <1>2, <3>1, <3>2, SegmentAppend
    <3> QED
      BY <2>1, <2>2, <3>1, <3>3 DEF s
  <2>5. Len(m_sendBuffer'.msgs) <= Len(accepted')
    BY <1>4, <1>6, <2>1, <2>2
  <2>6. \A i \in 1..Len(m_writeQueue) : Run(m_writeQueue[i], accepted')
    BY <1>5, <2>1, LenProperties DEF OpenInvariant
  <2>7. QueueStart' = QueueStart /\ (OnFront' <=> OnFront) /\ (IoTurn' <=> IoTurn)
    BY <2>1 DEF QueueStart, Written, OnFront, IoTurn
  <2> QED
    BY <2>1, <2>3, <2>4, <2>5, <2>6, <2>7 DEF OpenInvariant
<1>9. CASE SendNow(size)
  <2>1. /\ UNCHANGED << wire, writeOp, packet >> /\ m_writeQueue' = Append(m_writeQueue, addMsg(b, m).msgs)
        /\ m_sendBuffer' = EmptyBuffer /\ accepted' = Append(a, m) /\ addMsgResult(b, m) = "BUFFER_SEND"
        /\ pc[Tick] = "hold" /\ pc'[Tick] # "issue" /\ pc'[Writer] = pc[Writer]
    BY <1>9 DEF SendNow, enqueueWrite, getSendBuffer, Go, io, TypeOK, Tick, Writer, Threads
  <2>2. m_writeQueue' = Append(m_writeQueue, << m >>) /\ b.msgs = << >> /\ m_sendBuffer'.msgs = << >> /\ Len(<< >>) = 0
    BY <1>3, <2>1 DEF EmptyBuffer
  <2>3. BatchStart = Len(a) + 1 /\ BatchStart' = Len(a) + 2
    BY <1>4, <1>6, <2>1, <2>2 DEF BatchStart
  <2>4. Segment(m_sendBuffer'.msgs, BatchStart', accepted') /\ Len(m_sendBuffer'.msgs) <= Len(accepted')
    BY <1>4, <1>6, <2>1, <2>2, <2>3 DEF Segment
  <2>5. << m >> \in NonEmptyPackets /\ << m >>[1].n = BatchStart /\ BatchStart' = BatchStart + Len(<< m >>) /\ Run(<< m >>, accepted')
    BY <1>1, <1>2, <1>4, <2>1, <2>3, LoneRun
  <2> HIDE DEF m
  <2> QED
    BY <1>5, <2>1, <2>2, <2>4, <2>5, Enqueues
<1>10. CASE SendThenAdd(size)
  <2>1. /\ UNCHANGED << wire, writeOp, packet >> /\ m_writeQueue' = Append(m_writeQueue, b.msgs)
        /\ m_sendBuffer' = addMsg(EmptyBuffer, m) /\ accepted' = Append(a, m) /\ addMsgResult(b, m) = "BUFFER_SEND_ADD"
        /\ pc[Tick] = "hold" /\ pc'[Tick] # "issue" /\ pc'[Writer] = pc[Writer]
    BY <1>10 DEF SendThenAdd, enqueueWrite, getSendBuffer, Go, io, TypeOK, Tick, Writer, Threads
  <2>2. b.msgs \in NonEmptyPackets /\ m_sendBuffer'.msgs = << m >>
    BY <1>2, <1>3, <2>1 DEF NonEmptyPackets
  <2>3. b.msgs[1].n = BatchStart /\ Run(b.msgs, a)
    BY <1>2, <1>4, <2>2, BatchIsRun
  <2>4. Len(<< m >>) = 1 /\ Segment(<< m >>, Len(a) + 1, accepted')
    BY <1>1, <1>2, <2>1, LoneRun
  <2>5. BatchStart' = Len(a) + 1 /\ BatchStart' = BatchStart + Len(b.msgs)
    BY <1>4, <1>6, <2>1, <2>2, <2>4 DEF BatchStart
  <2>6. Run(b.msgs, accepted')
    BY <1>5, <2>1, <2>2, <2>3
  <2>7. Segment(m_sendBuffer'.msgs, BatchStart', accepted') /\ Len(m_sendBuffer'.msgs) <= Len(accepted')
    BY <1>4, <1>6, <2>1, <2>2, <2>4, <2>5
  <2> HIDE DEF m
  <2> QED
    BY <1>5, <2>1, <2>2, <2>3, <2>5, <2>6, <2>7, Enqueues
<1> QED
  BY <1>7, <1>8, <1>9, <1>10

(* Every step of every thread and of the kernel keeps the stream without a  *)
(* gap while the socket is open.                                            *)
LEMMA OpenSteps ==
  ASSUME TypeOK, BufferFits, TurnInvariant, StreamInvariant, sock = "open", sock' = "open", [Next]_vars
  PROVE  OpenInvariant'
<1> DEFINE q == m_writeQueue
<1>0. /\ OpenInvariant
      /\ pc \in [Threads -> {"idle", "hold", "doWrite", "issue", "pop"} \cup CloseSteps]
      /\ packet \in [Threads -> Packets]
  BY DEF StreamInvariant, TypeOK
<1>1. /\ ~(TickTurn /\ WriterTurn) /\ ~(TickTurn /\ IoTurn) /\ ~(WriterTurn /\ IoTurn)
      /\ (writeOp.state = "none" => writeOp = NoWrite)
      /\ (pc[Tick] = "issue" => packet[Tick] = Head(q)) /\ (pc[Writer] = "issue" => packet[Writer] = Head(q))
      /\ (IoTurn => writeOp.packet = Head(q)) /\ (OnFront => q # << >>)
  BY <1>0 DEF TurnInvariant, OpenInvariant
<1> USE DEF Threads, Tick, Reader, Writer, CloseSteps, buffering, queueing, closing, io
<1>2. CASE Send
  BY <1>0, <1>2, SendStream
<1>3. CASE Flush
  <2> DEFINE p == m_sendBuffer.msgs
  <2>1. /\ UNCHANGED << wire, writeOp, packet, accepted >> /\ m_writeQueue' = Append(m_writeQueue, p)
        /\ m_sendBuffer' = EmptyBuffer /\ m_sendBuffer.pos # 0
        /\ pc[Tick] = "idle" /\ pc'[Tick] # "issue" /\ pc'[Writer] = pc[Writer]
    BY <1>0, <1>3 DEF Flush, enqueueWrite, getSendBuffer, HasBatch, Go
  <2>2. p \in NonEmptyPackets /\ accepted \in Packets
    BY <2>1 DEF BufferFits, NonEmptyPackets, TypeOK
  <2>3. BatchStart \in Nat \ {0} /\ Segment(p, BatchStart, accepted) /\ \A i \in 1..Len(accepted) : accepted[i].n = i
    BY <1>0, OpenFacts DEF OpenInvariant, StreamInvariant
  <2>4. p[1].n = BatchStart /\ Run(p, accepted)
    BY <2>2, <2>3, BatchIsRun
  <2>5. m_sendBuffer'.msgs = << >> /\ Len(<< >>) = 0
    BY <2>1 DEF EmptyBuffer
  <2>6. Len(accepted) \in Nat /\ Len(p) \in Nat
    BY <2>2, FirstNumber, LenProperties DEF Packets
  <2>7. BatchStart' = Len(accepted) + 1 /\ BatchStart' = BatchStart + Len(p)
    BY <2>1, <2>5, <2>6 DEF BatchStart
  <2>8. Segment(m_sendBuffer'.msgs, BatchStart', accepted') /\ Len(m_sendBuffer'.msgs) <= Len(accepted')
    BY <2>1, <2>5, <2>6, <2>7 DEF Segment
  <2> HIDE DEF p
  <2> QED
    BY <1>0, <2>1, <2>2, <2>4, <2>7, <2>8, Enqueues
<1>4. CASE PopFront
  <2>1. pc[Writer] = "pop" /\ q # << >> /\ Written /\ ~IoTurn /\ pc[Tick] # "issue"
    BY <1>1, <1>4 DEF PopFront, Go, OnFront, Written, TickTurn, WriterTurn
  <2>2. /\ q' = Tail(q) /\ UNCHANGED << m_sendBuffer, accepted, wire, writeOp, packet >>
        /\ pc'[Writer] = "doWrite" /\ pc'[Tick] = pc[Tick]
    BY <1>0, <1>4, <2>1 DEF PopFront, Go
  <2>3. ~Written' /\ ~OnFront' /\ ~IoTurn'
    BY <2>1, <2>2 DEF Written, OnFront, IoTurn, NoWrite
  <2>4. /\ q \in Seq(NonEmptyPackets) /\ Chained(q, QueueStart, BatchStart)
        /\ \A i \in 1..Len(q) : Run(q[i], accepted)
    BY <1>0 DEF OpenInvariant
  <2>5. QueueStart \in Nat /\ BatchStart \in Nat /\ Head(q) \in NonEmptyPackets /\ Len(wire) \in Nat
    BY <1>0, <2>1, OpenFacts
  <2>6. Chained(Tail(q), QueueStart + Len(Head(q)), BatchStart)
    BY <2>1, <2>4, <2>5, ChainTail
  <2>7. QueueStart' = QueueStart + Len(Head(q)) /\ BatchStart' = BatchStart
    BY <2>1, <2>2, <2>3, <2>5, FirstNumber DEF QueueStart, BatchStart
  <2>8. /\ Tail(q) \in Seq(NonEmptyPackets) /\ \A i \in 1..Len(Tail(q)) : i + 1 \in 1..Len(q) /\ Tail(q)[i] = q[i + 1]
    BY <2>1, <2>4, HeadTailProperties, LenProperties, EmptySeq
  <2>9. \A i \in 1..Len(q') : Run(q'[i], accepted')
    BY <2>2, <2>4, <2>8
  <2> QED
    BY <1>0, <2>1, <2>2, <2>3, <2>6, <2>7, <2>8, <2>9 DEF OpenInvariant, OnFront
<1>5. CASE IoWriteDone
  <2>1. /\ writeOp.state = "pending" /\ writeOp' = [writeOp EXCEPT !.state = "done"] /\ wire' = wire \o writeOp.packet
        /\ UNCHANGED << m_writeQueue, m_sendBuffer, accepted, packet, pc >>
    BY <1>5 DEF IoWriteDone
  <2>2. IoTurn /\ q # << >> /\ writeOp.packet = Head(q) /\ ~Written
    BY <1>1, <2>1 DEF IoTurn, OnFront, Written, WriterTurn, NoWrite
  <2>3. writeOp'.state = "done" /\ writeOp'.packet = Head(q) /\ Written' /\ IoTurn'
    BY <2>1, <2>2 DEF TypeOK, Written, IoTurn, NoWrite
  <2>4. Head(q) \in NonEmptyPackets /\ Head(q) \in Packets /\ wire \in Packets /\ Len(wire) \in Nat
    BY <1>0, <2>2, OpenFacts DEF NonEmptyPackets, TypeOK
  <2>5. Len(wire') = Len(wire) + Len(Head(q)) /\ Len(Head(q)) \in Nat
    BY <2>1, <2>2, <2>4, ConcatProperties, FirstNumber DEF Packets
  <2>6. QueueStart' = QueueStart /\ BatchStart' = BatchStart
    BY <2>1, <2>2, <2>3, <2>4, <2>5 DEF QueueStart, BatchStart
  <2> QED
    BY <1>0, <2>1, <2>2, <2>3, <2>6 DEF OpenInvariant
<1>6. ASSUME NEW t \in {Tick, Writer}, doWrite(t) PROVE OpenInvariant'
  <2>1. /\ q # << >> /\ pc[t] = "doWrite" /\ pc' = [pc EXCEPT ![t] = "issue"] /\ packet' = [packet EXCEPT ![t] = Head(q)]
        /\ UNCHANGED << m_writeQueue, m_sendBuffer, accepted, wire, writeOp >>
    BY <1>6 DEF doWrite, Go
  <2>2. /\ pc'[t] = "issue" /\ packet'[t] = Head(q)
        /\ \A u \in {Tick, Writer} : u # t => pc'[u] = pc[u] /\ packet'[u] = packet[u]
    BY <1>0, <2>1
  <2>3. Written' <=> Written
    BY <2>1, <2>2 DEF Written
  <2>4. \A u \in {Tick, Writer} : pc'[u] = "issue" => packet'[u] = Head(q)
    BY <1>1, <2>2
  <2>5. IoTurn' => writeOp'.packet = Head(q)
    BY <1>1, <2>1 DEF IoTurn
  <2> QED
    BY <1>0, <2>1, <2>3, <2>4, <2>5, Moves
<1>7. ASSUME NEW t \in {Tick, Writer}, async_write(t) PROVE OpenInvariant'
  <2>1. /\ pc[t] = "issue" /\ pc'[t] \in {"hold", "idle"} /\ \A u \in {Tick, Writer} : u # t => pc'[u] = pc[u]
        /\ writeOp' = [state |-> "pending", packet |-> packet[t]]
        /\ UNCHANGED << m_writeQueue, m_sendBuffer, accepted, wire, packet >>
    BY <1>0, <1>7 DEF async_write, GoBack, Go
  <2>2. q # << >> /\ packet[t] = Head(q) /\ ~Written
    BY <1>1, <2>1 DEF OnFront, Written, IoTurn, TickTurn, WriterTurn, NoWrite
  <2>3. ~Written' /\ writeOp'.packet = Head(q)
    BY <1>1, <2>1, <2>2 DEF Written
  <2>4. \A u \in {Tick, Writer} : pc'[u] = "issue" => packet'[u] = Head(q)
    BY <1>1, <2>1
  <2> QED
    BY <1>0, <2>1, <2>2, <2>3, <2>4, Moves
<1>8. CASE WriteFailed \/ WriteDone
  <2>1. /\ pc[Writer] = "idle" /\ writeOp' = NoWrite /\ IoTurn
        /\ pc'[Writer] = (IF WriteDone THEN "pop" ELSE "close") /\ pc'[Tick] = pc[Tick]
        /\ UNCHANGED << m_writeQueue, m_sendBuffer, accepted, wire, packet >>
    BY <1>0, <1>8 DEF WriteFailed, WriteDone, Go, IoTurn, NoWrite
  <2>2. WriteDone <=> writeOp.state = "done"
    BY <1>8 DEF WriteFailed, WriteDone
  <2>3. (Written' <=> Written) /\ ~IoTurn' /\ q # << >>
    BY <1>1, <2>1, <2>2 DEF Written, IoTurn, NoWrite, OnFront
  <2>4. \A u \in {Tick, Writer} : pc'[u] = "issue" => packet'[u] = Head(q)
    BY <1>1, <2>1
  <2> QED
    BY <1>0, <2>1, <2>3, <2>4, Moves
<1>9. CASE IoWriteFails
  <2>1. /\ writeOp.state = "pending" /\ writeOp' = [writeOp EXCEPT !.state = "failed"]
        /\ UNCHANGED << m_writeQueue, m_sendBuffer, accepted, wire, packet, pc >>
    BY <1>9 DEF IoWriteFails
  <2>2. writeOp'.state = "failed" /\ writeOp'.packet = writeOp.packet /\ IoTurn
    BY <2>1 DEF TypeOK, IoTurn, NoWrite
  <2>3. (Written' <=> Written) /\ q # << >> /\ writeOp'.packet = Head(q)
    BY <1>1, <2>1, <2>2 DEF Written, OnFront
  <2> QED
    BY <1>0, <1>1, <2>1, <2>3, Moves
<1>10. CASE \/ Lookup \/ Return \/ DispatchClose \/ ReadFailed \/ ReadBadFrame \/ ReadMessages
            \/ IoReadData \/ IoReadFails \/ UNCHANGED vars
            \/ \E t \in Threads : doWriteNothing(t) \/ CloseAgain(t) \/ CloseTest(t) \/ CloseMark(t)
                                   \/ CloseSocket(t) \/ CloseNotify(t)
  <2>1. UNCHANGED << m_writeQueue, m_sendBuffer, accepted, wire, writeOp, packet >>
    BY <1>10 DEF Lookup, Return, DispatchClose, ReadFailed, ReadBadFrame, ReadMessages, IoReadData, IoReadFails,
       vars, doWriteNothing, CloseAgain, CloseTest, CloseMark, CloseSocket, CloseNotify
  <2>2. \A u \in {Tick, Writer} : pc'[u] = pc[u] \/ (pc[u] # "pop" /\ pc'[u] \notin {"issue", "pop"})
    BY <1>0, <1>10 DEF Lookup, Return, DispatchClose, ReadFailed, ReadBadFrame, ReadMessages, IoReadData, IoReadFails,
       vars, doWriteNothing, CloseAgain, CloseTest, CloseMark, CloseSocket, CloseNotify, Go, GoBack
  <2>3. Written' <=> Written
    BY <2>1, <2>2 DEF Written
  <2>4. OnFront' => q # << >>
    BY <1>1, <2>1, <2>2 DEF OnFront, IoTurn
  <2>5. /\ \A u \in {Tick, Writer} : pc'[u] = "issue" => packet'[u] = Head(q)
        /\ IoTurn' => writeOp'.packet = Head(q)
    BY <1>1, <2>1, <2>2 DEF IoTurn
  <2> QED
    BY <1>0, <2>1, <2>3, <2>4, <2>5, Moves
<1>11. ASSUME NEW t \in Threads, CloseClear(t) PROVE FALSE
  BY <1>11 DEF CloseClear, Go, StreamInvariant
<1> QED
  BY <1>2, <1>3, <1>4, <1>5, <1>6, <1>7, <1>8, <1>9, <1>10, <1>11
  DEF Next, TickNext, ReaderNext, WriterNext, IoNext, Gone, Close

(* The invariant of the stream: written, queued and batched messages are    *)
(* the accepted ones, in order, without a gap (session.cpp:41-126).         *)
THEOREM StreamInvariantHolds == Spec => []StreamInvariant
<1>1. Init => StreamInvariant
  <2> SUFFICES ASSUME Init PROVE StreamInvariant
    OBVIOUS
  <2>1. wire = << >> /\ accepted = << >> /\ m_writeQueue = << >> /\ m_sendBuffer.msgs = << >> /\ Len(<< >>) = 0
    BY DEF Init, EmptyBuffer
  <2>2. ~Written /\ ~OnFront /\ ~IoTurn /\ \A t \in Threads : pc[t] = "idle"
    BY DEF Init, Written, OnFront, IoTurn, NoWrite, Threads, Tick, Writer, Reader
  <2>3. QueueStart = 1 /\ BatchStart = 1
    BY <2>1, <2>2 DEF QueueStart, BatchStart
  <2>4. << >> \in Seq(NonEmptyPackets)
    OBVIOUS
  <2>5. OpenInvariant
    BY <2>1, <2>2, <2>3, <2>4 DEF OpenInvariant, Chained, Segment, Threads
  <2> QED
    BY <2>1, <2>2, <2>5 DEF StreamInvariant, Agrees
<1>2. TypeOK /\ BufferFits /\ TurnInvariant /\ StreamInvariant /\ [Next]_vars => StreamInvariant'
  <2> SUFFICES ASSUME TypeOK, BufferFits, TurnInvariant, StreamInvariant, [Next]_vars PROVE StreamInvariant'
    OBVIOUS
  <2> USE DEF buffering, queueing, closing, io
  <2>0. accepted \in Packets /\ wire \in Packets /\ pc \in [Threads -> {"idle", "hold", "doWrite", "issue", "pop"} \cup CloseSteps]
    BY DEF TypeOK
  <2>1. sock \in {"open", "closed"} /\ (sock = "closed" => sock' = "closed") /\ sock' \in {"open", "closed"}
    BY DEF TypeOK, Next, TickNext, ReaderNext, WriterNext, IoNext, Gone, vars, Close, Lookup, Return, Send, SendError, SendAdded,
       SendNow, SendThenAdd, DispatchClose, Flush, doWrite, doWriteNothing, async_write, ReadFailed, ReadBadFrame,
       ReadMessages, WriteFailed, WriteDone, PopFront, CloseAgain, CloseTest, CloseMark, CloseSocket, CloseClear,
       CloseNotify, IoReadData, IoReadFails, IoWriteDone, IoWriteFails
  <2>2. sock' = "open" => OpenInvariant'
    BY <2>1, OpenSteps
  <2>3. \A t \in Threads : pc'[t] \in {"clear", "notify"} => sock' = "closed"
    <3> SUFFICES ASSUME NEW t \in Threads, pc'[t] \in {"clear", "notify"} PROVE sock' = "closed"
      OBVIOUS
    <3>1. pc[t] \in {"clear", "notify"} \/ CloseSocket(t)
      BY <2>0 DEF Next, TickNext, ReaderNext, WriterNext, IoNext, Gone, vars, Close, Lookup, Return, Send, SendError, SendAdded,
         SendNow, SendThenAdd, enqueueWrite, DispatchClose, Flush, doWrite, doWriteNothing, async_write, ReadFailed, ReadBadFrame,
         ReadMessages, WriteFailed, WriteDone, PopFront, CloseAgain, CloseTest, CloseMark, CloseSocket, CloseClear,
         CloseNotify, IoReadData, IoReadFails, IoWriteDone, IoWriteFails, Go, GoBack, Threads, Tick, Reader, Writer
    <3> QED
      BY <2>1, <3>1 DEF StreamInvariant, CloseSocket
  <2>4. CASE \E size \in Sizes : Send /\ accepted' = Append(accepted, NextMessage(size)) /\ Len(accepted) < MaxSends
    <3>1. PICK size \in Sizes : Send /\ accepted' = Append(accepted, NextMessage(size)) /\ Len(accepted) < MaxSends
      BY <2>4
    <3> DEFINE m == NextMessage(size)
    <3>2. m \in Message /\ m.n = Len(accepted) + 1 /\ wire' = wire
      BY <3>1, NextMessageType DEF NextMessage, Send, SendError, SendAdded, SendNow, SendThenAdd
    <3> HIDE DEF m
    <3>3. Agrees(wire', accepted')
      BY <2>0, <3>1, <3>2, AgreesAppend DEF StreamInvariant, Packets, m
    <3>4. /\ Len(accepted) \in Nat /\ Len(accepted') = Len(accepted) + 1 /\ accepted'[Len(accepted) + 1] = m
          /\ \A i \in 1..Len(accepted) : accepted'[i] = accepted[i]
      BY <2>0, <3>1, <3>2, AppendProperties, LenProperties DEF Packets, m
    <3>5. \A i \in 1..Len(accepted') : accepted'[i].n = i
      BY <3>2, <3>4 DEF StreamInvariant
    <3> QED
      BY <2>2, <2>3, <3>3, <3>5 DEF StreamInvariant
  <2>5. CASE IoWriteDone
    <3> DEFINE p == Head(m_writeQueue)
    <3>1. /\ sock = "open" /\ writeOp.state = "pending" /\ wire' = wire \o writeOp.packet
          /\ UNCHANGED << accepted, pc >>
      BY <2>5 DEF IoWriteDone
    <3>2. OpenInvariant /\ IoTurn /\ ~Written
      BY <3>1 DEF StreamInvariant, IoTurn, NoWrite, Written, TurnInvariant, WriterTurn
    <3>3. m_writeQueue # << >> /\ writeOp.packet = p
      BY <3>2 DEF OpenInvariant, OnFront
    <3>4. p \in NonEmptyPackets /\ p[1].n = Len(wire) + 1 /\ Run(p, accepted)
      BY <3>2, <3>3, OpenFacts DEF QueueStart
    <3> HIDE DEF p
    <3>5. Agrees(wire \o p, accepted)
      BY <2>0, <3>4, DeliverRun DEF StreamInvariant
    <3> QED
      BY <2>2, <2>3, <3>1, <3>3, <3>5 DEF StreamInvariant
  <2>6. CASE UNCHANGED << accepted, wire >>
    BY <2>2, <2>3, <2>6 DEF StreamInvariant
  <2> QED
    BY <2>4, <2>5, <2>6 DEF Next, TickNext, ReaderNext, WriterNext, IoNext, Gone, vars, Close, Lookup, Return, Send,
       SendError, SendAdded, SendNow, SendThenAdd, DispatchClose, Flush, doWrite, doWriteNothing, async_write,
       ReadFailed, ReadBadFrame, ReadMessages, WriteFailed, WriteDone, PopFront, CloseAgain, CloseTest, CloseMark,
       CloseSocket, CloseClear, CloseNotify, IoReadData, IoReadFails, IoWriteFails
<1> QED
  BY <1>1, <1>2, TypeCorrect, BufferFitsCorrect, TurnInvariantHolds, PTL DEF Spec

(* Until a thread marks the session closed, the socket is open and nobody   *)
(* is past the mark in Close() (session.cpp:128-141).                       *)
OpenUntilMarked ==
  ~m_closed => sock = "open" /\ \A t \in Threads : pc[t] \notin {"shutdown", "clear", "notify"}

(* The mark comes first: only the thread that set m_closed goes on to close *)
(* the socket and clear the queue (session.cpp:128-141).                    *)
THEOREM OpenUntilMarkedCorrect == Spec => []OpenUntilMarked
<1>1. Init => OpenUntilMarked
  BY DEF Init, OpenUntilMarked, Threads, Tick, Reader, Writer
<1>2. TypeOK /\ OpenUntilMarked /\ [Next]_vars => OpenUntilMarked'
  <2> SUFFICES ASSUME TypeOK, OpenUntilMarked, [Next]_vars, ~m_closed'
               PROVE  sock' = "open" /\ \A t \in Threads : pc'[t] \notin {"shutdown", "clear", "notify"}
    BY DEF OpenUntilMarked
  <2> USE DEF buffering, queueing, closing, io
  <2>1. pc \in [Threads -> {"idle", "hold", "doWrite", "issue", "pop"} \cup CloseSteps]
    BY DEF TypeOK
  <2>2. ~m_closed /\ \A t \in Threads : ~CloseMark(t)
    BY DEF Next, TickNext, ReaderNext, WriterNext, IoNext, Gone, vars, Close, Lookup, Return, Send, SendError, SendAdded,
       SendNow, SendThenAdd, DispatchClose, Flush, doWrite, doWriteNothing, async_write, ReadFailed, ReadBadFrame,
       ReadMessages, WriteFailed, WriteDone, PopFront, CloseAgain, CloseTest, CloseMark, CloseSocket, CloseClear,
       CloseNotify, IoReadData, IoReadFails, IoWriteDone, IoWriteFails
  <2>3. sock = "open" /\ \A t \in Threads : pc[t] \notin {"shutdown", "clear", "notify"}
    BY <2>2 DEF OpenUntilMarked
  <2>4. \A t \in Threads : ~CloseSocket(t) /\ ~CloseClear(t) /\ ~CloseNotify(t) /\ ~CloseMark(t)
    BY <2>2, <2>3 DEF CloseSocket, CloseClear, CloseNotify, Go
  <2>5. sock' = "open"
    BY <2>3, <2>4 DEF Next, TickNext, ReaderNext, WriterNext, IoNext, Gone, vars, Close, Lookup, Return, Send, SendError,
       SendAdded, SendNow, SendThenAdd, DispatchClose, Flush, doWrite, doWriteNothing, async_write, ReadFailed,
       ReadBadFrame, ReadMessages, WriteFailed, WriteDone, PopFront, CloseAgain, CloseTest, CloseMark, IoReadData,
       IoReadFails, IoWriteDone, IoWriteFails, Threads
  <2>6. ASSUME NEW t \in Threads PROVE pc'[t] \notin {"shutdown", "clear", "notify"}
    BY <2>1, <2>3, <2>4 DEF Next, TickNext, ReaderNext, WriterNext, IoNext, Gone, vars, Close, Lookup, Return, Send, SendError,
       SendAdded, SendNow, SendThenAdd, enqueueWrite, DispatchClose, Flush, doWrite, doWriteNothing, async_write, ReadFailed,
       ReadBadFrame, ReadMessages, WriteFailed, WriteDone, PopFront, CloseAgain, CloseTest, IoReadData, IoReadFails,
       IoWriteDone, IoWriteFails, Go, GoBack, Threads, Tick, Reader, Writer
  <2> QED
    BY <2>5, <2>6
<1> QED
  BY <1>1, <1>2, TypeCorrect, PTL DEF Spec

(* Until the session is closed every accepted message is on the wire, in    *)
(* the queue or in the batch, exactly once and in order                     *)
(* (session.cpp:41-126): the three are adjacent parts of what was accepted. *)
THEOREM NothingLostCorrect == Spec => []NothingLost
<1>1. TypeOK /\ OpenUntilMarked /\ StreamInvariant => NothingLost
  <2> SUFFICES ASSUME TypeOK, OpenUntilMarked, StreamInvariant, ~m_closed
               PROVE  wire \o FlattenSeq(Unsent) \o m_sendBuffer.msgs = accepted
    BY DEF NothingLost
  <2> DEFINE q == m_writeQueue
             u == Unsent
             W == Len(wire)
             B == BatchStart
  <2>1. OpenInvariant /\ Agrees(wire, accepted)
    BY DEF OpenUntilMarked, StreamInvariant
  <2>2. /\ wire \in Seq(Message) /\ accepted \in Seq(Message) /\ m_sendBuffer.msgs \in Seq(Message)
        /\ W \in Nat /\ Len(accepted) \in Nat /\ B \in Nat \ {0} /\ QueueStart \in Nat /\ Len(m_sendBuffer.msgs) \in Nat
        /\ B = Len(accepted) + 1 - Len(m_sendBuffer.msgs)
    BY <2>1, OpenFacts DEF TypeOK, Packets, BatchStart
  <2>3. /\ q \in Seq(NonEmptyPackets) /\ Chained(q, QueueStart, B)
        /\ \A i \in 1..Len(q) : Run(q[i], accepted)
        /\ Segment(m_sendBuffer.msgs, B, accepted)
    BY <2>1 DEF OpenInvariant
  <2>4. u \in Seq(NonEmptyPackets) /\ Chained(u, W + 1, B) /\ \A i \in 1..Len(u) : Run(u[i], accepted)
    <3>1. CASE Written
      <4>1. q # << >> /\ u = Tail(q) /\ QueueStart = W + 1 - Len(Head(q))
        BY <2>1, <3>1, OpenFacts DEF OpenInvariant, Unsent, QueueStart, Written
      <4>2. Head(q) \in NonEmptyPackets
        BY <2>1, <4>1, OpenFacts
      <4>3. Len(Head(q)) \in Nat /\ QueueStart + Len(Head(q)) = W + 1
        BY <2>2, <4>1, <4>2, FirstNumber
      <4>4. Chained(Tail(q), QueueStart + Len(Head(q)), B)
        BY <2>2, <2>3, <4>1, ChainTail
      <4>5. /\ Tail(q) \in Seq(NonEmptyPackets) /\ Len(Tail(q)) = Len(q) - 1 /\ Len(q) \in Nat
            /\ \A i \in 1..Len(Tail(q)) : Tail(q)[i] = q[i + 1] /\ i + 1 \in 1..Len(q)
        BY <2>3, <4>1, HeadTailProperties, LenProperties
      <4>6. \A i \in 1..Len(Tail(q)) : Run(Tail(q)[i], accepted)
        BY <2>3, <4>5
      <4> QED
        BY <4>1, <4>3, <4>4, <4>5, <4>6
    <3>2. CASE ~Written
      <4>1. u = q /\ QueueStart = W + 1
        BY <3>2 DEF Unsent, QueueStart, Written
      <4> QED
        BY <2>3, <4>1
    <3> QED
      BY <3>1, <3>2
  <2>5. wire \in Packets /\ m_sendBuffer.msgs \in Packets /\ accepted \in Packets
    BY <2>2 DEF Packets
  <2> DEFINE p == m_sendBuffer.msgs
             k == W + 1
  <2>6. p \in Packets /\ B \in Nat \ {0} /\ B = Len(accepted) + 1 - Len(p)
    BY <2>2, <2>5
  <2>7. Chained(u, k, B) /\ Segment(p, B, accepted) /\ Agrees(wire, accepted)
    BY <2>1, <2>3, <2>4
  <2>8. k \in Nat \ {0} /\ k = Len(wire) + 1
    BY <2>2
  <2>9. u \in Seq(NonEmptyPackets) /\ \A i \in 1..Len(u) : Run(u[i], accepted)
    BY <2>4
  <2> HIDE DEF p, k, u, B
  <2>10. wire \o FlattenSeq(u) \o p = accepted
    BY <2>5, <2>6, <2>7, <2>8, <2>9, AdjacentParts
  <2> QED
    BY <2>10 DEF u, p
<1> QED
  BY <1>1, TypeCorrect, OpenUntilMarkedCorrect, StreamInvariantHolds, PTL

(* Session implements the FIFO channel, but for its liveness: an accepted   *)
(* message is a Send of the channel, a write that completes a Deliver of    *)
(* one or more, close() a Break, and no other step shows                    *)
(* (session.cpp:41-141).                                                    *)
THEOREM WritesInOrderCorrect == Spec => WritesInOrder
<1> USE DEF Channel!Init, Channel!Next, Channel!vars, Channel!Send, Channel!Deliver, Channel!Break
<1>1. Init => Channel!Init
  BY DEF Init
<1>2. TypeOK /\ TypeOK' /\ TurnInvariant /\ StreamInvariant /\ StreamInvariant' /\ [Next]_vars => [Channel!Next]_(Channel!vars)
  <2> SUFFICES ASSUME TypeOK, TypeOK', TurnInvariant, StreamInvariant, StreamInvariant', [Next]_vars
               PROVE  [Channel!Next]_(Channel!vars)
    OBVIOUS
  <2> USE DEF buffering, queueing, closing, io
  <2>1. CASE \E size \in Sizes : Send /\ accepted' = Append(accepted, NextMessage(size)) /\ Len(accepted) < MaxSends
    <3>1. PICK size \in Sizes : Send /\ accepted' = Append(accepted, NextMessage(size)) /\ Len(accepted) < MaxSends
      BY <2>1
    <3>2. NextMessage(size) \in Message /\ wire' = wire /\ sock' = sock
      BY <3>1, NextMessageType DEF Send, SendError, SendAdded, SendNow, SendThenAdd
    <3> QED
      BY <3>1, <3>2
  <2>2. CASE IoWriteDone
    <3> DEFINE p == Head(m_writeQueue)
    <3>1. /\ sock = "open" /\ sock' = sock /\ writeOp.state = "pending" /\ wire' = wire \o writeOp.packet
          /\ accepted' = accepted
      BY <2>2 DEF IoWriteDone
    <3>2. OpenInvariant /\ IoTurn /\ ~Written
      BY <3>1 DEF StreamInvariant, IoTurn, NoWrite, Written, TurnInvariant, WriterTurn
    <3>3. m_writeQueue # << >> /\ writeOp.packet = p
      BY <3>2 DEF OpenInvariant, OnFront
    <3>4. p \in NonEmptyPackets /\ p[1].n = Len(wire) + 1 /\ Run(p, accepted)
      BY <3>2, <3>3, OpenFacts DEF QueueStart
    <3>5. wire \in Packets /\ accepted \in Packets /\ Len(wire) \in Nat /\ Len(accepted) \in Nat
      BY LenProperties DEF TypeOK, Packets
    <3> HIDE DEF p
    <3>6. /\ Agrees(wire \o p, accepted) /\ Len(wire \o p) > Len(wire) /\ wire \o p \in Packets
          /\ Len(wire \o p) \in Nat
      BY <3>4, <3>5, DeliverRun, LenProperties DEF StreamInvariant, Packets
    <3>7. wire \o p = SubSeq(accepted, 1, Len(wire \o p))
      BY <3>5, <3>6, AgreesIsBeginning DEF Packets
    <3>8. Len(wire \o p) \in Len(wire) + 1 .. Len(accepted)
      BY <3>5, <3>6 DEF Agrees
    <3>9. Channel!Deliver
      BY <3>1, <3>3, <3>7, <3>8
    <3> QED
      BY <3>9
  <2>3. CASE UNCHANGED << accepted, wire >> /\ (sock' = sock \/ sock' = "closed")
    BY <2>3
  <2> QED
    BY <2>1, <2>2, <2>3 DEF Next, TickNext, ReaderNext, WriterNext, IoNext, Gone, vars, Close, Lookup, Return, Send,
       SendError, SendAdded, SendNow, SendThenAdd, DispatchClose, Flush, doWrite, doWriteNothing, async_write,
       ReadFailed, ReadBadFrame, ReadMessages, WriteFailed, WriteDone, PopFront, CloseAgain, CloseTest, CloseMark,
       CloseSocket, CloseClear, CloseNotify, IoReadData, IoReadFails, IoWriteFails
<1> QED
  BY <1>1, <1>2, TypeCorrect, TurnInvariantHolds, StreamInvariantHolds, PTL DEF Spec, WritesInOrder
=============================================================================
