------------------------------ MODULE Session ------------------------------
(***************************************************************************)
(* One connected client, net/session.{h,cpp}, with the SendMsgBuffer it    *)
(* owns and the three threads of control that enter it:                    *)
(*                                                                         *)
(*   Tick    the server's update tick.  dispatch() looks the session up in *)
(*           m_sessions and may Send() on it and Close() it; the end of    *)
(*           OnUpdate() Flush()es every session while holding m_sessMx.    *)
(*   Reader  the completion handler of the one outstanding async_read_some.*)
(*   Writer  the completion handler of the outstanding async_write.        *)
(*                                                                         *)
(* The io_context runs the three on any of its workers at the same time:   *)
(* only m_writeMx and m_sessMx order them.  A step is what one thread does *)
(* up to the next access to state another one shares.  The kernel's side   *)
(* of the socket (an operation completes, fails, is aborted by close) is   *)
(* modelled by the actions named Io...                                     *)
(***************************************************************************)
EXTENDS SendMsgBuffer, FiniteSets, SequencesExt

CONSTANTS
  Sizes,      (* Sizes of the messages the server sends.             *)
  MaxReplies, (* Most messages one dispatch() sends on a session.    *)
  MaxSends    (* Bound: number of messages accepted by Send.         *)

ASSUME SizesAssumption ==
  /\ Sizes \subseteq Nat \ {0}
  /\ MaxReplies \in Nat
  /\ MaxSends \in Nat

Tick    == "tick"
Reader  == "reader"
Writer  == "writer"
Threads == {Tick, Reader, Writer}

VARIABLES
  m_sendBuffer,       (* batch being assembled (used by Tick only)            *)
  m_writeQueue,       (* packets waiting for the socket, front in flight      *)
  m_writeInProgress,
  m_closed,
  sock,               (* "open" | "closed": m_sock                            *)
  readOp,             (* the outstanding read: "pending" | "data" | "error"   *)
                      (*   (completion queued) | "none"                       *)
  writeOp,            (* the outstanding write, with the packet it carries    *)
  pc,                 (* where each thread is                                 *)
  packet,             (* doWrite's local copy of the front, per thread        *)
  repliesLeft,        (* messages the current dispatch() may still send      *)
  m_sessMx,           (* TRUE while OnUpdate's flush loop holds m_sessMx      *)
  registered,         (* the server's m_sessions still has this session       *)
  onCloseCalls,       (* how often m_onClose was called                       *)
  accepted,           (* history: messages Send put in the buffer             *)
  wire,               (* history: messages written to the socket              *)
  poppedEmpty         (* pop_front ran on an empty deque: undefined behaviour *)

buffering == << m_sendBuffer, accepted >>
queueing  == << m_writeQueue, m_writeInProgress, packet >>
closing   == << m_closed, registered, onCloseCalls >>
io        == << sock, readOp, writeOp, wire >>
vars == << buffering, queueing, closing, io, pc, repliesLeft, m_sessMx, poppedEmpty >>

Message  == [n : 1..MaxSends, size : Sizes]
Packets  == Seq(Message)
NoWrite  == [state |-> "none", packet |-> << >>]
CloseSteps == {"close", "mark", "shutdown", "clear", "notify"}

TypeOK ==
  /\ m_sendBuffer \in [msgs : Packets, pos : Nat]
  /\ m_writeQueue \in Seq(Packets)
  /\ m_writeInProgress \in BOOLEAN
  /\ m_closed \in BOOLEAN
  /\ sock \in {"open", "closed"}
  /\ readOp \in {"none", "pending", "data", "error"}
  /\ writeOp \in [state : {"none", "pending", "done", "failed"}, packet : Packets]
  /\ pc \in [Threads -> {"idle", "hold", "doWrite", "issue", "pop"} \cup CloseSteps]
  /\ packet \in [Threads -> Packets]
  /\ repliesLeft \in 0..MaxReplies
  /\ m_sessMx \in BOOLEAN
  /\ registered \in BOOLEAN
  /\ onCloseCalls \in Nat
  /\ accepted \in Packets
  /\ wire \in Packets
  /\ poppedEmpty \in BOOLEAN

(* A session that OnAccept has just stored in m_sessions and started.       *)
Init ==
  /\ m_sendBuffer = EmptyBuffer
  /\ m_writeQueue = << >>
  /\ m_writeInProgress = FALSE
  /\ m_closed = FALSE
  /\ sock = "open"
  /\ readOp = "pending"
  /\ writeOp = NoWrite
  /\ pc = [t \in Threads |-> "idle"]
  /\ packet = [t \in Threads |-> << >>]
  /\ repliesLeft = 0
  /\ m_sessMx = FALSE
  /\ registered = TRUE
  /\ onCloseCalls = 0
  /\ accepted = << >>
  /\ wire = << >>
  /\ poppedEmpty = FALSE

-----------------------------------------------------------------------------
Go(t, from, to) ==
  /\ pc[t] = from
  /\ pc' = [pc EXCEPT ![t] = to]

(* Where a thread continues once Send, Flush, doWrite or Close returns: the *)
(* tick goes on with its dispatch, or leaves the flush loop and m_sessMx    *)
(* with it; a completion handler ends.                                      *)
GoBack(t, from) ==
  /\ Go(t, from, IF t = Tick /\ ~m_sessMx THEN "hold" ELSE "idle")
  /\ m_sessMx' = (m_sessMx /\ t # Tick)

(* Faulty variants, named Bad..., are what a plausible bug would make of    *)
(* the definition that follows them; no specification uses them.            *)
BadEnqueueAlwaysWrites(p, from, back) ==
  /\ m_writeQueue' = Append(m_writeQueue, p)
  /\ m_writeInProgress' = TRUE
  /\ Go(Tick, from, "doWrite")

(* enqueueWrite, called by the tick: queue the packet, and go on to doWrite *)
(* only if no write is in progress.                                         *)
enqueueWrite(p, from, back) ==
  /\ m_writeQueue' = Append(m_writeQueue, p)
  /\ m_writeInProgress' = TRUE
  /\ Go(Tick, from, IF m_writeInProgress THEN back ELSE "doWrite")

-----------------------------------------------------------------------------
(* The tick.                                                                *)

(* dispatch() resolves the sender of a message; it keeps the shared_ptr.    *)
Lookup ==
  /\ registered
  /\ Go(Tick, "idle", "hold")
  /\ repliesLeft' = MaxReplies
  /\ UNCHANGED << buffering, queueing, closing, io, m_sessMx, poppedEmpty >>

(* dispatch() returns.                                                      *)
Return ==
  /\ Go(Tick, "hold", "idle")
  /\ repliesLeft' = 0
  /\ UNCHANGED << buffering, queueing, closing, io, m_sessMx, poppedEmpty >>

NextMessage(size) == [n |-> Len(accepted) + 1, size |-> size]

(* Send, by what addMsg answers.                                            *)
SendError(size) ==
  /\ addMsgResult(m_sendBuffer, NextMessage(size)) = "BUFFER_ERROR"
  /\ Go(Tick, "hold", "close")
  /\ UNCHANGED << buffering, queueing, closing, io, m_sessMx, poppedEmpty >>

SendAdded(size) ==
  LET m == NextMessage(size) IN
  /\ addMsgResult(m_sendBuffer, m) = "BUFFER_ADDED"
  /\ pc[Tick] = "hold"
  /\ m_sendBuffer' = addMsg(m_sendBuffer, m)
  /\ accepted' = Append(accepted, m)
  /\ UNCHANGED << queueing, closing, io, pc, m_sessMx, poppedEmpty >>

SendNow(size) ==
  LET m == NextMessage(size)
      full == addMsg(m_sendBuffer, m)
  IN
  /\ addMsgResult(m_sendBuffer, m) = "BUFFER_SEND"
  /\ m_sendBuffer' = EmptyBuffer
  /\ accepted' = Append(accepted, m)
  /\ enqueueWrite(getSendBuffer(full), "hold", "hold")
  /\ UNCHANGED << packet, closing, io, m_sessMx, poppedEmpty >>

BadSendWithoutAdd(size) ==
  LET m == NextMessage(size) IN
  /\ addMsgResult(m_sendBuffer, m) = "BUFFER_SEND_ADD"
  /\ m_sendBuffer' = EmptyBuffer
  /\ accepted' = Append(accepted, m)
  /\ enqueueWrite(getSendBuffer(m_sendBuffer), "hold", "hold")
  /\ UNCHANGED << packet, closing, io, m_sessMx, poppedEmpty >>

(* The batch goes out first and the message is added to the emptied buffer; *)
(* the answer of that second addMsg is ignored, so a message that reaches   *)
(* the threshold alone stays in the buffer until the next Send or Flush.    *)
SendThenAdd(size) ==
  LET m == NextMessage(size) IN
  /\ addMsgResult(m_sendBuffer, m) = "BUFFER_SEND_ADD"
  /\ m_sendBuffer' = addMsg(EmptyBuffer, m)
  /\ accepted' = Append(accepted, m)
  /\ enqueueWrite(getSendBuffer(m_sendBuffer), "hold", "hold")
  /\ UNCHANGED << packet, closing, io, m_sessMx, poppedEmpty >>

Send ==
  \E size \in Sizes :
    /\ Len(accepted) < MaxSends
    /\ repliesLeft > 0
    /\ repliesLeft' = repliesLeft - 1
    /\ \/ SendError(size)
       \/ SendAdded(size)
       \/ SendNow(size)
       \/ SendThenAdd(size)

(* dispatch() drops the link instead of replying: a short login payload, a  *)
(* request before login.                                                    *)
DispatchClose ==
  /\ repliesLeft = MaxReplies
  /\ repliesLeft' = 0
  /\ Go(Tick, "hold", "close")
  /\ UNCHANGED << buffering, queueing, closing, io, m_sessMx, poppedEmpty >>

(* The flush loop of OnUpdate reaches this session with something batched.  *)
(* m_sessMx is kept while the tick goes on to doWrite.                      *)
Flush ==
  /\ registered
  /\ HasBatch(m_sendBuffer)
  /\ m_sendBuffer' = EmptyBuffer
  /\ m_sessMx' = ~m_writeInProgress
  /\ enqueueWrite(getSendBuffer(m_sendBuffer), "idle", "idle")
  /\ UNCHANGED << accepted, packet, closing, io, repliesLeft, poppedEmpty >>

-----------------------------------------------------------------------------
BadDoWritePops(t) ==
  /\ m_writeQueue # << >>
  /\ Go(t, "doWrite", "issue")
  /\ packet' = [packet EXCEPT ![t] = Head(m_writeQueue)]
  /\ m_writeQueue' = Tail(m_writeQueue)
  /\ UNCHANGED << buffering, m_writeInProgress, closing, io, repliesLeft, m_sessMx, poppedEmpty >>

(* doWrite, by whichever thread holds the write in progress.  It copies the *)
(* front under m_writeMx and hands the copy to the socket after unlocking.  *)
doWrite(t) ==
  /\ m_writeQueue # << >>
  /\ Go(t, "doWrite", "issue")
  /\ packet' = [packet EXCEPT ![t] = Head(m_writeQueue)]
  /\ UNCHANGED << buffering, m_writeQueue, m_writeInProgress, closing, io, repliesLeft, m_sessMx, poppedEmpty >>

BadNothingKeepsFlag(t) ==
  /\ m_writeQueue = << >>
  /\ pc[t] = "doWrite"
  /\ GoBack(t, "doWrite")
  /\ UNCHANGED << buffering, queueing, closing, io, repliesLeft, poppedEmpty >>

(* Without the test for empty(): front() of an empty deque, no message that  *)
(* Send ever saw.                                                           *)
BadFrontUnchecked(t) ==
  /\ m_writeQueue = << >>
  /\ Go(t, "doWrite", "issue")
  /\ packet' = [packet EXCEPT ![t] = << [n |-> 0, size |-> 0] >>]
  /\ UNCHANGED << buffering, m_writeQueue, m_writeInProgress, closing, io, repliesLeft, m_sessMx, poppedEmpty >>

doWriteNothing(t) ==
  /\ m_writeQueue = << >>
  /\ pc[t] = "doWrite"
  /\ GoBack(t, "doWrite")
  /\ m_writeInProgress' = FALSE
  /\ UNCHANGED << buffering, m_writeQueue, packet, closing, io, repliesLeft, poppedEmpty >>

(* asio::async_write; on a closed socket it completes with an error.        *)
async_write(t) ==
  /\ GoBack(t, "issue")
  /\ writeOp' = [state |-> IF sock = "open" THEN "pending" ELSE "failed", packet |-> packet[t]]
  /\ UNCHANGED << buffering, queueing, closing, sock, readOp, wire, repliesLeft, poppedEmpty >>

(* The completion handler of async_write.                                   *)
WriteFailed ==
  /\ writeOp.state = "failed"
  /\ Go(Writer, "idle", "close")
  /\ writeOp' = NoWrite
  /\ UNCHANGED << buffering, queueing, closing, sock, readOp, wire, repliesLeft, m_sessMx, poppedEmpty >>

WriteDone ==
  /\ writeOp.state = "done"
  /\ Go(Writer, "idle", "pop")
  /\ writeOp' = NoWrite
  /\ UNCHANGED << buffering, queueing, closing, sock, readOp, wire, repliesLeft, m_sessMx, poppedEmpty >>

BadPopForgetsNext ==
  /\ Go(Writer, "pop", "idle")
  /\ m_writeQueue' = IF m_writeQueue = << >> THEN << >> ELSE Tail(m_writeQueue)
  /\ UNCHANGED << buffering, m_writeInProgress, packet, closing, io, repliesLeft, m_sessMx, poppedEmpty >>

BadPopKeepsFront ==
  /\ Go(Writer, "pop", "doWrite")
  /\ UNCHANGED << buffering, queueing, closing, io, repliesLeft, m_sessMx, poppedEmpty >>

(* pop_front does not look whether Close() has cleared the deque since: on  *)
(* an empty one it is undefined behaviour, where this model ends.           *)
PopFront ==
  /\ Go(Writer, "pop", "doWrite")
  /\ IF m_writeQueue = << >>
       THEN poppedEmpty' = TRUE /\ UNCHANGED m_writeQueue
       ELSE m_writeQueue' = Tail(m_writeQueue) /\ UNCHANGED poppedEmpty
  /\ UNCHANGED << buffering, m_writeInProgress, packet, closing, io, repliesLeft, m_sessMx >>

-----------------------------------------------------------------------------
(* The completion handler of async_read_some: an error or a bad frame drops *)
(* the link, otherwise the messages go to the server's receive queue and    *)
(* the next read starts.                                                    *)
ReadFailed ==
  /\ readOp = "error"
  /\ Go(Reader, "idle", "close")
  /\ readOp' = "none"
  /\ UNCHANGED << buffering, queueing, closing, sock, writeOp, wire, repliesLeft, m_sessMx, poppedEmpty >>

ReadBadFrame ==
  /\ readOp = "data"
  /\ Go(Reader, "idle", "close")
  /\ readOp' = "none"
  /\ UNCHANGED << buffering, queueing, closing, sock, writeOp, wire, repliesLeft, m_sessMx, poppedEmpty >>

ReadMessages ==
  /\ readOp = "data"
  /\ pc[Reader] = "idle"
  /\ readOp' = "pending"
  /\ UNCHANGED << buffering, queueing, closing, sock, writeOp, wire, pc, repliesLeft, m_sessMx, poppedEmpty >>

-----------------------------------------------------------------------------
(* Close().  m_closed is a plain bool: testing it and setting it are two    *)
(* steps, and two threads may both find it FALSE.                           *)
CloseAgain(t) ==
  /\ m_closed
  /\ pc[t] = "close"
  /\ GoBack(t, "close")
  /\ UNCHANGED << buffering, queueing, closing, io, repliesLeft, poppedEmpty >>

CloseTest(t) ==
  /\ ~m_closed
  /\ Go(t, "close", "mark")
  /\ UNCHANGED << buffering, queueing, closing, io, repliesLeft, m_sessMx, poppedEmpty >>

CloseMark(t) ==
  /\ Go(t, "mark", "shutdown")
  /\ m_closed' = TRUE
  /\ UNCHANGED << buffering, queueing, registered, onCloseCalls, io, repliesLeft, m_sessMx, poppedEmpty >>

BadCloseLeavesSocket(t) ==
  /\ Go(t, "shutdown", "clear")
  /\ UNCHANGED << buffering, queueing, closing, io, repliesLeft, m_sessMx, poppedEmpty >>

CloseSocket(t) ==
  /\ Go(t, "shutdown", "clear")
  /\ sock' = "closed"
  /\ UNCHANGED << buffering, queueing, closing, readOp, writeOp, wire, repliesLeft, m_sessMx, poppedEmpty >>

CloseClear(t) ==
  /\ Go(t, "clear", "notify")
  /\ m_writeQueue' = << >>
  /\ UNCHANGED << buffering, m_writeInProgress, packet, closing, io, repliesLeft, m_sessMx, poppedEmpty >>

(* m_onClose: the server erases the session, under m_sessMx.                *)
CloseNotify(t) ==
  /\ ~m_sessMx
  /\ pc[t] = "notify"
  /\ GoBack(t, "notify")
  /\ registered' = FALSE
  /\ onCloseCalls' = onCloseCalls + 1
  /\ UNCHANGED << buffering, queueing, m_closed, io, repliesLeft, poppedEmpty >>

Close(t) ==
  \/ CloseAgain(t) \/ CloseTest(t) \/ CloseMark(t)
  \/ CloseSocket(t) \/ CloseClear(t) \/ CloseNotify(t)

-----------------------------------------------------------------------------
(* The kernel and the peer.  An operation may fail at any time (reset, end  *)
(* of stream), and close() aborts the ones that are still pending.          *)
IoReadData ==
  /\ sock = "open"
  /\ readOp = "pending"
  /\ readOp' = "data"
  /\ UNCHANGED << buffering, queueing, closing, sock, writeOp, wire, pc, repliesLeft, m_sessMx, poppedEmpty >>

IoReadFails ==
  /\ readOp = "pending"
  /\ readOp' = "error"
  /\ UNCHANGED << buffering, queueing, closing, sock, writeOp, wire, pc, repliesLeft, m_sessMx, poppedEmpty >>

IoWriteDone ==
  /\ sock = "open"
  /\ writeOp.state = "pending"
  /\ writeOp' = [writeOp EXCEPT !.state = "done"]
  /\ wire' = wire \o writeOp.packet
  /\ UNCHANGED << buffering, queueing, closing, sock, readOp, pc, repliesLeft, m_sessMx, poppedEmpty >>

IoWriteFails ==
  /\ writeOp.state = "pending"
  /\ writeOp' = [writeOp EXCEPT !.state = "failed"]
  /\ UNCHANGED << buffering, queueing, closing, sock, readOp, wire, pc, repliesLeft, m_sessMx, poppedEmpty >>

-----------------------------------------------------------------------------
TickNext   == Lookup \/ Return \/ Send \/ DispatchClose \/ Flush
                \/ doWrite(Tick) \/ doWriteNothing(Tick) \/ async_write(Tick) \/ Close(Tick)
ReaderNext == ReadFailed \/ ReadBadFrame \/ ReadMessages \/ Close(Reader)
WriterNext == WriteFailed \/ WriteDone \/ PopFront
                \/ doWrite(Writer) \/ doWriteNothing(Writer) \/ async_write(Writer) \/ Close(Writer)
IoNext     == IoReadData \/ IoReadFails \/ IoWriteDone \/ IoWriteFails

(* The server has erased the session, no operation is outstanding and no    *)
(* thread is inside: the last shared_ptr to the object is gone.             *)
Released ==
  /\ ~registered
  /\ readOp = "none"
  /\ writeOp = NoWrite
  /\ \A t \in Threads : pc[t] = "idle"

(* Nothing happens any more, or nothing is known of what happens.           *)
Gone == (Released \/ poppedEmpty) /\ UNCHANGED vars

Next ==
  \/ ~poppedEmpty /\ (TickNext \/ ReaderNext \/ WriterNext \/ IoNext)
  \/ Gone

Spec == Init /\ [][Next]_vars

(***************************************************************************)
(* Fairness.  A worker that runs a handler or the tick goes on with it; a  *)
(* queued completion is run; close() aborts what is pending; OnUpdate      *)
(* recurs and every pass ends in the flush loop (strong fairness, because  *)
(* the tick is idle only between its dispatches).  PeerReads adds that a   *)
(* write on an open socket completes one way or the other, which is up to  *)
(* the peer and to TCP, not to this code.                                  *)
(***************************************************************************)
Alive(A) == ~poppedEmpty /\ A

ThreadFairness ==
  /\ \A t \in Threads : WF_vars(Alive(doWrite(t) \/ doWriteNothing(t) \/ async_write(t) \/ Close(t)))
  /\ WF_vars(Alive(Return))
  /\ WF_vars(Alive(ReadFailed \/ ReadBadFrame \/ ReadMessages))
  /\ WF_vars(Alive(WriteFailed \/ WriteDone \/ PopFront))
  /\ WF_vars(Alive(sock = "closed" /\ (IoReadFails \/ IoWriteFails)))
  /\ SF_vars(Alive(Flush))

PeerReads == WF_vars(Alive(IoWriteDone \/ IoWriteFails))

FairSpec == Spec /\ ThreadFairness /\ PeerReads

-----------------------------------------------------------------------------
(* Safety.                                                                  *)

InWrite(t) == pc[t] \in {"doWrite", "issue", "pop"}

(* The threads that are between enqueueWrite and the next async_write, and  *)
(* the operation itself: whoever will go on with the queue.                 *)
WriteTurns == {t \in {Tick, Writer} : InWrite(t)} \cup (IF writeOp = NoWrite THEN {} ELSE {"io"})

(* m_writeInProgress keeps a second async_write from being started while    *)
(* one is outstanding (session.cpp:91-98): the bytes of two packets would   *)
(* interleave on the wire.                                                  *)
OneWriteAtATime == Cardinality(WriteTurns) <= 1

(* The queue is never abandoned: while packets wait, someone has the turn,  *)
(* unless the session is being closed (session.cpp:101-126).                *)
QueueIsServed ==
  m_writeQueue # << >> => \/ WriteTurns # {}
                          \/ m_closed
                          \/ pc[Writer] \in CloseSteps

(* The front of the queue is already on the wire until it is popped.        *)
Unsent ==
  IF m_writeQueue # << >> /\ (writeOp.state = "done" \/ pc[Writer] = "pop")
    THEN Tail(m_writeQueue) ELSE m_writeQueue

(* Until a thread clears the queue, every accepted message is on the wire,  *)
(* queued or batched, exactly once.                                         *)
NothingLost ==
  ~m_closed => wire \o FlattenSeq(Unsent) \o m_sendBuffer.msgs = accepted

(* The copies of addMsg and getSendSize stay inside their buffers, and only *)
(* a message that reaches the threshold alone may fill the buffer past it   *)
(* (send_msg_buffer.cpp:44,53,97).                                          *)
BufferFits ==
  /\ m_sendBuffer.pos + SizeofNET_COMPRESS <= NET_DATA_MSG_BUFSIZE
  /\ m_sendBuffer.pos >= COMPRESS_PACKET_SIZE => Len(m_sendBuffer.msgs) = 1
  /\ (m_sendBuffer.pos = 0) <=> (m_sendBuffer.msgs = << >>)

(* The unchecked pop_front of the completion handler meets an empty deque   *)
(* only when Close() cleared it under the handler's feet.                   *)
PopsEmptyOnlyIfClosed == poppedEmpty => m_closed

(* session.h:22: "onClose is invoked once when the link drops".             *)
OnCloseInvokedOnce == onCloseCalls <= 1

-----------------------------------------------------------------------------
(* The inductive invariant behind the safety properties.                    *)

TickTurn   == pc[Tick] \in {"doWrite", "issue"}
WriterTurn == pc[Writer] \in {"doWrite", "issue", "pop"}
IoTurn     == writeOp # NoWrite

(* A thread that has passed CloseMark.                                      *)
PastMark(t) == pc[t] \in {"shutdown", "clear", "notify"}

(* Somebody works on the front of the queue.                                *)
OnFront == pc[Tick] = "issue" \/ pc[Writer] \in {"issue", "pop"} \/ IoTurn

(* m_writeInProgress is a token: whoever is on the way from enqueueWrite or *)
(* from a completion to the next async_write holds it, alone, and it is     *)
(* lost only on the way into Close().  The queue is empty without it, and   *)
(* until Close() the packet in hand stays at the front.                     *)
TurnInvariant ==
  /\ pc[Reader] \in {"idle"} \cup CloseSteps
  /\ pc[Tick] # "pop" /\ pc[Writer] # "hold"
  /\ writeOp.state = "none" => writeOp = NoWrite
  /\ ~(TickTurn /\ WriterTurn) /\ ~(TickTurn /\ IoTurn) /\ ~(WriterTurn /\ IoTurn)
  /\ TickTurn \/ WriterTurn \/ IoTurn => m_writeInProgress
  /\ m_writeInProgress =>
       TickTurn \/ WriterTurn \/ IoTurn \/ m_closed \/ pc[Writer] \in CloseSteps
  /\ m_writeQueue # << >> => m_writeInProgress
  /\ \A t \in Threads : PastMark(t) => m_closed
  /\ OnFront /\ ~m_closed => m_writeQueue # << >>
  /\ poppedEmpty => m_closed

-----------------------------------------------------------------------------
(* Liveness.                                                                *)

(* A batch does not stay in the buffer, nor a packet in the queue, unless   *)
(* the session is closed.                                                   *)
AcceptedIsWritten ==
  \A n \in 1..MaxSends : Len(accepted) >= n ~> Len(wire) >= n \/ m_closed

(* Once closed, the server forgets the session and every operation and      *)
(* thread that keeps the object alive lets go of it.                        *)
ClosedIsReleased == m_closed ~> Released \/ poppedEmpty

-----------------------------------------------------------------------------
(* The abstract specification, with the history of Send as what was sent,   *)
(* the history of the socket as what was delivered, and the socket as link. *)
Channel == INSTANCE FifoChannel WITH
  Messages  <- Message,
  sent      <- accepted,
  delivered <- wire,
  broken    <- sock = "closed"

(* Its safety half: what goes out is what was accepted, in order and       *)
(* without a gap, and nothing goes out once the socket is closed.           *)
WritesInOrder == Channel!Init /\ [][Channel!Next]_(Channel!vars)

(* The session implements the FIFO channel: its batches, its queue and its  *)
(* racing threads deliver in order and without loss while the socket is up, *)
(* and nothing after (session.cpp:41-141).                                  *)
ImplementsChannel == Channel!Spec
=============================================================================
