----------------------------- MODULE GameServer -----------------------------
(***************************************************************************)
(* The message path that the five servers share: OnAccept, the receive     *)
(* queue, OnUpdate and dispatch of servers/*/*_server.cpp, over many       *)
(* clients.  A client's messages are read by its session's read loop on    *)
(* any worker, queued in the MsgManager, and echoed by the update tick     *)
(* through the session's send buffer.                                      *)
(*                                                                         *)
(* FlushesOnUpdate distinguishes the servers: OnUpdate of AuthServer and   *)
(* of AgentServer ends with a flush of every session, OnUpdate of Login-,  *)
(* Session- and FieldServer does not.                                      *)
(*                                                                         *)
(* Below Send and Flush a session is the FIFO channel that module Session  *)
(* implements: packets go out in order until the socket is closed.         *)
(***************************************************************************)
EXTENDS MsgManager, SendMsgBuffer, SequencesExt

CONSTANTS
  Clients,          (* one connection each; the model value is its clientId  *)
  Sizes,            (* sizes of the frames clients send                      *)
  MaxFrames,        (* Bound: frames a client sends                          *)
  FlushesOnUpdate   (* does OnUpdate flush the sessions?                     *)

ASSUME GameServerAssumption ==
  /\ IsFiniteSet(Clients)
  /\ Sizes \subseteq Nat \ {0}
  /\ MaxFrames \in Nat
  /\ FlushesOnUpdate \in BOOLEAN

VARIABLES
  link,         (* per client: "new", "stored", "up", "down" (m_closed)       *)
  m_sessions,   (* the clients in the session map                             *)
  erasing,      (* clients whose Close(), on a worker, has yet to erase them  *)
  received,     (* per client: the frames its read loop has cut, in order     *)
  reading,      (* clients whose read loop still runs                         *)
  m_recvMsgs,   (* the MsgManager                                             *)
  tick,         (* where OnUpdate is                                          *)
  msg,          (* the message being dispatched                               *)
  m_sendBuffer, (* per client: the batch of its session                       *)
  packets,      (* per client: frames queued for the socket, in order         *)
  echoed        (* per client: frames written to the socket                   *)

clientSide == << link, m_sessions, erasing >>
inbound    == << received, reading >>
outbound   == << m_sendBuffer, packets, echoed >>
vars == << clientSide, inbound, m_recvMsgs, tick, msg, outbound >>

Frame  == [client : Clients, n : 1..MaxFrames, size : Sizes]
NoMsg  == [client |-> "none"]

TypeOK ==
  /\ link \in [Clients -> {"new", "stored", "up", "down"}]
  /\ m_sessions \subseteq Clients
  /\ erasing \subseteq Clients
  /\ received \in [Clients -> Seq(Frame)]
  /\ reading \subseteq Clients
  /\ m_recvMsgs \in [front : Seq(Frame), back : Seq(Frame)]
  /\ tick \in {"idle", "drain", "dispatch", "reply", "erase", "flush"}
  /\ msg \in Frame \cup {NoMsg}
  /\ m_sendBuffer \in [Clients -> [msgs : Seq(Frame), pos : 0..NET_DATA_BUFSIZE]]
  /\ packets \in [Clients -> Seq(Frame)]
  /\ echoed \in [Clients -> Seq(Frame)]

Init ==
  /\ link = [c \in Clients |-> "new"]
  /\ m_sessions = {}
  /\ erasing = {}
  /\ received = [c \in Clients |-> << >>]
  /\ reading = {}
  /\ m_recvMsgs = EmptyQueues
  /\ tick = "idle"
  /\ msg = NoMsg
  /\ m_sendBuffer = [c \in Clients |-> EmptyBuffer]
  /\ packets = [c \in Clients |-> << >>]
  /\ echoed = [c \in Clients |-> << >>]

-----------------------------------------------------------------------------
(* OnAccept: the session is in the map before its read loop starts.         *)

OnAcceptStores(c) ==
  /\ link[c] = "new"
  /\ link' = [link EXCEPT ![c] = "stored"]
  /\ m_sessions' = m_sessions \cup {c}
  /\ UNCHANGED << erasing, inbound, m_recvMsgs, tick, msg, outbound >>

OnAcceptStarts(c) ==
  /\ link[c] = "stored"
  /\ link' = [link EXCEPT ![c] = "up"]
  /\ reading' = reading \cup {c}
  /\ UNCHANGED << m_sessions, erasing, received, m_recvMsgs, tick, msg, outbound >>

-----------------------------------------------------------------------------
(* The read loop of a session.  A chunk of bytes that arrived while the     *)
(* link was up may hold several frames: they are all queued, even if the    *)
(* tick closes the session between two of them.                             *)

Receive(c, size) ==
  LET frame == [client |-> c, n |-> Len(received[c]) + 1, size |-> size] IN
  /\ c \in reading
  /\ Len(received[c]) < MaxFrames
  /\ received' = [received EXCEPT ![c] = Append(@, frame)]
  /\ m_recvMsgs' = MsgQueueInsert(m_recvMsgs, frame)
  /\ UNCHANGED << clientSide, reading, tick, msg, outbound >>

(* Close(): the socket goes down and the queued packets are dropped; then   *)
(* the same thread calls m_onClose, which waits for m_sessMx.               *)
Close(c) ==
  /\ link' = [link EXCEPT ![c] = "down"]
  /\ packets' = [packets EXCEPT ![c] = << >>]

(* End of stream, reset, a bad frame, or an aborted read.                   *)
ReadEnds(c) ==
  /\ c \in reading
  /\ reading' = reading \ {c}
  /\ IF link[c] = "up"
       THEN Close(c) /\ erasing' = erasing \cup {c}
       ELSE UNCHANGED << link, packets, erasing >>
  /\ UNCHANGED << m_sessions, received, m_recvMsgs, tick, msg, m_sendBuffer, echoed >>

(* Faulty variants, named Bad..., are what a plausible bug would make of    *)
(* the definition that follows them; no specification uses them.            *)
BadOnCloseKeepsSession(c) ==
  /\ c \in erasing
  /\ erasing' = erasing \ {c}
  /\ UNCHANGED << link, m_sessions, inbound, m_recvMsgs, tick, msg, outbound >>

(* m_onClose on a worker.                                                   *)
OnClose(c) ==
  /\ c \in erasing
  /\ erasing' = erasing \ {c}
  /\ m_sessions' = m_sessions \ {c}
  /\ UNCHANGED << link, inbound, m_recvMsgs, tick, msg, outbound >>

-----------------------------------------------------------------------------
(* OnUpdate.                                                                *)

OnUpdateFlips ==
  /\ tick = "idle"
  /\ tick' = "drain"
  /\ m_recvMsgs' = MsgQueueFlip(m_recvMsgs)
  /\ UNCHANGED << clientSide, inbound, msg, outbound >>

OnUpdateGets ==
  /\ tick = "drain"
  /\ CanGetMsg(m_recvMsgs)
  /\ tick' = "dispatch"
  /\ msg' = GetMsg(m_recvMsgs)
  /\ m_recvMsgs' = Popped(m_recvMsgs)
  /\ UNCHANGED << clientSide, inbound, outbound >>

BadDrainedSkipsFlush ==
  /\ tick = "drain"
  /\ ~CanGetMsg(m_recvMsgs)
  /\ tick' = "idle"
  /\ UNCHANGED << clientSide, inbound, m_recvMsgs, msg, outbound >>

OnUpdateDrained ==
  /\ tick = "drain"
  /\ ~CanGetMsg(m_recvMsgs)
  /\ tick' = IF FlushesOnUpdate THEN "flush" ELSE "idle"
  /\ UNCHANGED << clientSide, inbound, m_recvMsgs, msg, outbound >>

(* dispatch: the session is looked up under m_sessMx ...                    *)
DispatchDrops ==
  /\ tick = "dispatch"
  /\ msg.client \notin m_sessions
  /\ tick' = "drain"
  /\ msg' = NoMsg
  /\ UNCHANGED << clientSide, inbound, m_recvMsgs, outbound >>

DispatchFinds ==
  /\ tick = "dispatch"
  /\ msg.client \in m_sessions
  /\ tick' = "reply"
  /\ UNCHANGED << clientSide, inbound, m_recvMsgs, msg, outbound >>

(* ... and used after unlocking.  The reply goes through Send, which drops  *)
(* the link for a frame that is too large to be sent.                       *)
ReplyTooLarge ==
  /\ tick = "reply"
  /\ addMsgResult(m_sendBuffer[msg.client], msg) = "BUFFER_ERROR"
  /\ IF link[msg.client] = "up"
       THEN Close(msg.client) /\ tick' = "erase" /\ UNCHANGED msg
       ELSE tick' = "drain" /\ msg' = NoMsg /\ UNCHANGED << link, packets >>
  /\ UNCHANGED << m_sessions, erasing, inbound, m_recvMsgs, m_sendBuffer, echoed >>

(* m_onClose in the tick, before dispatch returns.                          *)
TickErases ==
  /\ tick = "erase"
  /\ tick' = "drain"
  /\ msg' = NoMsg
  /\ m_sessions' = m_sessions \ {msg.client}
  /\ UNCHANGED << link, erasing, inbound, m_recvMsgs, outbound >>

Reply ==
  LET c == msg.client
      b == m_sendBuffer[c]
  IN
  /\ tick = "reply"
  /\ addMsgResult(b, msg) # "BUFFER_ERROR"
  /\ tick' = "drain"
  /\ msg' = NoMsg
  /\ m_sendBuffer' = [m_sendBuffer EXCEPT ![c] = LeftInBuffer(b, msg)]
  /\ packets' = [packets EXCEPT ![c] = @ \o SentNow(b, msg)]
  /\ UNCHANGED << clientSide, inbound, m_recvMsgs, echoed >>

(* The flush loop, one step because it holds m_sessMx throughout.           *)
OnUpdateFlushes ==
  /\ tick = "flush"
  /\ tick' = "idle"
  /\ packets' = [c \in Clients |->
       IF c \in m_sessions THEN packets[c] \o m_sendBuffer[c].msgs ELSE packets[c]]
  /\ m_sendBuffer' = [c \in Clients |->
       IF c \in m_sessions THEN EmptyBuffer ELSE m_sendBuffer[c]]
  /\ UNCHANGED << clientSide, inbound, m_recvMsgs, msg, echoed >>

-----------------------------------------------------------------------------
(* The socket takes the next frame of a session that is up.                 *)
Transmit(c) ==
  /\ link[c] = "up"
  /\ packets[c] # << >>
  /\ echoed' = [echoed EXCEPT ![c] = Append(@, Head(packets[c]))]
  /\ packets' = [packets EXCEPT ![c] = Tail(@)]
  /\ UNCHANGED << clientSide, inbound, m_recvMsgs, tick, msg, m_sendBuffer >>

-----------------------------------------------------------------------------
OnUpdate ==
  \/ OnUpdateFlips \/ OnUpdateGets \/ OnUpdateDrained
  \/ DispatchDrops \/ DispatchFinds
  \/ ReplyTooLarge \/ TickErases \/ Reply
  \/ OnUpdateFlushes

Next ==
  \/ OnUpdate
  \/ \E c \in Clients :
       \/ OnAcceptStores(c)
       \/ OnAcceptStarts(c)
       \/ \E size \in Sizes : Receive(c, size)
       \/ ReadEnds(c)
       \/ OnClose(c)
       \/ Transmit(c)

Spec == Init /\ [][Next]_vars

(* The timer keeps calling OnUpdate and OnUpdate goes on; an accepted       *)
(* session is started; Close() gets to m_onClose; a socket that is up       *)
(* accepts bytes; the aborted read of a closed session completes.           *)
Fairness ==
  /\ WF_vars(OnUpdate)
  /\ \A c \in Clients :
       /\ WF_vars(OnAcceptStarts(c))
       /\ WF_vars(OnClose(c))
       /\ WF_vars(Transmit(c))
       /\ WF_vars(link[c] = "down" /\ ReadEnds(c))

FairSpec == Spec /\ Fairness

-----------------------------------------------------------------------------
(* Safety.                                                                  *)

(* Frames of c that dispatch has in hand, and those that it has handled.    *)
InHand(c)  == IF msg # NoMsg /\ msg.client = c THEN << msg >> ELSE << >>
Handled(c) == echoed[c] \o packets[c] \o m_sendBuffer[c].msgs \o InHand(c)

(* The places of c's frames in the receive queue.                           *)
Queued(c) == {i \in 1..Len(Content(m_recvMsgs)) : Content(m_recvMsgs)[i].client = c}

(* While a link is up every frame its client sent is, exactly once and in   *)
(* the order of arrival, written, queued, batched, in dispatch or in the    *)
(* receive queue: the two lock-separated halves of the path (read loops and *)
(* tick) neither lose, repeat, reorder nor misroute a frame.  What a client *)
(* gets back is what it sent, in order, even if its link goes down while    *)
(* the tick holds its session (msg_manager.h:27-48, agent_server.cpp:68-82).*)
FramesConserved ==
  \A c \in Clients :
    IF link[c] = "up"
      THEN /\ IsPrefix(Handled(c), received[c])
           /\ \A n \in Len(Handled(c)) + 1 .. Len(received[c]) :
                \E i \in Queued(c) : Content(m_recvMsgs)[i] = received[c][n]
           /\ \A i \in Queued(c) : Content(m_recvMsgs)[i].n > Len(Handled(c))
           /\ \A i, j \in Queued(c) :
                i < j => Content(m_recvMsgs)[i].n < Content(m_recvMsgs)[j].n
      ELSE IsPrefix(echoed[c], received[c])

-----------------------------------------------------------------------------
(* Liveness.                                                                *)

(* Every frame received is echoed, unless its link goes down: what the      *)
(* smoke tests of the five servers expect ("3 frames echoed back").         *)
EchoReturns ==
  \A c \in Clients : \A n \in 1..MaxFrames :
    Len(received[c]) >= n ~> Len(echoed[c]) >= n \/ link[c] = "down"

(* A closed session leaves the session map for good: OnAccept cannot store  *)
(* it after m_onClose has erased it (agent_server.cpp:55-67).               *)
ClosedIsForgotten ==
  \A c \in Clients : link[c] = "down" ~> [](c \notin m_sessions)

-----------------------------------------------------------------------------
(* What a client sees of the server: its own frames come back through a     *)
(* FIFO channel, whatever the other clients do.                             *)
Echo(c) == INSTANCE FifoChannel WITH
  Messages  <- Frame,
  sent      <- received[c],
  delivered <- echoed[c],
  broken    <- link[c] = "down"

(* The safety half: each client gets back what it sent, in order.           *)
EchoesInOrder ==
  /\ \A c \in Clients : Echo(c)!Init
  /\ [][\A c \in Clients : [Echo(c)!Next]_(Echo(c)!vars)]_vars

(* The whole path from the read loop through queue, tick, batch and socket  *)
(* implements one FIFO channel per client: what comes back is what was sent,*)
(* in order, until the link breaks and never after, and if a server whose   *)
(* OnUpdate flushes keeps the link up everything comes back                 *)
(* (agent_server.cpp:55-96, field_server.cpp:44-90).                        *)
ImplementsEcho ==
  /\ EchoesInOrder
  /\ \A c \in Clients : Echo(c)!Delivers
=============================================================================
