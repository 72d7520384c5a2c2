----------------------------- MODULE FramedLink -----------------------------
(***************************************************************************)
(* A TCP connection between a peer that writes frames and a session that   *)
(* reads them: SendMsgBuffer and EncodeMessage on one end, MessageFramer   *)
(* and the read loop on the other.  The peer may be a client, which writes *)
(* plain messages, or another session (AgentServer and FieldServer), which *)
(* writes envelopes; this one does both.  It may also write a malformed    *)
(* frame, after which nothing it writes matters.                           *)
(***************************************************************************)
EXTENDS MessageFramer, SequencesExt

CONSTANTS
  Sizes,         (* sizes of the peer's messages                              *)
  BadFrames,     (* malformed frames the peer may write                       *)
  MaxMessages    (* Bound: messages the peer makes.                           *)

(* An envelope of length bytes in which some message does not fit.          *)
Misfits(messages, length) ==
  \E k \in 1..Len(messages) : \E rest \in [1..k -> 0..length] :
    /\ rest[1] = length
    /\ \A i \in 1..k - 1 : /\ messages[i].size \in kHeaderSize..rest[i]
                           /\ rest[i + 1] = rest[i] - messages[i].size
    /\ rest[k] >= kHeaderSize
    /\ messages[k].size \notin kHeaderSize..rest[k]

(* What makes a frame malformed: a length no frame can have or that the     *)
(* bytes do not come up to, an envelope below its own header, one that does *)
(* not unpack, or one with a message that does not fit.                     *)
Malformed(f) ==
  \/ f.dwSize \notin kHeaderSize..kMaxMessageSize
  \/ f.dwSize > f.bytes
  \/ /\ f.kind # "message"
     /\ f.dwSize < SizeofNET_COMPRESS \/ f.kind = "corrupt" \/ Misfits(f.inner, f.length)

ASSUME LinkAssumption ==
  /\ Sizes \subseteq Nat
  /\ \A size \in Sizes : size >= kHeaderSize
  /\ MaxMessages \in Nat
  /\ \A f \in BadFrames :
       /\ f.dwSize \in Nat /\ f.bytes \in Nat /\ f.kind \in Kinds /\ f.length \in Nat
       /\ f.inner \in Seq([n : {0}, size : Nat])
       /\ f = [dwSize |-> f.dwSize, bytes |-> f.bytes, kind |-> f.kind, inner |-> f.inner, length |-> f.length]
       /\ Malformed(f)

VARIABLES
  m_sendBuffer, (* the peer's batch                                           *)
  made,         (* how many messages the peer has made                        *)
  sent,         (* history: messages in the well-formed frames of the stream  *)
  garbled       (* the peer has written a malformed frame                     *)

peer == << m_sendBuffer, made, sent, garbled >>
vars == << framer, peer >>

Message == [n : 1..MaxMessages, size : Sizes]
InnerMessage == Message \cup UNION {{f.inner[i] : i \in 1..Len(f.inner)} : f \in BadFrames}
Frame == [dwSize : Nat, bytes : Nat, kind : Kinds, inner : Seq(InnerMessage), length : Nat]

TypeOK ==
  /\ stream \in Seq(Frame)
  /\ unread \in Nat
  /\ m_buf \in 0..2 * kMaxMessageSize
  /\ at \in {"read", "cut", "unpack", "deliver", "closed"}
  /\ inner \in Seq(InnerMessage)
  /\ left \in Nat
  /\ msgs \in Seq(InnerMessage)
  /\ delivered \in Seq(Message)
  /\ m_sendBuffer \in [msgs : Seq(Message), pos : 0..NET_DATA_BUFSIZE]
  /\ made \in 0..MaxMessages
  /\ sent \in Seq(Message)
  /\ garbled \in BOOLEAN

Init ==
  /\ FramerInit
  /\ m_sendBuffer = EmptyBuffer
  /\ made = 0
  /\ sent = << >>
  /\ garbled = FALSE

-----------------------------------------------------------------------------
NextMessage(size) == [n |-> made + 1, size |-> size]

Write(frame) ==
  /\ stream' = Append(stream, frame)
  /\ unread' = unread + frame.bytes

(* The sizes LZO may leave of a batch; the full size stands for a batch it  *)
(* cannot shrink, which is then sent as it is.                              *)
Packed(length) == {length} \cup {p \in {1, length - 1} : p \in 1..length - 1}

WriteBatch(batch, length) ==
  /\ \E packed \in Packed(length) : Write(Envelope(batch, length, packed))
  /\ sent' = sent \o batch

(* The peer sends one message through its send buffer ...                   *)
PeerSends(size) ==
  LET m    == NextMessage(size)
      full == addMsg(m_sendBuffer, m)   (* the buffer that getSendSize packs  *)
  IN
  /\ ~garbled
  /\ made < MaxMessages
  /\ addMsgResult(m_sendBuffer, m) # "BUFFER_ERROR"
  /\ made' = made + 1
  /\ m_sendBuffer' = LeftInBuffer(m_sendBuffer, m)
  /\ IF SentNow(m_sendBuffer, m) = << >>
       THEN UNCHANGED << stream, unread, sent >>
       ELSE WriteBatch(SentNow(m_sendBuffer, m), full.pos)
  /\ UNCHANGED << m_buf, at, cutting, delivered, garbled >>

(* ... flushes it ...                                                       *)
PeerFlushes ==
  /\ ~garbled
  /\ HasBatch(m_sendBuffer)
  /\ WriteBatch(getSendBuffer(m_sendBuffer), m_sendBuffer.pos)
  /\ m_sendBuffer' = EmptyBuffer
  /\ UNCHANGED << m_buf, at, cutting, delivered, made, garbled >>

(* ... or writes a plain message past it.                                   *)
PeerWrites(size) ==
  /\ ~garbled
  /\ made < MaxMessages
  /\ size <= kMaxMessageSize
  /\ made' = made + 1
  /\ Write(Plain(NextMessage(size)))
  /\ sent' = Append(sent, NextMessage(size))
  /\ UNCHANGED << m_buf, at, cutting, delivered, m_sendBuffer, garbled >>

PeerGarbles(frame) ==
  /\ ~garbled
  /\ garbled' = TRUE
  /\ Write(frame)
  /\ UNCHANGED << m_buf, at, cutting, delivered, m_sendBuffer, made, sent >>

PeerNext ==
  \/ \E size \in Sizes : PeerSends(size) \/ PeerWrites(size)
  \/ PeerFlushes
  \/ \E frame \in BadFrames : PeerGarbles(frame)

(* The session has dropped the link, or waits for bytes that do not come.   *)
Over ==
  /\ at = "closed" \/ (at = "read" /\ unread = 0)
  /\ UNCHANGED vars

Next ==
  \/ PeerNext
  \/ FramerNext /\ UNCHANGED peer
  \/ Over

Spec == Init /\ [][Next]_vars

-----------------------------------------------------------------------------
(* However the stream is cut into reads and batches, m_onMsg gets what the  *)
(* peer sent, in that order and without repetition.                         *)
InOrder == IsPrefix(delivered, sent)

(* packet.h:64: Feed "emits every complete frame available": while the      *)
(* session waits for bytes, what it holds is less than one frame, and less  *)
(* than the largest.                                                        *)
NothingCompleteWaits ==
  at = "read" =>
    /\ ~Complete /\ ~BadSize
    /\ m_buf < kMaxMessageSize

(* When the bytes of a well-behaved peer have all been read, every message  *)
(* in them has been delivered, down to the last one of each envelope.       *)
AllDelivered ==
  at = "read" /\ unread = 0 /\ ~garbled => delivered = sent /\ m_buf = 0

(* A session never drops the link of a peer that writes what EncodeMessage, *)
(* SendMsgBuffer and their limits allow: the limits of the two ends fit.    *)
OwnFramesAreAccepted == at = "closed" => garbled

(* session.h:21: m_onMsg is invoked for each complete inbound message, also *)
(* for those that come before the malformed one.                            *)
OnMsgForEachCompleteMessage == at = "closed" => delivered = sent
=============================================================================
