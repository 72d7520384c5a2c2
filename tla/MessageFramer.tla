--------------------------- MODULE MessageFramer ---------------------------
(***************************************************************************)
(* The receiving half of a session: the read loop of net/session.cpp and   *)
(* the MessageFramer of net/packet.cpp that cuts the byte stream into      *)
(* messages.  Bytes are counted, not represented: the stream is the        *)
(* sequence of the frames the peer wrote, the network hands it over in     *)
(* arbitrary pieces, and the framer sees of the first uncut frame as much  *)
(* as the bytes in m_buf cover.                                            *)
(*                                                                         *)
(* Only the read handler of the one outstanding async_read_some touches    *)
(* this state, so the steps below never race each other; they follow the   *)
(* iterations of the two loops of Feed().                                  *)
(***************************************************************************)
EXTENDS SendMsgBuffer

CONSTANTS
  kHeaderSize,      (* NET_MSG_GENERIC: dwSize and nType (8).                 *)
  kMaxMessageSize   (* Largest dwSize Feed() takes, and the size of m_readBuf *)
                    (*   (4108).                                              *)

(* packet.h:29-30 and the layout of NET_COMPRESS, send_msg_buffer.h:12-17.  *)
ASSUME FramerAssumption ==
  /\ kHeaderSize \in Nat \ {0}
  /\ kHeaderSize <= SizeofNET_COMPRESS
  /\ kMaxMessageSize = NET_DATA_MSG_BUFSIZE + SizeofNET_COMPRESS

VARIABLES
  stream,     (* frames written by the peer and not yet cut, oldest first    *)
  unread,     (* how many of their bytes async_read_some has not returned    *)
  m_buf,      (* how many of their bytes the framer holds                    *)
  at,         (* where the read handler is                                   *)
  inner,      (* messages of the envelope being unpacked, not yet parsed     *)
  left,       (* bytes left of that envelope                                 *)
  msgs,       (* what this call of Feed() has cut: its out parameter         *)
  delivered   (* history: messages handed to m_onMsg                         *)

cutting == << inner, left, msgs >>
framer  == << stream, unread, m_buf, at, cutting, delivered >>

(***************************************************************************)
(* A frame on the wire: dwSize as its header says and the bytes it really  *)
(* occupies; nType and bCompress as its kind; for an envelope the messages *)
(* inside and the number of bytes they take once unpacked.                 *)
(***************************************************************************)
Kinds == {"message",   (* a plain message                                     *)
          "raw",       (* NET_MSG_COMPRESS, bCompress = 0                     *)
          "lzo",       (* NET_MSG_COMPRESS, bCompress = 1, it unpacks         *)
          "corrupt"}   (* NET_MSG_COMPRESS, bCompress = 1, lzoDeCompress fails*)

Plain(m) ==
  [dwSize |-> m.size, bytes |-> m.size, kind |-> "message", inner |-> << m >>, length |-> m.size]

(* What getSendSize packs: LZO is used if it makes the batch smaller.       *)
Envelope(batch, length, packed) ==
  [dwSize |-> SizeofNET_COMPRESS + packed, bytes |-> SizeofNET_COMPRESS + packed,
   kind |-> IF packed < length THEN "lzo" ELSE "raw", inner |-> batch, length |-> length]

FramerInit ==
  /\ stream = << >>
  /\ unread = 0
  /\ m_buf = 0
  /\ at = "read"
  /\ inner = << >>
  /\ left = 0
  /\ msgs = << >>
  /\ delivered = << >>

Go(from, to) == at = from /\ at' = to

-----------------------------------------------------------------------------
(* async_read_some completes with n bytes, which Feed() appends to m_buf.   *)
ReadSome(n) ==
  /\ Go("read", "cut")
  /\ n \in 1..unread
  /\ n <= kMaxMessageSize
  /\ unread' = unread - n
  /\ m_buf' = m_buf + n
  /\ msgs' = << >>
  /\ UNCHANGED << stream, inner, left, delivered >>

(* Feed(), the loop over m_buf.                                             *)

HeaderComplete == m_buf >= kHeaderSize
Complete == HeaderComplete /\ Head(stream).dwSize <= m_buf

(* Faulty variants, named Bad..., are what a plausible bug would make of    *)
(* the definition that follows them; no specification uses them.            *)
BadSizeAsForSending ==
  HeaderComplete /\ Head(stream).dwSize \notin kHeaderSize..NET_DATA_BUFSIZE

BadSize == HeaderComplete /\ Head(stream).dwSize \notin kHeaderSize..kMaxMessageSize

BadCutStopsOnExactFit ==
  /\ Go("cut", "deliver")
  /\ HeaderComplete => ~BadSize /\ m_buf <= Head(stream).dwSize
  /\ UNCHANGED << stream, unread, m_buf, cutting, delivered >>

(* Too few bytes for the next frame, or none: Feed() returns true.          *)
CutStops ==
  /\ Go("cut", "deliver")
  /\ HeaderComplete => ~BadSize /\ ~Complete
  /\ UNCHANGED << stream, unread, m_buf, cutting, delivered >>

(* A length no frame can have, an envelope smaller than its own header, or  *)
(* one that does not unpack: Feed() returns false and the link is dropped.  *)
CutFails ==
  /\ Go("cut", "closed")
  /\ \/ BadSize
     \/ /\ Complete /\ ~BadSize
        /\ Head(stream).kind # "message"
        /\ Head(stream).dwSize < SizeofNET_COMPRESS \/ Head(stream).kind = "corrupt"
  /\ UNCHANGED << stream, unread, m_buf, cutting, delivered >>

(* pos moves behind the frame; m_buf is erased up to pos when Feed returns. *)
FrameDone ==
  /\ stream' = Tail(stream)
  /\ m_buf' = m_buf - Head(stream).dwSize

CutMessage ==
  /\ at = "cut"
  /\ Complete /\ ~BadSize
  /\ Head(stream).kind = "message"
  /\ FrameDone
  /\ msgs' = msgs \o Head(stream).inner
  /\ UNCHANGED << unread, at, inner, left, delivered >>

CutEnvelope ==
  /\ Go("cut", "unpack")
  /\ Complete /\ ~BadSize
  /\ Head(stream).kind \in {"raw", "lzo"}
  /\ Head(stream).dwSize >= SizeofNET_COMPRESS
  /\ inner' = Head(stream).inner
  /\ left' = Head(stream).length
  /\ UNCHANGED << stream, unread, m_buf, msgs, delivered >>

(* The loop over the messages of an envelope, the same for both kinds.      *)

BadUnpackTrustsSize ==
  /\ at = "unpack"
  /\ left >= kHeaderSize
  /\ Head(inner).size >= kHeaderSize
  /\ msgs' = Append(msgs, Head(inner))
  /\ left' = left - Head(inner).size
  /\ inner' = Tail(inner)
  /\ UNCHANGED << stream, unread, m_buf, at, delivered >>

BadUnpackStays ==
  /\ at = "unpack"
  /\ left >= kHeaderSize
  /\ Head(inner).size \in kHeaderSize..left
  /\ msgs' = Append(msgs, Head(inner))
  /\ left' = left - Head(inner).size
  /\ UNCHANGED << stream, unread, m_buf, at, inner, delivered >>

UnpackMessage ==
  /\ at = "unpack"
  /\ left >= kHeaderSize
  /\ Head(inner).size \in kHeaderSize..left
  /\ msgs' = Append(msgs, Head(inner))
  /\ left' = left - Head(inner).size
  /\ inner' = Tail(inner)
  /\ UNCHANGED << stream, unread, m_buf, at, delivered >>

UnpackFails ==
  /\ Go("unpack", "closed")
  /\ left >= kHeaderSize
  /\ Head(inner).size \notin kHeaderSize..left
  /\ UNCHANGED << stream, unread, m_buf, cutting, delivered >>

BadUnpackEndsEarly ==
  /\ Go("unpack", "cut")
  /\ left <= kHeaderSize
  /\ FrameDone
  /\ UNCHANGED << unread, cutting, delivered >>

(* Fewer bytes than a header are left: they are ignored.                    *)
UnpackEnds ==
  /\ Go("unpack", "cut")
  /\ left < kHeaderSize
  /\ FrameDone
  /\ UNCHANGED << unread, cutting, delivered >>

(* Feed() returned true: every message goes to m_onMsg, the next read starts.*)
(* On a protocol error Close() drops what this Feed() had cut before it.    *)
DeliverMessages ==
  /\ Go("deliver", "read")
  /\ delivered' = delivered \o msgs
  /\ UNCHANGED << stream, unread, m_buf, cutting >>

FramerNext ==
  \/ \E n \in 1..kMaxMessageSize : ReadSome(n)
  \/ CutStops \/ CutFails \/ CutMessage \/ CutEnvelope
  \/ UnpackMessage \/ UnpackFails \/ UnpackEnds
  \/ DeliverMessages
=============================================================================
