---------------------------- MODULE SendMsgBuffer ----------------------------
(***************************************************************************)
(* The send-side batching buffer of a session (net/send_msg_buffer.{h,cpp}) *)
(* as operators on a buffer value.  A message is a record with a field     *)
(* "size", its framed length in bytes; the bytes themselves are left out.  *)
(* A buffer is the sequence of the messages copied into m_pBuffer together *)
(* with the write position m_dwPos.                                        *)
(***************************************************************************)
EXTENDS Naturals, Sequences

CONSTANTS
  NET_DATA_BUFSIZE,      (* Largest message addMsg takes (2048).              *)
  NET_DATA_MSG_BUFSIZE,  (* Size of m_pBuffer and of m_pSendBuffer (4096).    *)
  COMPRESS_PACKET_SIZE,  (* Fill level that forces a batch out (1000).        *)
  SizeofNET_COMPRESS     (* Header of the envelope put round a batch (12).    *)

(* The relations between the four sizes that the copies in addMsg and       *)
(* getSendSize rely on; send_msg_buffer.h:31-33 satisfies them.             *)
ASSUME BufferSizesAssumption ==
  /\ COMPRESS_PACKET_SIZE \in Nat \ {0}
  /\ NET_DATA_BUFSIZE \in Nat
  /\ NET_DATA_MSG_BUFSIZE \in Nat
  /\ SizeofNET_COMPRESS \in Nat
  /\ COMPRESS_PACKET_SIZE <= NET_DATA_BUFSIZE
  /\ NET_DATA_BUFSIZE + SizeofNET_COMPRESS <= NET_DATA_MSG_BUFSIZE

EmptyBuffer == [msgs |-> << >>, pos |-> 0]

(* Faulty variant: the length check is missing.                             *)
BadAddMsgAnySize(b, m) ==
  IF b.pos + m.size < COMPRESS_PACKET_SIZE THEN "BUFFER_ADDED"
  ELSE IF b.pos = 0 THEN "BUFFER_SEND" ELSE "BUFFER_SEND_ADD"

(* What addMsg answers; it changes the buffer only for ADDED and SEND.      *)
addMsgResult(b, m) ==
  CASE m.size > NET_DATA_BUFSIZE                      -> "BUFFER_ERROR"
    [] /\ m.size <= NET_DATA_BUFSIZE
       /\ b.pos + m.size < COMPRESS_PACKET_SIZE       -> "BUFFER_ADDED"
    [] /\ m.size <= NET_DATA_BUFSIZE
       /\ b.pos + m.size >= COMPRESS_PACKET_SIZE
       /\ b.pos = 0                                   -> "BUFFER_SEND"
    [] OTHER                                          -> "BUFFER_SEND_ADD"

(* The buffer addMsg leaves: a message is copied behind the others while    *)
(* the batch stays below the threshold, alone at the front of an empty      *)
(* buffer when it reaches the threshold by itself, and not at all otherwise.*)
addMsg(b, m) ==
  CASE addMsgResult(b, m) = "BUFFER_ADDED" ->
         [msgs |-> Append(b.msgs, m), pos |-> b.pos + m.size]
    [] addMsgResult(b, m) = "BUFFER_SEND"  ->
         [msgs |-> << m >>, pos |-> m.size]
    [] OTHER -> b

(* getSendSize answers 0 for an empty buffer; otherwise it packs the whole  *)
(* batch into one envelope and empties the buffer.  Whether LZO shrank the  *)
(* batch only changes the flag in the envelope.                             *)
HasBatch(b) == b.pos # 0
getSendBuffer(b) == b.msgs

(* What Session::Send makes of one message, by the answer of addMsg: the    *)
(* messages of the batch it queues for the socket, and the buffer it leaves.*)
(* After BUFFER_SEND_ADD the message is added to the emptied buffer and the *)
(* answer of that second addMsg is ignored.                                 *)
BadSendsNewestFirst(b, m) ==
  IF addMsgResult(b, m) \in {"BUFFER_SEND", "BUFFER_SEND_ADD"} THEN << m >> ELSE << >>

SentNow(b, m) ==
  CASE addMsgResult(b, m) = "BUFFER_SEND"     -> << m >>
    [] addMsgResult(b, m) = "BUFFER_SEND_ADD" -> b.msgs
    [] OTHER                                  -> << >>

LeftInBuffer(b, m) ==
  CASE addMsgResult(b, m) = "BUFFER_SEND"     -> EmptyBuffer
    [] addMsgResult(b, m) = "BUFFER_SEND_ADD" -> addMsg(EmptyBuffer, m)
    [] OTHER                                  -> addMsg(b, m)
==============================================================================
