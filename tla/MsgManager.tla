----------------------------- MODULE MsgManager -----------------------------
(***************************************************************************)
(* The double-buffered receive queue, net/msg_manager.h, as operators on   *)
(* its two deques.  Every operation holds m_mx from its first line to its  *)
(* last, so each is one step of the module that uses it.                   *)
(***************************************************************************)
EXTENDS Sequences

EmptyQueues == [front |-> << >>, back |-> << >>]

(* Faulty variant: the newest message first.                                *)
BadInsertAtFront(q, msg) == [q EXCEPT !.front = << msg >> \o @]

MsgQueueInsert(q, msg) == [q EXCEPT !.front = Append(@, msg)]

(* Everything in Front goes behind what is still in Back.                   *)
MsgQueueFlip(q) == [front |-> << >>, back |-> q.back \o q.front]

(* GetMsg looks at Back only and pops its first message.                    *)
CanGetMsg(q) == q.back # << >>
GetMsg(q)    == Head(q.back)
Popped(q)    == [q EXCEPT !.back = Tail(@)]

(* What has been inserted and not yet been handed out, oldest first.        *)
Content(q) == q.back \o q.front
=============================================================================
