---------------------------- MODULE FifoChannel ----------------------------
(***************************************************************************)
(* What a session promises its server: messages go to the client in the    *)
(* order they were sent, in runs of one or more, until the link breaks;    *)
(* then nothing more goes out.  A link that stays up delivers everything.  *)
(***************************************************************************)
EXTENDS Naturals, Sequences

CONSTANTS Messages

VARIABLES
  sent,       (* messages accepted so far                   *)
  delivered,  (* messages handed to the transport so far    *)
  broken      (* the link is down for good                  *)

vars == << sent, delivered, broken >>

Init ==
  /\ sent = << >>
  /\ delivered = << >>
  /\ broken = FALSE

Send ==
  /\ \E m \in Messages : sent' = Append(sent, m)
  /\ UNCHANGED << delivered, broken >>

Deliver ==
  /\ ~broken
  /\ \E k \in Len(delivered) + 1 .. Len(sent) : delivered' = SubSeq(sent, 1, k)
  /\ UNCHANGED << sent, broken >>

Break ==
  /\ broken' = TRUE
  /\ UNCHANGED << sent, delivered >>

Next == Send \/ Deliver \/ Break

Spec == Init /\ [][Next]_vars /\ WF_vars(Deliver)

(* The fairness of Spec with the enabling condition of Deliver spelled out. *)
Delivers == []<>(broken \/ delivered = sent) \/ []<><<Deliver>>_vars
=============================================================================
