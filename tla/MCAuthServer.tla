---------------------------- MODULE MCAuthServer ----------------------------
(***************************************************************************)
(* AuthServer with a cipher of two rounds on words of two bytes, a byte    *)
(* being half a byte of the code's.  szAuthData takes five and a half      *)
(* blocks, as that of the code takes 31 and a quarter.                     *)
(***************************************************************************)
EXTENDS AuthServer

ClientSymmetry == Permutations(Clients)

SmallKey == << 3, 14, 0, 9 >>

IP == 12   (* a character of an address *)
GoodKey == << 13 >>
BadKey  == << 14 >>
Suffix  == << 15 >>
Number(n) == to_string(n)

Sealed(fields) == [type |-> "request", fields |-> fields, authData |-> Seal(fields)]

(* A login server, a session server whose port has a leading 0, one more    *)
(* field than needed with an empty number and an address that does not fit  *)
(* szServerIP, an answer that does not fit szAuthData, an empty key; too    *)
(* few fields.                                                              *)
Login   == Sealed(<< Number(0), Number(1), << IP >>, Number(7), GoodKey >>)
Session == Sealed(<< Number(0), Number(2), << IP >>, << 1 >> \o Number(8), BadKey >>)
Extra   == Sealed(<< << >>, Number(1), << IP, IP, IP, IP >>, Number(7), GoodKey, << 5 >> >>)
Long    == Sealed(<< Number(0), Number(1), << IP, IP, IP, IP, IP, IP, IP, IP, IP >>, Number(7), GoodKey >>)
NoKey   == Sealed(<< Number(0), Number(2), << IP >>, Number(7), << >> >>)
Few     == Sealed(<< Number(0), Number(1), << IP >>, GoodKey >>)

(* A digit lost, one that is none, a block lost, nothing; a short message   *)
(* and one of another type.                                                 *)
Damaged(authData) == [type |-> "request", fields |-> << >>, authData |-> authData]

SmallMessages ==
  {Login, Session, Extra, Long, NoKey, Few,
   Damaged(Tail(Login.authData)), Damaged([Login.authData EXCEPT ![2] = NotHex, ![Len(Login.authData)] = NotHex]),
   Damaged(SubSeq(Login.authData, 1, 2 * Block)), Damaged(<< >>),
   [type |-> "short", fields |-> << >>, authData |-> << >>],
   [type |-> "other", fields |-> << >>, authData |-> << >>]}
=============================================================================
