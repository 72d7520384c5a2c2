----------------------------- MODULE AuthCrypto -----------------------------
(***************************************************************************)
(* servers/authserver/auth_crypto.cpp: RC5 in CBC mode with PKCS#7 padding *)
(* and hexadecimal digits, with its arithmetic modulo the word size.  The  *)
(* code has digits of 4 bits, words of 4 bytes and 16 rounds; the sizes    *)
(* are parameters here, and a byte is two hexadecimal digits.              *)
(*                                                                         *)
(* A text is a sequence of bytes.  A digit is 0..Digit - 1; NotHex stands  *)
(* for every other character.                                              *)
(***************************************************************************)
EXTENDS Integers, Sequences

CONSTANTS
  DigitBits,    (* bits of a hexadecimal digit (4)                           *)
  WordBytes,    (* bytes of an RC5 word (4)                                  *)
  Rounds,       (* r (16)                                                    *)
  MAGIC_P,
  MAGIC_Q,
  Key           (* the 16 characters of the key                              *)

pow2[n \in Nat] == IF n = 0 THEN 1 ELSE 2 * pow2[n - 1]

ByteBits == 2 * DigitBits
WordBits == ByteBits * WordBytes

Digit == pow2[DigitBits]
Byte  == pow2[ByteBits]
Word  == pow2[WordBits]
Block == 2 * WordBytes
NotHex == Digit

Bytes == 0..Byte - 1
Words == 0..Word - 1
Texts == Seq(Bytes)

(* A block of padding must fit a byte.                                      *)
ASSUME CryptoAssumption ==
  /\ {DigitBits, WordBytes, Rounds} \subseteq Nat \ {0}
  /\ Block < Byte
  /\ {MAGIC_P, MAGIC_Q} \subseteq Words
  /\ Key \in Texts

-----------------------------------------------------------------------------
(* Exclusive or, from the lowest bit on.                                    *)
xor[p \in Nat \X Nat] ==
  IF p = << 0, 0 >> THEN 0 ELSE ((p[1] + p[2]) % 2) + 2 * xor[<< p[1] \div 2, p[2] \div 2 >>]

x ^^ y == xor[<< x, y >>]

(* Words.  The rotation by 0 shifts by the width of a word, which C++ leaves*)
(* undefined; compilers recognise the idiom and processors take the shift   *)
(* modulo the width, and the value is unchanged either way.                 *)
rotl(val, shift) ==
  LET s == shift % WordBits IN ((val * pow2[s]) % Word) + (val \div pow2[WordBits - s])

rotr(val, shift) == rotl(val, WordBits - (shift % WordBits))

Plus(x, y)  == (x + y) % Word
Minus(x, y) == (x - y) % Word

(* The least significant byte comes first, here and in the blocks.          *)
WordOf(bytes) ==
  LET n == Len(bytes)
      high[k \in 0..n] == IF k = 0 THEN 0 ELSE bytes[n + 1 - k] + Byte * high[k - 1]
  IN  high[n]
BytesOf(word) == [k \in 1..WordBytes |-> (word \div pow2[ByteBits * (k - 1)]) % Byte]

-----------------------------------------------------------------------------
(* std::max((keylen + 3) / 4, 1U) words, the last one filled up with 0.     *)
KeyWords ==
  LET c == (Len(Key) + WordBytes - 1) \div WordBytes
  IN  IF c = 0 THEN << 0 >> ELSE
        [j \in 1..c |-> WordOf(SubSeq(Key, (j - 1) * WordBytes + 1, IF j = c THEN Len(Key) ELSE j * WordBytes))]

TableSize == 2 * (Rounds + 1)

Mix(m, h) ==
  LET i == ((h - 1) % TableSize) + 1
      j == ((h - 1) % Len(KeyWords)) + 1
      a == rotl((m.s[i] + m.a + m.b) % Word, 3)
      b == rotl((m.l[j] + a + m.b) % Word, Plus(a, m.b))
  IN  [a |-> a, b |-> b, l |-> [m.l EXCEPT ![j] = b], s |-> [m.s EXCEPT ![i] = a]]

KeyExpand ==
  LET n == 3 * (IF TableSize > Len(KeyWords) THEN TableSize ELSE Len(KeyWords))
      mixed[h \in 0..n] ==
        IF h = 0
          THEN [a |-> 0, b |-> 0, l |-> KeyWords, s |-> [j \in 1..TableSize |-> (MAGIC_P + (j - 1) * MAGIC_Q) % Word]]
          ELSE Mix(mixed[h - 1], h)
  IN  mixed[n].s

sTable == KeyExpand

-----------------------------------------------------------------------------
(* Block k of n elements, and the blocks in a row.                          *)
Slice(s, n, k)  == [i \in 1..n |-> s[(k - 1) * n + i]]
InARow(n, parts) == [i \in 1..n * Len(parts) |-> parts[((i - 1) \div n) + 1][((i - 1) % n) + 1]]

BlockOf(ab)   == BytesOf(ab[1]) \o BytesOf(ab[2])
WordsOf(block) == << WordOf(Slice(block, WordBytes, 1)), WordOf(Slice(block, WordBytes, 2)) >>

Round(ab, i) ==
  LET a == Plus(rotl(ab[1] ^^ ab[2], ab[2]), sTable[2 * i + 1])
  IN  << a, Plus(rotl(a ^^ ab[2], a), sTable[2 * i + 2]) >>

Unround(ab, i) ==
  LET b == rotr(Minus(ab[2], sTable[2 * i + 2]), ab[1]) ^^ ab[1]
  IN  << rotr(Minus(ab[1], sTable[2 * i + 1]), b) ^^ b, b >>

EncryptBlock(block) ==
  LET ab == WordsOf(block)
      round[i \in 0..Rounds] ==
        IF i = 0 THEN << Plus(ab[1], sTable[1]), Plus(ab[2], sTable[2]) >> ELSE Round(round[i - 1], i)
  IN  BlockOf(round[Rounds])

DecryptBlock(block) ==
  LET undone[k \in 0..Rounds] == IF k = 0 THEN WordsOf(block) ELSE Unround(undone[k - 1], Rounds + 1 - k)
      ab == undone[Rounds]
  IN  BlockOf(<< Minus(ab[1], sTable[1]), Minus(ab[2], sTable[2]) >>)

-----------------------------------------------------------------------------
HexEncode(bytes) ==
  [i \in 1..2 * Len(bytes) |->
     LET byte == bytes[(i + 1) \div 2] IN IF i % 2 = 1 THEN byte \div Digit ELSE byte % Digit]

(* strtol stops at the first character that is no digit.  A blank or a sign *)
(* in front of a digit, which it would skip or apply, is NotHex like any    *)
(* other damage, and the byte 0.                                            *)
HexByte(high, low) ==
  IF high = NotHex THEN 0 ELSE IF low = NotHex THEN high ELSE Digit * high + low

HexDecode(hex) ==
  IF Len(hex) % 2 # 0 THEN << >> ELSE [i \in 1..Len(hex) \div 2 |-> HexByte(hex[2 * i - 1], hex[2 * i])]

-----------------------------------------------------------------------------
iv == [i \in 1..Block |-> 1]
Xored(x, y) == [i \in 1..Block |-> x[i] ^^ y[i]]

Padded(plaintext) ==
  LET padLen == Block - (Len(plaintext) % Block) IN plaintext \o [i \in 1..padLen |-> padLen]

EncryptAuthData(plaintext) ==
  LET padded == Padded(plaintext)
      n      == Len(padded) \div Block
      cipher[k \in 0..n] ==
        IF k = 0 THEN iv ELSE EncryptBlock(Xored(Slice(padded, Block, k), cipher[k - 1]))
  IN  HexEncode(InARow(Block, [k \in 1..n |-> cipher[k]]))

(* The empty text says that the padding is wrong, or that there is nothing  *)
(* but padding.                                                             *)
Unpadded(plaintext) ==
  LET padLen == plaintext[Len(plaintext)]
      length == Len(plaintext) - padLen
  IN  IF padLen > Block \/ padLen = 0 \/ \E i \in length + 1..Len(plaintext) : plaintext[i] # padLen
        THEN << >>
        ELSE SubSeq(plaintext, 1, length)

DecryptAuthData(encryptedHex) ==
  LET cipher == HexDecode(encryptedHex)
      n      == Len(cipher) \div Block
  IN  IF cipher = << >> \/ Len(cipher) % Block # 0 THEN << >> ELSE
        Unpadded(InARow(Block, [k \in 1..n |->
          Xored(DecryptBlock(Slice(cipher, Block, k)), IF k = 1 THEN iv ELSE Slice(cipher, Block, k - 1))]))
=============================================================================
