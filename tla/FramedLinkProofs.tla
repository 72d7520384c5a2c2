-------------------------- MODULE FramedLinkProofs --------------------------
(***************************************************************************)
(* What the framer cuts out of a byte stream is what the peer put in, for  *)
(* every size of message, of buffer and of read.  The stream is described  *)
(* twice: by its bytes, which add up to what the reader holds and what it  *)
(* has not read, and by its messages, which continue what has been cut up  *)
(* to the last message sent.                                               *)
(***************************************************************************)
EXTENDS FramedLink, PrefixLemmas

(* b is what stands in a behind its first k elements.                       *)
Segment(b, k, a) == k + Len(b) <= Len(a) /\ \A j \in 1..Len(b) : b[j] = a[k + j]

(* The fields of that name in s add up to total: r counts what remains.     *)
Adds(s, field, total) ==
  \E r \in [0..Len(s) -> Nat] :
    /\ r[0] = total /\ r[Len(s)] = 0
    /\ \A i \in 1..Len(s) : r[i - 1] = s[i][field] + r[i]

(* The first g frames of s hold the messages of a behind the first k.       *)
Chain(s, g, k, a) ==
  \E p \in [0..g -> Nat] :
    /\ p[0] = k /\ p[g] = Len(a)
    /\ \A i \in 1..g : p[i] = p[i - 1] + Len(s[i].inner) /\ Segment(s[i].inner, p[i - 1], a)

-----------------------------------------------------------------------------
(* Nothing adds up to zero.                                                 *)
LEMMA AddsEmpty ==
  ASSUME NEW field, NEW total
  PROVE  Adds(<< >>, field, total) <=> total = 0
<1>1. Len(<< >>) = 0
  OBVIOUS
<1>2. ASSUME Adds(<< >>, field, total) PROVE total = 0
  BY <1>1, <1>2 DEF Adds
<1>3. ASSUME total = 0 PROVE Adds(<< >>, field, total)
  <2> DEFINE r == [i \in 0..0 |-> 0]
  <2>1. r \in [0..0 -> Nat] /\ r[0] = total
    BY <1>3
  <2>2. 1..0 = {}
    OBVIOUS
  <2> HIDE DEF r
  <2>3. /\ r \in [0..Len(<< >>) -> Nat] /\ r[0] = total /\ r[Len(<< >>)] = 0
        /\ \A i \in 1..Len(<< >>) : r[i - 1] = << >>[i][field] + r[i]
    BY <1>1, <1>3, <2>1, <2>2
  <2> QED
    BY <2>3 DEF Adds
<1> QED
  BY <1>2, <1>3

(* One more element adds its share.                                         *)
LEMMA AddsAppend ==
  ASSUME NEW S, NEW s \in Seq(S), NEW x \in S, NEW field, NEW total \in Nat,
         \A y \in S : y[field] \in Nat, Adds(s, field, total)
  PROVE  Adds(Append(s, x), field, total + x[field])
<1> DEFINE n == Len(s)
           w == x[field]
           t == Append(s, x)
<1>1. /\ n \in Nat /\ w \in Nat
      /\ Len(t) = n + 1 /\ t[n + 1] = x /\ \A i \in 1..n : t[i] = s[i]
  BY LenProperties, AppendProperties
<1>2. PICK r \in [0..n -> Nat] :
        r[0] = total /\ r[n] = 0 /\ \A i \in 1..n : r[i - 1] = s[i][field] + r[i]
  BY DEF Adds
<1> HIDE DEF n, w, t
<1> DEFINE q == [i \in 0..n + 1 |-> IF i = n + 1 THEN 0 ELSE r[i] + w]
<1>3. q \in [0..n + 1 -> Nat]
  BY <1>1, <1>2
<1>4. /\ q[n + 1] = 0 /\ q[0] = total + w /\ q[n] = w
      /\ \A i \in 0..n : q[i] = r[i] + w
  BY <1>1, <1>2
<1>5. ASSUME NEW i \in 1..n + 1 PROVE q[i - 1] = t[i][field] + q[i]
  <2>1. CASE i = n + 1
    <3>1. i - 1 = n /\ t[i][field] = w
      BY <1>1, <2>1 DEF w
    <3> QED
      BY <1>1, <1>4, <2>1, <3>1
  <2>2. CASE i \in 1..n
    <3>1. i \in 0..n /\ i - 1 \in 0..n /\ t[i][field] = s[i][field]
      BY <1>1, <2>2
    <3>2. r[i - 1] = t[i][field] + r[i] /\ r[i] \in Nat /\ r[i - 1] \in Nat
      BY <1>2, <2>2, <3>1
    <3>3. q[i] = r[i] + w /\ q[i - 1] = r[i - 1] + w
      BY <1>4, <3>1
    <3>4. t[i][field] \in Nat
      BY <2>2, <3>1, ElementOfSeq DEF n
    <3> QED
      BY <1>1, <3>2, <3>3, <3>4
  <2> QED
    BY <1>1, <2>1, <2>2
<1> HIDE DEF q
<1>6. Adds(t, field, total + w)
  BY <1>1, <1>3, <1>4, <1>5 DEF Adds
<1> QED
  BY <1>6 DEF t, w

(* Without the first element its share is gone.                             *)
LEMMA AddsTail ==
  ASSUME NEW S, NEW s \in Seq(S), s # << >>, NEW field, NEW total \in Nat,
         \A y \in S : y[field] \in Nat, Adds(s, field, total)
  PROVE  Head(s)[field] <= total /\ Adds(Tail(s), field, total - Head(s)[field])
<1> DEFINE n == Len(s)
           w == Head(s)[field]
           t == Tail(s)
<1>1. /\ n \in Nat \ {0} /\ w \in Nat /\ Head(s) = s[1]
      /\ Len(t) = n - 1 /\ \A i \in 1..n - 1 : t[i] = s[i + 1]
  BY EmptySeq, HeadTailProperties
<1>2. PICK r \in [0..n -> Nat] :
        r[0] = total /\ r[n] = 0 /\ \A i \in 1..n : r[i - 1] = s[i][field] + r[i]
  BY DEF Adds
<1>3. total = w + r[1] /\ r[1] \in Nat
  BY <1>1, <1>2
<1> HIDE DEF n, w, t
<1> DEFINE q == [i \in 0..n - 1 |-> r[i + 1]]
<1>4. q \in [0..n - 1 -> Nat] /\ q[0] = r[1] /\ q[n - 1] = 0
  BY <1>1, <1>2
<1>5. ASSUME NEW i \in 1..n - 1 PROVE q[i - 1] = t[i][field] + q[i]
  <2>1. i + 1 \in 1..n /\ (i + 1) - 1 = i /\ t[i] = s[i + 1]
    BY <1>1
  <2>2. r[i] = t[i][field] + r[i + 1]
    BY <1>2, <2>1
  <2>3. q[i] = r[i + 1] /\ q[i - 1] = r[i]
    BY <1>1
  <2> QED
    BY <2>2, <2>3
<1> HIDE DEF q
<1>6. Adds(t, field, total - w)
  <2>1. total - w = r[1] /\ w <= total
    BY <1>1, <1>3
  <2> QED
    BY <1>1, <1>4, <1>5, <2>1 DEF Adds
<1> QED
  BY <1>1, <1>3, <1>6 DEF t, w

-----------------------------------------------------------------------------
(* What stands in a sequence still does when the sequence has grown.        *)
LEMMA SegmentGrows ==
  ASSUME NEW S, NEW b \in Seq(S), NEW a \in Seq(S), NEW c \in Seq(S), NEW k \in Nat, Segment(b, k, a)
  PROVE  Segment(b, k, a \o c)
<1>1. /\ Len(a) \in Nat /\ Len(b) \in Nat /\ Len(c) \in Nat /\ Len(a \o c) = Len(a) + Len(c)
      /\ \A i \in 1..Len(a) : (a \o c)[i] = a[i]
  BY LenProperties, ConcatProperties
<1>2. \A j \in 1..Len(b) : k + j \in 1..Len(a) /\ b[j] = a[k + j]
  BY <1>1 DEF Segment
<1> QED
  BY <1>1, <1>2 DEF Segment

(* The end of a concatenation is what was put there.                        *)
LEMMA SegmentEnd ==
  ASSUME NEW S, NEW a \in Seq(S), NEW c \in Seq(S)
  PROVE  Segment(c, Len(a), a \o c)
<1>1. /\ Len(a) \in Nat /\ Len(c) \in Nat /\ Len(a \o c) = Len(a) + Len(c)
      /\ \A j \in 1..Len(c) : (a \o c)[Len(a) + j] = c[j]
  BY LenProperties, ConcatProperties
<1> QED
  BY <1>1 DEF Segment

(* Two adjacent segments are one.                                           *)
LEMMA SegmentConcat ==
  ASSUME NEW S, NEW b \in Seq(S), NEW c \in Seq(S), NEW a \in Seq(S), NEW k \in Nat,
         Segment(b, k, a), Segment(c, k + Len(b), a)
  PROVE  Segment(b \o c, k, a)
<1>1. /\ Len(a) \in Nat /\ Len(b) \in Nat /\ Len(c) \in Nat /\ Len(b \o c) = Len(b) + Len(c)
      /\ \A j \in 1..Len(b) : (b \o c)[j] = b[j]
      /\ \A j \in Len(b) + 1..Len(b) + Len(c) : (b \o c)[j] = c[j - Len(b)]
  BY LenProperties, ConcatProperties
<1>2. ASSUME NEW j \in 1..Len(b) + Len(c) PROVE (b \o c)[j] = a[k + j]
  <2>1. CASE j \in 1..Len(b)
    BY <1>1, <2>1 DEF Segment
  <2>2. CASE j \in Len(b) + 1..Len(b) + Len(c)
    <3>1. j - Len(b) \in 1..Len(c) /\ k + Len(b) + (j - Len(b)) = k + j
      BY <1>1, <2>2
    <3>2. c[j - Len(b)] = a[k + j]
      BY <3>1 DEF Segment
    <3> QED
      BY <1>1, <2>2, <3>2
  <2> QED
    BY <1>1, <2>1, <2>2
<1> QED
  BY <1>1, <1>2 DEF Segment

(* A segment is its first element and the segment behind it.                *)
LEMMA SegmentTail ==
  ASSUME NEW S, NEW b \in Seq(S), b # << >>, NEW a \in Seq(S), NEW k \in Nat, Segment(b, k, a)
  PROVE  Segment(<< Head(b) >>, k, a) /\ Segment(Tail(b), k + 1, a)
<1>1. /\ Len(a) \in Nat /\ Len(b) \in Nat \ {0} /\ Head(b) = b[1]
      /\ Len(Tail(b)) = Len(b) - 1 /\ \A j \in 1..Len(b) - 1 : Tail(b)[j] = b[j + 1]
  BY EmptySeq, LenProperties, HeadTailProperties
<1>2. k + Len(b) <= Len(a) /\ \A j \in 1..Len(b) : b[j] = a[k + j]
  BY DEF Segment
<1>3. Segment(<< Head(b) >>, k, a)
  <2>1. Len(<< b[1] >>) = 1 /\ << b[1] >>[1] = b[1]
    OBVIOUS
  <2> QED
    BY <1>1, <1>2, <2>1 DEF Segment
<1>4. ASSUME NEW j \in 1..Len(b) - 1 PROVE Tail(b)[j] = a[k + 1 + j]
  <2>1. j + 1 \in 1..Len(b) /\ k + (j + 1) = k + 1 + j
    BY <1>1
  <2> QED
    BY <1>1, <1>2, <2>1
<1> QED
  BY <1>1, <1>2, <1>3, <1>4 DEF Segment

(* What stands in a sequence has its elements.                              *)
LEMMA SegmentType ==
  ASSUME NEW S, NEW T, NEW b \in Seq(T), NEW a \in Seq(S), NEW k \in Nat, Segment(b, k, a)
  PROVE  b \in Seq(S)
<1>1. /\ Len(a) \in Nat /\ Len(b) \in Nat /\ b \in [1..Len(b) -> T]
      /\ \A i \in 1..Len(a) : a[i] \in S
  BY LenProperties, ElementOfSeq
<1>2. \A j \in 1..Len(b) : k + j \in 1..Len(a) /\ b[j] = a[k + j]
  BY <1>1 DEF Segment
<1>3. b \in [1..Len(b) -> S]
  BY <1>1, <1>2
<1> QED
  BY <1>1, <1>3

(* What is as long as the whole, and stands in it, is the whole.            *)
LEMMA SegmentWhole ==
  ASSUME NEW S, NEW b \in Seq(S), NEW a \in Seq(S), Segment(b, 0, a), Len(b) = Len(a)
  PROVE  b = a
<1>1. \A j \in 1..Len(b) : b[j] = a[j]
  BY LenProperties DEF Segment
<1> QED
  BY <1>1, SeqEqual

-----------------------------------------------------------------------------
(* A frame written behind a whole chain, with its messages behind what was  *)
(* sent, makes a whole chain.                                               *)
LEMMA ChainAppend ==
  ASSUME NEW M, NEW F, \A y \in F : y.inner \in Seq(M),
         NEW s \in Seq(F), NEW f \in F, NEW a \in Seq(M), NEW k \in Nat,
         Chain(s, Len(s), k, a)
  PROVE  Chain(Append(s, f), Len(s) + 1, k, a \o f.inner)
<1> DEFINE n == Len(s)
           t == Append(s, f)
           b == a \o f.inner
<1>1. /\ n \in Nat /\ Len(t) = n + 1 /\ t[n + 1] = f /\ \A i \in 1..n : t[i] = s[i] /\ s[i] \in F
      /\ f.inner \in Seq(M) /\ Len(a) \in Nat /\ Len(f.inner) \in Nat /\ Len(b) = Len(a) + Len(f.inner)
  BY LenProperties, AppendProperties, ConcatProperties
<1>2. PICK p \in [0..n -> Nat] :
        /\ p[0] = k /\ p[n] = Len(a)
        /\ \A i \in 1..n : p[i] = p[i - 1] + Len(s[i].inner) /\ Segment(s[i].inner, p[i - 1], a)
  BY DEF Chain
<1>3. ASSUME NEW i \in 1..n PROVE Segment(s[i].inner, p[i - 1], b)
  <2>0. n \in Nat /\ i - 1 \in 0..n
    BY <1>1
  <2>1. p[i - 1] \in Nat /\ s[i].inner \in Seq(M) /\ f.inner \in Seq(M) /\ Segment(s[i].inner, p[i - 1], a)
    <3> HIDE DEF n
    <3> QED
      BY <1>1, <1>2, <2>0
  <2> QED
    BY <2>1, SegmentGrows
<1>4. Segment(f.inner, Len(a), b)
  BY <1>1, SegmentEnd
<1> HIDE DEF n, t, b
<1> DEFINE q == [i \in 0..n + 1 |-> IF i = n + 1 THEN Len(b) ELSE p[i]]
<1>5. /\ q \in [0..n + 1 -> Nat] /\ q[0] = k /\ q[n + 1] = Len(b)
      /\ \A i \in 0..n : q[i] = p[i]
  BY <1>1, <1>2
<1> HIDE DEF q
<1>6. ASSUME NEW i \in 1..n + 1
      PROVE  q[i] = q[i - 1] + Len(t[i].inner) /\ Segment(t[i].inner, q[i - 1], b)
  <2>1. CASE i = n + 1
    <3>1. i - 1 = n /\ t[i] = f /\ q[i - 1] = Len(a) /\ q[i] = Len(a) + Len(f.inner)
      BY <1>1, <1>2, <1>5, <2>1
    <3> QED
      BY <1>4, <3>1
  <2>2. CASE i \in 1..n
    <3>1. t[i] = s[i] /\ q[i] = p[i] /\ q[i - 1] = p[i - 1]
      BY <1>1, <1>5, <2>2
    <3> QED
      BY <1>2, <1>3, <2>2, <3>1
  <2> QED
    BY <1>1, <2>1, <2>2
<1>7. Chain(t, n + 1, k, b)
  BY <1>5, <1>6 DEF Chain
<1> QED
  BY <1>7 DEF t, n, b

(* A frame outside the chain changes nothing in it.                         *)
LEMMA ChainBeside ==
  ASSUME NEW F, NEW s \in Seq(F), NEW f \in F, NEW a, NEW k, NEW g \in 0..Len(s), Chain(s, g, k, a)
  PROVE  Chain(Append(s, f), g, k, a)
<1>1. \A i \in 1..g : Append(s, f)[i] = s[i]
  BY LenProperties, AppendProperties
<1> QED
  BY <1>1 DEF Chain

(* The chain behind its first frame.                                        *)
LEMMA ChainTail ==
  ASSUME NEW F, NEW s \in Seq(F), NEW a, NEW k \in Nat, NEW g \in 1..Len(s), Chain(s, g, k, a)
  PROVE  /\ Segment(Head(s).inner, k, a)
         /\ k + Len(Head(s).inner) \in Nat
         /\ Chain(Tail(s), g - 1, k + Len(Head(s).inner), a)
<1> DEFINE t == Tail(s)
<1>1. g \in Nat \ {0} /\ Head(s) = s[1] /\ \A i \in 1..g - 1 : t[i] = s[i + 1]
  BY EmptySeq, LenProperties, HeadTailProperties
<1>2. PICK p \in [0..g -> Nat] :
        /\ p[0] = k /\ p[g] = Len(a)
        /\ \A i \in 1..g : p[i] = p[i - 1] + Len(s[i].inner) /\ Segment(s[i].inner, p[i - 1], a)
  BY DEF Chain
<1>3. p[1] = k + Len(Head(s).inner) /\ p[1] \in Nat /\ Segment(Head(s).inner, k, a)
  <2>1. 1 \in 1..g /\ 1 \in 0..g /\ 1 - 1 = 0
    BY <1>1
  <2>2. p[1] = p[1 - 1] + Len(s[1].inner) /\ Segment(s[1].inner, p[1 - 1], a)
    BY <1>2, <2>1
  <2> QED
    BY <1>1, <1>2, <2>1, <2>2
<1> HIDE DEF t
<1> DEFINE q == [i \in 0..g - 1 |-> p[i + 1]]
<1>4. q \in [0..g - 1 -> Nat] /\ q[0] = p[1] /\ q[g - 1] = Len(a)
  BY <1>1, <1>2
<1>5. ASSUME NEW i \in 1..g - 1
      PROVE  q[i] = q[i - 1] + Len(t[i].inner) /\ Segment(t[i].inner, q[i - 1], a)
  <2>1. i + 1 \in 1..g /\ (i + 1) - 1 = i /\ t[i] = s[i + 1] /\ q[i] = p[i + 1] /\ q[i - 1] = p[i]
    BY <1>1
  <2> QED
    BY <1>2, <2>1
<1> HIDE DEF q
<1>6. Chain(t, g - 1, p[1], a)
  BY <1>4, <1>5 DEF Chain
<1> QED
  BY <1>3, <1>6 DEF t

(* A chain of no frame is at the end.                                       *)
LEMMA ChainEnds ==
  ASSUME NEW s, NEW a, NEW k, Chain(s, 0, k, a)
  PROVE  k = Len(a)
BY DEF Chain

-----------------------------------------------------------------------------
(* A frame that the peer is allowed to write: the lengths agree, and the    *)
(* messages of an envelope fill it.                                         *)
GoodFrame(f) ==
  /\ f \in Frame
  /\ f.dwSize = f.bytes
  /\ f.dwSize \in kHeaderSize..kMaxMessageSize
  /\ f.kind \in {"message", "raw", "lzo"}
  /\ f.inner \in Seq(Message)
  /\ f.kind # "message" => f.dwSize >= SizeofNET_COMPRESS /\ Adds(f.inner, "size", f.length)

(* How many frames of the stream are well-formed: all but a last one.       *)
Intact == Len(stream) - (IF garbled THEN 1 ELSE 0)

(* How many messages have been delivered or are about to be.                *)
Taken == Len(delivered) + (IF at \in {"cut", "unpack", "deliver"} THEN Len(msgs) ELSE 0)

(* The bytes of the stream are those that m_buf holds and those not read.   *)
Wire ==
  /\ \A i \in 1..Intact : GoodFrame(stream[i])
  /\ garbled => stream # << >> /\ stream[Len(stream)] \in BadFrames
  /\ Adds(stream, "bytes", unread + m_buf)

(* A good envelope being unpacked: what is left of it continues msgs, and   *)
(* the frames behind it continue that.                                      *)
UnpacksGood ==
  /\ Intact >= 1
  /\ Head(stream).dwSize <= m_buf
  /\ Segment(msgs, Len(delivered), sent)
  /\ Segment(inner, Taken, sent)
  /\ Adds(inner, "size", left)
  /\ Chain(Tail(stream), Intact - 1, Taken + Len(inner), sent)

(* Misfits without its bound on what remains, which a reader of the         *)
(* envelope that has passed some messages no longer knows.                  *)
DoesNotFit(messages, length) ==
  \E k \in 1..Len(messages) : \E rest \in [1..k -> Nat] :
    /\ rest[1] = length
    /\ \A i \in 1..k - 1 : /\ messages[i].size \in kHeaderSize..rest[i]
                           /\ rest[i + 1] = rest[i] - messages[i].size
    /\ rest[k] >= kHeaderSize
    /\ messages[k].size \notin kHeaderSize..rest[k]

(* A malformed one: the message that does not fit is still to come.         *)
UnpacksBad == garbled /\ Intact = 0 /\ DoesNotFit(inner, left)

(* What has been delivered, what has been cut and what is still in the      *)
(* stream are, one behind the other, the messages sent.                     *)
InFlight ==
  /\ Segment(delivered, 0, sent)
  /\ at \in {"cut", "deliver"} => Segment(msgs, Len(delivered), sent)
  /\ at \in {"read", "cut", "deliver"} => Chain(stream, Intact, Taken, sent)
  /\ at = "unpack" => UnpacksGood \/ UnpacksBad

(* Between two reads the framer holds less than a frame.                    *)
Waiting == at \in {"deliver", "read"} /\ HeaderComplete => ~BadSize /\ ~Complete

LinkInvariant ==
  /\ TypeOK
  /\ Wire
  /\ InFlight
  /\ Waiting
  /\ at = "closed" => garbled
  /\ Adds(m_sendBuffer.msgs, "size", m_sendBuffer.pos)

-----------------------------------------------------------------------------
(* How the limits of the two ends relate.                                   *)
LEMMA Limits ==
  /\ kHeaderSize \in Nat \ {0} /\ kMaxMessageSize \in Nat /\ SizeofNET_COMPRESS \in Nat
  /\ NET_DATA_BUFSIZE \in Nat /\ COMPRESS_PACKET_SIZE \in Nat \ {0}
  /\ COMPRESS_PACKET_SIZE <= NET_DATA_BUFSIZE
  /\ kHeaderSize <= SizeofNET_COMPRESS
  /\ SizeofNET_COMPRESS + NET_DATA_BUFSIZE <= kMaxMessageSize
  /\ MaxMessages \in Nat
BY BufferSizesAssumption, FramerAssumption, LinkAssumption

(* The elements of the sequences of the model.                              *)
LEMMA Elements ==
  /\ \A m \in Message : m.size \in Nat /\ m.size >= kHeaderSize
  /\ Message \subseteq InnerMessage
  /\ \A m \in InnerMessage : m.size \in Nat /\ m["size"] = m.size /\ m["size"] \in Nat
  /\ \A f \in Frame : /\ f.bytes \in Nat /\ f["bytes"] = f.bytes /\ f["bytes"] \in Nat
                      /\ f.inner \in Seq(InnerMessage) /\ f.dwSize \in Nat /\ f.length \in Nat
<1>1. \A m \in Message : m.size \in Nat /\ m.size >= kHeaderSize
  BY LinkAssumption DEF Message
<1>2. Message \subseteq InnerMessage
  BY DEF InnerMessage
<1>3. ASSUME NEW m \in InnerMessage PROVE m.size \in Nat
  <2>1. CASE m \in Message
    BY <1>1, <2>1
  <2>2. CASE m \notin Message
    <3>1. PICK f \in BadFrames : m \in {f.inner[i] : i \in 1..Len(f.inner)}
      BY <2>2 DEF InnerMessage
    <3>2. f.inner \in Seq([n : {0}, size : Nat])
      BY LinkAssumption
    <3>3. m \in [n : {0}, size : Nat]
      <4>1. PICK i \in 1..Len(f.inner) : m = f.inner[i]
        BY <3>1
      <4> QED
        BY <3>2, <4>1, ElementOfSeq
    <3> QED
      BY <3>3
  <2> QED
    BY <2>1, <2>2
<1>4. \A f \in Frame : /\ f.bytes \in Nat /\ f.inner \in Seq(InnerMessage)
                       /\ f.dwSize \in Nat /\ f.length \in Nat
  BY DEF Frame
<1>5. \A m : m["size"] = m.size /\ m["bytes"] = m.bytes
  OBVIOUS
<1> QED
  BY <1>1, <1>2, <1>3, <1>4, <1>5

(* A malformed frame is a frame.                                            *)
LEMMA BadFrameType ==
  ASSUME NEW f \in BadFrames
  PROVE  f \in Frame /\ Malformed(f)
<1>1. /\ f.dwSize \in Nat /\ f.bytes \in Nat /\ f.kind \in Kinds /\ f.length \in Nat
      /\ f.inner \in Seq([n : {0}, size : Nat])
      /\ f = [dwSize |-> f.dwSize, bytes |-> f.bytes, kind |-> f.kind, inner |-> f.inner, length |-> f.length]
      /\ Malformed(f)
  BY LinkAssumption
<1>2. f.inner \in Seq(InnerMessage)
  <2>1. f.inner \in [1..Len(f.inner) -> [n : {0}, size : Nat]] /\ Len(f.inner) \in Nat
    BY <1>1, LenProperties
  <2>2. \A i \in 1..Len(f.inner) : f.inner[i] \in InnerMessage
    BY DEF InnerMessage
  <2>3. f.inner \in [1..Len(f.inner) -> InnerMessage]
    BY <2>1, <2>2
  <2> QED
    BY <2>1, <2>3
<1> DEFINE a == f.dwSize
           b == f.bytes
           c == f.kind
           d == f.inner
           e == f.length
<1>3. a \in Nat /\ b \in Nat /\ c \in Kinds /\ d \in Seq(InnerMessage) /\ e \in Nat
      /\ f = [dwSize |-> a, bytes |-> b, kind |-> c, inner |-> d, length |-> e]
  BY <1>1, <1>2
<1> HIDE DEF a, b, c, d, e
<1>4. f \in Frame
  BY <1>3 DEF Frame
<1> QED
  BY <1>1, <1>4

(* In the first state nothing is anywhere.                                  *)
LEMMA LinkInit == Init => LinkInvariant
<1> SUFFICES ASSUME Init PROVE LinkInvariant
  OBVIOUS
<1> USE DEF Init, FramerInit, EmptyBuffer
<1>1. TypeOK
  <2>1. m_sendBuffer \in [msgs : Seq(Message), pos : 0..NET_DATA_BUFSIZE]
    BY Limits
  <2>2. m_buf \in 0..2 * kMaxMessageSize /\ made \in 0..MaxMessages
    BY Limits
  <2>3. /\ stream \in Seq(Frame) /\ inner \in Seq(InnerMessage) /\ msgs \in Seq(InnerMessage)
        /\ delivered \in Seq(Message) /\ sent \in Seq(Message)
    OBVIOUS
  <2>4. unread \in Nat /\ left \in Nat /\ garbled \in BOOLEAN
        /\ at \in {"read", "cut", "unpack", "deliver", "closed"}
    OBVIOUS
  <2> QED
    BY <2>1, <2>2, <2>3, <2>4 DEF TypeOK
<1>2. Intact = 0 /\ Taken = 0
  BY DEF Intact, Taken
<1>3. Adds(<< >>, "bytes", 0) /\ Adds(<< >>, "size", 0)
  BY AddsEmpty
<1>4. Wire
  BY <1>2, <1>3 DEF Wire
<1>5. Segment(<< >>, 0, << >>)
  BY DEF Segment
<1>6. Chain(<< >>, 0, 0, << >>)
  <2> DEFINE p == [i \in 0..0 |-> 0]
  <2>1. p \in [0..0 -> Nat] /\ p[0] = 0 /\ Len(<< >>) = 0 /\ 1..0 = {}
    OBVIOUS
  <2> HIDE DEF p
  <2> QED
    BY <2>1 DEF Chain
<1>7. InFlight
  BY <1>2, <1>5, <1>6 DEF InFlight
<1>8. Waiting
  BY Limits DEF Waiting, HeaderComplete
<1> QED
  BY <1>1, <1>3, <1>4, <1>7, <1>8 DEF LinkInvariant

-----------------------------------------------------------------------------
(* Whatever frame is written, its bytes are added to those not read, and    *)
(* the framer, which looks at the front, sees no difference.                *)
LEMMA FrameWritten ==
  ASSUME LinkInvariant, NEW f \in Frame, Write(f), m_buf' = m_buf
  PROVE  /\ stream' \in Seq(Frame) /\ Len(stream') = Len(stream) + 1 /\ stream'[Len(stream) + 1] = f
         /\ \A i \in 1..Len(stream) : stream'[i] = stream[i]
         /\ unread' \in Nat
         /\ Adds(stream', "bytes", unread' + m_buf')
         /\ stream # << >> =>
              Head(stream') = Head(stream) /\ Tail(stream') = Append(Tail(stream), f)
         /\ at' = at /\ Waiting => Waiting'
<1>1. /\ stream \in Seq(Frame) /\ unread \in Nat /\ m_buf \in Nat /\ Adds(stream, "bytes", unread + m_buf)
      /\ stream' = Append(stream, f) /\ unread' = unread + f.bytes
      /\ f.bytes \in Nat /\ f["bytes"] = f.bytes /\ \A y \in Frame : y["bytes"] \in Nat
  BY Elements, Limits DEF LinkInvariant, TypeOK, Wire, Write
<1>2. /\ stream' \in Seq(Frame) /\ Len(stream') = Len(stream) + 1 /\ stream'[Len(stream) + 1] = f
      /\ \A i \in 1..Len(stream) : stream'[i] = stream[i]
  BY <1>1, AppendProperties
<1>3. Adds(stream', "bytes", unread' + m_buf')
  <2>1. unread + m_buf \in Nat /\ unread + m_buf + f["bytes"] = unread' + m_buf'
    BY <1>1
  <2>2. Adds(Append(stream, f), "bytes", unread + m_buf + f["bytes"])
    BY <1>1, <2>1, AddsAppend
  <2> QED
    BY <1>1, <2>1, <2>2
<1>4. stream # << >> => Head(stream') = Head(stream) /\ Tail(stream') = Append(Tail(stream), f)
  BY <1>1, HeadTailAppend
<1>5. ASSUME at' = at, Waiting PROVE Waiting'
  <2>1. CASE ~HeaderComplete
    BY <2>1, <1>5 DEF Waiting, HeaderComplete
  <2>2. CASE HeaderComplete
    <3>1. stream # << >>
      <4>1. unread + m_buf # 0
        BY <1>1, <2>2, Limits DEF HeaderComplete
      <4> QED
        BY <1>1, <4>1, AddsEmpty
    <3> QED
      BY <1>4, <1>5, <3>1 DEF Waiting, HeaderComplete, BadSize, Complete
  <2> QED
    BY <2>1, <2>2
<1>6. unread' \in Nat
  BY <1>1
<1> QED
  BY <1>2, <1>3, <1>4, <1>5, <1>6

(* A well-formed frame takes the messages in it to the end of what is sent. *)
LEMMA GoodFrameWritten ==
  ASSUME LinkInvariant, ~garbled, NEW f, GoodFrame(f), Write(f), sent' = sent \o f.inner,
         UNCHANGED << m_buf, at, cutting, delivered, garbled >>
  PROVE  Wire' /\ InFlight' /\ sent' \in Seq(Message)
<1>1. /\ stream \in Seq(Frame) /\ delivered \in Seq(Message) /\ sent \in Seq(Message)
      /\ msgs \in Seq(InnerMessage) /\ inner \in Seq(InnerMessage) /\ garbled \in BOOLEAN
      /\ f \in Frame /\ f.inner \in Seq(Message)
      /\ Wire /\ InFlight
  BY DEF LinkInvariant, TypeOK, GoodFrame
<1>2. /\ stream' \in Seq(Frame) /\ Len(stream') = Len(stream) + 1 /\ stream'[Len(stream) + 1] = f
      /\ \A i \in 1..Len(stream) : stream'[i] = stream[i]
      /\ Adds(stream', "bytes", unread' + m_buf')
      /\ stream # << >> => Head(stream') = Head(stream) /\ Tail(stream') = Append(Tail(stream), f)
      /\ stream' = Append(stream, f)
  <2>1. m_buf' = m_buf /\ f \in Frame
    BY <1>1
  <2> QED
    BY <2>1, FrameWritten DEF Write
<1>3. /\ at' = at /\ inner' = inner /\ left' = left /\ msgs' = msgs /\ delivered' = delivered
      /\ m_buf' = m_buf /\ garbled' = garbled
  BY DEF cutting
<1>4. Len(stream) \in Nat /\ Intact = Len(stream) /\ Intact' = Len(stream) + 1 /\ Taken' = Taken
  BY <1>1, <1>2, <1>3, LenProperties DEF Intact, Taken
<1>5. Wire'
  <2>1. ASSUME NEW i \in 1..Len(stream) + 1 PROVE GoodFrame(stream'[i])
    <3>1. CASE i = Len(stream) + 1
      BY <1>2, <3>1
    <3>2. CASE i \in 1..Len(stream)
      BY <1>1, <1>2, <1>4, <3>2 DEF Wire
    <3> QED
      BY <1>4, <3>1, <3>2
  <2> QED
    BY <1>2, <1>3, <1>4, <2>1 DEF Wire
<1>6. /\ sent' \in Seq(Message)
      /\ sent \in Seq(InnerMessage) /\ delivered \in Seq(InnerMessage) /\ f.inner \in Seq(InnerMessage)
      /\ \A y \in Frame : y.inner \in Seq(InnerMessage)
      /\ Len(delivered) \in Nat /\ Len(msgs) \in Nat /\ Taken \in Nat
  BY <1>1, Elements, ConcatProperties, SeqMonotonic, LenProperties DEF Taken
<1>7. Segment(delivered, 0, sent')
  BY <1>1, <1>6, SegmentGrows DEF InFlight
<1>8. ASSUME Segment(msgs, Len(delivered), sent) PROVE Segment(msgs, Len(delivered), sent')
  BY <1>1, <1>6, <1>8, SegmentGrows
<1>9. ASSUME at \in {"read", "cut", "deliver"} PROVE Chain(stream', Intact', Taken', sent')
  <2>1. Chain(stream, Len(stream), Taken, sent)
    BY <1>1, <1>4, <1>9 DEF InFlight
  <2>2. Chain(Append(stream, f), Len(stream) + 1, Taken, sent \o f.inner)
    BY <1>1, <1>6, <2>1, ChainAppend
  <2> QED
    BY <1>2, <1>4, <2>2
<1>10. ASSUME at = "unpack" PROVE UnpacksGood'
  <2>1. UnpacksGood
    BY <1>1, <1>10 DEF InFlight, UnpacksBad
  <2>2. stream # << >> /\ Len(stream) >= 1
    BY <1>1, <1>4, <2>1, EmptySeq DEF UnpacksGood
  <2>3. Segment(inner, Taken, sent')
    BY <1>1, <1>6, <2>1, SegmentGrows DEF UnpacksGood
  <2>4. Chain(Tail(stream'), Intact' - 1, Taken + Len(inner), sent')
    <3>1. Tail(stream) \in Seq(Frame) /\ Len(Tail(stream)) = Len(stream) - 1
      BY <1>1, <2>2, HeadTailProperties
    <3>2. Taken + Len(inner) \in Nat
      BY <1>1, <1>6, LenProperties
    <3>3. Chain(Tail(stream), Len(Tail(stream)), Taken + Len(inner), sent)
      BY <1>4, <2>1, <3>1 DEF UnpacksGood
    <3>4. Chain(Append(Tail(stream), f), Len(Tail(stream)) + 1, Taken + Len(inner), sent \o f.inner)
      BY <1>1, <1>6, <3>1, <3>2, <3>3, ChainAppend
    <3>5. Intact' - 1 = Len(Tail(stream)) + 1
      BY <1>4, <3>1
    <3> QED
      BY <1>2, <2>2, <3>4, <3>5
  <2>5. Intact' >= 1
    BY <1>4
  <2>6. Segment(msgs, Len(delivered), sent')
    BY <1>8, <2>1 DEF UnpacksGood
  <2>7. Head(stream').dwSize <= m_buf' /\ Adds(inner', "size", left')
    BY <1>2, <1>3, <2>1, <2>2 DEF UnpacksGood
  <2> QED
    BY <1>3, <1>4, <2>3, <2>4, <2>5, <2>6, <2>7 DEF UnpacksGood
<1>11. InFlight'
  BY <1>1, <1>3, <1>7, <1>8, <1>9, <1>10 DEF InFlight
<1> QED
  BY <1>5, <1>6, <1>11

(* After a malformed frame nothing is sent, and nothing was lost before it. *)
LEMMA BadFrameWritten ==
  ASSUME LinkInvariant, ~garbled, garbled' = TRUE, NEW f \in BadFrames, Write(f), sent' = sent,
         UNCHANGED << m_buf, at, cutting, delivered >>
  PROVE  Wire' /\ InFlight'
<1>1. /\ stream \in Seq(Frame) /\ f \in Frame /\ Wire /\ InFlight /\ Len(stream) \in Nat
  BY BadFrameType, LenProperties DEF LinkInvariant, TypeOK
<1>2. /\ stream' \in Seq(Frame) /\ Len(stream') = Len(stream) + 1 /\ stream'[Len(stream) + 1] = f
      /\ \A i \in 1..Len(stream) : stream'[i] = stream[i]
      /\ Adds(stream', "bytes", unread' + m_buf')
      /\ stream # << >> => Head(stream') = Head(stream) /\ Tail(stream') = Append(Tail(stream), f)
      /\ stream' = Append(stream, f)
  <2>1. m_buf' = m_buf /\ f \in Frame
    BY <1>1
  <2> QED
    BY <2>1, FrameWritten DEF Write
<1>3. /\ at' = at /\ inner' = inner /\ left' = left /\ msgs' = msgs /\ delivered' = delivered
      /\ m_buf' = m_buf /\ sent' = sent
  BY DEF cutting
<1>4. Intact = Len(stream) /\ Intact' = Len(stream) /\ Taken' = Taken
  BY <1>1, <1>2, <1>3 DEF Intact, Taken
<1>5. Wire'
  <2>1. stream' # << >>
    BY <1>1, <1>2
  <2> QED
    BY <1>1, <1>2, <1>4, <2>1 DEF Wire
<1>6. ASSUME at \in {"read", "cut", "deliver"} PROVE Chain(stream', Intact', Taken', sent')
  <2>1. Chain(stream, Len(stream), Taken, sent)
    BY <1>1, <1>4, <1>6 DEF InFlight
  <2>2. Chain(Append(stream, f), Len(stream), Taken, sent)
    <3>1. Len(stream) \in 0..Len(stream)
      BY <1>1
    <3> QED
      BY <1>1, <2>1, <3>1, ChainBeside
  <2> QED
    BY <1>2, <1>3, <1>4, <2>2
<1>7. ASSUME at = "unpack" PROVE UnpacksGood'
  <2>1. UnpacksGood
    BY <1>1, <1>7 DEF InFlight, UnpacksBad
  <2>2. stream # << >> /\ Len(stream) >= 1
    BY <1>1, <1>4, <2>1, EmptySeq DEF UnpacksGood
  <2>3. Chain(Tail(stream'), Intact' - 1, Taken + Len(inner), sent)
    <3>1. Tail(stream) \in Seq(Frame) /\ Len(Tail(stream)) = Len(stream) - 1
      BY <1>1, <2>2, HeadTailProperties
    <3>2. Len(stream) - 1 \in 0..Len(Tail(stream))
      BY <1>1, <2>2, <3>1
    <3>3. Chain(Tail(stream), Len(stream) - 1, Taken + Len(inner), sent)
      BY <1>4, <2>1 DEF UnpacksGood
    <3>4. Chain(Append(Tail(stream), f), Len(stream) - 1, Taken + Len(inner), sent)
      BY <1>1, <3>1, <3>2, <3>3, ChainBeside
    <3> QED
      BY <1>2, <1>4, <2>2, <3>4
  <2> QED
    BY <1>2, <1>3, <1>4, <2>1, <2>2, <2>3 DEF UnpacksGood
<1>8. InFlight'
  BY <1>1, <1>3, <1>6, <1>7 DEF InFlight
<1> QED
  BY <1>5, <1>8

-----------------------------------------------------------------------------
Buffers == [msgs : Seq(Message), pos : 0..NET_DATA_BUFSIZE]

(* addMsg keeps a buffer whose messages fill it up to pos, and answers      *)
(* "send" only when it holds something.                                     *)
LEMMA AddMsgFills ==
  ASSUME NEW b \in Buffers, NEW m \in Message, Adds(b.msgs, "size", b.pos),
         addMsgResult(b, m) # "BUFFER_SEND_ADD"
  PROVE  LET a == addMsg(b, m) IN a \in Buffers /\ Adds(a.msgs, "size", a.pos)
<1>1. /\ m.size \in Nat /\ m["size"] = m.size /\ \A y \in Message : y["size"] \in Nat
      /\ b.pos \in Nat /\ b.msgs \in Seq(Message)
  BY Elements, Limits DEF Buffers
<1>2. CASE addMsgResult(b, m) = "BUFFER_ADDED"
  <2>1. addMsg(b, m) = [msgs |-> Append(b.msgs, m), pos |-> b.pos + m.size]
    BY <1>2 DEF addMsg
  <2>2. b.pos + m.size < COMPRESS_PACKET_SIZE
    BY <1>2 DEF addMsgResult
  <2>3. b.pos + m.size \in 0..NET_DATA_BUFSIZE
    BY <1>1, <2>2, Limits
  <2>4. Append(b.msgs, m) \in Seq(Message) /\ Adds(Append(b.msgs, m), "size", b.pos + m.size)
    BY <1>1, AddsAppend, AppendProperties
  <2> QED
    BY <2>1, <2>3, <2>4 DEF Buffers
<1>3. CASE addMsgResult(b, m) = "BUFFER_SEND"
  <2>1. addMsg(b, m) = [msgs |-> << m >>, pos |-> m.size]
    BY <1>3 DEF addMsg
  <2>2. m.size <= NET_DATA_BUFSIZE
    BY <1>3 DEF addMsgResult
  <2>3. m.size \in 0..NET_DATA_BUFSIZE
    BY <1>1, <2>2, Limits
  <2>4. << m >> \in Seq(Message) /\ Adds(<< m >>, "size", m.size)
    <3>1. << >> \in Seq(Message) /\ << m >> = Append(<< >>, m) /\ Adds(<< >>, "size", 0) /\ 0 + m["size"] = m.size
      BY <1>1, AddsEmpty
    <3>2. Adds(Append(<< >>, m), "size", 0 + m["size"])
      BY <1>1, <3>1, AddsAppend
    <3> QED
      BY <3>1, <3>2
  <2> QED
    BY <2>1, <2>3, <2>4 DEF Buffers
<1>4. CASE addMsgResult(b, m) = "BUFFER_ERROR"
  BY <1>4 DEF addMsg
<1> QED
  BY <1>2, <1>3, <1>4 DEF addMsgResult

(* What Send puts on the wire, and what it keeps: batches that fill their   *)
(* envelopes.                                                               *)
LEMMA SendFills ==
  ASSUME NEW b \in Buffers, NEW m \in Message, Adds(b.msgs, "size", b.pos),
         addMsgResult(b, m) # "BUFFER_ERROR"
  PROVE  /\ LeftInBuffer(b, m) \in Buffers
         /\ Adds(LeftInBuffer(b, m).msgs, "size", LeftInBuffer(b, m).pos)
         /\ SentNow(b, m) # << >> =>
              /\ SentNow(b, m) \in Seq(Message)
              /\ addMsg(b, m).pos \in 0..NET_DATA_BUFSIZE
              /\ Adds(SentNow(b, m), "size", addMsg(b, m).pos)
<1>1. EmptyBuffer \in Buffers /\ Adds(EmptyBuffer.msgs, "size", EmptyBuffer.pos)
  <2>1. << >> \in Seq(Message) /\ 0 \in 0..NET_DATA_BUFSIZE
    BY Limits
  <2> QED
    BY <2>1, AddsEmpty DEF EmptyBuffer, Buffers
<1>2. CASE addMsgResult(b, m) = "BUFFER_ADDED"
  <2>1. LeftInBuffer(b, m) = addMsg(b, m) /\ SentNow(b, m) = << >>
    BY <1>2 DEF LeftInBuffer, SentNow
  <2> QED
    BY <1>2, <2>1, AddMsgFills
<1>3. CASE addMsgResult(b, m) = "BUFFER_SEND"
  <2>1. /\ LeftInBuffer(b, m) = EmptyBuffer /\ SentNow(b, m) = << m >>
        /\ addMsg(b, m) = [msgs |-> << m >>, pos |-> m.size]
    BY <1>3 DEF LeftInBuffer, SentNow, addMsg
  <2>2. addMsg(b, m) \in Buffers /\ Adds(addMsg(b, m).msgs, "size", addMsg(b, m).pos)
    BY <1>3, AddMsgFills
  <2>3. SentNow(b, m) = addMsg(b, m).msgs
    BY <2>1
  <2> QED
    BY <1>1, <2>1, <2>2, <2>3 DEF Buffers
<1>4. CASE addMsgResult(b, m) = "BUFFER_SEND_ADD"
  <2>1. LeftInBuffer(b, m) = addMsg(EmptyBuffer, m) /\ SentNow(b, m) = b.msgs /\ addMsg(b, m) = b
    BY <1>4 DEF LeftInBuffer, SentNow, addMsg
  <2>2. addMsgResult(EmptyBuffer, m) # "BUFFER_SEND_ADD"
    <3>1. m.size \in Nat /\ EmptyBuffer.pos = 0
      BY Elements DEF EmptyBuffer
    <3> QED
      BY <3>1, Limits DEF addMsgResult
  <2>3. addMsg(EmptyBuffer, m) \in Buffers /\ Adds(addMsg(EmptyBuffer, m).msgs, "size", addMsg(EmptyBuffer, m).pos)
    BY <1>1, <2>2, AddMsgFills
  <2> QED
    BY <2>1, <2>3 DEF Buffers
<1> QED
  BY <1>2, <1>3, <1>4 DEF addMsgResult

(* The envelope round such a batch is a frame the reader takes: the largest *)
(* batch and its header fit in the largest frame.                           *)
LEMMA EnvelopeIsGood ==
  ASSUME NEW batch \in Seq(Message), NEW length \in 0..NET_DATA_BUFSIZE,
         Adds(batch, "size", length), NEW packed \in Packed(length)
  PROVE  GoodFrame(Envelope(batch, length, packed)) /\ Envelope(batch, length, packed).inner = batch
<1> DEFINE kind == IF packed < length THEN "lzo" ELSE "raw"
           size == SizeofNET_COMPRESS + packed
<1>1. packed \in 0..length /\ length \in Nat
  BY Limits DEF Packed
<1>2. size \in Nat /\ size \in kHeaderSize..kMaxMessageSize /\ size >= SizeofNET_COMPRESS
  BY <1>1, Limits
<1>3. kind \in {"raw", "lzo"} /\ kind \in Kinds
  BY DEF Kinds
<1>4. batch \in Seq(InnerMessage)
  BY Elements, SeqMonotonic
<1>5. Envelope(batch, length, packed) =
        [dwSize |-> size, bytes |-> size, kind |-> kind, inner |-> batch, length |-> length]
  BY DEF Envelope
<1> HIDE DEF kind, size
<1> QED
  BY <1>1, <1>2, <1>3, <1>4, <1>5 DEF GoodFrame, Frame

(* So is a plain message that the peer may write.                           *)
LEMMA PlainIsGood ==
  ASSUME NEW m \in Message, m.size <= kMaxMessageSize
  PROVE  GoodFrame(Plain(m)) /\ Plain(m).inner = << m >>
<1>1. m.size \in Nat /\ m.size \in kHeaderSize..kMaxMessageSize
  BY Elements, Limits
<1>2. << m >> \in Seq(Message) /\ << m >> \in Seq(InnerMessage) /\ "message" \in Kinds
  BY Elements DEF Kinds
<1> QED
  BY <1>1, <1>2 DEF Plain, GoodFrame, Frame

(* The peer has made a message and written a well-formed frame, or has not  *)
(* written any: the rest of the state is as it was.                         *)
LEMMA PeerWroteGood ==
  ASSUME LinkInvariant, ~garbled, UNCHANGED << m_buf, at, cutting, delivered, garbled >>,
         \/ \E f : GoodFrame(f) /\ Write(f) /\ sent' = sent \o f.inner
         \/ UNCHANGED << stream, unread, sent >>,
         made' \in 0..MaxMessages, m_sendBuffer' \in Buffers,
         Adds(m_sendBuffer'.msgs, "size", m_sendBuffer'.pos)
  PROVE  LinkInvariant'
<1>1. /\ at' = at /\ inner' = inner /\ left' = left /\ msgs' = msgs /\ delivered' = delivered
      /\ m_buf' = m_buf /\ garbled' = garbled
  BY DEF cutting
<1>2. TypeOK /\ Waiting /\ at # "closed"
  BY DEF LinkInvariant
<1>3. CASE UNCHANGED << stream, unread, sent >>
  <2>1. stream' = stream /\ unread' = unread /\ sent' = sent
    BY <1>3
  <2>2. TypeOK'
    BY <1>1, <1>2, <2>1 DEF TypeOK, Buffers
  <2>3. Wire' /\ InFlight' /\ Waiting'
    BY <1>1, <2>1 DEF LinkInvariant, Wire, InFlight, Waiting, Intact, Taken, UnpacksGood, UnpacksBad,
                      HeaderComplete, BadSize, Complete
  <2> QED
    BY <1>1, <1>2, <2>2, <2>3 DEF LinkInvariant
<1>4. ASSUME NEW f, GoodFrame(f), Write(f), sent' = sent \o f.inner
      PROVE  LinkInvariant'
  <2>1. Wire' /\ InFlight' /\ sent' \in Seq(Message)
    BY <1>4, GoodFrameWritten
  <2>2. stream' \in Seq(Frame) /\ unread' \in Nat /\ Waiting'
    <3>1. f \in Frame
      BY <1>4 DEF GoodFrame
    <3> QED
      BY <1>1, <1>2, <1>4, <3>1, FrameWritten
  <2>3. TypeOK'
    BY <1>1, <1>2, <2>1, <2>2 DEF TypeOK, Buffers
  <2> QED
    BY <1>1, <1>2, <2>1, <2>2, <2>3 DEF LinkInvariant
<1> QED
  BY <1>3, <1>4

(* Every step of the peer keeps the invariant.                              *)
LEMMA PeerSteps ==
  ASSUME LinkInvariant, PeerNext
  PROVE  LinkInvariant'
<1>1. /\ m_sendBuffer \in Buffers /\ Adds(m_sendBuffer.msgs, "size", m_sendBuffer.pos)
      /\ made \in 0..MaxMessages /\ MaxMessages \in Nat /\ sent \in Seq(Message)
      /\ \A size \in Sizes : size \in Nat
  BY Limits, LinkAssumption DEF LinkInvariant, TypeOK, Buffers
<1>2. ASSUME NEW size \in Sizes, made < MaxMessages
      PROVE  NextMessage(size) \in Message /\ NextMessage(size).size = size /\ made + 1 \in 0..MaxMessages
  BY <1>1, <1>2 DEF NextMessage, Message
<1>3. ASSUME NEW size \in Sizes, PeerSends(size) PROVE LinkInvariant'
  <2> DEFINE m == NextMessage(size)
             full == addMsg(m_sendBuffer, m)
             now == SentNow(m_sendBuffer, m)
  <2>1. /\ ~garbled /\ made < MaxMessages /\ addMsgResult(m_sendBuffer, m) # "BUFFER_ERROR"
        /\ made' = made + 1 /\ m_sendBuffer' = LeftInBuffer(m_sendBuffer, m)
        /\ UNCHANGED << m_buf, at, cutting, delivered, garbled >>
        /\ \/ now = << >> /\ UNCHANGED << stream, unread, sent >>
           \/ now # << >> /\ WriteBatch(now, full.pos)
    BY <1>3 DEF PeerSends
  <2>2. m \in Message /\ made' \in 0..MaxMessages
    BY <1>2, <2>1
  <2> HIDE DEF m
  <2>3. /\ m_sendBuffer' \in Buffers /\ Adds(m_sendBuffer'.msgs, "size", m_sendBuffer'.pos)
        /\ now # << >> => now \in Seq(Message) /\ full.pos \in 0..NET_DATA_BUFSIZE /\ Adds(now, "size", full.pos)
    BY <1>1, <2>1, <2>2, SendFills
  <2> HIDE DEF now, full
  <2>4. CASE now = << >> /\ UNCHANGED << stream, unread, sent >>
    BY <2>1, <2>2, <2>3, <2>4, PeerWroteGood
  <2>5. CASE now # << >> /\ WriteBatch(now, full.pos)
    <3>1. PICK packed \in Packed(full.pos) : Write(Envelope(now, full.pos, packed))
      BY <2>5 DEF WriteBatch
    <3>2. GoodFrame(Envelope(now, full.pos, packed)) /\ Envelope(now, full.pos, packed).inner = now
      BY <2>3, <2>5, EnvelopeIsGood
    <3>3. sent' = sent \o now
      BY <2>5 DEF WriteBatch
    <3>4. \E f : GoodFrame(f) /\ Write(f) /\ sent' = sent \o f.inner
      BY <3>1, <3>2, <3>3
    <3> QED
      BY <2>1, <2>2, <2>3, <3>4, PeerWroteGood
  <2> QED
    BY <2>1, <2>4, <2>5
<1>4. ASSUME NEW size \in Sizes, PeerWrites(size) PROVE LinkInvariant'
  <2> DEFINE m == NextMessage(size)
  <2>1. /\ ~garbled /\ made < MaxMessages /\ size <= kMaxMessageSize
        /\ made' = made + 1 /\ m_sendBuffer' = m_sendBuffer
        /\ UNCHANGED << m_buf, at, cutting, delivered, garbled >>
        /\ Write(Plain(m)) /\ sent' = Append(sent, m)
    BY <1>4 DEF PeerWrites
  <2>2. m \in Message /\ m.size = size /\ made' \in 0..MaxMessages
    BY <1>2, <2>1
  <2> HIDE DEF m
  <2>3. GoodFrame(Plain(m)) /\ Plain(m).inner = << m >>
    BY <2>1, <2>2, PlainIsGood
  <2>4. sent' = sent \o << m >>
    BY <1>1, <2>1, <2>2, AppendIsConcat
  <2>5. \E f : GoodFrame(f) /\ Write(f) /\ sent' = sent \o f.inner
    BY <2>1, <2>3, <2>4
  <2> QED
    BY <1>1, <2>1, <2>2, <2>5, PeerWroteGood
<1>5. ASSUME PeerFlushes PROVE LinkInvariant'
  <2> DEFINE batch == m_sendBuffer.msgs
             length == m_sendBuffer.pos
  <2>1. /\ ~garbled /\ made' = made /\ m_sendBuffer' = EmptyBuffer
        /\ UNCHANGED << m_buf, at, cutting, delivered, garbled >>
        /\ WriteBatch(batch, length)
    BY <1>5 DEF PeerFlushes, getSendBuffer
  <2>2. batch \in Seq(Message) /\ length \in 0..NET_DATA_BUFSIZE /\ Adds(batch, "size", length)
    BY <1>1 DEF Buffers
  <2> HIDE DEF batch, length
  <2>3. EmptyBuffer \in Buffers /\ Adds(EmptyBuffer.msgs, "size", EmptyBuffer.pos)
    <3>1. << >> \in Seq(Message) /\ 0 \in 0..NET_DATA_BUFSIZE
      BY Limits
    <3> QED
      BY <3>1, AddsEmpty DEF EmptyBuffer, Buffers
  <2>4. PICK packed \in Packed(length) : Write(Envelope(batch, length, packed))
    BY <2>1 DEF WriteBatch
  <2>5. GoodFrame(Envelope(batch, length, packed)) /\ Envelope(batch, length, packed).inner = batch
    BY <2>2, EnvelopeIsGood
  <2>6. sent' = sent \o batch
    BY <2>1 DEF WriteBatch
  <2>7. \E f : GoodFrame(f) /\ Write(f) /\ sent' = sent \o f.inner
    BY <2>4, <2>5, <2>6
  <2> QED
    BY <1>1, <2>1, <2>3, <2>7, PeerWroteGood
<1>6. ASSUME NEW frame \in BadFrames, PeerGarbles(frame) PROVE LinkInvariant'
  <2>1. /\ ~garbled /\ garbled' = TRUE /\ Write(frame)
        /\ m_buf' = m_buf /\ at' = at /\ inner' = inner /\ left' = left /\ msgs' = msgs
        /\ delivered' = delivered /\ m_sendBuffer' = m_sendBuffer /\ made' = made /\ sent' = sent
    BY <1>6 DEF PeerGarbles, cutting
  <2>2. Wire' /\ InFlight'
    <3>1. UNCHANGED << m_buf, at, cutting, delivered >>
      BY <2>1 DEF cutting
    <3> QED
      BY <2>1, <3>1, BadFrameWritten
  <2>3. stream' \in Seq(Frame) /\ unread' \in Nat /\ Waiting'
    BY <2>1, BadFrameType, FrameWritten DEF LinkInvariant
  <2>4. TypeOK'
    BY <2>1, <2>3 DEF TypeOK, LinkInvariant
  <2> QED
    BY <1>1, <2>1, <2>2, <2>3, <2>4 DEF LinkInvariant
<1> QED
  BY <1>3, <1>4, <1>5, <1>6 DEF PeerNext

-----------------------------------------------------------------------------
(* The message that does not fit is still there after one that does, and    *)
(* as long as it is, a header's worth of bytes is left.                     *)
LEMMA DoesNotFitStays ==
  ASSUME NEW b \in Seq(InnerMessage), NEW length \in Nat, DoesNotFit(b, length)
  PROVE  /\ b # << >> /\ length >= kHeaderSize
         /\ Head(b).size \in kHeaderSize..length => DoesNotFit(Tail(b), length - Head(b).size)
<1>1. PICK k \in 1..Len(b) : \E rest \in [1..k -> Nat] :
    /\ rest[1] = length
    /\ \A i \in 1..k - 1 : /\ b[i].size \in kHeaderSize..rest[i]
                           /\ rest[i + 1] = rest[i] - b[i].size
    /\ rest[k] >= kHeaderSize
    /\ b[k].size \notin kHeaderSize..rest[k]
  BY DEF DoesNotFit
<1>2. PICK rest \in [1..k -> Nat] :
    /\ rest[1] = length
    /\ \A i \in 1..k - 1 : /\ b[i].size \in kHeaderSize..rest[i]
                           /\ rest[i + 1] = rest[i] - b[i].size
    /\ rest[k] >= kHeaderSize
    /\ b[k].size \notin kHeaderSize..rest[k]
  BY <1>1
<1>3. /\ Len(b) \in Nat /\ k \in Nat \ {0} /\ k <= Len(b) /\ b # << >> /\ kHeaderSize \in Nat
      /\ Head(b) = b[1] /\ Len(Tail(b)) = Len(b) - 1 /\ \A i \in 1..Len(b) - 1 : Tail(b)[i] = b[i + 1]
  BY EmptySeq, LenProperties, HeadTailProperties, Limits
<1>4. length >= kHeaderSize
  <2>1. CASE k = 1
    BY <1>2, <2>1
  <2>2. CASE k # 1
    <3>1. 1 \in 1..k - 1
      BY <1>3, <2>2
    <3>2. b[1].size \in kHeaderSize..length
      BY <1>2, <3>1
    <3> QED
      BY <1>3, <3>2
  <2> QED
    BY <2>1, <2>2
<1>5. ASSUME Head(b).size \in kHeaderSize..length PROVE DoesNotFit(Tail(b), length - Head(b).size)
  <2>1. k - 1 \in 1..Len(Tail(b)) /\ 1 \in 1..k - 1
    BY <1>2, <1>3, <1>5
  <2> DEFINE t == Tail(b)
             q == [i \in 1..k - 1 |-> rest[i + 1]]
  <2>2. q \in [1..k - 1 -> Nat] /\ \A i \in 1..k - 1 : q[i] = rest[i + 1]
    BY <1>2, <1>3
  <2>3. q[1] = length - Head(b).size
    BY <1>2, <1>3, <2>1, <2>2
  <2>4. ASSUME NEW i \in 1..(k - 1) - 1
        PROVE  t[i].size \in kHeaderSize..q[i] /\ q[i + 1] = q[i] - t[i].size
    <3>1. i + 1 \in 1..k - 1 /\ i \in 1..k - 1 /\ i \in 1..Len(b) - 1 /\ (i + 1) + 1 \in 1..k
      BY <1>3
    <3>2. t[i] = b[i + 1] /\ q[i] = rest[i + 1] /\ q[i + 1] = rest[(i + 1) + 1]
      BY <1>3, <2>2, <3>1
    <3> QED
      BY <1>2, <3>1, <3>2
  <2>5. q[k - 1] = rest[k] /\ t[k - 1] = b[k]
    BY <1>3, <2>1, <2>2
  <2> HIDE DEF q, t
  <2>6. DoesNotFit(t, length - Head(b).size)
    <3>1. Tail(b) = t
      BY DEF t
    <3> QED
      BY <1>2, <2>1, <2>2, <2>3, <2>4, <2>5, <3>1 DEF DoesNotFit
  <2> QED
    BY <2>6 DEF t
<1> QED
  BY <1>3, <1>4, <1>5

(* The frame at the front, once its header is there: well-formed, or the    *)
(* malformed one with nothing behind it.                                    *)
LEMMA FrontFrame ==
  ASSUME LinkInvariant, HeaderComplete
  PROVE  /\ stream # << >> /\ Head(stream) \in Frame
         /\ \/ Intact >= 1 /\ GoodFrame(Head(stream))
            \/ garbled /\ Intact = 0 /\ Head(stream) \in BadFrames /\ m_buf <= Head(stream).bytes
<1>1. /\ stream \in Seq(Frame) /\ unread \in Nat /\ m_buf \in Nat /\ garbled \in BOOLEAN
      /\ Wire /\ Len(stream) \in Nat /\ m_buf # 0
      /\ \A y \in Frame : y["bytes"] = y.bytes /\ y["bytes"] \in Nat
  BY Limits, Elements, LenProperties DEF LinkInvariant, TypeOK, HeaderComplete
<1>2. stream # << >>
  <2>1. unread + m_buf # 0 /\ Adds(stream, "bytes", unread + m_buf)
    BY <1>1 DEF Wire
  <2> QED
    BY <2>1, AddsEmpty
<1>3. /\ Len(stream) \in Nat \ {0} /\ Head(stream) = stream[1] /\ Head(stream) \in Frame
      /\ Tail(stream) \in Seq(Frame) /\ Len(Tail(stream)) = Len(stream) - 1
  BY <1>1, <1>2, EmptySeq, HeadTailProperties
<1>4. CASE Intact >= 1
  BY <1>1, <1>3, <1>4 DEF Wire
<1>5. CASE ~(Intact >= 1)
  <2>1. garbled /\ Len(stream) = 1 /\ Intact = 0
    BY <1>1, <1>3, <1>5 DEF Intact
  <2>2. Head(stream) \in BadFrames
    BY <1>1, <1>3, <2>1 DEF Wire
  <2>3. Tail(stream) = << >>
    <3>1. Len(Tail(stream)) = 0
      BY <1>3, <2>1
    <3> QED
      BY <1>3, <3>1, EmptySeq
  <2>4. unread + m_buf = Head(stream).bytes
    <3> DEFINE total == unread + m_buf
               share == Head(stream)["bytes"]
    <3>1. total \in Nat /\ Adds(stream, "bytes", total)
      BY <1>1 DEF Wire
    <3>2. share = Head(stream).bytes /\ share \in Nat
      BY <1>1, <1>3
    <3> HIDE DEF total
    <3>3. Adds(Tail(stream), "bytes", total - share)
      BY <1>1, <1>2, <3>1, AddsTail
    <3> HIDE DEF share
    <3>4. total - share = 0
      <4> DEFINE rest == total - share
      <4>1. Adds(<< >>, "bytes", rest)
        BY <2>3, <3>3
      <4> HIDE DEF rest
      <4>2. rest = 0
        BY <4>1, AddsEmpty
      <4> QED
        BY <4>2 DEF rest
    <3>5. total = share
      BY <3>1, <3>2, <3>4
    <3> QED
      BY <3>2, <3>5 DEF total
  <2>5. m_buf <= Head(stream).bytes
    BY <1>1, <2>4
  <2> QED
    BY <1>2, <1>3, <2>1, <2>2, <2>5
<1> QED
  BY <1>4, <1>5

(* Between two reads the framer holds less than the largest frame.          *)
LEMMA WaitingIsSmall ==
  ASSUME LinkInvariant, at \in {"deliver", "read"}
  PROVE  m_buf < kMaxMessageSize
<1>1. m_buf \in Nat /\ kHeaderSize \in Nat /\ kMaxMessageSize \in Nat /\ kHeaderSize <= kMaxMessageSize
  BY Limits DEF LinkInvariant, TypeOK
<1>2. SUFFICES ASSUME ~(m_buf < kMaxMessageSize) PROVE FALSE
  OBVIOUS
<1>3. HeaderComplete
  BY <1>1, <1>2 DEF HeaderComplete
<1>4. ~BadSize /\ ~Complete
  BY <1>3 DEF LinkInvariant, Waiting
<1>5. Head(stream).dwSize \in kHeaderSize..kMaxMessageSize
  BY <1>3, <1>4 DEF BadSize
<1> QED
  BY <1>1, <1>2, <1>3, <1>4, <1>5 DEF Complete

(* A well-formed frame leaves the stream with all its bytes.                *)
LEMMA FrontFrameDone ==
  ASSUME LinkInvariant, Intact >= 1, Head(stream).dwSize <= m_buf, FrameDone,
         unread' = unread, garbled' = garbled
  PROVE  /\ Wire' /\ stream' \in Seq(Frame) /\ m_buf' \in 0..2 * kMaxMessageSize
         /\ Intact' = Intact - 1
<1>1. /\ stream \in Seq(Frame) /\ unread \in Nat /\ m_buf \in 0..2 * kMaxMessageSize /\ m_buf \in Nat
      /\ garbled \in BOOLEAN /\ Wire /\ Len(stream) \in Nat /\ kMaxMessageSize \in Nat
      /\ \A y \in Frame : y["bytes"] = y.bytes /\ y["bytes"] \in Nat
      /\ stream' = Tail(stream) /\ m_buf' = m_buf - Head(stream).dwSize
  BY Limits, Elements, LenProperties DEF LinkInvariant, TypeOK, FrameDone
<1>2. stream # << >> /\ Len(stream) >= 1
  BY <1>1, EmptySeq DEF Intact
<1>3. /\ Head(stream) = stream[1] /\ Head(stream) \in Frame
      /\ Tail(stream) \in Seq(Frame) /\ Len(Tail(stream)) = Len(stream) - 1
      /\ \A i \in 1..Len(stream) - 1 : Tail(stream)[i] = stream[i + 1]
  BY <1>1, <1>2, HeadTailProperties
<1>4. GoodFrame(Head(stream))
  BY <1>1, <1>3 DEF Wire, Intact
<1>5. Intact' = Intact - 1
  BY <1>1, <1>3 DEF Intact
<1>6. m_buf' \in 0..2 * kMaxMessageSize /\ Head(stream).dwSize \in Nat
  BY <1>1, <1>4, Limits DEF GoodFrame
<1>7. Adds(stream', "bytes", unread' + m_buf')
  <2>1. unread + m_buf \in Nat /\ Adds(stream, "bytes", unread + m_buf)
    BY <1>1 DEF Wire
  <2>2. Adds(Tail(stream), "bytes", unread + m_buf - Head(stream)["bytes"])
    BY <1>1, <1>2, <2>1, AddsTail
  <2>3. Head(stream)["bytes"] = Head(stream).dwSize
    BY <1>1, <1>3, <1>4 DEF GoodFrame
  <2>4. unread + m_buf - Head(stream)["bytes"] = unread' + m_buf'
    BY <1>1, <1>6, <2>3
  <2> QED
    BY <1>1, <2>2, <2>4
<1>8. ASSUME NEW i \in 1..Intact' PROVE GoodFrame(stream'[i])
  <2>1. i + 1 \in 1..Intact /\ i \in 1..Len(stream) - 1
    BY <1>1, <1>2, <1>5 DEF Intact
  <2> QED
    BY <1>1, <1>3, <2>1 DEF Wire
<1>9. ASSUME garbled PROVE stream' # << >> /\ stream'[Len(stream')] \in BadFrames
  <2>1. Len(stream) >= 2
    BY <1>1, <1>9 DEF Intact
  <2>2. Len(stream) - 1 \in 1..Len(stream) - 1 /\ (Len(stream) - 1) + 1 = Len(stream)
    BY <1>1, <2>1
  <2>3. stream'[Len(stream')] = stream[Len(stream)]
    <3>1. stream'[Len(stream')] = Tail(stream)[Len(stream) - 1]
      BY <1>1, <1>3
    <3> QED
      BY <1>3, <2>2, <3>1
  <2>4. stream' # << >>
    <3>1. Len(stream') # 0
      BY <1>1, <1>3, <2>1
    <3> QED
      BY <3>1
  <2> QED
    BY <1>1, <1>9, <2>3, <2>4 DEF Wire
<1>10. Wire'
  BY <1>7, <1>8, <1>9 DEF Wire
<1> QED
  BY <1>1, <1>3, <1>5, <1>6, <1>10

-----------------------------------------------------------------------------
(* What the framer's steps leave alone.                                     *)
LEMMA FramerTypes ==
  ASSUME LinkInvariant
  PROVE  /\ stream \in Seq(Frame) /\ unread \in Nat /\ m_buf \in 0..2 * kMaxMessageSize /\ m_buf \in Nat
         /\ at \in {"read", "cut", "unpack", "deliver", "closed"}
         /\ inner \in Seq(InnerMessage) /\ left \in Nat /\ msgs \in Seq(InnerMessage)
         /\ delivered \in Seq(Message) /\ delivered \in Seq(InnerMessage)
         /\ sent \in Seq(Message) /\ sent \in Seq(InnerMessage)
         /\ Len(delivered) \in Nat /\ Len(msgs) \in Nat /\ Taken \in Nat
         /\ Wire /\ InFlight /\ Waiting
<1>1. TypeOK /\ Wire /\ InFlight /\ Waiting
  BY DEF LinkInvariant
<1>2. m_buf \in Nat /\ delivered \in Seq(InnerMessage) /\ sent \in Seq(InnerMessage)
  BY <1>1, Elements, Limits, SeqMonotonic DEF TypeOK
<1>3. Len(delivered) \in Nat /\ Len(msgs) \in Nat
  BY <1>1, LenProperties DEF TypeOK
<1>4. Taken \in Nat
  BY <1>3 DEF Taken
<1> QED
  BY <1>1, <1>2, <1>3, <1>4 DEF TypeOK

(* A read appends to what the framer holds (session.cpp, DoReadLoop).       *)
LEMMA ReadSteps ==
  ASSUME LinkInvariant, UNCHANGED peer, NEW n \in 1..kMaxMessageSize, ReadSome(n)
  PROVE  LinkInvariant'
<1>1. /\ at = "read" /\ at' = "cut" /\ n \in 1..unread /\ unread' = unread - n /\ m_buf' = m_buf + n
      /\ msgs' = << >> /\ stream' = stream /\ inner' = inner /\ left' = left /\ delivered' = delivered
      /\ m_sendBuffer' = m_sendBuffer /\ made' = made /\ sent' = sent /\ garbled' = garbled
  BY DEF ReadSome, Go, peer
<1>2. unread' \in Nat /\ m_buf' \in 0..2 * kMaxMessageSize /\ unread' + m_buf' = unread + m_buf
  <2>1. m_buf < kMaxMessageSize /\ m_buf \in Nat /\ unread \in Nat /\ kMaxMessageSize \in Nat
    BY <1>1, FramerTypes, WaitingIsSmall, Limits
  <2>2. n \in Nat /\ n <= kMaxMessageSize /\ n <= unread
    BY <1>1, <2>1
  <2> QED
    BY <1>1, <2>1, <2>2
<1>3. TypeOK'
  BY <1>1, <1>2 DEF TypeOK, LinkInvariant
<1>4. Intact' = Intact /\ Taken' = Taken /\ Taken = Len(delivered)
  BY <1>1, FramerTypes, EmptySeq DEF Intact, Taken
<1>5. Wire'
  BY <1>1, <1>2, <1>4, FramerTypes DEF Wire
<1>6. InFlight'
  <2>1. Segment(delivered, 0, sent) /\ Chain(stream, Intact, Taken, sent)
    BY <1>1, FramerTypes DEF InFlight
  <2>2. Segment(<< >>, Len(delivered), sent)
    BY <2>1, FramerTypes DEF Segment
  <2> QED
    BY <1>1, <1>4, <2>1, <2>2 DEF InFlight
<1> QED
  BY <1>1, <1>3, <1>5, <1>6 DEF LinkInvariant, Waiting

(* The loop of Feed() stops where no complete frame is left.                *)
LEMMA StopSteps ==
  ASSUME LinkInvariant, UNCHANGED peer, CutStops
  PROVE  LinkInvariant'
<1>1. /\ at = "cut" /\ at' = "deliver"
      /\ HeaderComplete => ~BadSize /\ ~Complete
      /\ stream' = stream /\ unread' = unread /\ m_buf' = m_buf /\ inner' = inner /\ left' = left
      /\ msgs' = msgs /\ delivered' = delivered
      /\ m_sendBuffer' = m_sendBuffer /\ made' = made /\ sent' = sent /\ garbled' = garbled
  BY DEF CutStops, Go, peer, cutting
<1>2. TypeOK'
  BY <1>1 DEF TypeOK, LinkInvariant
<1>3. Intact' = Intact /\ Taken' = Taken
  BY <1>1 DEF Intact, Taken
<1>4. Wire' /\ InFlight' /\ Waiting'
  BY <1>1, <1>3, FramerTypes DEF Wire, InFlight, Waiting, HeaderComplete, BadSize, Complete
<1> QED
  BY <1>1, <1>2, <1>4 DEF LinkInvariant

(* The messages cut go to m_onMsg behind those delivered before.            *)
LEMMA DeliverSteps ==
  ASSUME LinkInvariant, UNCHANGED peer, DeliverMessages
  PROVE  LinkInvariant'
<1>1. /\ at = "deliver" /\ at' = "read" /\ delivered' = delivered \o msgs
      /\ stream' = stream /\ unread' = unread /\ m_buf' = m_buf /\ inner' = inner /\ left' = left
      /\ msgs' = msgs
      /\ m_sendBuffer' = m_sendBuffer /\ made' = made /\ sent' = sent /\ garbled' = garbled
  BY DEF DeliverMessages, Go, peer, cutting
<1>2. /\ Segment(delivered, 0, sent) /\ Segment(msgs, Len(delivered), sent)
      /\ Chain(stream, Intact, Taken, sent)
  BY <1>1, FramerTypes DEF InFlight
<1>3. Segment(delivered \o msgs, 0, sent)
  <2>1. Segment(msgs, 0 + Len(delivered), sent)
    BY <1>2, FramerTypes
  <2> QED
    BY <1>2, <2>1, FramerTypes, SegmentConcat
<1>4. delivered' \in Seq(Message) /\ Len(delivered') = Len(delivered) + Len(msgs)
  <2>1. msgs \in Seq(Message)
    BY <1>2, FramerTypes, SegmentType
  <2> QED
    BY <1>1, <2>1, FramerTypes, ConcatProperties
<1>5. TypeOK'
  BY <1>1, <1>4 DEF TypeOK, LinkInvariant
<1>6. Intact' = Intact /\ Taken' = Taken
  BY <1>1, <1>4 DEF Intact, Taken
<1>7. Wire' /\ InFlight' /\ Waiting'
  BY <1>1, <1>2, <1>3, <1>6, FramerTypes DEF Wire, InFlight, Waiting, HeaderComplete, BadSize, Complete
<1> QED
  BY <1>1, <1>5, <1>7 DEF LinkInvariant

(* The link is dropped only for the malformed frame; what was cut before it *)
(* is not delivered any more.                                               *)
LEMMA DropSteps ==
  ASSUME LinkInvariant, UNCHANGED peer, CutFails \/ UnpackFails
  PROVE  LinkInvariant'
<1>1. /\ at' = "closed" /\ stream' = stream /\ unread' = unread /\ m_buf' = m_buf
      /\ inner' = inner /\ left' = left /\ msgs' = msgs /\ delivered' = delivered
      /\ m_sendBuffer' = m_sendBuffer /\ made' = made /\ sent' = sent /\ garbled' = garbled
  BY DEF CutFails, UnpackFails, Go, peer, cutting
<1>2. ASSUME CutFails PROVE garbled
  <2>1. HeaderComplete
    BY <1>2 DEF CutFails, BadSize, Complete
  <2>2. ASSUME GoodFrame(Head(stream)) PROVE FALSE
    <3>1. ~BadSize
      BY <2>2 DEF GoodFrame, BadSize
    <3>2. /\ Head(stream).kind # "message"
          /\ Head(stream).dwSize < SizeofNET_COMPRESS \/ Head(stream).kind = "corrupt"
      BY <1>2, <3>1 DEF CutFails
    <3>3. Head(stream).dwSize >= SizeofNET_COMPRESS /\ Head(stream).kind # "corrupt"
      BY <2>2, <3>2 DEF GoodFrame
    <3>4. Head(stream).dwSize \in Nat
      BY <2>2, Elements DEF GoodFrame
    <3> QED
      BY <3>2, <3>3, <3>4, Limits
  <2> QED
    BY <2>1, <2>2, FrontFrame
<1>3. ASSUME UnpackFails PROVE garbled
  <2>1. at = "unpack" /\ left >= kHeaderSize /\ Head(inner).size \notin kHeaderSize..left
    BY <1>3 DEF UnpackFails, Go
  <2>2. ASSUME UnpacksGood PROVE FALSE
    <3>1. Segment(inner, Taken, sent) /\ Adds(inner, "size", left)
      BY <2>2 DEF UnpacksGood
    <3>2. inner # << >>
      <4>1. left # 0
        BY <2>1, FramerTypes, Limits
      <4> QED
        BY <3>1, <4>1, AddsEmpty
    <3>3. Head(inner)["size"] <= left
      BY <3>1, <3>2, FramerTypes, Elements, AddsTail
    <3>4. inner \in Seq(Message)
      BY <3>1, FramerTypes, SegmentType
    <3>5. Head(inner) \in Message /\ Head(inner) \in InnerMessage
      BY <3>2, <3>4, Elements, HeadTailProperties
    <3>6. Head(inner).size \in Nat /\ Head(inner).size >= kHeaderSize /\ Head(inner).size <= left
      BY <3>3, <3>5, Elements
    <3> QED
      BY <2>1, <3>6, FramerTypes, Limits
  <2> QED
    BY <2>1, <2>2, FramerTypes DEF InFlight, UnpacksBad
<1>4. garbled
  BY <1>2, <1>3
<1>5. TypeOK'
  BY <1>1 DEF TypeOK, LinkInvariant
<1>6. Intact' = Intact
  BY <1>1 DEF Intact
<1>7. Wire' /\ InFlight' /\ Waiting'
  BY <1>1, <1>6, FramerTypes DEF Wire, InFlight, Waiting
<1> QED
  BY <1>1, <1>4, <1>5, <1>7 DEF LinkInvariant

(* A plain message joins those cut, and the frames behind it continue them. *)
LEMMA MessageSteps ==
  ASSUME LinkInvariant, UNCHANGED peer, CutMessage
  PROVE  LinkInvariant'
<1>1. /\ at = "cut" /\ at' = "cut" /\ Complete /\ ~BadSize /\ HeaderComplete
      /\ Head(stream).kind = "message" /\ FrameDone
      /\ msgs' = msgs \o Head(stream).inner
      /\ unread' = unread /\ inner' = inner /\ left' = left /\ delivered' = delivered
      /\ m_sendBuffer' = m_sendBuffer /\ made' = made /\ sent' = sent /\ garbled' = garbled
      /\ Head(stream).dwSize <= m_buf /\ Head(stream).dwSize \in kHeaderSize..kMaxMessageSize
  BY DEF CutMessage, peer, Complete, BadSize
<1>2. stream # << >> /\ Head(stream) \in Frame /\ Intact >= 1
  <2>1. ASSUME Head(stream) \in BadFrames, m_buf <= Head(stream).bytes, Head(stream) \in Frame PROVE FALSE
    <3>1. Head(stream).dwSize > Head(stream).bytes
      BY <1>1, <2>1, BadFrameType DEF Malformed
    <3>2. Head(stream).dwSize \in Nat /\ Head(stream).bytes \in Nat
      BY <2>1, Elements
    <3> QED
      BY <1>1, <2>1, <3>1, <3>2, FramerTypes
  <2> QED
    BY <1>1, <2>1, FrontFrame
<1>3. /\ Wire' /\ stream' \in Seq(Frame) /\ m_buf' \in 0..2 * kMaxMessageSize
      /\ Intact' = Intact - 1
  BY <1>1, <1>2, FrontFrameDone
<1> DEFINE b == Head(stream).inner
<1>4. b \in Seq(InnerMessage) /\ Len(b) \in Nat
  BY <1>2, Elements, LenProperties
<1>5. /\ Segment(b, Taken, sent)
      /\ Chain(Tail(stream), Intact - 1, Taken + Len(b), sent)
  <2>1. Intact \in 1..Len(stream)
    <3>1. Len(stream) \in Nat
      BY FramerTypes, LenProperties
    <3> QED
      BY <1>2, <3>1 DEF Intact
  <2>2. Chain(stream, Intact, Taken, sent)
    BY <1>1, FramerTypes DEF InFlight
  <2> QED
    BY <2>1, <2>2, FramerTypes, ChainTail
<1>6. Segment(msgs', Len(delivered), sent)
  <2>1. Segment(msgs, Len(delivered), sent) /\ Taken = Len(delivered) + Len(msgs)
    BY <1>1, FramerTypes DEF InFlight, Taken
  <2>2. Segment(b, Len(delivered) + Len(msgs), sent)
    BY <1>5, <2>1
  <2>3. Segment(msgs \o b, Len(delivered), sent)
    BY <1>4, <2>1, <2>2, FramerTypes, SegmentConcat
  <2> QED
    BY <1>1, <2>3
<1>7. msgs' \in Seq(InnerMessage) /\ Len(msgs') = Len(msgs) + Len(b)
  BY <1>1, <1>4, FramerTypes, ConcatProperties
<1>8. Taken' = Taken + Len(b)
  <2>1. Taken = Len(delivered) + Len(msgs) /\ Taken' = Len(delivered) + Len(msgs')
    BY <1>1 DEF Taken
  <2>2. Len(delivered) \in Nat /\ Len(msgs) \in Nat
    BY FramerTypes
  <2> HIDE DEF b
  <2> QED
    BY <1>4, <1>7, <2>1, <2>2
<1>9. TypeOK'
  BY <1>1, <1>3, <1>7 DEF TypeOK, LinkInvariant
<1>10. InFlight'
  <2>1. Chain(stream', Intact', Taken', sent')
    BY <1>1, <1>3, <1>5, <1>8 DEF FrameDone
  <2>2. Segment(delivered', 0, sent')
    BY <1>1, FramerTypes DEF InFlight
  <2> QED
    BY <1>1, <1>6, <2>1, <2>2 DEF InFlight
<1> QED
  BY <1>1, <1>3, <1>9, <1>10 DEF LinkInvariant, Waiting

(* An envelope is opened: a good one holds what continues the messages cut, *)
(* a malformed one a message that does not fit.                             *)
LEMMA EnvelopeSteps ==
  ASSUME LinkInvariant, UNCHANGED peer, CutEnvelope
  PROVE  LinkInvariant'
<1>1. /\ at = "cut" /\ at' = "unpack" /\ Complete /\ ~BadSize /\ HeaderComplete
      /\ Head(stream).kind \in {"raw", "lzo"} /\ Head(stream).dwSize >= SizeofNET_COMPRESS
      /\ inner' = Head(stream).inner /\ left' = Head(stream).length
      /\ stream' = stream /\ unread' = unread /\ m_buf' = m_buf /\ msgs' = msgs /\ delivered' = delivered
      /\ m_sendBuffer' = m_sendBuffer /\ made' = made /\ sent' = sent /\ garbled' = garbled
      /\ Head(stream).dwSize <= m_buf /\ Head(stream).dwSize \in kHeaderSize..kMaxMessageSize
  BY DEF CutEnvelope, Go, peer, Complete, BadSize
<1>2. Head(stream) \in Frame
  BY <1>1, FrontFrame
<1>3. TypeOK'
  <2>1. inner' \in Seq(InnerMessage) /\ left' \in Nat
    BY <1>1, <1>2, Elements
  <2> QED
    BY <1>1, <2>1 DEF TypeOK, LinkInvariant
<1>4. Intact' = Intact /\ Taken' = Taken
  BY <1>1 DEF Intact, Taken
<1>5. /\ Segment(delivered, 0, sent) /\ Segment(msgs, Len(delivered), sent)
      /\ Chain(stream, Intact, Taken, sent)
  BY <1>1, FramerTypes DEF InFlight
<1>6. ASSUME Intact >= 1, GoodFrame(Head(stream)) PROVE UnpacksGood'
  <2>1. Intact \in 1..Len(stream)
    <3>1. Len(stream) \in Nat
      BY FramerTypes, LenProperties
    <3> QED
      BY <1>6, <3>1 DEF Intact
  <2>2. /\ Segment(Head(stream).inner, Taken, sent)
        /\ Chain(Tail(stream), Intact - 1, Taken + Len(Head(stream).inner), sent)
    BY <1>5, <2>1, FramerTypes, ChainTail
  <2>3. Adds(Head(stream).inner, "size", Head(stream).length)
    BY <1>1, <1>6 DEF GoodFrame
  <2> QED
    BY <1>1, <1>4, <1>5, <1>6, <2>2, <2>3 DEF UnpacksGood
<1>7. ASSUME garbled, Intact = 0, Head(stream) \in BadFrames, m_buf <= Head(stream).bytes PROVE UnpacksBad'
  <2>1. ~(Head(stream).dwSize > Head(stream).bytes)
    <3>1. Head(stream).dwSize \in Nat /\ Head(stream).bytes \in Nat
      BY <1>2, Elements
    <3> QED
      BY <1>1, <1>7, <3>1, FramerTypes
  <2>2. ~(Head(stream).dwSize < SizeofNET_COMPRESS)
    <3>1. Head(stream).dwSize \in Nat
      BY <1>2, Elements
    <3> QED
      BY <1>1, <3>1, Limits
  <2>3. Misfits(Head(stream).inner, Head(stream).length)
    BY <1>1, <1>7, <2>1, <2>2, BadFrameType DEF Malformed
  <2> DEFINE b == Head(stream).inner
             length == Head(stream).length
  <2>4. DoesNotFit(b, length)
    <3>1. PICK k \in 1..Len(b) : \E rest \in [1..k -> 0..length] :
            /\ rest[1] = length
            /\ \A i \in 1..k - 1 : /\ b[i].size \in kHeaderSize..rest[i]
                                   /\ rest[i + 1] = rest[i] - b[i].size
            /\ rest[k] >= kHeaderSize
            /\ b[k].size \notin kHeaderSize..rest[k]
      BY <2>3 DEF Misfits
    <3>2. length \in Nat
      BY <1>2, Elements
    <3> HIDE DEF length
    <3>3. [1..k -> 0..length] \subseteq [1..k -> Nat]
      BY <3>2
    <3> QED
      BY <3>1, <3>3 DEF DoesNotFit
  <2> QED
    BY <1>1, <1>4, <1>7, <2>4 DEF UnpacksBad
<1>8. UnpacksGood' \/ UnpacksBad'
  BY <1>1, <1>6, <1>7, FrontFrame
<1>9. Wire' /\ InFlight'
  BY <1>1, <1>4, <1>5, <1>8, FramerTypes DEF Wire, InFlight
<1> QED
  BY <1>1, <1>3, <1>9 DEF LinkInvariant, Waiting

(* A message of the envelope joins those cut.                               *)
LEMMA UnpackSteps ==
  ASSUME LinkInvariant, UNCHANGED peer, UnpackMessage
  PROVE  LinkInvariant'
<1> DEFINE m == Head(inner)
<1>1. /\ at = "unpack" /\ at' = "unpack" /\ left >= kHeaderSize /\ m.size \in kHeaderSize..left
      /\ msgs' = Append(msgs, m) /\ left' = left - m.size /\ inner' = Tail(inner)
      /\ stream' = stream /\ unread' = unread /\ m_buf' = m_buf /\ delivered' = delivered
      /\ m_sendBuffer' = m_sendBuffer /\ made' = made /\ sent' = sent /\ garbled' = garbled
  BY DEF UnpackMessage, peer
<1>2. UnpacksGood \/ UnpacksBad
  BY <1>1, FramerTypes DEF InFlight
<1>3. inner # << >>
  <2>1. CASE UnpacksGood
    <3>1. left # 0 /\ Adds(inner, "size", left)
      BY <1>1, <2>1, FramerTypes, Limits DEF UnpacksGood
    <3> QED
      BY <3>1, AddsEmpty
  <2>2. CASE UnpacksBad
    BY <2>2, FramerTypes, DoesNotFitStays DEF UnpacksBad
  <2> QED
    BY <1>2, <2>1, <2>2
<1>4. /\ m \in InnerMessage /\ m["size"] = m.size /\ m.size \in Nat
      /\ Tail(inner) \in Seq(InnerMessage)
      /\ Len(Tail(inner)) = Len(inner) - 1 /\ Len(inner) \in Nat
  BY <1>3, FramerTypes, Elements, HeadTailProperties, LenProperties
<1> HIDE DEF m
<1>5. msgs' \in Seq(InnerMessage) /\ Len(msgs') = Len(msgs) + 1 /\ left' \in Nat
  <2>1. left' \in Nat
    BY <1>1, <1>4, FramerTypes, Limits
  <2> QED
    BY <1>1, <1>4, <2>1, FramerTypes, AppendProperties
<1>6. TypeOK'
  BY <1>1, <1>4, <1>5 DEF TypeOK, LinkInvariant
<1>7. Intact' = Intact /\ Taken = Len(delivered) + Len(msgs) /\ Taken' = Taken + 1
  BY <1>1, <1>5, FramerTypes DEF Intact, Taken
<1>8. ASSUME UnpacksGood PROVE UnpacksGood'
  <2>1. /\ Intact >= 1 /\ Head(stream).dwSize <= m_buf
        /\ Segment(msgs, Len(delivered), sent) /\ Segment(inner, Taken, sent)
        /\ Adds(inner, "size", left)
        /\ Chain(Tail(stream), Intact - 1, Taken + Len(inner), sent)
    BY <1>8 DEF UnpacksGood
  <2>2. Segment(<< m >>, Taken, sent) /\ Segment(Tail(inner), Taken + 1, sent)
    BY <1>3, <2>1, FramerTypes, SegmentTail DEF m
  <2>3. Segment(Append(msgs, m), Len(delivered), sent)
    <3>1. Segment(<< m >>, Len(delivered) + Len(msgs), sent)
      BY <1>7, <2>2
    <3>2. << m >> \in Seq(InnerMessage) /\ Append(msgs, m) = msgs \o << m >>
      BY <1>4, FramerTypes, AppendIsConcat
    <3> QED
      BY <2>1, <3>1, <3>2, FramerTypes, SegmentConcat
  <2>4. Adds(Tail(inner), "size", left - m.size)
    <3>1. Adds(Tail(inner), "size", left - m["size"])
      BY <1>3, <2>1, FramerTypes, Elements, AddsTail DEF m
    <3> QED
      BY <1>4, <3>1
  <2>5. Taken' + Len(inner') = Taken + Len(inner)
    BY <1>1, <1>4, <1>7, FramerTypes
  <2> QED
    BY <1>1, <1>7, <2>1, <2>2, <2>3, <2>4, <2>5 DEF UnpacksGood
<1>9. ASSUME UnpacksBad PROVE UnpacksBad'
  <2>1. DoesNotFit(Tail(inner), left - m.size)
    BY <1>1, <1>9, FramerTypes, DoesNotFitStays DEF UnpacksBad, m
  <2> QED
    BY <1>1, <1>7, <1>9, <2>1 DEF UnpacksBad
<1>10. Wire' /\ InFlight'
  BY <1>1, <1>2, <1>7, <1>8, <1>9, FramerTypes DEF Wire, InFlight
<1> QED
  BY <1>1, <1>6, <1>10 DEF LinkInvariant, Waiting

(* When less than a header is left of an envelope nothing is: all its       *)
(* messages have been cut.                                                  *)
LEMMA EnvelopeEnds ==
  ASSUME LinkInvariant, UNCHANGED peer, UnpackEnds
  PROVE  LinkInvariant'
<1>1. /\ at = "unpack" /\ at' = "cut" /\ left < kHeaderSize /\ FrameDone
      /\ unread' = unread /\ inner' = inner /\ left' = left /\ msgs' = msgs /\ delivered' = delivered
      /\ m_sendBuffer' = m_sendBuffer /\ made' = made /\ sent' = sent /\ garbled' = garbled
  BY DEF UnpackEnds, Go, peer, cutting
<1>2. UnpacksGood
  <2>1. ~UnpacksBad
    <3>1. ASSUME UnpacksBad PROVE left >= kHeaderSize
      BY <3>1, FramerTypes, DoesNotFitStays DEF UnpacksBad
    <3> QED
      BY <1>1, <3>1, FramerTypes, Limits
  <2> QED
    BY <1>1, <2>1, FramerTypes DEF InFlight
<1>3. /\ Intact >= 1 /\ Head(stream).dwSize <= m_buf
      /\ Segment(msgs, Len(delivered), sent) /\ Segment(inner, Taken, sent)
      /\ Adds(inner, "size", left)
      /\ Chain(Tail(stream), Intact - 1, Taken + Len(inner), sent)
  BY <1>2 DEF UnpacksGood
<1>4. inner = << >>
  <2>1. ASSUME inner # << >> PROVE FALSE
    <3>1. Head(inner)["size"] <= left
      BY <1>3, <2>1, FramerTypes, Elements, AddsTail
    <3>2. inner \in Seq(Message)
      BY <1>3, FramerTypes, SegmentType
    <3>3. Head(inner) \in Message /\ Head(inner) \in InnerMessage
      BY <2>1, <3>2, Elements, HeadTailProperties
    <3>4. Head(inner).size \in Nat /\ Head(inner).size >= kHeaderSize /\ Head(inner).size <= left
      BY <3>1, <3>3, Elements
    <3> QED
      BY <1>1, <3>4, FramerTypes, Limits
  <2> QED
    BY <2>1
<1>5. /\ Wire' /\ stream' \in Seq(Frame) /\ m_buf' \in 0..2 * kMaxMessageSize
      /\ Intact' = Intact - 1
  BY <1>1, <1>3, FrontFrameDone
<1>6. Taken' = Taken /\ Taken + Len(inner) = Taken
  BY <1>1, <1>4, FramerTypes DEF Taken
<1>7. TypeOK'
  BY <1>1, <1>5 DEF TypeOK, LinkInvariant
<1>8. InFlight'
  <2>1. Chain(stream', Intact', Taken', sent')
    BY <1>1, <1>3, <1>5, <1>6 DEF FrameDone
  <2> QED
    BY <1>1, <1>3, <2>1, FramerTypes DEF InFlight
<1> QED
  BY <1>1, <1>5, <1>7, <1>8 DEF LinkInvariant, Waiting

-----------------------------------------------------------------------------
(* The invariant of the link between SendMsgBuffer and EncodeMessage on one *)
(* end and MessageFramer::Feed on the other: bytes and messages are         *)
(* conserved on the way.                                                    *)
THEOREM LinkInvariantHolds == Spec => []LinkInvariant
<1>1. LinkInvariant /\ [Next]_vars => LinkInvariant'
  <2> SUFFICES ASSUME LinkInvariant, [Next]_vars PROVE LinkInvariant'
    OBVIOUS
  <2>1. CASE PeerNext
    BY <2>1, PeerSteps
  <2>2. CASE FramerNext /\ UNCHANGED peer
    BY <2>2, ReadSteps, StopSteps, DropSteps, MessageSteps, EnvelopeSteps, UnpackSteps, EnvelopeEnds,
       DeliverSteps DEF FramerNext
  <2>3. CASE UNCHANGED vars
    BY <2>3 DEF vars, framer, cutting, peer, LinkInvariant, TypeOK, Wire, InFlight, Waiting, Intact, Taken,
                UnpacksGood, UnpacksBad, HeaderComplete, BadSize, Complete
  <2> QED
    BY <2>1, <2>2, <2>3 DEF Next, Over
<1> QED
  BY LinkInit, <1>1, PTL DEF Spec

(* The type invariant: in particular m_buf never holds more than a frame    *)
(* and a read, and only messages that were sent are handed on.              *)
THEOREM LinkTypeCorrect == Spec => []TypeOK
<1>1. LinkInvariant => TypeOK
  BY DEF LinkInvariant
<1> QED
  BY <1>1, LinkInvariantHolds, PTL

(* However the stream is cut into reads and batches, m_onMsg gets what the  *)
(* peer sent, in order and without repetition.                              *)
THEOREM InOrderCorrect == Spec => []InOrder
<1>1. LinkInvariant => InOrder
  <2> SUFFICES ASSUME LinkInvariant PROVE InOrder
    OBVIOUS
  <2>1. delivered \in Seq(Message) /\ sent \in Seq(Message) /\ Len(sent) \in Nat /\ Segment(delivered, 0, sent)
    BY FramerTypes, LenProperties DEF InFlight
  <2>2. Agrees(delivered, sent)
    <3>1. Len(delivered) \in Nat
      BY <2>1, LenProperties
    <3> QED
      BY <2>1, <3>1 DEF Segment, Agrees
  <2>3. delivered = SubSeq(sent, 1, Len(delivered)) /\ Len(delivered) <= Len(sent)
    BY <2>1, <2>2, AgreesIsBeginning DEF Agrees
  <2> QED
    BY <2>3 DEF InOrder, IsPrefix
<1> QED
  BY <1>1, LinkInvariantHolds, PTL

(* Feed() emits every complete frame available: between two reads it holds  *)
(* less than one.                                                           *)
THEOREM NothingCompleteWaitsCorrect == Spec => []NothingCompleteWaits
<1>1. LinkInvariant => NothingCompleteWaits
  BY WaitingIsSmall DEF LinkInvariant, NothingCompleteWaits, Waiting, BadSize, Complete
<1> QED
  BY <1>1, LinkInvariantHolds, PTL

(* Nothing stays behind in the framer when all bytes have been read.        *)
THEOREM AllDeliveredCorrect == Spec => []AllDelivered
<1>1. LinkInvariant => AllDelivered
  <2> SUFFICES ASSUME LinkInvariant, at = "read", unread = 0, ~garbled PROVE delivered = sent /\ m_buf = 0
    BY DEF AllDelivered
  <2>1. stream = << >>
    <3>1. ASSUME stream # << >> PROVE FALSE
      <4>1. /\ Len(stream) \in Nat \ {0} /\ Head(stream) = stream[1] /\ Intact = Len(stream)
        BY <3>1, FramerTypes, EmptySeq DEF Intact
      <4>2. GoodFrame(Head(stream))
        BY <4>1, FramerTypes DEF Wire
      <4>3. Head(stream)["bytes"] <= unread + m_buf
        <5>1. unread + m_buf \in Nat /\ Adds(stream, "bytes", unread + m_buf)
          BY FramerTypes DEF Wire
        <5> QED
          BY <3>1, <5>1, FramerTypes, Elements, AddsTail
      <4>4. Head(stream).dwSize <= m_buf /\ Head(stream).dwSize \in kHeaderSize..kMaxMessageSize
        BY <4>2, <4>3, FramerTypes, Elements DEF GoodFrame
      <4>5. HeaderComplete
        BY <4>4, FramerTypes, Limits DEF HeaderComplete
      <4> QED
        BY <4>4, <4>5, FramerTypes DEF Waiting, Complete
    <3> QED
      BY <3>1
  <2>2. m_buf = 0
    <3> DEFINE total == unread + m_buf
    <3>1. Adds(<< >>, "bytes", total)
      BY <2>1, FramerTypes DEF Wire
    <3> HIDE DEF total
    <3>2. total = 0
      BY <3>1, AddsEmpty
    <3> QED
      BY <3>2, FramerTypes DEF total
  <2>3. Intact = 0 /\ Taken = Len(delivered)
    BY <2>1, FramerTypes DEF Intact, Taken
  <2>4. Len(delivered) = Len(sent) /\ Segment(delivered, 0, sent)
    BY <2>3, FramerTypes, ChainEnds DEF InFlight
  <2> QED
    BY <2>2, <2>4, FramerTypes, SegmentWhole
<1> QED
  BY <1>1, LinkInvariantHolds, PTL

(* Feed() never returns false on what EncodeMessage and SendMsgBuffer make. *)
THEOREM OwnFramesAreAcceptedCorrect == Spec => []OwnFramesAreAccepted
<1>1. LinkInvariant => OwnFramesAreAccepted
  BY DEF LinkInvariant, OwnFramesAreAccepted
<1> QED
  BY <1>1, LinkInvariantHolds, PTL
=============================================================================
