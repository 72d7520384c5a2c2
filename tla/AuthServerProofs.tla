-------------------------- MODULE AuthServerProofs --------------------------
(***************************************************************************)
(* Theorems about AuthServer and its cipher for every value of their       *)
(* constants.                                                              *)
(***************************************************************************)
EXTENDS AuthServer, PrefixLemmas

(* A power of two is doubled from one exponent to the next.                 *)
LEMMA Pow2Doubles ==
  pow2 \in [Nat -> Nat \ {0}] /\ pow2[0] = 1 /\ \A n \in Nat : pow2[n + 1] = 2 * pow2[n]
<1> DEFINE Is(f) == f = [n \in Nat |-> IF n = 0 THEN 1 ELSE 2 * f[n - 1]]
           step == [k \in Nat |-> [d \in Nat |-> 2 * d]]
<1>1. pow2 = CHOOSE f : Is(f)
  BY Zenon DEF pow2
<1>2. PICK g \in [Nat -> Nat] : g[0] = 1 /\ \A k \in Nat : g[k + 1] = step[k][g[k]]
  <2>1. step \in StepsOn(Nat)
    BY DEF StepsOn
  <2> HIDE DEF step
  <2>2. \E g : LoopRuns(g, Nat, 1, step)
    BY <2>1, Loop
  <2> QED
    BY <2>2 DEF LoopRuns
<1>3. Is(g)
  <2>1. ASSUME NEW n \in Nat PROVE g[n] = IF n = 0 THEN 1 ELSE 2 * g[n - 1]
    <3>1. CASE n = 0
      BY <1>2, <3>1
    <3>2. CASE n # 0
      <4>1. n - 1 \in Nat /\ (n - 1) + 1 = n
        BY <3>2
      <4> QED
        BY <1>2, <3>2, <4>1
    <3> QED
      BY <3>1, <3>2
  <2> QED
    BY <2>1
<1>4. Is(pow2)
  <2> HIDE DEF Is
  <2> QED
    BY <1>1, <1>3
<1>5. pow2[0] = 1 /\ \A n \in Nat : pow2[n + 1] = 2 * pow2[n]
  BY <1>4
<1>6. \A n \in Nat : pow2[n] \in Nat \ {0}
  <2> DEFINE S == {n \in Nat : pow2[n] \in Nat \ {0}}
  <2>1. S \in SUBSET Nat /\ 0 \in S /\ \A n \in S : n + 1 \in S
    BY <1>5
  <2> HIDE DEF S
  <2>2. S = Nat
    BY <2>1, SetInduction
  <2> QED
    BY <2>2 DEF S
<1>7. pow2 \in [Nat -> Nat \ {0}]
  BY <1>4, <1>6
<1> QED
  BY <1>5, <1>7

(* Powers of two multiply as their exponents add.                           *)
LEMMA Pow2Adds ==
  ASSUME NEW m \in Nat, NEW n \in Nat
  PROVE  pow2[m + n] = pow2[m] * pow2[n]
<1> DEFINE S == {k \in Nat : pow2[m + k] = pow2[m] * pow2[k]}
<1>1. S \in SUBSET Nat /\ 0 \in S
  BY Pow2Doubles
<1>2. ASSUME NEW k \in S PROVE k + 1 \in S
  <2>1. m + k \in Nat /\ (m + k) + 1 = m + (k + 1)
    OBVIOUS
  <2>2. pow2[m + (k + 1)] = 2 * pow2[m + k] /\ pow2[k + 1] = 2 * pow2[k]
    BY <2>1, Pow2Doubles
  <2>3. \A p, q \in Nat : 2 * (p * q) = p * (2 * q)
    OBVIOUS
  <2>4. pow2[m] \in Nat /\ pow2[k] \in Nat /\ pow2[m + k] = pow2[m] * pow2[k]
    BY Pow2Doubles
  <2> QED
    BY <2>2, <2>3, <2>4
<1> HIDE DEF S
<1>3. S = Nat
  BY <1>1, <1>2, SetInduction
<1> QED
  BY <1>3 DEF S

(* What fixes a quotient and a remainder.                                   *)
LEMMA Division ==
  ASSUME NEW p \in Nat \ {0}, NEW q \in Int, NEW r \in 0..p - 1
  PROVE  (p * q + r) \div p = q /\ (p * q + r) % p = r
OBVIOUS

(* A number is its quotient and its remainder.                              *)
LEMMA QuotientAndRemainder ==
  ASSUME NEW p \in Nat \ {0}, NEW x \in Int
  PROVE  x \div p \in Int /\ x % p \in 0..p - 1 /\ x = p * (x \div p) + (x % p)
OBVIOUS

(* Dividing twice is dividing by the product.                               *)
LEMMA DividedTwice ==
  ASSUME NEW p \in Nat \ {0}, NEW q \in Nat \ {0}, NEW x \in Nat
  PROVE  (x \div p) \div q = x \div (p * q)
OBVIOUS

-----------------------------------------------------------------------------
(* Exclusive or.  It is the limit of what its first k steps make of a pair: *)
(* a pair is settled after as many steps as its sum.                        *)
Pairs   == Nat \X Nat
Half(p) == << p[1] \div 2, p[2] \div 2 >>

(* Halving makes a pair smaller, until it is << 0, 0 >>.                    *)
LEMMA HalfOfPair ==
  ASSUME NEW p \in Pairs
  PROVE  /\ p[1] \in Nat /\ p[2] \in Nat /\ p = << p[1], p[2] >>
         /\ Half(p) \in Pairs /\ Half(p)[1] = p[1] \div 2 /\ Half(p)[2] = p[2] \div 2
         /\ p # << 0, 0 >> => (p[1] \div 2) + (p[2] \div 2) < p[1] + p[2]
BY DEF Pairs, Half

Xors(f)  == f = [p \in Nat \X Nat |->
                   IF p = << 0, 0 >> THEN 0
                   ELSE ((p[1] + p[2]) % 2) + 2 * f[<< p[1] \div 2, p[2] \div 2 >>]]
XorStep(f) == [p \in Pairs |-> IF p = << 0, 0 >> THEN 0 ELSE ((p[1] + p[2]) % 2) + 2 * f[Half(p)]]

(* The definition of the exclusive or has a solution.                       *)
LEMMA XorExists == \E f : Xors(f) /\ f \in [Pairs -> Nat]
<1> DEFINE D == [Pairs -> Nat]
           step == [k \in Nat |-> [f \in D |-> XorStep(f)]]
           x0 == [p \in Pairs |-> 0]
<1>1. x0 \in D
  OBVIOUS
<1>2. step \in StepsOn(D)
  <2>1. ASSUME NEW f \in D PROVE XorStep(f) \in D
    <3>1. ASSUME NEW p \in Pairs PROVE ((p[1] + p[2]) % 2) + 2 * f[Half(p)] \in Nat
      <4>1. f[Half(p)] \in Nat /\ p[1] \in Nat /\ p[2] \in Nat
        BY HalfOfPair
      <4> QED
        BY <4>1
    <3> QED
      BY <3>1 DEF XorStep
  <2> QED
    BY <2>1 DEF StepsOn
<1>3. PICK F : LoopRuns(F, D, x0, step)
  <2> HIDE DEF D, step, x0
  <2> QED
    BY <1>1, <1>2, Loop
<1>4. /\ \A k \in Nat : F[k] \in [Pairs -> Nat]
      /\ \A k \in Nat, p \in Pairs :
           F[k + 1][p] = IF p = << 0, 0 >> THEN 0 ELSE ((p[1] + p[2]) % 2) + 2 * F[k][Half(p)]
      /\ \A p \in Pairs : F[0][p] = 0
  <2>1. F[0] = x0 /\ \A k \in Nat : F[k] \in D /\ F[k + 1] = step[k][F[k]]
    BY <1>3 DEF LoopRuns
  <2>2. ASSUME NEW k \in Nat PROVE F[k + 1] = XorStep(F[k])
    BY <2>1
  <2>3. ASSUME NEW k \in Nat, NEW p \in Pairs
        PROVE  F[k + 1][p] = IF p = << 0, 0 >> THEN 0 ELSE ((p[1] + p[2]) % 2) + 2 * F[k][Half(p)]
    BY <2>2 DEF XorStep
  <2> QED
    BY <2>1, <2>3
<1> DEFINE sum(p) == p[1] + p[2]
           S == {k \in Nat : \A p \in Pairs : sum(p) <= k => F[k + 1][p] = F[k][p]}
           T == {k \in Nat : \A p \in Pairs : sum(p) <= k => F[k][p] = F[sum(p)][p]}
<1>5. S = Nat
  <2>1. 0 \in S
    <3>1. ASSUME NEW p \in Pairs, sum(p) <= 0 PROVE F[0 + 1][p] = F[0][p]
      <4>1. p = << 0, 0 >>
        BY <3>1, HalfOfPair
      <4>2. 0 \in Nat
        OBVIOUS
      <4> QED
        BY <1>4, <4>1, <4>2
    <3> QED
      BY <3>1
  <2>2. ASSUME NEW k \in S PROVE k + 1 \in S
    <3>1. ASSUME NEW p \in Pairs, sum(p) <= k + 1, p # << 0, 0 >>
          PROVE  F[(k + 1) + 1][p] = F[k + 1][p]
      <4>1. Half(p) \in Pairs /\ sum(Half(p)) <= k
        BY <3>1, HalfOfPair
      <4>2. F[k + 1][Half(p)] = F[k][Half(p)]
        BY <4>1
      <4>3. k \in Nat /\ k + 1 \in Nat
        OBVIOUS
      <4> QED
        BY <1>4, <3>1, <4>2, <4>3
    <3>2. k + 1 \in Nat /\ \A p \in Pairs : p = << 0, 0 >> => F[(k + 1) + 1][p] = F[k + 1][p]
      BY <1>4
    <3> QED
      BY <3>1, <3>2
  <2>3. S \in SUBSET Nat
    OBVIOUS
  <2> HIDE DEF S
  <2> QED
    BY <2>1, <2>2, <2>3, SetInduction
<1>6. T = Nat
  <2>1. 0 \in T
    <3>1. ASSUME NEW p \in Pairs, sum(p) <= 0 PROVE sum(p) = 0
      <4>1. p[1] \in Nat /\ p[2] \in Nat
        BY HalfOfPair
      <4> QED
        BY <3>1, <4>1
    <3> QED
      BY <3>1
  <2>2. ASSUME NEW k \in T PROVE k + 1 \in T
    <3>1. ASSUME NEW p \in Pairs, sum(p) <= k + 1 PROVE F[k + 1][p] = F[sum(p)][p]
      <4>1. sum(p) \in Nat /\ k \in Nat
        BY HalfOfPair
      <4>2. CASE sum(p) <= k
        <5>1. k \in S
          BY <1>5, <4>1
        <5> QED
          BY <4>2, <5>1
      <4>3. CASE ~(sum(p) <= k)
        <5>1. sum(p) = k + 1
          BY <3>1, <4>1, <4>3
        <5> QED
          BY <5>1
      <4> QED
        BY <4>2, <4>3
    <3> QED
      BY <3>1
  <2>3. T \in SUBSET Nat
    OBVIOUS
  <2> HIDE DEF T
  <2> QED
    BY <2>1, <2>2, <2>3, SetInduction
<1> DEFINE g == [p \in Pairs |-> F[sum(p)][p]]
<1>7. g \in [Pairs -> Nat]
  <2>1. \A p \in Pairs : sum(p) \in Nat
    BY HalfOfPair
  <2> QED
    BY <1>4, <2>1
<1>8. ASSUME NEW p \in Pairs
      PROVE  g[p] = IF p = << 0, 0 >> THEN 0 ELSE ((p[1] + p[2]) % 2) + 2 * g[Half(p)]
  <2>1. CASE p = << 0, 0 >>
    <3>1. sum(p) = 0
      BY <2>1
    <3> QED
      BY <1>4, <2>1, <3>1
  <2>2. CASE p # << 0, 0 >>
    <3>1. /\ sum(p) - 1 \in Nat /\ (sum(p) - 1) + 1 = sum(p)
          /\ Half(p) \in Pairs /\ sum(Half(p)) <= sum(p) - 1
      BY <2>2, HalfOfPair
    <3> DEFINE k == sum(p) - 1
    <3>2. F[k][Half(p)] = g[Half(p)]
      <4>1. k \in T
        BY <1>6, <3>1
      <4> QED
        BY <3>1, <4>1
    <3>3. F[k + 1][p] = ((p[1] + p[2]) % 2) + 2 * F[k][Half(p)]
      BY <1>4, <2>2, <3>1
    <3> QED
      BY <2>2, <3>1, <3>2, <3>3
  <2> QED
    BY <2>1, <2>2
<1> HIDE DEF g
<1>9. Xors(g)
  BY <1>7, <1>8 DEF Xors, Pairs, Half
<1> QED
  BY <1>7, <1>9

(* Exclusive or, bit by bit.                                                *)
LEMMA XorBits ==
  \A a, b \in Nat : a ^^ b = ((a + b) % 2) + 2 * ((a \div 2) ^^ (b \div 2))
<1>1. xor = CHOOSE f : Xors(f)
  BY DEF xor, Xors
<1>2. Xors(xor)
  BY <1>1, XorExists
<1>3. \A p \in Pairs : xor[p] = IF p = << 0, 0 >> THEN 0 ELSE ((p[1] + p[2]) % 2) + 2 * xor[Half(p)]
  BY <1>2 DEF Xors, Pairs, Half
<1>4. ASSUME NEW a \in Nat, NEW b \in Nat
      PROVE  a ^^ b = ((a + b) % 2) + 2 * ((a \div 2) ^^ (b \div 2))
  <2>1. << a, b >> \in Pairs /\ Half(<< a, b >>) = << a \div 2, b \div 2 >>
    BY DEF Pairs, Half
  <2>2. CASE a = 0 /\ b = 0
    <3>1. xor[<< 0, 0 >>] = 0 /\ a \div 2 = 0 /\ b \div 2 = 0 /\ (a + b) % 2 = 0
      BY <1>3, <2>1, <2>2
    <3> QED
      BY <2>2, <3>1 DEF ^^
  <2>3. CASE ~(a = 0 /\ b = 0)
    <3>1. << a, b >> # << 0, 0 >>
      BY <2>3
    <3> QED
      BY <1>3, <2>1, <3>1 DEF ^^
  <2> QED
    BY <2>2, <2>3
<1> QED
  BY <1>4

(* Exclusive or of numbers is a number.                                     *)
LEMMA XorNat ==
  \A a, b \in Nat : a ^^ b \in Nat
<1>1. xor = CHOOSE f : Xors(f)
  BY DEF xor, Xors
<1>2. Xors(xor)
  BY <1>1, XorExists
<1>3. \A p \in Pairs : xor[p] = IF p = << 0, 0 >> THEN 0 ELSE ((p[1] + p[2]) % 2) + 2 * xor[Half(p)]
  BY <1>2 DEF Xors, Pairs, Half
<1> DEFINE S == {n \in Nat : \A p \in Pairs : p[1] + p[2] = n => xor[p] \in Nat}
<1>4. ASSUME NEW n \in Nat, 0..n - 1 \subseteq S PROVE n \in S
  <2>1. ASSUME NEW p \in Pairs, p[1] + p[2] = n, p # << 0, 0 >> PROVE xor[p] \in Nat
    <3>1. /\ p[1] \in Nat /\ p[2] \in Nat /\ Half(p) \in Pairs
          /\ Half(p)[1] + Half(p)[2] \in 0..n - 1
      BY <2>1, HalfOfPair
    <3>2. xor[Half(p)] \in Nat
      BY <1>4, <3>1
    <3> QED
      BY <1>3, <2>1, <3>1, <3>2
  <2> QED
    BY <1>3, <2>1
<1>5. Nat \subseteq S
  <2> HIDE DEF S
  <2> QED
    BY <1>4, CountingFromBelow
<1>6. ASSUME NEW a \in Nat, NEW b \in Nat PROVE a ^^ b \in Nat
  <2>1. << a, b >> \in Pairs /\ a + b \in S
    BY <1>5 DEF Pairs
  <2>2. xor[<< a, b >>] \in Nat
    BY <2>1
  <2> QED
    BY <2>2 DEF ^^
<1> QED
  BY <1>6

(* The order of the two does not matter.                                    *)
LEMMA XorCommutes ==
  \A a, b \in Nat : a ^^ b = b ^^ a
<1> DEFINE S == {n \in Nat : \A a, b \in Nat : a + b = n => a ^^ b = b ^^ a}
<1>1. ASSUME NEW n \in Nat, 0..n - 1 \subseteq S PROVE n \in S
  <2>1. ASSUME NEW a \in Nat, NEW b \in Nat, a + b = n PROVE a ^^ b = b ^^ a
    <3> DEFINE x == a \div 2
               y == b \div 2
    <3>1. x \in Nat /\ y \in Nat
      OBVIOUS
    <3>2. a ^^ b = ((a + b) % 2) + 2 * (x ^^ y) /\ b ^^ a = ((b + a) % 2) + 2 * (y ^^ x)
      BY XorBits
    <3>3. x ^^ y = y ^^ x
      <4>1. CASE x + y = n
        <5>1. x = 0 /\ y = 0
          BY <2>1, <4>1
        <5> QED
          BY <5>1
      <4>2. CASE x + y # n
        <5>1. x + y \in 0..n - 1
          BY <2>1, <4>2
        <5>2. x + y \in S
          BY <1>1, <5>1
        <5> QED
          BY <3>1, <5>2
      <4> QED
        BY <4>1, <4>2
    <3>4. a + b = b + a
      OBVIOUS
    <3> HIDE DEF x, y
    <3> QED
      BY <3>2, <3>3, <3>4
  <2> QED
    BY <2>1
<1>2. Nat \subseteq S
  <2> HIDE DEF S
  <2> QED
    BY <1>1, CountingFromBelow
<1>3. ASSUME NEW a \in Nat, NEW b \in Nat PROVE a ^^ b = b ^^ a
  <2>1. a + b \in S
    <3>1. a + b \in Nat
      OBVIOUS
    <3> HIDE DEF S
    <3> QED
      BY <1>2, <3>1
  <2> QED
    BY <2>1
<1> QED
  BY <1>3

(* A second exclusive or with the same number undoes the first.             *)
LEMMA XorUndone ==
  \A a, b \in Nat : (a ^^ b) ^^ b = a
<1> DEFINE S == {n \in Nat : \A a, b \in Nat : a + b = n => (a ^^ b) ^^ b = a}
<1>1. ASSUME NEW n \in Nat, 0..n - 1 \subseteq S PROVE n \in S
  <2>1. ASSUME NEW a \in Nat, NEW b \in Nat, a + b = n PROVE (a ^^ b) ^^ b = a
    <3> DEFINE x == a \div 2
               y == b \div 2
               u == (a + b) % 2
               v == x ^^ y
               c == a ^^ b
    <3>1. x \in Nat /\ y \in Nat /\ u \in {0, 1}
      OBVIOUS
    <3>2. v \in Nat /\ c \in Nat /\ c = u + 2 * v
      BY <3>1, XorNat, XorBits
    <3>3. v ^^ y = x
      <4>1. CASE x + y = n
        <5>1. a = 0 /\ b = 0 /\ x = 0 /\ y = 0
          BY <2>1, <4>1
        <5>2. 0 ^^ 0 = 0
          <6>1. 0 ^^ 0 \in Nat /\ 0 ^^ 0 = ((0 + 0) % 2) + 2 * ((0 \div 2) ^^ (0 \div 2))
            BY XorNat, XorBits
          <6>2. 0 \div 2 = 0 /\ (0 + 0) % 2 = 0
            OBVIOUS
          <6>3. 0 ^^ 0 = 2 * (0 ^^ 0)
            BY <6>1, <6>2
          <6> QED
            BY <6>1, <6>3
        <5> QED
          BY <5>1, <5>2
      <4>2. CASE x + y # n
        <5>1. x + y \in 0..n - 1
          BY <2>1, <4>2
        <5>2. x + y \in S
          BY <1>1, <5>1
        <5> QED
          BY <3>1, <5>2
      <4> QED
        BY <4>1, <4>2
    <3>4. c ^^ b = ((c + b) % 2) + 2 * ((c \div 2) ^^ y)
      BY <3>2, XorBits
    <3>5. c \div 2 = v
      <4> HIDE DEF c, v, u
      <4> QED
        BY <3>1, <3>2
    <3>6. ((c + b) % 2) + 2 * x = a
      <4>1. (c + b) % 2 = (u + b) % 2
        <5> HIDE DEF c, v, u
        <5> QED
          BY <3>1, <3>2
      <4>2. (u + b) % 2 = a % 2
        OBVIOUS
      <4> QED
        BY <4>1, <4>2
    <3> HIDE DEF c, v, x, y
    <3>7. c ^^ b = a
      BY <3>3, <3>4, <3>5, <3>6
    <3> QED
      BY <3>7 DEF c
  <2> QED
    BY <2>1
<1>2. Nat \subseteq S
  <2> HIDE DEF S
  <2> QED
    BY <1>1, CountingFromBelow
<1>3. ASSUME NEW a \in Nat, NEW b \in Nat PROVE (a ^^ b) ^^ b = a
  <2>1. a + b \in S
    <3>1. a + b \in Nat
      OBVIOUS
    <3> HIDE DEF S
    <3> QED
      BY <1>2, <3>1
  <2> QED
    BY <2>1
<1> QED
  BY <1>3

(* Exclusive or of numbers of n bits has n bits.                            *)
LEMMA XorFits ==
  ASSUME NEW n \in Nat, NEW a \in 0..pow2[n] - 1, NEW b \in 0..pow2[n] - 1
  PROVE  a ^^ b \in 0..pow2[n] - 1
<1> DEFINE S == {k \in Nat : \A x, y \in Nat : x < pow2[k] /\ y < pow2[k] => x ^^ y < pow2[k]}
<1>1. 0 \in S
  <2>1. 0 ^^ 0 = 0
    <3>1. 0 ^^ 0 \in Nat /\ 0 ^^ 0 = ((0 + 0) % 2) + 2 * ((0 \div 2) ^^ (0 \div 2))
      BY XorNat, XorBits
    <3>2. 0 \div 2 = 0 /\ (0 + 0) % 2 = 0
      OBVIOUS
    <3>3. 0 ^^ 0 = 2 * (0 ^^ 0)
      BY <3>1, <3>2
    <3> QED
      BY <3>1, <3>3
  <2> QED
    BY <2>1, Pow2Doubles
<1>2. ASSUME NEW k \in S PROVE k + 1 \in S
  <2>1. ASSUME NEW x \in Nat, NEW y \in Nat, x < pow2[k + 1], y < pow2[k + 1]
        PROVE  x ^^ y < pow2[k + 1]
    <3>1. pow2[k] \in Nat /\ pow2[k + 1] = 2 * pow2[k]
      BY Pow2Doubles
    <3>2. x \div 2 \in Nat /\ y \div 2 \in Nat /\ x \div 2 < pow2[k] /\ y \div 2 < pow2[k]
      BY <2>1, <3>1
    <3> DEFINE v == (x \div 2) ^^ (y \div 2)
    <3>3. v \in Nat /\ v < pow2[k]
      BY <3>2, XorNat
    <3>4. x ^^ y = ((x + y) % 2) + 2 * v /\ (x + y) % 2 \in {0, 1}
      BY XorBits
    <3> HIDE DEF v
    <3> QED
      BY <3>1, <3>3, <3>4
  <2> QED
    BY <2>1
<1>3. S = Nat
  <2>1. S \in SUBSET Nat
    OBVIOUS
  <2> HIDE DEF S
  <2> QED
    BY <1>1, <1>2, <2>1, SetInduction
<1>4. n \in S /\ pow2[n] \in Nat /\ a \in Nat /\ b \in Nat /\ a < pow2[n] /\ b < pow2[n]
  <2>1. n \in S
    <3> HIDE DEF S
    <3> QED
      BY <1>3
  <2>2. pow2[n] \in Nat
    BY Pow2Doubles
  <2> QED
    BY <2>1, <2>2
<1>5. a ^^ b \in Nat /\ a ^^ b < pow2[n]
  BY <1>4, XorNat
<1> QED
  BY <1>4, <1>5

-----------------------------------------------------------------------------
(* The sizes.                                                               *)
LEMMA Sizes ==
  /\ DigitBits \in Nat \ {0} /\ WordBytes \in Nat \ {0} /\ Rounds \in Nat \ {0}
  /\ ByteBits \in Nat \ {0} /\ WordBits \in Nat \ {0} /\ Block \in Nat \ {0}
  /\ Digit \in Nat \ {0} /\ Byte \in Nat \ {0} /\ Word \in Nat \ {0}
  /\ Byte = Digit * Digit /\ Block < Byte /\ 1 < Byte
<1>1. DigitBits \in Nat \ {0} /\ WordBytes \in Nat \ {0} /\ Rounds \in Nat \ {0} /\ Block < Byte
  BY CryptoAssumption
<1>2. ByteBits \in Nat \ {0} /\ Block \in Nat \ {0} /\ ByteBits = DigitBits + DigitBits
  BY <1>1 DEF ByteBits, Block
<1>3. WordBits \in Nat \ {0}
  <2>1. \A x, y \in Nat \ {0} : x * y \in Nat \ {0}
    OBVIOUS
  <2> QED
    BY <1>1, <1>2, <2>1 DEF WordBits
<1>4. Digit \in Nat \ {0} /\ Byte \in Nat \ {0} /\ Word \in Nat \ {0}
  BY <1>1, <1>2, <1>3, Pow2Doubles DEF Digit, Byte, Word
<1>5. Byte = Digit * Digit
  BY <1>1, <1>2, Pow2Adds DEF Byte, Digit
<1> QED
  BY <1>1, <1>2, <1>3, <1>4, <1>5

-----------------------------------------------------------------------------
(* Shifting left by p and right by q puts the remainder above the quotient. *)
LEMMA Shifted ==
  ASSUME NEW p \in Nat \ {0}, NEW q \in Nat \ {0}, NEW v \in Nat, v < p * q
  PROVE  /\ v \div q \in 0..p - 1 /\ v % q \in 0..q - 1
         /\ ((v * p) % (p * q)) + (v \div q) = p * (v % q) + (v \div q)
         /\ p * (v % q) + (v \div q) \in 0..(p * q) - 1
<1> DEFINE h == v \div q
           l == v % q
           w == p * q
           m == p * l
<1>1. h \in Nat /\ l \in 0..q - 1 /\ v = q * h + l
  BY QuotientAndRemainder
<1> HIDE DEF h, l
<1>2. h < p
  <2>1. q * h < p * q
    BY <1>1
  <2>2. \A i \in Nat : i >= p => q * i >= p * q
    OBVIOUS
  <2> QED
    BY <1>1, <2>1, <2>2
<1>3. w \in Nat \ {0} /\ m \in 0..w - p /\ v * p = w * h + m
  <2>1. l <= q - 1 => p * l <= p * (q - 1)
    BY <1>1
  <2>2. p * (q - 1) = w - p /\ m \in Nat /\ w \in Nat \ {0}
    BY <1>1
  <2>3. v * p = w * h + m
    BY <1>1
  <2>4. m <= w - p
    BY <1>1, <2>1, <2>2
  <2> QED
    BY <2>2, <2>3, <2>4
<1> HIDE DEF w, m
<1>4. (v * p) % w = m
  <2>1. m \in 0..w - 1
    BY <1>3
  <2> QED
    BY <1>1, <1>3, <2>1, Division
<1>5. m + h \in 0..w - 1
  BY <1>1, <1>2, <1>3
<1>6. h \in 0..p - 1
  BY <1>1, <1>2
<1>7. ((v * p) % w) + h = m + h
  BY <1>4
<1> QED
  BY <1>1, <1>5, <1>6, <1>7 DEF h, l, m, w

(* Rotating left by s, in those terms.                                      *)
LEMMA RotateLeft ==
  ASSUME NEW v \in Words, NEW shift \in Nat
  PROVE  LET s == shift % WordBits
             p == pow2[s]
             q == pow2[WordBits - s]
         IN  /\ s \in 0..WordBits - 1 /\ p \in Nat \ {0} /\ q \in Nat \ {0} /\ p * q = Word
             /\ v \in Nat /\ v < p * q
             /\ rotl(v, shift) = p * (v % q) + (v \div q)
             /\ rotl(v, shift) \in Words
<1> DEFINE s == shift % WordBits
           p == pow2[s]
           q == pow2[WordBits - s]
<1>1. s \in 0..WordBits - 1 /\ WordBits - s \in Nat /\ s + (WordBits - s) = WordBits
  BY Sizes
<1>2. p \in Nat \ {0} /\ q \in Nat \ {0} /\ p * q = Word
  <2> DEFINE m == WordBits - s
  <2>1. s \in Nat /\ m \in Nat /\ s + m = WordBits
    BY <1>1, Sizes
  <2> HIDE DEF s, m
  <2>2. pow2[s] \in Nat \ {0} /\ pow2[m] \in Nat \ {0}
    BY <2>1, Pow2Doubles
  <2>3. pow2[s + m] = pow2[s] * pow2[m]
    BY <2>1, Pow2Adds
  <2> QED
    BY <2>1, <2>2, <2>3 DEF Word, m
<1>3. v \in Nat /\ v < p * q
  BY <1>2, Sizes DEF Words
<1>4. rotl(v, shift) = ((v * p) % Word) + (v \div q)
  BY DEF rotl
<1> HIDE DEF p, q
<1>5. /\ ((v * p) % (p * q)) + (v \div q) = p * (v % q) + (v \div q)
      /\ p * (v % q) + (v \div q) \in 0..(p * q) - 1
  BY <1>2, <1>3, Shifted
<1>6. rotl(v, shift) = p * (v % q) + (v \div q) /\ rotl(v, shift) \in Words
  BY <1>2, <1>4, <1>5 DEF Words
<1> QED
  BY <1>1, <1>2, <1>3, <1>6 DEF p, q

(* Rotating right undoes rotating left, for every shift.                    *)
LEMMA RotateBack ==
  ASSUME NEW v \in Words, NEW shift \in Nat
  PROVE  rotl(v, shift) \in Words /\ rotr(rotl(v, shift), shift) = v
<1> DEFINE s == shift % WordBits
           p == pow2[s]
           q == pow2[WordBits - s]
           x == rotl(v, shift)
           t == WordBits - s
<1>1. /\ s \in 0..WordBits - 1 /\ p \in Nat \ {0} /\ q \in Nat \ {0} /\ p * q = Word
      /\ v \in Nat /\ v < p * q
      /\ x = p * (v % q) + (v \div q) /\ x \in Words
  BY RotateLeft
<1>2. /\ v \div q \in 0..p - 1 /\ v % q \in 0..q - 1
      /\ v = q * (v \div q) + (v % q)
  <2> HIDE DEF p, q
  <2>1. v \div q \in 0..p - 1 /\ v % q \in 0..q - 1
    BY <1>1, Shifted
  <2>2. v = q * (v \div q) + (v % q)
    BY <1>1, QuotientAndRemainder
  <2> QED
    BY <2>1, <2>2
<1>3. t \in Nat /\ rotr(x, shift) = rotl(x, t)
  BY <1>1, Sizes DEF rotr
<1> DEFINE u == t % WordBits
           pp == pow2[u]
           qq == pow2[WordBits - u]
<1>4. rotl(x, t) = pp * (x % qq) + (x \div qq)
  BY <1>1, <1>3, RotateLeft
<1>5. CASE s = 0
  <2>1. u = 0
    BY <1>5, Sizes
  <2>2. p = 1 /\ q = Word /\ pp = 1 /\ qq = Word
    BY <1>5, <2>1, Sizes, Pow2Doubles DEF Word
  <2>3. v < Word /\ v % Word = v /\ v \div Word = 0
    <3>1. v < Word /\ Word \in Nat \ {0} /\ v \in 0..Word - 1 /\ Word * 0 + v = v
      BY <1>1, Sizes
    <3> QED
      BY <3>1, Division
  <2>4. x = v
    <3> HIDE DEF p, q, x
    <3> QED
      BY <1>1, <2>2, <2>3
  <2> HIDE DEF pp, qq, x
  <2>5. rotl(x, t) = v
    BY <1>1, <1>4, <2>2, <2>3, <2>4
  <2> QED
    BY <1>1, <1>3, <2>5 DEF x
<1>6. CASE s # 0
  <2>1. u = WordBits - s /\ WordBits - u = s
    <3>1. s \in 0..WordBits - 1 /\ s # 0 /\ WordBits \in Nat \ {0}
      BY <1>1, <1>6, Sizes
    <3> HIDE DEF s
    <3>2. t \in 0..WordBits - 1 /\ WordBits - t = s /\ WordBits * 0 + t = t
      BY <3>1
    <3> HIDE DEF t
    <3>3. t % WordBits = t
      BY <3>1, <3>2, Division
    <3> QED
      BY <3>2, <3>3 DEF t
  <2>2. pp = q /\ qq = p
    BY <2>1
  <2> DEFINE h == v \div q
             l == v % q
  <2>3. h \in 0..p - 1 /\ l \in 0..q - 1 /\ v = q * h + l /\ x = p * l + h
    BY <1>1, <1>2
  <2>4. x \div p = l /\ x % p = h
    <3> HIDE DEF h, l, p, q, x
    <3>1. l \in Int /\ p \in Nat \ {0}
      BY <1>1, <2>3
    <3>2. (p * l + h) \div p = l /\ (p * l + h) % p = h
      BY <2>3, <3>1, Division
    <3> QED
      BY <2>3, <3>2
  <2> HIDE DEF h, l, p, q, x, pp, qq
  <2>5. rotl(x, t) = q * h + l
    BY <1>4, <2>2, <2>4
  <2>6. rotl(x, t) = v
    BY <2>3, <2>5
  <2> QED
    BY <1>1, <1>3, <2>6 DEF x
<1> QED
  BY <1>5, <1>6

(* Adding and taking away, modulo the word.                                 *)
LEMMA PlusMinus ==
  ASSUME NEW x \in Words, NEW k \in Int
  PROVE  Plus(x, k) \in Words /\ Minus(x, k) \in Words /\ Minus(Plus(x, k), k) = x
<1> DEFINE a == (x + k) \div Word
           b == (x + k) % Word
<1>1. Word \in Nat \ {0} /\ x \in 0..Word - 1
  BY Sizes DEF Words
<1> HIDE DEF Word
<1>2. a \in Int /\ b \in 0..Word - 1 /\ x + k = Word * a + b
  BY <1>1, QuotientAndRemainder
<1>3. Minus(x, k) \in Words
  BY <1>1 DEF Minus, Words
<1>4. (b - k) % Word = x
  <2> HIDE DEF a, b
  <2>1. b - k = Word * (0 - a) + x /\ 0 - a \in Int
    BY <1>1, <1>2
  <2> DEFINE n == 0 - a
  <2> HIDE DEF n
  <2>2. n \in Int /\ b - k = Word * n + x
    BY <2>1 DEF n
  <2> QED
    BY <1>1, <2>2, Division
<1> QED
  BY <1>2, <1>3, <1>4 DEF Plus, Minus, Words

-----------------------------------------------------------------------------
(* One byte more makes a number Byte times as large.                        *)
BytePower(j) == pow2[ByteBits * j]

LEMMA BytePowers ==
  /\ BytePower(0) = 1 /\ BytePower(WordBytes) = Word
  /\ \A j \in Nat : BytePower(j) \in Nat \ {0} /\ BytePower(j + 1) = BytePower(j) * Byte
<1>1. BytePower(0) = 1 /\ BytePower(WordBytes) = Word
  BY Sizes, Pow2Doubles DEF BytePower, Word, WordBits
<1>2. ASSUME NEW j \in Nat
      PROVE  BytePower(j) \in Nat \ {0} /\ BytePower(j + 1) = BytePower(j) * Byte
  <2> DEFINE m == ByteBits * j
             n == ByteBits
  <2>1. m \in Nat /\ n \in Nat /\ ByteBits * (j + 1) = m + n
    BY Sizes
  <2>2. BytePower(j) = pow2[m] /\ BytePower(j + 1) = pow2[m + n] /\ Byte = pow2[n]
    BY <2>1 DEF BytePower, Byte
  <2> HIDE DEF m, n
  <2> QED
    BY <2>1, <2>2, Pow2Doubles, Pow2Adds
<1> QED
  BY <1>1, <1>2

Highs(f, bytes) ==
  f = [k \in 0..Len(bytes) |-> IF k = 0 THEN 0 ELSE bytes[Len(bytes) + 1 - k] + Byte * f[k - 1]]

(* The value of bytes is that of the loop from the most significant on.     *)
LEMMA WordOfLoop ==
  ASSUME NEW bytes \in Texts
  PROVE  \E h \in [0..Len(bytes) -> Nat] :
           /\ h[0] = 0 /\ WordOf(bytes) = h[Len(bytes)]
           /\ \A k \in 0..Len(bytes) - 1 : h[k + 1] = bytes[Len(bytes) - k] + Byte * h[k]
<1> DEFINE n == Len(bytes)
           step == [k \in Nat |-> [d \in Nat |-> IF k < n THEN bytes[n - k] + Byte * d ELSE 0]]
           c == CHOOSE f : Highs(f, bytes)
<1>1. n \in Nat /\ Byte \in Nat \ {0} /\ \A i \in 1..n : bytes[i] \in Nat
  BY LenProperties, Sizes DEF Texts, Bytes
<1>2. PICK g : LoopRuns(g, Nat, 0, step)
  <2>1. step \in StepsOn(Nat)
    <3>1. ASSUME NEW k \in Nat, NEW d \in Nat, k < n PROVE bytes[n - k] + Byte * d \in Nat
      <4>1. n - k \in 1..n
        BY <1>1, <3>1
      <4> QED
        BY <1>1, <4>1
    <3> HIDE DEF n
    <3> QED
      BY <3>1 DEF StepsOn
  <2> HIDE DEF step
  <2> QED
    BY <2>1, Loop
<1>3. /\ g \in [Nat -> Nat] /\ g[0] = 0
      /\ \A k \in 0..n - 1 : g[k + 1] = bytes[n - k] + Byte * g[k]
  <2>1. g \in [Nat -> Nat] /\ g[0] = 0 /\ \A k \in Nat : g[k + 1] = step[k][g[k]]
    <3> HIDE DEF step
    <3> QED
      BY <1>2 DEF LoopRuns
  <2>2. ASSUME NEW k \in 0..n - 1 PROVE g[k + 1] = bytes[n - k] + Byte * g[k]
    <3> HIDE DEF n
    <3>1. k \in Nat /\ k < n
      BY <1>1
    <3>2. g[k] \in Nat /\ g[k + 1] = step[k][g[k]]
      <4> HIDE DEF step
      <4> QED
        BY <2>1, <3>1
    <3> QED
      BY <3>1, <3>2
  <2> QED
    BY <2>1, <2>2
<1> DEFINE h == [k \in 0..n |-> g[k]]
<1>4. h \in [0..n -> Nat] /\ h[0] = 0
  BY <1>1, <1>3
<1>5. Highs(h, bytes)
  <2>1. ASSUME NEW k \in 0..n PROVE h[k] = IF k = 0 THEN 0 ELSE bytes[n + 1 - k] + Byte * h[k - 1]
    <3>1. CASE k = 0
      BY <1>4, <3>1
    <3>2. CASE k # 0
      <4>1. k - 1 \in 0..n - 1 /\ (k - 1) + 1 = k /\ n - (k - 1) = n + 1 - k /\ k - 1 \in 0..n
        BY <1>1, <3>2
      <4> HIDE DEF n
      <4>2. g[k] = bytes[n + 1 - k] + Byte * g[k - 1]
        BY <1>3, <4>1
      <4> QED
        BY <3>2, <4>1, <4>2
    <3> QED
      BY <3>1, <3>2
  <2> HIDE DEF h
  <2> QED
    BY <1>4, <2>1 DEF Highs
<1>6. Highs(c, bytes) /\ WordOf(bytes) = c[n]
  <2>1. Highs(c, bytes)
    BY <1>5
  <2>2. WordOf(bytes) = c[n]
    BY DEF WordOf, Highs
  <2> QED
    BY <2>1, <2>2
<1> HIDE DEF c
<1>7. c[0] = 0 /\ \A k \in 0..n - 1 : c[k + 1] = bytes[n - k] + Byte * c[k]
  <2>1. c[0] = 0
    BY <1>1, <1>6 DEF Highs
  <2>2. ASSUME NEW k \in 0..n - 1 PROVE c[k + 1] = bytes[n - k] + Byte * c[k]
    <3>1. k + 1 \in 0..n /\ k + 1 # 0 /\ (k + 1) - 1 = k /\ n + 1 - (k + 1) = n - k
      BY <1>1
    <3>2. c[k + 1] = bytes[n + 1 - (k + 1)] + Byte * c[(k + 1) - 1]
      BY <1>6, <3>1 DEF Highs
    <3> QED
      BY <3>1, <3>2
  <2> QED
    BY <2>1, <2>2
<1>8. \A k \in 0..n : h[k] = c[k]
  <2>1. h[0] = c[0]
    BY <1>4, <1>7
  <2>2. ASSUME NEW k \in 0..n - 1, h[k] = c[k] PROVE h[k + 1] = c[k + 1]
    <3>1. k \in 0..n /\ k + 1 \in 0..n
      BY <1>1
    <3>2. h[k + 1] = g[k + 1] /\ h[k] = g[k]
      BY <3>1
    <3> QED
      BY <1>3, <1>7, <2>2, <3>2
  <2> HIDE DEF h, n
  <2> QED
    BY <1>1, <2>1, <2>2, SameLoop
<1>9. WordOf(bytes) = h[n]
  <2> HIDE DEF h
  <2> QED
    BY <1>1, <1>6, <1>8
<1>10. \A k \in 0..n - 1 : h[k + 1] = bytes[n - k] + Byte * h[k]
  <2> HIDE DEF h
  <2>1. \A k \in 0..n - 1 : k \in 0..n /\ k + 1 \in 0..n
    BY <1>1
  <2> QED
    BY <1>7, <1>8, <2>1
<1> HIDE DEF h
<1> QED
  BY <1>4, <1>9, <1>10

(* The bytes of the value are the bytes, and the value fits that many.      *)
LEMMA WordOfBytes ==
  ASSUME NEW bytes \in Texts
  PROVE  /\ WordOf(bytes) \in Nat /\ WordOf(bytes) < BytePower(Len(bytes))
         /\ \A i \in 1..Len(bytes) : (WordOf(bytes) \div BytePower(i - 1)) % Byte = bytes[i]
<1> DEFINE n == Len(bytes)
           x == WordOf(bytes)
<1>1. n \in Nat /\ Byte \in Nat \ {0} /\ \A i \in 1..n : bytes[i] \in 0..Byte - 1
  BY LenProperties, Sizes DEF Texts, Bytes
<1>2. PICK h \in [0..n -> Nat] :
        h[0] = 0 /\ x = h[n] /\ \A k \in 0..n - 1 : h[k + 1] = bytes[n - k] + Byte * h[k]
  BY WordOfLoop
<1> HIDE DEF n, x
<1>3. \A k \in 0..n : h[k] < BytePower(k)
  <2> DEFINE S == {k \in Nat : h[k] < BytePower(k)}
  <2>1. 0 \in S
    <3>1. BytePower(0) = 1
      BY BytePowers
    <3> HIDE DEF BytePower
    <3>2. h[0] < BytePower(0)
      BY <1>2, <3>1
    <3> QED
      BY <3>2
  <2>2. ASSUME NEW k \in 0..n - 1, k \in S PROVE k + 1 \in S
    <3> DEFINE p == BytePower(k)
               b == bytes[n - k]
               d == h[k]
    <3>1. n - k \in 1..n /\ k \in Nat /\ k \in 0..n
      BY <1>1
    <3>2. p \in Nat \ {0} /\ b \in 0..Byte - 1 /\ d \in Nat /\ d < p
      BY <1>1, <1>2, <2>2, <3>1, BytePowers
    <3>3. h[k + 1] = b + Byte * d /\ BytePower(k + 1) = p * Byte
      BY <1>2, <3>1, BytePowers
    <3> HIDE DEF p, b, d
    <3>4. b + Byte * d < p * Byte
      <4>1. d <= p - 1 => Byte * d <= Byte * (p - 1)
        BY <1>1, <3>2
      <4>2. Byte * (p - 1) = p * Byte - Byte
        BY <1>1, <3>2
      <4> QED
        BY <1>1, <3>2, <4>1, <4>2
    <3> QED
      BY <3>1, <3>3, <3>4
  <2> HIDE DEF S
  <2>3. 0..n \subseteq S
    BY <1>1, <2>1, <2>2, CountingUp
  <2> QED
    BY <2>3 DEF S
<1>4. \A j \in 0..n : x \div BytePower(j) = h[n - j]
  <2> DEFINE S == {j \in Nat : x \div BytePower(j) = h[n - j]}
  <2>1. 0 \in S
    <3>1. x \in Nat /\ n - 0 = n
      <4>1. n \in 0..n
        BY <1>1
      <4> QED
        BY <1>1, <1>2, <4>1
    <3>2. x \div 1 = x
      BY <3>1
    <3>3. BytePower(0) = 1
      BY BytePowers
    <3> HIDE DEF BytePower
    <3>4. x \div BytePower(0) = x /\ h[n - 0] = x
      BY <1>2, <3>1, <3>2, <3>3
    <3> QED
      BY <3>4
  <2>2. ASSUME NEW j \in 0..n - 1, j \in S PROVE j + 1 \in S
    <3> DEFINE k == n - (j + 1)
               p == BytePower(j)
               b == bytes[n - k]
               d == h[k]
    <3>1. k \in 0..n - 1 /\ k \in 0..n /\ k + 1 = n - j /\ n - k \in 1..n /\ j \in Nat
      BY <1>1
    <3>2. p \in Nat \ {0} /\ b \in 0..Byte - 1 /\ d \in Nat /\ x \in Nat
      <4>1. n \in 0..n
        BY <1>1
      <4> HIDE DEF k
      <4> QED
        BY <1>1, <1>2, <3>1, <4>1, BytePowers
    <3>3. x \div p = b + Byte * d /\ BytePower(j + 1) = p * Byte
      <4>1. h[k + 1] = b + Byte * d
        BY <1>2, <3>1
      <4> QED
        BY <2>2, <3>1, <4>1, BytePowers
    <3> HIDE DEF p, b, d, k
    <3>4. (x \div p) \div Byte = d
      <4>1. Byte \in Nat \ {0} /\ d \in Int /\ b \in 0..Byte - 1
        BY <1>1, <3>2
      <4>2. (Byte * d + b) \div Byte = d
        BY <4>1, Division
      <4>3. x \div p = Byte * d + b
        BY <3>3, <4>1
      <4> QED
        BY <4>2, <4>3
    <3>5. x \div (p * Byte) = d
      BY <1>1, <3>2, <3>4, DividedTwice
    <3> QED
      BY <3>1, <3>3, <3>5 DEF d, k
  <2> HIDE DEF S
  <2>3. 0..n \subseteq S
    BY <1>1, <2>1, <2>2, CountingUp
  <2> QED
    BY <2>3 DEF S
<1>5. ASSUME NEW i \in 1..n PROVE (x \div BytePower(i - 1)) % Byte = bytes[i]
  <2> DEFINE k == n - i
             b == bytes[i]
             d == h[k]
  <2>1. i - 1 \in 0..n /\ n - (i - 1) = k + 1 /\ k \in 0..n - 1 /\ k \in 0..n /\ n - k = i
    BY <1>1
  <2>2. x \div BytePower(i - 1) = b + Byte * d /\ b \in 0..Byte - 1 /\ d \in Nat
    BY <1>1, <1>2, <1>4, <2>1
  <2> HIDE DEF b, d
  <2>3. (Byte * d + b) % Byte = b
    <3>1. Byte \in Nat \ {0} /\ d \in Int /\ b \in 0..Byte - 1
      BY <1>1, <2>2
    <3> QED
      BY <3>1, Division
  <2>4. b + Byte * d = Byte * d + b
    BY <1>1, <2>2
  <2> QED
    BY <2>2, <2>3, <2>4 DEF b
<1>6. x \in Nat /\ x < BytePower(n)
  <2>1. n \in 0..n
    BY <1>1
  <2> QED
    BY <1>2, <1>3, <2>1
<1> QED
  BY <1>5, <1>6 DEF n, x

(* A word fits its bytes, and they make it up again.                        *)
LEMMA BytesOfWord ==
  ASSUME NEW w \in Words
  PROVE  /\ BytesOf(w) \in Texts /\ Len(BytesOf(w)) = WordBytes
         /\ \A i \in 1..WordBytes : BytesOf(w)[i] \in Bytes
         /\ WordOf(BytesOf(w)) = w
<1> DEFINE b == BytesOf(w)
           n == WordBytes
<1>1. n \in Nat \ {0} /\ Byte \in Nat \ {0} /\ Word \in Nat \ {0} /\ w \in Nat /\ w < Word
  BY Sizes DEF Words
<1>2. /\ b = [k \in 1..n |-> (w \div BytePower(k - 1)) % Byte]
      /\ \A k \in 1..n : b[k] = (w \div BytePower(k - 1)) % Byte /\ b[k] \in Bytes
  <2>1. b = [k \in 1..n |-> (w \div BytePower(k - 1)) % Byte]
    BY DEF BytesOf, BytePower
  <2>2. ASSUME NEW k \in 1..n PROVE (w \div BytePower(k - 1)) % Byte \in Bytes
    <3>1. k - 1 \in Nat
      BY <1>1
    <3>2. w \div BytePower(k - 1) \in Int
      BY <1>1, <3>1, BytePowers
    <3> QED
      BY <1>1, <3>2, QuotientAndRemainder DEF Bytes
  <2> HIDE DEF b
  <2> QED
    BY <2>1, <2>2
<1> HIDE DEF b
<1>3. b \in Seq(Bytes) /\ Len(b) = n
  BY <1>1, <1>2
<1>4. PICK h \in [0..n -> Nat] :
        h[0] = 0 /\ WordOf(b) = h[n] /\ \A k \in 0..n - 1 : h[k + 1] = b[n - k] + Byte * h[k]
  BY <1>3, WordOfLoop DEF Texts
<1> HIDE DEF n
<1>5. \A k \in 0..n : h[k] = w \div BytePower(n - k)
  <2> DEFINE S == {k \in Nat : h[k] = w \div BytePower(n - k)}
  <2>1. 0 \in S
    <3>1. BytePower(n) = Word /\ n - 0 = n
      BY <1>1, BytePowers DEF n
    <3>2. w \div Word = 0
      <4>1. w \in 0..Word - 1 /\ 0 \in Int /\ Word \in Nat \ {0}
        BY <1>1
      <4>2. (Word * 0 + w) \div Word = 0
        BY <4>1, Division
      <4>3. Word * 0 + w = w
        BY <4>1
      <4> QED
        BY <4>2, <4>3
    <3>3. h[0] = w \div BytePower(n - 0)
      BY <1>4, <3>1, <3>2
    <3> QED
      BY <3>3
  <2>2. ASSUME NEW k \in 0..n - 1, k \in S PROVE k + 1 \in S
    <3> DEFINE j == n - (k + 1)
               p == BytePower(j)
               y == w \div p
    <3>1. j \in Nat /\ j + 1 = n - k /\ n - k \in 1..n /\ (n - k) - 1 = j
      BY <1>1
    <3>2. p \in Nat \ {0} /\ BytePower(n - k) = p * Byte
      BY <3>1, BytePowers
    <3>3. y \in Int /\ y \div Byte = w \div (p * Byte)
      <4> HIDE DEF p
      <4> QED
        BY <1>1, <3>2, DividedTwice
    <3>4. b[n - k] = y % Byte
      BY <1>2, <3>1
    <3>5. h[k] = y \div Byte
      BY <2>2, <3>2, <3>3
    <3>6. h[k + 1] = (y % Byte) + Byte * (y \div Byte)
      BY <1>4, <3>4, <3>5
    <3> HIDE DEF y
    <3>7. (y % Byte) + Byte * (y \div Byte) = y
      <4>1. /\ y % Byte \in 0..Byte - 1 /\ y \div Byte \in Int
            /\ y = Byte * (y \div Byte) + (y % Byte)
        BY <1>1, <3>3, QuotientAndRemainder
      <4> DEFINE q == y \div Byte
                 r == y % Byte
      <4>2. r \in Int /\ q \in Int /\ y = Byte * q + r
        BY <1>1, <4>1
      <4> HIDE DEF q, r
      <4>3. r + Byte * q = y
        BY <1>1, <4>2
      <4> QED
        BY <4>3 DEF q, r
    <3>8. h[k + 1] = w \div BytePower(n - (k + 1))
      BY <3>6, <3>7 DEF y, p, j
    <3> QED
      BY <3>8
  <2> HIDE DEF S
  <2>3. 0..n \subseteq S
    BY <1>1, <2>1, <2>2, CountingUp
  <2> QED
    BY <2>3 DEF S
<1>6. h[n] = w
  <2>1. n \in 0..n /\ n - n = 0
    BY <1>1
  <2>2. BytePower(0) = 1 /\ w \div 1 = w
    BY <1>1, BytePowers
  <2> QED
    BY <1>5, <2>1, <2>2
<1> QED
  BY <1>2, <1>3, <1>4, <1>6 DEF b, n, Texts

-----------------------------------------------------------------------------
(* The key is read in whole words, without a byte beyond its end.           *)
LEMMA KeyWordsType ==
  KeyWords \in Seq(Nat) /\ Len(KeyWords) \in Nat \ {0}
<1> DEFINE B == WordBytes
           L == Len(Key)
           c == (L + B - 1) \div B
           last(j) == IF j = c THEN L ELSE j * B
           part(j) == SubSeq(Key, (j - 1) * B + 1, last(j))
           w == [j \in 1..c |-> WordOf(part(j))]
<1>1. L \in Nat /\ B \in Nat \ {0} /\ Key \in Seq(Bytes) /\ \A i \in 1..L : Key[i] \in Bytes
  BY CryptoAssumption, LenProperties, Sizes DEF Texts
<1>2. c \in Nat /\ \A j \in Nat : j < c => j * B <= L
  <2> DEFINE x == L + B - 1
             r == x % B
  <2>1. x \in Nat
    BY <1>1
  <2> HIDE DEF x
  <2>2. c \in Nat /\ r \in 0..B - 1 /\ x = B * c + r
    <3>1. x \div B \in Int /\ x % B \in 0..B - 1 /\ x = B * (x \div B) + (x % B)
      BY <1>1, <2>1, QuotientAndRemainder
    <3>2. c = x \div B
      BY DEF x
    <3>3. x \div B \in Nat
      BY <1>1, <2>1
    <3> QED
      BY <3>1, <3>2, <3>3
  <2> HIDE DEF c, r
  <2>3. ASSUME NEW j \in Nat, j < c PROVE j * B <= L
    <3>1. j <= c - 1 => B * j <= B * (c - 1)
      BY <1>1, <2>2
    <3>2. B * (c - 1) = B * c - B
      BY <1>1, <2>2
    <3>3. x = L + B - 1
      BY DEF x
    <3> HIDE DEF B, L
    <3> QED
      BY <1>1, <2>2, <2>3, <3>1, <3>2, <3>3
  <2> QED
    BY <2>2, <2>3
<1> HIDE DEF c, B, L
<1>3. ASSUME NEW j \in 1..c PROVE WordOf(part(j)) \in Nat
  <2>1. j \in Nat /\ last(j) \in Int /\ last(j) <= L
    BY <1>1, <1>2
  <2> DEFINE m == (j - 1) * B + 1
             n == last(j)
  <2>2. m \in Nat \ {0}
    <3>1. (j - 1) * B \in Nat
      BY <1>1, <2>1
    <3> QED
      BY <3>1
  <2>3. n \in Int /\ n <= L
    BY <2>1
  <2>4. part(j) = SubSeq(Key, m, n)
    OBVIOUS
  <2> HIDE DEF m, n, part
  <2>5. \A i \in m..n : Key[i] \in Bytes
    <3>1. \A i \in m..n : i \in 1..L
      BY <1>1, <2>2, <2>3
    <3> QED
      BY <1>1, <3>1
  <2>6. part(j) \in Seq(Bytes)
    BY <2>2, <2>3, <2>4, <2>5, SubSeqProperties
  <2> QED
    BY <2>6, WordOfBytes DEF Texts
<1>4. KeyWords = IF c = 0 THEN << 0 >> ELSE w
  BY DEF KeyWords, c, B, L
<1> HIDE DEF part
<1>5. w \in Seq(Nat) /\ Len(w) = c
  BY <1>2, <1>3
<1>6. << 0 >> \in Seq(Nat) /\ Len(<< 0 >>) = 1
  OBVIOUS
<1> HIDE DEF w
<1> QED
  BY <1>2, <1>4, <1>5, <1>6

MixStates == [a : Words, b : Words, l : [1..Len(KeyWords) -> Nat], s : [1..TableSize -> Words]]

(* A remainder modulo the word is a word, and a word is a number.           *)
LEMMA WordRemainder ==
  Words \subseteq Nat /\ \A n \in Int : n % Word \in Words
<1>1. Word \in Nat \ {0}
  BY Sizes
<1> HIDE DEF Word
<1> QED
  BY <1>1 DEF Words

(* A step of the key schedule keeps words words.                            *)
LEMMA MixType ==
  ASSUME NEW m \in MixStates, NEW h \in Nat \ {0}
  PROVE  Mix(m, h) \in MixStates
<1> DEFINE c == Len(KeyWords)
           i == ((h - 1) % TableSize) + 1
           j == ((h - 1) % c) + 1
           x == (m.s[i] + m.a + m.b) % Word
           a == rotl(x, 3)
           y == (m.l[j] + a + m.b) % Word
           b == rotl(y, Plus(a, m.b))
<1>1. c \in Nat \ {0} /\ TableSize \in Nat \ {0} /\ Word \in Nat \ {0}
  BY KeyWordsType, Sizes DEF TableSize
<1>2. i \in 1..TableSize /\ j \in 1..c
  <2> HIDE DEF c
  <2> QED
    BY <1>1
<1>3. m.a \in Words /\ m.b \in Words /\ m.l \in [1..c -> Nat] /\ m.s \in [1..TableSize -> Words]
  BY DEF MixStates
<1> HIDE DEF c, i, j
<1>4. x \in Words
  <2>1. m.s[i] \in Int /\ m.a \in Int /\ m.b \in Int
    <3>1. m.s[i] \in Words
      BY <1>2, <1>3
    <3>2. \A n \in Words : n \in Int
      BY WordRemainder
    <3> HIDE DEF Words
    <3> QED
      BY <1>3, <3>1, <3>2
  <2>2. m.s[i] + m.a + m.b \in Int
    BY <2>1
  <2> QED
    BY <2>2, WordRemainder
<1> HIDE DEF x
<1>5. a \in Words
  BY <1>4, RotateLeft
<1> HIDE DEF a
<1>6. y \in Words
  <2>1. m.l[j] \in Int /\ a \in Int /\ m.b \in Int
    <3>1. m.l[j] \in Nat
      BY <1>2, <1>3
    <3>2. \A n \in Words : n \in Int
      BY WordRemainder
    <3> QED
      BY <1>3, <1>5, <3>1, <3>2
  <2>2. m.l[j] + a + m.b \in Int
    BY <2>1
  <2> QED
    BY <2>2, WordRemainder
<1> HIDE DEF y
<1>7. b \in Words
  <2>1. m.b \in Int /\ Words \subseteq Nat
    BY <1>1, <1>3 DEF Words
  <2>2. Plus(a, m.b) \in Nat
    BY <1>5, <2>1, PlusMinus
  <2> QED
    BY <1>6, <2>2, RotateLeft
<1> HIDE DEF b
<1>8. b \in Nat
  BY <1>1, <1>7 DEF Words
<1>9. [m.l EXCEPT ![j] = b] \in [1..c -> Nat] /\ [m.s EXCEPT ![i] = a] \in [1..TableSize -> Words]
  BY <1>2, <1>3, <1>5, <1>8
<1>10. Mix(m, h) = [a |-> a, b |-> b, l |-> [m.l EXCEPT ![j] = b], s |-> [m.s EXCEPT ![i] = a]]
  BY DEF Mix, a, b, c, i, j, x, y
<1> QED
  BY <1>5, <1>7, <1>9, <1>10 DEF MixStates, c

MixBegin == [a |-> 0, b |-> 0, l |-> KeyWords, s |-> [j \in 1..TableSize |-> (MAGIC_P + (j - 1) * MAGIC_Q) % Word]]
MixCount == 3 * (IF TableSize > Len(KeyWords) THEN TableSize ELSE Len(KeyWords))
Mixes(f) == f = [h \in 0..MixCount |-> IF h = 0 THEN MixBegin ELSE Mix(f[h - 1], h)]

(* The schedule begins with words.                                          *)
LEMMA MixBeginType ==
  MixBegin \in MixStates /\ MixCount \in Nat
<1>1. Len(KeyWords) \in Nat \ {0} /\ TableSize \in Nat \ {0} /\ KeyWords \in [1..Len(KeyWords) -> Nat]
  BY KeyWordsType, Sizes, LenProperties DEF TableSize
<1>2. MAGIC_P \in Int /\ MAGIC_Q \in Int
  <2>1. MAGIC_P \in Words /\ MAGIC_Q \in Words
    BY CryptoAssumption
  <2>2. \A n \in Words : n \in Int
    BY WordRemainder
  <2> HIDE DEF Words
  <2> QED
    BY <2>1, <2>2
<1>3. ASSUME NEW j \in 1..TableSize PROVE (MAGIC_P + (j - 1) * MAGIC_Q) % Word \in Words
  <2>1. j \in Int
    BY <1>1
  <2>2. MAGIC_P + (j - 1) * MAGIC_Q \in Int
    BY <1>2, <2>1
  <2> QED
    BY <2>2, WordRemainder
<1>4. 0 \in Words
  BY Sizes DEF Words
<1>5. MixCount \in Nat
  BY <1>1 DEF MixCount
<1> HIDE DEF Words
<1> QED
  BY <1>1, <1>3, <1>4, <1>5 DEF MixBegin, MixStates

(* The schedule is a table of words.                                        *)
LEMMA TableType ==
  sTable \in [1..TableSize -> Words]
<1> DEFINE n == MixCount
           step == [k \in Nat |-> [m \in MixStates |-> Mix(m, k + 1)]]
           c == CHOOSE f : Mixes(f)
<1>1. step \in StepsOn(MixStates)
  <2>1. \A k \in Nat : k + 1 \in Nat \ {0}
    OBVIOUS
  <2>2. \A k \in Nat, m \in MixStates : Mix(m, k + 1) \in MixStates
    BY <2>1, MixType
  <2> QED
    BY <2>2 DEF StepsOn
<1>2. PICK g : LoopRuns(g, MixStates, MixBegin, step)
  <2> HIDE DEF step
  <2> QED
    BY <1>1, MixBeginType, Loop
<1>3. g \in [Nat -> MixStates] /\ g[0] = MixBegin /\ \A k \in Nat : g[k + 1] = Mix(g[k], k + 1)
  <2>1. g \in [Nat -> MixStates] /\ g[0] = MixBegin /\ \A k \in Nat : g[k + 1] = step[k][g[k]]
    <3> HIDE DEF step
    <3> QED
      BY <1>2 DEF LoopRuns
  <2>2. ASSUME NEW k \in Nat PROVE step[k][g[k]] = Mix(g[k], k + 1)
    BY <2>1
  <2> HIDE DEF step
  <2> QED
    BY <2>1, <2>2
<1> DEFINE h == [k \in 0..n |-> g[k]]
<1>4. n \in Nat
  BY MixBeginType
<1> HIDE DEF n
<1>5. Mixes(h)
  <2>1. ASSUME NEW k \in 0..n PROVE h[k] = IF k = 0 THEN MixBegin ELSE Mix(h[k - 1], k)
    <3>1. CASE k = 0
      BY <1>3, <3>1
    <3>2. CASE k # 0
      <4>1. k - 1 \in Nat /\ (k - 1) + 1 = k /\ k - 1 \in 0..n
        BY <1>4, <3>2
      <4>2. g[k] = Mix(g[k - 1], k)
        BY <1>3, <4>1
      <4> QED
        BY <3>2, <4>1, <4>2
    <3> QED
      BY <3>1, <3>2
  <2> QED
    BY <2>1 DEF Mixes, n
<1>6. Mixes(c)
  <2> HIDE DEF h
  <2> QED
    BY <1>5
<1>7. c[n] \in MixStates
  <2>1. c[0] = MixBegin /\ \A k \in 0..n - 1 : c[k + 1] = Mix(c[k], k + 1)
    <3> HIDE DEF c
    <3>1. \A k \in 0..n - 1 : k + 1 \in 0..n /\ k + 1 # 0 /\ (k + 1) - 1 = k
      BY <1>4
    <3>2. 0 \in 0..n /\ c = [k \in 0..n |-> IF k = 0 THEN MixBegin ELSE Mix(c[k - 1], k)]
      BY <1>4, <1>6 DEF Mixes, n
    <3>3. c[0] = MixBegin
      BY <3>2
    <3>4. ASSUME NEW k \in 0..n - 1 PROVE c[k + 1] = Mix(c[k], k + 1)
      <4>1. c[k + 1] = Mix(c[(k + 1) - 1], k + 1)
        BY <3>1, <3>2
      <4> QED
        BY <3>1, <4>1
    <3> QED
      BY <3>3, <3>4
  <2> HIDE DEF c
  <2>2. c[0] = g[0] /\ \A k \in 0..n - 1 : c[k] = g[k] => c[k + 1] = g[k + 1]
    <3>1. \A k \in 0..n - 1 : k \in Nat
      BY <1>4
    <3> QED
      BY <1>3, <2>1, <3>1
  <2>3. \A k \in 0..n : c[k] = g[k]
    BY <1>4, <2>2, SameLoop
  <2>4. n \in 0..n
    BY <1>4
  <2> QED
    BY <1>3, <1>4, <2>3, <2>4
<1>8. sTable = c[n].s
  BY DEF sTable, KeyExpand, Mixes, MixBegin, MixCount, n
<1> HIDE DEF c
<1> QED
  BY <1>7, <1>8 DEF MixStates

-----------------------------------------------------------------------------
WordPairs == Words \X Words

(* What a round does to a block, Unround() takes back.                      *)
LEMMA RoundUndone ==
  ASSUME NEW ab \in WordPairs, NEW i \in 1..Rounds
  PROVE  Round(ab, i) \in WordPairs /\ Unround(Round(ab, i), i) = ab
<1> DEFINE x == ab[1]
           y == ab[2]
           p == sTable[2 * i + 1]
           q == sTable[2 * i + 2]
           t == x ^^ y
           a == Plus(rotl(t, y), p)
           u == a ^^ y
           b == Plus(rotl(u, a), q)
<1>1. x \in Words /\ y \in Words /\ ab = << x, y >>
  BY DEF WordPairs
<1>2. p \in Words /\ q \in Words
  <2>1. 2 * i + 1 \in 1..TableSize /\ 2 * i + 2 \in 1..TableSize
    BY Sizes DEF TableSize
  <2> QED
    BY <2>1, TableType
<1>3. \A v, w \in Words : v ^^ w \in Words
  <2>1. WordBits \in Nat /\ Words = 0..pow2[WordBits] - 1
    BY Sizes DEF Words, Word
  <2> QED
    BY <2>1, XorFits
<1>4. \A v \in Words : v \in Nat /\ v \in Int
  BY WordRemainder
<1>5. Round(ab, i) = << a, b >>
  BY DEF Round
<1> HIDE DEF x, y, p, q, Words
<1>6. t \in Words
  BY <1>1, <1>3
<1>7. rotl(t, y) \in Words /\ rotr(rotl(t, y), y) = t
  BY <1>1, <1>4, <1>6, RotateBack
<1>8. a \in Words /\ Minus(a, p) = rotl(t, y)
  BY <1>2, <1>4, <1>7, PlusMinus
<1> HIDE DEF a
<1>9. u \in Words
  BY <1>1, <1>3, <1>8
<1>10. rotl(u, a) \in Words /\ rotr(rotl(u, a), a) = u
  BY <1>4, <1>8, <1>9, RotateBack
<1>11. b \in Words /\ Minus(b, q) = rotl(u, a)
  BY <1>2, <1>4, <1>10, PlusMinus
<1>12. u ^^ a = y
  <2>1. a \in Nat /\ y \in Nat
    BY <1>1, <1>4, <1>8
  <2>2. a ^^ y = y ^^ a
    BY <2>1, XorCommutes
  <2>3. (y ^^ a) ^^ a = y
    BY <2>1, XorUndone
  <2> QED
    BY <2>2, <2>3
<1>13. t ^^ y = x
  BY <1>1, <1>4, XorUndone
<1> HIDE DEF b, t, u
<1>14. Unround(<< a, b >>, i) = << x, y >>
  <2>1. rotr(Minus(b, q), a) ^^ a = y
    BY <1>10, <1>11, <1>12
  <2>2. rotr(Minus(a, p), y) ^^ y = x
    BY <1>7, <1>8, <1>13
  <2>3. Unround(<< a, b >>, i) =
          << rotr(Minus(a, p), rotr(Minus(b, q), a) ^^ a) ^^ (rotr(Minus(b, q), a) ^^ a),
             rotr(Minus(b, q), a) ^^ a >>
    BY DEF Unround, p, q
  <2> QED
    BY <2>1, <2>2, <2>3
<1>15. << a, b >> \in WordPairs
  BY <1>8, <1>11 DEF WordPairs
<1> QED
  BY <1>1, <1>5, <1>14, <1>15

BlockBytes == [1..Block -> Bytes]

(* Two words make a block, and a block makes two words.                     *)
LEMMA WordsAndBlocks ==
  /\ \A ab \in WordPairs : BlockOf(ab) \in BlockBytes /\ WordsOf(BlockOf(ab)) = ab
  /\ \A block \in BlockBytes : WordsOf(block) \in WordPairs /\ BlockOf(WordsOf(block)) = block
<1> DEFINE n == WordBytes
<1>1. n \in Nat \ {0} /\ Block = 2 * n
  BY Sizes DEF Block
<1>2. ASSUME NEW ab \in WordPairs
      PROVE  BlockOf(ab) \in BlockBytes /\ WordsOf(BlockOf(ab)) = ab
  <2> DEFINE u == BytesOf(ab[1])
             v == BytesOf(ab[2])
             block == u \o v
  <2>1. ab[1] \in Words /\ ab[2] \in Words /\ ab = << ab[1], ab[2] >>
    BY DEF WordPairs
  <2>2. /\ u \in Texts /\ Len(u) = n /\ v \in Texts /\ Len(v) = n
        /\ WordOf(u) = ab[1] /\ WordOf(v) = ab[2]
    BY <2>1, BytesOfWord
  <2> HIDE DEF u, v
  <2>3. /\ block \in Seq(Bytes) /\ Len(block) = Block
        /\ \A i \in 1..n : block[i] = u[i] /\ block[n + i] = v[i]
    <3>1. block \in Seq(Bytes) /\ Len(block) = Len(u) + Len(v)
      BY <2>2, ConcatProperties DEF Texts
    <3>2. \A i \in 1..n : block[i] = u[i]
      BY <1>1, <2>2, ConcatProperties DEF Texts
    <3>3. ASSUME NEW i \in 1..n PROVE block[n + i] = v[i]
      <4>1. n + i \in 1..Len(u) + Len(v) /\ ~(n + i <= Len(u)) /\ (n + i) - Len(u) = i
        BY <1>1, <2>2
      <4> QED
        BY <2>2, <4>1, ConcatProperties DEF Texts
    <3> QED
      BY <1>1, <2>2, <3>1, <3>2, <3>3
  <2> HIDE DEF block
  <2>4. Slice(block, n, 1) = u /\ Slice(block, n, 2) = v
    <3>1. \A i \in 1..n : (1 - 1) * n + i = i /\ (2 - 1) * n + i = n + i
      BY <1>1
    <3>2. u = [i \in 1..n |-> u[i]] /\ v = [i \in 1..n |-> v[i]]
      BY <2>2 DEF Texts
    <3> HIDE DEF n
    <3>3. Slice(block, n, 1) = [i \in 1..n |-> u[i]] /\ Slice(block, n, 2) = [i \in 1..n |-> v[i]]
      BY <2>3, <3>1 DEF Slice
    <3> QED
      BY <3>2, <3>3
  <2>5. BlockOf(ab) = block
    BY DEF BlockOf, block, u, v
  <2>6. WordsOf(block) = ab
    BY <2>1, <2>2, <2>4 DEF WordsOf
  <2>7. block \in BlockBytes
    BY <2>3 DEF BlockBytes
  <2> QED
    BY <2>5, <2>6, <2>7
<1>3. ASSUME NEW block \in BlockBytes
      PROVE  WordsOf(block) \in WordPairs /\ BlockOf(WordsOf(block)) = block
  <2> DEFINE u == Slice(block, n, 1)
             v == Slice(block, n, 2)
  <2>1. /\ u \in Texts /\ Len(u) = n /\ v \in Texts /\ Len(v) = n
        /\ \A i \in 1..n : u[i] = block[i] /\ v[i] = block[n + i]
    <3>1. \A i \in 1..n : (1 - 1) * n + i = i /\ (2 - 1) * n + i = n + i /\ i \in 1..Block /\ n + i \in 1..Block
      BY <1>1
    <3> HIDE DEF n
    <3>2. \A i \in 1..n : block[i] \in Bytes /\ block[n + i] \in Bytes
      BY <3>1 DEF BlockBytes
    <3>3. u = [i \in 1..n |-> block[i]] /\ v = [i \in 1..n |-> block[n + i]]
      BY <3>1 DEF Slice
    <3> HIDE DEF u, v
    <3> QED
      BY <1>1, <3>2, <3>3 DEF Texts
  <2> HIDE DEF u, v
  <2>2. WordOf(u) \in Words /\ WordOf(v) \in Words
    <3>1. BytePower(n) = Word /\ Word \in Nat
      BY BytePowers, Sizes
    <3> HIDE DEF n
    <3>2. /\ WordOf(u) \in Nat /\ WordOf(u) < BytePower(Len(u))
          /\ WordOf(v) \in Nat /\ WordOf(v) < BytePower(Len(v))
      BY <2>1, WordOfBytes
    <3>3. BytePower(Len(u)) = Word /\ BytePower(Len(v)) = Word
      BY <2>1, <3>1
    <3> HIDE DEF BytePower
    <3> QED
      BY <3>1, <3>2, <3>3 DEF Words
  <2>3. BytesOf(WordOf(u)) = u /\ BytesOf(WordOf(v)) = v
    <3>1. ASSUME NEW w \in Texts, Len(w) = n PROVE BytesOf(WordOf(w)) = w
      <4>1. \A k \in 1..n : (WordOf(w) \div BytePower(k - 1)) % Byte = w[k]
        BY <3>1, WordOfBytes
      <4>2. BytesOf(WordOf(w)) = [k \in 1..n |-> (WordOf(w) \div BytePower(k - 1)) % Byte]
        BY DEF BytesOf, BytePower
      <4>3. w = [k \in 1..n |-> w[k]]
        BY <3>1 DEF Texts
      <4> QED
        BY <4>1, <4>2, <4>3
    <3> QED
      BY <2>1, <3>1
  <2>4. WordsOf(block) = << WordOf(u), WordOf(v) >>
    BY DEF WordsOf, u, v
  <2>5. BlockOf(WordsOf(block)) = u \o v
    BY <2>3, <2>4 DEF BlockOf
  <2>6. u \o v = block
    <3>1. u \o v \in Seq(Bytes) /\ Len(u \o v) = Block
      <4>1. u \o v \in Seq(Bytes) /\ Len(u \o v) = Len(u) + Len(v)
        BY <2>1, ConcatProperties DEF Texts
      <4> QED
        BY <1>1, <2>1, <4>1
    <3>2. block \in Seq(Bytes) /\ Len(block) = Block
      BY <1>1 DEF BlockBytes
    <3>3. ASSUME NEW i \in 1..Block PROVE (u \o v)[i] = block[i]
      <4>1. CASE i <= n
        <5>1. i \in 1..n
          BY <1>1, <4>1
        <5> QED
          BY <1>1, <2>1, <4>1, <5>1, ConcatProperties DEF Texts
      <4>2. CASE ~(i <= n)
        <5>1. i - n \in 1..n /\ n + (i - n) = i /\ i \in 1..Len(u) + Len(v)
          BY <1>1, <2>1, <4>2
        <5>2. (u \o v)[i] = v[i - Len(u)]
          BY <2>1, <4>2, <5>1, ConcatProperties DEF Texts
        <5> QED
          BY <2>1, <5>1, <5>2
      <4> QED
        BY <4>1, <4>2
    <3> QED
      BY <3>1, <3>2, <3>3, SeqEqual
  <2> QED
    BY <2>2, <2>4, <2>5, <2>6 DEF WordPairs
<1> QED
  BY <1>2, <1>3

(* The functions of the two loops over the rounds.                          *)
Started(ab) == << Plus(ab[1], sTable[1]), Plus(ab[2], sTable[2]) >>
RoundsOf(f, ab) ==
  f = [i \in 0..Rounds |->
         IF i = 0 THEN << Plus(ab[1], sTable[1]), Plus(ab[2], sTable[2]) >> ELSE Round(f[i - 1], i)]
UnroundsOf(f, block) ==
  f = [k \in 0..Rounds |-> IF k = 0 THEN WordsOf(block) ELSE Unround(f[k - 1], Rounds + 1 - k)]

EncryptedBy(f, block) ==
  /\ f \in [0..Rounds -> WordPairs]
  /\ f[0] = Started(WordsOf(block)) /\ EncryptBlock(block) = BlockOf(f[Rounds])
  /\ \A i \in 1..Rounds : f[i] = Round(f[i - 1], i)

(* The rounds of a block, one after another.                                *)
LEMMA EncryptRounds ==
  ASSUME NEW block \in BlockBytes
  PROVE  \E f : EncryptedBy(f, block)
<1> DEFINE ab == WordsOf(block)
           n == Rounds
           x0 == Started(ab)
           c == CHOOSE f : RoundsOf(f, ab)
           step == [i \in Nat |-> [d \in WordPairs |-> IF i \in 1..n THEN Round(d, i) ELSE d]]
<1>1. n \in Nat /\ ab \in WordPairs
  BY Sizes, WordsAndBlocks
<1> HIDE DEF ab
<1>2. x0 \in WordPairs
  <2>1. ab[1] \in Words /\ ab[2] \in Words
    BY <1>1 DEF WordPairs
  <2>2. sTable[1] \in Int /\ sTable[2] \in Int
    <3>1. 1 \in 1..TableSize /\ 2 \in 1..TableSize
      BY Sizes DEF TableSize
    <3>2. sTable[1] \in Words /\ sTable[2] \in Words
      BY <3>1, TableType
    <3>3. \A w \in Words : w \in Int
      BY WordRemainder
    <3> HIDE DEF Words
    <3> QED
      BY <3>2, <3>3
  <2>3. Plus(ab[1], sTable[1]) \in Words /\ Plus(ab[2], sTable[2]) \in Words
    BY <2>1, <2>2, PlusMinus
  <2> QED
    BY <2>3 DEF Started, WordPairs
<1>3. step \in StepsOn(WordPairs)
  <2>1. \A i \in 1..n, d \in WordPairs : Round(d, i) \in WordPairs
    BY RoundUndone
  <2> HIDE DEF n
  <2>2. \A i \in Nat : [d \in WordPairs |-> IF i \in 1..n THEN Round(d, i) ELSE d] \in [WordPairs -> WordPairs]
    BY <2>1
  <2> QED
    BY <2>2 DEF StepsOn
<1>4. PICK h : h \in [0..n -> WordPairs] /\ \A k \in 0..n : h[k] = IF k = 0 THEN x0 ELSE step[k][h[k - 1]]
  <2> HIDE DEF step, x0, n
  <2>1. PICK h : LoopsTo(h, n, WordPairs, x0, step)
    BY <1>1, <1>2, <1>3, LoopFrom
  <2> QED
    BY <2>1 DEF LoopsTo
<1>5. h[0] = x0 /\ \A k \in 1..n : h[k] = Round(h[k - 1], k)
  <2>1. ASSUME NEW k \in 1..n PROVE h[k] = Round(h[k - 1], k)
    <3>1. k - 1 \in 0..n /\ k \in 0..n /\ k # 0 /\ k \in Nat
      BY <1>1
    <3> HIDE DEF n
    <3>2. h[k - 1] \in WordPairs /\ h[k] = step[k][h[k - 1]]
      BY <1>4, <3>1
    <3>3. step[k][h[k - 1]] = Round(h[k - 1], k)
      BY <3>1, <3>2
    <3> QED
      BY <3>2, <3>3
  <2>2. h[0] = x0
    <3>1. 0 \in 0..n
      BY <1>1
    <3> HIDE DEF n, x0, step
    <3> QED
      BY <1>4, <3>1
  <2> HIDE DEF x0, step
  <2> QED
    BY <2>1, <2>2
<1> HIDE DEF step
<1>6. RoundsOf(h, ab)
  <2>1. ASSUME NEW k \in 0..n PROVE h[k] = IF k = 0 THEN x0 ELSE Round(h[k - 1], k)
    <3>1. k # 0 => k \in 1..n
      OBVIOUS
    <3> QED
      BY <1>5, <3>1
  <2>2. h = [k \in 0..n |-> IF k = 0 THEN x0 ELSE Round(h[k - 1], k)]
    <3> HIDE DEF n, x0
    <3>1. h = [k \in 0..n |-> h[k]]
      BY <1>4
    <3> QED
      BY <2>1, <3>1
  <2> QED
    BY <2>2 DEF RoundsOf, Started
<1>7. RoundsOf(c, ab)
  BY <1>6
<1> HIDE DEF c
<1>8. c[0] = h[0] /\ \A k \in 0..n - 1 : c[k] = h[k] => c[k + 1] = h[k + 1]
  <2>1. c = [k \in 0..n |-> IF k = 0 THEN x0 ELSE Round(c[k - 1], k)]
    BY <1>7 DEF RoundsOf, Started
  <2> HIDE DEF n, x0
  <2>2. c[0] = x0
    BY <1>1, <2>1
  <2>3. ASSUME NEW k \in 0..n - 1, c[k] = h[k] PROVE c[k + 1] = h[k + 1]
    <3>1. k + 1 \in 0..n /\ k + 1 \in 1..n /\ k + 1 # 0 /\ (k + 1) - 1 = k
      BY <1>1
    <3>2. c[k + 1] = Round(c[(k + 1) - 1], k + 1) /\ h[k + 1] = Round(h[(k + 1) - 1], k + 1)
      BY <1>5, <2>1, <3>1
    <3> QED
      BY <2>3, <3>1, <3>2
  <2> QED
    BY <1>5, <2>2, <2>3
<1>9. c[n] = h[n]
  <2> HIDE DEF n
  <2>1. \A k \in 0..n : c[k] = h[k]
    BY <1>1, <1>8, SameLoop
  <2>2. n \in 0..n
    BY <1>1
  <2> QED
    BY <2>1, <2>2
<1>10. EncryptBlock(block) = BlockOf(c[n])
  BY DEF EncryptBlock, RoundsOf, ab, c
<1> HIDE DEF x0
<1>11. h[0] = Started(WordsOf(block)) /\ EncryptBlock(block) = BlockOf(h[n])
  BY <1>5, <1>9, <1>10 DEF ab, x0
<1>12. EncryptedBy(h, block)
  BY <1>4, <1>5, <1>11 DEF EncryptedBy
<1> QED
  BY <1>12

(* Decrypting a block gives back what was encrypted.                        *)
LEMMA BlockRoundTrip ==
  ASSUME NEW block \in BlockBytes
  PROVE  EncryptBlock(block) \in BlockBytes /\ DecryptBlock(EncryptBlock(block)) = block
<1> DEFINE n == Rounds
           e == EncryptBlock(block)
           ab == WordsOf(block)
           c == CHOOSE f : UnroundsOf(f, e)
<1>1. n \in Nat /\ ab \in WordPairs /\ BlockOf(ab) = block
  BY Sizes, WordsAndBlocks
<1>2. PICK f : /\ f \in [0..n -> WordPairs] /\ f[0] = Started(ab) /\ e = BlockOf(f[n])
               /\ \A i \in 1..n : f[i] = Round(f[i - 1], i)
  BY EncryptRounds DEF EncryptedBy
<1>3. e \in BlockBytes /\ WordsOf(e) = f[n]
  <2>1. f[n] \in WordPairs
    BY <1>1, <1>2
  <2> HIDE DEF e
  <2> QED
    BY <1>2, <2>1, WordsAndBlocks
<1> HIDE DEF ab, e
<1>4. \A i \in 1..n : f[i - 1] \in WordPairs /\ Unround(f[i], i) = f[i - 1]
  <2>1. ASSUME NEW i \in 1..n PROVE f[i - 1] \in WordPairs /\ Unround(f[i], i) = f[i - 1]
    <3>1. i - 1 \in 0..n
      BY <1>1
    <3>2. f[i - 1] \in WordPairs /\ f[i] = Round(f[i - 1], i)
      BY <1>2, <3>1
    <3> QED
      BY <3>2, RoundUndone
  <2> QED
    BY <2>1
<1> DEFINE u == [k \in 0..n |-> f[n - k]]
<1>5. UnroundsOf(u, e)
  <2>1. ASSUME NEW k \in 0..n PROVE u[k] = IF k = 0 THEN WordsOf(e) ELSE Unround(u[k - 1], n + 1 - k)
    <3>1. CASE k = 0
      <4>1. n - 0 = n
        BY <1>1
      <4> QED
        BY <1>3, <3>1, <4>1
    <3>2. CASE k # 0
      <4>1. k - 1 \in 0..n /\ n - (k - 1) = n + 1 - k /\ n + 1 - k \in 1..n /\ (n + 1 - k) - 1 = n - k
        BY <1>1, <3>2
      <4>2. u[k - 1] = f[n + 1 - k] /\ u[k] = f[n - k]
        BY <4>1
      <4>3. Unround(f[n + 1 - k], n + 1 - k) = f[n - k]
        BY <1>4, <4>1
      <4> QED
        BY <3>2, <4>2, <4>3
    <3> QED
      BY <3>1, <3>2
  <2>2. u = [k \in 0..n |-> IF k = 0 THEN WordsOf(e) ELSE Unround(u[k - 1], n + 1 - k)]
    <3>1. u = [k \in 0..n |-> u[k]]
      OBVIOUS
    <3> HIDE DEF u, n
    <3> QED
      BY <2>1, <3>1
  <2> HIDE DEF u
  <2> QED
    BY <2>2 DEF UnroundsOf
<1>6. UnroundsOf(c, e)
  <2> HIDE DEF u
  <2> QED
    BY <1>5
<1> HIDE DEF c
<1>7. c[n] = f[0]
  <2>1. c = [k \in 0..n |-> IF k = 0 THEN WordsOf(e) ELSE Unround(c[k - 1], n + 1 - k)]
    BY <1>6 DEF UnroundsOf
  <2>2. u = [k \in 0..n |-> IF k = 0 THEN WordsOf(e) ELSE Unround(u[k - 1], n + 1 - k)]
    <3> HIDE DEF u
    <3> QED
      BY <1>5 DEF UnroundsOf
  <2>3. u[n] = f[0]
    <3>1. n \in 0..n /\ n - n = 0
      BY <1>1
    <3> QED
      BY <3>1
  <2> HIDE DEF n, u
  <2>4. c[0] = u[0]
    BY <1>1, <2>1, <2>2
  <2>5. ASSUME NEW k \in 0..n - 1, c[k] = u[k] PROVE c[k + 1] = u[k + 1]
    <3>1. k + 1 \in 0..n /\ k + 1 # 0 /\ (k + 1) - 1 = k
      BY <1>1
    <3>2. /\ c[k + 1] = Unround(c[(k + 1) - 1], n + 1 - (k + 1))
          /\ u[k + 1] = Unround(u[(k + 1) - 1], n + 1 - (k + 1))
      BY <2>1, <2>2, <3>1
    <3> QED
      BY <2>5, <3>1, <3>2
  <2>6. \A k \in 0..n : c[k] = u[k]
    BY <1>1, <2>4, <2>5, SameLoop
  <2>7. n \in 0..n
    BY <1>1
  <2> QED
    BY <2>3, <2>6, <2>7
<1>8. << Minus(f[0][1], sTable[1]), Minus(f[0][2], sTable[2]) >> = ab
  <2>1. ab[1] \in Words /\ ab[2] \in Words /\ ab = << ab[1], ab[2] >>
    BY <1>1 DEF WordPairs
  <2>2. sTable[1] \in Int /\ sTable[2] \in Int
    <3>1. 1 \in 1..TableSize /\ 2 \in 1..TableSize
      BY Sizes DEF TableSize
    <3>2. sTable[1] \in Words /\ sTable[2] \in Words
      BY <3>1, TableType
    <3>3. \A w \in Words : w \in Int
      BY WordRemainder
    <3> HIDE DEF Words
    <3> QED
      BY <3>2, <3>3
  <2>3. /\ Minus(Plus(ab[1], sTable[1]), sTable[1]) = ab[1]
        /\ Minus(Plus(ab[2], sTable[2]), sTable[2]) = ab[2]
    BY <2>1, <2>2, PlusMinus
  <2>4. f[0][1] = Plus(ab[1], sTable[1]) /\ f[0][2] = Plus(ab[2], sTable[2])
    BY <1>2 DEF Started
  <2> QED
    BY <2>1, <2>3, <2>4
<1>9. DecryptBlock(e) = BlockOf(<< Minus(c[n][1], sTable[1]), Minus(c[n][2], sTable[2]) >>)
  BY DEF DecryptBlock, UnroundsOf, c
<1>10. DecryptBlock(e) = block
  BY <1>1, <1>7, <1>8, <1>9
<1> QED
  BY <1>3, <1>10 DEF e

-----------------------------------------------------------------------------
(* Two digits are written and read for every byte.                          *)
LEMMA HexRoundTrip ==
  ASSUME NEW bytes \in Texts
  PROVE  /\ HexEncode(bytes) \in Seq(Nat) /\ Len(HexEncode(bytes)) = 2 * Len(bytes)
         /\ HexDecode(HexEncode(bytes)) = bytes
<1> DEFINE L == Len(bytes)
           hex == HexEncode(bytes)
           digit(i) == IF i % 2 = 1 THEN bytes[(i + 1) \div 2] \div Digit ELSE bytes[(i + 1) \div 2] % Digit
<1>1. L \in Nat /\ Digit \in Nat \ {0} /\ Byte = Digit * Digit /\ \A i \in 1..L : bytes[i] \in 0..Byte - 1
  BY LenProperties, Sizes DEF Texts, Bytes
<1>2. hex = [i \in 1..2 * L |-> digit(i)]
  BY DEF HexEncode
<1> HIDE DEF hex
<1>3. ASSUME NEW byte \in 0..Byte - 1
      PROVE  /\ byte \div Digit \in 0..Digit - 1 /\ byte % Digit \in 0..Digit - 1
             /\ Digit * (byte \div Digit) + (byte % Digit) = byte
  <2>1. byte \div Digit \in Int /\ byte % Digit \in 0..Digit - 1 /\ byte = Digit * (byte \div Digit) + (byte % Digit)
    BY <1>1, QuotientAndRemainder
  <2>2. byte \in Nat /\ byte < Digit * Digit
    BY <1>1
  <2>3. byte \div Digit \in 0..Digit - 1
    <3>1. byte \in Nat /\ byte < Digit * Digit /\ Digit \in Nat \ {0}
      BY <1>1, <2>2
    <3>2. byte \div Digit \in 0..Digit - 1
      BY <3>1, Shifted
    <3> QED
      BY <3>2
  <2> QED
    BY <2>1, <2>3
<1>4. ASSUME NEW i \in 1..2 * L PROVE digit(i) \in Nat
  <2>1. (i + 1) \div 2 \in 1..L
    BY <1>1
  <2>2. bytes[(i + 1) \div 2] \in 0..Byte - 1
    BY <1>1, <2>1
  <2> QED
    BY <1>3, <2>2
<1>5. hex \in Seq(Nat) /\ Len(hex) = 2 * L
  <2>1. 2 * L \in Nat
    BY <1>1
  <2> HIDE DEF digit
  <2> QED
    BY <1>2, <1>4, <2>1
<1>6. ASSUME NEW i \in 1..L
      PROVE  HexByte(hex[2 * i - 1], hex[2 * i]) = bytes[i]
  <2>1. /\ 2 * i - 1 \in 1..2 * L /\ 2 * i \in 1..2 * L
        /\ ((2 * i - 1) + 1) \div 2 = i /\ (2 * i + 1) \div 2 = i /\ (2 * i - 1) % 2 = 1 /\ (2 * i) % 2 = 0
    BY <1>1
  <2>2. hex[2 * i - 1] = bytes[i] \div Digit /\ hex[2 * i] = bytes[i] % Digit
    <3>1. hex[2 * i - 1] = digit(2 * i - 1) /\ hex[2 * i] = digit(2 * i)
      BY <1>2, <2>1
    <3>2. digit(2 * i - 1) = bytes[i] \div Digit
      BY <2>1
    <3>3. digit(2 * i) = bytes[i] % Digit
      BY <2>1
    <3> QED
      BY <3>1, <3>2, <3>3
  <2> DEFINE h == bytes[i] \div Digit
             l == bytes[i] % Digit
  <2>3. h \in 0..Digit - 1 /\ l \in 0..Digit - 1 /\ Digit * h + l = bytes[i]
    BY <1>1, <1>3
  <2> HIDE DEF h, l
  <2>4. h # NotHex /\ l # NotHex
    BY <1>1, <2>3 DEF NotHex
  <2>5. HexByte(h, l) = bytes[i]
    BY <2>3, <2>4 DEF HexByte
  <2> QED
    BY <2>2, <2>5 DEF h, l
<1>7. HexDecode(hex) = bytes
  <2>1. (2 * L) % 2 = 0 /\ (2 * L) \div 2 = L
    BY <1>1
  <2>2. HexDecode(hex) = [i \in 1..L |-> HexByte(hex[2 * i - 1], hex[2 * i])]
    BY <1>5, <2>1 DEF HexDecode
  <2>3. bytes = [i \in 1..L |-> bytes[i]]
    BY DEF Texts
  <2> HIDE DEF L
  <2> QED
    BY <1>6, <2>2, <2>3
<1> QED
  BY <1>5, <1>7 DEF hex

(* The places in a row of n blocks: place i of block k.                     *)
LEMMA Places ==
  ASSUME NEW B \in Nat \ {0}, NEW n \in Nat
  PROVE  /\ \A k \in 1..n, i \in 1..B :
              /\ (k - 1) * B + i \in 1..B * n
              /\ (((k - 1) * B + i) - 1) \div B = k - 1 /\ (((k - 1) * B + i) - 1) % B = i - 1
         /\ \A j \in 1..B * n : \E k \in 1..n, i \in 1..B :
              j = (k - 1) * B + i /\ (j - 1) \div B = k - 1 /\ (j - 1) % B = i - 1
<1>1. ASSUME NEW k \in 1..n, NEW i \in 1..B
      PROVE  /\ (k - 1) * B + i \in 1..B * n
             /\ (((k - 1) * B + i) - 1) \div B = k - 1 /\ (((k - 1) * B + i) - 1) % B = i - 1
  <2> DEFINE x == B * (k - 1)
             y == B * n
  <2>1. x \in Nat /\ y \in Nat /\ (k - 1) * B = x
    OBVIOUS
  <2>2. x + B <= y
    <3>1. x + B = B * k
      OBVIOUS
    <3>2. B * k <= B * n
      OBVIOUS
    <3> QED
      BY <3>1, <3>2
  <2>3. (B * (k - 1) + (i - 1)) \div B = k - 1 /\ (B * (k - 1) + (i - 1)) % B = i - 1
    <3>1. B \in Nat \ {0} /\ k - 1 \in Int /\ i - 1 \in 0..B - 1
      OBVIOUS
    <3> QED
      BY <3>1, Division
  <2> HIDE DEF x, y
  <2>4. x + i \in 1..y /\ x + i - 1 = x + (i - 1)
    BY <2>1, <2>2
  <2>5. (x + i - 1) \div B = k - 1 /\ (x + i - 1) % B = i - 1
    BY <2>3, <2>4 DEF x
  <2> QED
    BY <2>1, <2>4, <2>5 DEF y
<1>2. ASSUME NEW j \in 1..B * n
      PROVE  \E k \in 1..n, i \in 1..B : j = (k - 1) * B + i /\ (j - 1) \div B = k - 1 /\ (j - 1) % B = i - 1
  <2> DEFINE x == j - 1
             q == x \div B
             r == x % B
  <2>0. B * n \in Nat
    OBVIOUS
  <2>1. x \in Nat /\ x < B * n /\ j = x + 1
    BY <2>0
  <2> HIDE DEF x
  <2>2. q \in Int /\ r \in 0..B - 1 /\ x = B * q + r
    BY <2>1, QuotientAndRemainder
  <2> HIDE DEF q, r
  <2>3. q \in 0..n - 1
    <3>1. q < 0 => B * q <= B * (-1)
      BY <2>2
    <3>2. q >= n => B * q >= B * n
      BY <2>2
    <3> DEFINE y == B * q
               z == B * n
    <3>3. y \in Int /\ z \in Int /\ B * (-1) = -B
      BY <2>2
    <3>4. (q < 0 => y <= -B) /\ (q >= n => y >= z) /\ x = y + r /\ x < z
      BY <2>1, <2>2, <3>1, <3>2, <3>3
    <3> HIDE DEF y, z
    <3> QED
      BY <2>1, <2>2, <3>3, <3>4
  <2>4. q + 1 \in 1..n /\ r + 1 \in 1..B /\ q = (q + 1) - 1 /\ r = (r + 1) - 1
    BY <2>2, <2>3
  <2>5. j = ((q + 1) - 1) * B + (r + 1)
    <3>1. q * B = B * q /\ B * q \in Int
      BY <2>2
    <3> QED
      BY <2>1, <2>2, <2>4, <3>1
  <2>6. (j - 1) \div B = q /\ (j - 1) % B = r
    BY DEF q, r, x
  <2> QED
    BY <2>4, <2>5, <2>6
<1> QED
  BY <1>1, <1>2

(* Blocks can be put in a row and found again.                              *)
LEMMA SliceOfRow ==
  ASSUME NEW parts \in Seq(BlockBytes)
  PROVE  /\ InARow(Block, parts) \in Texts /\ Len(InARow(Block, parts)) = Block * Len(parts)
         /\ \A k \in 1..Len(parts) : Slice(InARow(Block, parts), Block, k) = parts[k]
<1> DEFINE n == Len(parts)
           B == Block
           s == InARow(B, parts)
           byte(i) == parts[((i - 1) \div B) + 1][((i - 1) % B) + 1]
<1>1. n \in Nat /\ B \in Nat \ {0} /\ \A k \in 1..n : parts[k] \in [1..B -> Bytes]
  BY LenProperties, Sizes DEF BlockBytes
<1>2. s = [i \in 1..B * n |-> byte(i)] /\ B * n \in Nat
  BY <1>1 DEF InARow
<1> HIDE DEF s, n, B
<1>3. /\ \A k \in 1..n, i \in 1..B :
           /\ (k - 1) * B + i \in 1..B * n
           /\ (((k - 1) * B + i) - 1) \div B = k - 1 /\ (((k - 1) * B + i) - 1) % B = i - 1
      /\ \A j \in 1..B * n : \E k \in 1..n, i \in 1..B :
           j = (k - 1) * B + i /\ (j - 1) \div B = k - 1 /\ (j - 1) % B = i - 1
  BY <1>1, Places
<1>4. ASSUME NEW k \in 1..n, NEW i \in 1..B
      PROVE  (k - 1) * B + i \in 1..B * n /\ byte((k - 1) * B + i) = parts[k][i]
  <2> DEFINE j == (k - 1) * B + i
  <2>1. j \in 1..B * n /\ (j - 1) \div B = k - 1 /\ (j - 1) % B = i - 1
    BY <1>3, Zenon
  <2>2. (k - 1) + 1 = k /\ (i - 1) + 1 = i
    OBVIOUS
  <2> HIDE DEF j
  <2>3. byte(j) = parts[k][i]
    BY <2>1, <2>2
  <2> QED
    BY <2>1, <2>3 DEF j
<1>5. ASSUME NEW j \in 1..B * n PROVE byte(j) \in Bytes
  <2>1. PICK k \in 1..n, i \in 1..B : j = (k - 1) * B + i
    BY <1>3
  <2>2. parts[k][i] \in Bytes
    BY <1>1
  <2> QED
    BY <1>4, <2>1, <2>2
<1>6. s \in Texts /\ Len(s) = B * n
  <2> HIDE DEF byte
  <2> QED
    BY <1>2, <1>5 DEF Texts
<1>7. ASSUME NEW k \in 1..n PROVE Slice(s, B, k) = parts[k]
  <2>1. Slice(s, B, k) = [i \in 1..B |-> s[(k - 1) * B + i]]
    BY DEF Slice
  <2>2. \A i \in 1..B : s[(k - 1) * B + i] = parts[k][i]
    <3> HIDE DEF byte
    <3> QED
      BY <1>2, <1>4
  <2>3. parts[k] = [i \in 1..B |-> parts[k][i]]
    BY <1>1
  <2> QED
    BY <2>1, <2>2, <2>3
<1> QED
  BY <1>6, <1>7 DEF s, n, B

(* A text of whole blocks is its blocks in a row.                           *)
LEMMA RowOfSlices ==
  ASSUME NEW s \in Texts, NEW n \in Nat, Len(s) = Block * n
  PROVE  /\ \A k \in 1..n : Slice(s, Block, k) \in BlockBytes
         /\ InARow(Block, [k \in 1..n |-> Slice(s, Block, k)]) = s
<1> DEFINE B == Block
           parts == [k \in 1..n |-> Slice(s, B, k)]
           t == InARow(B, parts)
<1>1. B \in Nat \ {0} /\ B * n \in Nat /\ Len(s) = B * n /\ \A i \in 1..B * n : s[i] \in Bytes
  BY Sizes DEF Texts
<1> HIDE DEF B
<1>2. /\ \A k \in 1..n, i \in 1..B :
           /\ (k - 1) * B + i \in 1..B * n
           /\ (((k - 1) * B + i) - 1) \div B = k - 1 /\ (((k - 1) * B + i) - 1) % B = i - 1
      /\ \A j \in 1..B * n : \E k \in 1..n, i \in 1..B :
           j = (k - 1) * B + i /\ (j - 1) \div B = k - 1 /\ (j - 1) % B = i - 1
  BY <1>1, Places
<1>3. ASSUME NEW k \in 1..n PROVE Slice(s, B, k) \in BlockBytes
  <2>1. \A i \in 1..B : s[(k - 1) * B + i] \in Bytes
    BY <1>1, <1>2
  <2> QED
    BY <2>1 DEF Slice, BlockBytes, B
<1>4. parts \in Seq(BlockBytes) /\ Len(parts) = n
  BY <1>3
<1>5. t \in Texts /\ Len(t) = B * n /\ \A k \in 1..n : Slice(t, B, k) = Slice(s, B, k)
  <2>1. t \in Texts /\ Len(t) = B * Len(parts) /\ \A k \in 1..Len(parts) : Slice(t, B, k) = parts[k]
    <3> HIDE DEF parts
    <3> QED
      BY <1>4, SliceOfRow DEF B
  <2>2. \A k \in 1..n : parts[k] = Slice(s, B, k)
    OBVIOUS
  <2> HIDE DEF parts, t
  <2> QED
    BY <1>4, <2>1, <2>2
<1> HIDE DEF t, parts
<1>6. ASSUME NEW j \in 1..B * n PROVE t[j] = s[j]
  <2>1. PICK k \in 1..n, i \in 1..B : j = (k - 1) * B + i
    BY <1>2
  <2>2. Slice(t, B, k)[i] = t[j] /\ Slice(s, B, k)[i] = s[j]
    BY <2>1 DEF Slice
  <2> QED
    BY <1>5, <2>2
<1>7. t = s
  BY <1>1, <1>5, <1>6, SeqEqual DEF Texts
<1> QED
  BY <1>3, <1>7 DEF t, parts, B

-----------------------------------------------------------------------------
(* A second exclusive or with the same block undoes the first.              *)
LEMMA XoredUndone ==
  ASSUME NEW x \in BlockBytes, NEW y \in BlockBytes
  PROVE  Xored(x, y) \in BlockBytes /\ Xored(Xored(x, y), y) = x
<1>1. ByteBits \in Nat /\ Bytes = 0..pow2[ByteBits] - 1
  BY Sizes DEF Bytes, Byte
<1>2. \A i \in 1..Block : /\ x[i] \in Bytes /\ y[i] \in Bytes
                          /\ x[i] ^^ y[i] \in Bytes /\ (x[i] ^^ y[i]) ^^ y[i] = x[i]
  <2>1. ASSUME NEW a \in Bytes, NEW b \in Bytes PROVE a ^^ b \in Bytes /\ (a ^^ b) ^^ b = a
    <3>1. a ^^ b \in Bytes
      BY <1>1, XorFits
    <3>2. a \in Nat /\ b \in Nat
      BY Sizes DEF Bytes
    <3> QED
      BY <3>1, <3>2, XorUndone
  <2>2. \A i \in 1..Block : x[i] \in Bytes /\ y[i] \in Bytes
    BY DEF BlockBytes
  <2> QED
    BY <2>1, <2>2
<1> DEFINE z == [i \in 1..Block |-> x[i] ^^ y[i]]
<1>3. Xored(x, y) = z /\ Xored(z, y) = [i \in 1..Block |-> z[i] ^^ y[i]]
  BY DEF Xored
<1>4. z \in BlockBytes /\ \A i \in 1..Block : z[i] = x[i] ^^ y[i]
  BY <1>2 DEF BlockBytes
<1> HIDE DEF z
<1>5. x = [i \in 1..Block |-> x[i]]
  BY DEF BlockBytes
<1>6. Xored(z, y) = x
  BY <1>2, <1>3, <1>4, <1>5
<1> QED
  BY <1>3, <1>4, <1>6

(* Padding fills up the last block, or adds one, and is found again.        *)
LEMMA PaddedAndUnpadded ==
  ASSUME NEW t \in Texts
  PROVE  /\ Padded(t) \in Texts /\ (Len(t) \div Block) + 1 \in Nat \ {0}
         /\ Len(Padded(t)) = Block * ((Len(t) \div Block) + 1)
         /\ Unpadded(Padded(t)) = t
<1> DEFINE L == Len(t)
           B == Block
           q == L \div B
           r == L % B
           pad == B - r
           tail == [i \in 1..pad |-> pad]
           s == t \o tail
<1>1. L \in Nat /\ B \in Nat \ {0} /\ B < Byte /\ Byte \in Nat
  BY LenProperties, Sizes DEF Texts
<1> HIDE DEF B, L
<1>2. q \in Nat /\ r \in 0..B - 1 /\ L = B * q + r
  <2>1. L \div B \in Int /\ L % B \in 0..B - 1 /\ L = B * (L \div B) + (L % B)
    BY <1>1, QuotientAndRemainder
  <2>2. L \div B \in Nat
    BY <1>1
  <2> QED
    BY <2>1, <2>2
<1>3. Padded(t) = s
  BY DEF Padded, L, B
<1> HIDE DEF q, r
<1>4. pad \in 1..B /\ L + pad = B * (q + 1)
  <2>1. B * (q + 1) = B * q + B
    BY <1>1, <1>2
  <2> QED
    BY <1>1, <1>2, <2>1
<1> HIDE DEF pad
<1>5. pad \in Bytes /\ pad \in Nat \ {0}
  BY <1>1, <1>4 DEF Bytes
<1>6. tail \in Seq(Bytes) /\ Len(tail) = pad /\ \A i \in 1..pad : tail[i] = pad
  <2>1. \A i \in 1..pad : pad \in Bytes
    BY <1>5
  <2> HIDE DEF Bytes
  <2> QED
    BY <1>5, <2>1
<1>7. /\ s \in Seq(Bytes) /\ Len(s) = L + pad
      /\ \A i \in 1..L : s[i] = t[i]
      /\ \A i \in L + 1..L + pad : s[i] = pad
  <2> HIDE DEF tail
  <2>1. t \in Seq(Bytes) /\ L = Len(t)
    BY DEF Texts, L
  <2>2. s \in Seq(Bytes) /\ Len(s) = Len(t) + Len(tail)
    BY <1>6, <2>1, ConcatProperties
  <2>3. \A i \in 1..Len(t) + Len(tail) : s[i] = IF i <= Len(t) THEN t[i] ELSE tail[i - Len(t)]
    BY <1>6, <2>1, ConcatProperties
  <2>4. \A i \in 1..L : s[i] = t[i]
    BY <1>1, <1>5, <1>6, <2>1, <2>3
  <2>5. ASSUME NEW i \in L + 1..L + pad PROVE s[i] = pad
    <3>1. i \in 1..L + pad /\ ~(i <= L) /\ i - L \in 1..pad
      BY <1>1, <1>5
    <3> QED
      BY <1>6, <2>1, <2>3, <3>1
  <2> QED
    BY <1>6, <2>1, <2>2, <2>4, <2>5
<1> HIDE DEF s, tail
<1>8. Unpadded(s) = t
  <2>1. s[Len(s)] = pad /\ Len(s) - pad = L
    BY <1>1, <1>5, <1>7
  <2>2. ~(pad > B \/ pad = 0 \/ \E i \in L + 1..Len(s) : s[i] # pad)
    BY <1>1, <1>4, <1>5, <1>7
  <2>3. Unpadded(s) = SubSeq(s, 1, L)
    BY <2>1, <2>2 DEF Unpadded, B
  <2>4. SubSeq(s, 1, L) = t
    <3>1. L <= Len(s) /\ t \in Seq(Bytes) /\ L = Len(t)
      BY <1>1, <1>5, <1>7 DEF Texts, L
    <3>2. Agrees(t, s)
      BY <1>7, <3>1 DEF Agrees
    <3> QED
      BY <1>7, <3>1, <3>2, AgreesIsBeginning
  <2> QED
    BY <2>3, <2>4
<1>9. q + 1 \in Nat \ {0}
  BY <1>2
<1> QED
  BY <1>3, <1>4, <1>7, <1>8, <1>9 DEF Texts, q, L, B

BlockCount(t) == (Len(t) \div Block) + 1
CipherOf(f, padded, n) ==
  f = [k \in 0..n |-> IF k = 0 THEN iv ELSE EncryptBlock(Xored(Slice(padded, Block, k), f[k - 1]))]
ChainedBy(f, t) ==
  /\ f \in [0..BlockCount(t) -> BlockBytes] /\ f[0] = iv
  /\ \A k \in 1..BlockCount(t) : f[k] = EncryptBlock(Xored(Slice(Padded(t), Block, k), f[k - 1]))
  /\ EncryptAuthData(t) = HexEncode(InARow(Block, [k \in 1..BlockCount(t) |-> f[k]]))

(* The blocks of a cipher text, one after another.                          *)
LEMMA EncryptChain ==
  ASSUME NEW t \in Texts
  PROVE  \E f : ChainedBy(f, t)
<1> DEFINE s == Padded(t)
           n == Len(s) \div Block
           part(k) == Slice(s, Block, k)
           c == CHOOSE f : CipherOf(f, s, n)
           step == [k \in Nat |-> [d \in BlockBytes |-> IF k \in 1..n THEN EncryptBlock(Xored(part(k), d)) ELSE d]]
<1>1. s \in Texts /\ n \in Nat /\ Len(s) = Block * n /\ n = BlockCount(t)
  <2> DEFINE m == BlockCount(t)
  <2>1. s \in Texts /\ m \in Nat /\ Len(s) = Block * m
    BY PaddedAndUnpadded DEF BlockCount
  <2> HIDE DEF s, m
  <2>2. Len(s) \div Block = m
    <3>1. Block \in Nat \ {0} /\ m \in Int /\ 0 \in 0..Block - 1
      BY <2>1, Sizes
    <3>2. (Block * m + 0) \div Block = m
      BY <3>1, Division
    <3>3. Block * m + 0 = Len(s)
      BY <2>1, <3>1
    <3> QED
      BY <3>2, <3>3
  <2> QED
    BY <2>1, <2>2 DEF m
<1> HIDE DEF s, n
<1>2. \A k \in 1..n : part(k) \in BlockBytes
  BY <1>1, RowOfSlices
<1>3. iv \in BlockBytes
  <2>1. 1 \in Bytes
    BY Sizes DEF Bytes
  <2> HIDE DEF Bytes
  <2> QED
    BY <2>1 DEF iv, BlockBytes
<1> HIDE DEF part
<1>4. \A k \in 1..n, d \in BlockBytes : EncryptBlock(Xored(part(k), d)) \in BlockBytes
  BY <1>2, XoredUndone, BlockRoundTrip
<1>5. step \in StepsOn(BlockBytes)
  <2>1. \A k \in Nat : [d \in BlockBytes |-> IF k \in 1..n THEN EncryptBlock(Xored(part(k), d)) ELSE d]
                         \in [BlockBytes -> BlockBytes]
    BY <1>4
  <2> QED
    BY <2>1 DEF StepsOn
<1>6. PICK h : h \in [0..n -> BlockBytes] /\ \A k \in 0..n : h[k] = IF k = 0 THEN iv ELSE step[k][h[k - 1]]
  <2> HIDE DEF step
  <2>1. PICK h : LoopsTo(h, n, BlockBytes, iv, step)
    BY <1>1, <1>3, <1>5, LoopFrom
  <2> QED
    BY <2>1 DEF LoopsTo
<1>7. h[0] = iv /\ \A k \in 1..n : h[k] = EncryptBlock(Xored(part(k), h[k - 1]))
  <2>1. ASSUME NEW k \in 1..n PROVE h[k] = EncryptBlock(Xored(part(k), h[k - 1]))
    <3>1. k - 1 \in 0..n /\ k \in 0..n /\ k # 0 /\ k \in Nat
      BY <1>1
    <3>2. h[k - 1] \in BlockBytes /\ h[k] = step[k][h[k - 1]]
      <4> HIDE DEF step
      <4> QED
        BY <1>6, <3>1
    <3>3. step[k][h[k - 1]] = EncryptBlock(Xored(part(k), h[k - 1]))
      BY <3>1, <3>2
    <3> QED
      BY <3>2, <3>3
  <2>2. h[0] = iv
    <3>1. 0 \in 0..n
      BY <1>1
    <3> HIDE DEF step
    <3> QED
      BY <1>6, <3>1
  <2> HIDE DEF step
  <2> QED
    BY <2>1, <2>2
<1> HIDE DEF step
<1>8. CipherOf(h, s, n)
  <2>1. ASSUME NEW k \in 0..n PROVE h[k] = IF k = 0 THEN iv ELSE EncryptBlock(Xored(part(k), h[k - 1]))
    <3>1. k # 0 => k \in 1..n
      OBVIOUS
    <3> QED
      BY <1>7, <3>1
  <2>2. h = [k \in 0..n |-> IF k = 0 THEN iv ELSE EncryptBlock(Xored(part(k), h[k - 1]))]
    <3>1. h = [k \in 0..n |-> h[k]]
      BY <1>6
    <3> QED
      BY <2>1, <3>1
  <2> QED
    BY <2>2 DEF CipherOf, part
<1>9. CipherOf(c, s, n)
  BY <1>8
<1> HIDE DEF c
<1>10. c[0] = iv /\ \A k \in 1..n : c[k] = EncryptBlock(Xored(part(k), c[k - 1]))
  <2>1. c = [k \in 0..n |-> IF k = 0 THEN iv ELSE EncryptBlock(Xored(part(k), c[k - 1]))]
    BY <1>9 DEF CipherOf, part
  <2>2. c[0] = iv
    BY <1>1, <2>1
  <2>3. ASSUME NEW k \in 1..n PROVE c[k] = EncryptBlock(Xored(part(k), c[k - 1]))
    <3>1. k \in 0..n /\ k # 0
      OBVIOUS
    <3> QED
      BY <2>1, <3>1
  <2> QED
    BY <2>2, <2>3
<1>11. \A k \in 0..n : c[k] = h[k]
  <2>1. ASSUME NEW k \in 0..n - 1, c[k] = h[k] PROVE c[k + 1] = h[k + 1]
    <3>1. k + 1 \in 1..n /\ (k + 1) - 1 = k
      BY <1>1
    <3>2. /\ c[k + 1] = EncryptBlock(Xored(part(k + 1), c[(k + 1) - 1]))
          /\ h[k + 1] = EncryptBlock(Xored(part(k + 1), h[(k + 1) - 1]))
      BY <1>7, <1>10, <3>1
    <3> QED
      BY <2>1, <3>1, <3>2
  <2>2. c[0] = h[0] /\ n \in Nat
    BY <1>1, <1>7, <1>10
  <2> HIDE DEF n
  <2> QED
    BY <2>1, <2>2, SameLoop
<1>12. EncryptAuthData(t) = HexEncode(InARow(Block, [k \in 1..n |-> c[k]]))
  BY DEF EncryptAuthData, CipherOf, c, n, s
<1>13. [k \in 1..n |-> c[k]] = [k \in 1..n |-> h[k]]
  <2>1. \A k \in 1..n : k \in 0..n
    BY <1>1
  <2> QED
    BY <1>11, <2>1
<1>14. ChainedBy(h, t)
  BY <1>1, <1>6, <1>7, <1>12, <1>13 DEF ChainedBy, s, part
<1> QED
  BY <1>14

(* What was encrypted comes back when it is decrypted, whatever the text    *)
(* and its length: padding, chaining, rounds, words and digits are all taken*)
(* back; and its length in characters (auth_crypto.cpp:93-164).             *)
THEOREM DecryptsWhatWasEncrypted ==
  \A t \in Texts :
    /\ DecryptAuthData(EncryptAuthData(t)) = t
    /\ EncryptAuthData(t) \in Seq(Nat)
    /\ Len(EncryptAuthData(t)) = 2 * Block * ((Len(t) \div Block) + 1)
<1> SUFFICES ASSUME NEW t \in Texts
             PROVE  /\ DecryptAuthData(EncryptAuthData(t)) = t
                    /\ EncryptAuthData(t) \in Seq(Nat)
                    /\ Len(EncryptAuthData(t)) = 2 * Block * BlockCount(t)
  BY DEF BlockCount
<1> DEFINE n == BlockCount(t)
           s == Padded(t)
           part(k) == Slice(s, Block, k)
<1>1. /\ s \in Texts /\ n \in Nat \ {0} /\ Len(s) = Block * n /\ Block \in Nat \ {0}
      /\ Unpadded(s) = t
  BY PaddedAndUnpadded, Sizes DEF BlockCount
<1>2. PICK f : /\ f \in [0..n -> BlockBytes] /\ f[0] = iv
               /\ \A k \in 1..n : f[k] = EncryptBlock(Xored(part(k), f[k - 1]))
               /\ EncryptAuthData(t) = HexEncode(InARow(Block, [k \in 1..n |-> f[k]]))
  BY EncryptChain DEF ChainedBy
<1> HIDE DEF s, n
<1>3. (\A k \in 1..n : part(k) \in BlockBytes) /\ InARow(Block, [k \in 1..n |-> part(k)]) = s
  BY <1>1, RowOfSlices
<1> HIDE DEF part
<1> DEFINE parts == [k \in 1..n |-> f[k]]
           cipher == InARow(Block, parts)
<1>4. parts \in Seq(BlockBytes) /\ Len(parts) = n /\ \A k \in 1..n : parts[k] = f[k]
  <2>1. \A k \in 1..n : f[k] \in BlockBytes
    BY <1>1, <1>2
  <2> QED
    BY <1>1, <2>1
<1> HIDE DEF parts
<1>5. cipher \in Texts /\ Len(cipher) = Block * n /\ \A k \in 1..n : Slice(cipher, Block, k) = f[k]
  BY <1>4, SliceOfRow
<1>6. EncryptAuthData(t) = HexEncode(cipher)
  BY <1>2 DEF parts
<1> HIDE DEF cipher
<1>7. /\ EncryptAuthData(t) \in Seq(Nat) /\ Len(EncryptAuthData(t)) = 2 * (Block * n)
      /\ HexDecode(EncryptAuthData(t)) = cipher
  BY <1>5, <1>6, HexRoundTrip
<1>8. Len(cipher) \div Block = n /\ Len(cipher) % Block = 0 /\ cipher # << >>
  <2>1. Block \in Nat \ {0} /\ n \in Int /\ 0 \in 0..Block - 1
    BY <1>1
  <2>2. (Block * n + 0) \div Block = n /\ (Block * n + 0) % Block = 0
    BY <2>1, Division
  <2>3. Block * n + 0 = Len(cipher)
    BY <1>1, <1>5
  <2>4. Len(cipher) # 0
    <3>1. Block * n >= Block * 1
      BY <1>1
    <3>2. Block * 1 = Block
      BY <1>1
    <3> QED
      BY <1>1, <1>5, <3>1, <3>2
  <2>5. cipher # << >>
    BY <2>4
  <2> QED
    BY <2>2, <2>3, <2>5
<1> DEFINE plain(k) == Xored(DecryptBlock(Slice(cipher, Block, k)), IF k = 1 THEN iv ELSE Slice(cipher, Block, k - 1))
<1>9. ASSUME NEW k \in 1..n PROVE plain(k) = part(k)
  <2>1. k - 1 \in 0..n /\ k \in 0..n /\ (k # 1 => k - 1 \in 1..n) /\ (k = 1 => k - 1 = 0)
    BY <1>1
  <2>2. f[k - 1] \in BlockBytes /\ f[k] = EncryptBlock(Xored(part(k), f[k - 1]))
    BY <1>2, <2>1
  <2>3. (IF k = 1 THEN iv ELSE Slice(cipher, Block, k - 1)) = f[k - 1] /\ Slice(cipher, Block, k) = f[k]
    BY <1>2, <1>5, <2>1
  <2>4. part(k) \in BlockBytes
    BY <1>3
  <2>5. Xored(part(k), f[k - 1]) \in BlockBytes /\ Xored(Xored(part(k), f[k - 1]), f[k - 1]) = part(k)
    BY <2>2, <2>4, XoredUndone
  <2>6. DecryptBlock(f[k]) = Xored(part(k), f[k - 1])
    BY <2>2, <2>5, BlockRoundTrip
  <2> QED
    BY <2>3, <2>5, <2>6
<1>10. DecryptAuthData(EncryptAuthData(t)) = Unpadded(InARow(Block, [k \in 1..n |-> plain(k)]))
  BY <1>7, <1>8 DEF DecryptAuthData
<1>11. [k \in 1..n |-> plain(k)] = [k \in 1..n |-> part(k)]
  <2> HIDE DEF plain
  <2> QED
    BY <1>9
<1>12. DecryptAuthData(EncryptAuthData(t)) = t
  BY <1>1, <1>3, <1>10, <1>11
<1>13. 2 * (Block * n) = 2 * Block * n
  BY <1>1
<1> QED
  BY <1>7, <1>12, <1>13 DEF n

-----------------------------------------------------------------------------
(* Texts cut off.                                                           *)
LEMMA StrncpyProperties ==
  ASSUME NEW S, NEW s \in Seq(S), NEW n \in Nat
  PROVE  /\ strncpy(s, n) \in Seq(S) /\ Len(strncpy(s, n)) <= n
         /\ Len(s) <= n => strncpy(s, n) = s
         /\ Len(s) >= n => Len(strncpy(s, n)) = n
<1> DEFINE m == IF Len(s) < n THEN Len(s) ELSE n
           c == SubSeq(s, 1, m)
<1>1. Len(s) \in Nat /\ \A i \in 1..Len(s) : s[i] \in S
  BY LenProperties
<1>2. m \in Nat /\ m <= Len(s) /\ m <= n
  BY <1>1
<1>3. c \in Seq(S) /\ Len(c) = m
  <2> HIDE DEF m
  <2>1. /\ c \in Seq(S) /\ Len(c) = (IF 1 <= m THEN (m - 1) + 1 ELSE 0)
    <3>1. \A i \in 1..m : s[i] \in S
      BY <1>1, <1>2
    <3>2. 1 \in Int /\ m \in Int /\ 1 \in 1..m + 1
      BY <1>2
    <3> QED
      BY <1>1, <1>2, <3>1, <3>2, SubSeqProperties
  <2> QED
    BY <1>2, <2>1
<1>4. strncpy(s, n) = c
  BY DEF strncpy
<1>5. ASSUME Len(s) <= n PROVE strncpy(s, n) = s
  <2>1. m = Len(s)
    BY <1>1, <1>5
  <2>2. SubSeq(s, 1, Len(s)) = s
    BY SubSeqFull
  <2> HIDE DEF m
  <2> QED
    BY <1>4, <2>1, <2>2
<1>6. ASSUME Len(s) >= n PROVE Len(strncpy(s, n)) = n
  <2>1. m = n
    BY <1>1, <1>6
  <2> HIDE DEF c, m
  <2> QED
    BY <1>3, <1>4, <2>1
<1> HIDE DEF c, m
<1> QED
  BY <1>2, <1>3, <1>4, <1>5, <1>6

(* Of a text, szAuthData holds all, which decrypts to the text, or a        *)
(* beginning, which does not decrypt.                                       *)
LEMMA CutOrWhole ==
  ASSUME NEW t \in Texts
  PROVE  LET x == strncpy(EncryptAuthData(t), AUTH_DATA_LENGTH)
         IN  /\ Len(x) \in Nat /\ Len(x) <= AUTH_DATA_LENGTH
             /\ Len(x) = AUTH_DATA_LENGTH => DecryptAuthData(x) = << >>
             /\ Len(x) # AUTH_DATA_LENGTH => DecryptAuthData(x) = t
<1> DEFINE e == EncryptAuthData(t)
           n == AUTH_DATA_LENGTH
           x == strncpy(e, n)
           c == BlockCount(t)
<1>1. /\ e \in Seq(Nat) /\ Len(e) = 2 * Block * c /\ c \in Nat /\ DecryptAuthData(e) = t
      /\ n \in Nat /\ n % (2 * Block) # 0 /\ Block \in Nat \ {0}
  <2>1. n \in Nat /\ n % (2 * Block) # 0
    BY TextAssumption
  <2>2. e \in Seq(Nat) /\ Len(e) = 2 * Block * c /\ DecryptAuthData(e) = t
    BY DecryptsWhatWasEncrypted DEF BlockCount
  <2>3. c \in Nat
    BY PaddedAndUnpadded DEF BlockCount
  <2> QED
    BY <2>1, <2>2, <2>3, Sizes
<1> HIDE DEF e, n, c
<1>2. /\ x \in Seq(Nat) /\ Len(x) \in Nat /\ Len(x) <= n
      /\ Len(e) <= n => x = e
      /\ Len(e) >= n => Len(x) = n
  BY <1>1, StrncpyProperties, LenProperties
<1> HIDE DEF x
<1>3. CASE Len(e) < n
  BY <1>1, <1>2, <1>3, LenProperties DEF x, e, n
<1>4. CASE ~(Len(e) < n)
  <2>1. Len(x) = n
    BY <1>1, <1>2, <1>4, LenProperties
  <2>2. DecryptAuthData(x) = << >>
    <3>1. CASE n % 2 # 0
      <4>1. HexDecode(x) = << >>
        BY <2>1, <3>1 DEF HexDecode
      <4> QED
        BY <4>1 DEF DecryptAuthData
    <3>2. CASE n % 2 = 0
      <4> DEFINE h == HexDecode(x)
      <4>1. n \div 2 \in Nat /\ n = 2 * (n \div 2)
        BY <1>1, <3>2
      <4>2. Len(h) = n \div 2
        <5>1. h = [i \in 1..n \div 2 |-> HexByte(x[2 * i - 1], x[2 * i])]
          BY <2>1, <3>2 DEF HexDecode
        <5> HIDE DEF h
        <5> QED
          BY <4>1, <5>1
      <4>3. (n \div 2) % Block # 0
        <5> DEFINE m == n \div 2
                   q == m \div Block
        <5>0. m \in Nat
          BY <4>1
        <5>1. SUFFICES ASSUME m % Block = 0 PROVE FALSE
          OBVIOUS
        <5>2. q \in Int /\ m = Block * q
          <6> HIDE DEF m
          <6>1. m \div Block \in Int /\ m % Block \in 0..Block - 1 /\ m = Block * (m \div Block) + (m % Block)
            BY <1>1, <5>0, QuotientAndRemainder
          <6>2. Block * (m \div Block) \in Int
            BY <1>1, <6>1
          <6> QED
            BY <5>1, <6>1, <6>2
        <5> HIDE DEF q
        <5>3. n = (2 * Block) * q + 0
          <6>1. n = 2 * m
            BY <4>1
          <6> HIDE DEF m
          <6>2. 2 * (Block * q) = (2 * Block) * q
            BY <1>1, <5>2
          <6> QED
            BY <1>1, <5>2, <6>1, <6>2
        <5>4. ((2 * Block) * q + 0) % (2 * Block) = 0
          <6> DEFINE d == 2 * Block
          <6>1. d \in Nat \ {0} /\ q \in Int /\ 0 \in 0..d - 1
            BY <1>1, <5>2
          <6> HIDE DEF d
          <6>2. (d * q + 0) % d = 0
            BY <6>1, Division
          <6> QED
            BY <6>2 DEF d
        <5> QED
          BY <1>1, <5>3, <5>4
      <4> HIDE DEF h
      <4>4. Len(h) % Block # 0
        BY <4>2, <4>3
      <4> QED
        BY <4>4 DEF DecryptAuthData, h
    <3> QED
      BY <3>1, <3>2, <1>1
  <2> QED
    BY <1>1, <1>2, <2>1, <2>2 DEF x, e, n
<1> QED
  BY <1>3, <1>4

-----------------------------------------------------------------------------
FieldLists == Seq(Texts) \ {<< >>}
SplitsTo(f, s) == f = [k \in 0..Len(s) |-> IF k = 0 THEN << << >> >> ELSE NextChar(f[k - 1], s[k])]
SplitBy(f, s) ==
  /\ f[0] = << << >> >> /\ splitFields(s) = f[Len(s)]
  /\ \A k \in 1..Len(s) : f[k] = NextChar(f[k - 1], s[k])
  /\ \A k \in 0..Len(s) : f[k] \in FieldLists

(* A list of fields is never empty; its last field can be extended.         *)
LEMMA FieldListProperties ==
  ASSUME NEW p \in FieldLists
  PROVE  /\ Len(p) \in Nat \ {0} /\ \A i \in 1..Len(p) : p[i] \in Texts
         /\ \A t \in Texts : [p EXCEPT ![Len(p)] = t] \in FieldLists
<1>1. p \in Seq(Texts) /\ p # << >> /\ Len(p) \in Nat \ {0}
  BY EmptySeq, LenProperties DEF FieldLists
<1>2. \A i \in 1..Len(p) : p[i] \in Texts
  BY <1>1, LenProperties
<1>3. ASSUME NEW t \in Texts PROVE [p EXCEPT ![Len(p)] = t] \in FieldLists
  <2> DEFINE q == [p EXCEPT ![Len(p)] = t]
  <2>1. Len(p) \in 1..Len(p)
    BY <1>1
  <2>2. q \in Seq(Texts) /\ Len(q) = Len(p)
    BY <1>1, <2>1, ExceptSeq
  <2> HIDE DEF q
  <2>3. q # << >>
    BY <1>1, <2>2
  <2> QED
    BY <2>2, <2>3 DEF FieldLists
<1> QED
  BY <1>1, <1>2, <1>3

(* A character extends the last field, and a comma begins another.          *)
LEMMA NextCharType ==
  ASSUME NEW p \in FieldLists, NEW c \in Bytes
  PROVE  NextChar(p, c) \in FieldLists
<1>1. p \in Seq(Texts) /\ Len(p) \in 1..Len(p) /\ p[Len(p)] \in Texts
  BY FieldListProperties DEF FieldLists
<1>2. CASE c = Comma
  <2>1. << >> \in Texts
    BY DEF Texts
  <2>2. Append(p, << >>) \in Seq(Texts) /\ Append(p, << >>) # << >>
    BY <1>1, <2>1, AppendProperties
  <2> QED
    BY <1>2, <2>2 DEF NextChar, FieldLists
<1>3. CASE c # Comma
  <2>1. Append(p[Len(p)], c) \in Texts
    BY <1>1, AppendProperties DEF Texts
  <2>2. [p EXCEPT ![Len(p)] = Append(p[Len(p)], c)] \in FieldLists
    BY <2>1, FieldListProperties
  <2>3. NextChar(p, c) = [p EXCEPT ![Len(p)] = Append(p[Len(p)], c)]
    BY <1>3 DEF NextChar
  <2> QED
    BY <2>2, <2>3
<1> QED
  BY <1>2, <1>3

(* The loop over the characters.                                            *)
LEMMA SplitLoop ==
  ASSUME NEW s \in Texts
  PROVE  \E f : SplitBy(f, s)
<1> DEFINE n == Len(s)
           x0 == << << >> >>
           c == CHOOSE f : SplitsTo(f, s)
           step == [k \in Nat |-> [d \in FieldLists |-> IF k \in 1..n THEN NextChar(d, s[k]) ELSE d]]
<1>1. n \in Nat /\ \A k \in 1..n : s[k] \in Bytes
  BY LenProperties DEF Texts
<1>2. x0 \in FieldLists
  <2>1. << >> \in Texts
    BY DEF Texts
  <2> HIDE DEF Texts
  <2>2. << << >> >> \in Seq(Texts) /\ << << >> >> # << >>
    BY <2>1
  <2> QED
    BY <2>2 DEF FieldLists
<1> HIDE DEF n, x0
<1>3. \A k \in 1..n, d \in FieldLists : NextChar(d, s[k]) \in FieldLists
  BY <1>1, NextCharType
<1>4. step \in StepsOn(FieldLists)
  <2>1. \A k \in Nat : [d \in FieldLists |-> IF k \in 1..n THEN NextChar(d, s[k]) ELSE d]
                         \in [FieldLists -> FieldLists]
    BY <1>3
  <2> QED
    BY <2>1 DEF StepsOn
<1>5. PICK h : h \in [0..n -> FieldLists] /\ \A k \in 0..n : h[k] = IF k = 0 THEN x0 ELSE step[k][h[k - 1]]
  <2> HIDE DEF step
  <2>1. PICK h : LoopsTo(h, n, FieldLists, x0, step)
    BY <1>1, <1>2, <1>4, LoopFrom
  <2> QED
    BY <2>1 DEF LoopsTo
<1>6. ASSUME NEW k \in 0..n PROVE h[k] = IF k = 0 THEN x0 ELSE NextChar(h[k - 1], s[k])
  <2>1. CASE k = 0
    <3> HIDE DEF step
    <3> QED
      BY <1>5, <2>1
  <2>2. CASE k # 0
    <3>1. k - 1 \in 0..n /\ k \in Nat /\ k \in 1..n
      BY <1>1, <2>2
    <3>2. h[k - 1] \in FieldLists /\ h[k] = step[k][h[k - 1]]
      <4> HIDE DEF step
      <4> QED
        BY <1>5, <2>2, <3>1
    <3>3. step[k][h[k - 1]] = NextChar(h[k - 1], s[k])
      BY <3>1, <3>2
    <3> QED
      BY <2>2, <3>2, <3>3
  <2> QED
    BY <2>1, <2>2
<1> HIDE DEF step
<1>7. SplitsTo(h, s)
  <2>1. h = [k \in 0..n |-> h[k]]
    BY <1>5
  <2>2. h = [k \in 0..n |-> IF k = 0 THEN x0 ELSE NextChar(h[k - 1], s[k])]
    BY <1>6, <2>1
  <2> QED
    BY <2>2 DEF SplitsTo, n, x0
<1>8. SplitsTo(c, s)
  BY <1>7
<1> HIDE DEF c
<1>9. c = [k \in 0..n |-> IF k = 0 THEN x0 ELSE NextChar(c[k - 1], s[k])]
  BY <1>8 DEF SplitsTo, n, x0
<1>10. c[0] = x0 /\ \A k \in 1..n : c[k] = NextChar(c[k - 1], s[k])
  <2>1. c[0] = x0
    BY <1>1, <1>9
  <2>2. ASSUME NEW k \in 1..n PROVE c[k] = NextChar(c[k - 1], s[k])
    <3>1. k \in 0..n /\ k # 0
      OBVIOUS
    <3> QED
      BY <1>9, <3>1
  <2> QED
    BY <2>1, <2>2
<1>11. \A k \in 0..n : c[k] = h[k]
  <2>1. ASSUME NEW k \in 0..n - 1, c[k] = h[k] PROVE c[k + 1] = h[k + 1]
    <3>1. k + 1 \in 1..n /\ (k + 1) - 1 = k /\ k + 1 \in 0..n /\ k + 1 # 0
      BY <1>1
    <3>2. c[k + 1] = NextChar(c[(k + 1) - 1], s[k + 1]) /\ h[k + 1] = NextChar(h[(k + 1) - 1], s[k + 1])
      BY <1>6, <1>10, <3>1
    <3> QED
      BY <2>1, <3>1, <3>2
  <2>2. c[0] = h[0]
    <3>1. 0 \in 0..n
      BY <1>1
    <3> QED
      BY <1>6, <1>10, <3>1
  <2> QED
    BY <1>1, <2>1, <2>2, SameLoop
<1>12. splitFields(s) = c[n]
  BY DEF splitFields, SplitsTo, c, n
<1>13. SplitBy(c, s)
  BY <1>5, <1>10, <1>11, <1>12 DEF SplitBy, n, x0
<1> QED
  BY <1>13

(* Splitting goes on from where it is.                                      *)
LEMMA SplitAppend ==
  /\ splitFields(<< >>) = << << >> >>
  /\ \A s \in Texts : splitFields(s) \in FieldLists
  /\ \A s \in Texts, c \in Bytes : splitFields(Append(s, c)) = NextChar(splitFields(s), c)
<1>1. splitFields(<< >>) = << << >> >>
  <2>1. << >> \in Texts
    BY DEF Texts
  <2>2. PICK f : SplitBy(f, << >>)
    BY <2>1, SplitLoop
  <2>3. Len(<< >>) = 0
    OBVIOUS
  <2> QED
    BY <2>2, <2>3 DEF SplitBy
<1>2. ASSUME NEW s \in Texts PROVE splitFields(s) \in FieldLists
  <2>1. PICK f : SplitBy(f, s)
    BY SplitLoop
  <2>2. Len(s) \in 0..Len(s)
    BY LenProperties DEF Texts
  <2> QED
    BY <2>1, <2>2 DEF SplitBy
<1>3. ASSUME NEW s \in Texts, NEW c \in Bytes PROVE splitFields(Append(s, c)) = NextChar(splitFields(s), c)
  <2> DEFINE n == Len(s)
             t == Append(s, c)
  <2>1. n \in Nat /\ t \in Texts /\ Len(t) = n + 1 /\ t[n + 1] = c /\ \A k \in 1..n : t[k] = s[k]
    BY AppendProperties, LenProperties DEF Texts
  <2> HIDE DEF t
  <2>2. PICK f : SplitBy(f, s)
    BY SplitLoop
  <2>3. PICK g : SplitBy(g, t)
    BY <2>1, SplitLoop
  <2>4. /\ f[0] = << << >> >> /\ splitFields(s) = f[n] /\ \A k \in 1..n : f[k] = NextChar(f[k - 1], s[k])
        /\ g[0] = << << >> >> /\ splitFields(t) = g[n + 1] /\ \A k \in 1..n + 1 : g[k] = NextChar(g[k - 1], t[k])
    BY <2>1, <2>2, <2>3 DEF SplitBy
  <2> HIDE DEF n
  <2>5. ASSUME NEW k \in 0..n - 1, f[k] = g[k] PROVE f[k + 1] = g[k + 1]
    <3>1. k + 1 \in 1..n /\ k + 1 \in 1..n + 1 /\ (k + 1) - 1 = k
      BY <2>1
    <3>2. f[k + 1] = NextChar(f[(k + 1) - 1], s[k + 1]) /\ g[k + 1] = NextChar(g[(k + 1) - 1], t[k + 1])
      BY <2>4, <3>1
    <3> QED
      BY <2>1, <2>5, <3>1, <3>2
  <2>6. f[0] = g[0]
    BY <2>4
  <2>7. \A k \in 0..n : f[k] = g[k]
    BY <2>1, <2>5, <2>6, SameLoop
  <2>8. n \in 0..n /\ n + 1 \in 1..n + 1 /\ (n + 1) - 1 = n
    BY <2>1
  <2>9. g[n + 1] = NextChar(g[(n + 1) - 1], t[n + 1]) /\ f[n] = g[n]
    BY <2>4, <2>7, <2>8
  <2>10. splitFields(t) = NextChar(splitFields(s), c)
    BY <2>1, <2>4, <2>8, <2>9
  <2> QED
    BY <2>10 DEF t
<1> QED
  BY <1>1, <1>2, <1>3

(* One more element of w behind t.                                          *)
LEMMA PrefixGrows ==
  ASSUME NEW S, NEW t \in Seq(S), NEW w \in Seq(S), NEW j \in 0..Len(w) - 1
  PROVE  /\ t \o SubSeq(w, 1, j) \in Seq(S) /\ w[j + 1] \in S
         /\ t \o SubSeq(w, 1, j + 1) = Append(t \o SubSeq(w, 1, j), w[j + 1])
<1> DEFINE u == SubSeq(w, 1, j)
           x == w[j + 1]
<1>1. Len(w) \in Nat /\ j \in Nat /\ j + 1 \in 1..Len(w) /\ 1 \in 1..Len(w) /\ (j + 1) - 1 = j
  BY LenProperties
<1>2. x \in S /\ \A i \in 1..j : w[i] \in S
  BY <1>1, LenProperties
<1>3. u \in Seq(S)
  BY <1>1, <1>2, SubSeqProperties
<1>4. SubSeq(w, 1, j + 1) = u \o << x >>
  <2>1. SubSeq(w, 1, j + 1) = SubSeq(w, 1, (j + 1) - 1) \o << x >>
    BY <1>1, SubSeqRecursiveSecond
  <2> QED
    BY <1>1, <2>1
<1> HIDE DEF u, x
<1>5. t \o u \in Seq(S) /\ << x >> \in Seq(S)
  BY <1>2, <1>3, ConcatProperties
<1>6. Append(t \o u, x) = (t \o u) \o << x >>
  <2> DEFINE v == t \o u
  <2>1. v \in Seq(S)
    BY <1>5
  <2> HIDE DEF v
  <2>2. Append(v, x) = v \o << x >>
    BY <1>2, <2>1, AppendIsConcat
  <2> QED
    BY <2>2 DEF v
<1>7. (t \o u) \o << x >> = t \o (u \o << x >>)
  <2> DEFINE v == << x >>
  <2>1. v \in Seq(S)
    BY <1>5
  <2> HIDE DEF v
  <2>2. (t \o u) \o v = t \o (u \o v)
    BY <1>3, <2>1, ConcatAssociative
  <2> QED
    BY <2>2 DEF v
<1> QED
  BY <1>2, <1>4, <1>5, <1>6, <1>7 DEF u, x

(* Without a comma, the last field grows.                                   *)
LEMMA SplitField ==
  ASSUME NEW t \in Texts, NEW w \in Plain, NEW p, p = splitFields(t)
  PROVE  t \o w \in Texts /\ splitFields(t \o w) = [p EXCEPT ![Len(p)] = p[Len(p)] \o w]
<1> DEFINE n == Len(p)
           last == p[n]
           u(j) == t \o SubSeq(w, 1, j)
           x(j) == last \o SubSeq(w, 1, j)
<1>1. /\ w \in Texts /\ Len(w) \in Nat /\ \A j \in 1..Len(w) : w[j] \in Bytes /\ w[j] # Comma
      /\ SubSeq(w, 1, 0) = << >> /\ SubSeq(w, 1, Len(w)) = w
  <2>1. w \in Seq((1..Byte - 1) \ {Comma})
    BY DEF Plain
  <2>2. (1..Byte - 1) \ {Comma} \subseteq Bytes
    BY Sizes DEF Bytes
  <2>3. w \in Texts
    BY <2>1, <2>2, SeqMonotonic DEF Texts
  <2>4. Len(w) \in Nat /\ \A j \in 1..Len(w) : w[j] \in (1..Byte - 1) \ {Comma}
    BY <2>1, LenProperties
  <2>5. SubSeq(w, 1, 0) = << >>
    BY SubSeqEmpty
  <2>6. SubSeq(w, 1, Len(w)) = w
    BY <2>1, SubSeqFull
  <2> QED
    BY <2>2, <2>3, <2>4, <2>5, <2>6
<1>2. p \in FieldLists /\ n \in Nat \ {0} /\ last \in Texts /\ p \in Seq(Texts)
  <2>1. p \in FieldLists
    BY SplitAppend
  <2>2. n \in Nat \ {0} /\ \A i \in 1..n : p[i] \in Texts
    BY <2>1, FieldListProperties
  <2> QED
    BY <2>1, <2>2 DEF FieldLists
<1> HIDE DEF n, last
<1> DEFINE S == {j \in Nat : splitFields(u(j)) = [p EXCEPT ![n] = x(j)]}
<1>3. 0 \in S
  <2>1. u(0) = t /\ x(0) = last
    BY <1>1, <1>2, ConcatEmptySeq DEF Texts
  <2>2. [p EXCEPT ![n] = last] = p
    BY <1>2, LenProperties DEF last, n
  <2> QED
    BY <2>1, <2>2
<1>4. ASSUME NEW j \in 0..Len(w) - 1, j \in S PROVE j + 1 \in S
  <2>1. j \in Nat /\ j + 1 \in Nat /\ j + 1 \in 1..Len(w)
    BY <1>1
  <2> DEFINE c == w[j + 1]
             a == u(j)
             b == x(j)
             q == [p EXCEPT ![n] = b]
  <2>2. a \in Texts /\ u(j + 1) = Append(a, c)
    BY <1>1, PrefixGrows DEF Texts
  <2>3. b \in Texts /\ x(j + 1) = Append(b, c)
    BY <1>1, <1>2, PrefixGrows DEF Texts
  <2>4. c \in Bytes /\ c # Comma
    BY <1>1, <2>1
  <2>5. splitFields(a) = q
    BY <1>4
  <2> HIDE DEF a, b, c, u, x
  <2>6. splitFields(Append(a, c)) = NextChar(q, c)
    BY <2>2, <2>4, <2>5, SplitAppend
  <2>7. Len(q) = n /\ q[n] = b /\ [q EXCEPT ![n] = Append(b, c)] = [p EXCEPT ![n] = Append(b, c)]
    <3>1. n \in 1..Len(p) /\ n = Len(p)
      BY <1>2 DEF n
    <3>2. Len(q) = n /\ q[n] = b
      BY <1>2, <2>3, <3>1, ExceptSeq
    <3>3. [q EXCEPT ![n] = Append(b, c)] = [p EXCEPT ![n] = Append(b, c)]
      OBVIOUS
    <3> QED
      BY <3>2, <3>3
  <2> HIDE DEF q
  <2>8. NextChar(q, c) = [q EXCEPT ![n] = Append(b, c)]
    BY <2>4, <2>7 DEF NextChar
  <2>9. splitFields(u(j + 1)) = [p EXCEPT ![n] = x(j + 1)]
    BY <2>2, <2>3, <2>6, <2>7, <2>8
  <2> QED
    BY <2>1, <2>9
<1>5. 0..Len(w) \subseteq S
  <2> HIDE DEF S
  <2> QED
    BY <1>1, <1>3, <1>4, CountingUp
<1>6. Len(w) \in 0..Len(w)
  BY <1>1
<1>7. splitFields(u(Len(w))) = [p EXCEPT ![n] = x(Len(w))]
  BY <1>5, <1>6
<1>8. u(Len(w)) = t \o w /\ x(Len(w)) = last \o w
  BY <1>1
<1>9. t \o w \in Texts
  BY <1>1, ConcatProperties DEF Texts
<1> HIDE DEF u, x
<1> QED
  BY <1>7, <1>8, <1>9 DEF n, last

JoinsTo(f, fields) ==
  f = [k \in 1..Len(fields) |-> IF k = 1 THEN fields[1] ELSE f[k - 1] \o << Comma >> \o fields[k]]
JoinedBy(f, fields) ==
  /\ f[1] = fields[1] /\ Joined(fields) = f[Len(fields)]
  /\ \A k \in 2..Len(fields) : f[k] = Append(f[k - 1], Comma) \o fields[k]
  /\ \A k \in 1..Len(fields) : f[k] \in Texts

(* What can be a field is a text.                                           *)
LEMMA PlainTexts ==
  Plain \subseteq Texts /\ Comma \in Bytes
<1>1. (1..Byte - 1) \ {Comma} \subseteq Bytes
  BY Sizes DEF Bytes
<1>2. ASSUME NEW w \in Plain PROVE w \in Texts
  BY <1>1, SeqMonotonic DEF Texts, Plain
<1>3. Comma \in Bytes
  BY TextAssumption, Sizes DEF Comma, Bytes
<1> QED
  BY <1>2, <1>3

(* The loop over the fields.                                                *)
LEMMA JoinLoop ==
  ASSUME NEW fields \in Seq(Plain), fields # << >>
  PROVE  \E f : JoinedBy(f, fields)
<1> DEFINE n == Len(fields)
           x0 == fields[1]
           c == CHOOSE f : JoinsTo(f, fields)
           step == [k \in Nat |-> [d \in Texts |-> IF k \in 1..n - 1 THEN d \o << Comma >> \o fields[k + 1] ELSE d]]
<1>1. n \in Nat \ {0} /\ n - 1 \in Nat /\ \A k \in 1..n : fields[k] \in Texts
  <2>1. n \in Nat \ {0} /\ \A k \in 1..n : fields[k] \in Plain
    BY EmptySeq, LenProperties
  <2> QED
    BY <2>1, PlainTexts
<1>2. x0 \in Texts
  BY <1>1
<1> HIDE DEF n, x0
<1>3. \A d \in Texts, e \in Texts :
        d \o << Comma >> \o e \in Texts /\ d \o << Comma >> \o e = Append(d, Comma) \o e
  <2>1. ASSUME NEW d \in Texts, NEW e \in Texts
        PROVE  d \o << Comma >> \o e \in Texts /\ d \o << Comma >> \o e = Append(d, Comma) \o e
    <3>1. Append(d, Comma) = d \o << Comma >> /\ Append(d, Comma) \in Texts
      BY PlainTexts, AppendIsConcat, AppendProperties DEF Texts
    <3>2. Append(d, Comma) \o e \in Texts
      BY <3>1, ConcatProperties DEF Texts
    <3> QED
      BY <3>1, <3>2
  <2> QED
    BY <2>1
<1>4. \A k \in 1..n - 1, d \in Texts : d \o << Comma >> \o fields[k + 1] \in Texts
  <2>1. \A k \in 1..n - 1 : k + 1 \in 1..n
    BY <1>1
  <2> QED
    BY <1>1, <1>3, <2>1
<1>5. step \in StepsOn(Texts)
  <2>1. \A k \in Nat : [d \in Texts |-> IF k \in 1..n - 1 THEN d \o << Comma >> \o fields[k + 1] ELSE d]
                         \in [Texts -> Texts]
    BY <1>4
  <2> QED
    BY <2>1 DEF StepsOn
<1>6. PICK g : g \in [0..n - 1 -> Texts] /\ \A k \in 0..n - 1 : g[k] = IF k = 0 THEN x0 ELSE step[k][g[k - 1]]
  <2> HIDE DEF step
  <2>1. PICK g : LoopsTo(g, n - 1, Texts, x0, step)
    BY <1>1, <1>2, <1>5, LoopFrom
  <2> QED
    BY <2>1 DEF LoopsTo
<1> DEFINE h == [k \in 1..n |-> g[k - 1]]
<1>7. ASSUME NEW k \in 1..n
      PROVE  h[k] \in Texts /\ h[k] = IF k = 1 THEN x0 ELSE h[k - 1] \o << Comma >> \o fields[k]
  <2>1. k - 1 \in 0..n - 1 /\ h[k] = g[k - 1]
    BY <1>1
  <2>2. h[k] \in Texts
    <3> HIDE DEF step, h
    <3> QED
      BY <1>6, <2>1
  <2>3. CASE k = 1
    <3>1. 0 \in 0..n - 1 /\ k - 1 = 0
      BY <1>1, <2>3
    <3> HIDE DEF step, h
    <3>2. g[0] = x0
      BY <1>6, <3>1
    <3> QED
      BY <2>1, <2>2, <2>3, <3>1, <3>2
  <2>4. CASE k # 1
    <3>1. /\ k - 1 \in 1..n /\ k - 1 \in Nat /\ k - 1 \in 1..n - 1 /\ k - 1 # 0
          /\ (k - 1) + 1 = k /\ (k - 1) - 1 \in 0..n - 1
      BY <1>1, <2>4
    <3>2. h[k - 1] = g[(k - 1) - 1]
      BY <3>1
    <3>3. g[(k - 1) - 1] \in Texts /\ g[k - 1] = step[k - 1][g[(k - 1) - 1]]
      <4> HIDE DEF step, h
      <4> QED
        BY <1>6, <2>1, <3>1
    <3> HIDE DEF h
    <3>4. step[k - 1][g[(k - 1) - 1]] = g[(k - 1) - 1] \o << Comma >> \o fields[k]
      BY <3>1, <3>3
    <3> QED
      BY <2>1, <2>2, <2>4, <3>2, <3>3, <3>4
  <2> QED
    BY <2>3, <2>4
<1>8. h = [k \in 1..n |-> h[k]]
  OBVIOUS
<1> HIDE DEF step, h
<1>9. JoinsTo(h, fields)
  <2>1. h = [k \in 1..n |-> IF k = 1 THEN x0 ELSE h[k - 1] \o << Comma >> \o fields[k]]
    BY <1>7, <1>8
  <2> QED
    BY <2>1 DEF JoinsTo, n, x0
<1>10. JoinsTo(c, fields)
  BY <1>9
<1> HIDE DEF c
<1>11. c = [k \in 1..n |-> IF k = 1 THEN x0 ELSE c[k - 1] \o << Comma >> \o fields[k]]
  BY <1>10 DEF JoinsTo, n, x0
<1>12. c[1] = x0 /\ \A k \in 2..n : c[k] = c[k - 1] \o << Comma >> \o fields[k]
  <2>1. 1 \in 1..n
    BY <1>1
  <2>2. ASSUME NEW k \in 2..n PROVE c[k] = c[k - 1] \o << Comma >> \o fields[k]
    <3>1. k \in 1..n /\ k # 1
      BY <1>1
    <3> QED
      BY <1>11, <3>1
  <2> QED
    BY <1>11, <2>1, <2>2
<1>13. \A k \in 1..n : c[k] \in Texts
  <2> DEFINE S == {k \in Nat : c[k + 1] \in Texts}
  <2>1. 0 \in S
    <3>1. 0 + 1 = 1
      OBVIOUS
    <3> QED
      BY <1>2, <1>12, <3>1
  <2>2. ASSUME NEW k \in 0..(n - 1) - 1, k \in S PROVE k + 1 \in S
    <3>1. /\ k + 1 \in 1..n - 1 /\ (k + 1) + 1 \in 2..n /\ ((k + 1) + 1) - 1 = k + 1
          /\ (k + 1) + 1 \in 1..n /\ k + 1 \in Nat
      BY <1>1
    <3>2. c[(k + 1) + 1] = c[k + 1] \o << Comma >> \o fields[(k + 1) + 1]
      BY <1>12, <3>1
    <3>3. c[(k + 1) + 1] \in Texts
      BY <1>1, <1>3, <2>2, <3>1, <3>2
    <3> QED
      BY <3>1, <3>3
  <2> HIDE DEF S
  <2>3. 0..n - 1 \subseteq S
    BY <1>1, <2>1, <2>2, CountingUp
  <2>4. ASSUME NEW k \in 1..n PROVE c[k] \in Texts
    <3>1. k - 1 \in 0..n - 1 /\ (k - 1) + 1 = k
      BY <1>1
    <3>2. k - 1 \in S
      BY <2>3, <3>1
    <3> QED
      BY <3>1, <3>2 DEF S
  <2> QED
    BY <2>4
<1>14. \A k \in 2..n : c[k] = Append(c[k - 1], Comma) \o fields[k]
  <2>1. ASSUME NEW k \in 2..n PROVE c[k] = Append(c[k - 1], Comma) \o fields[k]
    <3>1. k \in 1..n /\ k - 1 \in 1..n
      BY <1>1
    <3>2. c[k - 1] \in Texts /\ fields[k] \in Texts
      BY <1>1, <1>13, <3>1
    <3> QED
      BY <1>3, <1>12, <3>2
  <2> QED
    BY <2>1
<1>15. Joined(fields) = c[n]
  BY DEF Joined, JoinsTo, c, n
<1>16. JoinedBy(c, fields)
  BY <1>12, <1>13, <1>14, <1>15 DEF JoinedBy, n, x0
<1> QED
  BY <1>16

(* Fields without commas are found again in their join                      *)
(* (auth_server.cpp:95-107, 170-179).                                       *)
THEOREM SplitsWhatWasJoined ==
  \A fields \in Seq(Plain) :
    fields # << >> => Joined(fields) \in Texts /\ splitFields(Joined(fields)) = fields
<1> SUFFICES ASSUME NEW fields \in Seq(Plain), fields # << >>
             PROVE  Joined(fields) \in Texts /\ splitFields(Joined(fields)) = fields
  OBVIOUS
<1> DEFINE n == Len(fields)
           to(k) == SubSeq(fields, 1, k)
<1>1. n \in Nat \ {0} /\ n - 1 \in Nat /\ \A k \in 1..n : fields[k] \in Plain /\ fields[k] \in Texts
  <2>1. n \in Nat \ {0} /\ \A k \in 1..n : fields[k] \in Plain
    BY EmptySeq, LenProperties
  <2> QED
    BY <2>1, PlainTexts
<1>2. PICK f : /\ f[1] = fields[1] /\ Joined(fields) = f[n]
               /\ \A k \in 2..n : f[k] = Append(f[k - 1], Comma) \o fields[k]
               /\ \A k \in 1..n : f[k] \in Texts
  BY JoinLoop DEF JoinedBy
<1>3. fields \in Seq(Texts)
  BY PlainTexts, SeqMonotonic
<1>4. to(n) = fields
  BY SubSeqFull
<1> HIDE DEF n
<1>5. to(1) = << fields[1] >>
  <2>1. 1 \in 1..Len(fields)
    BY <1>1 DEF n
  <2>2. SubSeq(fields, 1, 1) = SubSeq(fields, 1, 1 - 1) \o << fields[1] >>
    BY <1>3, <2>1, SubSeqRecursiveSecond
  <2>3. SubSeq(fields, 1, 1 - 1) = << >>
    BY SubSeqEmpty
  <2>4. << fields[1] >> \in Seq(Texts)
    BY <1>1
  <2>5. << >> \o << fields[1] >> = << fields[1] >>
    BY <2>4, ConcatEmptySeq
  <2> QED
    BY <2>2, <2>3, <2>5
<1>6. ASSUME NEW k \in 1..n - 1
      PROVE  to(k) \in Seq(Texts) /\ Len(to(k)) = k /\ to(k + 1) = Append(to(k), fields[k + 1])
  <2>1. k \in 0..Len(fields) - 1 /\ k \in Nat /\ k <= Len(fields) /\ k + 1 \in 1..n
    BY <1>1 DEF n
  <2>2. \A i \in 1..k : fields[i] \in Texts
    BY <1>1, <2>1 DEF n
  <2>3. to(k) \in Seq(Texts) /\ Len(to(k)) = k
    BY <2>1, <2>2, SubSeqProperties
  <2>4. << >> \in Seq(Texts)
    OBVIOUS
  <2>5. << >> \o SubSeq(fields, 1, k + 1) = Append(<< >> \o SubSeq(fields, 1, k), fields[k + 1])
    BY <1>3, <2>1, <2>4, PrefixGrows
  <2>6. SubSeq(fields, 1, k + 1) \in Seq(Texts)
    <3>1. \A i \in 1..k + 1 : fields[i] \in Texts
      BY <1>1, <2>1 DEF n
    <3> QED
      BY <2>1, <3>1, SubSeqProperties
  <2> QED
    BY <2>3, <2>5, <2>6, ConcatEmptySeq
<1> DEFINE S == {k \in Nat : splitFields(f[k + 1]) = to(k + 1)}
<1>7. 0 \in S
  <2>1. << >> \in Texts /\ fields[1] \in Plain /\ fields[1] \in Seq(Bytes)
    BY <1>1 DEF Texts
  <2>2. splitFields(<< >> \o fields[1]) = [<< << >> >> EXCEPT ![Len(<< << >> >>)] = << << >> >>[Len(<< << >> >>)] \o fields[1]]
    <3> DEFINE p == << << >> >>
    <3>1. p = splitFields(<< >>)
      BY SplitAppend
    <3> HIDE DEF p
    <3>2. splitFields(<< >> \o fields[1]) = [p EXCEPT ![Len(p)] = p[Len(p)] \o fields[1]]
      BY <2>1, <3>1, SplitField
    <3> QED
      BY <3>2 DEF p
  <2>3. << >> \o fields[1] = fields[1]
    BY <2>1, ConcatEmptySeq
  <2>4. splitFields(fields[1]) = << fields[1] >>
    <3>1. Len(<< << >> >>) = 1 /\ << << >> >>[1] = << >>
      OBVIOUS
    <3>2. splitFields(fields[1]) = [<< << >> >> EXCEPT ![1] = fields[1]]
      BY <2>2, <2>3, <3>1
    <3>3. [<< << >> >> EXCEPT ![1] = fields[1]] = << fields[1] >>
      OBVIOUS
    <3> QED
      BY <3>2, <3>3
  <2>5. 0 + 1 = 1
    OBVIOUS
  <2> HIDE DEF to
  <2> QED
    BY <1>2, <1>5, <2>4, <2>5
<1>8. ASSUME NEW j \in 0..(n - 1) - 1, j \in S PROVE j + 1 \in S
  <2> DEFINE k == j + 1
             p == to(k)
             w == fields[k + 1]
             q == Append(p, << >>)
  <2>1. k \in 1..n - 1 /\ k \in Nat /\ k \in 1..n /\ k + 1 \in 1..n /\ k + 1 \in 2..n /\ (k + 1) - 1 = k
    BY <1>1
  <2>2. splitFields(f[k]) = p
    BY <1>8
  <2> HIDE DEF k
  <2>3. p \in Seq(Texts) /\ Len(p) = k /\ to(k + 1) = Append(p, w) /\ w \in Plain /\ w \in Texts
    BY <1>1, <1>6, <2>1
  <2> HIDE DEF p, w, to
  <2>4. Append(f[k], Comma) \in Texts /\ splitFields(Append(f[k], Comma)) = q
    <3>1. f[k] \in Texts /\ Comma \in Bytes
      BY <1>2, <2>1, PlainTexts
    <3>2. splitFields(Append(f[k], Comma)) = NextChar(p, Comma)
      BY <2>2, <3>1, SplitAppend
    <3>3. Append(f[k], Comma) \in Texts
      BY <3>1, AppendProperties DEF Texts
    <3> QED
      BY <3>2, <3>3 DEF NextChar
  <2>5. << >> \in Texts /\ q \in Seq(Texts) /\ Len(q) = k + 1 /\ q[k + 1] = << >> /\ \A i \in 1..k : q[i] = p[i]
    <3>1. << >> \in Texts
      BY DEF Texts
    <3> QED
      BY <2>3, <3>1, AppendProperties
  <2> HIDE DEF q
  <2>6. splitFields(f[k + 1]) = [q EXCEPT ![k + 1] = w]
    <3>1. f[k + 1] = Append(f[k], Comma) \o w
      BY <1>2, <2>1 DEF w
    <3>2. splitFields(f[k + 1]) = [q EXCEPT ![Len(q)] = q[Len(q)] \o w]
      <4> DEFINE v == Append(f[k], Comma)
      <4>1. v \in Texts /\ q = splitFields(v) /\ f[k + 1] = v \o w
        BY <2>4, <3>1
      <4> HIDE DEF v
      <4>2. splitFields(v \o w) = [q EXCEPT ![Len(q)] = q[Len(q)] \o w]
        BY <2>3, <4>1, SplitField
      <4> QED
        BY <4>1, <4>2
    <3>3. << >> \o w = w
      BY <2>3, ConcatEmptySeq DEF Texts
    <3> QED
      BY <2>5, <3>2, <3>3
  <2>7. [q EXCEPT ![k + 1] = w] = Append(p, w)
    <3> DEFINE a == [q EXCEPT ![k + 1] = w]
               b == Append(p, w)
    <3>1. k + 1 \in 1..Len(q)
      BY <2>1, <2>5
    <3>2. a \in Seq(Texts) /\ Len(a) = k + 1 /\ \A i \in 1..k + 1 : a[i] = IF i = k + 1 THEN w ELSE q[i]
      BY <2>3, <2>5, <3>1, ExceptSeq
    <3>3. b \in Seq(Texts) /\ Len(b) = k + 1 /\ b[k + 1] = w /\ \A i \in 1..k : b[i] = p[i]
      BY <2>3, AppendProperties
    <3> HIDE DEF a, b
    <3>4. ASSUME NEW i \in 1..k + 1 PROVE a[i] = b[i]
      <4>1. i = k + 1 \/ (i # k + 1 /\ i \in 1..k)
        BY <2>1
      <4> QED
        BY <2>5, <3>2, <3>3, <4>1
    <3>5. a = b
      BY <3>2, <3>3, <3>4, SeqEqual
    <3> QED
      BY <3>5 DEF a, b
  <2>8. splitFields(f[k + 1]) = to(k + 1)
    BY <2>3, <2>6, <2>7
  <2> QED
    BY <2>1, <2>8 DEF k
<1>9. 0..n - 1 \subseteq S
  <2> HIDE DEF S
  <2> QED
    BY <1>1, <1>7, <1>8, CountingUp
<1>10. n - 1 \in 0..n - 1 /\ (n - 1) + 1 = n /\ n \in 1..n
  BY <1>1
<1>11. splitFields(f[(n - 1) + 1]) = to((n - 1) + 1)
  BY <1>9, <1>10
<1> HIDE DEF to
<1> QED
  BY <1>2, <1>4, <1>10, <1>11

(* Sealed fields are read back, unless they were cut off.                   *)
LEMMA SealReadsBack ==
  ASSUME NEW fields \in Seq(Plain), fields # << >>, NEW x, x = Seal(fields)
  PROVE  /\ Len(x) \in Nat /\ Len(x) <= AUTH_DATA_LENGTH
         /\ Len(x) = AUTH_DATA_LENGTH => splitFields(DecryptAuthData(x)) = << << >> >>
         /\ Len(x) # AUTH_DATA_LENGTH => splitFields(DecryptAuthData(x)) = fields
<1> DEFINE t == Joined(fields)
<1>1. t \in Texts /\ splitFields(t) = fields
  BY SplitsWhatWasJoined
<1>2. x = strncpy(EncryptAuthData(t), AUTH_DATA_LENGTH)
  BY DEF Seal
<1> HIDE DEF t
<1> DEFINE y == strncpy(EncryptAuthData(t), AUTH_DATA_LENGTH)
<1>3. /\ Len(y) \in Nat /\ Len(y) <= AUTH_DATA_LENGTH
      /\ Len(y) = AUTH_DATA_LENGTH => DecryptAuthData(y) = << >>
      /\ Len(y) # AUTH_DATA_LENGTH => DecryptAuthData(y) = t
  BY <1>1, CutOrWhole
<1>4. x = y
  BY <1>2
<1> HIDE DEF y
<1> QED
  BY <1>1, <1>3, <1>4, SplitAppend

-----------------------------------------------------------------------------
DigitTexts == Seq(1..10)
NextDigits(f, k) == IF k < 10 THEN << k + 1 >> ELSE Append(f[k \div 10], (k % 10) + 1)
DigitsTo(f, n) == f = [k \in 0..n |-> IF k < 10 THEN << k + 1 >> ELSE Append(f[k \div 10], (k % 10) + 1)]
DigitsBy(f) == f \in [Nat -> DigitTexts] /\ \A k \in Nat : f[k] = NextDigits(f, k)

(* The digits of a number, given those of smaller ones.                     *)
LEMMA NextDigitsType ==
  ASSUME NEW f \in [Nat -> DigitTexts], NEW k \in Nat
  PROVE  NextDigits(f, k) \in DigitTexts /\ k \div 10 \in Nat /\ (k >= 10 => k \div 10 < k)
<1>1. k \div 10 \in Nat /\ (k % 10) + 1 \in 1..10 /\ (k >= 10 => k \div 10 < k)
  OBVIOUS
<1>2. CASE k < 10
  <2>1. k + 1 \in 1..10
    BY <1>2
  <2>2. << k + 1 >> \in DigitTexts
    BY <2>1 DEF DigitTexts
  <2> QED
    BY <1>1, <1>2, <2>2 DEF NextDigits
<1>3. CASE ~(k < 10)
  <2>1. f[k \div 10] \in DigitTexts
    BY <1>1
  <2>2. Append(f[k \div 10], (k % 10) + 1) \in DigitTexts
    BY <1>1, <2>1, AppendProperties DEF DigitTexts
  <2> QED
    BY <1>1, <1>3, <2>2 DEF NextDigits
<1> QED
  BY <1>2, <1>3

(* A table of the digits of every number: filled up number by number, it    *)
(* has what is looked up.                                                   *)
LEMMA DigitsExist == \E f : DigitsBy(f)
<1> DEFINE D == [Nat -> DigitTexts]
           step == [k \in Nat |-> [f \in D |-> [f EXCEPT ![k] = NextDigits(f, k)]]]
           x0 == [k \in Nat |-> << >>]
<1>1. x0 \in D
  <2>1. << >> \in DigitTexts
    BY DEF DigitTexts
  <2> QED
    BY <2>1
<1>2. step \in StepsOn(D)
  <2>1. \A k \in Nat, f \in D : [f EXCEPT ![k] = NextDigits(f, k)] \in D
    BY NextDigitsType
  <2> QED
    BY <2>1 DEF StepsOn
<1>3. PICK F : LoopRuns(F, D, x0, step)
  <2> HIDE DEF D, step, x0
  <2> QED
    BY <1>1, <1>2, Loop
<1>4. \A k \in Nat : F[k] \in [Nat -> DigitTexts] /\ F[k + 1] = [F[k] EXCEPT ![k] = NextDigits(F[k], k)]
  <2>1. \A k \in Nat : F[k] \in D /\ F[k + 1] = step[k][F[k]]
    <3> HIDE DEF D, step, x0
    <3> QED
      BY <1>3 DEF LoopRuns
  <2>2. ASSUME NEW k \in Nat PROVE step[k][F[k]] = [F[k] EXCEPT ![k] = NextDigits(F[k], k)]
    BY <2>1
  <2> HIDE DEF step
  <2> QED
    BY <2>1, <2>2
<1> HIDE DEF step, x0
<1> DEFINE g == [k \in Nat |-> F[k + 1][k]]
           S == {k \in Nat : \A j \in 0..k - 1 : F[k][j] = g[j]}
<1>5. S = Nat
  <2>1. 0 \in S
    OBVIOUS
  <2>2. ASSUME NEW k \in S PROVE k + 1 \in S
    <3>1. ASSUME NEW j \in 0..(k + 1) - 1 PROVE F[k + 1][j] = g[j]
      <4>1. CASE j = k
        BY <4>1
      <4>2. CASE j # k
        <5>1. j \in 0..k - 1 /\ j \in Nat /\ k \in Nat
          BY <4>2
        <5>2. F[k][j] = g[j]
          BY <5>1
        <5>3. F[k + 1][j] = F[k][j]
          BY <1>4, <4>2, <5>1
        <5> HIDE DEF g
        <5> QED
          BY <5>2, <5>3
      <4> QED
        BY <4>1, <4>2
    <3>2. k + 1 \in Nat
      OBVIOUS
    <3> QED
      BY <3>1, <3>2
  <2>3. S \in SUBSET Nat
    OBVIOUS
  <2> HIDE DEF S
  <2> QED
    BY <2>1, <2>2, <2>3, SetInduction
<1>6. ASSUME NEW k \in Nat PROVE g[k] \in DigitTexts /\ g[k] = NextDigits(g, k)
  <2>0. k + 1 \in Nat
    OBVIOUS
  <2>1. F[k] \in [Nat -> DigitTexts] /\ F[k + 1] = [F[k] EXCEPT ![k] = NextDigits(F[k], k)]
    BY <1>4
  <2>2. g[k] = NextDigits(F[k], k) /\ g[k] \in DigitTexts
    <3>1. g[k] = F[k + 1][k] /\ NextDigits(F[k], k) \in DigitTexts
      BY <2>1, NextDigitsType
    <3>2. F[k + 1][k] = NextDigits(F[k], k)
      BY <2>1
    <3> HIDE DEF g
    <3> QED
      BY <3>1, <3>2
  <2>3. k >= 10 => F[k][k \div 10] = g[k \div 10]
    <3>1. SUFFICES ASSUME k >= 10 PROVE F[k][k \div 10] = g[k \div 10]
      OBVIOUS
    <3>2. k \div 10 \in 0..k - 1
      BY <2>1, <3>1, NextDigitsType
    <3>3. k \in S
      BY <1>5
    <3> QED
      BY <3>2, <3>3
  <2> HIDE DEF g
  <2>4. k >= 10 \/ k < 10
    OBVIOUS
  <2> QED
    BY <2>2, <2>3, <2>4 DEF NextDigits
<1>7. g \in [Nat -> DigitTexts]
  <2>1. g = [k \in Nat |-> g[k]]
    OBVIOUS
  <2> HIDE DEF g
  <2> QED
    BY <1>6, <2>1
<1>8. DigitsBy(g)
  <2> HIDE DEF g
  <2> QED
    BY <1>6, <1>7 DEF DigitsBy
<1> QED
  BY <1>8

(* to_string() looks them up.                                               *)
LEMMA DigitByDigit ==
  \A n \in Nat :
    /\ to_string(n) \in DigitTexts
    /\ to_string(n) = IF n < 10 THEN << n + 1 >> ELSE Append(to_string(n \div 10), (n % 10) + 1)
<1>1. PICK d : d \in [Nat -> DigitTexts] /\ \A k \in Nat : d[k] = NextDigits(d, k)
  BY DigitsExist DEF DigitsBy
<1>2. ASSUME NEW n \in Nat PROVE to_string(n) = d[n]
  <2> DEFINE c == CHOOSE f : DigitsTo(f, n)
             h == [k \in 0..n |-> d[k]]
  <2>1. DigitsTo(h, n)
    <3>1. ASSUME NEW k \in 0..n
          PROVE  h[k] = IF k < 10 THEN << k + 1 >> ELSE Append(h[k \div 10], (k % 10) + 1)
      <4>1. k \in Nat /\ k \div 10 \in 0..n
        OBVIOUS
      <4>2. h[k] = d[k] /\ h[k \div 10] = d[k \div 10]
        BY <4>1
      <4> HIDE DEF h
      <4> QED
        BY <1>1, <4>1, <4>2 DEF NextDigits
    <3>2. h = [k \in 0..n |-> h[k]]
      OBVIOUS
    <3> HIDE DEF h
    <3>3. h = [k \in 0..n |-> IF k < 10 THEN << k + 1 >> ELSE Append(h[k \div 10], (k % 10) + 1)]
      BY <3>1, <3>2
    <3> QED
      BY <3>3 DEF DigitsTo
  <2>2. DigitsTo(c, n)
    <3> HIDE DEF h
    <3> QED
      BY <2>1
  <2> HIDE DEF c, h
  <2>3. c = [k \in 0..n |-> IF k < 10 THEN << k + 1 >> ELSE Append(c[k \div 10], (k % 10) + 1)]
    BY <2>2 DEF DigitsTo
  <2> DEFINE S == {k \in Nat : k <= n => c[k] = d[k]}
  <2>4. ASSUME NEW k \in Nat, 0..k - 1 \subseteq S PROVE k \in S
    <3>1. SUFFICES ASSUME k <= n PROVE c[k] = d[k]
      OBVIOUS
    <3>2. k \in 0..n
      BY <3>1
    <3>3. c[k] = IF k < 10 THEN << k + 1 >> ELSE Append(c[k \div 10], (k % 10) + 1)
      BY <2>3, <3>2
    <3>4. d[k] = IF k < 10 THEN << k + 1 >> ELSE Append(d[k \div 10], (k % 10) + 1)
      BY <1>1 DEF NextDigits
    <3>5. k >= 10 => c[k \div 10] = d[k \div 10]
      <4>1. SUFFICES ASSUME k >= 10 PROVE c[k \div 10] = d[k \div 10]
        OBVIOUS
      <4>2. k \div 10 \in 0..k - 1 /\ k \div 10 <= n
        BY <3>1, <4>1
      <4>3. k \div 10 \in S
        BY <2>4, <4>2
      <4> QED
        BY <4>2, <4>3
    <3>6. k >= 10 \/ k < 10
      OBVIOUS
    <3> QED
      BY <3>3, <3>4, <3>5, <3>6
  <2>5. n \in S
    <3> HIDE DEF S
    <3> QED
      BY <2>4, CountingFromBelow
  <2>6. c[n] = d[n]
    BY <2>5
  <2> QED
    BY <2>6 DEF to_string, DigitsTo, c
<1>3. ASSUME NEW n \in Nat
      PROVE  /\ to_string(n) \in DigitTexts
             /\ to_string(n) = IF n < 10 THEN << n + 1 >> ELSE Append(to_string(n \div 10), (n % 10) + 1)
  <2>1. n \div 10 \in Nat
    OBVIOUS
  <2>2. to_string(n) = d[n] /\ to_string(n \div 10) = d[n \div 10]
    BY <1>2, <2>1
  <2>3. d[n] \in DigitTexts /\ d[n] = IF n < 10 THEN << n + 1 >> ELSE Append(d[n \div 10], (n % 10) + 1)
    BY <1>1 DEF NextDigits
  <2> QED
    BY <2>2, <2>3
<1> QED
  BY <1>3

ValuesTo(f, s) ==
  f = [k \in 0..Len(s) |->
         IF k = 0 THEN 0
         ELSE IF \E j \in 1..k : s[j] \notin 1..10 THEN f[k - 1]
         ELSE 10 * f[k - 1] + s[k] - 1]
NextValue(v, s, k) == IF \E j \in 1..k : s[j] \notin 1..10 THEN v ELSE 10 * v + s[k] - 1
ValuedBy(f, s) ==
  /\ f[0] = 0 /\ atoi(s) = f[Len(s)]
  /\ \A k \in 1..Len(s) : f[k] = NextValue(f[k - 1], s, k)
  /\ \A k \in 0..Len(s) : f[k] \in Nat

(* The loop over the characters of a number.                                *)
LEMMA AtoiLoop ==
  ASSUME NEW s \in Texts
  PROVE  \E f : ValuedBy(f, s)
<1> DEFINE n == Len(s)
           c == CHOOSE f : ValuesTo(f, s)
           step == [k \in Nat |-> [v \in Nat |-> IF k \in 1..n THEN NextValue(v, s, k) ELSE v]]
<1>1. n \in Nat /\ \A k \in 1..n : s[k] \in Bytes
  BY LenProperties DEF Texts
<1> HIDE DEF n
<1>2. \A k \in 1..n, v \in Nat : NextValue(v, s, k) \in Nat
  <2>1. ASSUME NEW k \in 1..n, NEW v \in Nat PROVE NextValue(v, s, k) \in Nat
    <3>1. CASE \E j \in 1..k : s[j] \notin 1..10
      BY <3>1 DEF NextValue
    <3>2. CASE ~(\E j \in 1..k : s[j] \notin 1..10)
      <4>1. k \in 1..k
        BY <1>1
      <4>2. s[k] \in 1..10
        BY <3>2, <4>1
      <4>3. 10 * v + s[k] - 1 \in Nat
        BY <4>2
      <4> QED
        BY <3>2, <4>3 DEF NextValue
    <3> QED
      BY <3>1, <3>2
  <2> QED
    BY <2>1
<1>3. step \in StepsOn(Nat)
  <2>1. \A k \in Nat : [v \in Nat |-> IF k \in 1..n THEN NextValue(v, s, k) ELSE v] \in [Nat -> Nat]
    BY <1>2
  <2> QED
    BY <2>1 DEF StepsOn
<1>4. PICK h : h \in [0..n -> Nat] /\ \A k \in 0..n : h[k] = IF k = 0 THEN 0 ELSE step[k][h[k - 1]]
  <2> HIDE DEF step
  <2>1. 0 \in Nat
    OBVIOUS
  <2>2. PICK h : LoopsTo(h, n, Nat, 0, step)
    BY <1>1, <1>3, <2>1, LoopFrom
  <2> QED
    BY <2>2 DEF LoopsTo
<1>5. ASSUME NEW k \in 0..n PROVE h[k] = IF k = 0 THEN 0 ELSE NextValue(h[k - 1], s, k)
  <2>1. CASE k = 0
    <3> HIDE DEF step
    <3> QED
      BY <1>4, <2>1
  <2>2. CASE k # 0
    <3>1. k - 1 \in 0..n /\ k \in Nat /\ k \in 1..n
      BY <1>1, <2>2
    <3>2. h[k - 1] \in Nat /\ h[k] = step[k][h[k - 1]]
      <4> HIDE DEF step
      <4> QED
        BY <1>4, <2>2, <3>1
    <3>3. step[k][h[k - 1]] = NextValue(h[k - 1], s, k)
      BY <3>1, <3>2
    <3> QED
      BY <2>2, <3>2, <3>3
  <2> QED
    BY <2>1, <2>2
<1> HIDE DEF step
<1>6. ValuesTo(h, s)
  <2>1. h = [k \in 0..n |-> h[k]]
    BY <1>4
  <2>2. h = [k \in 0..n |-> IF k = 0 THEN 0 ELSE NextValue(h[k - 1], s, k)]
    BY <1>5, <2>1
  <2> QED
    BY <2>2 DEF ValuesTo, NextValue, n
<1>7. ValuesTo(c, s)
  BY <1>6
<1> HIDE DEF c
<1>8. c = [k \in 0..n |-> IF k = 0 THEN 0 ELSE NextValue(c[k - 1], s, k)]
  BY <1>7 DEF ValuesTo, NextValue, n
<1>9. c[0] = 0 /\ \A k \in 1..n : c[k] = NextValue(c[k - 1], s, k)
  <2>1. c[0] = 0
    BY <1>1, <1>8
  <2>2. ASSUME NEW k \in 1..n PROVE c[k] = NextValue(c[k - 1], s, k)
    <3>1. k \in 0..n /\ k # 0
      OBVIOUS
    <3> QED
      BY <1>8, <3>1
  <2> QED
    BY <2>1, <2>2
<1>10. \A k \in 0..n : c[k] = h[k]
  <2>1. ASSUME NEW k \in 0..n - 1, c[k] = h[k] PROVE c[k + 1] = h[k + 1]
    <3>1. k + 1 \in 1..n /\ (k + 1) - 1 = k /\ k + 1 \in 0..n /\ k + 1 # 0
      BY <1>1
    <3>2. c[k + 1] = NextValue(c[(k + 1) - 1], s, k + 1) /\ h[k + 1] = NextValue(h[(k + 1) - 1], s, k + 1)
      BY <1>5, <1>9, <3>1
    <3> QED
      BY <2>1, <3>1, <3>2
  <2>2. c[0] = h[0]
    <3>1. 0 \in 0..n
      BY <1>1
    <3> QED
      BY <1>5, <1>9, <3>1
  <2> QED
    BY <1>1, <2>1, <2>2, SameLoop
<1>11. atoi(s) = c[n]
  BY DEF atoi, ValuesTo, c, n
<1>12. ValuedBy(c, s)
  BY <1>4, <1>9, <1>10, <1>11 DEF ValuedBy, n
<1> QED
  BY <1>12

(* The value of a text is a number; another digit makes it ten times as     *)
(* much and the digit.                                                      *)
LEMMA AtoiAppend ==
  /\ \A s \in Texts : atoi(s) \in Nat
  /\ DigitTexts \subseteq Plain /\ << >> \in DigitTexts /\ atoi(<< >>) = 0
  /\ \A s \in DigitTexts, d \in 1..10 : atoi(Append(s, d)) = 10 * atoi(s) + d - 1
<1>1. ASSUME NEW s \in Texts PROVE atoi(s) \in Nat
  <2>1. PICK f : ValuedBy(f, s)
    BY AtoiLoop
  <2>2. Len(s) \in 0..Len(s)
    BY LenProperties DEF Texts
  <2> QED
    BY <2>1, <2>2 DEF ValuedBy
<1>2. DigitTexts \subseteq Plain
  <2>1. 1..10 \subseteq (1..Byte - 1) \ {Comma}
    BY TextAssumption, Sizes DEF Comma
  <2> QED
    BY <2>1, SeqMonotonic DEF DigitTexts, Plain
<1>3. << >> \in DigitTexts /\ atoi(<< >>) = 0
  <2>1. << >> \in DigitTexts /\ << >> \in Texts
    BY DEF DigitTexts, Texts
  <2>2. PICK f : ValuedBy(f, << >>)
    BY <2>1, AtoiLoop
  <2>3. Len(<< >>) = 0
    OBVIOUS
  <2> QED
    BY <2>1, <2>2, <2>3 DEF ValuedBy
<1>4. ASSUME NEW s \in DigitTexts, NEW d \in 1..10 PROVE atoi(Append(s, d)) = 10 * atoi(s) + d - 1
  <2> DEFINE n == Len(s)
             t == Append(s, d)
  <2>1. /\ n \in Nat /\ Len(t) = n + 1 /\ t[n + 1] = d
        /\ \A k \in 1..n : t[k] = s[k] /\ s[k] \in 1..10
    BY AppendProperties, LenProperties DEF DigitTexts
  <2>2. s \in Texts /\ t \in Texts
    <3>1. t \in DigitTexts
      BY AppendProperties DEF DigitTexts
    <3> QED
      BY <1>2, <3>1, PlainTexts
  <2> HIDE DEF t
  <2>3. PICK f : ValuedBy(f, s)
    BY <2>2, AtoiLoop
  <2>4. PICK g : ValuedBy(g, t)
    BY <2>2, AtoiLoop
  <2>5. /\ f[0] = 0 /\ atoi(s) = f[n] /\ \A k \in 1..n : f[k] = NextValue(f[k - 1], s, k)
        /\ g[0] = 0 /\ atoi(t) = g[n + 1] /\ \A k \in 1..n + 1 : g[k] = NextValue(g[k - 1], t, k)
    BY <2>1, <2>3, <2>4 DEF ValuedBy
  <2> HIDE DEF n
  <2>6. ASSUME NEW k \in 1..n + 1, NEW v PROVE NextValue(v, t, k) = 10 * v + t[k] - 1
    <3>1. \A j \in 1..k : t[j] \in 1..10
      <4>1. ASSUME NEW j \in 1..k PROVE t[j] \in 1..10
        <5>1. j \in 1..n \/ j = n + 1
          BY <2>1
        <5> QED
          BY <2>1, <5>1
      <4> QED
        BY <4>1
    <3> QED
      BY <3>1 DEF NextValue
  <2>7. ASSUME NEW k \in 1..n, NEW v PROVE NextValue(v, s, k) = 10 * v + s[k] - 1
    <3>1. \A j \in 1..k : s[j] \in 1..10
      BY <2>1
    <3> QED
      BY <3>1 DEF NextValue
  <2>8. ASSUME NEW k \in 0..n - 1, f[k] = g[k] PROVE f[k + 1] = g[k + 1]
    <3>1. k + 1 \in 1..n /\ k + 1 \in 1..n + 1 /\ (k + 1) - 1 = k
      BY <2>1
    <3>2. f[k + 1] = NextValue(f[(k + 1) - 1], s, k + 1) /\ g[k + 1] = NextValue(g[(k + 1) - 1], t, k + 1)
      BY <2>5, <3>1
    <3>3. f[k + 1] = 10 * f[k] + s[k + 1] - 1 /\ g[k + 1] = 10 * g[k] + t[k + 1] - 1
      BY <2>6, <2>7, <3>1, <3>2
    <3> QED
      BY <2>1, <2>8, <3>1, <3>3
  <2>9. \A k \in 0..n : f[k] = g[k]
    <3>1. n \in Nat /\ f[0] = g[0]
      BY <2>1, <2>5
    <3> QED
      BY <2>8, <3>1, SameLoop
  <2>10. n \in 0..n /\ n + 1 \in 1..n + 1 /\ (n + 1) - 1 = n
    BY <2>1
  <2>11. g[n + 1] = NextValue(g[(n + 1) - 1], t, n + 1)
    BY <2>5, <2>10
  <2>12. g[n + 1] = 10 * g[n] + t[n + 1] - 1
    BY <2>6, <2>10, <2>11
  <2>13. atoi(t) = 10 * atoi(s) + d - 1
    BY <2>1, <2>5, <2>9, <2>10, <2>12
  <2> QED
    BY <2>13 DEF t
<1> QED
  BY <1>1, <1>2, <1>3, <1>4

(* Numbers are read back, and their digits hold no comma                    *)
(* (auth_server.cpp:149-156, 170-179).                                      *)
THEOREM NumbersReadBack ==
  \A n \in Nat : to_string(n) \in Plain /\ atoi(to_string(n)) = n
<1> DEFINE S == {n \in Nat : atoi(to_string(n)) = n}
<1>1. ASSUME NEW n \in Nat, 0..n - 1 \subseteq S PROVE n \in S
  <2>1. CASE n < 10
    <3>1. to_string(n) = << n + 1 >> /\ n + 1 \in 1..10
      BY <2>1, DigitByDigit
    <3>2. Append(<< >>, n + 1) = << n + 1 >>
      OBVIOUS
    <3>3. atoi(Append(<< >>, n + 1)) = 10 * atoi(<< >>) + (n + 1) - 1 /\ atoi(<< >>) = 0
      BY <3>1, AtoiAppend
    <3> QED
      BY <3>1, <3>2, <3>3
  <2>2. CASE ~(n < 10)
    <3> DEFINE q == n \div 10
               r == n % 10
    <3>1. q \in 0..n - 1 /\ q \in Nat /\ r \in 0..9 /\ n = 10 * q + r
      BY <2>2
    <3>2. to_string(n) = Append(to_string(q), r + 1) /\ to_string(q) \in DigitTexts
      BY <2>2, <3>1, DigitByDigit
    <3>3. atoi(to_string(q)) = q
      BY <1>1, <3>1
    <3> HIDE DEF q, r
    <3>4. r + 1 \in 1..10
      BY <3>1
    <3>5. atoi(Append(to_string(q), r + 1)) = 10 * q + (r + 1) - 1
      BY <3>2, <3>3, <3>4, AtoiAppend
    <3>6. 10 * q + (r + 1) - 1 = n
      BY <3>1
    <3> QED
      BY <3>2, <3>5, <3>6
  <2> QED
    BY <2>1, <2>2
<1>2. Nat \subseteq S
  <2> HIDE DEF S
  <2> QED
    BY <1>1, CountingFromBelow
<1>3. ASSUME NEW n \in Nat PROVE to_string(n) \in Plain /\ atoi(to_string(n)) = n
  <2>1. to_string(n) \in Plain
    BY DigitByDigit, AtoiAppend
  <2> QED
    BY <1>2, <2>1
<1> QED
  BY <1>3

-----------------------------------------------------------------------------
(* The inductive invariant.  Types first; a request is read from fields,    *)
(* and a certificate from a row.                                            *)
Items    == [client : Clients, message : Messages]
Requests == [country : Nat, serverType : Nat, ip : Plain, port : Nat, uniqKey : Plain, isSessionSvr : {0, 1}]
Certs    == [certification : {0, 1}, sessionSvrId : Nat, newUniqKey : Plain]
Answers  == {Answer(r, c) : r \in Requests, c \in Certs}

Types ==
  /\ m_sessions \subseteq Clients
  /\ m_recvMsgs \in Seq(Items)
  /\ tick \in {"idle", "certify", "answer"}
  /\ req \in Requests
  /\ res \in Certs
  /\ sent \in [Clients -> Seq(Messages)]
  /\ replies \in [Clients -> Seq(Messages \cup Answers)]
  /\ \A c \in Clients : \A i \in 1..Len(replies[c]) : replies[c][i] \in ToSet(sent[c]) \cup Answers

(* What the procedure, or its failure, can say of a request.                *)
RowsOf(r) ==
  [certification : {0, CertificationUniqKey(r).certification},
   sessionSvrId  : {0, CertificationUniqKey(r).sessionSvrId},
   newUniqKey    : {<< >>, CertificationUniqKey(r).newUniqKey}]

(* The request in hand is the message in hand.                              *)
InWork ==
  tick # "idle" =>
    /\ m_recvMsgs # << >>
    /\ InHand.type = "request" /\ Len(InHand.fields) >= 5
    /\ req = CertRequest(InHand.fields)
    /\ res \in RowsOf(req) /\ (tick = "certify" => res = NoCert)

(* The messages that call for a reply, up to the k-th.                      *)
UpTo(s, k) == {i \in Answerable(s) : i <= k}

(* Every queued message has its number among those of its client, a client's*)
(* numbers grow along the queue, and those after h[client] are all queued.  *)
Numbered(num, h, Q, S) ==
  /\ num \in Seq(Nat) /\ Len(num) = Len(Q)
  /\ h \in [Clients -> Nat] /\ \A c \in Clients : h[c] <= Len(S[c])
  /\ \A q \in 1..Len(Q) : /\ h[Q[q].client] < num[q] /\ num[q] <= Len(S[Q[q].client])
                          /\ Q[q].message = S[Q[q].client][num[q]]
  /\ \A p, q \in 1..Len(Q) : p < q /\ Q[p].client = Q[q].client => num[p] < num[q]
  /\ \A c \in Clients : \A n \in h[c] + 1..Len(S[c]) : \E q \in 1..Len(Q) : Q[q].client = c /\ num[q] = n

(* The clients whose replies are not given up.                              *)
Heeded == m_sessions \cup (IF tick = "idle" THEN {} ELSE {Asker})

Counts(h, S, R, A) == \A c \in A : Len(R[c]) = Cardinality(UpTo(S[c], h[c]))

Numbering == \E num, h : Numbered(num, h, m_recvMsgs, sent) /\ Counts(h, sent, replies, Heeded)

(* A reply that answers message i of s.                                     *)
Fits(s, reply, n, i) ==
  /\ i \in Answerable(s) /\ Cardinality(UpTo(s, i)) = n
  /\ s[i].type = "request" /\ Len(s[i].fields) >= 5
  /\ \E row \in RowsOf(CertRequest(s[i].fields)) : reply = Answer(CertRequest(s[i].fields), row)

LastFits ==
  \A c \in Clients :
    replies[c] # << >> =>
      \/ replies[c][Len(replies[c])] \in Messages
      \/ \E i \in Nat : Fits(sent[c], replies[c][Len(replies[c])], Len(replies[c]), i)

IInv == Types /\ InWork /\ Numbering /\ LastFits

-----------------------------------------------------------------------------
(* A message's fields are texts, or what is left of them is too little.     *)
LEMMA MessageProperties ==
  ASSUME NEW m \in Messages
  PROVE  /\ "type" \in DOMAIN m /\ m.fields \in Seq(Plain) /\ m.type \in {"request", "short", "other"}
         /\ m.type = "request" =>
              \/ splitFields(DecryptAuthData(m.authData)) = m.fields
              \/ Len(m.fields) < 5 /\ Len(splitFields(DecryptAuthData(m.authData))) < 5
<1>1. /\ {"type", "fields", "authData"} \subseteq DOMAIN m
      /\ m.type \in {"request", "short", "other"} /\ m.fields \in Seq(Plain)
      /\ m.type = "request" =>
           \/ m.fields # << >> /\ m.authData = Seal(m.fields) /\ Len(m.authData) < AUTH_DATA_LENGTH
           \/ Len(m.fields) < 5 /\ Len(splitFields(DecryptAuthData(m.authData))) < 5
  BY MessagesAssumption
<1>2. ASSUME m.fields # << >>, m.authData = Seal(m.fields), Len(m.authData) < AUTH_DATA_LENGTH
      PROVE  splitFields(DecryptAuthData(m.authData)) = m.fields
  <2> DEFINE x == m.authData
             f == m.fields
  <2>1. f \in Seq(Plain) /\ f # << >> /\ x = Seal(f) /\ Len(x) < AUTH_DATA_LENGTH
    BY <1>1, <1>2
  <2> HIDE DEF x, f
  <2>2. Len(x) \in Nat /\ (Len(x) # AUTH_DATA_LENGTH => splitFields(DecryptAuthData(x)) = f)
    BY <2>1, SealReadsBack
  <2>3. Len(x) # AUTH_DATA_LENGTH
    BY <2>1, <2>2, TextAssumption
  <2> QED
    BY <2>2, <2>3 DEF x, f
<1> QED
  BY <1>1, <1>2

(* Counting the messages that call for a reply, one message further.        *)
LEMMA UpToNext ==
  ASSUME NEW s \in Seq(Messages), NEW k \in Nat
  PROVE  /\ IsFiniteSet(Answerable(s)) /\ Cardinality(Answerable(s)) \in Nat
         /\ IsFiniteSet(UpTo(s, k)) /\ Cardinality(UpTo(s, k)) \in Nat
         /\ k >= Len(s) => UpTo(s, k) = Answerable(s)
         /\ k + 1 <= Len(s) => /\ CallsForReply(s[k + 1]) => /\ k + 1 \in Answerable(s)
                                                             /\ Cardinality(UpTo(s, k + 1)) = Cardinality(UpTo(s, k)) + 1
                               /\ ~CallsForReply(s[k + 1]) => UpTo(s, k + 1) = UpTo(s, k)
<1> DEFINE A == Answerable(s)
           U == UpTo(s, k)
           V == UpTo(s, k + 1)
<1>1. Len(s) \in Nat /\ A \subseteq 1..Len(s) /\ \A i \in 1..Len(s) : i \in A <=> CallsForReply(s[i])
  <2>1. Len(s) \in Nat /\ DOMAIN s = 1..Len(s)
    BY LenProperties
  <2> QED
    BY <2>1 DEF Answerable
<1>2. U = {i \in A : i <= k} /\ V = {i \in A : i <= k + 1}
  BY DEF UpTo
<1> HIDE DEF A, U, V
<1>3. /\ \A i \in A : i \in Nat /\ i <= Len(s)
      /\ \A i : i \in U <=> i \in A /\ i <= k
      /\ \A i : i \in V <=> i \in A /\ i <= k + 1
  BY <1>1, <1>2
<1>4. IsFiniteSet(A)
  <2>1. IsFiniteSet(1..Len(s))
    <3>1. 1 \in Int /\ Len(s) \in Int
      BY <1>1
    <3> QED
      BY <3>1, FS_Interval
  <2> QED
    BY <1>1, <2>1, FS_Subset
<1>5. IsFiniteSet(U) /\ Cardinality(U) \in Nat /\ Cardinality(A) \in Nat
  <2>1. U \in SUBSET A
    BY <1>2
  <2>2. IsFiniteSet(U)
    BY <1>4, <2>1, FS_Subset
  <2> QED
    BY <1>4, <2>2, FS_CardinalityType
<1>6. ASSUME k >= Len(s) PROVE U = A
  <2>1. \A i : i \in A => i <= k
    BY <1>3, <1>1, <1>6
  <2> QED
    BY <1>3, <2>1
<1>7. ASSUME k + 1 <= Len(s), CallsForReply(s[k + 1])
      PROVE  k + 1 \in A /\ Cardinality(V) = Cardinality(U) + 1
  <2>1. k + 1 \in A
    BY <1>1, <1>7
  <2>2. k + 1 \notin U
    BY <1>3
  <2>3. \A i \in A : i <= k + 1 <=> (i <= k \/ i = k + 1)
    BY <1>3
  <2>4. V = U \cup {k + 1}
    BY <1>3, <2>1, <2>3
  <2> QED
    BY <1>5, <2>1, <2>2, <2>4, FS_AddElement
<1>8. ASSUME k + 1 <= Len(s), ~CallsForReply(s[k + 1])
      PROVE  V = U
  <2>1. k + 1 \notin A
    <3>1. k + 1 \in 1..Len(s)
      BY <1>1, <1>8
    <3> QED
      BY <1>1, <1>8, <3>1
  <2>2. \A i \in A : i <= k + 1 <=> i <= k
    <3> SUFFICES ASSUME NEW i \in A PROVE i <= k + 1 <=> i <= k
      OBVIOUS
    <3>1. i \in Nat /\ i # k + 1
      BY <1>3, <2>1
    <3> QED
      BY <3>1
  <2> QED
    BY <1>3, <2>2
<1> QED
  BY <1>4, <1>5, <1>6, <1>7, <1>8 DEF A, U, V

(* A later message changes nothing about the earlier ones.                  *)
LEMMA UpToAppend ==
  ASSUME NEW s \in Seq(Messages), NEW m \in Messages, NEW k \in Nat, k <= Len(s)
  PROVE  UpTo(Append(s, m), k) = UpTo(s, k) /\ Answerable(s) \subseteq Answerable(Append(s, m))
<1> DEFINE t == Append(s, m)
<1>1. /\ Len(s) \in Nat /\ DOMAIN s = 1..Len(s) /\ DOMAIN t = 1..Len(s) + 1
      /\ \A i \in 1..Len(s) : t[i] = s[i]
  <2>1. t \in Seq(Messages) /\ Len(t) = Len(s) + 1 /\ \A i \in 1..Len(s) : t[i] = s[i]
    BY AppendProperties
  <2> HIDE DEF t
  <2> QED
    BY <2>1, LenProperties
<1> HIDE DEF t
<1>2. Answerable(s) = {i \in 1..Len(s) : CallsForReply(s[i])}
  BY <1>1 DEF Answerable
<1>3. Answerable(t) = {i \in 1..Len(s) + 1 : CallsForReply(t[i])}
  BY <1>1 DEF Answerable
<1>4. \A i \in 1..Len(s) : i \in Answerable(t) <=> i \in Answerable(s)
  BY <1>1, <1>2, <1>3
<1>5. Answerable(s) \subseteq 1..Len(s) /\ Answerable(t) \subseteq 1..Len(s) + 1
  BY <1>2, <1>3
<1>6. Answerable(s) \subseteq Answerable(t)
  BY <1>4, <1>5
<1>7. {i \in Answerable(t) : i <= k} = {i \in Answerable(s) : i <= k}
  BY <1>1, <1>4, <1>5
<1> QED
  BY <1>6, <1>7 DEF UpTo, t

(* How many come up to a message tells which one it is.                     *)
LEMMA UpToTells ==
  ASSUME NEW s \in Seq(Messages), NEW i \in Answerable(s), NEW j \in Answerable(s),
         Cardinality(UpTo(s, i)) = Cardinality(UpTo(s, j))
  PROVE  i = j
<1>1. Answerable(s) \subseteq Nat
  <2>1. DOMAIN s = 1..Len(s)
    BY LenProperties
  <2> QED
    BY <2>1 DEF Answerable
<1>2. ASSUME NEW a \in Answerable(s), NEW b \in Answerable(s), a < b
      PROVE  Cardinality(UpTo(s, a)) # Cardinality(UpTo(s, b))
  <2>1. a \in Nat /\ b \in Nat
    BY <1>1
  <2>2. IsFiniteSet(UpTo(s, b)) /\ IsFiniteSet(UpTo(s, a))
    BY <2>1, UpToNext
  <2>3. UpTo(s, a) \subseteq UpTo(s, b) /\ b \in UpTo(s, b) /\ b \notin UpTo(s, a)
    BY <1>1, <1>2, <2>1 DEF UpTo
  <2>4. UpTo(s, a) \in SUBSET UpTo(s, b) /\ UpTo(s, a) # UpTo(s, b)
    BY <2>3
  <2> QED
    BY <2>2, <2>4, FS_Subset
<1>3. i \in Nat /\ j \in Nat
  BY <1>1
<1>4. i = j \/ i < j \/ j < i
  BY <1>3
<1> QED
  BY <1>2, <1>4

-----------------------------------------------------------------------------
(* A message that arrives gets the next number of its client.               *)
LEMMA NumberedAppend ==
  ASSUME NEW num, NEW h, NEW Q \in Seq(Items), NEW S \in [Clients -> Seq(Messages)],
         Numbered(num, h, Q, S), NEW c \in Clients, NEW m \in Messages
  PROVE  Numbered(Append(num, Len(S[c]) + 1), h, Append(Q, [client |-> c, message |-> m]),
                  [S EXCEPT ![c] = Append(@, m)])
<1> DEFINE item == [client |-> c, message |-> m]
           T == [S EXCEPT ![c] = Append(@, m)]
           W == Append(Q, item)
           numT == Append(num, Len(S[c]) + 1)
<1>1. /\ Len(S[c]) \in Nat /\ Len(T[c]) = Len(S[c]) + 1 /\ T[c][Len(S[c]) + 1] = m
      /\ \A i \in 1..Len(S[c]) : T[c][i] = S[c][i]
      /\ \A d \in Clients \ {c} : T[d] = S[d]
  <2>1. S[c] \in Seq(Messages)
    OBVIOUS
  <2>2. T[c] = Append(S[c], m) /\ \A d \in Clients \ {c} : T[d] = S[d]
    OBVIOUS
  <2> QED
    BY <2>1, <2>2, LenProperties, AppendProperties
<1>2. item \in Items /\ item.client = c /\ item.message = m
  BY DEF Items
<1> HIDE DEF item, T
<1>3. /\ Len(Q) \in Nat /\ Len(W) = Len(Q) + 1 /\ W[Len(Q) + 1] = item
      /\ \A q \in 1..Len(Q) : W[q] = Q[q] /\ Q[q].client \in Clients
  <2>1. \A q \in 1..Len(Q) : Q[q] \in Items
    OBVIOUS
  <2> QED
    BY <1>2, <2>1, LenProperties, AppendProperties DEF Items
<1>4. /\ num \in Seq(Nat) /\ Len(num) = Len(Q)
      /\ h \in [Clients -> Nat] /\ \A d \in Clients : h[d] <= Len(S[d])
  BY DEF Numbered
<1>5. /\ numT \in Seq(Nat) /\ Len(numT) = Len(Q) + 1 /\ numT[Len(Q) + 1] = Len(S[c]) + 1
      /\ \A q \in 1..Len(Q) : numT[q] = num[q] /\ num[q] \in Nat
  <2>1. Len(S[c]) + 1 \in Nat
    BY <1>1
  <2> QED
    BY <1>4, <2>1, AppendProperties
<1>6. /\ \A q \in 1..Len(Q) : /\ h[Q[q].client] < num[q] /\ num[q] <= Len(S[Q[q].client])
                              /\ Q[q].message = S[Q[q].client][num[q]]
      /\ \A p, q \in 1..Len(Q) : p < q /\ Q[p].client = Q[q].client => num[p] < num[q]
      /\ \A d \in Clients : \A n \in h[d] + 1..Len(S[d]) : \E q \in 1..Len(Q) : Q[q].client = d /\ num[q] = n
  BY DEF Numbered
<1> HIDE DEF W, numT
<1>7. \A d \in Clients : Len(S[d]) \in Nat /\ Len(S[d]) <= Len(T[d]) /\ \A i \in 1..Len(S[d]) : T[d][i] = S[d][i]
  <2> SUFFICES ASSUME NEW d \in Clients
               PROVE  Len(S[d]) \in Nat /\ Len(S[d]) <= Len(T[d]) /\ \A i \in 1..Len(S[d]) : T[d][i] = S[d][i]
    OBVIOUS
  <2>1. Len(S[d]) \in Nat
    BY LenProperties
  <2>2. CASE d = c
    BY <1>1, <2>2
  <2>3. CASE d # c
    BY <1>1, <2>1, <2>3
  <2> QED
    BY <2>2, <2>3
<1>8. \A d \in Clients : h[d] <= Len(T[d])
  <2> SUFFICES ASSUME NEW d \in Clients PROVE h[d] <= Len(T[d])
    OBVIOUS
  <2>1. h[d] \in Nat /\ h[d] <= Len(S[d]) /\ Len(S[d]) \in Nat /\ Len(S[d]) <= Len(T[d])
    BY <1>4, <1>7
  <2>2. Len(T[d]) \in Nat
    BY <1>1, <2>1
  <2> QED
    BY <2>1, <2>2
<1>9. \A q \in 1..Len(W) : q # Len(Q) + 1 => q \in 1..Len(Q)
  BY <1>3
<1>10. \A q \in 1..Len(W) : /\ h[W[q].client] < numT[q] /\ numT[q] <= Len(T[W[q].client])
                           /\ W[q].message = T[W[q].client][numT[q]]
  <2> SUFFICES ASSUME NEW q \in 1..Len(W)
               PROVE  /\ h[W[q].client] < numT[q] /\ numT[q] <= Len(T[W[q].client])
                      /\ W[q].message = T[W[q].client][numT[q]]
    OBVIOUS
  <2>1. CASE q = Len(Q) + 1
    <3>1. W[q].client = c /\ W[q].message = m /\ numT[q] = Len(S[c]) + 1
      BY <1>2, <1>3, <1>5, <2>1
    <3>2. h[c] \in Nat /\ h[c] <= Len(S[c])
      BY <1>4
    <3>3. h[c] < Len(S[c]) + 1 /\ Len(S[c]) + 1 <= Len(T[c])
      BY <1>1, <3>2
    <3> QED
      BY <1>1, <3>1, <3>3
  <2>2. CASE q # Len(Q) + 1
    <3>1. q \in 1..Len(Q)
      BY <1>9, <2>2
    <3> DEFINE d == Q[q].client
               i == num[q]
    <3>2. W[q] = Q[q] /\ d \in Clients /\ numT[q] = i /\ i \in Nat
      BY <1>3, <1>5, <3>1
    <3>3. h[d] < i /\ i <= Len(S[d]) /\ Q[q].message = S[d][i]
      BY <1>6, <3>1
    <3>4. W[q].client = d /\ W[q].message = Q[q].message
      BY <3>2
    <3> HIDE DEF d, i
    <3>5. h[d] \in Nat /\ Len(S[d]) \in Nat /\ Len(S[d]) <= Len(T[d]) /\ \A j \in 1..Len(S[d]) : T[d][j] = S[d][j]
      BY <1>4, <1>7, <3>2
    <3>6. Len(T[d]) \in Nat
      BY <1>1, <3>2, <3>5
    <3>7. i \in 1..Len(S[d]) /\ i <= Len(T[d])
      BY <3>2, <3>3, <3>5, <3>6
    <3> QED
      BY <3>2, <3>3, <3>4, <3>5, <3>7
  <2> QED
    BY <2>1, <2>2
<1>11. \A p, q \in 1..Len(W) : p < q /\ W[p].client = W[q].client => numT[p] < numT[q]
  <2> SUFFICES ASSUME NEW p \in 1..Len(W), NEW q \in 1..Len(W), p < q, W[p].client = W[q].client
               PROVE  numT[p] < numT[q]
    OBVIOUS
  <2>1. p \in 1..Len(Q)
    BY <1>3
  <2>2. W[p] = Q[p] /\ numT[p] = num[p] /\ num[p] \in Nat
    BY <1>3, <1>5, <2>1
  <2>3. CASE q = Len(Q) + 1
    <3>1. W[q].client = c /\ numT[q] = Len(S[c]) + 1
      BY <1>2, <1>3, <1>5, <2>3
    <3>2. num[p] <= Len(S[Q[p].client]) /\ Q[p].client = c
      BY <1>6, <2>1, <2>2, <3>1
    <3> QED
      BY <1>1, <2>2, <3>1, <3>2
  <2>4. CASE q # Len(Q) + 1
    <3>1. q \in 1..Len(Q)
      BY <1>9, <2>4
    <3>2. W[q] = Q[q] /\ numT[q] = num[q]
      BY <1>3, <1>5, <3>1
    <3> QED
      BY <1>6, <2>1, <2>2, <3>1, <3>2
  <2> QED
    BY <2>3, <2>4
<1>12. \A d \in Clients : \A n \in h[d] + 1..Len(T[d]) : \E q \in 1..Len(W) : W[q].client = d /\ numT[q] = n
  <2> SUFFICES ASSUME NEW d \in Clients, NEW n \in h[d] + 1..Len(T[d])
               PROVE  \E q \in 1..Len(W) : W[q].client = d /\ numT[q] = n
    OBVIOUS
  <2>1. CASE d = c /\ n = Len(S[c]) + 1
    <3>1. Len(Q) + 1 \in 1..Len(W)
      BY <1>3
    <3>2. W[Len(Q) + 1].client = d /\ numT[Len(Q) + 1] = n
      BY <1>2, <1>3, <1>5, <2>1
    <3> QED
      BY <3>1, <3>2
  <2>2. CASE ~(d = c /\ n = Len(S[c]) + 1)
    <3>1. h[d] \in Nat /\ Len(S[d]) \in Nat /\ (d # c => Len(T[d]) = Len(S[d]))
      BY <1>1, <1>4, <1>7
    <3>2. n \in h[d] + 1..Len(S[d])
      <4>1. CASE d = c
        BY <1>1, <2>2, <3>1, <4>1
      <4>2. CASE d # c
        BY <3>1, <4>2
      <4> QED
        BY <4>1, <4>2
    <3>3. PICK q \in 1..Len(Q) : Q[q].client = d /\ num[q] = n
      BY <1>6, <3>2
    <3>4. q \in 1..Len(W) /\ W[q] = Q[q] /\ numT[q] = num[q]
      BY <1>3, <1>5
    <3> QED
      BY <3>3, <3>4
  <2> QED
    BY <2>1, <2>2
<1>13. Numbered(numT, h, W, T)
  BY <1>3, <1>4, <1>5, <1>8, <1>10, <1>11, <1>12 DEF Numbered
<1> QED
  BY <1>13 DEF numT, W, T, item

(* One more message of c dealt with.                                        *)
Dealt(h, c) == [h EXCEPT ![c] = @ + 1]

(* The message in hand is the next one of its client.                       *)
LEMMA NumberedTail ==
  ASSUME NEW Q \in Seq(Items), NEW S \in [Clients -> Seq(Messages)], Q # << >>, NEW c, c = Q[1].client
  PROVE  \A num, h :
           Numbered(num, h, Q, S) =>
             /\ c \in Clients /\ h[c] \in Nat /\ h[c] + 1 <= Len(S[c]) /\ Q[1].message = S[c][h[c] + 1]
             /\ Numbered(Tail(num), Dealt(h, c), Tail(Q), S)
<1> SUFFICES ASSUME NEW num, NEW h, Numbered(num, h, Q, S)
             PROVE  /\ c \in Clients /\ h[c] \in Nat /\ h[c] + 1 <= Len(S[c]) /\ Q[1].message = S[c][h[c] + 1]
                    /\ Numbered(Tail(num), Dealt(h, c), Tail(Q), S)
  OBVIOUS
<1> DEFINE W == Tail(Q)
           numT == Tail(num)
           hT == Dealt(h, c)
<1>1. /\ Len(Q) \in Nat \ {0} /\ Len(W) = Len(Q) - 1
      /\ \A q \in 1..Len(Q) : Q[q].client \in Clients
      /\ \A q \in 1..Len(Q) - 1 : W[q] = Q[q + 1]
  <2>1. \A q \in 1..Len(Q) : Q[q] \in Items
    OBVIOUS
  <2> QED
    BY <2>1, EmptySeq, LenProperties, HeadTailProperties DEF Items
<1>2. /\ num \in Seq(Nat) /\ Len(num) = Len(Q)
      /\ h \in [Clients -> Nat] /\ \A d \in Clients : h[d] <= Len(S[d])
  BY DEF Numbered
<1>3. /\ \A q \in 1..Len(Q) : /\ h[Q[q].client] < num[q] /\ num[q] <= Len(S[Q[q].client])
                              /\ Q[q].message = S[Q[q].client][num[q]]
      /\ \A p, q \in 1..Len(Q) : p < q /\ Q[p].client = Q[q].client => num[p] < num[q]
      /\ \A d \in Clients : \A n \in h[d] + 1..Len(S[d]) : \E q \in 1..Len(Q) : Q[q].client = d /\ num[q] = n
  BY DEF Numbered
<1>4. /\ numT \in Seq(Nat) /\ Len(numT) = Len(Q) - 1
      /\ \A q \in 1..Len(Q) : num[q] \in Nat
      /\ \A q \in 1..Len(Q) - 1 : numT[q] = num[q + 1]
  <2>1. num # << >>
    BY <1>1, <1>2, EmptySeq
  <2> QED
    BY <1>2, <2>1, LenProperties, HeadTailProperties
<1>5. c \in Clients /\ 1 \in 1..Len(Q)
  BY <1>1
<1>6. \A d \in Clients : h[d] \in Nat /\ Len(S[d]) \in Nat /\ hT[d] = IF d = c THEN h[d] + 1 ELSE h[d]
  <2>1. \A d \in Clients : S[d] \in Seq(Messages)
    OBVIOUS
  <2> QED
    BY <1>2, <1>5, <2>1, LenProperties DEF Dealt
<1>7. hT \in [Clients -> Nat]
  BY <1>2, <1>5 DEF Dealt
<1> HIDE DEF W, numT, hT
<1>8. num[1] = h[c] + 1 /\ h[c] + 1 <= Len(S[c])
  <2>1. h[c] < num[1] /\ num[1] <= Len(S[c]) /\ num[1] \in Nat
    BY <1>3, <1>4, <1>5
  <2>2. h[c] + 1 \in h[c] + 1..Len(S[c])
    BY <1>5, <1>6, <2>1
  <2>3. PICK q \in 1..Len(Q) : Q[q].client = c /\ num[q] = h[c] + 1
    BY <1>3, <1>5, <2>2
  <2>4. q # 1 => num[1] < num[q]
    <3>1. q # 1 => 1 < q
      OBVIOUS
    <3> QED
      BY <1>3, <1>5, <2>3, <3>1
  <2>5. q = 1
    BY <1>5, <1>6, <2>1, <2>3, <2>4
  <2> QED
    BY <2>2, <2>3, <2>5
<1>9. \A q \in 1..Len(W) : /\ q + 1 \in 1..Len(Q) /\ q + 1 > 1 /\ W[q] = Q[q + 1] /\ numT[q] = num[q + 1]
  BY <1>1, <1>4
<1>10. \A d \in Clients : hT[d] <= Len(S[d])
  <2> SUFFICES ASSUME NEW d \in Clients PROVE hT[d] <= Len(S[d])
    OBVIOUS
  <2>1. h[d] <= Len(S[d])
    BY <1>2
  <2> QED
    BY <1>6, <1>8, <2>1
<1>11. \A q \in 1..Len(W) : /\ hT[W[q].client] < numT[q] /\ numT[q] <= Len(S[W[q].client])
                            /\ W[q].message = S[W[q].client][numT[q]]
  <2> SUFFICES ASSUME NEW q \in 1..Len(W)
               PROVE  /\ hT[W[q].client] < numT[q] /\ numT[q] <= Len(S[W[q].client])
                      /\ W[q].message = S[W[q].client][numT[q]]
    OBVIOUS
  <2> DEFINE k == q + 1
             d == Q[k].client
  <2>1. k \in 1..Len(Q) /\ 1 < k /\ W[q] = Q[k] /\ numT[q] = num[k]
    BY <1>9
  <2> HIDE DEF k
  <2>2. d \in Clients /\ num[k] \in Nat
    BY <1>1, <1>4, <2>1
  <2>3. h[d] < num[k] /\ num[k] <= Len(S[d]) /\ Q[k].message = S[d][num[k]]
    BY <1>3, <2>1
  <2>4. d = c => num[1] < num[k]
    BY <1>3, <1>5, <2>1
  <2>5. W[q].client = d /\ W[q].message = Q[k].message
    BY <2>1
  <2> HIDE DEF d
  <2>6. hT[d] < num[k]
    BY <1>6, <1>8, <2>2, <2>3, <2>4
  <2> QED
    BY <2>1, <2>3, <2>5, <2>6
<1>12. \A p, q \in 1..Len(W) : p < q /\ W[p].client = W[q].client => numT[p] < numT[q]
  <2>1. \A p, q \in 1..Len(W) : p < q => p + 1 < q + 1
    BY <1>1
  <2> QED
    BY <1>3, <1>9, <2>1
<1>13. \A d \in Clients : \A n \in hT[d] + 1..Len(S[d]) : \E q \in 1..Len(W) : W[q].client = d /\ numT[q] = n
  <2> SUFFICES ASSUME NEW d \in Clients, NEW n \in hT[d] + 1..Len(S[d])
               PROVE  \E q \in 1..Len(W) : W[q].client = d /\ numT[q] = n
    OBVIOUS
  <2>1. n \in h[d] + 1..Len(S[d]) /\ (d = c => n # h[c] + 1)
    BY <1>6
  <2>2. PICK q \in 1..Len(Q) : Q[q].client = d /\ num[q] = n
    BY <1>3, <2>1
  <2>3. q # 1
    BY <1>8, <2>1, <2>2
  <2> DEFINE k == q - 1
  <2>4. k \in 1..Len(W) /\ k + 1 = q
    BY <1>1, <2>3
  <2> HIDE DEF k
  <2>5. W[k] = Q[q] /\ numT[k] = num[q]
    BY <1>9, <2>4
  <2> QED
    BY <2>2, <2>4, <2>5
<1>14. Numbered(numT, hT, W, S)
  BY <1>1, <1>4, <1>7, <1>10, <1>11, <1>12, <1>13 DEF Numbered
<1>15. Q[1].message = S[c][h[c] + 1]
  BY <1>3, <1>5, <1>8
<1> QED
  BY <1>5, <1>6, <1>8, <1>14, <1>15 DEF numT, W, hT

(* What a client waits for is what calls for a reply and has no number yet  *)
(* that was dealt with.                                                     *)
LEMMA NumberedCounts ==
  ASSUME NEW num, NEW h, NEW Q \in Seq(Items), NEW S \in [Clients -> Seq(Messages)],
         Numbered(num, h, Q, S), NEW c \in Clients
  PROVE  Cardinality(UpTo(S[c], h[c]))
           + Cardinality({q \in DOMAIN Q : Q[q].client = c /\ CallsForReply(Q[q].message)})
             = Cardinality(Answerable(S[c]))
<1> DEFINE s == S[c]
           k == h[c]
           A == Answerable(s)
           U == UpTo(s, k)
           D == A \ U
           B == {q \in DOMAIN Q : Q[q].client = c /\ CallsForReply(Q[q].message)}
           f == [q \in B |-> num[q]]
<1>1. k \in Nat /\ s \in Seq(Messages) /\ num \in Seq(Nat) /\ Len(num) = Len(Q)
  BY DEF Numbered
<1>2. DOMAIN Q = 1..Len(Q) /\ Len(Q) \in Nat /\ DOMAIN s = 1..Len(s) /\ Len(s) \in Nat
  BY <1>1, LenProperties
<1>3. /\ \A q \in 1..Len(Q) : /\ h[Q[q].client] < num[q] /\ num[q] <= Len(S[Q[q].client])
                              /\ Q[q].message = S[Q[q].client][num[q]]
      /\ \A p, q \in 1..Len(Q) : p < q /\ Q[p].client = Q[q].client => num[p] < num[q]
      /\ \A n \in h[c] + 1..Len(S[c]) : \E q \in 1..Len(Q) : Q[q].client = c /\ num[q] = n
  BY DEF Numbered
<1>4. IsFiniteSet(A) /\ Cardinality(A) \in Nat /\ IsFiniteSet(U) /\ Cardinality(U) \in Nat
  <2> HIDE DEF s, k
  <2> QED
    BY <1>1, UpToNext
<1>5. U \subseteq A /\ D \subseteq A
  BY DEF UpTo
<1>6. \A n : n \in D <=> n \in k + 1..Len(s) /\ CallsForReply(s[n])
  <2>1. \A n : n \in A <=> n \in 1..Len(s) /\ CallsForReply(s[n])
    BY <1>2 DEF Answerable
  <2>2. \A n : n \in U <=> n \in A /\ n <= k
    BY DEF UpTo
  <2> HIDE DEF s, k, A, U
  <2>3. \A n \in 1..Len(s) : n \in k + 1..Len(s) <=> ~(n <= k)
    BY <1>1, <1>2
  <2>4. \A n \in k + 1..Len(s) : n \in 1..Len(s)
    BY <1>1, <1>2
  <2> QED
    BY <2>1, <2>2, <2>3, <2>4
<1>7. \A q : q \in B <=> q \in 1..Len(Q) /\ Q[q].client = c /\ CallsForReply(s[num[q]])
  BY <1>2, <1>3
<1>8. \A q \in B : num[q] \in k + 1..Len(s) /\ num[q] \in Nat
  <2>1. \A q \in B : num[q] \in Nat
    BY <1>1, <1>7
  <2>2. \A q \in B : k < num[q] /\ num[q] <= Len(s)
    BY <1>3, <1>7
  <2> HIDE DEF B, k, s
  <2> QED
    BY <1>1, <1>2, <2>1, <2>2
<1> HIDE DEF B, D, A, U
<1>9. f \in Bijection(B, D)
  <2>1. f \in [B -> D]
    <3>1. \A q \in B : num[q] \in D
      BY <1>6, <1>7, <1>8
    <3> QED
      BY <3>1
  <2>2. \A p, q \in B : f[p] = f[q] => p = q
    <3> SUFFICES ASSUME NEW p \in B, NEW q \in B, p # q PROVE num[p] # num[q]
      OBVIOUS
    <3>1. p \in 1..Len(Q) /\ q \in 1..Len(Q) /\ Q[p].client = c /\ Q[q].client = c
      BY <1>7
    <3>2. num[p] \in Nat /\ num[q] \in Nat
      BY <1>8
    <3>3. p < q \/ q < p
      BY <3>1
    <3>4. num[p] < num[q] \/ num[q] < num[p]
      BY <1>3, <3>1, <3>3
    <3> QED
      BY <3>2, <3>4
  <2>3. \A n \in D : \E q \in B : f[q] = n
    <3> SUFFICES ASSUME NEW n \in D PROVE \E q \in B : num[q] = n
      BY DEF f
    <3>1. n \in k + 1..Len(s) /\ CallsForReply(s[n])
      BY <1>6
    <3>2. PICK q \in 1..Len(Q) : Q[q].client = c /\ num[q] = n
      BY <1>3, <3>1
    <3>3. q \in B
      BY <1>7, <3>1, <3>2
    <3> QED
      BY <3>2, <3>3
  <2> HIDE DEF f
  <2> QED
    BY <2>1, <2>2, <2>3 DEF Bijection, Injection, Surjection, IsInjective
<1> HIDE DEF f
<1>10. IsFiniteSet(B) /\ Cardinality(B) = Cardinality(D)
  <2>1. IsFiniteSet(B)
    <3>1. IsFiniteSet(1..Len(Q))
      <4>1. 1 \in Int /\ Len(Q) \in Int
        BY <1>2
      <4> QED
        BY <4>1, FS_Interval
    <3>2. B \in SUBSET (1..Len(Q))
      BY <1>7
    <3> QED
      BY <3>1, <3>2, FS_Subset
  <2>2. IsFiniteSet(D)
    <3>1. D \in SUBSET A
      BY <1>5
    <3> QED
      BY <1>4, <3>1, FS_Subset
  <2>3. ExistsBijection(B, D)
    BY <1>9 DEF ExistsBijection
  <2> QED
    BY <2>1, <2>2, <2>3, FS_Bijection
<1>11. Cardinality(D) = Cardinality(A) - Cardinality(U)
  <2>1. A \cap U = U
    BY <1>5
  <2> QED
    BY <1>4, <2>1, FS_Difference DEF D
<1>12. Cardinality(U) + Cardinality(B) = Cardinality(A)
  BY <1>4, <1>10, <1>11
<1> QED
  BY <1>12 DEF A, B, U, s, k

(* Once a message is dealt with, and replied to if it calls for a reply, the*)
(* numbers of replies are right again.                                      *)
LEMMA CountsDone ==
  ASSUME NEW h \in [Clients -> Nat], NEW S \in [Clients -> Seq(Messages)],
         NEW a \in Clients, h[a] + 1 <= Len(S[a]), NEW A \in SUBSET Clients, NEW B \in SUBSET A
  PROVE  \A R, RT :
           /\ Counts(h, S, R, A)
           /\ \A c \in B \ {a} : RT[c] = R[c]
           /\ a \in B => Len(RT[a]) = Len(R[a]) + (IF CallsForReply(S[a][h[a] + 1]) THEN 1 ELSE 0)
           => Counts(Dealt(h, a), S, RT, B)
<1> SUFFICES ASSUME NEW R, NEW RT, Counts(h, S, R, A), \A c \in B \ {a} : RT[c] = R[c],
                    a \in B => Len(RT[a]) = Len(R[a]) + (IF CallsForReply(S[a][h[a] + 1]) THEN 1 ELSE 0)
             PROVE  Counts(Dealt(h, a), S, RT, B)
  OBVIOUS
<1> DEFINE hT == Dealt(h, a)
<1>1. hT[a] = h[a] + 1 /\ \A c \in Clients \ {a} : hT[c] = h[c]
  BY DEF Dealt
<1> HIDE DEF hT
<1>2. SUFFICES ASSUME NEW c \in B PROVE Len(RT[c]) = Cardinality(UpTo(S[c], hT[c]))
  BY DEF Counts, hT
<1>3. c \in Clients /\ Len(R[c]) = Cardinality(UpTo(S[c], h[c]))
  BY DEF Counts
<1>4. CASE c # a
  BY <1>1, <1>3, <1>4
<1>5. CASE c = a
  <2> DEFINE s == S[a]
             k == h[a]
  <2>1. s \in Seq(Messages) /\ k \in Nat /\ k + 1 <= Len(s)
    OBVIOUS
  <2>2. /\ Len(R[a]) = Cardinality(UpTo(s, k)) /\ hT[a] = k + 1
        /\ Len(RT[a]) = Len(R[a]) + (IF CallsForReply(s[k + 1]) THEN 1 ELSE 0)
    BY <1>1, <1>3, <1>5
  <2>3. /\ Cardinality(UpTo(s, k)) \in Nat
        /\ CallsForReply(s[k + 1]) => Cardinality(UpTo(s, k + 1)) = Cardinality(UpTo(s, k)) + 1
        /\ ~CallsForReply(s[k + 1]) => UpTo(s, k + 1) = UpTo(s, k)
    <3> HIDE DEF s, k
    <3> QED
      BY <2>1, UpToNext
  <2>4. Len(RT[a]) = Cardinality(UpTo(s, k + 1))
    <3> HIDE DEF s, k
    <3>1. CASE CallsForReply(s[k + 1])
      BY <2>2, <2>3, <3>1
    <3>2. CASE ~CallsForReply(s[k + 1])
      BY <2>2, <2>3, <3>2
    <3> QED
      BY <3>1, <3>2
  <2> QED
    BY <1>5, <2>2, <2>4
<1> QED
  BY <1>4, <1>5

(* Numbers of replies stay right when a message arrives.                    *)
LEMMA CountsAppend ==
  ASSUME NEW h \in [Clients -> Nat], NEW S \in [Clients -> Seq(Messages)], NEW R, NEW A \in SUBSET Clients,
         Counts(h, S, R, A), \A d \in Clients : h[d] <= Len(S[d]), NEW c \in Clients, NEW m \in Messages
  PROVE  Counts(h, [S EXCEPT ![c] = Append(@, m)], R, A)
<1> DEFINE T == [S EXCEPT ![c] = Append(@, m)]
<1>1. T[c] = Append(S[c], m) /\ \A d \in Clients \ {c} : T[d] = S[d]
  OBVIOUS
<1> HIDE DEF T
<1>2. UpTo(T[c], h[c]) = UpTo(S[c], h[c])
  <2> DEFINE s == S[c]
             k == h[c]
  <2>1. s \in Seq(Messages) /\ k \in Nat /\ k <= Len(s) /\ T[c] = Append(s, m)
    BY <1>1
  <2> HIDE DEF s, k
  <2>2. UpTo(Append(s, m), k) = UpTo(s, k)
    BY <2>1, UpToAppend
  <2> QED
    BY <2>1, <2>2 DEF s, k
<1>3. SUFFICES ASSUME NEW d \in A PROVE Len(R[d]) = Cardinality(UpTo(T[d], h[d]))
  BY DEF Counts, T
<1>4. d \in Clients /\ Len(R[d]) = Cardinality(UpTo(S[d], h[d]))
  BY DEF Counts
<1> QED
  BY <1>1, <1>2, <1>4

(* A reply keeps fitting when a message arrives.                            *)
LEMMA FitsAppend ==
  ASSUME NEW s \in Seq(Messages), NEW m \in Messages, NEW reply, NEW n, NEW i, Fits(s, reply, n, i)
  PROVE  Fits(Append(s, m), reply, n, i)
<1>1. i \in Answerable(s) /\ Len(s) \in Nat /\ i \in 1..Len(s)
  <2>1. i \in Answerable(s) /\ DOMAIN s = 1..Len(s)
    BY LenProperties DEF Fits
  <2> QED
    BY <2>1, LenProperties DEF Answerable
<1>2. i \in Nat /\ i <= Len(s)
  BY <1>1
<1>3. UpTo(Append(s, m), i) = UpTo(s, i) /\ i \in Answerable(Append(s, m))
  BY <1>1, <1>2, UpToAppend
<1>4. Append(s, m)[i] = s[i]
  BY <1>1, AppendProperties
<1> QED
  BY <1>3, <1>4 DEF Fits

-----------------------------------------------------------------------------
(* A request read from fields that can be sent, and what the procedure makes*)
(* of it.                                                                   *)
LEMMA CertRequestProperties ==
  ASSUME NEW f \in Seq(Plain), Len(f) >= 5
  PROVE  /\ CertRequest(f) \in Requests /\ RowsOf(CertRequest(f)) \subseteq Certs /\ NoCert \in RowsOf(CertRequest(f))
         /\ \A i \in 1..5 : f[i] \in Plain /\ atoi(f[i]) \in Nat
<1> DEFINE r == CertRequest(f)
<1>1. \A i \in 1..5 : f[i] \in Plain /\ f[i] \in Texts
  <2>1. \A i \in 1..5 : i \in 1..Len(f)
    BY LenProperties
  <2>2. \A i \in 1..Len(f) : f[i] \in Plain
    BY LenProperties
  <2> QED
    BY <2>1, <2>2, PlainTexts
<1>2. \A i \in 1..5 : atoi(f[i]) \in Nat
  BY <1>1, AtoiAppend
<1>3. r \in Requests /\ r.uniqKey = f[5] /\ r.port = atoi(f[4])
  <2>1. 1 \in 1..5 /\ 2 \in 1..5 /\ 3 \in 1..5 /\ 4 \in 1..5 /\ 5 \in 1..5
    OBVIOUS
  <2> QED
    BY <1>1, <1>2, <2>1 DEF CertRequest, Requests
<1> HIDE DEF r
<1>4. CertificationUniqKey(r) \in Certs
  <2>1. r.uniqKey \o NewSuffix \in Plain
    <3>1. r.uniqKey \in Plain /\ NewSuffix \in Plain
      BY <1>3, TextAssumption DEF Requests
    <3> HIDE DEF r
    <3> QED
      BY <3>1, ConcatProperties DEF Plain
  <2>2. r.port + 1000 \in Nat
    BY <1>3 DEF Requests
  <2> QED
    BY <2>1, <2>2 DEF CertificationUniqKey, Certs
<1>5. << >> \in Plain
  BY DEF Plain
<1>6. RowsOf(r) \subseteq Certs
  <2> DEFINE c == CertificationUniqKey(r)
  <2>1. c.certification \in {0, 1} /\ c.sessionSvrId \in Nat /\ c.newUniqKey \in Plain
    BY <1>4 DEF Certs
  <2> HIDE DEF c
  <2> QED
    BY <1>5, <2>1 DEF RowsOf, Certs, c
<1>7. NoCert \in RowsOf(r)
  BY DEF NoCert, RowsOf
<1> QED
  BY <1>1, <1>2, <1>3, <1>6, <1>7 DEF r

(* The six fields of an answer can be sent.                                 *)
AnswerFields(r, c) ==
  << to_string(r.country), to_string(r.serverType), r.ip, to_string(r.port), c.newUniqKey, to_string(c.certification) >>

(* An answer is sealed fields, of which nothing is taken for others.        *)
LEMMA AnswerProperties ==
  ASSUME NEW r \in Requests, NEW c \in Certs
  PROVE  LET x == Answer(r, c).authData
         IN  /\ Len(x) <= AUTH_DATA_LENGTH /\ Len(Answer(r, c).serverIP) <= MAX_IP_LENGTH
             /\ Len(x) = AUTH_DATA_LENGTH => splitFields(DecryptAuthData(x)) = << << >> >>
             /\ Len(x) # AUTH_DATA_LENGTH => splitFields(DecryptAuthData(x)) = AnswerFields(r, c)
             /\ Len(AnswerFields(r, c)) = 6
<1> DEFINE f == AnswerFields(r, c)
           x == Seal(f)
<1>1. /\ r.country \in Nat /\ r.serverType \in Nat /\ r.port \in Nat /\ r.ip \in Plain
      /\ c.newUniqKey \in Plain /\ c.certification \in Nat
  BY DEF Requests, Certs
<1>2. f \in Seq(Plain) /\ Len(f) = 6
  <2>1. to_string(r.country) \in Plain /\ to_string(r.serverType) \in Plain
    BY <1>1, NumbersReadBack
  <2>2. to_string(r.port) \in Plain /\ to_string(c.certification) \in Plain
    BY <1>1, NumbersReadBack
  <2> QED
    BY <1>1, <2>1, <2>2 DEF AnswerFields
<1>3. Answer(r, c).authData = x /\ Answer(r, c).serverIP = strncpy(r.ip, MAX_IP_LENGTH)
  BY DEF Answer, AnswerFields
<1> HIDE DEF f
<1>4. f # << >>
  <2>1. Len(f) # 0
    BY <1>2
  <2>2. f = << >> => Len(f) = 0
    OBVIOUS
  <2> QED
    BY <2>1, <2>2
<1>5. /\ Len(x) <= AUTH_DATA_LENGTH
      /\ Len(x) = AUTH_DATA_LENGTH => splitFields(DecryptAuthData(x)) = << << >> >>
      /\ Len(x) # AUTH_DATA_LENGTH => splitFields(DecryptAuthData(x)) = f
  <2> HIDE DEF x
  <2>1. x = Seal(f)
    BY DEF x
  <2> QED
    BY <1>2, <1>4, <2>1, SealReadsBack
<1>6. Len(strncpy(r.ip, MAX_IP_LENGTH)) <= MAX_IP_LENGTH
  <2>1. r.ip \in Seq((1..Byte - 1) \ {Comma}) /\ MAX_IP_LENGTH \in Nat
    BY <1>1, TextAssumption DEF Plain
  <2> QED
    BY <2>1, StrncpyProperties
<1> QED
  BY <1>2, <1>3, <1>5, <1>6 DEF f

(* The answer to a request repeats what the request said, and certifies     *)
(* nothing but its key.                                                     *)
LEMMA AnswerRepeats ==
  ASSUME NEW f \in Seq(Plain), Len(f) >= 5, NEW c \in RowsOf(CertRequest(f)),
         NEW reply, reply = Answer(CertRequest(f), c)
  PROVE  LET b == splitFields(DecryptAuthData(reply.authData))
         IN  /\ IF Len(reply.authData) = AUTH_DATA_LENGTH THEN b = << << >> >> ELSE
                  /\ Len(b) = 6
                  /\ b[3] = f[3]
                  /\ \A i \in {1, 2, 4} : atoi(b[i]) = atoi(f[i])
             /\ reply.sessionSvrId \in {0} \cup
                  (IF atoi(f[2]) = SERVER_SESSION THEN {atoi(f[4]) + 1000} ELSE {})
             /\ Len(b) = 6 => /\ atoi(b[6]) # 0 => f[5] = GOODKEY
                              /\ b[5] \in {<< >>, f[5] \o NewSuffix}
<1> DEFINE r == CertRequest(f)
           x == reply.authData
           b == splitFields(DecryptAuthData(x))
           a == AnswerFields(r, c)
<1>1. r \in Requests /\ c \in Certs /\ \A i \in 1..5 : f[i] \in Plain /\ atoi(f[i]) \in Nat
  BY CertRequestProperties
<1>2. /\ r.country = atoi(f[1]) /\ r.serverType = atoi(f[2]) /\ r.ip = f[3] /\ r.port = atoi(f[4])
      /\ r.uniqKey = f[5]
  BY DEF CertRequest
<1>3. c \in RowsOf(r) /\ reply = Answer(r, c)
  OBVIOUS
<1> HIDE DEF r
<1>4. /\ Len(x) = AUTH_DATA_LENGTH => b = << << >> >>
      /\ Len(x) # AUTH_DATA_LENGTH => b = a
      /\ Len(a) = 6
  BY <1>1, <1>3, AnswerProperties
<1>5. /\ r.country \in Nat /\ r.serverType \in Nat /\ r.port \in Nat /\ c.certification \in Nat
  BY <1>1 DEF Requests, Certs
<1>6. /\ a[1] = to_string(r.country) /\ a[2] = to_string(r.serverType) /\ a[3] = r.ip
      /\ a[4] = to_string(r.port) /\ a[5] = c.newUniqKey /\ a[6] = to_string(c.certification)
  BY DEF AnswerFields
<1>7. Len(<< << >> >>) # 6
  OBVIOUS
<1>8. /\ c.certification \in {0, IF r.uniqKey = GOODKEY THEN 1 ELSE 0}
      /\ c.sessionSvrId \in {0, r.port + 1000}
      /\ c.newUniqKey \in {<< >>, r.uniqKey \o NewSuffix}
  BY <1>3 DEF RowsOf, CertificationUniqKey
<1>9. reply.sessionSvrId = IF r.serverType = SERVER_SESSION THEN c.sessionSvrId ELSE 0
  BY <1>3 DEF Answer
<1> HIDE DEF a, b, x
<1>10. atoi(a[1]) = atoi(f[1]) /\ atoi(a[2]) = atoi(f[2])
  BY <1>2, <1>5, <1>6, NumbersReadBack
<1>11. atoi(a[4]) = atoi(f[4]) /\ atoi(a[6]) = c.certification
  BY <1>2, <1>5, <1>6, NumbersReadBack
<1>12. IF Len(x) = AUTH_DATA_LENGTH THEN b = << << >> >> ELSE
         /\ Len(b) = 6
         /\ b[3] = f[3]
         /\ \A i \in {1, 2, 4} : atoi(b[i]) = atoi(f[i])
  <2>1. CASE Len(x) = AUTH_DATA_LENGTH
    BY <1>4, <2>1
  <2>2. CASE Len(x) # AUTH_DATA_LENGTH
    <3>1. b = a /\ Len(b) = 6 /\ b[3] = f[3]
      BY <1>2, <1>4, <1>6, <2>2
    <3>2. \A i \in {1, 2, 4} : atoi(b[i]) = atoi(f[i])
      BY <1>10, <1>11, <3>1
    <3> QED
      BY <2>2, <3>1, <3>2
  <2> QED
    BY <2>1, <2>2
<1>13. reply.sessionSvrId \in {0} \cup (IF atoi(f[2]) = SERVER_SESSION THEN {atoi(f[4]) + 1000} ELSE {})
  BY <1>2, <1>8, <1>9
<1>14. Len(b) = 6 => /\ atoi(b[6]) # 0 => f[5] = GOODKEY
                     /\ b[5] \in {<< >>, f[5] \o NewSuffix}
  <2> SUFFICES ASSUME Len(b) = 6
               PROVE  (atoi(b[6]) # 0 => f[5] = GOODKEY) /\ b[5] \in {<< >>, f[5] \o NewSuffix}
    OBVIOUS
  <2>1. b = a
    BY <1>4, <1>7
  <2>2. atoi(b[6]) = c.certification /\ b[5] = c.newUniqKey
    BY <1>6, <1>11, <2>1
  <2>3. atoi(b[6]) # 0 => f[5] = GOODKEY
    BY <1>2, <1>8, <2>2
  <2> QED
    BY <1>2, <1>8, <2>2, <2>3
<1> QED
  BY <1>12, <1>13, <1>14 DEF b, x

-----------------------------------------------------------------------------
(* The message in hand is one of those that its sender sent.                *)
LEMMA InHandProperties ==
  ASSUME Types, m_recvMsgs # << >>
  PROVE  /\ Asker \in Clients /\ InHand \in Messages
         /\ Asker = m_recvMsgs[1].client /\ InHand = m_recvMsgs[1].message
         /\ Tail(m_recvMsgs) \in Seq(Items)
<1>1. m_recvMsgs \in Seq(Items)
  BY DEF Types
<1>2. Head(m_recvMsgs) \in Items /\ Head(m_recvMsgs) = m_recvMsgs[1] /\ Tail(m_recvMsgs) \in Seq(Items)
  BY <1>1, HeadTailProperties
<1> QED
  BY <1>2 DEF Asker, InHand, Items

(* A message leaves the queue, with or without a reply: the replies are as  *)
(* many as before, and one more if it called for one.                       *)
LEMMA DoneNumbering ==
  ASSUME Types, Numbering, m_recvMsgs # << >>, Done, tick' = "idle",
         \A c \in Clients \ {Asker} : replies'[c] = replies[c],
         Asker \in m_sessions => Len(replies'[Asker]) = Len(replies[Asker]) + (IF CallsForReply(InHand) THEN 1 ELSE 0)
  PROVE  Numbering'
<1> DEFINE Q == m_recvMsgs
<1>1. PICK a : a = Asker
  OBVIOUS
<1>2. /\ a \in Clients /\ a = Q[1].client /\ InHand = Q[1].message /\ Q \in Seq(Items) /\ Q # << >>
      /\ sent \in [Clients -> Seq(Messages)] /\ m_sessions \subseteq Clients
  BY <1>1, InHandProperties DEF Types
<1>3. PICK num, h : Numbered(num, h, Q, sent) /\ Counts(h, sent, replies, Heeded)
  BY DEF Numbering
<1> DEFINE hT == Dealt(h, a)
<1>4. h \in [Clients -> Nat]
  BY <1>3 DEF Numbered
<1>5. /\ h[a] + 1 <= Len(sent[a]) /\ Q[1].message = sent[a][h[a] + 1]
      /\ Numbered(Tail(num), hT, Tail(Q), sent)
  <2> HIDE DEF Q
  <2>1. Q \in Seq(Items) /\ sent \in [Clients -> Seq(Messages)] /\ Q # << >> /\ a = Q[1].client
    BY <1>2
  <2>2. \A n, g : Numbered(n, g, Q, sent) =>
                     /\ a \in Clients /\ g[a] \in Nat /\ g[a] + 1 <= Len(sent[a])
                     /\ Q[1].message = sent[a][g[a] + 1]
                     /\ Numbered(Tail(n), Dealt(g, a), Tail(Q), sent)
    BY <2>1, NumberedTail
  <2> QED
    BY <1>3, <2>2
<1>6. Counts(hT, sent, replies', m_sessions)
  <2> DEFINE A == Heeded
             R == replies
             RT == replies'
  <2>1. A \in SUBSET Clients /\ m_sessions \in SUBSET A
    BY <1>1, <1>2 DEF Heeded
  <2>2. /\ Counts(h, sent, R, A)
        /\ \A c \in m_sessions \ {a} : RT[c] = R[c]
        /\ a \in m_sessions => Len(RT[a]) = Len(R[a]) + (IF CallsForReply(sent[a][h[a] + 1]) THEN 1 ELSE 0)
    BY <1>1, <1>2, <1>3, <1>5
  <2> HIDE DEF A, R, RT
  <2>3. Counts(hT, sent, RT, m_sessions)
    BY <1>2, <1>4, <1>5, <2>1, <2>2, CountsDone
  <2> QED
    BY <2>3 DEF RT
<1>7. Heeded' = m_sessions /\ m_recvMsgs' = Tail(Q) /\ sent' = sent
  BY DEF Heeded, Done
<1> HIDE DEF hT, Q
<1>8. Numbered(Tail(num), hT, m_recvMsgs', sent') /\ Counts(hT, sent', replies', Heeded')
  BY <1>5, <1>6, <1>7
<1> QED
  BY <1>8 DEF Numbering

(* Nothing waits and nothing was answered at the start.                     *)
LEMMA InitInv ==
  Init => IInv
<1> SUFFICES ASSUME Init PROVE IInv
  OBVIOUS
<1> USE DEF Init
<1>1. Types
  <2>1. << >> \in Plain /\ << >> \in Seq(Items) /\ << >> \in Seq(Messages) /\ << >> \in Seq(Messages \cup Answers)
    BY DEF Plain
  <2>2. req \in Requests /\ res \in Certs
    BY <2>1 DEF NoReq, NoCert, Requests, Certs
  <2>3. sent \in [Clients -> Seq(Messages)] /\ replies \in [Clients -> Seq(Messages \cup Answers)]
    BY <2>1
  <2>4. \A c \in Clients : 1..Len(replies[c]) = {}
    BY <2>1
  <2> QED
    BY <2>1, <2>2, <2>3, <2>4 DEF Types
<1>2. InWork
  BY DEF InWork
<1>3. Numbering
  <2> DEFINE h == [c \in Clients |-> 0]
  <2>1. Numbered(<< >>, h, m_recvMsgs, sent)
    <3>1. << >> \in Seq(Nat) /\ Len(<< >>) = Len(m_recvMsgs) /\ 1..Len(m_recvMsgs) = {}
      OBVIOUS
    <3>2. h \in [Clients -> Nat] /\ \A c \in Clients : h[c] = 0 /\ Len(sent[c]) = 0
      OBVIOUS
    <3>3. 0 + 1..0 = {}
      OBVIOUS
    <3> HIDE DEF h
    <3> QED
      BY <3>1, <3>2, <3>3 DEF Numbered
  <2>2. Counts(h, sent, replies, Heeded)
    <3> SUFFICES ASSUME NEW c \in Heeded PROVE Len(replies[c]) = Cardinality(UpTo(sent[c], h[c]))
      BY DEF Counts
    <3>1. c \in Clients /\ sent[c] = << >> /\ Len(replies[c]) = 0
      BY DEF Heeded
    <3>2. UpTo(sent[c], h[c]) = {}
      BY <3>1 DEF UpTo, Answerable
    <3> QED
      BY <3>1, <3>2, FS_EmptySet
  <2> HIDE DEF h
  <2> QED
    BY <2>1, <2>2 DEF Numbering
<1>4. LastFits
  BY DEF LastFits
<1> QED
  BY <1>1, <1>2, <1>3, <1>4 DEF IInv

(* A message arrives.                                                       *)
LEMMA AsksInv ==
  ASSUME IInv, NEW c \in Clients, NEW message \in Messages, Asks(c, message)
  PROVE  IInv'
<1> DEFINE Q == m_recvMsgs
           item == [client |-> c, message |-> message]
           T == [sent EXCEPT ![c] = Append(@, message)]
<1>1. /\ sent' = T /\ m_recvMsgs' = Append(Q, item)
      /\ UNCHANGED << m_sessions, tick, req, res, replies >>
  BY DEF Asks
<1>2. Types /\ Q \in Seq(Items) /\ sent \in [Clients -> Seq(Messages)] /\ m_sessions \subseteq Clients
  BY DEF IInv, Types
<1>3. T \in [Clients -> Seq(Messages)] /\ T[c] = Append(sent[c], message) /\ \A d \in Clients \ {c} : T[d] = sent[d]
  <2>1. Append(sent[c], message) \in Seq(Messages)
    BY <1>2, AppendProperties
  <2> QED
    BY <1>2, <2>1
<1>4. item \in Items
  BY DEF Items
<1>5. Append(Q, item) \in Seq(Items) /\ (Q # << >> => Append(Q, item) # << >> /\ Head(Append(Q, item)) = Head(Q))
  <2> HIDE DEF Q, item
  <2>1. /\ Len(Q) \in Nat /\ Append(Q, item) \in Seq(Items) /\ Len(Append(Q, item)) = Len(Q) + 1
        /\ \A i \in 1..Len(Q) : Append(Q, item)[i] = Q[i]
    BY <1>2, <1>4, LenProperties, AppendProperties
  <2>2. ASSUME Q # << >> PROVE Append(Q, item) # << >> /\ Head(Append(Q, item)) = Head(Q)
    <3>1. Append(Q, item) # << >> /\ 1 \in 1..Len(Q)
      <4>1. Append(Q, item) = << >> => Len(Append(Q, item)) = 0
        OBVIOUS
      <4>2. Len(Q) # 0
        BY <1>2, <2>2, EmptySeq
      <4> QED
        BY <2>1, <4>1, <4>2
    <3>2. Head(Append(Q, item)) = Append(Q, item)[1] /\ Head(Q) = Q[1]
      BY <1>2, <2>1, <2>2, <3>1, HeadTailProperties
    <3> QED
      BY <2>1, <3>1, <3>2
  <2> QED
    BY <2>1, <2>2
<1>6. Types'
  <2>1. \A d \in Clients : ToSet(sent[d]) \subseteq ToSet(T[d])
    <3>1. ToSet(sent[c]) \subseteq ToSet(T[c])
      <4> DEFINE s == sent[c]
                 t == T[c]
      <4>1. s \in Seq(Messages) /\ t = Append(s, message)
        BY <1>2, <1>3
      <4> HIDE DEF s, t
      <4>2. Len(s) \in Nat /\ DOMAIN s = 1..Len(s) /\ DOMAIN t = 1..Len(s) + 1 /\ \A i \in 1..Len(s) : t[i] = s[i]
        <5>1. t \in Seq(Messages) /\ Len(t) = Len(s) + 1 /\ \A i \in 1..Len(s) : t[i] = s[i]
          BY <4>1, AppendProperties
        <5> QED
          BY <4>1, <5>1, LenProperties
      <4> QED
        BY <4>2 DEF ToSet, s, t
    <3> QED
      BY <1>3, <3>1
  <2> HIDE DEF T, item, Q
  <2> QED
    BY <1>1, <1>2, <1>3, <1>5, <2>1 DEF Types
<1>7. InWork'
  <2>1. tick # "idle" => Q # << >>
    BY DEF IInv, InWork
  <2>2. tick # "idle" => InHand' = InHand
    BY <1>1, <1>5, <2>1 DEF InHand
  <2> QED
    BY <1>1, <1>5, <2>1, <2>2 DEF IInv, InWork
<1>8. Numbering'
  <2>1. PICK num, h : Numbered(num, h, Q, sent) /\ Counts(h, sent, replies, Heeded)
    BY DEF IInv, Numbering
  <2>2. Numbered(Append(num, Len(sent[c]) + 1), h, Append(Q, item), T)
    <3> HIDE DEF Q
    <3> QED
      BY <1>2, <2>1, NumberedAppend
  <2>3. Heeded' = Heeded /\ Heeded \in SUBSET Clients
    <3>1. tick # "idle" => Q # << >>
      BY DEF IInv, InWork
    <3>2. tick # "idle" => Asker' = Asker
      BY <1>1, <1>5, <3>1 DEF Asker
    <3>3. tick # "idle" => Asker \in Clients
      BY <1>2, <3>1, InHandProperties
    <3> QED
      BY <1>1, <1>2, <3>2, <3>3 DEF Heeded
  <2>4. Counts(h, T, replies, Heeded)
    <3>1. h \in [Clients -> Nat] /\ \A d \in Clients : h[d] <= Len(sent[d])
      BY <2>1 DEF Numbered
    <3> QED
      BY <1>2, <2>1, <2>3, <3>1, CountsAppend
  <2> HIDE DEF T, item, Q
  <2>5. Numbered(Append(num, Len(sent[c]) + 1), h, m_recvMsgs', sent') /\ Counts(h, sent', replies', Heeded')
    BY <1>1, <2>2, <2>3, <2>4
  <2> QED
    BY <2>5 DEF Numbering
<1>9. LastFits'
  <2> SUFFICES ASSUME NEW d \in Clients, replies[d] # << >>
               PROVE  \/ replies[d][Len(replies[d])] \in Messages
                      \/ \E i \in Nat : Fits(T[d], replies[d][Len(replies[d])], Len(replies[d]), i)
    BY <1>1 DEF LastFits
  <2> DEFINE reply == replies[d][Len(replies[d])]
             n == Len(replies[d])
  <2>1. reply \in Messages \/ \E i \in Nat : Fits(sent[d], reply, n, i)
    BY DEF IInv, LastFits
  <2> HIDE DEF reply, n, T
  <2>2. ASSUME NEW i \in Nat, Fits(sent[d], reply, n, i) PROVE Fits(T[d], reply, n, i)
    <3>1. CASE d # c
      BY <1>3, <2>2, <3>1
    <3>2. CASE d = c
      <4> DEFINE s == sent[c]
      <4>1. s \in Seq(Messages) /\ Fits(s, reply, n, i) /\ T[d] = Append(s, message)
        BY <1>2, <1>3, <2>2, <3>2
      <4> HIDE DEF s
      <4> QED
        BY <4>1, FitsAppend
    <3> QED
      BY <3>1, <3>2
  <2> QED
    BY <2>1, <2>2 DEF reply, n
<1> QED
  BY <1>6, <1>7, <1>8, <1>9 DEF IInv

(* A session goes away: its client's replies are given up, unless one is on *)
(* its way.                                                                 *)
LEMMA OnCloseInv ==
  ASSUME IInv, NEW c \in Clients, OnClose(c)
  PROVE  IInv'
<1>1. m_sessions' = m_sessions \ {c} /\ UNCHANGED << m_recvMsgs, tick, req, res, sent, replies >>
  BY DEF OnClose
<1>2. Types'
  BY <1>1 DEF IInv, Types
<1>3. InWork'
  BY <1>1 DEF IInv, InWork, InHand
<1>4. Numbering'
  <2>1. PICK num, h : Numbered(num, h, m_recvMsgs, sent) /\ Counts(h, sent, replies, Heeded)
    BY DEF IInv, Numbering
  <2>2. Heeded' \subseteq Heeded
    BY <1>1 DEF Heeded, Asker
  <2>3. Counts(h, sent, replies, Heeded')
    BY <2>1, <2>2 DEF Counts
  <2>4. Numbered(num, h, m_recvMsgs', sent') /\ Counts(h, sent', replies', Heeded')
    BY <1>1, <2>1, <2>3
  <2> QED
    BY <2>4 DEF Numbering
<1>5. LastFits'
  BY <1>1 DEF IInv, LastFits
<1> QED
  BY <1>2, <1>3, <1>4, <1>5 DEF IInv

(* Which of its sender's messages the message in hand is.                   *)
LEMMA InHandNumber ==
  ASSUME Types, Numbering, m_recvMsgs # << >>
  PROVE  \E i \in Nat :
           /\ i \in 1..Len(sent[Asker]) /\ InHand = sent[Asker][i] /\ InHand \in ToSet(sent[Asker])
           /\ Asker \in Heeded /\ CallsForReply(InHand) =>
                i \in Answerable(sent[Asker]) /\ Cardinality(UpTo(sent[Asker], i)) = Len(replies[Asker]) + 1
<1> DEFINE Q == m_recvMsgs
<1>1. PICK a : a = Asker
  OBVIOUS
<1>2. /\ a \in Clients /\ a = Q[1].client /\ InHand = Q[1].message /\ Q \in Seq(Items) /\ Q # << >>
      /\ sent \in [Clients -> Seq(Messages)]
  BY <1>1, InHandProperties DEF Types
<1>3. PICK num, h : Numbered(num, h, Q, sent) /\ Counts(h, sent, replies, Heeded)
  BY DEF Numbering
<1>4. h[a] \in Nat /\ h[a] + 1 <= Len(sent[a]) /\ Q[1].message = sent[a][h[a] + 1]
  <2> HIDE DEF Q
  <2>1. \A n, g : Numbered(n, g, Q, sent) =>
                     /\ a \in Clients /\ g[a] \in Nat /\ g[a] + 1 <= Len(sent[a])
                     /\ Q[1].message = sent[a][g[a] + 1]
                     /\ Numbered(Tail(n), Dealt(g, a), Tail(Q), sent)
    BY <1>2, NumberedTail
  <2> QED
    BY <1>3, <2>1
<1> DEFINE s == sent[a]
           k == h[a]
           i == k + 1
<1>5. s \in Seq(Messages) /\ k \in Nat /\ i \in Nat /\ i \in 1..Len(s) /\ InHand = s[i] /\ InHand \in ToSet(s)
  <2>1. s \in Seq(Messages) /\ k \in Nat /\ i <= Len(s) /\ InHand = s[i]
    BY <1>2, <1>4
  <2> HIDE DEF s, k
  <2>2. Len(s) \in Nat /\ DOMAIN s = 1..Len(s)
    BY <2>1, LenProperties
  <2>3. i \in Nat /\ i \in 1..Len(s)
    BY <2>1, <2>2
  <2>4. s[i] \in ToSet(s)
    BY <2>2, <2>3 DEF ToSet
  <2> QED
    BY <2>1, <2>3, <2>4
<1>6. ASSUME a \in Heeded, CallsForReply(InHand)
      PROVE  i \in Answerable(s) /\ Cardinality(UpTo(s, i)) = Len(replies[a]) + 1
  <2>1. Len(replies[a]) = Cardinality(UpTo(s, k))
    BY <1>3, <1>6 DEF Counts
  <2> HIDE DEF s, k
  <2>2. i <= Len(s)
    BY <1>5
  <2>3. CallsForReply(s[i]) => i \in Answerable(s) /\ Cardinality(UpTo(s, i)) = Cardinality(UpTo(s, k)) + 1
    BY <1>5, <2>2, UpToNext
  <2> QED
    BY <1>5, <1>6, <2>1, <2>3
<1>7. WITNESS i \in Nat
<1> QED
  BY <1>1, <1>5, <1>6 DEF s

(* A message that is not replied to leaves the queue.                       *)
LEMMA DoneSilently ==
  ASSUME IInv, Dispatches, Done, UNCHANGED << tick, req, res, replies >>,
         Asker \in m_sessions => ~CallsForReply(InHand)
  PROVE  IInv'
<1>1. Types /\ Numbering /\ m_recvMsgs # << >> /\ tick' = "idle" /\ tick = "idle"
  BY DEF IInv, Dispatches
<1>2. Asker \in Clients /\ Tail(m_recvMsgs) \in Seq(Items)
  BY <1>1, InHandProperties
<1>3. m_recvMsgs' = Tail(m_recvMsgs) /\ UNCHANGED << m_sessions, sent, replies >>
  BY DEF Done
<1>4. Types'
  BY <1>1, <1>2, <1>3 DEF Types
<1>5. InWork'
  BY <1>1 DEF InWork
<1>6. Numbering'
  <2>1. Asker \in m_sessions => Len(replies'[Asker]) = Len(replies[Asker]) + (IF CallsForReply(InHand) THEN 1 ELSE 0)
    <3>1. replies[Asker] \in Seq(Messages \cup Answers)
      BY <1>1, <1>2 DEF Types
    <3>2. Len(replies[Asker]) \in Nat
      BY <3>1, LenProperties
    <3> QED
      BY <1>3, <3>2
  <2> QED
    BY <1>1, <1>3, <2>1, DoneNumbering
<1>7. LastFits'
  BY <1>3 DEF IInv, LastFits
<1> QED
  BY <1>4, <1>5, <1>6, <1>7 DEF IInv

(* A message that is replied to leaves the queue.                           *)
LEMMA DoneWithReply ==
  ASSUME IInv, m_recvMsgs # << >>, Done, NEW reply, Send(reply), tick' = "idle", UNCHANGED << req, res >>,
         Asker \in Heeded, CallsForReply(InHand),
         \/ reply = InHand
         \/ /\ InHand.type = "request" /\ Len(InHand.fields) >= 5
            /\ \E row \in RowsOf(CertRequest(InHand.fields)) : reply = Answer(CertRequest(InHand.fields), row)
  PROVE  IInv'
<1>1. PICK a : a = Asker
  OBVIOUS
<1>2. /\ Types /\ Numbering /\ a \in Clients /\ InHand \in Messages /\ Tail(m_recvMsgs) \in Seq(Items)
      /\ sent \in [Clients -> Seq(Messages)] /\ replies \in [Clients -> Seq(Messages \cup Answers)]
  BY <1>1, InHandProperties DEF IInv, Types
<1>3. m_recvMsgs' = Tail(m_recvMsgs) /\ UNCHANGED << m_sessions, sent >>
  BY DEF Done
<1>4. replies' = [replies EXCEPT ![a] = Append(@, reply)]
  BY <1>1 DEF Send
<1>5. PICK i \in Nat :
        /\ i \in 1..Len(sent[a]) /\ InHand = sent[a][i] /\ InHand \in ToSet(sent[a])
        /\ i \in Answerable(sent[a]) /\ Cardinality(UpTo(sent[a], i)) = Len(replies[a]) + 1
  BY <1>1, <1>2, InHandNumber
<1>6. reply \in ToSet(sent[a]) \cup Answers /\ reply \in Messages \cup Answers
  <2>1. CASE reply = InHand
    BY <1>2, <1>5, <2>1
  <2>2. CASE reply # InHand
    <3>1. Len(InHand.fields) >= 5 /\ InHand.fields \in Seq(Plain)
      BY <1>2, <2>2, MessageProperties
    <3>2. PICK row \in RowsOf(CertRequest(InHand.fields)) : reply = Answer(CertRequest(InHand.fields), row)
      BY <2>2
    <3>3. CertRequest(InHand.fields) \in Requests /\ row \in Certs
      BY <3>1, <3>2, CertRequestProperties
    <3> QED
      BY <3>2, <3>3 DEF Answers
  <2> QED
    BY <2>1, <2>2
<1> DEFINE R == replies[a]
           RT == Append(R, reply)
<1>7. /\ R \in Seq(Messages \cup Answers) /\ RT \in Seq(Messages \cup Answers)
      /\ Len(R) \in Nat /\ Len(RT) = Len(R) + 1 /\ RT[Len(RT)] = reply
      /\ \A j \in 1..Len(R) : RT[j] = R[j]
  <2>1. R \in Seq(Messages \cup Answers)
    BY <1>2
  <2> HIDE DEF R
  <2> QED
    BY <1>6, <2>1, LenProperties, AppendProperties
<1>8. /\ replies' \in [Clients -> Seq(Messages \cup Answers)]
      /\ replies'[a] = RT /\ \A c \in Clients \ {a} : replies'[c] = replies[c]
  BY <1>2, <1>4, <1>7
<1> HIDE DEF R, RT
<1>9. Types'
  <2>1. \A c \in Clients : \A j \in 1..Len(replies'[c]) : replies'[c][j] \in ToSet(sent[c]) \cup Answers
    <3>1. \A c \in Clients : \A j \in 1..Len(replies[c]) : replies[c][j] \in ToSet(sent[c]) \cup Answers
      BY <1>2 DEF Types
    <3>2. \A j \in 1..Len(RT) : RT[j] \in ToSet(sent[a]) \cup Answers
      <4> SUFFICES ASSUME NEW j \in 1..Len(RT) PROVE RT[j] \in ToSet(sent[a]) \cup Answers
        OBVIOUS
      <4>1. j = Len(RT) \/ j \in 1..Len(R)
        BY <1>7
      <4>2. j \in 1..Len(R) => R[j] \in ToSet(sent[a]) \cup Answers
        BY <1>2, <3>1 DEF R
      <4> QED
        BY <1>6, <1>7, <4>1, <4>2
    <3> QED
      BY <1>8, <3>1, <3>2
  <2> QED
    BY <1>2, <1>3, <1>8, <2>1 DEF Types
<1>10. InWork'
  BY DEF InWork
<1>11. Numbering'
  <2>1. Len(replies'[a]) = Len(replies[a]) + 1
    BY <1>7, <1>8 DEF R
  <2>2. \A c \in Clients \ {Asker} : replies'[c] = replies[c]
    BY <1>1, <1>8
  <2>3. Asker \in m_sessions => Len(replies'[Asker]) = Len(replies[Asker]) + (IF CallsForReply(InHand) THEN 1 ELSE 0)
    BY <1>1, <2>1
  <2> QED
    BY <1>2, <2>2, <2>3, DoneNumbering
<1>12. LastFits'
  <2> SUFFICES ASSUME NEW c \in Clients, replies'[c] # << >>
               PROVE  \/ replies'[c][Len(replies'[c])] \in Messages
                      \/ \E k \in Nat : Fits(sent[c], replies'[c][Len(replies'[c])], Len(replies'[c]), k)
    BY <1>3 DEF LastFits
  <2>1. CASE c # a
    BY <1>8, <2>1 DEF IInv, LastFits
  <2>2. CASE c = a
    <3>1. replies'[c][Len(replies'[c])] = reply /\ Len(replies'[c]) = Len(replies[a]) + 1
      BY <1>7, <1>8, <2>2 DEF R
    <3>2. CASE reply = InHand
      BY <1>2, <3>1, <3>2
    <3>3. CASE reply # InHand
      <4>1. Fits(sent[a], reply, Len(replies[a]) + 1, i)
        BY <1>5, <3>3 DEF Fits
      <4> QED
        BY <2>2, <3>1, <4>1
    <3> QED
      BY <3>2, <3>3
  <2> QED
    BY <2>1, <2>2
<1> QED
  BY <1>9, <1>10, <1>11, <1>12 DEF IInv

-----------------------------------------------------------------------------
(* Every step keeps the invariant.                                          *)
LEMMA NextInv ==
  IInv /\ [Next]_vars => IInv'
<1> SUFFICES ASSUME IInv, [Next]_vars PROVE IInv'
  OBVIOUS
<1>1. ASSUME NEW c \in Clients, OnClose(c) PROVE IInv'
  BY <1>1, OnCloseInv
<1>2. ASSUME NEW c \in Clients, NEW message \in Messages, Asks(c, message) PROVE IInv'
  BY <1>2, AsksInv
<1>3. CASE DispatchDrops
  BY <1>3, DoneSilently DEF DispatchDrops
<1>4. CASE DispatchEchoes
  <2>1. /\ m_recvMsgs # << >> /\ Done /\ Send(InHand) /\ tick' = "idle" /\ UNCHANGED << req, res >>
        /\ Asker \in Heeded /\ CallsForReply(InHand)
    BY <1>4 DEF DispatchEchoes, Dispatches, Heeded, CallsForReply
  <2> QED
    BY <2>1, DoneWithReply
<1>5. CASE DispatchIgnores
  <2>1. Dispatches /\ Done /\ UNCHANGED << tick, req, res, replies >>
    BY <1>5 DEF DispatchIgnores
  <2>2. InHand \in Messages
    BY <2>1, InHandProperties DEF IInv, Dispatches
  <2>3. InHand.type # "other" /\ (InHand.type = "short" \/ ~(Len(splitFields(DecryptAuthData(InHand.authData))) >= 5))
    BY <1>5 DEF DispatchIgnores, FieldsSuffice, Fields
  <2>4. ~CallsForReply(InHand)
    <3> DEFINE m == InHand
    <3>1. m \in Messages
      BY <2>2
    <3>2. m.type # "other" /\ (m.type = "short" \/ ~(Len(splitFields(DecryptAuthData(m.authData))) >= 5))
      BY <2>3
    <3> HIDE DEF m
    <3>3. m.type = "request" => ~(Len(m.fields) >= 5)
      <4> SUFFICES ASSUME m.type = "request" PROVE ~(Len(m.fields) >= 5)
        OBVIOUS
      <4>1. m.fields \in Seq(Plain) /\
            \/ splitFields(DecryptAuthData(m.authData)) = m.fields
            \/ Len(m.fields) < 5
        BY <3>1, MessageProperties
      <4>2. Len(m.fields) \in Nat
        BY <4>1, LenProperties
      <4>3. CASE splitFields(DecryptAuthData(m.authData)) = m.fields
        BY <3>2, <4>3
      <4>4. CASE Len(m.fields) < 5
        BY <4>2, <4>4
      <4> QED
        BY <4>1, <4>3, <4>4
    <3> QED
      BY <3>2, <3>3 DEF CallsForReply, m
  <2> QED
    BY <2>1, <2>4, DoneSilently
<1>6. CASE DispatchParses
  <2>1. /\ m_recvMsgs # << >> /\ Asker \in m_sessions /\ tick = "idle" /\ tick' = "certify" /\ res' = NoCert
        /\ UNCHANGED << m_sessions, m_recvMsgs, sent, replies >>
    BY <1>6 DEF DispatchParses, Dispatches
  <2>2. /\ InHand.type = "request" /\ Len(splitFields(DecryptAuthData(InHand.authData))) >= 5
        /\ req' = CertRequest(splitFields(DecryptAuthData(InHand.authData)))
    BY <1>6 DEF DispatchParses, FieldsSuffice, Fields
  <2>3. InHand.fields \in Seq(Plain) /\ Len(InHand.fields) >= 5 /\ req' = CertRequest(InHand.fields)
    <3> DEFINE m == InHand
               f == splitFields(DecryptAuthData(m.authData))
    <3>1. m \in Messages /\ m.type = "request"
      BY <2>1, <2>2, InHandProperties DEF IInv
    <3>2. Len(f) >= 5 /\ req' = CertRequest(f)
      BY <2>2
    <3>3. m.fields \in Seq(Plain) /\ (f = m.fields \/ Len(f) < 5)
      <4> HIDE DEF m
      <4> QED
        BY <3>1, MessageProperties
    <3>4. f = m.fields
      <4>1. CASE f = m.fields
        BY <4>1
      <4>2. CASE Len(f) < 5
        BY <3>2, <4>2
      <4> QED
        BY <3>3, <4>1, <4>2
    <3> QED
      BY <3>2, <3>3, <3>4
  <2>4. req' \in Requests /\ NoCert \in RowsOf(req') /\ NoCert \in Certs
    BY <2>3, CertRequestProperties
  <2>5. Types'
    BY <2>1, <2>4 DEF IInv, Types
  <2>6. InWork'
    <3>1. InHand' = InHand
      BY <2>1 DEF InHand
    <3> QED
      BY <2>1, <2>2, <2>3, <2>4, <3>1 DEF InWork
  <2>7. Numbering'
    <3>1. Heeded' = Heeded
      BY <2>1 DEF Heeded, Asker
    <3> QED
      BY <2>1, <3>1 DEF IInv, Numbering
  <2>8. LastFits'
    BY <2>1 DEF IInv, LastFits
  <2> QED
    BY <2>5, <2>6, <2>7, <2>8 DEF IInv
<1>7. CASE ProcessCertificationForAuth
  <2>1. tick = "certify" /\ tick' = "answer" /\ UNCHANGED << m_sessions, m_recvMsgs, req, sent, replies >>
    BY <1>7 DEF ProcessCertificationForAuth
  <2>2. /\ m_recvMsgs # << >> /\ InHand.type = "request" /\ Len(InHand.fields) >= 5
        /\ req = CertRequest(InHand.fields) /\ res \in RowsOf(req)
    BY <2>1 DEF IInv, InWork
  <2>3. res' \in RowsOf(req)
    BY <1>7, <2>2 DEF ProcessCertificationForAuth, RowsOf
  <2>4. res' \in Certs
    <3>1. InHand.fields \in Seq(Plain)
      BY <2>2, InHandProperties, MessageProperties DEF IInv
    <3> QED
      BY <2>2, <2>3, <3>1, CertRequestProperties
  <2>5. Types'
    BY <2>1, <2>4 DEF IInv, Types
  <2>6. InWork'
    <3>1. InHand' = InHand
      BY <2>1 DEF InHand
    <3> QED
      BY <2>1, <2>2, <2>3, <3>1 DEF InWork
  <2>7. Numbering'
    <3>1. Heeded' = Heeded
      BY <2>1 DEF Heeded, Asker
    <3> QED
      BY <2>1, <3>1 DEF IInv, Numbering
  <2>8. LastFits'
    BY <2>1 DEF IInv, LastFits
  <2> QED
    BY <2>5, <2>6, <2>7, <2>8 DEF IInv
<1>8. CASE DispatchAnswers
  <2>1. tick = "answer" /\ tick' = "idle" /\ Send(Answer(req, res)) /\ Done /\ UNCHANGED << req, res >>
    BY <1>8 DEF DispatchAnswers
  <2>2. /\ m_recvMsgs # << >> /\ InHand.type = "request" /\ Len(InHand.fields) >= 5
        /\ req = CertRequest(InHand.fields) /\ res \in RowsOf(req)
    BY <2>1 DEF IInv, InWork
  <2>3. Asker \in Heeded /\ CallsForReply(InHand)
    BY <2>1, <2>2 DEF Heeded, CallsForReply
  <2>4. \E row \in RowsOf(CertRequest(InHand.fields)) : Answer(req, res) = Answer(CertRequest(InHand.fields), row)
    BY <2>2
  <2> QED
    BY <2>1, <2>2, <2>3, <2>4, DoneWithReply
<1>9. CASE UNCHANGED vars
  <2>1. UNCHANGED << m_sessions, m_recvMsgs, tick, req, res, sent, replies >>
    BY <1>9 DEF vars
  <2>2. Types' /\ InWork'
    BY <2>1 DEF IInv, Types, InWork, InHand
  <2>3. Numbering'
    <3>1. Heeded' = Heeded
      BY <2>1 DEF Heeded, Asker
    <3> QED
      BY <2>1, <3>1 DEF IInv, Numbering
  <2>4. LastFits'
    BY <2>1 DEF IInv, LastFits
  <2> QED
    BY <2>2, <2>3, <2>4 DEF IInv
<1> QED
  BY <1>1, <1>2, <1>3, <1>4, <1>5, <1>6, <1>7, <1>8, <1>9 DEF Next

(* The invariant holds throughout.                                          *)
LEMMA Invariance ==
  Spec => []IInv
<1> QED
  BY InitInv, NextInv, PTL DEF Spec

-----------------------------------------------------------------------------
(* Whatever the others send, the queue holds only what they sent, and every *)
(* reply is one of their messages or fits its fields                        *)
(* (auth_server.cpp:128-182).                                               *)
THEOREM AuthTypeCorrect ==
  Spec => []TypeOK
<1>1. IInv => TypeOK
  <2> SUFFICES ASSUME IInv PROVE TypeOK
    OBVIOUS
  <2> USE DEF IInv
  <2>1. \A i \in DOMAIN m_recvMsgs :
          m_recvMsgs[i].client \in Clients /\ m_recvMsgs[i].message \in ToSet(sent[m_recvMsgs[i].client])
    <3> DEFINE Q == m_recvMsgs
    <3>1. Q \in Seq(Items) /\ sent \in [Clients -> Seq(Messages)] /\ DOMAIN Q = 1..Len(Q)
      BY LenProperties DEF Types
    <3>2. PICK num, h : Numbered(num, h, Q, sent)
      BY DEF Numbering
    <3> SUFFICES ASSUME NEW i \in 1..Len(Q)
                 PROVE  Q[i].client \in Clients /\ Q[i].message \in ToSet(sent[Q[i].client])
      BY <3>1
    <3>3. Q[i] \in Items
      BY <3>1, LenProperties
    <3> DEFINE c == Q[i].client
               k == num[i]
    <3>4. c \in Clients
      BY <3>3 DEF Items
    <3>5. h[c] < k /\ k <= Len(sent[c]) /\ Q[i].message = sent[c][k] /\ h[c] \in Nat /\ k \in Nat
      BY <3>2, <3>4, LenProperties DEF Numbered
    <3> HIDE DEF c, k, Q
    <3>6. k \in DOMAIN sent[c]
      <4>1. DOMAIN sent[c] = 1..Len(sent[c]) /\ Len(sent[c]) \in Nat
        BY <3>1, <3>4, LenProperties
      <4> QED
        BY <3>5, <4>1
    <3> QED
      BY <3>4, <3>5, <3>6 DEF ToSet, c
  <2>2. req.ip \in Texts /\ req.uniqKey \in Texts /\ req.isSessionSvr \in {0, 1}
    BY PlainTexts DEF Types, Requests
  <2>3. res.certification \in {0, 1} /\ res.newUniqKey \in Texts
    BY PlainTexts DEF Types, Certs
  <2>4. \A c \in Clients : \A i \in DOMAIN replies[c] :
          \/ replies[c][i] \in ToSet(sent[c])
          \/ /\ Len(replies[c][i].authData) <= AUTH_DATA_LENGTH
             /\ Len(replies[c][i].serverIP) <= MAX_IP_LENGTH
    <3>1. \A a \in Answers : Len(a.authData) <= AUTH_DATA_LENGTH /\ Len(a.serverIP) <= MAX_IP_LENGTH
      BY AnswerProperties DEF Answers
    <3>2. \A c \in Clients : DOMAIN replies[c] = 1..Len(replies[c])
      <4>1. \A c \in Clients : replies[c] \in Seq(Messages \cup Answers)
        BY DEF Types
      <4> QED
        BY <4>1, LenProperties
    <3>3. \A c \in Clients : \A i \in 1..Len(replies[c]) : replies[c][i] \in ToSet(sent[c]) \cup Answers
      BY DEF Types
    <3> HIDE DEF IInv
    <3> QED
      BY <3>1, <3>2, <3>3
  <2> QED
    BY <2>1, <2>2, <2>3, <2>4 DEF TypeOK, Types
<1> QED
  BY <1>1, Invariance, PTL

(* Whatever the database does, every message that calls for a reply gets one*)
(* while its session is there, and no other does (auth_server.cpp:128-182). *)
THEOREM EveryRequestAnsweredCorrect ==
  Spec => []EveryRequestAnswered
<1>1. IInv => EveryRequestAnswered
  <2> SUFFICES ASSUME IInv, NEW c \in m_sessions
               PROVE  Len(replies[c]) + Cardinality(Waiting(c)) = Cardinality(Answerable(sent[c]))
    BY DEF EveryRequestAnswered
  <2> DEFINE Q == m_recvMsgs
             S == sent
  <2>1. Q \in Seq(Items) /\ S \in [Clients -> Seq(Messages)] /\ c \in Clients /\ c \in Heeded
    BY DEF IInv, Types, Heeded
  <2>2. PICK num, h : Numbered(num, h, Q, S) /\ Counts(h, S, replies, Heeded)
    BY DEF IInv, Numbering
  <2>3. Len(replies[c]) = Cardinality(UpTo(S[c], h[c]))
    BY <2>1, <2>2 DEF Counts
  <2>4. Waiting(c) = {q \in DOMAIN Q : Q[q].client = c /\ CallsForReply(Q[q].message)}
    BY DEF Waiting
  <2> HIDE DEF Q, S
  <2>5. Cardinality(UpTo(S[c], h[c])) + Cardinality({q \in DOMAIN Q : Q[q].client = c /\ CallsForReply(Q[q].message)})
          = Cardinality(Answerable(S[c]))
    BY <2>1, <2>2, NumberedCounts
  <2> QED
    BY <2>3, <2>4, <2>5 DEF S
<1> QED
  BY <1>1, Invariance, PTL

(* The request that the last reply answers, if that is an answer.           *)
LEMMA LastAnswer ==
  ASSUME IInv, NEW c \in Answered
  PROVE  /\ Request(c).fields \in Seq(Plain) /\ Len(Request(c).fields) >= 5
         /\ \E row \in RowsOf(CertRequest(Request(c).fields)) : AnswerTo(c) = Answer(CertRequest(Request(c).fields), row)
<1>1. /\ c \in Clients /\ replies[c] # << >> /\ IsAnswer(AnswerTo(c))
      /\ AnswerTo(c) = replies[c][Len(replies[c])]
  BY DEF Answered, AnswerTo, Last
<1> DEFINE s == sent[c]
           n == Len(replies[c])
           reply == AnswerTo(c)
<1>2. s \in Seq(Messages)
  BY <1>1 DEF IInv, Types
<1>3. reply \notin Messages
  <2> HIDE DEF reply
  <2>1. IsAnswer(reply)
    BY <1>1 DEF reply
  <2> QED
    BY <2>1, MessageProperties DEF IsAnswer
<1>4. PICK i \in Nat : Fits(s, reply, n, i)
  BY <1>1, <1>3 DEF IInv, LastFits
<1>5. Request(c) = s[CHOOSE j \in Answerable(s) : Cardinality(UpTo(s, j)) = n]
  BY DEF Request, UpTo
<1> HIDE DEF s, n, reply
<1>6. i \in Answerable(s) /\ Cardinality(UpTo(s, i)) = n
  BY <1>4 DEF Fits
<1>7. \A j \in Answerable(s) : Cardinality(UpTo(s, j)) = n => j = i
  BY <1>2, <1>6, UpToTells
<1>8. (CHOOSE j \in Answerable(s) : Cardinality(UpTo(s, j)) = n) = i
  BY <1>6, <1>7
<1>9. Request(c) = s[i] /\ s[i] \in Messages
  <2>1. DOMAIN s = 1..Len(s)
    BY <1>2, LenProperties
  <2> QED
    BY <1>2, <1>5, <1>6, <1>8, <2>1, LenProperties DEF Answerable
<1>10. Request(c).fields \in Seq(Plain)
  BY <1>9, MessageProperties
<1> QED
  BY <1>4, <1>9, <1>10 DEF Fits, reply

(* An answer, decrypted, says of the request that it answers what this one  *)
(* said, or nothing if it was cut (auth_server.cpp:149-181,                 *)
(* auth_crypto.cpp:93-164).                                                 *)
THEOREM AnswerReadsBackCorrect ==
  Spec => []AnswerReadsBack
<1>1. IInv => AnswerReadsBack
  <2> SUFFICES ASSUME IInv, NEW c \in Answered
               PROVE  LET f == ReadBack(c)
                          own == Request(c).fields
                      IN  IF Len(AnswerTo(c).authData) = AUTH_DATA_LENGTH THEN f = << << >> >> ELSE
                            /\ Len(f) = 6
                            /\ f[3] = own[3]
                            /\ \A i \in {1, 2, 4} : atoi(f[i]) = atoi(own[i])
    BY DEF AnswerReadsBack
  <2> DEFINE own == Request(c).fields
             reply == AnswerTo(c)
  <2>1. own \in Seq(Plain) /\ Len(own) >= 5
    BY LastAnswer
  <2>2. PICK row \in RowsOf(CertRequest(own)) : reply = Answer(CertRequest(own), row)
    BY LastAnswer
  <2>3. ReadBack(c) = splitFields(DecryptAuthData(reply.authData))
    BY DEF ReadBack
  <2> HIDE DEF own, reply
  <2>4. LET f == splitFields(DecryptAuthData(reply.authData))
        IN  IF Len(reply.authData) = AUTH_DATA_LENGTH THEN f = << << >> >> ELSE
              /\ Len(f) = 6
              /\ f[3] = own[3]
              /\ \A i \in {1, 2, 4} : atoi(f[i]) = atoi(own[i])
    BY <2>1, <2>2, AnswerRepeats
  <2> QED
    BY <2>3, <2>4 DEF own, reply
<1> QED
  BY <1>1, Invariance, PTL

(* Certified is only who sent the key that the procedure certified, and     *)
(* nobody gets another one's key or session id                              *)
(* (auth_server.cpp:149-179, 187-210).                                      *)
THEOREM CertifiedByOwnKeyCorrect ==
  Spec => []CertifiedByOwnKey
<1>1. IInv => CertifiedByOwnKey
  <2> SUFFICES ASSUME IInv, NEW c \in Answered
               PROVE  LET f == ReadBack(c)
                          own == Request(c).fields
                      IN  /\ AnswerTo(c).sessionSvrId \in {0} \cup
                               (IF atoi(own[2]) = SERVER_SESSION THEN {atoi(own[4]) + 1000} ELSE {})
                          /\ Len(f) = 6 => /\ atoi(f[6]) # 0 => own[5] = GOODKEY
                                           /\ f[5] \in {<< >>, own[5] \o NewSuffix}
    BY DEF CertifiedByOwnKey
  <2> DEFINE own == Request(c).fields
             reply == AnswerTo(c)
  <2>1. own \in Seq(Plain) /\ Len(own) >= 5
    BY LastAnswer
  <2>2. PICK row \in RowsOf(CertRequest(own)) : reply = Answer(CertRequest(own), row)
    BY LastAnswer
  <2>3. ReadBack(c) = splitFields(DecryptAuthData(reply.authData))
    BY DEF ReadBack
  <2> HIDE DEF own, reply
  <2>4. LET f == splitFields(DecryptAuthData(reply.authData))
        IN  /\ reply.sessionSvrId \in {0} \cup
                 (IF atoi(own[2]) = SERVER_SESSION THEN {atoi(own[4]) + 1000} ELSE {})
            /\ Len(f) = 6 => /\ atoi(f[6]) # 0 => own[5] = GOODKEY
                             /\ f[5] \in {<< >>, own[5] \o NewSuffix}
    BY <2>1, <2>2, AnswerRepeats
  <2> QED
    BY <2>3, <2>4 DEF own, reply
<1> QED
  BY <1>1, Invariance, PTL
=============================================================================
