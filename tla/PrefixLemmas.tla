---------------------------- MODULE PrefixLemmas ----------------------------
(***************************************************************************)
(* What the proofs about several components need of sequences and of       *)
(* natural numbers: being a prefix, said index by index (what was written, *)
(* what was received), how often an element occurs in a queue, and         *)
(* induction, for a set of numbers instead of a predicate.                 *)
(***************************************************************************)
EXTENDS Naturals, SequenceTheorems, FiniteSetTheorems, WellFoundedInduction, TLAPS

Agrees(s, t) == Len(s) <= Len(t) /\ \A i \in 1..Len(s) : s[i] = t[i]

(* A sequence that agrees with another is its beginning.                    *)
LEMMA AgreesIsBeginning ==
  ASSUME NEW S, NEW s \in Seq(S), NEW t \in Seq(S), Agrees(s, t)
  PROVE  s = SubSeq(t, 1, Len(s))
<1>1. Len(s) \in Nat /\ Len(t) \in Nat /\ Len(s) <= Len(t) /\ \A i \in 1..Len(s) : t[i] = s[i]
  BY LenProperties DEF Agrees
<1>2. \A i \in 1..Len(s) : t[i] \in S
  BY <1>1
<1>3. /\ SubSeq(t, 1, Len(s)) \in Seq(S)
      /\ Len(SubSeq(t, 1, Len(s))) = Len(s)
      /\ \A i \in 1..Len(s) : SubSeq(t, 1, Len(s))[i] = t[i]
  BY <1>1, <1>2, SubSeqProperties
<1> QED
  BY <1>1, <1>3, SeqEqual

(* Agreement survives when the longer sequence grows.                       *)
LEMMA AgreesAppend ==
  ASSUME NEW S, NEW s \in Seq(S), NEW t \in Seq(S), NEW x \in S, Agrees(s, t)
  PROVE  Agrees(s, Append(t, x))
<1>1. /\ Len(s) \in Nat /\ Len(t) \in Nat /\ Len(Append(t, x)) = Len(t) + 1
      /\ \A i \in 1..Len(t) : Append(t, x)[i] = t[i]
  BY LenProperties, AppendProperties
<1> QED
  BY <1>1 DEF Agrees

-----------------------------------------------------------------------------
(* The places of x in s.                                                    *)
Spots(s, x) == {i \in 1..Len(s) : s[i] = x}

(* A place is an index.                                                     *)
LEMMA SpotsFinite ==
  ASSUME NEW S, NEW s \in Seq(S), NEW x
  PROVE  IsFiniteSet(Spots(s, x)) /\ Cardinality(Spots(s, x)) \in Nat
<1>1. 1 \in Int /\ Len(s) \in Int
  BY LenProperties
<1>2. IsFiniteSet(1..Len(s))
  BY <1>1, FS_Interval
<1>3. Spots(s, x) \in SUBSET (1..Len(s))
  BY DEF Spots
<1> HIDE DEF Spots
<1>4. IsFiniteSet(Spots(s, x))
  BY <1>2, <1>3, FS_Subset
<1> QED
  BY <1>4, FS_CardinalityType

(* x occurs once more behind an x, and as often behind anything else.       *)
LEMMA SpotsAppend ==
  ASSUME NEW S, NEW s \in Seq(S), NEW x, NEW y \in S
  PROVE  Cardinality(Spots(Append(s, y), x)) = Cardinality(Spots(s, x)) + (IF y = x THEN 1 ELSE 0)
<1>1. /\ Len(s) \in Nat /\ Len(Append(s, y)) = Len(s) + 1 /\ Append(s, y)[Len(s) + 1] = y
      /\ \A i \in 1..Len(s) : Append(s, y)[i] = s[i]
  BY LenProperties, AppendProperties
<1>2. IsFiniteSet(Spots(s, x)) /\ Cardinality(Spots(s, x)) \in Nat /\ Len(s) + 1 \notin Spots(s, x)
  <2>1. IsFiniteSet(Spots(s, x)) /\ Cardinality(Spots(s, x)) \in Nat
    BY SpotsFinite
  <2>2. Len(s) + 1 \notin Spots(s, x)
    BY <1>1 DEF Spots
  <2> QED
    BY <2>1, <2>2
<1>3. CASE y = x
  <2>1. Spots(Append(s, y), x) = Spots(s, x) \cup {Len(s) + 1}
    BY <1>1, <1>3 DEF Spots
  <2> QED
    BY <1>2, <1>3, <2>1, FS_AddElement
<1>4. CASE y # x
  <2>1. Spots(Append(s, y), x) = Spots(s, x)
    BY <1>1, <1>4 DEF Spots
  <2> QED
    BY <1>2, <1>4, <2>1
<1> QED
  BY <1>3, <1>4

(* Without its first element a queue has one x less if that was x.          *)
LEMMA SpotsTail ==
  ASSUME NEW S, NEW s \in Seq(S), s # << >>, NEW x
  PROVE  Cardinality(Spots(s, x)) = Cardinality(Spots(Tail(s), x)) + (IF Head(s) = x THEN 1 ELSE 0)
<1> DEFINE n == Len(s)
           t == Tail(s)
           R == Spots(s, x) \ {1}
<1>1. /\ n \in Nat \ {0} /\ Head(s) = s[1] /\ t \in Seq(S) /\ Len(t) = n - 1
      /\ \A i \in 1..n - 1 : t[i] = s[i + 1]
  BY EmptySeq, LenProperties, HeadTailProperties
<1>2. IsFiniteSet(Spots(s, x)) /\ Cardinality(Spots(s, x)) \in Nat
  BY SpotsFinite
<1>3. IsFiniteSet(Spots(t, x)) /\ Cardinality(Spots(t, x)) \in Nat
  BY <1>1, SpotsFinite
<1>4. Spots(s, x) \subseteq 1..n /\ \A i \in 1..n : i \in Spots(s, x) <=> s[i] = x
  BY DEF Spots
<1>5. Spots(t, x) \subseteq 1..n - 1 /\ \A i \in 1..n - 1 : i \in Spots(t, x) <=> s[i + 1] = x
  BY <1>1 DEF Spots
<1> HIDE DEF n, t
<1>6. Cardinality(R) = Cardinality(Spots(t, x))
  <2> DEFINE f == [i \in Spots(t, x) |-> i + 1]
  <2>1. f \in Bijection(Spots(t, x), R)
    <3>1. \A i \in Spots(t, x) : f[i] = i + 1 /\ i + 1 \in R
      BY <1>1, <1>4, <1>5
    <3>2. \A j \in R : j - 1 \in Spots(t, x) /\ f[j - 1] = j
      <4>1. ASSUME NEW j \in R PROVE j - 1 \in Spots(t, x) /\ (j - 1) + 1 = j
        <5>1. j \in 2..n /\ s[j] = x
          BY <1>1, <1>4
        <5>2. j - 1 \in 1..n - 1 /\ (j - 1) + 1 = j
          BY <1>1, <5>1
        <5> QED
          BY <1>5, <5>1, <5>2
      <4> QED
        BY <4>1
    <3>3. \A i, j \in Spots(t, x) : f[i] = f[j] => i = j
      BY <1>1, <1>5
    <3> HIDE DEF R
    <3>4. f \in [Spots(t, x) -> R]
      BY <3>1
    <3> HIDE DEF f
    <3> QED
      BY <3>2, <3>3, <3>4 DEF Bijection, Injection, Surjection, IsInjective
  <2> HIDE DEF R, f
  <2>2. ExistsBijection(Spots(t, x), R)
    BY <2>1 DEF ExistsBijection
  <2> QED
    BY <1>3, <2>2, FS_Bijection
<1>7. Cardinality(R) = IF 1 \in Spots(s, x) THEN Cardinality(Spots(s, x)) - 1 ELSE Cardinality(Spots(s, x))
  BY <1>2, FS_RemoveElement
<1>8. 1 \in Spots(s, x) <=> Head(s) = x
  BY <1>1, <1>4
<1> HIDE DEF R
<1>9. Cardinality(Spots(s, x)) = Cardinality(Spots(t, x)) + (IF Head(s) = x THEN 1 ELSE 0)
  BY <1>2, <1>3, <1>6, <1>7, <1>8
<1> QED
  BY <1>9 DEF t

-----------------------------------------------------------------------------
(* A set with zero and the successor of each of its elements holds every    *)
(* number: were n missing, there would be no smallest 0..n with n missing.  *)
LEMMA SetInduction ==
  ASSUME NEW S \in SUBSET Nat, 0 \in S, \A n \in S : n + 1 \in S
  PROVE  S = Nat
<1> DEFINE T == {t \in SUBSET Nat : \E n \in Nat \ S : t = 0..n}
           R == StrictSubsetOrdering(Nat)
<1>1. SUFFICES ASSUME S # Nat
               PROVE  FALSE
  OBVIOUS
<1>2. T # {}
  <2>1. PICK n \in Nat : n \notin S
    BY <1>1
  <2>2. 0..n \in SUBSET Nat
    OBVIOUS
  <2>3. 0..n \in T
    BY <2>1, <2>2
  <2> QED
    BY <2>3
<1>3. T \subseteq FiniteSubsetsOf(Nat)
  BY FS_Interval DEF FiniteSubsetsOf
<1>4. PICK x \in T : \A y \in T : ~(<< y, x >> \in R)
  <2> HIDE DEF T
  <2> QED
    BY <1>2, <1>3, FS_StrictSubsetOrderingWellFounded, WFMin
<1>5. PICK n \in Nat \ S : x = 0..n
  OBVIOUS
<1>6. n # 0 /\ n - 1 \in Nat /\ n - 1 \notin S
  <2>1. n # 0
    OBVIOUS
  <2>2. n - 1 \in Nat
    BY <2>1
  <2>3. (n - 1) + 1 = n
    BY <2>2
  <2> QED
    BY <2>1, <2>2, <2>3
<1>7. 0..n - 1 \in T
  BY <1>6
<1>8. 0..n - 1 \subseteq 0..n /\ n \in 0..n /\ n \notin 0..n - 1
  OBVIOUS
<1>9. << 0..n - 1, x >> \in R
  BY <1>5, <1>7, <1>8 DEF StrictSubsetOrdering
<1> QED
  BY <1>4, <1>7, <1>9

(* A set of numbers that is not empty has a least element: were there none, *)
(* every number would be below all of the set.                              *)
LEMMA LeastElement ==
  ASSUME NEW A \in SUBSET Nat, A # {}
  PROVE  \E i \in A : \A j \in A : i <= j
<1> DEFINE S == {n \in Nat : \A j \in A : n <= j}
<1>1. SUFFICES ASSUME \A i \in A : \E j \in A : ~(i <= j)
               PROVE  FALSE
  OBVIOUS
<1>2. 0 \in S
  OBVIOUS
<1>3. ASSUME NEW n \in S PROVE n + 1 \in S
  <2>1. n \notin A
    BY <1>1
  <2>2. \A j \in A : n <= j /\ n # j
    BY <2>1
  <2> QED
    BY <2>2
<1>4. S \in SUBSET Nat
  OBVIOUS
<1>5. S = Nat
  <2> HIDE DEF S
  <2> QED
    BY <1>2, <1>3, <1>4, SetInduction
<1>6. PICK j \in A : TRUE
  OBVIOUS
<1>7. j \in Nat /\ j + 1 \in Nat
  OBVIOUS
<1>8. j + 1 <= j
  BY <1>5, <1>7
<1> QED
  BY <1>7, <1>8

(* Counting up to n reaches every number up to n.                           *)
LEMMA CountingUp ==
  ASSUME NEW S, NEW n \in Nat, 0 \in S, \A k \in 0..n - 1 : k \in S => k + 1 \in S
  PROVE  0..n \subseteq S
<1> DEFINE T == {k \in Nat : k <= n => k \in S}
<1>1. T \in SUBSET Nat /\ 0 \in T
  OBVIOUS
<1>2. ASSUME NEW k \in T PROVE k + 1 \in T
  <2>1. CASE k + 1 <= n
    <3>1. k \in 0..n - 1 /\ k \in S
      BY <2>1
    <3> QED
      BY <3>1
  <2> QED
    BY <2>1
<1>3. T = Nat
  <2> HIDE DEF T
  <2> QED
    BY <1>1, <1>2, SetInduction
<1> QED
  BY <1>3

(* Counting in steps of any size: a number is in the set once all smaller   *)
(* ones are.                                                                *)
LEMMA CountingFromBelow ==
  ASSUME NEW S, \A n \in Nat : 0..n - 1 \subseteq S => n \in S
  PROVE  Nat \subseteq S
<1> DEFINE T == {k \in Nat : 0..k - 1 \subseteq S}
<1>1. T \in SUBSET Nat /\ 0 \in T
  OBVIOUS
<1>2. ASSUME NEW k \in T PROVE k + 1 \in T
  <2>1. k \in S
    OBVIOUS
  <2>2. 0..(k + 1) - 1 = (0..k - 1) \cup {k}
    OBVIOUS
  <2> QED
    BY <2>1, <2>2
<1>3. T = Nat
  <2> HIDE DEF T
  <2> QED
    BY <1>1, <1>2, SetInduction
<1> QED
  BY <1>3

-----------------------------------------------------------------------------
(* A function may be defined by its value at 0 and by what a step makes of  *)
(* each value: what a loop computes.                                        *)
Follows(f, n, x0, step) == f[0] = x0 /\ \A k \in 0..n - 1 : f[k + 1] = step[k][f[k]]

(* Up to any number, there is such a function.                              *)
LEMMA LoopTo ==
  ASSUME NEW D, NEW x0 \in D, NEW step \in [Nat -> [D -> D]], NEW n \in Nat
  PROVE  \E f \in [0..n -> D] : Follows(f, n, x0, step)
<1> DEFINE S == {k \in Nat : \E f \in [0..k -> D] : Follows(f, k, x0, step)}
<1>1. 0 \in S
  <2>1. [k \in 0..0 |-> x0] \in [0..0 -> D] /\ Follows([k \in 0..0 |-> x0], 0, x0, step)
    BY DEF Follows
  <2> QED
    BY <2>1
<1>2. ASSUME NEW k \in S PROVE k + 1 \in S
  <2>1. PICK f \in [0..k -> D] : Follows(f, k, x0, step)
    OBVIOUS
  <2> DEFINE g == [i \in 0..k + 1 |-> IF i <= k THEN f[i] ELSE step[k][f[k]]]
  <2>2. k \in Nat /\ f[k] \in D /\ step[k] \in [D -> D]
    OBVIOUS
  <2>3. g \in [0..k + 1 -> D]
    <3>1. step[k][f[k]] \in D
      BY <2>2
    <3>2. \A i \in 0..k + 1 : i <= k => i \in 0..k
      BY <2>2
    <3> QED
      BY <3>1, <3>2
  <2>4. Follows(g, k + 1, x0, step)
    <3>1. g[0] = x0
      BY <2>1, <2>2 DEF Follows
    <3>2. ASSUME NEW i \in 0..(k + 1) - 1 PROVE g[i + 1] = step[i][g[i]]
      <4>1. i \in 0..k /\ g[i] = f[i] /\ i + 1 \in 0..k + 1
        BY <2>2
      <4>2. CASE i = k
        <5>1. g[i + 1] = step[k][f[k]]
          BY <2>2, <4>2
        <5> QED
          BY <4>1, <4>2, <5>1
      <4>3. CASE i # k
        <5>1. i \in 0..k - 1 /\ g[i + 1] = f[i + 1]
          BY <2>2, <4>1, <4>3
        <5> QED
          BY <2>1, <4>1, <5>1 DEF Follows
      <4> QED
        BY <4>2, <4>3
    <3> HIDE DEF g
    <3> QED
      BY <3>1, <3>2 DEF Follows
  <2> HIDE DEF g
  <2> QED
    BY <2>2, <2>3, <2>4
<1>3. S = Nat
  <2>1. S \in SUBSET Nat
    OBVIOUS
  <2> HIDE DEF S
  <2> QED
    BY <1>1, <1>2, <2>1, SetInduction
<1> QED
  BY <1>3

(* Two functions with the same beginning and the same steps are the same.   *)
LEMMA SameLoop ==
  ASSUME NEW f, NEW g, NEW n \in Nat, f[0] = g[0],
         \A k \in 0..n - 1 : f[k] = g[k] => f[k + 1] = g[k + 1]
  PROVE  \A k \in 0..n : f[k] = g[k]
<1> DEFINE S == {k \in Nat : f[k] = g[k]}
<1>1. 0..n \subseteq S
  <2>1. 0 \in S /\ \A k \in 0..n - 1 : k \in S => k + 1 \in S
    OBVIOUS
  <2> HIDE DEF S
  <2> QED
    BY <2>1, CountingUp
<1> QED
  BY <1>1

StepsOn(D) == [Nat -> [D -> D]]

LoopRuns(f, D, x0, step) == f \in [Nat -> D] /\ f[0] = x0 /\ \A k \in Nat : f[k + 1] = step[k][f[k]]

(* For all numbers, there is such a function.                               *)
LEMMA Loop ==
  ASSUME NEW D, NEW x0 \in D, NEW step \in StepsOn(D)
  PROVE  \E f : LoopRuns(f, D, x0, step)
<1>0. step \in [Nat -> [D -> D]]
  BY DEF StepsOn
<1> DEFINE to(n) == CHOOSE f \in [0..n -> D] : Follows(f, n, x0, step)
           g == [n \in Nat |-> to(n)[n]]
<1>1. \A n \in Nat : to(n) \in [0..n -> D] /\ Follows(to(n), n, x0, step)
  BY <1>0, LoopTo
<1> HIDE DEF to
<1>2. ASSUME NEW n \in Nat PROVE to(n + 1)[n] = to(n)[n]
  <2> DEFINE a == to(n + 1)
             b == to(n)
  <2>1. a[0] = b[0] /\ \A k \in 0..n - 1 : a[k] = b[k] => a[k + 1] = b[k + 1]
    <3>1. n + 1 \in Nat /\ \A k \in 0..n - 1 : k \in 0..(n + 1) - 1
      OBVIOUS
    <3>2. Follows(a, n + 1, x0, step) /\ Follows(b, n, x0, step)
      BY <1>1, <3>1
    <3> HIDE DEF a, b
    <3> QED
      BY <3>1, <3>2 DEF Follows
  <2> HIDE DEF a, b
  <2>2. \A k \in 0..n : a[k] = b[k]
    BY <2>1, SameLoop
  <2>3. n \in 0..n
    OBVIOUS
  <2>4. a[n] = b[n]
    BY <2>2, <2>3
  <2> QED
    BY <2>4 DEF a, b
<1>3. g \in [Nat -> D]
  BY <1>1
<1>4. g[0] = x0
  BY <1>1 DEF Follows
<1>5. ASSUME NEW k \in Nat PROVE g[k + 1] = step[k][g[k]]
  <2>1. g[k + 1] = to(k + 1)[k + 1] /\ g[k] = to(k)[k]
    OBVIOUS
  <2>2. to(k + 1)[k + 1] = step[k][to(k + 1)[k]]
    BY <1>1 DEF Follows
  <2> QED
    BY <1>2, <2>1, <2>2
<1> HIDE DEF g
<1>6. LoopRuns(g, D, x0, step)
  BY <1>3, <1>4, <1>5 DEF LoopRuns
<1> QED
  BY <1>6

LoopsTo(f, n, D, x0, step) ==
  f \in [0..n -> D] /\ \A k \in 0..n : f[k] = IF k = 0 THEN x0 ELSE step[k][f[k - 1]]

(* The same, in the form of a recursive function of 0..n.                   *)
LEMMA LoopFrom ==
  ASSUME NEW D, NEW x0 \in D, NEW n \in Nat, NEW step \in StepsOn(D)
  PROVE  \E f : LoopsTo(f, n, D, x0, step)
<1> DEFINE next == [k \in Nat |-> step[k + 1]]
<1>1. next \in [Nat -> [D -> D]]
  <2>1. \A k \in Nat : step[k + 1] \in [D -> D]
    BY DEF StepsOn
  <2> QED
    BY <2>1
<1>2. \A k \in 1..n : k - 1 \in Nat /\ k - 1 \in 0..n - 1 /\ (k - 1) + 1 = k /\ next[k - 1] = step[k]
  OBVIOUS
<1> HIDE DEF next
<1>3. PICK f \in [0..n -> D] : Follows(f, n, x0, next)
  BY <1>1, LoopTo
<1>4. ASSUME NEW k \in 0..n PROVE f[k] = IF k = 0 THEN x0 ELSE step[k][f[k - 1]]
  <2>1. CASE k = 0
    BY <1>3, <2>1 DEF Follows
  <2>2. CASE k # 0
    <3>1. k \in 1..n
      BY <2>2
    <3>2. f[(k - 1) + 1] = next[k - 1][f[k - 1]]
      BY <1>2, <1>3, <3>1 DEF Follows
    <3> QED
      BY <1>2, <2>2, <3>1, <3>2
  <2> QED
    BY <2>1, <2>2
<1>5. LoopsTo(f, n, D, x0, step)
  BY <1>3, <1>4 DEF LoopsTo
<1> QED
  BY <1>5
=============================================================================
