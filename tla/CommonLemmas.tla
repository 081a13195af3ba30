---------------------------- MODULE CommonLemmas ----------------------------
(***************************************************************************)
(* Facts the proofs share: least and greatest numbers of a set, induction  *)
(* over a set of naturals, and what a send and a receive do to the set of  *)
(* messages of a Go channel, which is a sequence.                          *)
(***************************************************************************)
EXTENDS Integers, Sequences, Functions, Sums, Sorting, SequenceTheorems,
        FiniteSetTheorems, WellFoundedInduction, TLAPS

(* A non-empty set of naturals has a least element.                        *)
LEMMA LeastNat ==
  ASSUME NEW S, S \subseteq Nat, S # {}
  PROVE  \E x \in S : \A y \in S : x <= y
<1>1. PICK x \in S : \A y \in S : ~ (<<y, x>> \in OpToRel(<, Nat))
  BY NatLessThanWellFounded, WFMin
<1>2. \A y \in S : ~ (y < x)
  BY <1>1 DEF OpToRel
<1> QED
  BY <1>2

(* A non-empty set of naturals with a bound has a greatest element.        *)
LEMMA GreatestNat ==
  ASSUME NEW n \in Nat, NEW S, S \subseteq 0..n, S # {}
  PROVE  \E x \in S : \A y \in S : y <= x
<1> DEFINE T == {n - x : x \in S}
<1>1. T \subseteq Nat /\ T # {}
  <2>1. \A x \in S : x \in 0..n /\ n - x \in Nat
    OBVIOUS
  <2> QED
    BY <2>1
<1>2. \E t \in T : \A y \in T : t <= y
  <2> HIDE DEF T
  <2> QED
    BY <1>1, LeastNat
<1>3. PICK x \in S : \A y \in S : n - x <= n - y
  BY <1>2
<1> QED
  BY <1>3

(* Induction: a set that holds 0, and n + 1 whenever it holds n, holds     *)
(* every natural.                                                          *)
LEMMA SetInduction ==
  ASSUME NEW S, 0 \in S, \A n \in Nat : n \in S => n + 1 \in S
  PROVE  \A n \in Nat : n \in S
<1> DEFINE T == Nat \ S
<1>1. SUFFICES ASSUME T # {} PROVE FALSE
  OBVIOUS
<1>2. T \subseteq Nat
  OBVIOUS
<1>3. PICK x \in T : \A y \in T : x <= y
  <2> HIDE DEF T
  <2> QED
    BY <1>1, <1>2, LeastNat
<1>4. x - 1 \in Nat /\ x - 1 \notin T /\ (x - 1) + 1 = x
  BY <1>3
<1> QED
  BY <1>3, <1>4

(* Integer division: the quotient reaches a number when the number times   *)
(* the divisor is reached, and stays at or below it when it is not passed. *)
LEMMA Quotient ==
  ASSUME NEW a \in Int, NEW b \in Nat, b > 0, NEW d \in Int
  PROVE  /\ a \div b \in Int
         /\ d * b <= a => a \div b >= d
         /\ a <= d * b => a \div b <= d
<1> DEFINE q == a \div b
<1>1. q \in Int /\ q * b <= a /\ a < (q + 1) * b
  OBVIOUS
<1> HIDE DEF q
<1>2. ASSUME NEW x \in Int, NEW y \in Int, x < y PROVE x * b < y * b /\ y * b \in Int /\ x * b \in Int
  BY <1>2
<1>3. ASSUME d * b <= a, ~(q >= d) PROVE FALSE
  <2>1. q + 1 <= d
    BY <1>1, <1>3
  <2>2. (q + 1) * b <= d * b
    BY <2>1, <1>1
  <2>3. (q + 1) * b \in Int /\ d * b \in Int
    BY <1>1
  <2> QED
    BY <2>2, <2>3, <1>1, <1>3
<1>4. ASSUME a <= d * b, ~(q <= d) PROVE FALSE
  <2>1. d * b < q * b /\ d * b \in Int /\ q * b \in Int
    BY <1>1, <1>2, <1>4
  <2> QED
    BY <2>1, <1>1, <1>4
<1> QED
  BY <1>1, <1>3, <1>4 DEF q

(* A send adds its message to what the channel holds, at the end.          *)
LEMMA RangeAppend ==
  ASSUME NEW S, NEW ch \in Seq(S), NEW x \in S
  PROVE  /\ Append(ch, x) \in Seq(S)
         /\ Range(Append(ch, x)) = Range(ch) \cup {x}
         /\ IsInjective(ch) /\ x \notin Range(ch) => IsInjective(Append(ch, x))
<1> DEFINE t == Append(ch, x)
           n == Len(ch)
<1>1. /\ t \in Seq(S) /\ n \in Nat /\ DOMAIN ch = 1..n /\ DOMAIN t = 1..(n + 1)
      /\ \A i \in 1..n : t[i] = ch[i]
      /\ t[n + 1] = x
  BY AppendProperties
<1> HIDE DEF t, n
<1>2. \A i \in 1..(n + 1) : i \in 1..n \/ i = n + 1
  BY <1>1
<1>3. n + 1 \in 1..(n + 1) /\ 1..n \subseteq 1..(n + 1)
  BY <1>1
<1>4. Range(t) = Range(ch) \cup {x}
  BY <1>1, <1>2, <1>3 DEF Range
<1>5. ASSUME IsInjective(ch), x \notin Range(ch) PROVE IsInjective(t)
  <2> SUFFICES ASSUME NEW i \in 1..(n + 1), NEW j \in 1..(n + 1), t[i] = t[j]
               PROVE  i = j
    BY <1>1 DEF IsInjective
  <2>1. \A k \in 1..n : ch[k] # x
    BY <1>1, <1>5 DEF Range
  <2> QED
    BY <2>1, <1>1, <1>2, <1>5 DEF IsInjective
<1> QED
  BY <1>1, <1>4, <1>5 DEF t

(* A receive takes the first message out of what the channel holds.        *)
LEMMA RangeTail ==
  ASSUME NEW S, NEW ch \in Seq(S), ch # <<>>
  PROVE  /\ Tail(ch) \in Seq(S) /\ Head(ch) \in S
         /\ Range(ch) = {Head(ch)} \cup Range(Tail(ch))
         /\ IsInjective(ch) => /\ IsInjective(Tail(ch))
                                /\ Head(ch) \notin Range(Tail(ch))
<1> DEFINE t == Tail(ch)
           n == Len(ch)
<1>1. /\ t \in Seq(S) /\ n \in Nat \ {0} /\ DOMAIN ch = 1..n /\ DOMAIN t = 1..(n - 1)
      /\ Head(ch) = ch[1] /\ Head(ch) \in S
      /\ \A i \in 1..(n - 1) : t[i] = ch[i + 1]
  BY HeadTailProperties, EmptySeq
<1> HIDE DEF t, n
<1>2. \A i \in 1..n : i = 1 \/ (i - 1 \in 1..(n - 1) /\ (i - 1) + 1 = i)
  BY <1>1
<1>3. 1 \in 1..n /\ \A i \in 1..(n - 1) : i + 1 \in 1..n /\ i + 1 # 1
  BY <1>1
<1>4. Range(ch) \subseteq {ch[1]} \cup Range(t)
  <2> SUFFICES ASSUME NEW i \in 1..n, i # 1
               PROVE  ch[i] \in Range(t)
    <3>1. Range(ch) = {ch[i] : i \in 1..n}
      BY <1>1, Zenon DEF Range
    <3> QED
      BY <3>1
  <2>1. i - 1 \in DOMAIN t /\ t[i - 1] = ch[i]
    BY <1>1, <1>2
  <2> QED
    BY <2>1, Zenon DEF Range
<1>5. {ch[1]} \cup Range(t) \subseteq Range(ch)
  <2>1. ch[1] \in Range(ch)
    BY <1>1, <1>3, Zenon DEF Range
  <2>2. ASSUME NEW i \in DOMAIN t PROVE t[i] \in Range(ch)
    <3>1. t[i] = ch[i + 1] /\ i + 1 \in DOMAIN ch
      BY <1>1, <1>3
    <3> QED
      BY <3>1, Zenon DEF Range
  <2>3. Range(t) \subseteq Range(ch)
    BY <2>2, Zenon DEF Range
  <2> QED
    BY <2>1, <2>3
<1>6. ASSUME IsInjective(ch) PROVE IsInjective(t) /\ ch[1] \notin Range(t)
  <2>1. IsInjective(t)
    <3> SUFFICES ASSUME NEW i \in 1..(n - 1), NEW j \in 1..(n - 1), t[i] = t[j]
                 PROVE  i = j
      BY <1>1 DEF IsInjective
    <3>1. ch[i + 1] = ch[j + 1] /\ i + 1 \in DOMAIN ch /\ j + 1 \in DOMAIN ch
      BY <1>1, <1>3
    <3>2. i + 1 = j + 1
      BY <3>1, <1>6 DEF IsInjective
    <3> QED
      BY <3>2
  <2>2. ch[1] \notin Range(t)
    <3> SUFFICES ASSUME NEW i \in 1..(n - 1), ch[1] = t[i]
                 PROVE  FALSE
      BY <1>1 DEF Range
    <3>1. ch[i + 1] = ch[1] /\ i + 1 \in DOMAIN ch /\ 1 \in DOMAIN ch /\ i + 1 # 1
      BY <1>1, <1>3
    <3> QED
      BY <3>1, <1>6 DEF IsInjective
  <2> QED
    BY <2>1, <2>2
<1> QED
  BY <1>1, <1>4, <1>5, <1>6 DEF t

(* An empty channel holds nothing, and only an empty one does.             *)
LEMMA RangeEmpty ==
  /\ Range(<<>>) = {} /\ IsInjective(<<>>)
  /\ \A S : \A ch \in Seq(S) : Range(ch) = {} => ch = <<>>
<1>1. Range(<<>>) = {} /\ IsInjective(<<>>)
  BY DEF Range, IsInjective
<1>2. ASSUME NEW S, NEW ch \in Seq(S), Range(ch) = {} PROVE ch = <<>>
  <2>1. ch[1] \notin Range(ch)
    BY <1>2
  <2>2. DOMAIN ch = 1..Len(ch) /\ Len(ch) \in Nat
    BY LenProperties
  <2>3. Len(ch) = 0
    BY <2>1, <2>2 DEF Range
  <2> QED
    BY <2>3, EmptySeq
<1> QED
  BY <1>1, <1>2
-----------------------------------------------------------------------------
(***************************************************************************)
(* Sums. Sum folds a set in the order CHOOSE takes its elements out; g     *)
(* holds the sum over each subset of the domain of f, as the fold computes *)
(* it. These equations have one solution, and the order drops out.         *)
(***************************************************************************)
FirstOut(s) == CHOOSE x \in s : TRUE

PartialSum(f, g, s) == IF s = {} THEN 0 ELSE f[FirstOut(s)] + g[s \ {FirstOut(s)}]

ArePartialSums(f, g) ==
  /\ g \in [SUBSET DOMAIN f -> Int]
  /\ \A s \in SUBSET DOMAIN f : g[s] = PartialSum(f, g, s)

(* What is left of a finite set when one element is taken out.             *)
LEMMA LeftWithout ==
  ASSUME NEW D, IsFiniteSet(D), NEW s \in SUBSET D, s # {}
  PROVE  /\ FirstOut(s) \in s /\ s \ {FirstOut(s)} \in SUBSET D
         /\ IsFiniteSet(s) /\ Cardinality(s) \in Nat
         /\ \A x \in s : Cardinality(s \ {x}) = Cardinality(s) - 1 /\ Cardinality(s \ {x}) \in Nat
<1>1. FirstOut(s) \in s
  BY DEF FirstOut
<1>2. IsFiniteSet(s)
  BY FS_Subset
<1> QED
  BY <1>1, <1>2, FS_CardinalityType, FS_RemoveElement

(* The equations of the fold have a solution.                              *)
LEMMA PartialSumsExist ==
  ASSUME NEW D, IsFiniteSet(D), NEW f \in [D -> Int]
  PROVE  \E g : ArePartialSums(f, g)
<1> DEFINE Upto(n, g) == \A s \in SUBSET D : Cardinality(s) <= n => g[s] = PartialSum(f, g, s)
           N == {n \in Nat : \E g \in [SUBSET D -> Int] : Upto(n, g)}
<1>0. DOMAIN f = D
  OBVIOUS
<1>1. 0 \in N
  <2> DEFINE g == [s \in SUBSET D |-> 0]
  <2>1. ASSUME NEW s \in SUBSET D, Cardinality(s) <= 0 PROVE g[s] = PartialSum(f, g, s)
    <3>1. s = {}
      BY <2>1, LeftWithout, FS_EmptySet, FS_Subset, FS_CardinalityType
    <3> QED
      BY <3>1 DEF PartialSum
  <2>2. g \in [SUBSET D -> Int] /\ Upto(0, g)
    BY <2>1
  <2> QED
    BY <2>2
<1>2. ASSUME NEW n \in Nat, n \in N PROVE n + 1 \in N
  <2>1. PICK g \in [SUBSET D -> Int] : Upto(n, g)
    BY <1>2
  <2> DEFINE h == [s \in SUBSET D |-> IF Cardinality(s) <= n THEN g[s] ELSE PartialSum(f, g, s)]
  <2>2. ASSUME NEW s \in SUBSET D, s # {} PROVE f[FirstOut(s)] \in Int /\ g[s \ {FirstOut(s)}] \in Int
    BY <2>2, LeftWithout
  <2>3. h \in [SUBSET D -> Int]
    BY <2>2 DEF PartialSum
  <2>4. ASSUME NEW s \in SUBSET D, Cardinality(s) <= n + 1 PROVE h[s] = PartialSum(f, h, s)
    <3>1. CASE s = {}
      BY <3>1, <2>1, FS_EmptySet DEF PartialSum
    <3>2. CASE s # {}
      <4> DEFINE r == s \ {FirstOut(s)}
      <4>1. /\ r \in SUBSET D /\ Cardinality(r) <= n /\ Cardinality(s) \in Nat
        BY <3>2, <2>4, LeftWithout
      <4>2. h[r] = g[r]
        BY <4>1
      <4>3. PartialSum(f, h, s) = PartialSum(f, g, s)
        BY <4>2 DEF PartialSum
      <4>4. h[s] = PartialSum(f, g, s)
        BY <2>1
      <4> QED
        BY <4>3, <4>4
    <3> QED
      BY <3>1, <3>2
  <2>5. Upto(n + 1, h)
    BY <2>4
  <2> HIDE DEF h
  <2> QED
    BY <2>3, <2>5
<1>3. \A n \in Nat : n \in N
  <2> HIDE DEF N
  <2> QED
    BY <1>1, <1>2, SetInduction
<1>4. Cardinality(D) \in Nat /\ \A s \in SUBSET D : Cardinality(s) <= Cardinality(D)
  BY FS_CardinalityType, FS_Subset
<1>5. PICK g \in [SUBSET D -> Int] : Upto(Cardinality(D), g)
  BY <1>3, <1>4
<1> QED
  BY <1>0, <1>4, <1>5 DEF ArePartialSums

(* Sum is one of the partial sums.                                         *)
LEMMA SumIsPartialSum ==
  ASSUME NEW D, IsFiniteSet(D), NEW f \in [D -> Int]
  PROVE  \E g : ArePartialSums(f, g) /\ Sum(f) = g[D]
<1> DEFINE iter == CHOOSE iter : iter = [s \in SUBSET D |-> PartialSum(f, iter, s)]
<1>0. DOMAIN f = D
  OBVIOUS
<1>1. Sum(f) = iter[D]
  BY <1>0 DEF Sum, MapThenSumSet, MapThenFoldSet, PartialSum, FirstOut
<1>2. PICK g : ArePartialSums(f, g)
  BY PartialSumsExist
<1>3. g = [s \in SUBSET D |-> PartialSum(f, g, s)]
  BY <1>0, <1>2 DEF ArePartialSums
<1>4. iter = [s \in SUBSET D |-> PartialSum(f, iter, s)]
  BY <1>3
<1> HIDE DEF iter
<1>5. \A s \in SUBSET D : iter[s] = PartialSum(f, iter, s)
  BY <1>4
<1> DEFINE N == {n \in Nat : \A s \in SUBSET D : Cardinality(s) = n => iter[s] \in Int}
<1>6. 0 \in N
  <2>1. ASSUME NEW s \in SUBSET D, Cardinality(s) = 0 PROVE iter[s] \in Int
    <3>1. s = {}
      BY <2>1, FS_EmptySet, FS_Subset
    <3>2. PartialSum(f, iter, s) = 0
      BY <3>1 DEF PartialSum
    <3> QED
      BY <3>2, <1>5
  <2> QED
    BY <2>1
<1>7. ASSUME NEW n \in Nat, n \in N PROVE n + 1 \in N
  <2>1. ASSUME NEW s \in SUBSET D, Cardinality(s) = n + 1 PROVE iter[s] \in Int
    <3>1. s # {}
      BY <2>1, FS_EmptySet
    <3>2. FirstOut(s) \in D /\ s \ {FirstOut(s)} \in SUBSET D /\ Cardinality(s \ {FirstOut(s)}) = n
      BY <3>1, <2>1, LeftWithout
    <3>3. iter[s \ {FirstOut(s)}] \in Int /\ f[FirstOut(s)] \in Int
      BY <3>2, <1>7
    <3>4. PartialSum(f, iter, s) = f[FirstOut(s)] + iter[s \ {FirstOut(s)}]
      BY <3>1 DEF PartialSum
    <3>5. PartialSum(f, iter, s) \in Int
      BY <3>3, <3>4
    <3> QED
      BY <3>5, <1>5
  <2> QED
    BY <2>1
<1>8. \A n \in Nat : n \in N
  <2> HIDE DEF N
  <2> QED
    BY <1>6, <1>7, SetInduction
<1>9. \A s \in SUBSET D : Cardinality(s) \in Nat
  BY FS_CardinalityType, FS_Subset
<1>10. \A s \in SUBSET D : iter[s] \in Int
  BY <1>8, <1>9
<1>11. iter \in [SUBSET D -> Int]
  BY <1>4, <1>10
<1>12. ArePartialSums(f, iter)
  BY <1>0, <1>5, <1>11 DEF ArePartialSums
<1> QED
  BY <1>1, <1>12

(* Partial sums of functions that agree on a set agree on its subsets.     *)
LEMMA PartialSumsAgree ==
  ASSUME NEW D, IsFiniteSet(D), NEW f \in [D -> Int], NEW g, ArePartialSums(f, g),
         NEW E \in SUBSET D, NEW e \in [E -> Int], NEW h, ArePartialSums(e, h),
         \A x \in E : e[x] = f[x]
  PROVE  \A s \in SUBSET E : g[s] = h[s]
<1> DEFINE N == {n \in Nat : \A s \in SUBSET E : Cardinality(s) = n => g[s] = h[s]}
<1>1. /\ \A s \in SUBSET D : g[s] = PartialSum(f, g, s)
      /\ \A s \in SUBSET E : h[s] = PartialSum(e, h, s)
  BY DEF ArePartialSums
<1>2. IsFiniteSet(E) /\ SUBSET E \subseteq SUBSET D
  BY FS_Subset
<1>3. 0 \in N
  <2>1. ASSUME NEW s \in SUBSET E, Cardinality(s) = 0 PROVE g[s] = h[s]
    <3>1. s = {}
      BY <2>1, <1>2, FS_EmptySet, FS_Subset
    <3>2. PartialSum(f, g, s) = 0 /\ PartialSum(e, h, s) = 0
      BY <3>1 DEF PartialSum
    <3> QED
      BY <3>2, <1>1, <1>2
  <2> QED
    BY <2>1
<1>4. ASSUME NEW n \in Nat, n \in N PROVE n + 1 \in N
  <2>1. ASSUME NEW s \in SUBSET E, Cardinality(s) = n + 1 PROVE g[s] = h[s]
    <3>1. s # {}
      BY <2>1, FS_EmptySet
    <3>2. FirstOut(s) \in s /\ Cardinality(s \ {FirstOut(s)}) = Cardinality(s) - 1
      BY <3>1, <1>2, LeftWithout
    <3>3. FirstOut(s) \in E /\ s \ {FirstOut(s)} \in SUBSET E /\ Cardinality(s \ {FirstOut(s)}) = n
      BY <3>2, <2>1
    <3>4. g[s \ {FirstOut(s)}] = h[s \ {FirstOut(s)}] /\ f[FirstOut(s)] = e[FirstOut(s)]
      BY <3>3, <1>4
    <3>5. PartialSum(f, g, s) = PartialSum(e, h, s)
      BY <3>4 DEF PartialSum
    <3> QED
      BY <3>5, <1>1, <1>2
  <2> QED
    BY <2>1
<1>5. \A n \in Nat : n \in N
  <2> HIDE DEF N
  <2> QED
    BY <1>3, <1>4, SetInduction
<1>6. \A s \in SUBSET E : Cardinality(s) \in Nat
  BY <1>2, FS_CardinalityType, FS_Subset
<1> QED
  BY <1>5, <1>6

(* Any element may be taken out first.                                     *)
LEMMA PartialSumsCommute ==
  ASSUME NEW D, IsFiniteSet(D), NEW f \in [D -> Int], NEW g, ArePartialSums(f, g)
  PROVE  \A s \in SUBSET D : \A x \in s : g[s] = f[x] + g[s \ {x}]
<1> DEFINE N == {n \in Nat : \A s \in SUBSET D : Cardinality(s) = n =>
                   \A x \in s : g[s] = f[x] + g[s \ {x}]}
<1>1. /\ g \in [SUBSET D -> Int]
      /\ \A s \in SUBSET D : g[s] = PartialSum(f, g, s)
  BY DEF ArePartialSums
<1>2. ASSUME NEW s \in SUBSET D, s # {} PROVE g[s] = f[FirstOut(s)] + g[s \ {FirstOut(s)}]
  <2>1. PartialSum(f, g, s) = f[FirstOut(s)] + g[s \ {FirstOut(s)}]
    BY <1>2 DEF PartialSum
  <2> QED
    BY <2>1, <1>1
<1>3. 0 \in N
  <2>1. \A s \in SUBSET D : Cardinality(s) = 0 => s = {}
    BY FS_EmptySet, FS_Subset
  <2> QED
    BY <2>1
<1>4. ASSUME NEW n \in Nat, n \in N PROVE n + 1 \in N
  <2>1. ASSUME NEW s \in SUBSET D, Cardinality(s) = n + 1, NEW x \in s
        PROVE  g[s] = f[x] + g[s \ {x}]
    <3> DEFINE y == FirstOut(s)
    <3>1. y \in s /\ g[s] = f[y] + g[s \ {y}]
      BY <1>2, LeftWithout
    <3>2. /\ Cardinality(s \ {x}) = n /\ Cardinality(s \ {y}) = n
          /\ s \ {x} \in SUBSET D /\ s \ {y} \in SUBSET D
      <4>1. \A z \in s : Cardinality(s \ {z}) = Cardinality(s) - 1
        BY LeftWithout
      <4> QED
        BY <4>1, <3>1, <2>1
    <3> HIDE DEF y
    <3>3. CASE x = y
      BY <3>1, <3>3
    <3>4. CASE x # y
      <4> DEFINE r == (s \ {x}) \ {y}
      <4>1. x \in s \ {y} /\ y \in s \ {x} /\ (s \ {y}) \ {x} = r /\ r \in SUBSET D
        BY <3>1, <3>4
      <4>2. g[s \ {y}] = f[x] + g[r]
        BY <4>1, <3>2, <1>4
      <4>3. g[s \ {x}] = f[y] + g[r]
        BY <4>1, <3>2, <1>4
      <4>4. f[x] \in Int /\ f[y] \in Int /\ g[r] \in Int
        BY <4>1, <3>1, <1>1
      <4> QED
        BY <4>2, <4>3, <4>4, <3>1
    <3> QED
      BY <3>3, <3>4
  <2> QED
    BY <2>1
<1>5. \A n \in Nat : n \in N
  <2> HIDE DEF N
  <2> QED
    BY <1>3, <1>4, SetInduction
<1>6. \A s \in SUBSET D : Cardinality(s) \in Nat
  BY FS_CardinalityType, FS_Subset
<1> QED
  BY <1>5, <1>6

(* A sum is an integer, and the sum of nothing is 0.                       *)
LEMMA SumType ==
  ASSUME NEW D, IsFiniteSet(D), NEW f \in [D -> Int]
  PROVE  Sum(f) \in Int /\ (D = {} => Sum(f) = 0)
<1>1. PICK g : ArePartialSums(f, g) /\ Sum(f) = g[D]
  BY SumIsPartialSum
<1>2. g \in [SUBSET D -> Int] /\ \A s \in SUBSET D : g[s] = PartialSum(f, g, s)
  BY <1>1 DEF ArePartialSums
<1>3. D = {} => PartialSum(f, g, D) = 0
  BY DEF PartialSum
<1>4. g[D] \in Int /\ g[D] = PartialSum(f, g, D)
  BY <1>2
<1> QED
  BY <1>1, <1>3, <1>4

(* One element taken out of a sum, or added to it.                         *)
LEMMA SumOfOneMore ==
  ASSUME NEW D, IsFiniteSet(D), NEW f \in [D -> Int], NEW x \in D
  PROVE  Sum(f) = f[x] + Sum([y \in D \ {x} |-> f[y]])
<1> DEFINE E == D \ {x}
           e == [y \in E |-> f[y]]
<1>1. E \in SUBSET D /\ IsFiniteSet(E) /\ e \in [E -> Int] /\ \A y \in E : e[y] = f[y]
  BY FS_Subset
<1>2. PICK g : ArePartialSums(f, g) /\ Sum(f) = g[D]
  BY SumIsPartialSum
<1> HIDE DEF e, E
<1>3. PICK h : ArePartialSums(e, h) /\ Sum(e) = h[E]
  BY <1>1, SumIsPartialSum
<1>4. g[E] = h[E]
  BY <1>1, <1>2, <1>3, PartialSumsAgree
<1>5. g[D] = f[x] + g[E]
  <2>1. D \in SUBSET D
    OBVIOUS
  <2> QED
    BY <2>1, <1>2, PartialSumsCommute DEF E
<1>6. Sum(f) = f[x] + Sum(e)
  BY <1>2, <1>3, <1>4, <1>5
<1> QED
  BY <1>6 DEF e, E

(* A term more: f has the terms of d and one at x.                         *)
OneMore(d, f, x) ==
  /\ IsFiniteSet(DOMAIN d) /\ x \notin DOMAIN d /\ DOMAIN f = DOMAIN d \cup {x}
  /\ d \in [DOMAIN d -> Int] /\ f \in [DOMAIN f -> Int]
  /\ \A y \in DOMAIN d : d[y] = f[y]

(* The sum grows by the term.                                              *)
LEMMA SumWith ==
  ASSUME NEW d, NEW f, NEW x, OneMore(d, f, x)
  PROVE  Sum(f) = Sum(d) + f[x]
<1> DEFINE D == DOMAIN d
           E == DOMAIN f
<1>1. /\ IsFiniteSet(D) /\ x \notin D /\ E = D \cup {x}
      /\ d \in [D -> Int] /\ f \in [E -> Int] /\ \A y \in D : d[y] = f[y]
  BY DEF OneMore
<1>2. IsFiniteSet(E) /\ x \in E /\ E \ {x} = D
  BY <1>1, FS_AddElement
<1> HIDE DEF D, E
<1>3. Sum(f) = f[x] + Sum([y \in E \ {x} |-> f[y]])
  BY <1>1, <1>2, SumOfOneMore
<1>4. [y \in E \ {x} |-> f[y]] = d
  BY <1>1, <1>2
<1>5. Sum(d) \in Int /\ f[x] \in Int
  BY <1>1, <1>2, SumType
<1> QED
  BY <1>3, <1>4, <1>5

(* One term changes.                                                       *)
LEMMA SumUpdate ==
  ASSUME NEW D, IsFiniteSet(D), NEW f \in [D -> Int], NEW x \in D, NEW e \in [D -> Int],
         \A y \in D \ {x} : e[y] = f[y]
  PROVE  Sum(e) = Sum(f) + (e[x] - f[x])
<1> DEFINE r(h) == [y \in D \ {x} |-> h[y]]
<1>1. r(e) = r(f)
  OBVIOUS
<1>2. Sum(e) = e[x] + Sum(r(e)) /\ Sum(f) = f[x] + Sum(r(f))
  BY SumOfOneMore
<1>3. Sum(r(f)) \in Int
  <2>1. IsFiniteSet(D \ {x}) /\ r(f) \in [D \ {x} -> Int]
    BY FS_Subset
  <2> HIDE DEF r
  <2> QED
    BY <2>1, SumType
<1>4. e[x] \in Int /\ f[x] \in Int
  OBVIOUS
<1> HIDE DEF r
<1> QED
  BY <1>1, <1>2, <1>3, <1>4

(* Term by term, a multiple of h is at most a multiple of f and k.         *)
AtMost(a, h, c, f, k) ==
  /\ IsFiniteSet(DOMAIN f) /\ f \in [DOMAIN f -> Int] /\ h \in [DOMAIN f -> Int]
  /\ a \in Int /\ c \in Int /\ k \in Int
  /\ \A x \in DOMAIN f : a * h[x] <= c * f[x] + k

(* What holds of each term holds of the sum, with k for every term.        *)
LEMMA SumBound ==
  ASSUME NEW a, NEW h, NEW c, NEW f, NEW k, AtMost(a, h, c, f, k)
  PROVE  a * Sum(h) <= c * Sum(f) + k * Cardinality(DOMAIN f)
<1>0. PICK D : D = DOMAIN f
  OBVIOUS
<1> SUFFICES ASSUME IsFiniteSet(D), f \in [D -> Int], h \in [D -> Int],
                    a \in Int, c \in Int, k \in Int, \A x \in D : a * h[x] <= c * f[x] + k
             PROVE  a * Sum(h) <= c * Sum(f) + k * Cardinality(D)
  BY <1>0 DEF AtMost
<1> DEFINE r(g, s) == [y \in s |-> g[y]]
           P(s) == a * Sum(r(h, s)) <= c * Sum(r(f, s)) + k * Cardinality(s)
           N == {n \in Nat : \A s \in SUBSET D : Cardinality(s) = n => P(s)}
<1>1. ASSUME NEW s \in SUBSET D, NEW g \in [D -> Int]
      PROVE  /\ IsFiniteSet(s) /\ Cardinality(s) \in Nat /\ r(g, s) \in [s -> Int] /\ Sum(r(g, s)) \in Int
             /\ s = {} => Sum(r(g, s)) = 0
             /\ \A x \in s : Sum(r(g, s)) = g[x] + Sum(r(g, s \ {x}))
  <2>1. IsFiniteSet(s) /\ Cardinality(s) \in Nat
    BY FS_Subset, FS_CardinalityType
  <2>2. r(g, s) \in [s -> Int] /\ \A y \in s : r(g, s)[y] = g[y]
    OBVIOUS
  <2>3. \A x \in s : [y \in s \ {x} |-> r(g, s)[y]] = r(g, s \ {x})
    OBVIOUS
  <2> HIDE DEF r
  <2>4. Sum(r(g, s)) \in Int /\ (s = {} => Sum(r(g, s)) = 0)
    BY <2>1, <2>2, SumType
  <2>5. ASSUME NEW x \in s PROVE Sum(r(g, s)) = g[x] + Sum(r(g, s \ {x}))
    <3>1. PICK q : q = r(g, s)
      OBVIOUS
    <3>2. q \in [s -> Int]
      BY <3>1, <2>2
    <3>3. Sum(q) = q[x] + Sum([y \in s \ {x} |-> q[y]])
      BY <3>2, <2>1, SumOfOneMore
    <3> QED
      BY <3>1, <3>3, <2>2, <2>3
  <2> QED
    BY <2>1, <2>2, <2>4, <2>5
<1>2. r(h, D) = h /\ r(f, D) = f
  OBVIOUS
<1> HIDE DEF r
<1>3. 0 \in N
  <2> SUFFICES ASSUME NEW s \in SUBSET D, Cardinality(s) = 0 PROVE P(s)
    OBVIOUS
  <2>1. s = {}
    BY <1>1, FS_EmptySet
  <2>2. Sum(r(h, s)) = 0 /\ Sum(r(f, s)) = 0
    BY <2>1, <1>1
  <2> QED
    BY <2>2
<1>4. ASSUME NEW n \in Nat, n \in N PROVE n + 1 \in N
  <2> SUFFICES ASSUME NEW s \in SUBSET D, Cardinality(s) = n + 1 PROVE P(s)
    OBVIOUS
  <2>1. s # {}
    <3>1. Cardinality({}) = 0 /\ n + 1 # 0
      BY FS_EmptySet
    <3> QED
      BY <3>1
  <2>2. PICK x \in s : TRUE
    BY <2>1
  <2> DEFINE t == s \ {x}
  <2>3. t \in SUBSET D /\ x \in D
    OBVIOUS
  <2>4. Cardinality(t) = n
    <3>1. IsFiniteSet(s)
      BY <1>1
    <3>2. Cardinality(s \ {x}) = Cardinality(s) - 1
      BY <3>1, FS_RemoveElement
    <3> QED
      BY <3>2
  <2>5. Sum(r(h, s)) = h[x] + Sum(r(h, t)) /\ Sum(r(f, s)) = f[x] + Sum(r(f, t))
    BY <1>1
  <2> HIDE DEF t
  <2>6. a * Sum(r(h, t)) <= c * Sum(r(f, t)) + k * n
    BY <1>4, <2>3, <2>4
  <2>7. a * h[x] <= c * f[x] + k
    BY <2>3
  <2>8. /\ Sum(r(h, t)) \in Int /\ Sum(r(f, t)) \in Int /\ h[x] \in Int /\ f[x] \in Int
    BY <2>3, <1>1
  <2>9. /\ a * (h[x] + Sum(r(h, t))) = a * h[x] + a * Sum(r(h, t))
        /\ c * (f[x] + Sum(r(f, t))) = c * f[x] + c * Sum(r(f, t))
        /\ k * (n + 1) = k * n + k
    BY <2>8
  <2>10. /\ a * h[x] \in Int /\ a * Sum(r(h, t)) \in Int /\ c * f[x] \in Int /\ c * Sum(r(f, t)) \in Int
         /\ k * n \in Int
    BY <2>8
  <2>11. (a * h[x]) + (a * Sum(r(h, t))) <= (c * f[x] + c * Sum(r(f, t))) + (k * n + k)
    BY <2>6, <2>7, <2>10
  <2> QED
    BY <2>5, <2>9, <2>11
<1>5. \A n \in Nat : n \in N
  <2> HIDE DEF N
  <2> QED
    BY <1>3, <1>4, SetInduction
<1>6. P(D)
  <2>1. D \in SUBSET D /\ Cardinality(D) \in Nat
    BY FS_CardinalityType
  <2> QED
    BY <2>1, <1>5
<1> QED
  BY <1>2, <1>6

-----------------------------------------------------------------------------
(***************************************************************************)
(* Sorting. Places in a strict total order have different numbers of       *)
(* places ahead of them, so they fill 1..n.                                *)
(***************************************************************************)
StrictOrder(n, R) ==
  /\ \A i \in 1..n : <<i, i>> \notin R
  /\ \A i, j \in 1..n : i # j => <<i, j>> \in R \/ <<j, i>> \in R
  /\ \A i, j, k \in 1..n : <<i, j>> \in R /\ <<j, k>> \in R => <<i, k>> \in R

(* What InOrder puts first goes ahead, and every place has its turn.       *)
LEMMA InOrderSorts ==
  ASSUME NEW n \in Nat, NEW R, StrictOrder(n, R)
  PROVE  /\ InOrder(n, R) \in [1..n -> 1..n]
         /\ \A i \in 1..n : \E k \in 1..n : InOrder(n, R)[k] = i
         /\ \A j, k \in 1..n : j < k => <<InOrder(n, R)[j], InOrder(n, R)[k]>> \in R
         /\ \A j, k \in 1..n : InOrder(n, R)[j] = InOrder(n, R)[k] => j = k
<1> DEFINE D == 1..n
           A(i) == {j \in D : <<j, i>> \in R}
           c == [i \in D |-> Cardinality(A(i))]
<1>1. IsFiniteSet(D) /\ Cardinality(D) = n
  BY FS_Interval
<1>2. /\ \A i \in D : <<i, i>> \notin R
      /\ \A i, j \in D : i # j => <<i, j>> \in R \/ <<j, i>> \in R
      /\ \A i, j, k \in D : <<i, j>> \in R /\ <<j, k>> \in R => <<i, k>> \in R
  BY DEF StrictOrder
<1> HIDE DEF D
<1>3. \A i \in D : IsFiniteSet(A(i)) /\ c[i] = Cardinality(A(i)) /\ c[i] \in Nat
  <2> SUFFICES ASSUME NEW i \in D PROVE IsFiniteSet(A(i)) /\ c[i] = Cardinality(A(i)) /\ c[i] \in Nat
    OBVIOUS
  <2>1. A(i) \subseteq D
    OBVIOUS
  <2>2. IsFiniteSet(A(i))
    <3> HIDE DEF A
    <3> QED
      BY <2>1, <1>1, FS_Subset
  <2>3. c[i] = Cardinality(A(i))
    OBVIOUS
  <2>4. Cardinality(A(i)) \in Nat
    <3> HIDE DEF A
    <3> QED
      BY <2>2, FS_CardinalityType
  <2> QED
    BY <2>2, <2>3, <2>4
<1>4. ASSUME NEW i \in D, NEW j \in D, <<i, j>> \in R PROVE c[i] < c[j]
  <2>1. A(i) \subseteq A(j) /\ i \in A(j) /\ i \notin A(i)
    BY <1>2, <1>4
  <2>2. IsFiniteSet(A(j)) /\ c[i] = Cardinality(A(i)) /\ c[j] = Cardinality(A(j)) /\ c[i] \in Nat /\ c[j] \in Nat
    BY <1>3
  <2> HIDE DEF A, c
  <2>3. Cardinality(A(i)) <= Cardinality(A(j)) /\ Cardinality(A(i)) # Cardinality(A(j))
    <3>1. A(i) # A(j)
      BY <2>1
    <3> QED
      BY <3>1, <2>1, <2>2, FS_Subset
  <2> QED
    BY <2>2, <2>3
<1>5. ASSUME NEW i \in D PROVE c[i] \in 0..(n - 1)
  <2>1. A(i) \subseteq D \ {i} /\ i \in D
    BY <1>2
  <2>2. IsFiniteSet(D \ {i}) /\ Cardinality(D \ {i}) = n - 1
    BY <1>1, FS_RemoveElement
  <2>3. Cardinality(A(i)) <= n - 1
    <3> HIDE DEF A
    <3> QED
      BY <2>1, <2>2, FS_Subset
  <2>4. c[i] = Cardinality(A(i)) /\ c[i] \in Nat
    BY <1>3
  <2> HIDE DEF A, c
  <2> QED
    BY <2>3, <2>4
<1>6. ASSUME NEW i \in D, NEW j \in D, c[i] = c[j] PROVE i = j
  <2>1. <<i, j>> \in R => c[i] < c[j]
    BY <1>4
  <2>2. <<j, i>> \in R => c[j] < c[i]
    BY <1>4
  <2>3. c[i] \in Nat /\ c[j] \in Nat
    BY <1>3
  <2> HIDE DEF c
  <2>4. ~(c[i] < c[j]) /\ ~(c[j] < c[i])
    BY <2>3, <1>6
  <2> QED
    BY <2>1, <2>2, <2>4, <1>2
<1>7. \A m \in 0..(n - 1) : \E i \in D : c[i] = m
  <2> DEFINE T == 0..(n - 1)
  <2>1. IsFiniteSet(T) /\ Cardinality(T) = n
    BY FS_Interval
  <2>2. c \in [D -> T]
    BY <1>5
  <2> HIDE DEF c, T
  <2>3. c \in Injection(D, T)
    BY <2>2, <1>6 DEF Injection, IsInjective
  <2>4. c \in Surjection(D, T)
    BY <2>1, <2>3, <1>1, FS_Injection
  <2>5. \A m \in T : \E i \in D : c[i] = m
    BY <2>4 DEF Surjection
  <2> QED
    BY <2>5 DEF T
<1> DEFINE o == InOrder(n, R)
<1>8. o = [m \in D |-> CHOOSE i \in D : Cardinality(A(i)) = m - 1]
  BY Zenon DEF InOrder, D
<1>9. ASSUME NEW k \in D PROVE o[k] \in D /\ c[o[k]] = k - 1
  <2>1. k - 1 \in 0..(n - 1)
    BY DEF D
  <2>2. \E i \in D : Cardinality(A(i)) = k - 1
    BY <2>1, <1>3, <1>7
  <2>3. o[k] = CHOOSE i \in D : Cardinality(A(i)) = k - 1
    <3> HIDE DEF o, A
    <3> QED
      BY <1>8
  <2>4. o[k] \in D /\ Cardinality(A(o[k])) = k - 1
    <3> HIDE DEF A, o
    <3> QED
      BY <2>2, <2>3
  <2> QED
    BY <2>4, <1>3
<1>10. o \in [D -> D]
  <2> DEFINE h(m) == CHOOSE i \in D : Cardinality(A(i)) = m - 1
  <2>1. o = [m \in D |-> h(m)]
    BY <1>8
  <2> HIDE DEF o, c, h
  <2>2. \A m \in D : h(m) \in D
    BY <2>1, <1>9
  <2> QED
    BY <2>1, <2>2
<1> HIDE DEF o, c, A
<1>11. ASSUME NEW i \in D PROVE \E k \in D : o[k] = i
  <2>1. c[i] \in 0..(n - 1)
    BY <1>5
  <2>2. PICK k \in D : k - 1 = c[i]
    <3>1. c[i] + 1 \in D /\ (c[i] + 1) - 1 = c[i]
      BY <2>1 DEF D
    <3> QED
      BY <3>1
  <2>3. o[k] \in D /\ c[o[k]] = c[i]
    BY <2>2, <1>9
  <2> QED
    BY <2>3, <1>6
<1>12. ASSUME NEW j \in D, NEW k \in D, j < k PROVE <<o[j], o[k]>> \in R
  <2>1. /\ o[j] \in D /\ o[k] \in D /\ c[o[j]] = j - 1 /\ c[o[k]] = k - 1 /\ j \in Int /\ k \in Int
    BY <1>9 DEF D
  <2>2. c[o[j]] < c[o[k]] /\ ~(c[o[k]] < c[o[j]])
    BY <2>1, <1>12
  <2>3. o[j] # o[k]
    BY <2>2
  <2> QED
    BY <2>1, <2>2, <2>3, <1>2, <1>4
<1>13. ASSUME NEW j \in D, NEW k \in D, o[j] = o[k] PROVE j = k
  <2>1. j - 1 = k - 1 /\ j \in Int /\ k \in Int
    BY <1>9, <1>13 DEF D
  <2> QED
    BY <2>1
<1> QED
  BY <1>10, <1>11, <1>12, <1>13 DEF o, D

(* Places ordered by a key, those of equal keys as they were, are in a     *)
(* strict order.                                                           *)
LEMMA KeyOrder ==
  ASSUME NEW n \in Nat, NEW key \in [1..n -> Int], NEW R,
         \A i, j \in 1..n : <<i, j>> \in R <=> key[i] < key[j] \/ (i < j /\ ~(key[j] < key[i]))
  PROVE  StrictOrder(n, R)
<1> DEFINE D == 1..n
<1>1. \A i \in D : i \in Int /\ key[i] \in Int
  OBVIOUS
<1>2. \A i, j \in D : <<i, j>> \in R <=> key[i] < key[j] \/ (i < j /\ ~(key[j] < key[i]))
  OBVIOUS
<1> HIDE DEF D
<1>3. \A i \in D : <<i, i>> \notin R
  BY <1>1, <1>2
<1>4. \A i, j \in D : i # j => <<i, j>> \in R \/ <<j, i>> \in R
  BY <1>1, <1>2
<1>5. ASSUME NEW i \in D, NEW j \in D, NEW k \in D, <<i, j>> \in R, <<j, k>> \in R PROVE <<i, k>> \in R
  <2>1. /\ key[i] < key[j] \/ (i < j /\ ~(key[j] < key[i]))
        /\ key[j] < key[k] \/ (j < k /\ ~(key[k] < key[j]))
    BY <1>2, <1>5
  <2>2. key[i] < key[k] \/ (i < k /\ ~(key[k] < key[i]))
    BY <2>1, <1>1
  <2> QED
    BY <2>2, <1>2
<1> QED
  BY <1>3, <1>4, <1>5 DEF StrictOrder, D
=============================================================================
