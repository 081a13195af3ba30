------------------------- MODULE OracleChainProofs --------------------------
(***************************************************************************)
(* Theorems about the graded blocks of the price records (OracleChain),    *)
(* for every value of the constants.                                       *)
(***************************************************************************)
EXTENDS OracleChain, CommonLemmas, FiniteSetTheorems, SequenceTheorems, TLAPS

(***************************************************************************)
(* Folds over a list. FoldLeft takes the last place out of the set of the  *)
(* places again and again: from the set of the first k places it comes to  *)
(* what the loop has after k rounds.                                       *)
(***************************************************************************)
(* The greatest of the first places is the last of them.                   *)
LEMMA LastPlace ==
  ASSUME NEW n \in Nat, NEW s \in SUBSET (1..n), s # {}
  PROVE  /\ Max(s) \in s /\ s \ {Max(s)} \in SUBSET (1..n)
         /\ IsFiniteSet(s) /\ Cardinality(s) \in Nat /\ Cardinality(s \ {Max(s)}) = Cardinality(s) - 1
<1>1. s \subseteq Nat /\ \A x \in s : x <= n
  OBVIOUS
<1>2. PICK x \in s : \A y \in s : y <= x
  <2>1. s \subseteq 0..n
    OBVIOUS
  <2> QED
    BY <2>1, GreatestNat
<1>3. Max(s) \in s
  <2>1. \E z \in s : \A y \in s : z >= y
    BY <1>1, <1>2
  <2> QED
    BY <2>1 DEF Max
<1>4. IsFiniteSet(1..n)
  <2>1. 1 \in Int /\ n \in Int
    OBVIOUS
  <2> QED
    BY <2>1, FS_Interval, Zenon
<1>5. IsFiniteSet(s)
  BY <1>4, FS_Subset
<1> QED
  BY <1>3, <1>5, FS_RemoveElement, FS_CardinalityType

(* One round of a loop over n places.                                      *)
Rounds(n, V, base, step, it) ==
  /\ it \in [SUBSET (1..n) -> V]
  /\ \A s \in SUBSET (1..n) :
       it[s] = IF s = {} THEN base ELSE step[<<Max(s), it[s \ {Max(s)}]>>]

(* The rounds can be done.                                                 *)
LEMMA RoundsExist ==
  ASSUME NEW n \in Nat, NEW V, NEW base \in V, NEW step \in [(1..n) \X V -> V]
  PROVE  \E it : Rounds(n, V, base, step, it)
<1> DEFINE P == SUBSET (1..n)
           Round(it, s) == IF s = {} THEN base ELSE step[<<Max(s), it[s \ {Max(s)}]>>]
           Upto(k, it) == \A s \in P : Cardinality(s) <= k => it[s] = Round(it, s)
           N == {k \in Nat : \E it \in [P -> V] : Upto(k, it)}
<1>0. \A s \in P : s # {} => /\ Max(s) \in 1..n /\ s \ {Max(s)} \in P
                             /\ Cardinality(s) \in Nat /\ Cardinality(s \ {Max(s)}) = Cardinality(s) - 1
  BY LastPlace
<1>1. \A s \in P : IsFiniteSet(s) /\ Cardinality(s) \in Nat
  <2>1. ASSUME NEW s \in P, s # {} PROVE IsFiniteSet(s) /\ Cardinality(s) \in Nat
    BY <2>1, LastPlace
  <2> QED
    BY <2>1, FS_EmptySet
<1>2. ASSUME NEW it \in [P -> V], NEW s \in P PROVE Round(it, s) \in V
  <2>1. CASE s = {}
    BY <2>1
  <2>2. CASE s # {}
    <3>1. Max(s) \in 1..n /\ it[s \ {Max(s)}] \in V
      BY <2>2, <1>0
    <3> QED
      BY <3>1, <2>2
  <2> QED
    BY <2>1, <2>2
<1>3. 0 \in N
  <2> DEFINE it == [s \in P |-> base]
  <2>1. ASSUME NEW s \in P, Cardinality(s) <= 0 PROVE it[s] = Round(it, s)
    <3>1. s = {}
      BY <2>1, <1>1, FS_EmptySet
    <3> QED
      BY <3>1
  <2>2. it \in [P -> V] /\ Upto(0, it)
    BY <2>1
  <2> HIDE DEF it
  <2> QED
    BY <2>2
<1>4. ASSUME NEW k \in Nat, k \in N PROVE k + 1 \in N
  <2>1. PICK it \in [P -> V] : Upto(k, it)
    BY <1>4
  <2> DEFINE h == [s \in P |-> IF Cardinality(s) <= k THEN it[s] ELSE Round(it, s)]
  <2>2. h \in [P -> V]
    <3>1. \A s \in P : Round(it, s) \in V
      BY <1>2
    <3> HIDE DEF Round
    <3> QED
      BY <3>1
  <2>3. ASSUME NEW s \in P, Cardinality(s) <= k + 1 PROVE h[s] = Round(h, s)
    <3>1. h[s] = Round(it, s)
      BY <2>1
    <3>2. CASE s = {}
      BY <3>1, <3>2
    <3>3. CASE s # {}
      <4> DEFINE r == s \ {Max(s)}
      <4>1. r \in P /\ Cardinality(r) <= k
        BY <3>3, <2>3, <1>0
      <4>2. h[r] = it[r]
        BY <4>1
      <4> QED
        BY <4>2, <3>1, <3>3
    <3> QED
      BY <3>2, <3>3
  <2>4. Upto(k + 1, h)
    BY <2>3
  <2> HIDE DEF h, Upto
  <2> QED
    BY <2>2, <2>4
<1>5. \A k \in Nat : k \in N
  <2> HIDE DEF N
  <2> QED
    BY <1>3, <1>4, SetInduction
<1>6. PICK it \in [P -> V] : Upto(n, it)
  BY <1>5
<1>7. \A s \in P : Cardinality(s) <= n
  <2>1. IsFiniteSet(1..n) /\ Cardinality(1..n) = n
    <3>1. 1 \in Int /\ n \in Int
      OBVIOUS
    <3>2. /\ IsFiniteSet(1..n)
          /\ Cardinality(1..n) = IF 1 > n THEN 0 ELSE n - 1 + 1
      BY <3>1, FS_Interval, Zenon
    <3> QED
      BY <3>2
  <2>2. ASSUME NEW s \in P PROVE Cardinality(s) <= Cardinality(1..n)
    <3>1. s \subseteq 1..n
      OBVIOUS
    <3> QED
      BY <3>1, <2>1, FS_Subset, Zenon
  <2> QED
    BY <2>1, <2>2
<1> QED
  BY <1>6, <1>7 DEF Rounds

(* After k rounds.                                                         *)
LEMMA RoundsInTurn ==
  ASSUME NEW n \in Nat, NEW k \in 1..n
  PROVE  1..k \in SUBSET (1..n) /\ 1..k # {} /\ Max(1..k) = k /\ (1..k) \ {k} = 1..(k - 1)
<1>1. k \in 1..k /\ \A y \in 1..k : k >= y
  OBVIOUS
<1>2. Max(1..k) \in 1..k /\ \A y \in 1..k : Max(1..k) >= y
  BY <1>1 DEF Max
<1>3. Max(1..k) = k
  BY <1>1, <1>2
<1>4. 1..k \in SUBSET (1..n)
  OBVIOUS
<1>5. (1..k) \ {k} = 1..(k - 1)
  OBVIOUS
<1> QED
  BY <1>1, <1>3, <1>4, <1>5

(***************************************************************************)
(* The staking records. Filtered, no two have the same address; grading    *)
(* rearranges them.                                                        *)
(***************************************************************************)
(* One round of the filter.                                                *)
FilterOne(kept, s) ==
  IF \E i \in DOMAIN kept : kept[i].CoinbaseAddress = s.CoinbaseAddress
  THEN kept ELSE Append(kept, s)

AreFiltered(g, s, n) ==
  g[0] = <<>> /\ \A k \in 1..n : g[k] = FilterOne(g[k - 1], s[k])

(* The filter is its last round.                                           *)
LEMMA FilterRounds ==
  ASSUME NEW T, NEW s \in Seq(T)
  PROVE  \E g : AreFiltered(g, s, Len(s)) /\ filterDuplicateSPRs(s) = g[Len(s)]
<1>0. Len(s) \in Nat /\ DOMAIN s = 1..Len(s) /\ \A i \in 1..Len(s) : s[i] \in T
  OBVIOUS
<1>1. PICK n \in Nat : n = Len(s)
  BY <1>0
<1> DEFINE V == Seq(T)
           P == SUBSET (1..n)
           step == [p \in (1..n) \X V |-> FilterOne(p[2], s[p[1]])]
           Body(it) == [q \in P |-> IF q = {} THEN <<>> ELSE FilterOne(it[q \ {Max(q)}], s[Max(q)])]
           iter == CHOOSE x : x = Body(x)
<1>2. <<>> \in V
  OBVIOUS
<1>3. step \in [(1..n) \X V -> V]
  BY <1>0, <1>1 DEF FilterOne
<1>4. PICK it : Rounds(n, V, <<>>, step, it)
  <2> HIDE DEF V, step
  <2> QED
    BY <1>2, <1>3, RoundsExist
<1>5. it = Body(it)
  <2>1. it \in [P -> V] /\ \A q \in P : it[q] = IF q = {} THEN <<>> ELSE step[<<Max(q), it[q \ {Max(q)}]>>]
    BY <1>4 DEF Rounds
  <2>2. ASSUME NEW q \in P, q # {} PROVE step[<<Max(q), it[q \ {Max(q)}]>>] = FilterOne(it[q \ {Max(q)}], s[Max(q)])
    <3>1. Max(q) \in 1..n /\ q \ {Max(q)} \in P
      BY <2>2, LastPlace
    <3>2. it[q \ {Max(q)}] \in V
      BY <3>1, <2>1
    <3> HIDE DEF V
    <3> QED
      BY <3>1, <3>2
  <2>3. ASSUME NEW q \in P PROVE it[q] = Body(it)[q]
    <3> HIDE DEF step
    <3> QED
      BY <2>1, <2>2
  <2>4. Body(it) = [q \in P |-> Body(it)[q]]
    OBVIOUS
  <2> HIDE DEF Body
  <2> QED
    BY <2>1, <2>3, <2>4
<1>6. iter = Body(iter)
  BY <1>5
<1>7. filterDuplicateSPRs(s) = iter[1..n]
  BY <1>0, <1>1 DEF filterDuplicateSPRs, FoldLeft, MapThenFoldSet, FilterOne
<1> HIDE DEF iter
<1>8. \A q \in P : iter[q] = IF q = {} THEN <<>> ELSE FilterOne(iter[q \ {Max(q)}], s[Max(q)])
  BY <1>6
<1> DEFINE g == [k \in 0..n |-> iter[1..k]]
<1>9. g[0] = <<>>
  <2>1. g[0] = iter[{}]
    OBVIOUS
  <2> QED
    BY <2>1, <1>8
<1>10. ASSUME NEW k \in 1..n PROVE g[k] = FilterOne(g[k - 1], s[k])
  <2>1. 1..k \in P /\ 1..k # {} /\ Max(1..k) = k /\ (1..k) \ {k} = 1..(k - 1)
    BY RoundsInTurn
  <2>2. g[k] = iter[1..k] /\ g[k - 1] = iter[1..(k - 1)]
    OBVIOUS
  <2> HIDE DEF g
  <2> QED
    BY <2>1, <2>2, <1>8
<1>11. AreFiltered(g, s, n) /\ g[n] = iter[1..n]
  <2>1. g[n] = iter[1..n]
    OBVIOUS
  <2> HIDE DEF g
  <2> QED
    BY <2>1, <1>9, <1>10 DEF AreFiltered
<1> HIDE DEF g
<1> QED
  BY <1>1, <1>7, <1>11

(* No two records have the same payout address.                            *)
OnePerAddress(list) ==
  \A i, j \in 1..Len(list) : list[i].CoinbaseAddress = list[j].CoinbaseAddress => i = j

(* filterDuplicates leaves one record per address.                         *)
LEMMA FilteredOnce ==
  ASSUME NEW T, NEW s \in Seq(T)
  PROVE  filterDuplicateSPRs(s) \in Seq(T) /\ OnePerAddress(filterDuplicateSPRs(s))
<1>0. Len(s) \in Nat /\ \A i \in 1..Len(s) : s[i] \in T
  OBVIOUS
<1>1. PICK n \in Nat : n = Len(s) /\ \E g : AreFiltered(g, s, n) /\ filterDuplicateSPRs(s) = g[n]
  BY <1>0, FilterRounds
<1> PICK g : AreFiltered(g, s, n) /\ filterDuplicateSPRs(s) = g[n]
  BY <1>1
<1> DEFINE Good(k) == g[k] \in Seq(T) /\ OnePerAddress(g[k])
           N == {k \in Nat : k <= n => Good(k)}
<1>2. 0 \in N
  <2>1. g[0] = <<>>
    BY DEF AreFiltered
  <2>2. <<>> \in Seq(T) /\ Len(<<>>) = 0
    OBVIOUS
  <2>3. OnePerAddress(<<>>)
    BY <2>2 DEF OnePerAddress
  <2> QED
    BY <2>1, <2>2, <2>3
<1>3. ASSUME NEW k \in Nat, k \in N PROVE k + 1 \in N
  <2> SUFFICES ASSUME k + 1 <= n PROVE Good(k + 1)
    OBVIOUS
  <2>1. k <= n /\ k + 1 \in 1..n /\ (k + 1) - 1 = k
    OBVIOUS
  <2>2. PICK a \in Seq(T), x \in T : a = g[k] /\ x = s[k + 1] /\ OnePerAddress(a)
    BY <2>1, <1>0, <1>1, <1>3
  <2>3. g[k + 1] = FilterOne(a, x)
    BY <2>1, <2>2, <1>1 DEF AreFiltered
  <2>4. CASE \E i \in DOMAIN a : a[i].CoinbaseAddress = x.CoinbaseAddress
    BY <2>2, <2>3, <2>4 DEF FilterOne
  <2>5. CASE ~\E i \in DOMAIN a : a[i].CoinbaseAddress = x.CoinbaseAddress
    <3>1. g[k + 1] = Append(a, x)
      BY <2>3, <2>5 DEF FilterOne
    <3>0. Len(a) \in Nat /\ Append(a, x) \in Seq(T)
      OBVIOUS
    <3>2. PICK l \in Nat, b \in Seq(T) : l = Len(a) /\ b = Append(a, x)
      BY <3>0
    <3>3. Len(b) = l + 1 /\ b[l + 1] = x /\ \A i \in 1..l : b[i] = a[i]
      BY <3>2, AppendProperties
    <3>4. \A i \in 1..(l + 1) : i \in 1..l \/ i = l + 1
      BY <3>2
    <3>5. \A i \in 1..l : a[i].CoinbaseAddress # x.CoinbaseAddress
      BY <3>2, <2>5
    <3>6. \A i, j \in 1..l : a[i].CoinbaseAddress = a[j].CoinbaseAddress => i = j
      BY <3>2, <2>2 DEF OnePerAddress
    <3>7. ASSUME NEW i \in 1..(l + 1), NEW j \in 1..(l + 1), b[i].CoinbaseAddress = b[j].CoinbaseAddress
          PROVE  i = j
      BY <3>3, <3>4, <3>5, <3>6, <3>7
    <3> QED
      BY <3>1, <3>2, <3>3, <3>7 DEF OnePerAddress
  <2> QED
    BY <2>4, <2>5
<1>4. \A k \in Nat : k \in N
  <2> HIDE DEF N
  <2> QED
    BY <1>2, <1>3, SetInduction
<1>5. Good(n)
  BY <1>4
<1> QED
  BY <1>1, <1>5

(* t has the n records of s in the order o.                                *)
InTheOrder(t, s, n, o) ==
  /\ o \in [1..n -> 1..n] /\ \A j, k \in 1..n : o[j] = o[k] => j = k
  /\ Len(t) = n /\ \A k \in 1..n : t[k] = s[o[k]]

Rearranged(t, s, n) == \E o : InTheOrder(t, s, n, o)

(* t is a, of n records, with x put in at place p.                         *)
HasInserted(t, a, n, p, x) ==
  /\ Len(t) = n + 1
  /\ \A i \in 1..(n + 1) : t[i] = IF i < p THEN a[i] ELSE IF i = p THEN x ELSE a[i - 1]

(* An element put into a list.                                             *)
LEMMA Inserted ==
  ASSUME NEW T, NEW a \in Seq(T), NEW x \in T, NEW p \in 1..(Len(a) + 1)
  PROVE  InsertAt(a, p, x) \in Seq(T) /\ HasInserted(InsertAt(a, p, x), a, Len(a), p, x)
<1>0. Len(a) \in Nat
  OBVIOUS
<1>1. PICK n \in Nat : n = Len(a)
  BY <1>0
<1> DEFINE l == SubSeq(a, 1, p - 1)
           m == l \o <<x>>
           q == SubSeq(a, p, n)
<1>2. l \in Seq(T) /\ Len(l) = p - 1 /\ \A i \in 1..(p - 1) : l[i] = a[i]
  BY <1>1, SubSeqProperties
<1>3. q \in Seq(T) /\ Len(q) = n - p + 1 /\ \A i \in 1..(n - p + 1) : q[i] = a[p + i - 1]
  BY <1>1, SubSeqProperties
<1> HIDE DEF l, q
<1>4. <<x>> \in Seq(T) /\ Len(<<x>>) = 1 /\ <<x>>[1] = x
  OBVIOUS
<1>5. m \in Seq(T) /\ Len(m) = p /\ (\A i \in 1..(p - 1) : m[i] = a[i]) /\ m[p] = x
  <2>1. m \in Seq(T) /\ Len(m) = (p - 1) + 1
        /\ \A i \in 1..((p - 1) + 1) : m[i] = IF i <= p - 1 THEN l[i] ELSE <<x>>[i - (p - 1)]
    BY <1>2, <1>4, ConcatProperties
  <2>2. (p - 1) + 1 = p /\ p - (p - 1) = 1 /\ ~(p <= p - 1) /\ p \in 1..p
    BY <1>1
  <2>3. \A i \in 1..(p - 1) : i \in 1..p /\ i <= p - 1
    BY <1>1
  <2> HIDE DEF m
  <2>4. m[p] = x
    BY <2>1, <2>2, <1>4
  <2>5. \A i \in 1..(p - 1) : m[i] = a[i]
    BY <2>1, <2>2, <2>3, <1>2
  <2> QED
    BY <2>1, <2>2, <2>4, <2>5
<1> HIDE DEF m
<1>6. PICK t : t = m \o q
  OBVIOUS
<1>7. InsertAt(a, p, x) = t
  BY <1>1, <1>6 DEF InsertAt, l, m, q
<1>8. /\ t \in Seq(T) /\ Len(t) = p + (n - p + 1)
      /\ \A i \in 1..(p + (n - p + 1)) : t[i] = IF i <= p THEN m[i] ELSE q[i - p]
  <2>1. /\ t \in Seq(T) /\ Len(t) = Len(m) + Len(q)
        /\ \A i \in 1..(Len(m) + Len(q)) : t[i] = IF i <= Len(m) THEN m[i] ELSE q[i - Len(m)]
    BY <1>3, <1>5, <1>6, ConcatProperties
  <2> QED
    BY <2>1, <1>3, <1>5
<1>9. p + (n - p + 1) = n + 1
  BY <1>1
<1>10. ASSUME NEW i \in 1..(n + 1) PROVE t[i] = IF i < p THEN a[i] ELSE IF i = p THEN x ELSE a[i - 1]
  <2>1. CASE i < p
    <3>1. i \in 1..(p - 1) /\ i <= p
      BY <2>1, <1>1
    <3> QED
      BY <3>1, <2>1, <1>5, <1>8, <1>9
  <2>2. CASE i = p
    <3>1. i <= p /\ ~(i < p)
      BY <2>2, <1>1
    <3> QED
      BY <3>1, <2>2, <1>5, <1>8, <1>9
  <2>3. CASE i > p
    <3>1. i - p \in 1..(n - p + 1) /\ p + (i - p) - 1 = i - 1 /\ ~(i <= p) /\ ~(i < p) /\ i # p
      BY <2>3, <1>1
    <3>2. t[i] = q[i - p]
      BY <3>1, <1>8, <1>9
    <3>3. q[i - p] = a[p + (i - p) - 1]
      BY <3>1, <1>3, Zenon
    <3> QED
      BY <3>1, <3>2, <3>3
  <2> QED
    BY <2>1, <2>2, <2>3, <1>1
<1> QED
  BY <1>1, <1>7, <1>8, <1>9, <1>10 DEF HasInserted

(* One round of the sort of the graded records.                            *)
Ahead(sorted, x, avg, banded) ==
  {j \in DOMAIN sorted : ~(gradeS1(avg, x, banded) < gradeS1(avg, sorted[j], banded))}
InsertOne(sorted, x, avg, banded) ==
  InsertAt(sorted, 1 + Cardinality(Ahead(sorted, x, avg, banded)), x)

(* Whatever the grades, it puts the record somewhere into the list.        *)
LEMMA InsertedSomewhere ==
  ASSUME NEW T, NEW a \in Seq(T), NEW x, NEW avg, NEW banded
  PROVE  1 + Cardinality(Ahead(a, x, avg, banded)) \in 1..(Len(a) + 1)
<1>1. Len(a) \in Nat /\ DOMAIN a = 1..Len(a)
  BY LenProperties
<1>2. PICK n \in Nat, D \in {DOMAIN a} : n = Len(a) /\ D = 1..n
  BY <1>1
<1>3. IsFiniteSet(D) /\ Cardinality(D) = n
  <2>1. 1 \in Int /\ n \in Int
    OBVIOUS
  <2>2. /\ IsFiniteSet(1..n)
        /\ Cardinality(1..n) = IF 1 > n THEN 0 ELSE n - 1 + 1
    BY <2>1, FS_Interval, Zenon
  <2> QED
    BY <2>2, <1>2
<1>4. PICK A : A = Ahead(a, x, avg, banded) /\ A \subseteq D
  BY <1>2 DEF Ahead
<1>5. IsFiniteSet(A) /\ Cardinality(A) <= Cardinality(D)
  BY <1>3, <1>4, FS_Subset, Zenon
<1>6. Cardinality(A) \in Nat
  BY <1>5, FS_CardinalityType
<1> QED
  BY <1>2, <1>3, <1>4, <1>5, <1>6

AreSorted(g, s, n, avg, banded) ==
  g[0] = <<>> /\ \A k \in 1..n : g[k] = InsertOne(g[k - 1], s[k], avg, banded)

(* The sort of a pass.                                                     *)
SortedByGrade(s, avg, banded) ==
  SliceStable(s, LAMBDA a, b : gradeS1(avg, a, banded) < gradeS1(avg, b, banded))

(* It is its last round.                                                   *)
LEMMA SortRounds ==
  ASSUME NEW T, NEW s \in Seq(T), NEW avg, NEW banded
  PROVE  \E g : AreSorted(g, s, Len(s), avg, banded) /\ SortedByGrade(s, avg, banded) = g[Len(s)]
<1>0. Len(s) \in Nat /\ DOMAIN s = 1..Len(s) /\ \A i \in 1..Len(s) : s[i] \in T
  OBVIOUS
<1>1. PICK n \in Nat : n = Len(s)
  BY <1>0
<1> DEFINE V == Seq(T)
           P == SUBSET (1..n)
           step == [p \in (1..n) \X V |-> InsertOne(p[2], s[p[1]], avg, banded)]
           Body(it) == [q \in P |-> IF q = {} THEN <<>>
                                    ELSE InsertOne(it[q \ {Max(q)}], s[Max(q)], avg, banded)]
           iter == CHOOSE x : x = Body(x)
<1>2. <<>> \in V
  OBVIOUS
<1>3. step \in [(1..n) \X V -> V]
  <2>1. ASSUME NEW i \in 1..n, NEW v \in V PROVE InsertOne(v, s[i], avg, banded) \in V
    <3>1. s[i] \in T
      BY <1>0, <1>1
    <3>2. 1 + Cardinality(Ahead(v, s[i], avg, banded)) \in 1..(Len(v) + 1)
      BY InsertedSomewhere
    <3> QED
      BY <3>1, <3>2, Inserted DEF InsertOne
  <2> HIDE DEF V
  <2> QED
    BY <2>1
<1>4. PICK it : Rounds(n, V, <<>>, step, it)
  <2> HIDE DEF V, step
  <2> QED
    BY <1>2, <1>3, RoundsExist
<1>5. it = Body(it)
  <2>1. it \in [P -> V] /\ \A q \in P : it[q] = IF q = {} THEN <<>> ELSE step[<<Max(q), it[q \ {Max(q)}]>>]
    BY <1>4 DEF Rounds
  <2>2. ASSUME NEW q \in P, q # {}
        PROVE  step[<<Max(q), it[q \ {Max(q)}]>>] = InsertOne(it[q \ {Max(q)}], s[Max(q)], avg, banded)
    <3>1. Max(q) \in 1..n /\ q \ {Max(q)} \in P
      BY <2>2, LastPlace
    <3>2. it[q \ {Max(q)}] \in V
      BY <3>1, <2>1
    <3> HIDE DEF V
    <3> QED
      BY <3>1, <3>2
  <2>3. ASSUME NEW q \in P PROVE it[q] = Body(it)[q]
    <3> HIDE DEF step
    <3> QED
      BY <2>1, <2>2
  <2>4. Body(it) = [q \in P |-> Body(it)[q]]
    OBVIOUS
  <2> HIDE DEF Body
  <2> QED
    BY <2>1, <2>3, <2>4
<1>6. iter = Body(iter)
  BY <1>5
<1>7. SortedByGrade(s, avg, banded) = iter[1..n]
  BY <1>0, <1>1 DEF SortedByGrade, SliceStable, FoldLeft, MapThenFoldSet, InsertOne, Ahead
<1> HIDE DEF iter
<1>8. \A q \in P : iter[q] = IF q = {} THEN <<>>
                             ELSE InsertOne(iter[q \ {Max(q)}], s[Max(q)], avg, banded)
  BY <1>6
<1> DEFINE g == [k \in 0..n |-> iter[1..k]]
<1>9. g[0] = <<>>
  <2>1. g[0] = iter[{}]
    OBVIOUS
  <2> QED
    BY <2>1, <1>8
<1>10. ASSUME NEW k \in 1..n PROVE g[k] = InsertOne(g[k - 1], s[k], avg, banded)
  <2>1. 1..k \in P /\ 1..k # {} /\ Max(1..k) = k /\ (1..k) \ {k} = 1..(k - 1)
    BY RoundsInTurn
  <2>2. g[k] = iter[1..k] /\ g[k - 1] = iter[1..(k - 1)]
    OBVIOUS
  <2> HIDE DEF g
  <2> QED
    BY <2>1, <2>2, <1>8
<1>11. AreSorted(g, s, n, avg, banded) /\ g[n] = iter[1..n]
  <2>1. g[n] = iter[1..n]
    OBVIOUS
  <2> HIDE DEF g
  <2> QED
    BY <2>1, <1>9, <1>10 DEF AreSorted
<1> HIDE DEF g
<1> QED
  BY <1>1, <1>7, <1>11

(* A record put into a rearranged list.                                    *)
LEMMA InsertRearranges ==
  ASSUME NEW T, NEW s \in Seq(T), NEW k \in Nat, k + 1 <= Len(s), NEW a \in Seq(T), Rearranged(a, s, k),
         NEW p \in 1..(k + 1)
  PROVE  InsertAt(a, p, s[k + 1]) \in Seq(T) /\ Rearranged(InsertAt(a, p, s[k + 1]), s, k + 1)
<1>1. PICK o : InTheOrder(a, s, k, o)
  BY DEF Rearranged
<1>2. /\ o \in [1..k -> 1..k] /\ (\A i, j \in 1..k : o[i] = o[j] => i = j)
      /\ Len(a) = k /\ \A i \in 1..k : a[i] = s[o[i]]
  BY <1>1 DEF InTheOrder
<1>3. PICK x \in T : x = s[k + 1]
  <2>1. k + 1 \in 1..Len(s)
    OBVIOUS
  <2> QED
    BY <2>1
<1>4. PICK t \in Seq(T) : /\ t = InsertAt(a, p, x) /\ Len(t) = k + 1
                          /\ \A i \in 1..(k + 1) : t[i] = IF i < p THEN a[i] ELSE IF i = p THEN x ELSE a[i - 1]
  <2>1. p \in 1..(Len(a) + 1)
    BY <1>2
  <2>2. InsertAt(a, p, x) \in Seq(T) /\ HasInserted(InsertAt(a, p, x), a, Len(a), p, x)
    BY <2>1, Inserted
  <2> QED
    BY <2>2, <1>2 DEF HasInserted
<1> DEFINE w == [i \in 1..(k + 1) |-> IF i < p THEN o[i] ELSE IF i = p THEN k + 1 ELSE o[i - 1]]
<1>5. ASSUME NEW i \in 1..(k + 1)
      PROVE  /\ i < p => i \in 1..k /\ w[i] = o[i] /\ t[i] = a[i]
             /\ i = p => w[i] = k + 1 /\ t[i] = x
             /\ i > p => i - 1 \in 1..k /\ w[i] = o[i - 1] /\ t[i] = a[i - 1]
             /\ i < p \/ i = p \/ i > p
  <2>1. /\ i < p => i \in 1..k
        /\ i > p => i - 1 \in 1..k /\ ~(i < p) /\ i # p
        /\ i = p => ~(i < p)
        /\ i < p \/ i = p \/ i > p
    OBVIOUS
  <2> QED
    BY <2>1, <1>4
<1> HIDE DEF w
<1>6. ASSUME NEW i \in 1..(k + 1) PROVE w[i] \in 1..(k + 1) /\ t[i] = s[w[i]]
  <2>1. \A j \in 1..k : o[j] \in 1..(k + 1) /\ a[j] = s[o[j]]
    <3>1. 1..k \subseteq 1..(k + 1)
      OBVIOUS
    <3>2. \A j \in 1..k : o[j] \in 1..k
      BY <1>2, Zenon
    <3> QED
      BY <3>1, <3>2, <1>2, Zenon
  <2>2. k + 1 \in 1..(k + 1)
    OBVIOUS
  <2>3. CASE i < p
    BY <2>1, <2>3, <1>5
  <2>4. CASE i = p
    BY <2>2, <2>4, <1>3, <1>5
  <2>5. CASE i > p
    <3>1. PICK j \in 1..k : j = i - 1 /\ w[i] = o[j] /\ t[i] = a[j]
      BY <2>5, <1>5
    <3> QED
      BY <3>1, <2>1
  <2> QED
    BY <2>3, <2>4, <2>5
<1>7. ASSUME NEW i \in 1..(k + 1), NEW j \in 1..(k + 1), w[i] = w[j] PROVE i = j
  <2>1. \A m \in 1..k : o[m] # k + 1
    <3>1. k + 1 \notin 1..k
      OBVIOUS
    <3> QED
      BY <3>1, <1>2
  <2>2. CASE i = p
    BY <2>1, <2>2, <1>5, <1>7
  <2>3. CASE j = p
    BY <2>1, <2>3, <1>5, <1>7
  <2>4. CASE i < p /\ j < p
    BY <2>4, <1>2, <1>5, <1>7
  <2>5. CASE i > p /\ j > p
    <3>1. i - 1 = j - 1
      BY <2>5, <1>2, <1>5, <1>7
    <3> QED
      BY <3>1
  <2>6. CASE i < p /\ j > p
    <3>1. i = j - 1
      BY <2>6, <1>2, <1>5, <1>7
    <3> QED
      BY <3>1, <2>6
  <2>7. CASE i > p /\ j < p
    <3>1. i - 1 = j
      BY <2>7, <1>2, <1>5, <1>7
    <3> QED
      BY <3>1, <2>7
  <2> QED
    BY <2>2, <2>3, <2>4, <2>5, <2>6, <2>7, <1>5
<1>8. w \in [1..(k + 1) -> 1..(k + 1)]
  BY <1>6 DEF w
<1>9. InTheOrder(t, s, k + 1, w)
  BY <1>4, <1>6, <1>7, <1>8 DEF InTheOrder
<1> QED
  BY <1>3, <1>4, <1>9 DEF Rearranged

(* The sort of a pass rearranges.                                          *)
LEMMA SortRearranges ==
  ASSUME NEW T, NEW s \in Seq(T), NEW avg, NEW banded
  PROVE  SortedByGrade(s, avg, banded) \in Seq(T) /\ Rearranged(SortedByGrade(s, avg, banded), s, Len(s))
<1>0. Len(s) \in Nat /\ \A i \in 1..Len(s) : s[i] \in T
  OBVIOUS
<1>1. PICK n \in Nat : n = Len(s)
  BY <1>0
<1>2. PICK g : AreSorted(g, s, n, avg, banded) /\ SortedByGrade(s, avg, banded) = g[n]
  BY <1>1, SortRounds
<1> DEFINE Good(k) == g[k] \in Seq(T) /\ Rearranged(g[k], s, k)
           N == {k \in Nat : k <= n => Good(k)}
<1>3. 0 \in N
  <2>1. g[0] = <<>> /\ <<>> \in Seq(T) /\ Len(<<>>) = 0
    BY <1>2 DEF AreSorted
  <2>2. InTheOrder(<<>>, s, 0, <<>>)
    BY DEF InTheOrder
  <2> QED
    BY <2>1, <2>2 DEF Rearranged
<1>4. ASSUME NEW k \in Nat, k \in N PROVE k + 1 \in N
  <2> SUFFICES ASSUME k + 1 <= n PROVE Good(k + 1)
    OBVIOUS
  <2>1. k <= n /\ k + 1 \in 1..n /\ (k + 1) - 1 = k
    OBVIOUS
  <2>2. PICK a \in Seq(T), x \in T : a = g[k] /\ x = s[k + 1] /\ Rearranged(a, s, k)
    BY <2>1, <1>0, <1>1, <1>4
  <2>3. PICK p : p = 1 + Cardinality(Ahead(a, x, avg, banded))
    OBVIOUS
  <2>4. Len(a) = k
    BY <2>2 DEF Rearranged, InTheOrder
  <2>5. p \in 1..(k + 1)
    BY <2>3, <2>4, InsertedSomewhere
  <2>6. g[k + 1] = InsertAt(a, p, s[k + 1])
    BY <2>1, <2>2, <2>3, <1>2 DEF AreSorted, InsertOne
  <2>7. InsertAt(a, p, s[k + 1]) \in Seq(T) /\ Rearranged(InsertAt(a, p, s[k + 1]), s, k + 1)
    BY <2>2, <2>5, <1>1, InsertRearranges
  <2> QED
    BY <2>6, <2>7
<1>5. \A k \in Nat : k \in N
  <2> HIDE DEF N
  <2> QED
    BY <1>3, <1>4, SetInduction
<1>6. Good(n)
  BY <1>5
<1> QED
  BY <1>1, <1>2, <1>6

(* One pass over n records: the first i sorted, the rest behind them.      *)
PassOne(list, i, n) ==
  SortedByGrade(SubSeq(list, 1, i), averageS1(SubSeq(list, 1, i)), i >= WinnersV2)
    \o SubSeq(list, i + 1, n)

(* A pass rearranges.                                                      *)
LEMMA PassRearranges ==
  ASSUME NEW T, NEW s \in Seq(T), NEW i \in 1..Len(s)
  PROVE  PassOne(s, i, Len(s)) \in Seq(T) /\ Rearranged(PassOne(s, i, Len(s)), s, Len(s))
<1>0. Len(s) \in Nat
  OBVIOUS
<1>1. PICK n \in Nat : n = Len(s)
  BY <1>0
<1>2. PICK f \in Seq(T) : f = SubSeq(s, 1, i) /\ Len(f) = i /\ \A k \in 1..i : f[k] = s[k]
  <2>1. /\ SubSeq(s, 1, i) \in Seq(T) /\ Len(SubSeq(s, 1, i)) = i
        /\ \A k \in 1..i : SubSeq(s, 1, i)[k] = s[1 + k - 1]
    BY <1>1, SubSeqProperties
  <2>2. \A k \in 1..i : 1 + k - 1 = k
    OBVIOUS
  <2>3. \A k \in 1..i : SubSeq(s, 1, i)[k] = s[k]
    BY <2>1, <2>2
  <2> QED
    BY <2>1, <2>3
<1>3. PICK r \in Seq(T) : r = SubSeq(s, i + 1, n) /\ Len(r) = n - i /\ \A k \in 1..(n - i) : r[k] = s[i + k]
  <2>1. /\ SubSeq(s, i + 1, n) \in Seq(T)
        /\ Len(SubSeq(s, i + 1, n)) = n - (i + 1) + 1
        /\ \A k \in 1..(n - (i + 1) + 1) : SubSeq(s, i + 1, n)[k] = s[(i + 1) + k - 1]
    BY <1>1, SubSeqProperties
  <2>2. n - (i + 1) + 1 = n - i /\ \A k \in 1..(n - i) : (i + 1) + k - 1 = i + k
    BY <1>1
  <2>3. PICK q \in Seq(T) : q = SubSeq(s, i + 1, n)
    BY <2>1
  <2>4. Len(q) = n - i
    BY <2>1, <2>2, <2>3
  <2>5. \A k \in 1..(n - i) : q[k] = s[i + k]
    BY <2>1, <2>2, <2>3
  <2> QED
    BY <2>3, <2>4, <2>5
<1>4. PICK t \in Seq(T), o \in [1..i -> 1..i] :
        t = SortedByGrade(f, averageS1(f), i >= WinnersV2) /\ InTheOrder(t, f, i, o)
  <2>1. SortedByGrade(f, averageS1(f), i >= WinnersV2) \in Seq(T)
        /\ Rearranged(SortedByGrade(f, averageS1(f), i >= WinnersV2), f, i)
    BY <1>2, SortRearranges
  <2> QED
    BY <2>1 DEF Rearranged, InTheOrder
<1>5. PICK u : u = t \o r
  OBVIOUS
<1>6. PassOne(s, i, n) = u
  BY <1>1, <1>2, <1>3, <1>4, <1>5 DEF PassOne
<1>7. /\ (\A j, k \in 1..i : o[j] = o[k] => j = k)
      /\ Len(t) = i /\ \A k \in 1..i : t[k] = s[o[k]]
  BY <1>2, <1>4 DEF InTheOrder
<1>8. /\ u \in Seq(T) /\ Len(u) = n /\ (\A k \in 1..i : u[k] = s[o[k]])
      /\ \A k \in (i + 1)..n : u[k] = s[k]
  <2>1. /\ u \in Seq(T) /\ Len(u) = Len(t) + Len(r)
        /\ \A k \in 1..(Len(t) + Len(r)) : u[k] = IF k <= Len(t) THEN t[k] ELSE r[k - Len(t)]
    BY <1>5, ConcatProperties
  <2>2. Len(t) + Len(r) = n
    BY <1>1, <1>3, <1>7
  <2>3. ASSUME NEW k \in 1..i PROVE u[k] = s[o[k]]
    <3>1. k \in 1..n /\ k <= i
      BY <1>1
    <3> QED
      BY <3>1, <2>1, <2>2, <1>7
  <2>4. ASSUME NEW k \in (i + 1)..n PROVE u[k] = s[k]
    <3>1. k \in 1..n /\ ~(k <= i) /\ k - i \in 1..(n - i) /\ i + (k - i) = k
      BY <1>1
    <3>2. u[k] = r[k - i]
      BY <3>1, <2>1, <2>2, <1>7
    <3> QED
      BY <3>1, <3>2, <1>3
  <2> QED
    BY <2>1, <2>2, <2>3, <2>4
<1> DEFINE w == [k \in 1..n |-> IF k <= i THEN o[k] ELSE k]
<1>9. \A k \in 1..n : (k <= i => k \in 1..i /\ w[k] = o[k]) /\ (~(k <= i) => k \in (i + 1)..n /\ w[k] = k)
  BY <1>1
<1>10. \A k \in 1..i : o[k] \in 1..i /\ o[k] \in 1..n /\ o[k] <= i
  BY <1>1
<1> HIDE DEF w
<1>11. ASSUME NEW j \in 1..n, NEW k \in 1..n, w[j] = w[k] PROVE j = k
  <2>1. CASE j <= i /\ k <= i
    BY <2>1, <1>7, <1>9, <1>11
  <2>2. CASE j <= i /\ ~(k <= i)
    BY <2>2, <1>9, <1>10, <1>11
  <2>3. CASE ~(j <= i) /\ k <= i
    BY <2>3, <1>9, <1>10, <1>11
  <2>4. CASE ~(j <= i) /\ ~(k <= i)
    BY <2>4, <1>9, <1>11
  <2> QED
    BY <2>1, <2>2, <2>3, <2>4
<1>12. \A k \in 1..n : w[k] \in 1..n /\ u[k] = s[w[k]]
  BY <1>8, <1>9, <1>10
<1>13. w \in [1..n -> 1..n]
  BY <1>12 DEF w
<1>14. InTheOrder(u, s, n, w)
  BY <1>8, <1>11, <1>12, <1>13 DEF InTheOrder
<1> QED
  BY <1>1, <1>6, <1>8, <1>14 DEF Rearranged

(* The lists after the passes, from the last to the first.                 *)
ArePassed(g, s, n, top, from) ==
  g[top + 1] = s /\ \A i \in 1..top : i > from => g[i] = PassOne(g[i + 1], i, n)

(* gradeStakes is the list after the first.                                *)
LEMMA PassesOf ==
  ASSUME NEW T, NEW s \in Seq(T), NEW cutoff, NEW top \in Nat, top = Min({cutoff, Len(s)}),
         top > 0, ~(Len(s) < WinnersV2)
  PROVE  \E g : ArePassed(g, s, Len(s), top, 0) /\ gradeStakes(s, cutoff) = g[1]
<1>0. Len(s) \in Nat
  OBVIOUS
<1>1. PICK n \in Nat : n = Len(s)
  BY <1>0
<1> DEFINE N == {m \in Nat : \E g : ArePassed(g, s, n, top, top - m)}
<1>2. 0 \in N
  <2> DEFINE g == [i \in 1..(top + 1) |-> s]
  <2>1. g[top + 1] = s /\ top - 0 = top
    OBVIOUS
  <2>2. \A i \in 1..top : ~(i > top)
    OBVIOUS
  <2> HIDE DEF g
  <2>3. ArePassed(g, s, n, top, top - 0)
    BY <2>1, <2>2 DEF ArePassed
  <2> QED
    BY <2>3
<1>3. ASSUME NEW m \in Nat, m \in N PROVE m + 1 \in N
  <2>1. PICK g : ArePassed(g, s, n, top, top - m)
    BY <1>3
  <2> DEFINE h == [i \in 1..(top + 1) |-> IF i = top - m THEN PassOne(g[i + 1], i, n) ELSE g[i]]
  <2>2. \A i \in 1..(top + 1) : h[i] = IF i = top - m THEN PassOne(g[i + 1], i, n) ELSE g[i]
    OBVIOUS
  <2> HIDE DEF h
  <2>3. top + 1 \in 1..(top + 1) /\ top + 1 # top - m
    OBVIOUS
  <2>4. h[top + 1] = s
    BY <2>1, <2>2, <2>3 DEF ArePassed
  <2>5. ASSUME NEW i \in 1..top, i > top - (m + 1) PROVE h[i] = PassOne(h[i + 1], i, n)
    <3>1. i \in 1..(top + 1) /\ i + 1 \in 1..(top + 1) /\ i + 1 # top - m /\ (i = top - m \/ i > top - m)
      BY <2>5
    <3>2. h[i + 1] = g[i + 1]
      BY <3>1, <2>2
    <3>3. CASE i = top - m
      BY <3>1, <3>2, <3>3, <2>2
    <3>4. CASE i > top - m
      <4>1. i # top - m
        BY <3>4
      <4>2. h[i] = g[i]
        BY <4>1, <3>1, <2>2
      <4> QED
        BY <4>2, <3>2, <3>4, <2>1 DEF ArePassed
    <3> QED
      BY <3>1, <3>3, <3>4
  <2>6. ArePassed(h, s, n, top, top - (m + 1))
    BY <2>4, <2>5 DEF ArePassed
  <2> QED
    BY <2>6
<1>4. \A m \in Nat : m \in N
  <2> HIDE DEF N
  <2> QED
    BY <1>2, <1>3, SetInduction
<1>5. PICK g : ArePassed(g, s, n, top, 0)
  <2>1. top \in N
    BY <1>4
  <2>2. top - top = 0
    OBVIOUS
  <2> QED
    BY <2>1, <2>2
<1> DEFINE Body(f) == [i \in 1..(top + 1) |-> IF i = top + 1 THEN s ELSE PassOne(f[i + 1], i, n)]
           f == [i \in 1..(top + 1) |-> g[i]]
           pass == CHOOSE x : x = Body(x)
<1>6. f = Body(f)
  <2>1. ASSUME NEW i \in 1..(top + 1) PROVE f[i] = Body(f)[i]
    <3>1. CASE i = top + 1
      BY <3>1, <1>5 DEF ArePassed
    <3>2. CASE i # top + 1
      <4>1. i \in 1..top /\ i + 1 \in 1..(top + 1) /\ i > 0
        BY <3>2
      <4>2. f[i + 1] = g[i + 1] /\ f[i] = g[i]
        BY <4>1
      <4>3. g[i] = PassOne(g[i + 1], i, n)
        BY <4>1, <1>5, Zenon DEF ArePassed
      <4> QED
        BY <4>2, <4>3, <3>2
    <3> QED
      BY <3>1, <3>2
  <2> QED
    BY <2>1
<1>7. pass = Body(pass)
  <2> HIDE DEF f
  <2> QED
    BY <1>6, Zenon
<1>8. gradeStakes(s, cutoff) = pass[1]
  BY <1>1 DEF gradeStakes, PassOne, SortedByGrade
<1> HIDE DEF pass
<1>9. \A i \in 1..(top + 1) : pass[i] = IF i = top + 1 THEN s ELSE PassOne(pass[i + 1], i, n)
  BY <1>7
<1>10. ArePassed(pass, s, n, top, 0)
  <2>1. top + 1 \in 1..(top + 1)
    OBVIOUS
  <2>2. \A i \in 1..top : i \in 1..(top + 1) /\ i # top + 1
    OBVIOUS
  <2> QED
    BY <2>1, <2>2, <1>9 DEF ArePassed
<1> QED
  BY <1>1, <1>8, <1>10

(* A list rearranged twice.                                                *)
LEMMA RearrangedTwice ==
  ASSUME NEW u, NEW t, NEW s, NEW n \in Nat, Rearranged(u, t, n), Rearranged(t, s, n)
  PROVE  Rearranged(u, s, n)
<1>1. PICK o : InTheOrder(u, t, n, o)
  BY DEF Rearranged
<1>2. PICK w : InTheOrder(t, s, n, w)
  BY DEF Rearranged
<1> DEFINE v == [k \in 1..n |-> w[o[k]]]
<1>3. InTheOrder(u, s, n, v)
  BY <1>1, <1>2 DEF InTheOrder
<1> QED
  BY <1>3 DEF Rearranged

(* Grading rearranges the records.                                         *)
LEMMA GradingRearranges ==
  ASSUME NEW T, NEW s \in Seq(T)
  PROVE  gradeStakes(s, Cutoff) \in Seq(T) /\ Rearranged(gradeStakes(s, Cutoff), s, Len(s))
<1>0. Len(s) \in Nat /\ Cutoff \in Nat /\ Cutoff > 0 /\ WinnersV2 \in Nat /\ WinnersV2 > 0
  BY GradingAssumption, ActivationAssumption
<1>1. PICK n \in Nat : n = Len(s)
  BY <1>0
<1>2. Rearranged(s, s, n)
  <2> DEFINE o == [k \in 1..n |-> k]
  <2>1. InTheOrder(s, s, n, o)
    BY <1>1 DEF InTheOrder
  <2> QED
    BY <2>1 DEF Rearranged
<1>3. CASE n < WinnersV2
  BY <1>1, <1>2, <1>3 DEF gradeStakes
<1>4. CASE ~(n < WinnersV2)
  <2>1. PICK top \in Nat : top = Min({Cutoff, n}) /\ top > 0 /\ top <= n
    <3>1. \E x \in {Cutoff, n} : \A y \in {Cutoff, n} : x =< y
      BY <1>0, <1>1
    <3>2. Min({Cutoff, n}) \in {Cutoff, n} /\ \A y \in {Cutoff, n} : Min({Cutoff, n}) =< y
      BY <3>1 DEF Min
    <3>3. n > 0
      BY <1>0, <1>1, <1>4
    <3> QED
      BY <3>2, <3>3, <1>0, <1>1
  <2>2. PICK g : ArePassed(g, s, n, top, 0) /\ gradeStakes(s, Cutoff) = g[1]
    BY <2>1, <1>1, <1>4, PassesOf
  <2> DEFINE Good(i) == g[i] \in Seq(T) /\ Rearranged(g[i], s, n)
             N == {m \in Nat : m <= top => Good(top + 1 - m)}
  <2>3. 0 \in N
    <3>1. g[top + 1] = s /\ top + 1 - 0 = top + 1
      BY <2>2 DEF ArePassed
    <3> QED
      BY <3>1, <1>2
  <2>4. ASSUME NEW m \in Nat, m \in N PROVE m + 1 \in N
    <3> SUFFICES ASSUME m + 1 <= top PROVE Good(top + 1 - (m + 1))
      OBVIOUS
    <3>1. PICK i \in 1..top : i = top - m /\ i + 1 = top + 1 - m /\ i = top + 1 - (m + 1) /\ i > 0 /\ m <= top
      OBVIOUS
    <3>2. PICK a \in Seq(T) : a = g[i + 1] /\ Rearranged(a, s, n)
      BY <3>1, <2>4
    <3>3. Len(a) = n /\ i \in 1..n
      BY <3>1, <3>2, <2>1 DEF Rearranged, InTheOrder
    <3>4. g[i] = PassOne(a, i, n)
      BY <3>1, <3>2, <2>2 DEF ArePassed
    <3>5. PassOne(a, i, n) \in Seq(T) /\ Rearranged(PassOne(a, i, n), a, n)
      BY <3>3, PassRearranges
    <3>6. Rearranged(PassOne(a, i, n), s, n)
      BY <3>2, <3>5, RearrangedTwice
    <3> QED
      BY <3>1, <3>4, <3>5, <3>6
  <2>5. \A m \in Nat : m \in N
    <3> HIDE DEF N
    <3> QED
      BY <2>3, <2>4, SetInduction
  <2>6. Good(1)
    <3>1. top \in N /\ top + 1 - top = 1
      BY <2>5
    <3> QED
      BY <3>1
  <2> QED
    BY <2>2, <2>6, <1>1
<1> QED
  BY <1>3, <1>4

(* A graded block of staking records pays one place per winner, and no two *)
(* of the same address.                                                    *)
PaidOnce(block) ==
  LET paid == {i \in DOMAIN block.sprs : block.payout[i] > 0}
  IN  /\ Cardinality(paid) = Len(block.winners)
      /\ \A i, j \in paid : block.sprs[i].CoinbaseAddress = block.sprs[j].CoinbaseAddress => i = j

(* What the grading comes to.                                              *)
LEMMA GradedPaidOnce ==
  ASSUME NEW T, NEW s \in Seq(T)
  PROVE  PaidOnce(StakeGradedBlock(gradeStakes(filterDuplicateSPRs(s), Cutoff)))
<1>1. PICK f \in Seq(T) : f = filterDuplicateSPRs(s) /\ OnePerAddress(f)
  BY FilteredOnce
<1>2. Len(f) \in Nat /\ WinnersV2 \in Nat /\ WinnersV2 > 0
  BY ActivationAssumption
<1>3. PICK n \in Nat, W \in Nat : n = Len(f) /\ W = WinnersV2 /\ W > 0
  BY <1>2
<1>4. PICK t \in Seq(T) : t = gradeStakes(f, Cutoff) /\ Rearranged(t, f, n)
  BY <1>3, GradingRearranges
<1>5. PICK o : InTheOrder(t, f, n, o)
  BY <1>4 DEF Rearranged
<1>6. Len(t) = n /\ DOMAIN t = 1..n
  BY <1>5 DEF InTheOrder
<1>7. \A i, j \in 1..n : t[i].CoinbaseAddress = t[j].CoinbaseAddress => i = j
  <2>1. \A i, j \in 1..n : f[i].CoinbaseAddress = f[j].CoinbaseAddress => i = j
    BY <1>1, <1>3 DEF OnePerAddress
  <2>2. /\ \A k \in 1..n : o[k] \in 1..n /\ t[k] = f[o[k]]
        /\ \A j, k \in 1..n : o[j] = o[k] => j = k
    BY <1>5 DEF InTheOrder
  <2>3. ASSUME NEW i \in 1..n, NEW j \in 1..n, t[i].CoinbaseAddress = t[j].CoinbaseAddress PROVE i = j
    <3>1. o[i] \in 1..n /\ o[j] \in 1..n /\ t[i] = f[o[i]] /\ t[j] = f[o[j]]
      BY <2>2, Zenon
    <3>2. o[i] = o[j]
      BY <3>1, <2>1, <2>3, Zenon
    <3> QED
      BY <3>2, <2>2, Zenon
  <2> QED
    BY <2>3
<1>8. PICK b : b = StakeGradedBlock(t)
  OBVIOUS
<1>9. /\ b.sprs = t
      /\ b.payout = [i \in 1..n |-> IF n < W THEN 0 ELSE S1Payout(i - 1)]
      /\ b.winners = IF n < W THEN <<>> ELSE SubSeq(t, 1, W)
  BY <1>3, <1>6, <1>8 DEF StakeGradedBlock
<1> DEFINE paid == {i \in 1..n : b.payout[i] > 0}
<1>10. Cardinality(paid) = Len(b.winners)
  <2>1. CASE n < W
    <3>1. paid = {}
      BY <2>1, <1>9
    <3>2. Len(b.winners) = 0
      BY <2>1, <1>9
    <3> QED
      BY <3>1, <3>2, FS_EmptySet
  <2>2. CASE ~(n < W)
    <3>1. \A i \in 1..n : b.payout[i] = S1Payout(i - 1)
      BY <2>2, <1>9
    <3>2. \A i \in 1..n : S1Payout(i - 1) = IF i \in 1..W THEN 180 ELSE 0
      BY <1>3 DEF S1Payout
    <3>3. 1..W \subseteq 1..n
      BY <2>2
    <3>4. paid = 1..W
      BY <3>1, <3>2, <3>3
    <3>5. Cardinality(1..W) = W
      <4>1. 1 \in Int /\ W \in Int
        OBVIOUS
      <4>2. Cardinality(1..W) = IF 1 > W THEN 0 ELSE W - 1 + 1
        BY <4>1, FS_Interval, Zenon
      <4> QED
        BY <4>2, <1>3
    <3>6. Len(SubSeq(t, 1, W)) = W
      BY <2>2, <1>3, <1>6, SubSeqProperties
    <3> QED
      BY <3>4, <3>5, <3>6, <2>2, <1>9
  <2> QED
    BY <2>1, <2>2
<1>11. \A i, j \in paid : b.sprs[i].CoinbaseAddress = b.sprs[j].CoinbaseAddress => i = j
  BY <1>7, <1>9
<1>12. PaidOnce(b)
  BY <1>6, <1>9, <1>10, <1>11 DEF PaidOnce
<1> QED
  BY <1>1, <1>4, <1>8, <1>12

(* The staking library grades a list of records of a version it knows; a   *)
(* block closed by it is one that it graded.                               *)
StakeInv ==
  /\ dbht \in Nat
  /\ stakes.version \in 5..7 /\ \E T : stakes.sprs \in Seq(T)
  /\ DOMAIN stakes = {"version", "height", "sprs"}
  /\ Closed("stake") => PaidOnce(last.stake)

(* A height's staking version is one the library has a grader for.         *)
LEMMA StakeGraderFor ==
  ASSUME NEW h \in Nat
  PROVE  NewStakeGrader(SPRVersion(h), h) = [version |-> SPRVersion(h), height |-> h, sprs |-> <<>>]
         /\ SPRVersion(h) \in 5..7
BY DEF NewStakeGrader, SPRVersion

(* A payout address is paid once in a block of staking records, whatever   *)
(* the records, the prices and the numbers of winners and of records.      *)
THEOREM StakesPaidOnce == ChainSpec => []StakersArePaidOnce
<1>1. InitChain => StakeInv
  <2> SUFFICES ASSUME InitChain PROVE StakeInv
    OBVIOUS
  <2>1. dbht = 1 /\ last = Failed /\ stakes = NewStakeGrader(SPRVersion(1), 1) /\ 1 \in Nat
    BY DEF InitChain
  <2>2. stakes = [version |-> SPRVersion(1), height |-> 1, sprs |-> <<>>] /\ SPRVersion(1) \in 5..7
    BY <2>1, StakeGraderFor
  <2>3. <<>> \in Seq({})
    OBVIOUS
  <2>4. stakes.sprs \in Seq({})
    BY <2>2, <2>3
  <2> QED
    BY <2>1, <2>2, <2>4 DEF StakeInv, Closed
<1>2. StakeInv /\ [NextChain]_chainVars => StakeInv'
  <2> SUFFICES ASSUME StakeInv, [NextChain]_chainVars PROVE StakeInv'
    OBVIOUS
  <2>1. ASSUME stakes' = stakes, dbht' = dbht, last' = Failed PROVE StakeInv'
    BY <2>1 DEF StakeInv, Closed
  <2>2. ASSUME NEW m \in OPRMiners, MineOPR(m) PROVE StakeInv'
    BY <2>1, <2>2 DEF MineOPR
  <2>3. ASSUME NEW d \in Defects, DamagedOPR(d) PROVE StakeInv'
    BY <2>1, <2>3 DEF DamagedOPR
  <2>4. CASE CloseOPRBlock
    <3>1. stakes' = stakes /\ dbht' = dbht /\ \E x, y, b, c : last' = [daemon |-> x, library |-> y, inStep |-> b, same |-> c]
      BY <2>4 DEF CloseOPRBlock
    <3>2. ~("stake" \in DOMAIN last')
      BY <3>1
    <3> QED
      BY <3>1, <3>2 DEF StakeInv, Closed
  <2>5. ASSUME NEW s \in Stakers, NEW d \in StakeDefects \cup {"none"}, ReceiveSPR(s, d) PROVE StakeInv'
    <3>1. PICK e : stakes' = AddSPR(stakes, e) /\ dbht' = dbht /\ last' = Failed
      BY <2>5 DEF ReceiveSPR
    <3>2. stakes' = stakes \/ stakes' = [stakes EXCEPT !.sprs = Append(@, GradingSPR(e))]
      BY <3>1 DEF AddSPR
    <3>3. CASE stakes' = stakes
      BY <3>1, <3>3, <2>1
    <3>4. CASE stakes' = [stakes EXCEPT !.sprs = Append(@, GradingSPR(e))]
      <4>1. PICK T, x : stakes.sprs \in Seq(T) /\ x = GradingSPR(e)
        BY DEF StakeInv
      <4>2. /\ stakes'.sprs = Append(stakes.sprs, x) /\ stakes'.version = stakes.version
            /\ DOMAIN stakes' = DOMAIN stakes
        BY <4>1, <3>4 DEF StakeInv
      <4>3. stakes'.sprs \in Seq(T \cup {x})
        <5>1. stakes.sprs \in Seq(T \cup {x})
          BY <4>1
        <5> QED
          BY <5>1, <4>2
      <4> QED
        BY <4>2, <4>3, <3>1 DEF StakeInv, Closed
    <3> QED
      BY <3>2, <3>3, <3>4
  <2>6. CASE CloseSPRBlock
    <3>1. /\ last' = [stake |-> GradeStake(stakes)] /\ dbht' = dbht + 1
          /\ stakes' = NewStakeGrader(SPRVersion(dbht + 1), dbht + 1)
      BY <2>6 DEF CloseSPRBlock
    <3>2. PICK h \in Nat : h = dbht + 1
      BY DEF StakeInv
    <3>3. stakes' = [version |-> SPRVersion(h), height |-> h, sprs |-> <<>>] /\ SPRVersion(h) \in 5..7
      BY <3>1, <3>2, StakeGraderFor
    <3>4. <<>> \in Seq({})
      OBVIOUS
    <3>5. stakes'.version \in 5..7 /\ stakes'.sprs \in Seq({}) /\ DOMAIN stakes' = {"version", "height", "sprs"}
      BY <3>3, <3>4
    <3>6. PICK T : stakes.sprs \in Seq(T)
      BY DEF StakeInv
    <3>7. GradeStake(stakes) = StakeGradedBlock(gradeStakes(filterDuplicateSPRs(stakes.sprs), Cutoff))
      <4>1. stakes.version = 5 \/ stakes.version = 6 \/ stakes.version = 7
        BY DEF StakeInv
      <4> QED
        BY <4>1 DEF GradeStake, GradeCustomS1, GradeCustomS2, GradeCustomS3, gradeStakesS2, gradeStakesS3
    <3>8. PaidOnce(GradeStake(stakes))
      BY <3>6, <3>7, GradedPaidOnce
    <3>9. PaidOnce(last'.stake)
      BY <3>1, <3>8
    <3> QED
      BY <3>1, <3>2, <3>5, <3>9 DEF StakeInv, PaidOnce
  <2>7. CASE UNCHANGED chainVars
    BY <2>7 DEF chainVars, StakeInv, Closed, PaidOnce
  <2> QED
    BY <2>2, <2>3, <2>4, <2>5, <2>6, <2>7 DEF NextChain
<1>3. StakeInv => StakersArePaidOnce
  BY DEF StakeInv, StakersArePaidOnce, PaidOnce
<1> QED
  BY <1>1, <1>2, <1>3, PTL DEF ChainSpec
=============================================================================
