-------------------------- MODULE AlgorithmsProofs --------------------------
(***************************************************************************)
(* Theorems about the small components that keep a state of their own, for *)
(* every value of their constants: the miners' rankings (NonceRanking),    *)
(* the tracking of burns (BurnTracking), the miners' nonces (Nonces), the  *)
(* conversions of a block (Conversions) and the polling of prices          *)
(* (Polling).                                                              *)
(***************************************************************************)
EXTENDS NonceRanking, Conversions, BurnTracking, Nonces, Polling, CommonLemmas,
        FiniteSetTheorems, SequenceTheorems, TLAPS

(***************************************************************************)
(* Rankings. The remembered worst slot of a list is the worst.             *)
(***************************************************************************)
(* A list of difficulties has a first lowest place.                        *)
LEMMA FirstLowest ==
  ASSUME NEW list \in Seq(Nat), list # <<>>
  PROVE  \E i \in DOMAIN list :
           /\ \A j \in DOMAIN list : list[i] <= list[j]
           /\ \A j \in DOMAIN list : (\A k \in DOMAIN list : list[j] <= list[k]) => i <= j
<1>1. DOMAIN list = 1..Len(list) /\ Len(list) \in Nat /\ 1 \in DOMAIN list
      /\ \A i \in DOMAIN list : list[i] \in Nat /\ i \in Nat
  OBVIOUS
<1> DEFINE V == {list[i] : i \in DOMAIN list}
           L == {i \in DOMAIN list : \A j \in DOMAIN list : list[i] <= list[j]}
<1>2. V \subseteq Nat /\ V # {}
  BY <1>1
<1>3. \E x \in V : \A y \in V : x <= y
  <2> HIDE DEF V
  <2> QED
    BY <1>2, LeastNat
<1>4. L \subseteq Nat /\ L # {}
  BY <1>1, <1>3
<1>5. \E x \in L : \A y \in L : x <= y
  <2> HIDE DEF L
  <2> QED
    BY <1>4, LeastNat
<1> QED
  BY <1>5

(* Taking a free slot keeps the remembered worst right.                    *)
LEMMA TakeSlotKeepsWorst ==
  ASSUME NEW r \in Ranking, NEW d \in Nat, RememberedWorst(r), Len(r.List) < Keep
  PROVE  /\ TakeSlot(r, d) \in Ranking /\ RememberedWorst(TakeSlot(r, d))
         /\ Len(TakeSlot(r, d).List) <= Keep
<1> DEFINE t == TakeSlot(r, d)
           n == Len(r.List)
           worse == r.List = <<>> \/ d < r.WorstDiff
<1>1. r.List \in Seq(Nat) /\ n \in Nat /\ DOMAIN r.List = 1..n /\ r.WorstDiff \in Nat
      /\ r.WorstIndex \in 1..Keep /\ Keep \in Nat
  BY RankingAssumption DEF Ranking
<1>2. t = [List |-> Append(r.List, d), WorstDiff |-> IF worse THEN d ELSE r.WorstDiff,
           WorstIndex |-> IF worse THEN n + 1 ELSE r.WorstIndex]
  BY DEF TakeSlot
<1>3. /\ t.List = Append(r.List, d)
      /\ t.WorstDiff = IF worse THEN d ELSE r.WorstDiff
      /\ t.WorstIndex = IF worse THEN n + 1 ELSE r.WorstIndex
  BY <1>2
<1>4. /\ t.List \in Seq(Nat) /\ Len(t.List) = n + 1 /\ DOMAIN t.List = 1..(n + 1)
      /\ \A i \in 1..n : t.List[i] = r.List[i]
      /\ t.List[n + 1] = d
  BY <1>1, <1>3, AppendProperties
<1>5. t.WorstDiff \in Nat /\ t.WorstIndex \in 1..Keep
  BY <1>1, <1>3
<1>6. t \in Ranking
  BY <1>2, <1>3, <1>4, <1>5 DEF Ranking
<1> HIDE DEF t
<1>7. \A i \in 1..(n + 1) : i \in 1..n \/ i = n + 1
  BY <1>1
<1>8. ASSUME worse PROVE RememberedWorst(t)
  <2>1. t.WorstDiff = d /\ t.WorstIndex = n + 1
    BY <1>3, <1>8
  <2>2. ASSUME NEW i \in 1..n PROVE d <= r.List[i]
    <3>1. r.List # <<>> /\ r.List[i] \in Nat
      BY <1>1
    <3>2. d < r.WorstDiff
      BY <3>1, <1>8
    <3>3. r.WorstDiff <= r.List[i]
      BY <3>1, <1>1 DEF RememberedWorst
    <3> QED
      BY <3>1, <3>2, <3>3, <1>1
  <2>3. \A i \in DOMAIN t.List : t.WorstDiff <= t.List[i]
    BY <2>1, <2>2, <1>4, <1>7
  <2> QED
    BY <2>1, <2>3, <1>1, <1>4 DEF RememberedWorst
<1>9. ASSUME ~worse PROVE RememberedWorst(t)
  <2>1. t.WorstDiff = r.WorstDiff /\ t.WorstIndex = r.WorstIndex /\ r.WorstDiff <= d
        /\ r.List # <<>>
    BY <1>1, <1>3, <1>9
  <2>2. /\ r.WorstIndex \in 1..n /\ r.List[r.WorstIndex] = r.WorstDiff
        /\ \A i \in 1..n : r.WorstDiff <= r.List[i]
    BY <1>1, <2>1 DEF RememberedWorst
  <2>3. \A i \in DOMAIN t.List : t.WorstDiff <= t.List[i]
    BY <2>1, <2>2, <1>4, <1>7
  <2>4. t.WorstIndex \in DOMAIN t.List /\ t.List[t.WorstIndex] = t.WorstDiff
    <3>1. t.List[r.WorstIndex] = r.WorstDiff
      BY <2>2, <1>4, Zenon
    <3>2. r.WorstIndex \in 1..(n + 1)
      BY <2>2, <1>1
    <3> QED
      BY <3>1, <3>2, <2>1, <1>4
  <2> QED
    BY <2>3, <2>4 DEF RememberedWorst
<1>10. Len(t.List) <= Keep
  BY <1>1, <1>4
<1> QED
  BY <1>6, <1>8, <1>9, <1>10 DEF t

(* Replacing the worst slot and searching the list keeps the remembered    *)
(* worst right, ties included.                                             *)
LEMMA ReplaceKeepsWorst ==
  ASSUME NEW r \in Ranking, NEW d \in Nat, RememberedWorst(r), Len(r.List) = Keep
  PROVE  /\ Replace(r, d) \in Ranking /\ RememberedWorst(Replace(r, d))
         /\ Len(Replace(r, d).List) = Keep
<1> DEFINE list == [r.List EXCEPT ![r.WorstIndex] = d]
           IsLowest(i) == \A j \in DOMAIN list : list[i] <= list[j]
           first == CHOOSE i \in DOMAIN list :
                      IsLowest(i) /\ \A j \in DOMAIN list : IsLowest(j) => i <= j
           t == Replace(r, d)
<1>1. r.List \in Seq(Nat) /\ Keep \in Nat \ {0} /\ r.List # <<>> /\ DOMAIN r.List = 1..Keep
      /\ r.WorstIndex \in 1..Keep
  BY RankingAssumption DEF Ranking
<1>2. list \in Seq(Nat) /\ Len(list) = Keep /\ DOMAIN list = 1..Keep /\ list # <<>>
      /\ list[r.WorstIndex] = d
  BY <1>1
<1>3. t = [List |-> list, WorstDiff |-> list[first],
           WorstIndex |-> IF list[first] < d THEN first ELSE r.WorstIndex]
  BY DEF Replace
<1> HIDE DEF list, t
<1>4. first \in DOMAIN list /\ \A j \in DOMAIN list : list[first] <= list[j]
  <2>1. \E i \in DOMAIN list :
           IsLowest(i) /\ \A j \in DOMAIN list : IsLowest(j) => i <= j
    BY <1>2, FirstLowest
  <2> QED
    BY <2>1
<1> HIDE DEF first
<1>5. list[first] \in Nat /\ first \in 1..Keep
  BY <1>2, <1>4
<1>6. /\ t.List = list /\ t.WorstDiff = list[first]
      /\ t.WorstIndex = IF list[first] < d THEN first ELSE r.WorstIndex
  BY <1>3
<1>7. t \in Ranking
  <2>1. (IF list[first] < d THEN first ELSE r.WorstIndex) \in 1..Keep
    BY <1>1, <1>5
  <2> QED
    BY <1>2, <1>3, <1>5, <2>1 DEF Ranking
<1>8. list[t.WorstIndex] = t.WorstDiff
  <2>1. list[first] <= d
    BY <1>1, <1>2, <1>4
  <2> QED
    BY <1>2, <1>5, <1>6, <2>1
<1>9. t.WorstIndex \in DOMAIN t.List
  BY <1>1, <1>2, <1>4, <1>6
<1>10. RememberedWorst(t)
  BY <1>4, <1>6, <1>8, <1>9 DEF RememberedWorst
<1> QED
  BY <1>2, <1>6, <1>7, <1>10 DEF t

(* AddNonce keeps a list well formed and its remembered worst right.       *)
LEMMA AddNonceKeepsWorst ==
  ASSUME NEW r \in Ranking, NEW d \in Nat, RememberedWorst(r), Len(r.List) <= Keep
  PROVE  /\ AddNonce(r, d) \in Ranking /\ RememberedWorst(AddNonce(r, d))
         /\ Len(AddNonce(r, d).List) <= Keep
<1>1. Len(r.List) \in Nat /\ Keep \in Nat
  BY RankingAssumption DEF Ranking
<1>2. CASE Len(r.List) < Keep
  BY <1>2, TakeSlotKeepsWorst DEF AddNonce
<1>3. CASE Len(r.List) = Keep
  <2>1. /\ Replace(r, d) \in Ranking /\ RememberedWorst(Replace(r, d))
        /\ Len(Replace(r, d).List) = Keep
    BY <1>3, ReplaceKeepsWorst
  <2>2. AddNonce(r, d) = IF d < r.WorstDiff THEN r ELSE Replace(r, d)
    BY <1>1, <1>3 DEF AddNonce
  <2>3. CASE d < r.WorstDiff
    BY <2>2, <2>3
  <2>4. CASE ~(d < r.WorstDiff)
    BY <2>1, <2>2, <2>4, <1>1
  <2> QED
    BY <2>3, <2>4
<1> QED
  BY <1>1, <1>2, <1>3

(* While nonces can be added every list is typed, bounded by its slots,    *)
(* and remembers its worst. The bound is needed: AddNonce trusts that a    *)
(* list without room is full.                                              *)
RankingInv ==
  ~written => /\ ranking \in [Miners -> Ranking]
              /\ \A m \in Miners : /\ RememberedWorst(ranking[m])
                                   /\ Len(ranking[m].List) <= Keep

(* It holds at first.                                                      *)
LEMMA RankingStart == Init => RankingInv
<1> SUFFICES ASSUME Init PROVE RankingInv
  OBVIOUS
<1>1. NewNonceRanking \in Ranking /\ NewNonceRanking.List = <<>>
  BY RankingAssumption DEF NewNonceRanking, Ranking
<1>2. RememberedWorst(NewNonceRanking) /\ Len(NewNonceRanking.List) <= Keep
  BY <1>1, RankingAssumption DEF RememberedWorst
<1> QED
  BY <1>1, <1>2 DEF Init, RankingInv

(* Every step keeps it.                                                    *)
LEMMA RankingStep == RankingInv /\ [Next]_vars => RankingInv'
<1> SUFFICES ASSUME RankingInv, [Next]_vars PROVE RankingInv'
  OBVIOUS
<1>1. CASE Write
  BY <1>1 DEF Write, RankingInv
<1>2. ASSUME NEW m \in Miners, NEW d \in Difficulties, Mine(m, d) PROVE RankingInv'
  <2>1. d \in Nat /\ ~written /\ ranking' = [ranking EXCEPT ![m] = AddNonce(@, d)]
    BY <1>2, RankingAssumption DEF Mine
  <2>2. ranking \in [Miners -> Ranking]
        /\ \A k \in Miners : RememberedWorst(ranking[k]) /\ Len(ranking[k].List) <= Keep
    BY <2>1 DEF RankingInv
  <2>3. PICK r \in Ranking : r = ranking[m]
    BY <2>2
  <2>4. PICK t : t = AddNonce(r, d)
    OBVIOUS
  <2>5. t \in Ranking /\ RememberedWorst(t) /\ Len(t.List) <= Keep
    BY <2>1, <2>2, <2>3, <2>4, AddNonceKeepsWorst
  <2>6. ranking' = [ranking EXCEPT ![m] = t]
    BY <2>1, <2>3, <2>4
  <2>7. ranking' \in [Miners -> Ranking]
    BY <2>2, <2>5, <2>6
  <2>8. ASSUME NEW k \in Miners
        PROVE  RememberedWorst(ranking'[k]) /\ Len(ranking'[k].List) <= Keep
    <3>1. CASE k = m
      BY <3>1, <2>2, <2>5, <2>6
    <3>2. CASE k # m
      <4>1. ranking'[k] = ranking[k]
        BY <3>2, <2>2, <2>6
      <4> QED
        BY <4>1, <2>2
    <3> QED
      BY <3>1, <3>2
  <2> QED
    BY <2>7, <2>8 DEF RankingInv, RememberedWorst
<1>3. CASE UNCHANGED vars
  BY <1>3 DEF vars, RankingInv, RememberedWorst
<1> QED
  BY <1>1, <1>2, <1>3 DEF Next

(* The cheap lookup of AddNonce is right: the remembered worst is the      *)
(* worst of every list, for every size and after any additions.            *)
THEOREM WorstRemembered == Spec => []WorstIsWorst
<1>1. Init => RankingInv
  BY RankingStart
<1>2. RankingInv /\ [Next]_vars => RankingInv'
  BY RankingStep
<1>3. RankingInv => WorstIsWorst
  BY DEF RankingInv, WorstIsWorst
<1> QED
  BY <1>1, <1>2, <1>3, PTL DEF Spec

-----------------------------------------------------------------------------
(***************************************************************************)
(* Burns. A call works on the block after the last one credited, its       *)
(* deltas are the burns of the transactions it has read, and the newest    *)
(* block the node told it of is beyond its reach.                          *)
(***************************************************************************)
BurnsOf(h, a) == [i \in DOMAIN Chain[h] |-> IF Chain[h][i].from = a THEN BurnOf(Chain[h][i]) ELSE 0]

(* The burns of the first n transactions of a block.                       *)
ReadSoFar(h, n, a) == Sum([i \in 1..n |-> BurnsOf(h, a)[i]])

BurnTypeOK ==
  /\ height \in Nat /\ FctDbht \in Nat /\ updates \in Nat
  /\ pfct \in [Burners -> Int]
  /\ update \in [running : BOOLEAN, dbht : Nat, i : Nat, tx : Nat, deltas : [Burners -> Int]]

UpdateInv ==
  update.running =>
    /\ FctDbht >= StartBlock /\ update.i = FctDbht + 1 /\ update.dbht <= height
    /\ update.i \in DOMAIN Chain =>
         /\ update.tx <= Len(Chain[update.i])
         /\ \A a \in Burners : update.deltas[a] = ReadSoFar(update.i, update.tx, a)

BurnInv ==
  /\ BurnTypeOK
  /\ height = StartBlock \/ height <= Len(Chain)
  /\ height >= StartBlock /\ (FctDbht = 0 \/ FctDbht >= StartBlock)
  /\ UpdateInv
  /\ BurnsCreditedOnce

(* The chain is a sequence of blocks, which are sequences of transactions; *)
(* a burn is a number.                                                     *)
LEMMA ChainOfBlocks ==
  /\ StartBlock \in Nat \ {0} /\ Len(Chain) \in Nat /\ DOMAIN Chain = 1..Len(Chain)
  /\ \A h \in DOMAIN Chain : /\ Len(Chain[h]) \in Nat /\ DOMAIN Chain[h] = 1..Len(Chain[h])
                             /\ \A i \in DOMAIN Chain[h] : Chain[h][i].from \in Burners
  /\ \A h \in DOMAIN Chain : \A a \in Burners : BurnsOf(h, a) \in [DOMAIN Chain[h] -> Int]
<1>1. StartBlock \in Nat \ {0} /\ Chain \in Seq(Seq(Transaction)) /\ Network \in {"Main", "Test"}
  BY BurnAssumption
<1>2. Len(Chain) \in Nat /\ DOMAIN Chain = 1..Len(Chain)
  BY <1>1, LenProperties
<1>3. ASSUME NEW h \in DOMAIN Chain
      PROVE  /\ Chain[h] \in Seq(Transaction)
             /\ Len(Chain[h]) \in Nat /\ DOMAIN Chain[h] = 1..Len(Chain[h])
  BY <1>1, <1>2, LenProperties
<1>4. ASSUME NEW h \in DOMAIN Chain, NEW i \in DOMAIN Chain[h]
      PROVE  Chain[h][i].from \in Burners /\ BurnOf(Chain[h][i]) \in Int
  <2>1. Chain[h][i] \in Transaction
    BY <1>3
  <2>2. Chain[h][i].from \in Burners /\ Chain[h][i].amount \in Nat
    BY <2>1 DEF Transaction
  <2>3. Chain[h][i].amount * 1000 \in Nat
    BY <2>2
  <2> QED
    BY <2>2, <2>3 DEF BurnOf
<1>5. \A h \in DOMAIN Chain : \A a \in Burners : BurnsOf(h, a) \in [DOMAIN Chain[h] -> Int]
  BY <1>4 DEF BurnsOf
<1> QED
  BY <1>1, <1>2, <1>3, <1>4, <1>5

(* Nothing of a block has been read at first, one transaction more adds    *)
(* its burn, and all of them are what is burnt in the block.               *)
LEMMA ReadSoFarGrows ==
  ASSUME NEW h \in DOMAIN Chain, NEW a \in Burners
  PROVE  /\ ReadSoFar(h, 0, a) = 0
         /\ \A n \in 0..(Len(Chain[h]) - 1) :
              ReadSoFar(h, n + 1, a) = ReadSoFar(h, n, a) + BurnsOf(h, a)[n + 1]
         /\ ReadSoFar(h, Len(Chain[h]), a) = BurntIn(h, a)
         /\ BurntIn(h, a) \in Int
<1> DEFINE b == BurnsOf(h, a)
           first(n) == [i \in 1..n |-> b[i]]
<1>1. Len(Chain[h]) \in Nat /\ b \in [1..Len(Chain[h]) -> Int]
  BY ChainOfBlocks
<1>2. BurntIn(h, a) = Sum(b) /\ \A n : ReadSoFar(h, n, a) = Sum(first(n))
  BY DEF BurntIn, BurnsOf, ReadSoFar
<1> HIDE DEF b
<1>3. \A n \in 0..Len(Chain[h]) : first(n) \in [1..n -> Int]
  BY <1>1
<1>4. \A n \in Nat : IsFiniteSet(1..n)
  BY FS_Interval
<1>5. ReadSoFar(h, 0, a) = 0
  <2>1. first(0) \in [1..0 -> Int] /\ IsFiniteSet(1..0) /\ 1..0 = {}
    BY <1>1, <1>3, <1>4
  <2> HIDE DEF first
  <2> QED
    BY <2>1, <1>2, SumType
<1>6. ASSUME NEW n \in 0..(Len(Chain[h]) - 1)
      PROVE  ReadSoFar(h, n + 1, a) = ReadSoFar(h, n, a) + b[n + 1]
  <2> DEFINE D == 1..n
             E == 1..(n + 1)
             x == n + 1
             f == first(n + 1)
             d == first(n)
  <2>1. E = D \cup {x} /\ x \notin D /\ n \in Nat /\ IsFiniteSet(D)
    BY <1>1, <1>4
  <2>2. f \in [E -> Int] /\ d \in [D -> Int]
    BY <2>1, <1>1
  <2>3. (\A y \in D : d[y] = f[y]) /\ f[x] = b[n + 1]
    BY <2>1
  <2>4. Sum(f) = Sum(d) + f[x]
    <3> HIDE DEF D, E, x, f, d
    <3>1. OneMore(d, f, x)
      BY <2>1, <2>2, <2>3 DEF OneMore
    <3> QED
      BY <3>1, SumWith
  <2> QED
    BY <2>3, <2>4, <1>2
<1>7. first(Len(Chain[h])) = b
  BY <1>1
<1>8. BurntIn(h, a) \in Int
  <2>1. IsFiniteSet(1..Len(Chain[h]))
    BY <1>1, <1>4
  <2> QED
    BY <2>1, <1>1, <1>2, SumType
<1> QED
  BY <1>2, <1>5, <1>6, <1>7, <1>8 DEF b

(* What has been burnt up to a height.                                     *)
BurntUpTo(d, a) == Sum([h \in (StartBlock + 1)..d |-> BurntIn(h, a)])

LEMMA BurntGrows ==
  ASSUME NEW a \in Burners
  PROVE  /\ \A d \in 0..StartBlock : BurntUpTo(d, a) = 0
         /\ \A d \in Nat : StartBlock <= d /\ d + 1 <= Len(Chain) =>
              BurntUpTo(d + 1, a) = BurntUpTo(d, a) + BurntIn(d + 1, a)
<1> DEFINE f(d) == [h \in (StartBlock + 1)..d |-> BurntIn(h, a)]
<1>1. /\ StartBlock \in Nat \ {0} /\ Len(Chain) \in Nat
      /\ \A h \in 1..Len(Chain) : BurntIn(h, a) \in Int
  BY ChainOfBlocks, ReadSoFarGrows
<1>2. ASSUME NEW d \in 0..StartBlock PROVE Sum(f(d)) = 0
  <2>1. (StartBlock + 1)..d = {} /\ IsFiniteSet({})
    BY <1>1, FS_EmptySet
  <2>2. f(d) \in [(StartBlock + 1)..d -> Int]
    BY <2>1
  <2> HIDE DEF f
  <2> QED
    BY <2>1, <2>2, SumType
<1>3. ASSUME NEW d \in Nat, StartBlock <= d, d + 1 <= Len(Chain)
      PROVE  Sum(f(d + 1)) = Sum(f(d)) + BurntIn(d + 1, a)
  <2> DEFINE D == (StartBlock + 1)..d
             E == (StartBlock + 1)..(d + 1)
             x == d + 1
             new == f(d + 1)
             old == f(d)
  <2>1. /\ E = D \cup {x} /\ x \notin D
        /\ D \subseteq 1..Len(Chain) /\ x \in 1..Len(Chain)
    <3>1. E = D \cup {x} /\ x \notin D
      BY <1>1, <1>3
    <3>2. D \subseteq 1..Len(Chain)
      BY <1>1, <1>3
    <3>3. x \in 1..Len(Chain)
      BY <1>1, <1>3
    <3> QED
      BY <3>1, <3>2, <3>3
  <2>2. IsFiniteSet(D)
    BY <1>1, FS_Interval
  <2>3. new \in [E -> Int] /\ old \in [D -> Int]
    BY <2>1, <1>1
  <2>4. (\A h \in D : old[h] = new[h]) /\ new[x] = BurntIn(d + 1, a)
    BY <2>1
  <2>5. Sum(new) = Sum(old) + new[x]
    <3> HIDE DEF D, E, x, new, old
    <3>1. OneMore(old, new, x)
      BY <2>1, <2>2, <2>3, <2>4 DEF OneMore
    <3> QED
      BY <3>1, SumWith
  <2> QED
    BY <2>4, <2>5
<1> QED
  BY <1>2, <1>3 DEF BurntUpTo

(* A call that is not running.                                             *)
LEMMA IdleIs ==
  /\ Idle \in [running : BOOLEAN, dbht : Nat, i : Nat, tx : Nat, deltas : [Burners -> Int]]
  /\ ~Idle.running /\ Idle.tx = 0 /\ \A a \in Burners : Idle.deltas[a] = 0
BY DEF Idle

(* The balances restated.                                                  *)
LEMMA CreditedIs ==
  BurnsCreditedOnce <=> /\ \A a \in Burners : pfct[a] = BurntUpTo(FctDbht, a)
                        /\ FctDbht > StartBlock => FctDbht < height
BY DEF BurnsCreditedOnce, BurntUpTo

LEMMA CreditedIsPrimed ==
  BurnsCreditedOnce' <=> /\ \A a \in Burners : pfct'[a] = BurntUpTo(FctDbht', a)
                         /\ FctDbht' > StartBlock => FctDbht' < height'
BY DEF BurnsCreditedOnce, BurntUpTo

(* Nothing is credited at the beginning.                                   *)
LEMMA InitBurnInv == InitBurns => BurnInv
<1> SUFFICES ASSUME InitBurns PROVE BurnInv
  OBVIOUS
<1>1. StartBlock \in Nat \ {0}
  BY ChainOfBlocks
<1>2. BurnTypeOK
  BY <1>1, IdleIs DEF InitBurns, BurnTypeOK
<1>3. UpdateInv
  BY IdleIs DEF InitBurns, UpdateInv
<1>4. BurnsCreditedOnce
  <2>1. 0 \in 0..StartBlock
    BY <1>1
  <2>2. \A a \in Burners : pfct[a] = BurntUpTo(0, a)
    BY <2>1, BurntGrows DEF InitBurns
  <2> QED
    BY <2>2, <1>1, CreditedIs DEF InitBurns
<1> QED
  BY <1>1, <1>2, <1>3, <1>4 DEF BurnInv, InitBurns

(* A call starts after the block credited last.                            *)
LEMMA UpdateBurnsInv == BurnInv /\ UpdateBurns => BurnInv'
<1> SUFFICES ASSUME BurnInv, UpdateBurns PROVE BurnInv'
  OBVIOUS
<1>1. /\ StartBlock \in Nat \ {0} /\ BurnTypeOK /\ BurnsCreditedOnce
      /\ (FctDbht = 0 \/ FctDbht >= StartBlock) /\ height >= StartBlock
      /\ (height = StartBlock \/ height <= Len(Chain))
  BY ChainOfBlocks DEF BurnInv
<1>2. /\ height \in Nat /\ FctDbht \in Nat /\ updates \in Nat /\ pfct \in [Burners -> Int]
  BY <1>1 DEF BurnTypeOK
<1>3. /\ updates' = updates + 1 /\ UNCHANGED <<height, pfct>>
      /\ FctDbht' = IF FctDbht = 0 THEN StartBlock ELSE FctDbht
      /\ \/ update' = [running |-> TRUE, dbht |-> height, i |-> FctDbht' + 1, tx |-> 0,
                       deltas |-> [a \in Burners |-> 0]]
         \/ update' = Idle
  BY DEF UpdateBurns, Idle, FirstBlock
<1>4. FctDbht' \in Nat /\ FctDbht' >= StartBlock
  BY <1>1, <1>2, <1>3
<1>5. BurnTypeOK'
  <2>1. CASE update' = Idle
    BY <2>1, <1>2, <1>3, <1>4, IdleIs DEF BurnTypeOK
  <2>2. CASE update' = [running |-> TRUE, dbht |-> height, i |-> FctDbht' + 1, tx |-> 0,
                        deltas |-> [a \in Burners |-> 0]]
    BY <2>2, <1>2, <1>3, <1>4 DEF BurnTypeOK
  <2> QED
    BY <2>1, <2>2, <1>3
<1>6. UpdateInv'
  <2>1. CASE update' = Idle
    BY <2>1, IdleIs DEF UpdateInv
  <2>2. CASE update' = [running |-> TRUE, dbht |-> height, i |-> FctDbht' + 1, tx |-> 0,
                        deltas |-> [a \in Burners |-> 0]]
    <3>1. /\ update'.i = FctDbht' + 1 /\ update'.dbht = height /\ update'.tx = 0
          /\ \A a \in Burners : update'.deltas[a] = 0
      BY <2>2
    <3>2. update'.i \in DOMAIN Chain =>
            /\ update'.tx <= Len(Chain[update'.i])
            /\ \A a \in Burners : update'.deltas[a] = ReadSoFar(update'.i, update'.tx, a)
      BY <3>1, ChainOfBlocks, ReadSoFarGrows
    <3> QED
      BY <3>1, <3>2, <1>2, <1>3, <1>4 DEF UpdateInv
  <2> QED
    BY <2>1, <2>2, <1>3
<1>7. BurnsCreditedOnce'
  <2>1. \A a \in Burners : pfct[a] = BurntUpTo(FctDbht', a)
    <3>1. CASE FctDbht = 0
      <4>1. 0 \in 0..StartBlock /\ StartBlock \in 0..StartBlock /\ FctDbht' = StartBlock
        BY <3>1, <1>1, <1>3
      <4> QED
        BY <4>1, <3>1, <1>1, CreditedIs, BurntGrows
    <3>2. CASE FctDbht # 0
      BY <3>2, <1>1, <1>3, CreditedIs
    <3> QED
      BY <3>1, <3>2
  <2>2. FctDbht' > StartBlock => FctDbht' < height'
    BY <1>1, <1>2, <1>3, CreditedIs
  <2> QED
    BY <2>1, <2>2, <1>3, CreditedIsPrimed
<1> QED
  BY <1>1, <1>3, <1>4, <1>5, <1>6, <1>7 DEF BurnInv

(* A call in the loop works on a block of the chain.                       *)
LEMMA LoopBlock ==
  ASSUME BurnInv, InLoop
  PROVE  /\ update.i \in DOMAIN Chain /\ update.i = FctDbht + 1 /\ FctDbht >= StartBlock
         /\ update.i < height /\ update.i <= Len(Chain) /\ update.i \in Nat
<1>1. /\ StartBlock \in Nat \ {0} /\ Len(Chain) \in Nat /\ DOMAIN Chain = 1..Len(Chain)
  BY ChainOfBlocks
<1>2. /\ height \in Nat /\ FctDbht \in Nat /\ update.dbht \in Nat /\ update.i \in Nat
  BY DEF BurnInv, BurnTypeOK
<1>3. /\ update.running /\ update.i < update.dbht
      /\ FctDbht >= StartBlock /\ update.i = FctDbht + 1 /\ update.dbht <= height
  BY DEF InLoop, BurnInv, UpdateInv
<1>4. height = StartBlock \/ height <= Len(Chain)
  BY DEF BurnInv
<1> QED
  BY <1>1, <1>2, <1>3, <1>4

(* One more transaction is read.                                           *)
LEMMA ReadTransactionInv == BurnInv /\ ReadTransaction => BurnInv'
<1> SUFFICES ASSUME BurnInv, ReadTransaction PROVE BurnInv'
  OBVIOUS
<1> DEFINE h == update.i
           n == update.tx
           tx == Chain[h][n + 1]
<1>1. /\ h \in DOMAIN Chain /\ h = FctDbht + 1 /\ FctDbht >= StartBlock
      /\ update.running /\ n < Len(Chain[h])
      /\ update' = [update EXCEPT !.tx = @ + 1, !.deltas[tx.from] = @ + BurnOf(tx)]
      /\ UNCHANGED <<height, FctDbht, pfct, updates>>
  BY LoopBlock DEF ReadTransaction, InLoop
<1>2. /\ update \in [running : BOOLEAN, dbht : Nat, i : Nat, tx : Nat, deltas : [Burners -> Int]]
      /\ height \in Nat /\ FctDbht \in Nat /\ updates \in Nat /\ pfct \in [Burners -> Int]
  BY DEF BurnInv, BurnTypeOK
<1>3. /\ update.dbht <= height
      /\ \A a \in Burners : update.deltas[a] = ReadSoFar(h, n, a)
  BY <1>1 DEF BurnInv, UpdateInv
<1>4. /\ n \in Nat /\ Len(Chain[h]) \in Nat /\ n + 1 \in DOMAIN Chain[h]
      /\ n \in 0..(Len(Chain[h]) - 1) /\ n + 1 <= Len(Chain[h])
  BY <1>1, <1>2, ChainOfBlocks
<1>5. /\ tx.from \in Burners /\ (\A a \in Burners : BurnsOf(h, a)[n + 1] \in Int)
      /\ \A a \in Burners : BurnsOf(h, a)[n + 1] = IF tx.from = a THEN BurnOf(tx) ELSE 0
  <2>1. tx.from \in Burners
    BY <1>1, <1>4, ChainOfBlocks
  <2>2. \A a \in Burners : BurnsOf(h, a)[n + 1] \in Int
    BY <1>1, <1>4, ChainOfBlocks
  <2>3. \A a \in Burners : BurnsOf(h, a)[n + 1] = IF tx.from = a THEN BurnOf(tx) ELSE 0
    BY <1>4 DEF BurnsOf
  <2> QED
    BY <2>1, <2>2, <2>3
<1> HIDE DEF h, n, tx
<1>6. BurnOf(tx) \in Int
  BY <1>5
<1>7. /\ update'.running = update.running /\ update'.dbht = update.dbht /\ update'.i = update.i
      /\ update'.tx = update.tx + 1
      /\ update' \in [running : BOOLEAN, dbht : Nat, i : Nat, tx : Nat, deltas : [Burners -> Int]]
      /\ \A a \in Burners :
           update'.deltas[a] = IF tx.from = a THEN update.deltas[a] + BurnOf(tx) ELSE update.deltas[a]
  <2> DEFINE new == [update.deltas EXCEPT ![tx.from] = update.deltas[tx.from] + BurnOf(tx)]
  <2>1. update' = [running |-> update.running, dbht |-> update.dbht, i |-> update.i,
                   tx |-> update.tx + 1, deltas |-> new]
    BY <1>1, <1>2
  <2>2. /\ new \in [Burners -> Int]
        /\ \A a \in Burners :
             new[a] = IF tx.from = a THEN update.deltas[a] + BurnOf(tx) ELSE update.deltas[a]
    BY <1>2, <1>5, <1>6
  <2>3. /\ update.running \in BOOLEAN /\ update.dbht \in Nat /\ update.i \in Nat
        /\ update.tx + 1 \in Nat
    BY <1>2
  <2> HIDE DEF new
  <2> QED
    BY <2>1, <2>2, <2>3
<1>8. \A a \in Burners : update'.deltas[a] = ReadSoFar(h, n + 1, a)
  <2> SUFFICES ASSUME NEW a \in Burners PROVE update'.deltas[a] = ReadSoFar(h, n + 1, a)
    OBVIOUS
  <2>1. ReadSoFar(h, n + 1, a) = ReadSoFar(h, n, a) + BurnsOf(h, a)[n + 1]
    BY <1>1, <1>4, ReadSoFarGrows
  <2>2. update.deltas[a] = ReadSoFar(h, n, a) /\ update.deltas[a] \in Int
    BY <1>2, <1>3
  <2>3. BurnsOf(h, a)[n + 1] = IF tx.from = a THEN BurnOf(tx) ELSE 0
    BY <1>5
  <2> QED
    BY <2>1, <2>2, <2>3, <1>7
<1>9. BurnTypeOK'
  BY <1>1, <1>2, <1>7 DEF BurnTypeOK
<1>10. UpdateInv'
  BY <1>1, <1>3, <1>4, <1>7, <1>8 DEF UpdateInv, h, n
<1>11. BurnsCreditedOnce'
  BY <1>1, CreditedIs, CreditedIsPrimed DEF BurnInv
<1> QED
  BY <1>1, <1>9, <1>10, <1>11 DEF BurnInv

(* A block read to its end is credited.                                    *)
LEMMA CreditBlockInv == BurnInv /\ CreditBlock => BurnInv'
<1> SUFFICES ASSUME BurnInv, CreditBlock PROVE BurnInv'
  OBVIOUS
<1> DEFINE h == update.i
<1>1. /\ h \in DOMAIN Chain /\ h = FctDbht + 1 /\ FctDbht >= StartBlock /\ h < height
      /\ h <= Len(Chain) /\ h \in Nat
      /\ update.running /\ update.tx = Len(Chain[h])
      /\ pfct' = [a \in Burners |-> pfct[a] + update.deltas[a]] /\ FctDbht' = h
      /\ update' = [update EXCEPT !.i = @ + 1, !.tx = 0, !.deltas = Idle.deltas]
      /\ UNCHANGED <<height, updates>>
  BY LoopBlock DEF CreditBlock, InLoop
<1>2. /\ update \in [running : BOOLEAN, dbht : Nat, i : Nat, tx : Nat, deltas : [Burners -> Int]]
      /\ height \in Nat /\ FctDbht \in Nat /\ updates \in Nat /\ pfct \in [Burners -> Int]
      /\ StartBlock \in Nat
  BY BurnAssumption DEF BurnInv, BurnTypeOK
<1>3. /\ update.dbht <= height
      /\ \A a \in Burners : update.deltas[a] = BurntIn(h, a)
  BY <1>1, ReadSoFarGrows DEF BurnInv, UpdateInv
<1>4. /\ update' = [running |-> TRUE, dbht |-> update.dbht, i |-> h + 1, tx |-> 0,
                    deltas |-> [a \in Burners |-> 0]]
  BY <1>1, <1>2 DEF Idle
<1>5. /\ update'.running /\ update'.dbht = update.dbht /\ update'.i = h + 1 /\ update'.tx = 0
      /\ \A a \in Burners : update'.deltas[a] = 0
  BY <1>4
<1> HIDE DEF h
<1>6. BurnTypeOK'
  <2>1. pfct' \in [Burners -> Int]
    BY <1>1, <1>2
  <2>2. update.dbht \in Nat /\ h + 1 \in Nat
    BY <1>1, <1>2
  <2>3. update' \in [running : BOOLEAN, dbht : Nat, i : Nat, tx : Nat, deltas : [Burners -> Int]]
    BY <2>2, <1>4
  <2> QED
    BY <2>1, <2>3, <1>1, <1>2 DEF BurnTypeOK
<1>7. UpdateInv'
  <2>1. update'.i \in DOMAIN Chain =>
          /\ update'.tx <= Len(Chain[update'.i])
          /\ \A a \in Burners : update'.deltas[a] = ReadSoFar(update'.i, update'.tx, a)
    BY <1>5, ChainOfBlocks, ReadSoFarGrows
  <2>2. FctDbht' >= StartBlock /\ update'.i = FctDbht' + 1 /\ update'.dbht <= height'
    BY <1>1, <1>2, <1>3, <1>5
  <2> QED
    BY <2>1, <2>2 DEF UpdateInv
<1>8. BurnsCreditedOnce'
  <2>1. ASSUME NEW a \in Burners PROVE pfct'[a] = BurntUpTo(FctDbht', a)
    <3>1. BurntUpTo(h, a) = BurntUpTo(FctDbht, a) + BurntIn(h, a)
      BY <1>1, <1>2, BurntGrows
    <3>2. pfct[a] = BurntUpTo(FctDbht, a)
      BY CreditedIs DEF BurnInv
    <3>3. pfct'[a] = pfct[a] + update.deltas[a]
      BY <1>1
    <3> QED
      BY <3>1, <3>2, <3>3, <1>1, <1>3
  <2> QED
    BY <2>1, <1>1, CreditedIsPrimed
<1> QED
  BY <1>1, <1>2, <1>6, <1>7, <1>8 DEF BurnInv

(* The other steps end the call, forget everything or extend the chain.    *)
LEMMA OtherBurnsInv ==
  BurnInv /\ (ReadFails \/ UpdateEnds \/ NewFactoidBlock \/ Restart \/ UNCHANGED burnVars) => BurnInv'
<1> SUFFICES ASSUME BurnInv,
                    ReadFails \/ UpdateEnds \/ NewFactoidBlock \/ Restart \/ UNCHANGED burnVars
             PROVE  BurnInv'
  OBVIOUS
<1>1. /\ StartBlock \in Nat \ {0} /\ Len(Chain) \in Nat
      /\ height \in Nat /\ FctDbht \in Nat /\ updates \in Nat /\ pfct \in [Burners -> Int]
  BY ChainOfBlocks DEF BurnInv, BurnTypeOK
<1>2. CASE ReadFails \/ UpdateEnds
  <2>1. update' = Idle /\ UNCHANGED <<height, FctDbht, pfct, updates>>
    BY <1>2 DEF ReadFails, UpdateEnds
  <2>2. BurnTypeOK' /\ UpdateInv'
    BY <2>1, <1>1, IdleIs DEF BurnTypeOK, UpdateInv
  <2>3. BurnsCreditedOnce'
    BY <2>1, CreditedIs, CreditedIsPrimed DEF BurnInv
  <2> QED
    BY <2>1, <2>2, <2>3 DEF BurnInv
<1>3. CASE NewFactoidBlock
  <2>1. /\ height < Len(Chain) /\ height' = height + 1
        /\ UNCHANGED <<FctDbht, pfct, update, updates>>
    BY <1>3 DEF NewFactoidBlock
  <2>2. BurnTypeOK'
    BY <2>1, <1>1 DEF BurnInv, BurnTypeOK
  <2>3. UpdateInv'
    <3>1. update.running => update.dbht <= height + 1
      BY <1>1 DEF BurnInv, BurnTypeOK, UpdateInv
    <3> QED
      BY <2>1, <3>1 DEF BurnInv, UpdateInv
  <2>4. BurnsCreditedOnce'
    <3>1. FctDbht > StartBlock => FctDbht < height + 1
      BY <1>1, CreditedIs DEF BurnInv
    <3> QED
      BY <3>1, <2>1, CreditedIs, CreditedIsPrimed DEF BurnInv
  <2>5. height' >= StartBlock /\ height' <= Len(Chain)
    BY <2>1, <1>1 DEF BurnInv
  <2> QED
    BY <2>1, <2>2, <2>3, <2>4, <2>5 DEF BurnInv
<1>4. CASE Restart
  <2>1. /\ FctDbht' = 0 /\ pfct' = [a \in Burners |-> 0] /\ update' = Idle
        /\ UNCHANGED <<height, updates>>
    BY <1>4 DEF Restart
  <2>2. BurnTypeOK' /\ UpdateInv'
    BY <2>1, <1>1, IdleIs DEF BurnTypeOK, UpdateInv
  <2>3. BurnsCreditedOnce'
    <3>1. 0 \in 0..StartBlock /\ ~(0 > StartBlock)
      BY <1>1
    <3>2. \A a \in Burners : pfct'[a] = BurntUpTo(0, a)
      BY <3>1, <2>1, BurntGrows
    <3> QED
      BY <3>1, <3>2, <2>1, CreditedIsPrimed
  <2> QED
    BY <2>1, <2>2, <2>3 DEF BurnInv
<1>5. CASE UNCHANGED burnVars
  <2>1. UNCHANGED <<height, FctDbht, pfct, update, updates>>
    BY <1>5 DEF burnVars
  <2>2. BurnsCreditedOnce'
    BY <2>1, CreditedIs, CreditedIsPrimed DEF BurnInv
  <2> QED
    BY <2>1, <2>2 DEF BurnInv, BurnTypeOK, UpdateInv
<1> QED
  BY <1>2, <1>3, <1>4, <1>5

(* Every burn up to the last block credited is credited exactly once,      *)
(* whatever calls failed half way and however often the daemon restarted.  *)
THEOREM BurnsCorrect == BurnsSpec => []BurnsCreditedOnce
<1>1. InitBurns => BurnInv
  BY InitBurnInv
<1>2. BurnInv /\ [NextBurns]_burnVars => BurnInv'
  BY UpdateBurnsInv, ReadTransactionInv, CreditBlockInv, OtherBurnsInv DEF NextBurns
<1>3. BurnInv => BurnsCreditedOnce
  BY DEF BurnInv
<1> QED
  BY <1>1, <1>2, <1>3, PTL DEF BurnsSpec

-----------------------------------------------------------------------------
(***************************************************************************)
(* Nonces. A miner counts upwards: every nonce it tries is longer than all *)
(* it tried before for the block, or as long and greater in the first byte *)
(* where the two differ. So it comes back to none, and the first byte,     *)
(* which never changes, keeps it apart from the others.                    *)
(***************************************************************************)
Bytes == 0..(Base - 1)
NonceBytes == {n \in Seq(Bytes) : Len(n) >= 2}

Later(n, o) ==
  \/ Len(n) < Len(o)
  \/ /\ Len(n) = Len(o)
     /\ \E k \in 1..Len(n) : n[k] < o[k] /\ \A j \in 1..(k - 1) : n[j] = o[j]

(* What is known of a nonce.                                               *)
LEMMA NonceType ==
  ASSUME NEW n \in NonceBytes
  PROVE  /\ Len(n) \in Nat /\ Len(n) >= 2 /\ DOMAIN n = 1..Len(n)
         /\ \A k \in 1..Len(n) : n[k] \in Int /\ 0 <= n[k] /\ n[k] <= Base - 1
         /\ Base \in Nat /\ Base > 1
<1>1. n \in Seq(Bytes) /\ Len(n) >= 2
  BY DEF NonceBytes
<1>2. Base \in Nat /\ Base > 1
  BY NoncesAssumption
<1>3. Len(n) \in Nat /\ DOMAIN n = 1..Len(n)
  BY <1>1, LenProperties
<1>4. \A k \in 1..Len(n) : n[k] \in Bytes
  BY <1>1, ElementOfSeq
<1> QED
  BY <1>1, <1>2, <1>3, <1>4 DEF Bytes

(* No nonce is later than itself.                                          *)
LEMMA LaterIrreflexive ==
  ASSUME NEW n \in NonceBytes
  PROVE  ~Later(n, n)
BY NonceType DEF Later

(* Later is transitive.                                                    *)
LEMMA LaterTransitive ==
  ASSUME NEW n \in NonceBytes, NEW o \in NonceBytes, NEW p \in NonceBytes,
         Later(n, o), Later(o, p)
  PROVE  Later(n, p)
<1>1. Len(n) \in Nat /\ Len(o) \in Nat /\ Len(p) \in Nat
  BY NonceType
<1>2. CASE Len(n) < Len(o) \/ Len(o) < Len(p)
  <2>1. Len(n) <= Len(o) /\ Len(o) <= Len(p)
    BY <1>1 DEF Later
  <2>2. Len(n) < Len(p)
    BY <1>1, <1>2, <2>1
  <2> QED
    BY <2>2 DEF Later
<1>3. CASE ~(Len(n) < Len(o) \/ Len(o) < Len(p))
  <2>1. Len(n) = Len(o) /\ Len(o) = Len(p)
    BY <1>3 DEF Later
  <2>2. PICK a \in 1..Len(n) : n[a] < o[a] /\ \A j \in 1..(a - 1) : n[j] = o[j]
    BY <1>3 DEF Later
  <2>3. PICK b \in 1..Len(n) : o[b] < p[b] /\ \A j \in 1..(b - 1) : o[j] = p[j]
    BY <1>3, <2>1 DEF Later
  <2>4. \A k \in 1..Len(n) : n[k] \in Int /\ o[k] \in Int /\ p[k] \in Int
    BY <2>1, NonceType
  <2> DEFINE k == IF a < b THEN a ELSE b
  <2>5. /\ k \in 1..Len(n) /\ k <= a /\ k <= b
        /\ 1..(k - 1) \subseteq 1..(a - 1) /\ 1..(k - 1) \subseteq 1..(b - 1)
        /\ (k = a /\ k < b) \/ (k = b /\ k < a) \/ (k = a /\ k = b)
    BY <1>1
  <2> HIDE DEF k
  <2>6. n[k] < p[k]
    <3>1. CASE k = a /\ k < b
      <4>1. k \in 1..(b - 1)
        BY <3>1, <2>5, <1>1
      <4> QED
        BY <4>1, <3>1, <2>2, <2>3
    <3>2. CASE k = b /\ k < a
      <4>1. k \in 1..(a - 1)
        BY <3>2, <2>5, <1>1
      <4> QED
        BY <4>1, <3>2, <2>2, <2>3
    <3>3. CASE k = a /\ k = b
      BY <3>3, <2>2, <2>3, <2>4, <2>5
    <3> QED
      BY <3>1, <3>2, <3>3, <2>5
  <2>7. \A j \in 1..(k - 1) : n[j] = p[j]
    BY <2>2, <2>3, <2>5
  <2> QED
    BY <2>1, <2>5, <2>6, <2>7 DEF Later
<1> QED
  BY <1>2, <1>3

(* The next nonce is later, and keeps the id.                              *)
LEMMA NextNonceIsLater ==
  ASSUME NEW n \in NonceBytes
  PROVE  NextNonce(n) \in NonceBytes /\ NextNonce(n)[1] = n[1] /\ Later(n, NextNonce(n))
<1> DEFINE l == Len(n)
           K == {k \in 2..l : n[k] # Base - 1}
           S == {1} \cup K
           i == Max(S)
           o == NextNonce(n)
<1>1. /\ l \in Nat /\ l >= 2 /\ DOMAIN n = 1..l /\ Base \in Nat /\ Base > 1
      /\ \A k \in 1..l : n[k] \in Int /\ 0 <= n[k] /\ n[k] <= Base - 1
  BY NonceType
<1>2. S \subseteq 0..l /\ S # {} /\ \A k \in S : k \in Nat
  BY <1>1
<1>3. i \in S /\ \A k \in S : k <= i
  <2>1. \E x \in S : \A y \in S : y <= x
    <3> HIDE DEF S
    <3> QED
      BY <1>1, <1>2, GreatestNat
  <2>2. \E x \in S : \A y \in S : x >= y
    BY <2>1, <1>2
  <2> HIDE DEF S
  <2>3. i \in S /\ \A y \in S : i >= y
    BY <2>2 DEF Max
  <2> QED
    BY <2>3, <1>2
<1>4. 0 \in Bytes /\ 1 \in Bytes /\ \A k \in 1..l : n[k] \in Bytes
  BY <1>1 DEF Bytes
<1>5. CASE i = 1
  <2> DEFINE z == [k \in 1..(l - 1) |-> 0]
  <2>1. o = <<n[1], 1>> \o z
    BY <1>5 DEF NextNonce
  <2>2. z \in Seq(Bytes) /\ Len(z) = l - 1 /\ <<n[1], 1>> \in Seq(Bytes) /\ Len(<<n[1], 1>>) = 2
    <3>1. l - 1 \in Nat /\ z \in [1..(l - 1) -> Bytes] /\ n[1] \in Bytes
      BY <1>1, <1>4
    <3> QED
      BY <3>1, <1>4, SeqDef
  <2> HIDE DEF z
  <2>3. /\ o \in Seq(Bytes) /\ Len(o) = l + 1
        /\ o[1] = n[1]
    BY <2>1, <2>2, <1>1, ConcatProperties
  <2>4. Len(o) >= 2 /\ l < Len(o)
    BY <2>3, <1>1
  <2> QED
    BY <2>3, <2>4 DEF NonceBytes, Later
<1>6. CASE i # 1
  <2>1. i \in 2..l /\ n[i] # Base - 1
    BY <1>3, <1>6
  <2>2. o = [k \in 1..l |-> IF k > i THEN 0 ELSE IF k = i THEN n[k] + 1 ELSE n[k]]
    BY <1>1, <1>6 DEF NextNonce
  <2> HIDE DEF i, o
  <2>3. n[i] + 1 \in Bytes /\ n[i] < n[i] + 1 /\ i \in 1..l /\ 1 \in 1..l /\ ~(1 > i) /\ ~(i > i)
    BY <2>1, <1>1 DEF Bytes
  <2>4. o \in [1..l -> Bytes]
    BY <2>2, <2>3, <1>4
  <2>5. o \in Seq(Bytes) /\ Len(o) = l
    BY <2>4, <1>1, SeqDef, LenProperties
  <2>6. o[1] = n[1] /\ o[i] = n[i] + 1
    BY <2>2, <2>3, <1>6
  <2>7. \A j \in 1..(i - 1) : o[j] = n[j]
    <3>1. \A j \in 1..(i - 1) : j \in 1..l /\ ~(j > i) /\ j # i
      BY <2>1, <1>1
    <3> QED
      BY <3>1, <2>2
  <2>8. Later(n, o)
    BY <2>3, <2>5, <2>6, <2>7 DEF Later
  <2> QED
    BY <2>5, <2>6, <2>8, <1>1 DEF NonceBytes, o
<1> QED
  BY <1>5, <1>6

Counted(m, n, t) ==
  /\ n \in NonceBytes /\ n[1] = m % Base
  /\ t \in Seq(NonceBytes)
  /\ \A i \in DOMAIN t : t[i][1] = m % Base /\ (t[i] = n \/ Later(t[i], n))
  /\ \A i, j \in DOMAIN t : i < j => Later(t[i], t[j])

NoncesInv ==
  /\ DOMAIN nonce = MinerIDs /\ DOMAIN tried = MinerIDs
  /\ \A m \in MinerIDs : Counted(m, nonce[m], tried[m])

(* A miner begins with its id and a zero, and has tried nothing.           *)
LEMMA NewNonceIsCounted ==
  ASSUME NEW m \in MinerIDs
  PROVE  Counted(m, NewNonceIncrementer(m), <<>>)
<1> DEFINE n == NewNonceIncrementer(m)
<1>1. Base \in Nat /\ Base > 1 /\ m \in Nat
  BY NoncesAssumption
<1>2. m % Base \in Bytes /\ 0 \in Bytes
  BY <1>1 DEF Bytes
<1>3. n \in Seq(Bytes) /\ Len(n) >= 2 /\ n[1] = m % Base
  BY <1>2 DEF NewNonceIncrementer
<1> HIDE DEF n
<1>4. n \in NonceBytes
  BY <1>3 DEF NonceBytes
<1>5. <<>> \in Seq(NonceBytes) /\ DOMAIN <<>> = {}
  OBVIOUS
<1>6. Counted(m, n, <<>>)
  BY <1>3, <1>4, <1>5 DEF Counted
<1> QED
  BY <1>6 DEF n

(* The next one counts on.                                                 *)
LEMMA NextNonceIsCounted ==
  ASSUME NEW m, NEW n, NEW t, Counted(m, n, t)
  PROVE  Counted(m, NextNonce(n), Append(t, NextNonce(n)))
<1>1. /\ n \in NonceBytes /\ n[1] = m % Base /\ t \in Seq(NonceBytes)
      /\ \A i \in DOMAIN t : t[i][1] = m % Base /\ (t[i] = n \/ Later(t[i], n))
      /\ \A i, j \in DOMAIN t : i < j => Later(t[i], t[j])
  BY DEF Counted
<1>2. PICK o : o = NextNonce(n)
  OBVIOUS
<1>3. o \in NonceBytes /\ o[1] = m % Base /\ Later(n, o)
  BY <1>1, <1>2, NextNonceIsLater
<1> DEFINE a == Append(t, o)
           l == Len(t)
<1>4. /\ l \in Nat /\ DOMAIN t = 1..l /\ DOMAIN a = 1..(l + 1) /\ a \in Seq(NonceBytes)
      /\ a[l + 1] = o /\ \A i \in 1..l : a[i] = t[i] /\ a[i] \in NonceBytes
  BY <1>1, <1>3, AppendProperties, LenProperties, ElementOfSeq
<1> HIDE DEF a, l
<1>5. \A i \in 1..(l + 1) : i \in 1..l \/ i = l + 1
  BY <1>4
<1>6. \A i \in 1..l : Later(a[i], o)
  BY <1>1, <1>3, <1>4, LaterTransitive
<1>7. \A i \in DOMAIN a : a[i][1] = m % Base /\ (a[i] = o \/ Later(a[i], o))
  BY <1>1, <1>3, <1>4, <1>5, <1>6
<1>8. ASSUME NEW i \in DOMAIN a, NEW j \in DOMAIN a, i < j PROVE Later(a[i], a[j])
  <2>1. i \in 1..l
    BY <1>4, <1>8
  <2>2. CASE j = l + 1
    BY <2>1, <2>2, <1>4, <1>6
  <2>3. CASE j \in 1..l
    BY <2>1, <2>3, <1>1, <1>4, <1>8
  <2> QED
    BY <2>2, <2>3, <1>4, <1>5
<1>9. Counted(m, o, a)
  BY <1>3, <1>4, <1>7, <1>8 DEF Counted
<1> QED
  BY <1>2, <1>9 DEF a

(* In a block no nonce is tried twice, by one miner or by two whose ids    *)
(* differ as bytes (NonceIncrementer, the mining loop of Mine).            *)
THEOREM SearchApart == NoncesSpec => []MinersSearchApart
<1>1. InitNonces => NoncesInv
  <2> SUFFICES ASSUME InitNonces PROVE NoncesInv
    OBVIOUS
  <2>1. nonce = [m \in MinerIDs |-> NewNonceIncrementer(m)] /\ tried = [m \in MinerIDs |-> <<>>]
    BY DEF InitNonces
  <2> QED
    BY <2>1, NewNonceIsCounted DEF NoncesInv
<1>2. NoncesInv /\ [NextNonces]_nonceVars => NoncesInv'
  <2> SUFFICES ASSUME NoncesInv, [NextNonces]_nonceVars PROVE NoncesInv'
    OBVIOUS
  <2>1. CASE ResetNonce
    <3>1. nonce' = [m \in MinerIDs |-> NewNonceIncrementer(m)] /\ tried' = [m \in MinerIDs |-> <<>>]
      BY <2>1 DEF ResetNonce
    <3> QED
      BY <3>1, NewNonceIsCounted DEF NoncesInv
  <2>2. ASSUME NEW m \in MinerIDs, TryNonce(m) PROVE NoncesInv'
    <3>1. /\ nonce' = [nonce EXCEPT ![m] = NextNonce(@)]
          /\ tried' = [tried EXCEPT ![m] = Append(@, nonce'[m])]
      BY <2>2 DEF TryNonce
    <3>2. /\ DOMAIN nonce = MinerIDs /\ DOMAIN tried = MinerIDs
          /\ \A o \in MinerIDs : Counted(o, nonce[o], tried[o])
      BY DEF NoncesInv
    <3>3. nonce'[m] = NextNonce(nonce[m]) /\ tried'[m] = Append(tried[m], NextNonce(nonce[m]))
      BY <3>1, <3>2
    <3>4. Counted(m, nonce'[m], tried'[m])
      BY <3>2, <3>3, NextNonceIsCounted
    <3>5. \A o \in MinerIDs \ {m} : nonce'[o] = nonce[o] /\ tried'[o] = tried[o]
      BY <3>1, <3>2
    <3>6. \A o \in MinerIDs : Counted(o, nonce'[o], tried'[o])
      BY <3>2, <3>4, <3>5
    <3>7. DOMAIN nonce' = MinerIDs /\ DOMAIN tried' = MinerIDs
      BY <3>1, <3>2
    <3> QED
      BY <3>6, <3>7 DEF NoncesInv
  <2>3. CASE UNCHANGED nonceVars
    BY <2>3 DEF NoncesInv, nonceVars
  <2> QED
    BY <2>1, <2>2, <2>3 DEF NextNonces
<1>3. NoncesInv => MinersSearchApart
  <2> SUFFICES ASSUME NoncesInv, NEW m \in MinerIDs, NEW o \in MinerIDs,
                      m % Base # o % Base \/ m = o,
                      NEW i \in DOMAIN tried[m], NEW j \in DOMAIN tried[o],
                      tried[m][i] = tried[o][j]
               PROVE  m = o /\ i = j
    BY DEF MinersSearchApart
  <2>1. Counted(m, nonce[m], tried[m]) /\ Counted(o, nonce[o], tried[o])
    BY DEF NoncesInv
  <2>2. m = o
    BY <2>1 DEF Counted
  <2>3. /\ tried[m] \in Seq(NonceBytes) /\ i \in Nat /\ j \in Nat /\ j \in DOMAIN tried[m]
        /\ tried[m][i] \in NonceBytes /\ tried[m][i] = tried[m][j]
    BY <2>1, <2>2 DEF Counted
  <2>4. ~Later(tried[m][i], tried[m][j]) /\ ~Later(tried[m][j], tried[m][i])
    BY <2>3, LaterIrreflexive
  <2>5. ~(i < j) /\ ~(j < i)
    BY <2>1, <2>3, <2>4 DEF Counted
  <2> QED
    BY <2>2, <2>3, <2>5
<1> QED
  BY <1>1, <1>2, <1>3, PTL DEF NoncesSpec

-----------------------------------------------------------------------------
(***************************************************************************)
(* Polling. What a pull has used of a service is what its own cache holds. *)
(* Calls are numbered, so an answer in a fresh timed cache is not one that *)
(* had run out when the pull began.                                        *)
(***************************************************************************)
Cached(s) == timed[s] # None

TimedInv ==
  /\ calls \in Nat /\ DOMAIN timed = Services /\ fresh \subseteq Services
  /\ \A s \in Services : Cached(s) => timed[s].call \in 1..calls
  /\ \A s, t \in Services : Cached(s) /\ Cached(t) /\ timed[s].call = timed[t].call => s = t
  /\ stale \subseteq 1..calls

(* A pull with the answers once, of which it has used used.                *)
UsedOnce(once, used) ==
  /\ DOMAIN once = Services
  /\ \A s \in Services : once[s] # None => once[s].call \notin stale
  /\ \A u \in used : u[1] \in Services /\ once[u[1]] # None /\ u = <<u[1], once[u[1]].call>>

PullInv ==
  pull # None =>
    /\ sources # None
    /\ {"once", "used"} \subseteq DOMAIN pull
    /\ UsedOnce(pull.once, pull.used)
    /\ \A s \in fresh : Cached(s) => timed[s].call \notin stale

PollInv ==
  /\ TimedInv /\ PullInv
  /\ sources # None => Enabled \subseteq Services

(* A quote leaves the cache of the pull and what it has used.              *)
LEMMA QuoteKeeps ==
  ASSUME NEW answer
  PROVE  /\ DOMAIN Quote(answer) = DOMAIN pull
         /\ "once" \in DOMAIN pull => Quote(answer).once = pull.once
         /\ "used" \in DOMAIN pull => Quote(answer).used = pull.used
BY DEF Quote

(* And so does a price.                                                    *)
LEMMA PricedKeeps ==
  ASSUME NEW price, NEW value
  PROVE  /\ DOMAIN Priced(price, value) = DOMAIN pull
         /\ "once" \in DOMAIN pull => Priced(price, value).once = pull.once
         /\ "used" \in DOMAIN pull => Priced(price, value).used = pull.used
BY DEF Priced

(* The use of an answer the pull remembers.                                *)
LEMMA UseOnce ==
  ASSUME NEW once, NEW used, UsedOnce(once, used), NEW s \in Services, NEW answer,
         answer # None, answer.call \notin stale, once[s] = None \/ once[s] = answer,
         NEW o, DOMAIN o = Services, o[s] = answer, \A t \in Services \ {s} : o[t] = once[t]
  PROVE  UsedOnce(o, used \cup {<<s, answer.call>>})
<1>1. /\ \A t \in Services : once[t] # None => once[t].call \notin stale
      /\ \A u \in used : u[1] \in Services /\ once[u[1]] # None /\ u = <<u[1], once[u[1]].call>>
  BY DEF UsedOnce
<1>2. \A t \in Services : once[t] # None => o[t] = once[t]
  OBVIOUS
<1>3. \A t \in Services : o[t] # None => o[t].call \notin stale
  BY <1>1
<1>4. ASSUME NEW u \in used \cup {<<s, answer.call>>}
      PROVE  u[1] \in Services /\ o[u[1]] # None /\ u = <<u[1], o[u[1]].call>>
  <2>1. CASE u \in used
    BY <2>1, <1>1, <1>2
  <2>2. CASE u = <<s, answer.call>>
    BY <2>2
  <2> QED
    BY <2>1, <2>2
<1> QED
  BY <1>3, <1>4 DEF UsedOnce

(* What changes neither the caches nor the pull's use of them.             *)
LEMMA PullKept ==
  ASSUME PollInv, UNCHANGED <<config, sources, timed, calls, stale>>, fresh' \subseteq fresh,
         pull' = None \/ pull' = pull
           \/ (/\ pull # None /\ DOMAIN pull' = DOMAIN pull
               /\ pull'.once = pull.once /\ pull'.used = pull.used)
  PROVE  PollInv'
<1>1. TimedInv'
  BY DEF PollInv, TimedInv, Cached
<1>2. Enabled' = Enabled
  BY DEF Enabled
<1>3. PullInv'
  <2> SUFFICES ASSUME pull' # None
               PROVE  /\ sources' # None /\ {"once", "used"} \subseteq DOMAIN pull'
                      /\ UsedOnce(pull.once, pull.used)' /\ \A s \in fresh' : Cached(s)' => timed'[s].call \notin stale'
    BY DEF PullInv
  <2>1. pull # None /\ DOMAIN pull' = DOMAIN pull /\ pull'.once = pull.once /\ pull'.used = pull.used
    OBVIOUS
  <2>2. /\ sources # None /\ {"once", "used"} \subseteq DOMAIN pull /\ UsedOnce(pull.once, pull.used)
        /\ \A s \in fresh : Cached(s) => timed[s].call \notin stale
    BY <2>1 DEF PollInv, PullInv
  <2>3. UsedOnce(pull.once, pull.used)'
    BY <2>1, <2>2 DEF UsedOnce
  <2>4. \A s \in fresh' : Cached(s)' => timed'[s].call \notin stale'
    BY <2>2 DEF Cached
  <2> QED
    BY <2>1, <2>2, <2>3, <2>4
<1> QED
  BY <1>1, <1>2, <1>3 DEF PollInv

(* A pull begins with no answer, and the answers that have run out are not *)
(* those of the fresh caches.                                              *)
LEMMA StartPullInv == PollInv /\ StartPull => PollInv'
<1> SUFFICES ASSUME PollInv, StartPull PROVE PollInv'
  OBVIOUS
<1>1. /\ sources # None /\ UNCHANGED <<config, sources, timed, fresh, calls>>
      /\ DOMAIN pull' = {"todo", "ask", "prices", "err", "once", "used", "chosen"}
      /\ pull'.once = NewCachedDataSources /\ pull'.used = {}
      /\ stale' = {timed[s].call : s \in {s \in Services \ fresh : timed[s] # None}}
  BY DEF StartPull
<1>2. /\ calls \in Nat /\ DOMAIN timed = Services /\ fresh \subseteq Services
      /\ \A s \in Services : Cached(s) => timed[s].call \in 1..calls
      /\ \A s, t \in Services : Cached(s) /\ Cached(t) /\ timed[s].call = timed[t].call => s = t
  BY DEF PollInv, TimedInv
<1>3. stale' \subseteq 1..calls
  BY <1>1, <1>2 DEF Cached
<1>4. TimedInv'
  BY <1>1, <1>2, <1>3 DEF TimedInv, Cached
<1>5. \A s \in fresh' : Cached(s)' => timed'[s].call \notin stale'
  BY <1>1, <1>2 DEF Cached
<1>6. UsedOnce(pull.once, pull.used)'
  BY <1>1 DEF UsedOnce, NewCachedDataSources
<1>7. PullInv'
  BY <1>1, <1>5, <1>6 DEF PullInv
<1>8. Enabled' = Enabled
  BY <1>1 DEF Enabled
<1> QED
  BY <1>1, <1>4, <1>7, <1>8 DEF PollInv

(* An answer the pull already has.                                         *)
LEMMA FromOnceInv == PollInv /\ FromOneTimeUseCache => PollInv'
<1> SUFFICES ASSUME PollInv, FromOneTimeUseCache PROVE PollInv'
  OBVIOUS
<1> DEFINE q == Quote(pull.once[Asked])
<1>1. /\ pull # None /\ Asked \in Enabled /\ pull.once[Asked] # None
      /\ pull' = [q EXCEPT !.used = @ \cup {<<Asked, pull.once[Asked].call>>}]
      /\ UNCHANGED <<config, sources, timed, fresh, calls, stale>>
  BY DEF FromOneTimeUseCache, Asking
<1>2. /\ sources # None /\ {"once", "used"} \subseteq DOMAIN pull /\ UsedOnce(pull.once, pull.used)
      /\ \A s \in fresh : Cached(s) => timed[s].call \notin stale
      /\ Asked \in Services /\ TimedInv
  BY <1>1 DEF PollInv, PullInv
<1>3. DOMAIN q = DOMAIN pull /\ q.once = pull.once /\ q.used = pull.used
  BY <1>2, QuoteKeeps
<1>4. PICK s \in Services : s = Asked
  BY <1>2
<1> HIDE DEF q
<1>5. /\ DOMAIN pull' = DOMAIN pull /\ pull'.once = pull.once
      /\ pull'.used = pull.used \cup {<<s, pull.once[s].call>>}
  BY <1>1, <1>2, <1>3, <1>4
<1>6. /\ DOMAIN pull.once = Services /\ pull.once[s] # None /\ pull.once[s].call \notin stale
  BY <1>1, <1>2, <1>4 DEF UsedOnce
<1>7. UsedOnce(pull.once, pull.used \cup {<<s, pull.once[s].call>>})
  BY <1>2, <1>6, UseOnce
<1>8. UsedOnce(pull.once, pull.used)'
  BY <1>1, <1>5, <1>7 DEF UsedOnce
<1>9. PullInv'
  BY <1>1, <1>2, <1>5, <1>8 DEF PullInv, Cached
<1>10. TimedInv' /\ Enabled' = Enabled
  BY <1>1, <1>2 DEF TimedInv, Cached, Enabled
<1> QED
  BY <1>1, <1>9, <1>10 DEF PollInv

(* A fresh answer of the timed cache.                                      *)
LEMMA FromTimedInv == PollInv /\ FromTimedCache => PollInv'
<1> SUFFICES ASSUME PollInv, FromTimedCache PROVE PollInv'
  OBVIOUS
<1> DEFINE q == Quote(timed[Asked])
<1>1. /\ pull # None /\ Asked \in Enabled /\ pull.once[Asked] = None
      /\ timed[Asked] # None /\ Asked \in fresh
      /\ pull' = [q EXCEPT !.once = Remember(@, Asked, timed[Asked]),
                           !.used = @ \cup {<<Asked, timed[Asked].call>>}]
      /\ UNCHANGED <<config, sources, timed, fresh, calls, stale>>
  BY DEF FromTimedCache, Asking
<1>2. /\ sources # None /\ {"once", "used"} \subseteq DOMAIN pull /\ UsedOnce(pull.once, pull.used)
      /\ \A s \in fresh : Cached(s) => timed[s].call \notin stale
      /\ Asked \in Services /\ TimedInv
  BY <1>1 DEF PollInv, PullInv
<1>3. DOMAIN q = DOMAIN pull /\ q.once = pull.once /\ q.used = pull.used
  BY <1>2, QuoteKeeps
<1>4. PICK s \in Services : s = Asked
  BY <1>2
<1>5. PICK answer : answer = timed[s]
  OBVIOUS
<1> HIDE DEF q
<1>6. /\ DOMAIN pull' = DOMAIN pull /\ pull'.once = Remember(pull.once, s, answer)
      /\ pull'.used = pull.used \cup {<<s, answer.call>>}
  BY <1>1, <1>2, <1>3, <1>4, <1>5
<1>7. /\ DOMAIN pull.once = Services /\ pull.once[s] = None
      /\ answer # None /\ answer.call \notin stale
  BY <1>1, <1>2, <1>4, <1>5 DEF UsedOnce, Cached
<1>8. /\ DOMAIN pull'.once = Services /\ pull'.once[s] = answer
      /\ \A t \in Services \ {s} : pull'.once[t] = pull.once[t]
  BY <1>6, <1>7 DEF Remember
<1>9. UsedOnce(pull'.once, pull.used \cup {<<s, answer.call>>})
  BY <1>2, <1>7, <1>8, UseOnce
<1>10. UsedOnce(pull.once, pull.used)'
  BY <1>1, <1>6, <1>9 DEF UsedOnce
<1>11. PullInv'
  BY <1>1, <1>2, <1>6, <1>10 DEF PullInv, Cached
<1>12. TimedInv' /\ Enabled' = Enabled
  BY <1>1, <1>2 DEF TimedInv, Cached, Enabled
<1> QED
  BY <1>1, <1>11, <1>12 DEF PollInv

(* The service is called: the answer has a new number.                     *)
LEMMA CallSourceInv == PollInv /\ CallSource => PollInv'
<1> SUFFICES ASSUME PollInv, CallSource PROVE PollInv'
  OBVIOUS
<1>1. /\ pull # None /\ Asked \in Enabled /\ pull.once[Asked] = None
      /\ calls' = calls + 1 /\ fresh' = fresh \cup {Asked}
      /\ UNCHANGED <<config, sources, stale>>
  BY DEF CallSource, MustCall, Asking
<1>2. /\ sources # None /\ {"once", "used"} \subseteq DOMAIN pull /\ UsedOnce(pull.once, pull.used)
      /\ \A s \in fresh : Cached(s) => timed[s].call \notin stale
      /\ Asked \in Services /\ TimedInv
  BY <1>1 DEF PollInv, PullInv
<1>3. /\ calls \in Nat /\ DOMAIN timed = Services /\ fresh \subseteq Services
      /\ \A s \in Services : Cached(s) => timed[s].call \in 1..calls
      /\ \A s, t \in Services : Cached(s) /\ Cached(t) /\ timed[s].call = timed[t].call => s = t
      /\ stale \subseteq 1..calls
  BY <1>2 DEF TimedInv
<1>4. PICK s \in Services : s = Asked
  BY <1>2
<1>5. PICK view \in Views :
        LET answer == [call |-> calls + 1, prices |-> Fetched(s, Seen(view))]
        IN  /\ timed' = [timed EXCEPT ![s] = answer]
            /\ pull' = [Quote(answer) EXCEPT !.once = Remember(@, s, answer),
                                             !.used = @ \cup {<<s, calls + 1>>}]
  BY <1>4 DEF CallSource
<1>6. PICK answer :
        answer = [call |-> calls + 1, prices |-> Fetched(s, Seen(view))]
  OBVIOUS
<1>7. /\ timed' = [timed EXCEPT ![s] = answer]
      /\ pull' = [Quote(answer) EXCEPT !.once = Remember(@, s, answer),
                                       !.used = @ \cup {<<s, calls + 1>>}]
  BY <1>5, <1>6
<1>8. answer # None /\ answer.call = calls + 1 /\ answer.call \notin 1..calls
  <2>1. answer \in Answer
    BY <1>3, <1>6 DEF Answer
  <2> QED
    BY <2>1, <1>3, <1>6, PollingAssumption
<1>9. DOMAIN Quote(answer) = DOMAIN pull /\ Quote(answer).once = pull.once /\ Quote(answer).used = pull.used
  BY <1>2, QuoteKeeps
<1>10. /\ DOMAIN pull' = DOMAIN pull /\ pull'.once = Remember(pull.once, s, answer)
       /\ pull'.used = pull.used \cup {<<s, answer.call>>}
  BY <1>2, <1>7, <1>8, <1>9
<1>11. /\ DOMAIN pull.once = Services /\ pull.once[s] = None /\ answer.call \notin stale
  BY <1>1, <1>2, <1>3, <1>4, <1>8 DEF UsedOnce
<1>12. /\ DOMAIN pull'.once = Services /\ pull'.once[s] = answer
       /\ \A t \in Services \ {s} : pull'.once[t] = pull.once[t]
  BY <1>10, <1>11 DEF Remember
<1>13. UsedOnce(pull'.once, pull.used \cup {<<s, answer.call>>})
  BY <1>2, <1>8, <1>11, <1>12, UseOnce
<1>14. UsedOnce(pull.once, pull.used)'
  BY <1>1, <1>10, <1>13 DEF UsedOnce
<1>15. timed'[s] = answer /\ \A t \in Services \ {s} : timed'[t] = timed[t]
  BY <1>3, <1>7
<1>16. \A t \in fresh' : Cached(t)' => timed'[t].call \notin stale'
  BY <1>1, <1>2, <1>3, <1>4, <1>11, <1>15 DEF Cached
<1>17. PullInv'
  BY <1>1, <1>2, <1>10, <1>14, <1>16 DEF PullInv
<1>18. TimedInv'
  <2>1. calls' \in Nat /\ DOMAIN timed' = Services /\ fresh' \subseteq Services
    BY <1>1, <1>2, <1>3, <1>7
  <2>2. 1..calls \subseteq 1..(calls + 1) /\ calls + 1 \in 1..(calls + 1)
    BY <1>3
  <2>3. \A t \in Services : Cached(t)' => timed'[t].call \in 1..calls'
    BY <2>2, <1>1, <1>3, <1>8, <1>15 DEF Cached
  <2>4. \A t \in Services \ {s} : Cached(t)' => timed'[t].call # answer.call
    BY <1>3, <1>8, <1>15 DEF Cached
  <2>5. \A t, u \in Services : Cached(t)' /\ Cached(u)' /\ timed'[t].call = timed'[u].call => t = u
    BY <2>4, <1>3, <1>15 DEF Cached
  <2>6. stale' \subseteq 1..calls'
    BY <2>2, <1>1, <1>3
  <2> QED
    BY <2>1, <2>3, <2>5, <2>6 DEF TimedInv
<1>19. Enabled' = Enabled
  BY <1>1 DEF Enabled
<1> QED
  BY <1>1, <1>17, <1>18, <1>19 DEF PollInv

(* The other steps.                                                        *)
LEMMA OtherPollsInv ==
  ASSUME PollInv,
         \/ NewDataSources \/ CallFails \/ AskUnknown \/ PriceFound \/ NoPrice \/ EndPull
         \/ (\E s \in Services : Expire(s)) \/ UNCHANGED pollingVars
  PROVE  PollInv'
<1>1. CASE NewDataSources
  <2>1. /\ sources = None /\ UNCHANGED <<config, timed, fresh, pull, calls, stale>>
        /\ sources' # None => Enabled \subseteq Services
    BY <1>1 DEF NewDataSources
  <2>2. pull = None
    BY <2>1 DEF PollInv, PullInv
  <2>3. TimedInv' /\ Enabled' = Enabled
    BY <2>1 DEF PollInv, TimedInv, Cached, Enabled
  <2> QED
    BY <2>1, <2>2, <2>3 DEF PollInv, PullInv
<1>2. CASE CallFails
  <2>1. /\ UNCHANGED <<config, sources, timed, fresh, calls, stale>> /\ pull # None
        /\ pull' = pull \/ pull' = [pull EXCEPT !.ask = Tail(@), !.err = TRUE]
    BY <1>2 DEF CallFails, MustCall, Asking
  <2>2. {"once", "used"} \subseteq DOMAIN pull
    BY <2>1 DEF PollInv, PullInv
  <2>3. pull' = pull \/ (DOMAIN pull' = DOMAIN pull /\ pull'.once = pull.once /\ pull'.used = pull.used)
    BY <2>1, <2>2
  <2> QED
    BY <2>1, <2>3, PullKept
<1>3. CASE PriceFound
  <2>1. /\ UNCHANGED <<config, sources, timed, fresh, calls, stale>> /\ pull # None
        /\ \E price, value : pull' = Priced(price, value)
    BY <1>3 DEF PriceFound
  <2>2. {"once", "used"} \subseteq DOMAIN pull
    BY <2>1 DEF PollInv, PullInv
  <2>3. DOMAIN pull' = DOMAIN pull /\ pull'.once = pull.once /\ pull'.used = pull.used
    BY <2>1, <2>2, PricedKeeps
  <2> QED
    BY <2>1, <2>3, PullKept
<1>4. CASE NoPrice \/ EndPull
  <2>1. UNCHANGED <<config, sources, timed, fresh, calls, stale>> /\ pull' = None
    BY <1>4 DEF NoPrice, EndPull
  <2> QED
    BY <2>1, PullKept
<1>5. CASE AskUnknown \/ UNCHANGED pollingVars \/ \E s \in Services : Expire(s)
  <2>1. UNCHANGED <<config, sources, timed, pull, calls, stale>> /\ fresh' \subseteq fresh
    BY <1>5 DEF AskUnknown, pollingVars, Expire
  <2> QED
    BY <2>1, PullKept
<1> QED
  BY <1>1, <1>2, <1>3, <1>4, <1>5

(* The invariant holds at first.                                           *)
LEMMA PollInit == InitPolling => PollInv
<1> SUFFICES ASSUME InitPolling PROVE PollInv
  OBVIOUS
<1>1. /\ sources = None /\ timed = [s \in Services |-> None] /\ fresh = {} /\ pull = None
      /\ calls = 0 /\ stale = {}
  BY DEF InitPolling
<1>2. TimedInv
  BY <1>1 DEF TimedInv, Cached
<1> QED
  BY <1>1, <1>2 DEF PollInv, PullInv

(* Every step keeps it.                                                    *)
LEMMA PollNext == PollInv /\ [NextPolling]_pollingVars => PollInv'
BY StartPullInv, FromOnceInv, FromTimedInv, CallSourceInv, OtherPollsInv DEF NextPolling

(* A pull uses one answer of each service, and none that had run out when  *)
(* it began (PullAllPEGAssets, OneTimeUseCache and the timed cache).       *)
THEOREM OneAnswer == PollingSpec => []OneFreshAnswerPerPull
<1>1. InitPolling => PollInv
  BY PollInit
<1>2. PollInv /\ [NextPolling]_pollingVars => PollInv'
  BY PollNext
<1>3. PollInv => OneFreshAnswerPerPull
  <2> SUFFICES ASSUME PollInv, pull # None PROVE OneFreshAnswerPerPull
    BY DEF OneFreshAnswerPerPull
  <2>1. UsedOnce(pull.once, pull.used)
    BY DEF PollInv, PullInv
  <2>2. /\ \A s \in Services : pull.once[s] # None => pull.once[s].call \notin stale
        /\ \A u \in pull.used : /\ u[1] \in Services /\ pull.once[u[1]] # None
                               /\ u = <<u[1], pull.once[u[1]].call>>
    BY <2>1 DEF UsedOnce
  <2>3. \A u \in pull.used : u[2] = pull.once[u[1]].call
    BY <2>2
  <2>4. \A u, v \in pull.used : u[1] = v[1] => u = v
    BY <2>2
  <2> QED
    BY <2>2, <2>3, <2>4 DEF OneFreshAnswerPerPull
<1> QED
  BY <1>1, <1>2, <1>3, PTL DEF PollingSpec

-----------------------------------------------------------------------------
(***************************************************************************)
(* Conversions. A share is the proportion rounded down, so the bank covers *)
(* all shares and is short of them by less than a unit each: this dust     *)
(* goes to one request, the first of the top ones.                         *)
(***************************************************************************)
Shares(r, bank) == [t \in DOMAIN r |-> PayoutBig(r[t], bank, Sum(r))]
Dust(r, bank) == bank - Sum(Shares(r, bank))

(* Requests that more than use up a bank.                                  *)
Exhausts(r, bank) ==
  /\ IsFiniteSet(DOMAIN r) /\ DOMAIN r # {} /\ r \in [DOMAIN r -> Nat] /\ bank \in Nat
  /\ bank <= Sum(r)

(* What is asked for is not negative.                                      *)
LEMMA SumOfNaturals ==
  ASSUME NEW D, IsFiniteSet(D), NEW r \in [D -> Nat]
  PROVE  Sum(r) \in Nat
<1>1. r \in [D -> Int] /\ \A t \in D : r[t] \in Nat
  OBVIOUS
<1>2. \A t \in D : (-1) * r[t] <= 0 * r[t] + 0
  BY <1>1
<1>3. (-1) * Sum(r) <= 0 * Sum(r) + 0 * Cardinality(D)
  <2>1. AtMost(-1, r, 0, r, 0) /\ DOMAIN r = D
    BY <1>1, <1>2 DEF AtMost
  <2> QED
    BY <2>1, SumBound
<1>4. Sum(r) \in Int /\ Cardinality(D) \in Nat
  BY <1>1, SumType, FS_CardinalityType
<1> QED
  BY <1>3, <1>4

(* A share is at most the request, and its proportion rounded down.        *)
LEMMA ShareIs ==
  ASSUME NEW r \in Nat, NEW bank \in Nat, NEW total \in Nat, bank <= total
  PROVE  /\ PayoutBig(r, bank, total) \in Nat /\ PayoutBig(r, bank, total) <= r
         /\ total > 0 => /\ PayoutBig(r, bank, total) * total <= r * bank
                         /\ r * bank < (PayoutBig(r, bank, total) + 1) * total
         /\ total = 0 => PayoutBig(r, bank, total) = 0
<1> DEFINE p == PayoutBig(r, bank, total)
<1>1. CASE r = 0 \/ bank = 0 \/ total = 0
  <2>1. p = 0 /\ (r = 0 \/ bank = 0 => r * bank = 0)
    BY <1>1 DEF PayoutBig
  <2> HIDE DEF p
  <2>2. p \in Nat /\ p <= r /\ (total = 0 => p = 0)
    BY <2>1
  <2>3. ASSUME total > 0 PROVE p * total <= r * bank /\ r * bank < (p + 1) * total
    <3>1. r * bank = 0 /\ p * total = 0 /\ (p + 1) * total = total
      BY <1>1, <2>1, <2>3
    <3> QED
      BY <3>1, <2>3
  <2> QED
    BY <2>2, <2>3 DEF p
<1>2. CASE ~(r = 0 \/ bank = 0 \/ total = 0)
  <2>1. p = (r * bank) \div total
    BY <1>2 DEF PayoutBig
  <2>2. r * bank \in Nat /\ total > 0
    BY <1>2
  <2> HIDE DEF p
  <2>3. p \in Int /\ p * total <= r * bank /\ r * bank < (p + 1) * total
    BY <2>1, <2>2
  <2>4. r * bank <= r * total
    OBVIOUS
  <2>5. p >= 0
    BY <2>1, <2>2, Quotient
  <2>6. p <= r
    BY <2>1, <2>2, <2>4, Quotient
  <2> QED
    BY <1>2, <2>3, <2>5, <2>6 DEF p
<1> QED
  BY <1>1, <1>2

(* The shares leave less than a unit of the bank for every request.        *)
LEMMA DustIs ==
  ASSUME NEW r, NEW bank, Exhausts(r, bank)
  PROVE  /\ Shares(r, bank) \in [DOMAIN r -> Nat] /\ Sum(r) \in Nat /\ Sum(Shares(r, bank)) \in Nat
         /\ Dust(r, bank) \in 0..(Cardinality(DOMAIN r) - 1)
         /\ \A t \in DOMAIN r :
              /\ Shares(r, bank)[t] <= r[t]
              /\ Sum(r) > 0 => /\ Shares(r, bank)[t] * Sum(r) <= r[t] * bank
                               /\ r[t] * bank < (Shares(r, bank)[t] + 1) * Sum(r)
<1> DEFINE D == DOMAIN r
           n == Cardinality(D)
           total == Sum(r)
           h == Shares(r, bank)
<1>1. /\ IsFiniteSet(D) /\ D # {} /\ r \in [D -> Nat] /\ bank \in Nat /\ bank <= total
  BY DEF Exhausts
<1> HIDE DEF D
<1>2. total \in Nat /\ n \in Nat /\ n > 0 /\ r \in [D -> Int]
  <2>1. n \in Nat /\ n # 0
    BY <1>1, FS_CardinalityType, FS_EmptySet
  <2> QED
    BY <2>1, <1>1, SumOfNaturals
<1>3. \A t \in D : r[t] \in Nat /\ h[t] = PayoutBig(r[t], bank, total)
  BY <1>1 DEF Shares, D
<1> HIDE DEF total
<1>4. \A t \in D : /\ h[t] \in Nat /\ h[t] <= r[t]
                   /\ total > 0 => h[t] * total <= r[t] * bank /\ r[t] * bank < (h[t] + 1) * total
                   /\ total = 0 => h[t] = 0
  <2> HIDE DEF h
  <2> SUFFICES ASSUME NEW t \in D
               PROVE  /\ h[t] \in Nat /\ h[t] <= r[t]
                      /\ total > 0 => h[t] * total <= r[t] * bank /\ r[t] * bank < (h[t] + 1) * total
                      /\ total = 0 => h[t] = 0
    OBVIOUS
  <2>1. PICK x \in Nat : x = r[t]
    BY <1>3
  <2>2. /\ PayoutBig(x, bank, total) \in Nat /\ PayoutBig(x, bank, total) <= x
        /\ total > 0 => /\ PayoutBig(x, bank, total) * total <= x * bank
                        /\ x * bank < (PayoutBig(x, bank, total) + 1) * total
        /\ total = 0 => PayoutBig(x, bank, total) = 0
    BY <1>1, <1>2, ShareIs
  <2> QED
    BY <2>1, <2>2, <1>3
<1>5. h \in [D -> Nat] /\ h \in [D -> Int]
  <2>1. DOMAIN h = D /\ h = [t \in D |-> h[t]]
    BY DEF Shares, D
  <2> HIDE DEF h
  <2> QED
    BY <2>1, <1>4
<1> HIDE DEF h, n
<1>6. Sum(h) \in Nat
  BY <1>1, <1>5, SumOfNaturals
<1>7. CASE total > 0
  <2>1. \A t \in D : total * h[t] <= bank * r[t] + 0
    <3> SUFFICES ASSUME NEW t \in D PROVE total * h[t] <= bank * r[t] + 0
      OBVIOUS
    <3>1. h[t] \in Nat /\ r[t] \in Nat /\ h[t] * total <= r[t] * bank
      BY <1>3, <1>4, <1>7
    <3> QED
      BY <3>1, <1>1, <1>2
  <2>2. total * Sum(h) <= bank * total + 0 * n
    <3>1. AtMost(total, h, bank, r, 0) /\ DOMAIN r = D
      BY <2>1, <1>1, <1>2, <1>5 DEF AtMost
    <3> QED
      BY <3>1, SumBound DEF n, total
  <2>3. Sum(h) <= bank
    BY <2>2, <1>1, <1>2, <1>6, <1>7
  <2>4. \A t \in D : bank * r[t] <= total * h[t] + (total - 1)
    <3> SUFFICES ASSUME NEW t \in D PROVE bank * r[t] <= total * h[t] + (total - 1)
      OBVIOUS
    <3>1. h[t] \in Nat /\ r[t] \in Nat /\ r[t] * bank < (h[t] + 1) * total
      BY <1>3, <1>4, <1>7
    <3>2. (h[t] + 1) * total = total * h[t] + total /\ total * h[t] \in Nat /\ bank * r[t] = r[t] * bank
          /\ r[t] * bank \in Nat
      BY <3>1, <1>1, <1>2
    <3> QED
      BY <3>1, <3>2, <1>2
  <2>5. bank * total <= total * Sum(h) + (total - 1) * n
    <3>1. total - 1 \in Int
      BY <1>2
    <3>2. AtMost(bank, r, total, h, total - 1) /\ DOMAIN h = D
      BY <3>1, <2>4, <1>1, <1>2, <1>5 DEF AtMost
    <3> QED
      BY <3>2, SumBound DEF n, total
  <2> DEFINE d == bank - Sum(h)
  <2>6. d \in Nat
    BY <2>3, <1>1, <1>6
  <2>7. d * total < n * total
    <3>1. d * total = bank * total - total * Sum(h)
      BY <1>1, <1>2, <1>6
    <3>2. (total - 1) * n < n * total
      BY <1>2
    <3>3. /\ d * total \in Int /\ bank * total \in Int /\ total * Sum(h) \in Int
          /\ (total - 1) * n \in Int /\ n * total \in Int
      BY <2>6, <1>1, <1>2, <1>6
    <3> HIDE DEF d
    <3> QED
      BY <3>1, <3>2, <3>3, <2>5
  <2> HIDE DEF d
  <2>8. d < n
    <3>1. SUFFICES ASSUME n <= d PROVE FALSE
      BY <1>2, <2>6
    <3>2. n * total <= d * total
      BY <3>1, <1>2, <2>6
    <3>3. n * total \in Int /\ d * total \in Int
      BY <1>2, <2>6
    <3> QED
      BY <3>2, <3>3, <2>7
  <2>9. d \in 0..(n - 1)
    BY <2>6, <2>8, <1>2
  <2> QED
    BY <2>9, <1>2, <1>4, <1>5, <1>6 DEF d, n, h, D, total, Dust
<1>8. CASE total = 0
  <2>1. bank = 0 /\ \A t \in D : h[t] = 0
    BY <1>1, <1>4, <1>8
  <2>2. \A t \in D : 1 * h[t] <= 0 * h[t] + 0
    BY <2>1
  <2>3. 1 * Sum(h) <= 0 * Sum(h) + 0 * n
    <3>1. AtMost(1, h, 0, h, 0) /\ DOMAIN h = D
      BY <2>2, <1>1, <1>5 DEF AtMost
    <3> QED
      BY <3>1, SumBound DEF n
  <2>4. Sum(h) = 0
    BY <2>3, <1>2, <1>6
  <2>5. bank - Sum(h) \in 0..(n - 1)
    BY <2>1, <2>4, <1>2
  <2> QED
    BY <2>5, <1>2, <1>4, <1>5, <1>6, <1>8 DEF n, h, D, total, Dust
<1> QED
  BY <1>2, <1>7, <1>8

(* The keys of the sort are numbers.                                       *)
LEMMA KeyType ==
  ASSUME NEW t \in Txids
  PROVE  SplitTxID(t).hash \in Int /\ SplitTxID(t).index \in Int
BY ConversionsAssumption DEF SplitTxID, NotATxID

(* The list of a set, in any order, has all of it once.                    *)
LEMMA ListOfSet ==
  ASSUME NEW T, IsFiniteSet(T), NEW s \in SetToSeqs(T)
  PROVE  /\ s \in Seq(T) /\ Len(s) \in Nat /\ (T # {} => Len(s) > 0)
         /\ \A i \in 1..Len(s) : s[i] \in T
         /\ \A i, j \in 1..Len(s) : s[i] = s[j] => i = j
         /\ \A u \in T : \E i \in 1..Len(s) : s[i] = u
<1> DEFINE n == Cardinality(T)
           D == 1..n
<1>1. s \in [D -> T] /\ \A i, j \in D : i # j => s[i] # s[j]
  BY DEF SetToSeqs
<1>2. n \in Nat /\ (T # {} => n # 0)
  BY FS_CardinalityType, FS_EmptySet
<1>3. IsFiniteSet(D) /\ Cardinality(D) = n
  BY <1>2, FS_Interval
<1> HIDE DEF n
<1>4. s \in Seq(T) /\ Len(s) = n
  BY <1>1, <1>2, SeqDef, LenProperties
<1>5. s \in Injection(D, T)
  BY <1>1 DEF Injection, IsInjective
<1>6. s \in Surjection(D, T)
  <2> HIDE DEF D
  <2>1. Cardinality(D) = Cardinality(T)
    BY <1>3 DEF n
  <2> QED
    BY <2>1, <1>5, FS_Injection
<1>7. \A u \in T : \E i \in D : s[i] = u
  BY <1>6 DEF Surjection
<1> QED
  BY <1>1, <1>2, <1>4, <1>7

(* The winner is one of the top requests, and none of them sorts before    *)
(* it.                                                                     *)
LEMMA WinnerIs ==
  ASSUME NEW T, T \subseteq Txids, IsFiniteSet(T), T # {}, NEW top \in SetToSeqs(T)
  PROVE  SortTxIDS(top)[1] \in T /\ \A u \in T : ~TxBefore(u, SortTxIDS(top)[1])
<1> DEFINE n == Len(top)
           D == 1..n
           R == {p \in D \X D :
                   \/ TxBefore(top[p[1]], top[p[2]])
                   \/ p[1] < p[2] /\ ~TxBefore(top[p[2]], top[p[1]])}
           o == InOrder(n, R)
<1>1. /\ n \in Nat /\ n > 0 /\ \A i \in D : top[i] \in T
      /\ \A u \in T : \E i \in D : top[i] = u
  BY ListOfSet
<1>2. SortTxIDS(top) = [k \in D |-> top[o[k]]]
  BY DEF SortTxIDS, StableSort
<1> HIDE DEF n
<1>3. \A i \in D : /\ SplitTxID(top[i]).hash \in Int /\ SplitTxID(top[i]).index \in Int
  BY <1>1, KeyType
<1>4. \A i \in D : i \in Int /\ ~TxBefore(top[i], top[i])
  BY <1>1, <1>3 DEF TxBefore
<1>5. \A i, j \in D : TxBefore(top[i], top[j]) => ~TxBefore(top[j], top[i])
  BY <1>3 DEF TxBefore
<1>6. \A i, j, k \in D : TxBefore(top[i], top[j]) /\ TxBefore(top[j], top[k]) => TxBefore(top[i], top[k])
  <2> SUFFICES ASSUME NEW i \in D, NEW j \in D, NEW k \in D,
                      TxBefore(top[i], top[j]), TxBefore(top[j], top[k])
               PROVE  TxBefore(top[i], top[k])
    OBVIOUS
  <2> QED
    BY <1>3 DEF TxBefore
<1>7. \A i, j, k \in D : ~TxBefore(top[i], top[j]) /\ ~TxBefore(top[j], top[k]) => ~TxBefore(top[i], top[k])
  <2> SUFFICES ASSUME NEW i \in D, NEW j \in D, NEW k \in D,
                      ~TxBefore(top[i], top[j]), ~TxBefore(top[j], top[k])
               PROVE  ~TxBefore(top[i], top[k])
    OBVIOUS
  <2> QED
    BY <1>3 DEF TxBefore
<1>8. \A i, j \in D :
        <<i, j>> \in R <=> TxBefore(top[i], top[j]) \/ (i < j /\ ~TxBefore(top[j], top[i]))
  OBVIOUS
<1> HIDE DEF D, R
<1>9. StrictOrder(n, R)
  <2>1. \A i \in D : <<i, i>> \notin R
    BY <1>4, <1>8
  <2>2. ASSUME NEW i \in D, NEW j \in D, i # j PROVE <<i, j>> \in R \/ <<j, i>> \in R
    <3>1. i < j \/ j < i
      BY <2>2, <1>4
    <3>2. CASE TxBefore(top[i], top[j]) \/ TxBefore(top[j], top[i])
      BY <3>2, <1>8
    <3>3. CASE ~TxBefore(top[i], top[j]) /\ ~TxBefore(top[j], top[i])
      BY <3>1, <3>3, <1>8
    <3> QED
      BY <3>2, <3>3
  <2>3. ASSUME NEW i \in D, NEW j \in D, NEW k \in D, <<i, j>> \in R, <<j, k>> \in R PROVE <<i, k>> \in R
    <3>1. i \in Int /\ j \in Int /\ k \in Int
      BY <1>4
    <3>2. /\ TxBefore(top[i], top[j]) \/ (i < j /\ ~TxBefore(top[j], top[i]))
          /\ TxBefore(top[j], top[k]) \/ (j < k /\ ~TxBefore(top[k], top[j]))
      BY <1>8, <2>3
    <3>3. ~TxBefore(top[j], top[i]) /\ ~TxBefore(top[k], top[j])
      BY <3>2, <1>5
    <3>4. ~TxBefore(top[k], top[i])
      BY <3>3, <1>7
    <3>5. CASE i < j /\ j < k
      <4>1. i < k
        BY <3>1, <3>5
      <4> QED
        BY <4>1, <3>4, <1>8
    <3>6. CASE ~(i < j /\ j < k)
      <4>1. TxBefore(top[i], top[j]) \/ TxBefore(top[j], top[k])
        BY <3>2, <3>6
      <4>2. CASE TxBefore(top[i], top[j])
        <5>1. TxBefore(top[i], top[k])
          BY <4>2, <3>3, <1>7
        <5> QED
          BY <5>1, <1>8
      <4>3. CASE TxBefore(top[j], top[k])
        <5>1. TxBefore(top[i], top[k])
          BY <4>3, <3>3, <1>7
        <5> QED
          BY <5>1, <1>8
      <4> QED
        BY <4>1, <4>2, <4>3
    <3> QED
      BY <3>5, <3>6
  <2> QED
    BY <2>1, <2>2, <2>3 DEF StrictOrder, D
<1>10. /\ o \in [D -> D] /\ \A i \in D : \E k \in D : o[k] = i
       /\ \A j, k \in D : j < k => <<o[j], o[k]>> \in R
  BY <1>1, <1>9, InOrderSorts DEF D
<1> HIDE DEF o
<1>11. 1 \in D /\ \A k \in D : k = 1 \/ 1 < k
  BY <1>1 DEF D
<1> DEFINE w == SortTxIDS(top)[1]
<1>12. w = top[o[1]] /\ o[1] \in D
  BY <1>2, <1>10, <1>11
<1>13. ASSUME NEW u \in T PROVE ~TxBefore(u, w)
  <2>1. PICK i \in D : top[i] = u
    BY <1>1 DEF D
  <2>2. PICK k \in D : o[k] = i
    BY <1>10
  <2>3. CASE k = 1
    BY <2>1, <2>2, <2>3, <1>4, <1>12
  <2>4. CASE 1 < k
    <3>1. <<o[1], i>> \in R
      BY <2>2, <2>4, <1>10, <1>11
    <3>2. TxBefore(top[o[1]], top[i]) \/ ~TxBefore(top[i], top[o[1]])
      BY <3>1, <1>8, <1>12
    <3> QED
      BY <3>2, <2>1, <1>5, <1>12
  <2> QED
    BY <2>3, <2>4, <1>11
<1> QED
  BY <1>1, <1>12, <1>13 DEF D

(* A fair refund f: who gets what he asked for, or more, gets none, and    *)
(* the payout and the refund are worth no more than the input, but for     *)
(* what the payout has beyond the request.                                 *)
FairRefund(f, amount, rate, peg, req, p) ==
  /\ f \in Nat /\ (p >= req => f = 0) /\ (p <= req => p * peg + f * rate <= amount * rate)
  /\ p > req => p * peg <= amount * rate + (p - req) * peg

(* A request for req, of which p is paid out.                              *)
PaidOut(amount, rate, peg, req, p) ==
  /\ amount \in Nat /\ rate \in Nat /\ peg \in Nat /\ rate > 0 /\ peg > 0 /\ req \in Nat /\ p \in Nat
  /\ Convert(amount, rate, peg).amount = req /\ ~Convert(amount, rate, peg).err

(* The refund is fair.                                                     *)
LEMMA RefundIs ==
  ASSUME NEW amount, NEW rate, NEW peg, NEW req, NEW p, PaidOut(amount, rate, peg, req, p)
  PROVE  FairRefund(Refund(amount, p, rate, peg), amount, rate, peg, req, p)
<1>0. /\ amount \in Nat /\ rate \in Nat /\ peg \in Nat /\ rate > 0 /\ peg > 0 /\ req \in Nat /\ p \in Nat
      /\ Convert(amount, rate, peg).amount = req /\ ~Convert(amount, rate, peg).err
  BY DEF PaidOut
<1> USE <1>0
<1> DEFINE f == Refund(amount, p, rate, peg)
           n == ((req - p) * peg) \div rate
<1>1. req = (amount * rate) \div peg
  BY DEF Convert
<1>2. req * peg <= amount * rate /\ amount * rate \in Nat /\ req * peg \in Nat
  BY <1>1
<1>3. f = Convert(req - p, peg, rate).amount
  BY DEF Refund
<1>4. f = IF req - p < 0 THEN 0 ELSE IF n > MaxInt64 THEN 0 ELSE n
  BY <1>3 DEF Convert
<1> HIDE DEF f
<1>5. p > req => f = 0 /\ p * peg = req * peg + (p - req) * peg
  BY <1>4
<1>6. ASSUME p <= req PROVE f \in Nat /\ (p = req => f = 0) /\ p * peg + f * rate <= amount * rate
  <2>1. req - p \in Nat /\ (req - p) * peg \in Nat /\ ~(req - p < 0)
    BY <1>6
  <2>2. n \in Nat /\ n * rate <= (req - p) * peg /\ (p = req => n = 0)
    <3>1. n \in Int /\ n * rate <= (req - p) * peg
      BY <2>1
    <3>2. n >= 0
      BY <2>1, Quotient
    <3>3. p = req => (req - p) * peg = 0
      OBVIOUS
    <3>4. 0 \div rate = 0
      OBVIOUS
    <3> QED
      BY <3>1, <3>2, <3>3, <3>4
  <2> HIDE DEF n
  <2>3. f = 0 \/ f = n
    BY <1>4
  <2>4. f \in Nat /\ (p = req => f = 0) /\ f * rate <= (req - p) * peg /\ f * rate \in Nat
    BY <2>1, <2>2, <2>3
  <2>5. p * peg + (req - p) * peg = req * peg /\ p * peg \in Nat
    OBVIOUS
  <2> QED
    BY <2>1, <2>4, <2>5, <1>2
<1>7. ASSUME p > req PROVE f = 0 /\ p * peg <= amount * rate + (p - req) * peg
  <2>1. (p - req) * peg \in Int
    OBVIOUS
  <2> QED
    BY <2>1, <1>2, <1>5, <1>7
<1>8. p > req \/ p <= req
  OBVIOUS
<1> QED
  BY <1>6, <1>7, <1>8 DEF f, FairRefund

(* A set of requests the program can have.                                 *)
SupplyOK(s) ==
  /\ IsFiniteSet(DOMAIN s.Requests) /\ DOMAIN s.Requests \subseteq Txids
  /\ s.Requests \in [DOMAIN s.Requests -> 0..MaxInt64] /\ s.Bank \in Nat

(* Some request asks for most.                                             *)
LEMMA TopIs ==
  ASSUME NEW s, SupplyOK(s), DOMAIN s.Requests # {}
  PROVE  /\ TopRequests(s) \subseteq DOMAIN s.Requests /\ TopRequests(s) \subseteq Txids
         /\ IsFiniteSet(TopRequests(s)) /\ TopRequests(s) # {}
<1> DEFINE D == DOMAIN s.Requests
           V == {s.Requests[t] : t \in D}
           T == TopRequests(s)
<1>1. IsFiniteSet(D) /\ D \subseteq Txids /\ D # {} /\ \A t \in D : s.Requests[t] \in 0..MaxInt64
  BY DEF SupplyOK
<1>2. T \subseteq D
  BY DEF TopRequests
<1>3. IsFiniteSet(T) /\ T \subseteq Txids
  <2> HIDE DEF T, D
  <2> QED
    BY <1>1, <1>2, FS_Subset
<1>4. V \subseteq 0..MaxInt64 /\ V # {} /\ MaxInt64 \in Nat
  BY <1>1, ConversionsAssumption
<1>5. PICK v \in V : \A u \in V : u <= v
  <2> HIDE DEF V
  <2> QED
    BY <1>4, GreatestNat
<1>6. PICK t \in D : s.Requests[t] = v
  BY <1>5
<1>7. \A u \in D : s.Requests[u] <= s.Requests[t]
  BY <1>5, <1>6
<1>8. t \in T
  BY <1>7 DEF TopRequests
<1> QED
  BY <1>2, <1>3, <1>8

(* What Payouts pays out.                                                  *)
LEMMA PayoutsIs ==
  ASSUME NEW s, SupplyOK(s), DOMAIN s.Requests # {}, NEW top \in SetToSeqs(TopRequests(s)),
         NEW w, w = SortTxIDS(top)[1], NEW r, r = s.Requests, NEW bank, bank = s.Bank
  PROVE  /\ Sum(r) < bank => Payouts(s, top) = r
         /\ ~(Sum(r) < bank) =>
              /\ Exhausts(r, bank) /\ w \in DOMAIN r
              /\ Payouts(s, top) \in [DOMAIN r -> Nat] /\ Sum(Payouts(s, top)) = bank
              /\ Payouts(s, top)[w] = Shares(r, bank)[w] + Dust(r, bank)
              /\ \A t \in DOMAIN r \ {w} : Payouts(s, top)[t] = Shares(r, bank)[t]
<1> DEFINE D == DOMAIN r
           P == Payouts(s, top)
           h == Shares(r, bank)
           d == Dust(r, bank)
<1>1. IsFiniteSet(D) /\ D # {} /\ r \in [D -> Nat] /\ bank \in Nat
  BY DEF SupplyOK
<1>2. Sum(r) \in Nat
  BY <1>1, SumOfNaturals
<1>3. Sum(r) < bank => P = r
  BY DEF Payouts, TotalRequested
<1>4. ~(Sum(r) < bank) => P = [h EXCEPT ![w] = @ + d]
  BY <1>1 DEF Payouts, TotalRequested, Shares, Dust
<1>5. w \in D
  BY TopIs, WinnerIs
<1> HIDE DEF P
<1>6. ASSUME ~(Sum(r) < bank)
      PROVE  Exhausts(r, bank) /\ P \in [D -> Nat] /\ Sum(P) = bank /\ P[w] = h[w] + d
             /\ \A t \in D \ {w} : P[t] = h[t]
  <2>1. Exhausts(r, bank)
    BY <1>1, <1>2, <1>6 DEF Exhausts
  <2>2. h \in [D -> Nat] /\ Sum(h) \in Nat /\ d \in 0..(Cardinality(D) - 1) /\ d = bank - Sum(h)
    BY <2>1, DustIs DEF Dust
  <2> HIDE DEF h, d, D
  <2>3. d \in Nat /\ h[w] \in Nat /\ \A t \in D : h[t] \in Nat
    BY <2>2, <1>5
  <2>4. P[w] = h[w] + d /\ \A t \in D \ {w} : P[t] = h[t]
    BY <1>4, <1>5, <1>6, <2>2
  <2>5. P \in [D -> Nat]
    BY <1>4, <1>6, <2>2, <2>3
  <2>6. P \in [D -> Int] /\ h \in [D -> Int]
    BY <2>2, <2>5
  <2>7. Sum(P) = Sum(h) + (P[w] - h[w])
    BY <2>4, <2>6, <1>1, <1>5, SumUpdate
  <2>8. Sum(P) = bank
    BY <2>2, <2>3, <2>4, <2>7, <1>1
  <2> QED
    BY <2>1, <2>4, <2>5, <2>8
<1> QED
  BY <1>3, <1>5, <1>6 DEF P

ConversionsInv ==
  /\ {"Bank", "Requests"} \subseteq DOMAIN supply /\ SupplyOK(supply)
  /\ pegRate \in Nat /\ pegRate > 0
  /\ DOMAIN inputs = DOMAIN supply.Requests
  /\ \A t \in DOMAIN supply.Requests :
       /\ inputs[t].amount \in Nat /\ inputs[t].rate \in Nat /\ inputs[t].rate > 0
       /\ Convert(inputs[t].amount, inputs[t].rate, pegRate).amount = supply.Requests[t]
       /\ ~Convert(inputs[t].amount, inputs[t].rate, pegRate).err
  /\ Settled =>
       /\ \E top \in SetToSeqs(TopRequests(supply)) : payouts = Payouts(supply, top)
       /\ refunds = [t \in DOMAIN payouts |->
                       Refund(inputs[t].amount, payouts[t], inputs[t].rate, pegRate)]

(* A conversion that does not fail is a number that fits, of a rate.       *)
LEMMA ConvertIs ==
  ASSUME NEW amount \in Nat, NEW rate \in Nat, NEW peg \in Nat, ~Convert(amount, rate, peg).err
  PROVE  rate > 0 /\ peg > 0 /\ Convert(amount, rate, peg).amount \in 0..MaxInt64
<1>1. ~(amount < 0 \/ rate = 0 \/ peg = 0)
  BY DEF Convert
<1> DEFINE n == (amount * rate) \div peg
<1>2. ~(n > MaxInt64) /\ Convert(amount, rate, peg).amount = n
  BY <1>1 DEF Convert
<1>3. amount * rate \in Nat /\ rate > 0 /\ peg > 0
  BY <1>1
<1>4. n \in Int /\ n >= 0
  BY <1>3, Quotient
<1> HIDE DEF n
<1> QED
  BY <1>2, <1>3, <1>4, ConversionsAssumption

(* Every step keeps what is known of a block's conversions.                *)
LEMMA ConversionsStep ==
  ASSUME ConversionsInv, [NextConversions]_conversionVars
  PROVE  ConversionsInv'
<1>1. ASSUME NEW t \in Txids, NEW amount \in Amounts, NEW rate \in Rates, AddConversion(t, amount, rate)
      PROVE  ConversionsInv'
  <2> DEFINE peg == Convert(amount, rate, pegRate)
             r == supply.Requests
             q == supply'.Requests
             D == DOMAIN r
  <2>1. /\ ~peg.err /\ t \notin D /\ ~Settled
        /\ supply' = [supply EXCEPT !.Requests = With(@, t, peg.amount)]
        /\ inputs' = With(inputs, t, [amount |-> amount, rate |-> rate])
        /\ pegRate' = pegRate /\ payouts' = payouts
    BY <1>1 DEF AddConversion
  <2>2. /\ {"Bank", "Requests"} \subseteq DOMAIN supply /\ IsFiniteSet(D) /\ D \subseteq Txids
        /\ r \in [D -> 0..MaxInt64] /\ supply.Bank \in Nat /\ pegRate \in Nat /\ pegRate > 0
        /\ DOMAIN inputs = D
    BY DEF ConversionsInv, SupplyOK
  <2>3. amount \in Nat /\ rate \in Nat
    BY ConversionsAssumption
  <2>4. rate > 0 /\ peg.amount \in 0..MaxInt64
    BY <2>1, <2>2, <2>3, ConvertIs
  <2>5. /\ DOMAIN supply' = DOMAIN supply /\ supply'.Bank = supply.Bank
        /\ q = With(r, t, peg.amount)
    BY <2>1, <2>2
  <2> HIDE DEF peg, r
  <2>6. /\ DOMAIN q = D \cup {t} /\ q[t] = peg.amount /\ \A u \in D : q[u] = r[u]
        /\ q \in [D \cup {t} -> 0..MaxInt64]
    BY <2>1, <2>2, <2>4, <2>5 DEF With
  <2>7. /\ DOMAIN inputs' = D \cup {t} /\ inputs'[t] = [amount |-> amount, rate |-> rate]
        /\ \A u \in D : inputs'[u] = inputs[u]
    BY <2>1, <2>2 DEF With
  <2> HIDE DEF q, D
  <2>8. SupplyOK(supply)'
    <3>1. IsFiniteSet(D \cup {t}) /\ D \cup {t} \subseteq Txids
      BY <2>2, FS_AddElement
    <3> QED
      BY <3>1, <2>2, <2>5, <2>6 DEF SupplyOK, q
  <2>9. ASSUME NEW u \in D \cup {t}
        PROVE  /\ inputs'[u].amount \in Nat /\ inputs'[u].rate \in Nat /\ inputs'[u].rate > 0
               /\ Convert(inputs'[u].amount, inputs'[u].rate, pegRate).amount = q[u]
               /\ ~Convert(inputs'[u].amount, inputs'[u].rate, pegRate).err
    <3>1. CASE u = t
      BY <3>1, <2>1, <2>3, <2>4, <2>6, <2>7 DEF peg
    <3>2. CASE u \in D
      BY <3>2, <2>6, <2>7 DEF ConversionsInv, D, r
    <3> QED
      BY <3>1, <3>2
  <2>10. ~Settled'
    BY <2>1 DEF Settled
  <2> QED
    BY <2>1, <2>2, <2>5, <2>6, <2>7, <2>8, <2>9, <2>10 DEF ConversionsInv, q
<1>2. CASE Settle
  <2>1. /\ \E top \in SetToSeqs(TopRequests(supply)) : payouts' = Payouts(supply, top)
        /\ refunds' = [t \in DOMAIN payouts' |->
                         Refund(inputs[t].amount, payouts'[t], inputs[t].rate, pegRate)]
        /\ UNCHANGED <<supply, inputs, pegRate>>
    BY <1>2 DEF Settle
  <2> QED
    BY <2>1 DEF ConversionsInv
<1>3. CASE (\E t \in Txids : RefuseConversion(t)) \/ UNCHANGED conversionVars
  <2>1. UNCHANGED <<supply, inputs, pegRate, payouts, refunds>>
    BY <1>3 DEF RefuseConversion, conversionVars
  <2>2. Settled' = Settled
    BY <2>1 DEF Settled
  <2> QED
    BY <2>1, <2>2 DEF ConversionsInv
<1> QED
  BY <1>1, <1>2, <1>3 DEF NextConversions

(* The lesser of two numbers.                                              *)
LEMMA LesserOfTwo ==
  ASSUME NEW a \in Int, NEW b \in Int
  PROVE  (a <= b => Min({a, b}) = a) /\ (b <= a => Min({a, b}) = b)
<1>1. \E x \in {a, b} : \A y \in {a, b} : x =< y
  OBVIOUS
<1>2. Min({a, b}) \in {a, b} /\ \A y \in {a, b} : Min({a, b}) =< y
  BY <1>1 DEF Min
<1>3. Min({a, b}) = a \/ Min({a, b}) = b
  BY <1>2
<1> QED
  BY <1>2, <1>3

(* A settled block had requests.                                           *)
LEMMA SettledBlock ==
  ASSUME ConversionsInv, Settled
  PROVE  /\ SupplyOK(supply) /\ DOMAIN supply.Requests # {} /\ DOMAIN payouts # {}
         /\ \E top \in SetToSeqs(TopRequests(supply)) : payouts = Payouts(supply, top)
<1>1. /\ SupplyOK(supply) /\ DOMAIN payouts # {}
      /\ \E top \in SetToSeqs(TopRequests(supply)) : payouts = Payouts(supply, top)
  BY DEF ConversionsInv, Settled
<1>2. DOMAIN supply.Requests # {}
  BY <1>1 DEF Payouts
<1> QED
  BY <1>1, <1>2

(* Fairness of a request's payout, and the requests it is denied.          *)
FairTo(t) ==
  LET owed == supply.Requests[t] * Min({supply.Bank, Sum(supply.Requests)})
  IN  payouts[t] * Sum(supply.Requests) <= owed /\ owed < (payouts[t] + 1) * Sum(supply.Requests)
Unfair == {t \in DOMAIN payouts : Sum(supply.Requests) > 0 /\ ~FairTo(t)}

(* The whole bank is paid out, and only the winner of the dust gets more   *)
(* than its proportion.                                                    *)
LEMMA BankIsShared ==
  ASSUME ConversionsInv, Settled
  PROVE  /\ Sum(payouts) = Min({supply.Bank, Sum(supply.Requests)})
         /\ Cardinality(Unfair) <= 1
         /\ \A t \in Unfair : payouts[t] * Sum(supply.Requests) > supply.Requests[t] * supply.Bank
<1>1. PICK top \in SetToSeqs(TopRequests(supply)) : payouts = Payouts(supply, top)
  BY SettledBlock
<1>2. PICK r, bank, w, P : r = supply.Requests /\ bank = supply.Bank /\ w = SortTxIDS(top)[1] /\ P = payouts
  OBVIOUS
<1>3. PICK total : total = Sum(r)
  OBVIOUS
<1>4. SupplyOK(supply) /\ DOMAIN r # {}
  BY <1>2, SettledBlock
<1>5. /\ total < bank => P = r
      /\ ~(total < bank) =>
           /\ Exhausts(r, bank) /\ w \in DOMAIN r
           /\ P \in [DOMAIN r -> Nat] /\ Sum(P) = bank
           /\ P[w] = Shares(r, bank)[w] + Dust(r, bank)
           /\ \A t \in DOMAIN r \ {w} : P[t] = Shares(r, bank)[t]
  BY <1>1, <1>2, <1>3, <1>4, PayoutsIs
<1>6. bank \in Nat /\ IsFiniteSet(DOMAIN r) /\ r \in [DOMAIN r -> Nat]
  BY <1>2, <1>4 DEF SupplyOK
<1>7. total \in Nat
  BY <1>3, <1>6, SumOfNaturals
<1>8. (bank <= total => Min({bank, total}) = bank) /\ (total <= bank => Min({bank, total}) = total)
  BY <1>6, <1>7, LesserOfTwo
<1>9. \A t \in DOMAIN P :
        FairTo(t) <=> P[t] * total <= r[t] * Min({bank, total}) /\ r[t] * Min({bank, total}) < (P[t] + 1) * total
  BY <1>2, <1>3 DEF FairTo
<1>10. Unfair = {t \in DOMAIN P : total > 0 /\ ~FairTo(t)}
  BY <1>2, <1>3 DEF Unfair
<1>11. SUFFICES /\ Sum(P) = Min({bank, total})
                /\ Cardinality(Unfair) <= 1
                /\ \A t \in Unfair : P[t] * total > r[t] * bank
  BY <1>2, <1>3
<1>12. CASE total < bank
  <2>1. P = r /\ Min({bank, total}) = total
    BY <1>5, <1>6, <1>7, <1>8, <1>12
  <2>2. ASSUME NEW t \in DOMAIN P, total > 0 PROVE FairTo(t)
    <3>1. P[t] \in Nat /\ P[t] = r[t]
      BY <2>1, <1>6
    <3>2. P[t] * total < (P[t] + 1) * total /\ P[t] * total \in Nat
      BY <3>1, <2>2, <1>7
    <3>3. r[t] * Min({bank, total}) = P[t] * total
      BY <3>1, <2>1
    <3>4. P[t] * total <= r[t] * Min({bank, total}) /\ r[t] * Min({bank, total}) < (P[t] + 1) * total
      <4> DEFINE a == P[t] * total
                 b == r[t] * Min({bank, total})
                 c == (P[t] + 1) * total
      <4>1. a = b /\ a < c /\ a \in Nat
        BY <3>2, <3>3
      <4> HIDE DEF a, b, c
      <4>2. a <= b /\ b < c
        BY <4>1
      <4> QED
        BY <4>2 DEF a, b, c
    <3> QED
      BY <3>4, <1>9
  <2>3. Unfair = {}
    BY <2>2, <1>10
  <2> QED
    BY <2>1, <2>3, <1>3, FS_EmptySet
<1>13. CASE ~(total < bank)
  <2>1. /\ Exhausts(r, bank) /\ w \in DOMAIN r /\ P \in [DOMAIN r -> Nat] /\ Sum(P) = bank
        /\ P[w] = Shares(r, bank)[w] + Dust(r, bank)
        /\ \A t \in DOMAIN r \ {w} : P[t] = Shares(r, bank)[t]
        /\ Min({bank, total}) = bank
    BY <1>5, <1>6, <1>7, <1>8, <1>13
  <2> DEFINE h == Shares(r, bank)
             d == Dust(r, bank)
  <2>2. /\ h \in [DOMAIN r -> Nat] /\ d \in Int /\ d >= 0
        /\ \A t \in DOMAIN r : total > 0 => h[t] * total <= r[t] * bank /\ r[t] * bank < (h[t] + 1) * total
    <3>1. d \in 0..(Cardinality(DOMAIN r) - 1) /\ Cardinality(DOMAIN r) \in Nat
      BY <2>1, <1>6, DustIs, FS_CardinalityType
    <3> QED
      BY <3>1, <2>1, <1>3, DustIs
  <2> HIDE DEF h, d
  <2>3. ASSUME NEW t \in DOMAIN r \ {w}, total > 0 PROVE FairTo(t)
    <3>1. P[t] = h[t] /\ t \in DOMAIN P /\ t \in DOMAIN r
      BY <2>1, <2>3 DEF h
    <3>2. h[t] * total <= r[t] * bank /\ r[t] * bank < (h[t] + 1) * total
      BY <3>1, <2>2, <2>3
    <3> QED
      BY <3>1, <3>2, <2>1, <1>9
  <2>4. Unfair \subseteq {w} /\ DOMAIN P = DOMAIN r
    BY <2>1, <2>3, <1>10
  <2>5. Cardinality(Unfair) <= 1
    <3>1. IsFiniteSet({w}) /\ Cardinality({w}) = 1
      BY FS_Singleton
    <3> QED
      BY <3>1, <2>4, FS_Subset
  <2>6. ASSUME NEW t \in Unfair PROVE P[t] * total > r[t] * bank
    <3>1. t = w /\ total > 0 /\ ~FairTo(t) /\ t \in DOMAIN P /\ t \in DOMAIN r
      BY <2>4, <2>6, <1>10
    <3>2. P[t] = h[t] + d /\ h[t] \in Nat /\ r[t] \in Nat
      BY <3>1, <2>1, <2>2, <1>6 DEF h, d
    <3>3. r[t] * bank < (h[t] + 1) * total
      BY <3>1, <2>2
    <3>4. (h[t] + 1) * total <= (P[t] + 1) * total
      <4>1. h[t] + 1 <= P[t] + 1 /\ h[t] + 1 \in Int /\ P[t] + 1 \in Int
        BY <3>2, <2>2
      <4> QED
        BY <4>1, <1>7
    <3>5. /\ r[t] * bank \in Int /\ (h[t] + 1) * total \in Int /\ (P[t] + 1) * total \in Int
          /\ P[t] * total \in Int
      BY <3>2, <2>2, <1>6, <1>7
    <3>6. r[t] * bank < (P[t] + 1) * total
      BY <3>3, <3>4, <3>5
    <3>7. ~(P[t] * total <= r[t] * bank)
      BY <3>1, <3>6, <2>1, <1>9
    <3> QED
      BY <3>5, <3>7
  <2> QED
    BY <2>1, <2>5, <2>6
<1> QED
  BY <1>12, <1>13

(* If the top requests can be told apart, the order of the walk does not   *)
(* matter.                                                                 *)
LEMMA OrderDoesNotMatter ==
  ASSUME ConversionsInv, Settled,
         \A s, t \in DOMAIN supply.Requests :
           s # t => ~SplitTxID(s).err /\ SplitTxID(s) # SplitTxID(t),
         NEW top \in SetToSeqs(TopRequests(supply))
  PROVE  Payouts(supply, top) = payouts
<1>1. PICK own \in SetToSeqs(TopRequests(supply)) : payouts = Payouts(supply, own)
  BY SettledBlock
<1> DEFINE D == DOMAIN supply.Requests
           T == TopRequests(supply)
           v == SortTxIDS(own)[1]
           w == SortTxIDS(top)[1]
<1>2. T \subseteq D /\ T \subseteq Txids /\ IsFiniteSet(T) /\ T # {}
  BY SettledBlock, TopIs
<1> HIDE DEF T, D
<1>3. v \in T /\ \A u \in T : ~TxBefore(u, v)
  BY <1>1, <1>2, WinnerIs DEF T
<1>4. w \in T /\ \A u \in T : ~TxBefore(u, w)
  BY <1>2, WinnerIs DEF T
<1> HIDE DEF v, w
<1>5. v \in D /\ w \in D /\ v \in Txids /\ w \in Txids /\ ~TxBefore(v, w) /\ ~TxBefore(w, v)
  BY <1>2, <1>3, <1>4
<1>6. SplitTxID(v).hash = SplitTxID(w).hash /\ SplitTxID(v).index = SplitTxID(w).index
  BY <1>5, KeyType DEF TxBefore
<1>7. ASSUME v # w PROVE FALSE
  <2>1. ~SplitTxID(v).err /\ ~SplitTxID(w).err /\ SplitTxID(v) # SplitTxID(w)
    BY <1>5, <1>7 DEF D
  <2>2. /\ SplitTxID(v) = [index |-> v.index, hash |-> v.hash, err |-> FALSE]
        /\ SplitTxID(w) = [index |-> w.index, hash |-> w.hash, err |-> FALSE]
    BY <2>1 DEF SplitTxID, NotATxID
  <2>3. v.index = w.index /\ v.hash = w.hash
    BY <2>2, <1>6
  <2>4. SplitTxID(v) = SplitTxID(w)
    BY <2>2, <2>3
  <2> QED
    BY <2>1, <2>4
<1>8. SortTxIDS(own)[1] = SortTxIDS(top)[1]
  BY <1>7 DEF v, w
<1> QED
  BY <1>1, <1>8 DEF Payouts

(* A block starts without requests.                                        *)
LEMMA ConversionsStart ==
  ASSUME InitConversions
  PROVE  ConversionsInv
<1>1. PICK bank \in Banks : supply = [Bank |-> bank, Requests |-> [t \in {} |-> 0]]
  BY DEF InitConversions, NewConversionSupply
<1>2. inputs = [t \in {} |-> 0] /\ pegRate \in PegRates /\ payouts = [t \in {} |-> 0]
  BY DEF InitConversions
<1>3. supply.Bank \in Nat /\ pegRate \in Nat /\ pegRate > 0 /\ DOMAIN supply.Requests = {}
  BY <1>1, <1>2, ConversionsAssumption
<1>4. SupplyOK(supply)
  BY <1>1, <1>3, FS_EmptySet DEF SupplyOK
<1>5. ~Settled
  BY <1>2 DEF Settled
<1> QED
  BY <1>1, <1>2, <1>3, <1>4, <1>5 DEF ConversionsInv

(* The bank is spent to the last unit and never beyond, everyone but the   *)
(* winner of the dust gets its proportion rounded down, and no node pays   *)
(* out otherwise for walking its map in another order (Payouts).           *)
THEOREM BankSpent == ConversionsSpec => []PayoutsSpendTheBank
<1>1. InitConversions => ConversionsInv
  BY ConversionsStart
<1>2. ConversionsInv /\ [NextConversions]_conversionVars => ConversionsInv'
  BY ConversionsStep
<1>3. ConversionsInv => PayoutsSpendTheBank
  <2> SUFFICES ASSUME ConversionsInv, Settled PROVE PayoutsSpendTheBank
    BY DEF PayoutsSpendTheBank
  <2>1. /\ Sum(payouts) = Min({supply.Bank, Sum(supply.Requests)})
        /\ Cardinality(Unfair) <= 1
        /\ \A t \in Unfair : payouts[t] * Sum(supply.Requests) > supply.Requests[t] * supply.Bank
    BY BankIsShared
  <2>2. (\A s, t \in DOMAIN supply.Requests :
           s # t => ~SplitTxID(s).err /\ SplitTxID(s) # SplitTxID(t)) =>
          \A top \in SetToSeqs(TopRequests(supply)) : Payouts(supply, top) = payouts
    BY OrderDoesNotMatter
  <2> QED
    BY <2>1, <2>2 DEF PayoutsSpendTheBank, TotalRequested, Unfair, FairTo
<1> QED
  BY <1>1, <1>2, <1>3, PTL DEF ConversionsSpec

(* Who gets at most what it asked for gains nothing, and who gets more     *)
(* gains no more than what it gets beyond its request.                     *)
LEMMA GainOfOne ==
  ASSUME ConversionsInv, Settled, NEW t \in DOMAIN supply.Requests, payouts[t] \in Nat,
         t \in DOMAIN payouts
  PROVE  /\ refunds[t] \in Nat /\ (payouts[t] >= supply.Requests[t] => refunds[t] = 0)
         /\ inputs[t].amount * inputs[t].rate \in Nat
         /\ payouts[t] * pegRate + refunds[t] * inputs[t].rate \in Nat
         /\ payouts[t] <= supply.Requests[t] =>
              payouts[t] * pegRate + refunds[t] * inputs[t].rate <= inputs[t].amount * inputs[t].rate
         /\ payouts[t] > supply.Requests[t] =>
              payouts[t] * pegRate + refunds[t] * inputs[t].rate
                <= inputs[t].amount * inputs[t].rate + (payouts[t] - supply.Requests[t]) * pegRate
<1>1. PICK amount \in Nat, rate \in Nat, peg \in Nat, req \in Nat, p \in Nat :
        /\ amount = inputs[t].amount /\ rate = inputs[t].rate /\ peg = pegRate
        /\ req = supply.Requests[t] /\ p = payouts[t]
  <2>1. supply.Requests[t] \in Nat
    BY DEF ConversionsInv, SupplyOK
  <2> QED
    BY <2>1 DEF ConversionsInv
<1>2. /\ rate > 0 /\ peg > 0 /\ Convert(amount, rate, peg).amount = req /\ ~Convert(amount, rate, peg).err
      /\ refunds[t] = Refund(amount, p, rate, peg)
  BY <1>1 DEF ConversionsInv
<1>3. PICK f : f = refunds[t]
  OBVIOUS
<1>4. /\ f \in Nat /\ (p >= req => f = 0) /\ (p <= req => p * peg + f * rate <= amount * rate)
      /\ p > req => p * peg <= amount * rate + (p - req) * peg
  <2>1. PaidOut(amount, rate, peg, req, p)
    BY <1>2 DEF PaidOut
  <2>2. FairRefund(f, amount, rate, peg, req, p)
    BY <2>1, <1>2, <1>3, RefundIs
  <2> QED
    BY <2>2 DEF FairRefund
<1>5. amount * rate \in Nat /\ p * peg + f * rate \in Nat
  BY <1>4
<1>6. p > req => p * peg + f * rate <= amount * rate + (p - req) * peg
  <2> SUFFICES ASSUME p > req PROVE p * peg + f * rate <= amount * rate + (p - req) * peg
    OBVIOUS
  <2>1. f = 0 /\ p * peg <= amount * rate + (p - req) * peg /\ p * peg \in Nat
    BY <1>4
  <2>2. p * peg + f * rate = p * peg
    BY <2>1
  <2> QED
    BY <2>1, <2>2
<1> QED
  BY <1>1, <1>3, <1>4, <1>5, <1>6

(* All payouts are numbers, and one request at most gets more than it      *)
(* asked for: fewer units more than there are requests.                    *)
LEMMA DustIsSmall ==
  ASSUME ConversionsInv, Settled
  PROVE  /\ DOMAIN payouts = DOMAIN supply.Requests /\ Cardinality(DOMAIN payouts) \in Nat \ {0}
         /\ \A t \in DOMAIN payouts : payouts[t] \in Nat /\ supply.Requests[t] \in Nat
         /\ \E w \in DOMAIN payouts :
              /\ payouts[w] - supply.Requests[w] <= Cardinality(DOMAIN payouts) - 1
              /\ \A t \in DOMAIN payouts \ {w} : payouts[t] <= supply.Requests[t]
<1>1. PICK top \in SetToSeqs(TopRequests(supply)) : payouts = Payouts(supply, top)
  BY SettledBlock
<1>2. PICK r, bank, w, P : r = supply.Requests /\ bank = supply.Bank /\ w = SortTxIDS(top)[1] /\ P = payouts
  OBVIOUS
<1>3. SupplyOK(supply) /\ DOMAIN r # {}
  BY <1>2, SettledBlock
<1>4. /\ Sum(r) < bank => P = r
      /\ ~(Sum(r) < bank) =>
           /\ Exhausts(r, bank) /\ w \in DOMAIN r
           /\ P \in [DOMAIN r -> Nat]
           /\ P[w] = Shares(r, bank)[w] + Dust(r, bank)
           /\ \A t \in DOMAIN r \ {w} : P[t] = Shares(r, bank)[t]
  BY <1>1, <1>2, <1>3, PayoutsIs
<1>5. IsFiniteSet(DOMAIN r) /\ r \in [DOMAIN r -> Nat]
  BY <1>2, <1>3 DEF SupplyOK
<1> DEFINE n == Cardinality(DOMAIN r)
<1>6. n \in Nat /\ n # 0
  BY <1>3, <1>5, FS_CardinalityType, FS_EmptySet
<1> HIDE DEF n
<1>7. SUFFICES /\ P \in [DOMAIN r -> Nat]
               /\ \E x \in DOMAIN r : P[x] - r[x] <= n - 1 /\ \A t \in DOMAIN r \ {x} : P[t] <= r[t]
  BY <1>2, <1>5, <1>6 DEF n
<1>8. CASE Sum(r) < bank
  <2>1. P = r /\ \A t \in DOMAIN r : r[t] \in Nat /\ P[t] = r[t]
    BY <1>4, <1>5, <1>8
  <2>2. PICK x \in DOMAIN r : TRUE
    BY <1>3
  <2>3. P[x] - r[x] <= n - 1 /\ \A t \in DOMAIN r \ {x} : P[t] <= r[t]
    BY <2>1, <2>2, <1>6
  <2> QED
    BY <2>1, <2>3, <1>5
<1>9. CASE ~(Sum(r) < bank)
  <2> DEFINE h == Shares(r, bank)
             d == Dust(r, bank)
  <2>1. /\ Exhausts(r, bank) /\ w \in DOMAIN r /\ P \in [DOMAIN r -> Nat] /\ P[w] = h[w] + d
        /\ \A t \in DOMAIN r \ {w} : P[t] = h[t]
    BY <1>4, <1>9
  <2>2. h \in [DOMAIN r -> Nat] /\ d \in 0..(n - 1) /\ \A t \in DOMAIN r : h[t] <= r[t]
    BY <2>1, DustIs DEF n
  <2> HIDE DEF h, d
  <2>3. h[w] \in Nat /\ r[w] \in Nat /\ h[w] <= r[w] /\ d \in Int /\ d <= n - 1
    BY <2>1, <2>2, <1>5, <1>6
  <2>4. P[w] - r[w] <= n - 1
    BY <2>1, <2>3, <1>6
  <2>5. \A t \in DOMAIN r \ {w} : P[t] <= r[t]
    BY <2>1, <2>2
  <2> QED
    BY <2>1, <2>4, <2>5
<1> QED
  BY <1>8, <1>9

(* Converting and refunding a block creates no value beyond the dust, and  *)
(* who gets all the PEG of its input gets no refund (Refund).              *)
THEOREM NoValueCreated == ConversionsSpec => []ConversionsCreateNoValue
<1>1. InitConversions => ConversionsInv
  BY ConversionsStart
<1>2. ConversionsInv /\ [NextConversions]_conversionVars => ConversionsInv'
  BY ConversionsStep
<1>3. ConversionsInv => ConversionsCreateNoValue
  <2> SUFFICES ASSUME ConversionsInv, Settled PROVE ConversionsCreateNoValue
    BY DEF ConversionsCreateNoValue
  <2> DEFINE D == DOMAIN payouts
             n == Cardinality(D)
             out == [t \in D |-> payouts[t] * pegRate + refunds[t] * inputs[t].rate]
             in == [t \in D |-> inputs[t].amount * inputs[t].rate]
  <2>1. /\ D = DOMAIN supply.Requests /\ n \in Nat \ {0}
        /\ \A t \in D : payouts[t] \in Nat /\ supply.Requests[t] \in Nat
    BY DustIsSmall
  <2>2. PICK w \in D : /\ payouts[w] - supply.Requests[w] <= n - 1
                       /\ \A t \in D \ {w} : payouts[t] <= supply.Requests[t]
    BY DustIsSmall
  <2>3. IsFiniteSet(D) /\ pegRate \in Nat
    BY <2>1 DEF ConversionsInv, SupplyOK
  <2>4. \A t \in D :
          /\ payouts[t] >= supply.Requests[t] => refunds[t] = 0
          /\ out[t] \in Nat /\ in[t] \in Nat
          /\ payouts[t] <= supply.Requests[t] => out[t] <= in[t]
          /\ payouts[t] > supply.Requests[t] => out[t] <= in[t] + (payouts[t] - supply.Requests[t]) * pegRate
    BY <2>1, GainOfOne
  <2>5. DOMAIN out = D /\ DOMAIN in = D /\ out \in [D -> Int] /\ in \in [D -> Int]
    <3>1. DOMAIN out = D /\ DOMAIN in = D /\ out = [t \in D |-> out[t]] /\ in = [t \in D |-> in[t]]
      OBVIOUS
    <3> HIDE DEF out, in, D
    <3> QED
      BY <3>1, <2>4
  <2> HIDE DEF out, in, D, n
  <2> DEFINE g == (n - 1) * pegRate
             raised == [t \in D |-> IF t = w THEN in[t] + g ELSE in[t]]
  <2>6. g \in Nat
    BY <2>1, <2>3
  <2>7. out[w] <= in[w] + g
    <3> DEFINE e == payouts[w] - supply.Requests[w]
    <3>1. out[w] \in Nat /\ in[w] \in Nat /\ e \in Int /\ e <= n - 1 /\ n - 1 \in Nat
      BY <2>1, <2>2, <2>4
    <3>2. CASE e <= 0
      <4>1. payouts[w] <= supply.Requests[w]
        BY <3>2, <2>1
      <4>2. out[w] <= in[w]
        BY <4>1, <2>4
      <4> QED
        BY <4>2, <3>1, <2>6
    <3>3. CASE e > 0
      <4>1. payouts[w] > supply.Requests[w]
        BY <3>3, <2>1
      <4>2. out[w] <= in[w] + e * pegRate
        BY <4>1, <2>4
      <4> HIDE DEF e
      <4>3. e * pegRate <= g /\ e * pegRate \in Int
        BY <3>1, <2>3
      <4> QED
        BY <4>2, <4>3, <3>1, <2>6
    <3> QED
      BY <3>1, <3>2, <3>3
  <2> HIDE DEF g
  <2>8. raised \in [D -> Int] /\ raised[w] = in[w] + g /\ \A t \in D \ {w} : raised[t] = in[t]
    BY <2>4, <2>6
  <2> HIDE DEF raised
  <2>9. \A t \in D : 1 * out[t] <= 1 * raised[t] + 0
    <3> SUFFICES ASSUME NEW t \in D PROVE 1 * out[t] <= 1 * raised[t] + 0
      OBVIOUS
    <3>1. out[t] \in Nat /\ raised[t] \in Int
      BY <2>4, <2>8
    <3>2. out[t] <= raised[t]
      BY <2>2, <2>4, <2>7, <2>8
    <3> QED
      BY <3>1, <3>2
  <2>10. Sum(out) <= Sum(raised)
    <3>1. AtMost(1, out, 1, raised, 0) /\ DOMAIN raised = D
      BY <2>3, <2>5, <2>8, <2>9 DEF AtMost
    <3>2. 1 * Sum(out) <= 1 * Sum(raised) + 0 * n
      BY <3>1, SumBound DEF n
    <3>3. Sum(out) \in Int /\ Sum(raised) \in Int
      BY <2>3, <2>5, <2>8, SumType
    <3> QED
      BY <3>2, <3>3, <2>1
  <2>11. Sum(raised) = Sum(in) + (raised[w] - in[w])
    BY <2>3, <2>5, <2>8, SumUpdate
  <2>12. raised[w] - in[w] = g
    BY <2>4, <2>6, <2>8
  <2>13. Sum(out) <= Sum(in) + (n - 1) * pegRate
    BY <2>10, <2>11, <2>12 DEF g
  <2>14. \A t \in D : payouts[t] >= supply.Requests[t] => refunds[t] = 0
    BY <2>4
  <2> QED
    BY <2>13, <2>14 DEF ConversionsCreateNoValue, out, in, n, D
<1> QED
  BY <1>1, <1>2, <1>3, PTL DEF ConversionsSpec

-----------------------------------------------------------------------------
(***************************************************************************)
(* Prices. Whatever names and direction a service quotes in, and whatever  *)
(* it leaves out or has at zero, FetchPegPrices reads numbers.             *)
(***************************************************************************)
Numbers(f) == \A a \in DOMAIN f : f[a] \in Nat

(* Prices of some assets, of which RateUnit is a multiple.                 *)
Priceable(prices) ==
  /\ DOMAIN prices \subseteq AllAssets /\ Numbers(prices)
  /\ \A a \in DOMAIN prices : prices[a] # 0 => RateUnit % prices[a] = 0

(* Names that differ tell the assets apart: what is listed are prices, and *)
(* rates that are not zero.                                                *)
LEMMA NamedApart ==
  ASSUME NEW names, \A a, b \in DOMAIN names : names[a] = names[b] => a = b,
         NEW prices, Priceable(prices)
  PROVE  /\ \A n \in Listed(names, prices) : AssetNamed(names, n) \in DOMAIN prices
         /\ DOMAIN World(names, prices) = Listed(names, prices)
         /\ Numbers(World(names, prices))
         /\ \A n \in DOMAIN WorldRates(names, prices) : WorldRates(names, prices)[n] \in Nat \ {0}
<1>1. ASSUME NEW n \in Listed(names, prices) PROVE AssetNamed(names, n) \in DOMAIN prices
  <2>1. PICK a \in DOMAIN names \cap DOMAIN prices : names[a] = n
    BY DEF Listed
  <2>2. AssetNamed(names, n) = a
    BY <2>1 DEF AssetNamed
  <2> QED
    BY <2>1, <2>2
<1>2. DOMAIN World(names, prices) = Listed(names, prices) /\ Numbers(World(names, prices))
  BY <1>1 DEF World, Numbers, Priceable
<1>3. ASSUME NEW n \in Listed(names, prices), prices[AssetNamed(names, n)] # 0
      PROVE  PerDollar(prices[AssetNamed(names, n)]) \in Nat \ {0}
  <2>1. PICK v \in Nat, u \in Nat : v = prices[AssetNamed(names, n)] /\ u = RateUnit /\ u > 0 /\ v > 0 /\ u % v = 0
    BY <1>1, <1>3, PollingAssumption DEF Priceable, Numbers
  <2>2. u = v * (u \div v) + (u % v) /\ u \div v \in Nat
    BY <2>1
  <2>3. u \div v # 0
    BY <2>1, <2>2
  <2> QED
    BY <2>1, <2>2, <2>3 DEF PerDollar
<1> QED
  BY <1>1, <1>2, <1>3 DEF WorldRates

(* The price of a rate.                                                    *)
LEMMA PriceOfRate ==
  ASSUME NEW v \in Nat \ {0}
  PROVE  PerDollar(v) \in Nat
BY PollingAssumption DEF PerDollar

(* The assets, one by one.                                                 *)
LEMMA TheAssets ==
  /\ AllAssets = {"PEG", "USD", "EUR", "XAU", "XAG", "XBT", "FCT", "AUD", "EOS", "AED", "NEO", "CRO"}
  /\ KitcoPegs = {"XAU", "XAG"}
BY DEF AllAssets, PEGAsset, CurrencyAssets, CommodityAssets, CryptoAssets, V4CurrencyAdditions,
   V4CryptoAdditions, V5CurrencyAdditions, V5CryptoAdditions, KitcoPegs

(* The names the world has for coins and metals.                           *)
LEMMA TheNames ==
  /\ \A a, b \in DOMAIN WorldName : WorldName[a] = WorldName[b] => a = b
  /\ \A a, b \in DOMAIN WorldNumber : WorldNumber[a] = WorldNumber[b] => a = b
  /\ DOMAIN WorldMetal = {"XAU", "XAG"} /\ WorldMetal["XAU"] = "Gold" /\ WorldMetal["XAG"] = "Silver"
<1>1. /\ DOMAIN WorldName = {"PEG", "XBT", "FCT", "EOS", "NEO", "CRO"}
      /\ DOMAIN WorldNumber = {"PEG", "XBT", "FCT", "EOS", "NEO", "CRO"}
      /\ WorldName["PEG"] = "pegnet" /\ WorldName["XBT"] = "bitcoin" /\ WorldName["FCT"] = "factom"
      /\ WorldName["EOS"] = "eos" /\ WorldName["NEO"] = "neo" /\ WorldName["CRO"] = "crypto-com-chain"
      /\ WorldNumber["PEG"] = 4979 /\ WorldNumber["XBT"] = 1 /\ WorldNumber["FCT"] = 1087
      /\ WorldNumber["EOS"] = 1765 /\ WorldNumber["NEO"] = 1376 /\ WorldNumber["CRO"] = 3635
  BY DEF WorldName, WorldNumber
<1>2. \A a, b \in DOMAIN WorldName : WorldName[a] = WorldName[b] => a = b
  BY <1>1
<1>3. \A a, b \in DOMAIN WorldNumber : WorldNumber[a] = WorldNumber[b] => a = b
  BY <1>1
<1>4. DOMAIN WorldMetal = {"XAU", "XAG"} /\ WorldMetal["XAU"] = "Gold" /\ WorldMetal["XAG"] = "Silver"
  BY DEF WorldMetal
<1> QED
  BY <1>2, <1>3, <1>4

(* The tickers and the pairs differ as well.                               *)
LEMMA TheTickers ==
  /\ \A a, b \in DOMAIN WorldTicker : WorldTicker[a] = WorldTicker[b] => a = b
  /\ \A a, b \in DOMAIN WorldPairs : WorldPairs[a] = WorldPairs[b] => a = b
<1>1. "BTC" \notin AllAssets
  BY TheAssets
<1>2. /\ DOMAIN WorldTicker = AllAssets
      /\ \A a \in AllAssets : WorldTicker[a] = IF a = "XBT" THEN "BTC" ELSE a
  BY DEF WorldTicker
<1>3. DOMAIN WorldPairs = AllAssets /\ \A a \in AllAssets : WorldPairs[a] = <<"USD", a>>
  BY DEF WorldPairs
<1> QED
  BY <1>1, <1>2, <1>3

(* The services that list pairs and rates.                                 *)
LEMMA RatesFetched ==
  ASSUME NEW prices, Priceable(prices)
  PROVE  /\ Numbers(APILayerPrices(CallAPILayer(prices)))
         /\ Numbers(ExchangeRatesPrices(CallExchangeRatesAPI(prices)))
         /\ Numbers(OpenExchangeRatesPrices(CallOpenExchangeRates(prices)))
         /\ Numbers(FreeForexPrices(CallFreeForexAPI(prices)))
<1> DEFINE pairs == WorldRates(WorldPairs, prices)
           rates == WorldRates(WorldTicker, prices)
<1>1. /\ \A n \in DOMAIN pairs : pairs[n] \in Nat \ {0}
      /\ \A n \in DOMAIN rates : rates[n] \in Nat \ {0}
  BY TheTickers, NamedApart
<1> HIDE DEF pairs, rates
<1>2. /\ \A n \in DOMAIN pairs : PerDollar(pairs[n]) \in Nat
      /\ \A n \in DOMAIN rates : PerDollar(rates[n]) \in Nat
  BY <1>1, PriceOfRate
<1>3. Numbers(APILayerPrices(pairs))
  BY <1>2 DEF APILayerPrices, Numbers
<1>4. Numbers(ExchangeRatesPrices(rates))
  BY <1>2 DEF ExchangeRatesPrices, Numbers
<1>5. Numbers(OpenExchangeRatesPrices(rates))
  <2> DEFINE name(a) == IF a = "XBT" /\ "BTC" \in DOMAIN rates THEN "BTC" ELSE a
  <2>1. OpenExchangeRatesPrices(rates)
          = [a \in {a \in OpenExchangeRatesPegs : name(a) \in DOMAIN rates} |-> PerDollar(rates[name(a)])]
    BY DEF OpenExchangeRatesPrices
  <2> HIDE DEF name
  <2> QED
    BY <2>1, <1>2 DEF Numbers
<1>6. Numbers(FreeForexPrices(CallFreeForexAPI(prices)))
  <2> DEFINE got == CallFreeForexAPI(prices)
  <2>1. \A n \in DOMAIN got : n \in DOMAIN pairs /\ got[n] = pairs[n]
    BY DEF CallFreeForexAPI, pairs, Only, Restrict
  <2> HIDE DEF got
  <2>2. Numbers(FreeForexPrices(got))
    BY <2>1, <1>2 DEF FreeForexPrices, Numbers
  <2> QED
    BY <2>2 DEF got
<1> QED
  BY <1>3, <1>4, <1>5, <1>6 DEF CallAPILayer, CallExchangeRatesAPI, CallOpenExchangeRates, pairs, rates

(* The services that list prices.                                          *)
LEMMA ListsFetched ==
  ASSUME NEW prices, Priceable(prices)
  PROVE  /\ Numbers(OneForgePrices(Call1Forge(prices)))
         /\ KitcoAnswers(prices) => Numbers(KitcoPrices(CallKitcoWeb(prices)))
         /\ Numbers(CoinGeckoPrices(CallCoinGecko(prices)))
         /\ Numbers(AlternativeMePrices(CallAlternativeMe(prices)))
         /\ Numbers(PegnetMarketCapPrices(CallPegnetMarketCap(prices)))
         /\ Numbers(FactoshiioPrices(CallFactoshiio(prices)))
         /\ Numbers(FixedUSDPrices)
<1>1. Numbers(prices)
  BY DEF Priceable
<1>2. Numbers(OneForgePrices(Call1Forge(prices)))
  <2> DEFINE names == [a \in AllAssets |-> <<WorldTicker[a], "USD">>]
             got == Call1Forge(prices)
  <2>1. \A a, b \in AllAssets : WorldTicker[a] = WorldTicker[b] => a = b
    BY TheTickers DEF WorldTicker
  <2>2. DOMAIN names = AllAssets /\ \A a, b \in AllAssets : names[a] = names[b] => a = b
    BY <2>1
  <2>3. \A n \in DOMAIN got : got[n] = World(names, prices)[n] /\ n \in DOMAIN World(names, prices)
    BY DEF Call1Forge, Only, Restrict
  <2> HIDE DEF got, names
  <2>4. Numbers(World(names, prices))
    BY <2>2, NamedApart
  <2>5. Numbers(OneForgePrices(got))
    BY <2>3, <2>4 DEF OneForgePrices, Numbers
  <2> QED
    BY <2>5 DEF got
<1>3. ASSUME KitcoAnswers(prices) PROVE Numbers(KitcoPrices(CallKitcoWeb(prices)))
  <2> DEFINE page == World(WorldMetal, prices)
  <2>1. "XAU" \in DOMAIN prices /\ "XAG" \in DOMAIN prices
    BY <1>3, TheAssets DEF KitcoAnswers
  <2>2. "Gold" \in Listed(WorldMetal, prices) /\ "Silver" \in Listed(WorldMetal, prices)
    BY <2>1, TheNames DEF Listed
  <2>3. \A a, b \in DOMAIN WorldMetal : WorldMetal[a] = WorldMetal[b] => a = b
    BY TheNames
  <2>4. DOMAIN page = Listed(WorldMetal, prices) /\ Numbers(page)
    BY <2>3, NamedApart
  <2>5. page["Gold"] \in Nat /\ page["Silver"] \in Nat
    BY <2>2, <2>4 DEF Numbers
  <2>6. KitcoPrices(CallKitcoWeb(prices)) = [XAG |-> page["Silver"], XAU |-> page["Gold"]]
    BY DEF KitcoPrices, CallKitcoWeb, ParseKitco
  <2> HIDE DEF page
  <2> QED
    BY <2>5, <2>6 DEF Numbers
<1>4. Numbers(CoinGeckoPrices(CallCoinGecko(prices)))
  <2> DEFINE got == CallCoinGecko(prices)
  <2>1. \A n \in DOMAIN got : got[n] = World(WorldName, prices)[n] /\ n \in DOMAIN World(WorldName, prices)
    BY DEF CallCoinGecko, Only, Restrict
  <2>2. Numbers(World(WorldName, prices))
    BY TheNames, NamedApart
  <2> HIDE DEF got
  <2>3. Numbers(CoinGeckoPrices(got))
    BY <2>1, <2>2 DEF CoinGeckoPrices, Numbers
  <2> QED
    BY <2>3 DEF got
<1>5. Numbers(AlternativeMePrices(CallAlternativeMe(prices)))
  <2>1. Numbers(World(WorldNumber, prices))
    BY TheNames, NamedApart
  <2> QED
    BY <2>1 DEF AlternativeMePrices, CallAlternativeMe, Numbers
<1>6. Numbers(PegnetMarketCapPrices(CallPegnetMarketCap(prices)))
  BY <1>1 DEF PegnetMarketCapPrices, CallPegnetMarketCap, Only, Restrict, Numbers
<1>7. Numbers(FactoshiioPrices(CallFactoshiio(prices)))
  <2>1. CallFactoshiio(prices).price \in Nat
    BY <1>1 DEF CallFactoshiio, Numbers
  <2> QED
    BY <2>1 DEF FactoshiioPrices, Numbers
<1>8. Numbers(FixedUSDPrices)
  BY PollingAssumption DEF FixedUSDPrices, Numbers
<1> QED
  BY <1>2, <1>3, <1>4, <1>5, <1>6, <1>7, <1>8

(* The services that list records.                                         *)
LEMMA RecordsFetched ==
  ASSUME NEW prices, Priceable(prices)
  PROVE  /\ Numbers(CoinMarketCapPrices(CallCoinMarketCap(prices)))
         /\ Numbers(CoinCapPrices(CallCoinCap(prices)))
<1>1. Numbers(CoinMarketCapPrices(CallCoinMarketCap(prices)))
  <2> DEFINE got == CallCoinMarketCap(prices)
  <2>1. \A n \in Listed(WorldNumber, prices) : AssetNamed(WorldNumber, n) \in DOMAIN prices
    BY TheNames, NamedApart
  <2>2. \A n \in DOMAIN got : got[n].USD \in Nat
    BY <2>1 DEF CallCoinMarketCap, Priceable, Numbers
  <2> HIDE DEF got
  <2>3. Numbers(CoinMarketCapPrices(got))
    BY <2>2 DEF CoinMarketCapPrices, Numbers
  <2> QED
    BY <2>3 DEF got
<1>2. Numbers(CoinCapPrices(CallCoinCap(prices)))
  <2> DEFINE data == CallCoinCap(prices)
             Genuine(c) == c.Symbol \in DOMAIN CoinCapIOCryptoAssetNames
                             => c.ID = CoinCapIOCryptoAssetNames[c.Symbol]
             peg(c) == IF c.Symbol \in {"BTC", "XBT"} THEN "XBT" ELSE c.Symbol
             wanted == {c \in {c \in data : Genuine(c)} : peg(c) \in CoinCapPegs}
  <2>1. \A c \in data : c.PriceUSD \in Nat
    BY DEF CallCoinCap, Priceable, Numbers
  <2>2. CoinCapPrices(data) = [a \in {peg(c) : c \in wanted} |-> (CHOOSE c \in wanted : peg(c) = a).PriceUSD]
    BY DEF CoinCapPrices
  <2> HIDE DEF data, Genuine, peg
  <2>3. ASSUME NEW a \in {peg(c) : c \in wanted}
        PROVE  (CHOOSE c \in wanted : peg(c) = a).PriceUSD \in Nat
    <3>1. (CHOOSE c \in wanted : peg(c) = a) \in wanted
      BY <2>3
    <3> QED
      BY <3>1, <2>1
  <2> HIDE DEF wanted
  <2>4. Numbers(CoinCapPrices(data))
    BY <2>2, <2>3 DEF Numbers
  <2> QED
    BY <2>4 DEF data
<1> QED
  BY <1>1, <1>2

(* FetchPegPrices of every service.                                        *)
LEMMA FetchedNumbers ==
  ASSUME NEW s \in Services, NEW prices, Priceable(prices), s = "Kitco" => KitcoAnswers(prices)
  PROVE  Numbers(Fetched(s, prices))
<1>1. CASE s \in {"APILayer", "ExchangeRates", "OpenExchangeRates", "FreeForexAPI"}
  BY <1>1, RatesFetched DEF Fetched
<1>2. CASE s \in {"1Forge", "Kitco", "CoinGecko", "AlternativeMe", "PegnetMarketCap", "Factoshiio", "FixedUSD"}
  BY <1>2, ListsFetched DEF Fetched
<1>3. CASE s \in {"CoinCap", "CoinMarketCap"}
  BY <1>3, RecordsFetched DEF Fetched
<1> QED
  BY <1>1, <1>2, <1>3 DEF Services

(***************************************************************************)
(* The choice of a quote. Of sorted quotes of which all but one are equal, *)
(* those between the first and the last are equal: the mean of what        *)
(* TrimmedMean leaves is theirs.                                           *)
(***************************************************************************)
Price == Nat \ {0}
Quotation == [source : Services, value : Price]

(* A function from 1..n is a sequence.                                     *)
LEMMA ListOf ==
  ASSUME NEW S, NEW n \in Nat, NEW f \in [1..n -> S]
  PROVE  f \in Seq(S) /\ Len(f) = n
<1>1. f \in Seq(S)
  BY SeqDef
<1>2. DOMAIN f = 1..n
  OBVIOUS
<1> QED
  BY <1>1, <1>2, LenProperties

(* t has the n quotes of s, the cheapest first, taken in the order o.      *)
CheapestFirst(t, s, n, o) ==
  /\ o \in [1..n -> 1..n] /\ t = [k \in 1..n |-> s[o[k]]]
  /\ \A j, k \in 1..n : j < k => o[j] # o[k] /\ s[o[j]].value <= s[o[k]].value

(* Sorting quotes puts the cheapest first.                                 *)
LEMMA QuotesSorted ==
  ASSUME NEW s \in Seq(Quotation), NEW n, n = Len(s)
  PROVE  \E o : CheapestFirst(StableSort(s, Cheaper), s, n, o)
<1> DEFINE D == 1..n
           R == {p \in D \X D :
                   \/ Cheaper(s[p[1]], s[p[2]])
                   \/ p[1] < p[2] /\ ~Cheaper(s[p[2]], s[p[1]])}
           o == InOrder(n, R)
           key == [i \in D |-> s[i].value]
<1>1. n \in Nat /\ \A i \in D : s[i].value \in Nat /\ key[i] = s[i].value
  <2>1. n \in Nat /\ \A i \in D : s[i] \in Quotation
    OBVIOUS
  <2>2. \A q \in Quotation : q.value \in Nat
    BY DEF Quotation, Price
  <2> QED
    BY <2>1, <2>2
<1>2. StableSort(s, Cheaper) = [k \in D |-> s[o[k]]]
  BY DEF StableSort
<1>3. key \in [D -> Int]
  BY <1>1
<1> HIDE DEF key
<1>4. \A i, j \in D : Cheaper(s[i], s[j]) <=> key[i] < key[j]
  BY <1>1 DEF Cheaper
<1>5. \A i, j \in D : <<i, j>> \in R <=> key[i] < key[j] \/ (i < j /\ ~(key[j] < key[i]))
  BY <1>4
<1>6. StrictOrder(n, R)
  <2> HIDE DEF R
  <2> QED
    BY <1>1, <1>3, <1>5, KeyOrder
<1> HIDE DEF R
<1>7. /\ o \in [D -> D] /\ \A j, k \in D : j < k => <<o[j], o[k]>> \in R
      /\ \A j, k \in D : o[j] = o[k] => j = k
  BY <1>1, <1>6, InOrderSorts
<1> HIDE DEF o
<1>8. ASSUME NEW j \in D, NEW k \in D, j < k PROVE o[j] # o[k] /\ s[o[j]].value <= s[o[k]].value
  <2>1. PICK a \in D, b \in D : a = o[j] /\ b = o[k]
    BY <1>7
  <2>2. <<a, b>> \in R
    BY <2>1, <1>7, <1>8
  <2>3. j # k
    BY <1>1, <1>8
  <2>4. PICK x \in Int, y \in Int : x = key[a] /\ y = key[b]
    BY <1>3
  <2>5. x < y \/ ~(y < x)
    BY <2>2, <2>4, <1>5
  <2>6. x = s[a].value /\ y = s[b].value
    BY <2>4, <1>1
  <2> QED
    BY <2>1, <2>3, <2>5, <2>6, <1>7
<1> QED
  BY <1>2, <1>7, <1>8 DEF CheapestFirst

(* What TrimmedMean leaves of its argument are the quotes.                 *)
LEMMA TrimmedData ==
  ASSUME NEW s \in Seq(Quotation), s # <<>>
  PROVE  /\ TrimmedMean(s, 1).data \in [1..Len(s) -> Quotation] /\ 1 \in 1..Len(s)
         /\ \A i \in 1..Len(s) : \E j \in 1..Len(s) : TrimmedMean(s, 1).data[i] = s[j]
<1>1. Len(s) \in Nat /\ Len(s) # 0 /\ s \in [1..Len(s) -> Quotation] /\ 1 \in 1..Len(s)
  BY EmptySeq
<1>2. CASE Len(s) < 3
  BY <1>1, <1>2 DEF TrimmedMean
<1>3. CASE ~(Len(s) < 3)
  <2>1. TrimmedMean(s, 1).data = StableSort(s, Cheaper)
    BY <1>3 DEF TrimmedMean
  <2>2. PICK o \in [1..Len(s) -> 1..Len(s)] : StableSort(s, Cheaper) = [k \in 1..Len(s) |-> s[o[k]]]
    <3>1. PICK o : CheapestFirst(StableSort(s, Cheaper), s, Len(s), o)
      BY QuotesSorted
    <3> QED
      BY <3>1 DEF CheapestFirst
  <2> QED
    BY <1>1, <2>1, <2>2
<1> QED
  BY <1>2, <1>3

(* The least of a set of places is one of them.                            *)
LEMMA FirstPlace ==
  ASSUME NEW S, S \subseteq Nat, S # {}
  PROVE  Min(S) \in S
<1>1. \E x \in S : \A y \in S : x =< y
  BY LeastNat
<1> QED
  BY <1>1 DEF Min

(* The choice is one of the quotes, and in version 5 in the band if any    *)
(* is.                                                                     *)
LEMMA BestIsQuoted ==
  ASSUME NEW s \in Seq(Quotation), s # <<>>
  PROVE  /\ BestOf(s) \in Quotation /\ \E i \in 1..Len(s) : BestOf(s) = s[i]
         /\ config.version = 5 /\ (\E i \in 1..Len(s) : WithinBand(TrimmedMean(s, 1).data[i].value, TrimmedMean(s, 1)))
              => WithinBand(BestOf(s).value, TrimmedMean(s, 1))
<1> DEFINE mean == TrimmedMean(s, 1)
           B == {i \in DOMAIN mean.data : WithinBand(mean.data[i].value, mean)}
<1>1. /\ mean.data \in [1..Len(s) -> Quotation] /\ 1 \in 1..Len(s) /\ s \in [1..Len(s) -> Quotation]
      /\ DOMAIN mean.data = 1..Len(s) /\ Len(s) \in Nat
      /\ \A i \in 1..Len(s) : \E j \in 1..Len(s) : mean.data[i] = s[j]
  BY TrimmedData
<1>2. BestOf(s) = IF config.version # 5 THEN s[1] ELSE IF B # {} THEN mean.data[Min(B)] ELSE mean.data[1]
  BY DEF BestOf
<1> HIDE DEF mean
<1>3. B \subseteq 1..Len(s) /\ B \subseteq Nat
  BY <1>1
<1>4. B # {} => Min(B) \in B
  <2> HIDE DEF B
  <2> QED
    BY <1>3, FirstPlace
<1>5. BestOf(s) \in Quotation /\ \E i \in 1..Len(s) : BestOf(s) = s[i]
  <2> HIDE DEF B
  <2> QED
    BY <1>1, <1>2, <1>3, <1>4
<1>6. ASSUME config.version = 5, NEW i \in 1..Len(s), WithinBand(mean.data[i].value, mean)
      PROVE  WithinBand(BestOf(s).value, mean)
  <2>1. i \in B
    BY <1>1, <1>6
  <2>2. BestOf(s) = mean.data[Min(B)]
    BY <2>1, <1>2, <1>6
  <2>3. Min(B) \in B
    BY <2>1, <1>4
  <2> QED
    BY <2>2, <2>3
<1> QED
  BY <1>5, <1>6 DEF mean

(* A sum of equal terms.                                                   *)
LEMMA SumOfEqual ==
  ASSUME NEW m \in Nat, NEW v \in Int, NEW f, f = [i \in 1..m |-> v]
  PROVE  Sum(f) = v * m
<1>1. IsFiniteSet(1..m) /\ Cardinality(1..m) = m
  BY FS_Interval
<1>2. f \in [1..m -> Int] /\ DOMAIN f = 1..m /\ \A i \in 1..m : f[i] = v
  OBVIOUS
<1>3. Sum(f) \in Int
  BY <1>1, <1>2, SumType
<1>4. 1 * Sum(f) <= 0 * Sum(f) + v * m
  <2>1. \A i \in 1..m : 1 * f[i] <= 0 * f[i] + v
    BY <1>2
  <2>2. AtMost(1, f, 0, f, v)
    BY <2>1, <1>1, <1>2 DEF AtMost
  <2> QED
    BY <2>2, <1>1, <1>2, SumBound
<1>5. 0 * Sum(f) <= 1 * Sum(f) + (0 - v) * m
  <2>1. \A i \in 1..m : 0 * f[i] <= 1 * f[i] + (0 - v)
    BY <1>2
  <2>2. AtMost(0, f, 1, f, 0 - v)
    BY <2>1, <1>1, <1>2 DEF AtMost
  <2> QED
    BY <2>2, <1>1, <1>2, SumBound
<1>6. (0 - v) * m = 0 - v * m /\ v * m \in Int
  OBVIOUS
<1> QED
  BY <1>3, <1>4, <1>5, <1>6

(* A band around k times v is a band around v.                             *)
LEMMA BandScales ==
  ASSUME NEW v \in Nat, NEW k \in Nat \ {0}, NEW x \in Nat, NEW mean, mean.sum = v * k, mean.count = k
  PROVE  WithinBand(x, mean) <=> WithinBand(x, [sum |-> v, count |-> 1])
<1> DEFINE one == [sum |-> v, count |-> 1]
           L == 1000 * Dollar
<1>1. one.sum = v /\ one.count = 1 /\ L \in Nat
  BY PollingAssumption
<1>2. mean.sum >= L * mean.count <=> one.sum >= L * one.count
  <2> HIDE DEF L
  <2>1. v * k >= L * k <=> v >= L
    BY <1>1
  <2>2. L * 1 = L
    BY <1>1
  <2> QED
    BY <1>1, <2>1, <2>2
<1>3. ToleranceParts(mean) = ToleranceParts(one) /\ ToleranceParts(one) \in {10, 100}
  BY <1>2 DEF ToleranceParts
<1>4. PICK p \in {10, 100} : p = ToleranceParts(mean) /\ p = ToleranceParts(one)
  BY <1>3
<1>5. WithinBand(x, mean) <=> x * k * p \in (v * k) * (p - 1) .. (v * k) * (p + 1)
  BY <1>4 DEF WithinBand
<1>6. WithinBand(x, one) <=> x * 1 * p \in v * (p - 1) .. v * (p + 1)
  BY <1>1, <1>4 DEF WithinBand
<1>7. ASSUME NEW a \in Int, NEW b \in Int PROVE a <= b <=> a * k <= b * k
  OBVIOUS
<1>8. /\ x * k * p = (x * p) * k /\ (v * k) * (p - 1) = (v * (p - 1)) * k /\ (v * k) * (p + 1) = (v * (p + 1)) * k
      /\ x * p \in Int /\ v * (p - 1) \in Int /\ v * (p + 1) \in Int /\ x * 1 * p = x * p
      /\ (x * p) * k \in Int /\ (v * (p - 1)) * k \in Int /\ (v * (p + 1)) * k \in Int
  OBVIOUS
<1>9. (v * (p - 1) <= x * p <=> (v * (p - 1)) * k <= (x * p) * k)
      /\ (x * p <= v * (p + 1) <=> (x * p) * k <= (v * (p + 1)) * k)
  BY <1>7, <1>8
<1> QED
  BY <1>5, <1>6, <1>8, <1>9

(* Three quotes or more, of which all but one are v.                       *)
AllButOne(s, n, v) ==
  /\ s \in Seq(Quotation) /\ n = Len(s) /\ n >= 3 /\ v \in Nat
  /\ Cardinality({i \in 1..n : s[i].value = v}) >= n - 1

(* A mean of n quotes, without the first and the last, that is v.          *)
MeanIs(mean, n, v) ==
  mean.sum = v * (n - 2) /\ mean.count = n - 2 /\ mean.data[2].value = v

(* The trimmed quotes of a market in which all but one agree.              *)
LEMMA TrimmedAgree ==
  ASSUME NEW s, NEW n, NEW v, AllButOne(s, n, v)
  PROVE  MeanIs(TrimmedMean(s, 1), n, v)
<1>0. /\ s \in Seq(Quotation) /\ n = Len(s) /\ n >= 3 /\ v \in Nat
      /\ Cardinality({i \in 1..n : s[i].value = v}) >= n - 1
  BY DEF AllButOne
<1> USE <1>0
<1>1. n \in Nat /\ \A i \in 1..n : s[i].value \in Nat
  <2>1. n \in Nat /\ \A i \in 1..n : s[i] \in Quotation
    OBVIOUS
  <2>2. \A q \in Quotation : q.value \in Nat
    BY DEF Quotation, Price
  <2> QED
    BY <2>1, <2>2
<1>2. PICK t : t = StableSort(s, Cheaper)
  OBVIOUS
<1>3. PICK o : CheapestFirst(t, s, n, o)
  BY <1>2, QuotesSorted
<1>4. /\ o \in [1..n -> 1..n] /\ t = [k \in 1..n |-> s[o[k]]]
      /\ \A k \in 1..n : t[k] = s[o[k]] /\ o[k] \in 1..n
      /\ \A j, k \in 1..n : j < k => o[j] # o[k] /\ s[o[j]].value <= s[o[k]].value
  BY <1>3 DEF CheapestFirst
<1>5. ASSUME NEW i \in 1..n, NEW j \in 1..n, i # j PROVE s[i].value = v \/ s[j].value = v
  <2> SUFFICES ASSUME s[i].value # v, s[j].value # v PROVE FALSE
    OBVIOUS
  <2>0. PICK D : D = 1..n
    OBVIOUS
  <2> DEFINE A == {k \in D : s[k].value = v}
  <2>1. IsFiniteSet(D) /\ Cardinality(D) = n
    <3>1. /\ IsFiniteSet(1..n)
          /\ Cardinality(1..n) = IF 1 > n THEN 0 ELSE n - 1 + 1
      <4>1. 1 \in Int /\ n \in Int
        BY <1>1
      <4> QED
        BY <4>1, FS_Interval, Zenon
    <3> QED
      BY <3>1, <1>1, <2>0
  <2>2. A \subseteq (D \ {i}) \ {j}
    OBVIOUS
  <2> HIDE DEF A
  <2>3. IsFiniteSet(D \ {i}) /\ Cardinality(D \ {i}) = n - 1
    <3>1. i \in D
      BY <2>0
    <3> QED
      BY <3>1, <2>1, FS_RemoveElement
  <2>4. IsFiniteSet((D \ {i}) \ {j}) /\ Cardinality((D \ {i}) \ {j}) = n - 2
    <3>1. j \in D \ {i}
      BY <1>5, <2>0
    <3>2. Cardinality((D \ {i}) \ {j}) = Cardinality(D \ {i}) - 1 /\ IsFiniteSet((D \ {i}) \ {j})
      BY <3>1, <2>3, FS_RemoveElement
    <3> QED
      BY <3>2, <2>3, <1>1
  <2>5. Cardinality(A) <= n - 2 /\ Cardinality(A) \in Nat
    BY <2>2, <2>4, FS_Subset, FS_CardinalityType
  <2>6. A = {k \in 1..n : s[k].value = v}
    BY <2>0 DEF A
  <2> QED
    BY <2>5, <2>6, <1>1
<1>6. ASSUME NEW k \in 2..(n - 1) PROVE t[k].value = v
  <2>1. k \in 1..n /\ 1 \in 1..n /\ n \in 1..n /\ 1 < k /\ k < n
    BY <1>1, <1>6
  <2>2. /\ t[k].value = s[o[k]].value /\ o[1] \in 1..n /\ o[k] \in 1..n /\ o[n] \in 1..n
        /\ o[1] # o[k] /\ o[k] # o[n] /\ s[o[1]].value <= s[o[k]].value /\ s[o[k]].value <= s[o[n]].value
        /\ 1 < n => o[1] # o[n]
    BY <2>1, <1>4
  <2>3. o[1] # o[n]
    BY <2>1, <2>2, <1>1
  <2>4. PICK a, b, c \in Nat : a = s[o[1]].value /\ b = s[o[k]].value /\ c = s[o[n]].value
    BY <2>2, <1>1
  <2>5. (a = v \/ b = v) /\ (b = v \/ c = v)
    BY <2>2, <2>4, <1>5
  <2>6. a <= b /\ b <= c
    BY <2>2, <2>4
  <2>7. a = v \/ c = v
    BY <2>2, <2>3, <2>4, <1>5
  <2>8. b = v
    BY <2>5, <2>6
  <2> QED
    BY <2>2, <2>4, <2>8
<1>7. /\ TrimmedMean(s, 1).count = n - 2 /\ TrimmedMean(s, 1).data = t
      /\ TrimmedMean(s, 1).sum = SumOf(SubSeq(t, 2, Len(t) - 1))
  <2>1. ~(n < 3) /\ 1 + 1 = 2 /\ n - 2 * 1 = n - 2
    BY <1>1
  <2> QED
    BY <2>1, <1>2 DEF TrimmedMean
<1>8. Len(t) = n /\ t \in Seq(Quotation)
  <2>1. t \in [1..n -> Quotation]
    BY <1>4
  <2> QED
    BY <2>1, <1>1, ListOf
<1> DEFINE mid == SubSeq(t, 2, n - 1)
<1>9. DOMAIN mid = 1..(n - 2) /\ \A i \in 1..(n - 2) : mid[i] = t[i + 1] /\ i + 1 \in 2..(n - 1)
  <2>1. mid = [i \in 1..((n - 1) - 2 + 1) |-> t[i + 2 - 1]]
    BY <1>1, <1>8
  <2>2. (n - 1) - 2 + 1 = n - 2 /\ \A i \in 1..(n - 2) : i + 2 - 1 = i + 1 /\ i + 1 \in 2..(n - 1)
    BY <1>1
  <2> HIDE DEF mid
  <2> QED
    BY <2>1, <2>2
<1> HIDE DEF mid
<1>10. Values(mid) = [i \in 1..(n - 2) |-> v]
  BY <1>6, <1>9 DEF Values
<1>11. SumOf(mid) = v * (n - 2)
  <2>1. n - 2 \in Nat
    BY <1>1
  <2> QED
    BY <2>1, <1>10, SumOfEqual DEF SumOf
<1>12. 2 \in 2..(n - 1)
  BY <1>1
<1> QED
  BY <1>6, <1>7, <1>8, <1>11, <1>12 DEF mid, MeanIs

(* Of three quotes or more of which all but one agree, the choice is       *)
(* within the band around them.                                            *)
LEMMA OutlierLoses ==
  ASSUME NEW s \in Seq(Quotation), Len(s) >= 3, config.version = 5, NEW v \in Price,
         Cardinality({i \in DOMAIN s : s[i].value = v}) >= Len(s) - 1
  PROVE  WithinBand(BestOf(s).value, [sum |-> v, count |-> 1])
<1>1. PICK n \in Nat : n = Len(s) /\ DOMAIN s = 1..n
  OBVIOUS
<1>2. PICK mean : mean = TrimmedMean(s, 1)
  OBVIOUS
<1>3. mean.sum = v * (n - 2) /\ mean.count = n - 2 /\ mean.data[2].value = v
  <2>1. v \in Nat /\ n >= 3 /\ Cardinality({i \in 1..n : s[i].value = v}) >= n - 1
    BY <1>1 DEF Price
  <2>2. AllButOne(s, n, v)
    BY <2>1, <1>1 DEF AllButOne
  <2>3. MeanIs(mean, n, v)
    BY <2>2, <1>2, TrimmedAgree
  <2> QED
    BY <2>3 DEF MeanIs
<1>4. v \in Nat /\ n - 2 \in Nat \ {0} /\ 2 \in 1..n /\ s # <<>>
  BY <1>1 DEF Price
<1>5. WithinBand(v, [sum |-> v, count |-> 1])
  <2> DEFINE one == [sum |-> v, count |-> 1]
  <2>1. PICK p \in {10, 100} : p = ToleranceParts(one)
    BY DEF ToleranceParts
  <2>2. v * (p - 1) <= v * 1 * p /\ v * 1 * p <= v * (p + 1) /\ v * 1 * p \in Int
        /\ v * (p - 1) \in Int /\ v * (p + 1) \in Int
    BY <1>4
  <2> QED
    BY <2>1, <2>2 DEF WithinBand
<1>6. WithinBand(mean.data[2].value, mean)
  BY <1>3, <1>4, <1>5, BandScales
<1>7. WithinBand(BestOf(s).value, mean) /\ BestOf(s).value \in Nat
  <2>1. BestOf(s) \in Quotation
    BY <1>4, BestIsQuoted
  <2> QED
    BY <2>1, <1>1, <1>2, <1>4, <1>6, BestIsQuoted DEF Quotation, Price
<1> QED
  BY <1>3, <1>4, <1>7, BandScales

-----------------------------------------------------------------------------
(***************************************************************************)
(* The prices of a pull. Its quotes are those of services of the asset, in *)
(* the answers it has, which it keeps. The assets it has priced and those  *)
(* it has still to price are those of its version in order. An asset whose *)
(* services were asked so far has a quote, or the last of them failed, or  *)
(* the last of them answered zero.                                         *)
(***************************************************************************)
Answered(once, s, a, v) == s \in Services /\ once[s] # None /\ once[s].prices[a] = v

(* A quote of an asset by one of its services, in the answer of the pull.  *)
QuotedBy(once, a, q) ==
  /\ q.source \in Range(sources[a])
  /\ Answered(once, q.source, a, q.value)

Choice == [asset : AllAssets, quote : Quotation \cup {None}, quotes : Seq(Quotation), value : Nat]

(* A price that was chosen as it should be.                                *)
WellChosen(once, c) ==
  /\ c.quotes # <<>> => c.quote = BestOf(c.quotes)
  /\ IF c.quote # None THEN QuotedBy(once, c.asset, c.quote) /\ c.quote.value > 0
     ELSE /\ c.asset = "PEG" /\ config.version # 3
          /\ sources["PEG"] # <<>> => Answered(once, Last(sources["PEG"]), "PEG", 0)

(* The assets priced, and then those still to price, are the ones of pa.   *)
Along(chosen, todo, pa) ==
  /\ Len(chosen) + Len(todo) = Len(pa)
  /\ \A i \in 1..Len(chosen) : chosen[i].asset = pa[i]
  /\ \A i \in 1..Len(todo) : todo[i] = pa[Len(chosen) + i]

(* A list, and what is left of it after k places.                          *)
IsList(s) == s \in Seq(Range(s))
Rest(s, k) == [i \in 1..(Len(s) - k) |-> s[k + i]]

(* The first k services of the asset have been asked.                      *)
AskedTo(p, a, k) ==
  /\ k \in 0..Len(sources[a])
  /\ p.ask = Rest(sources[a], k)
  /\ k > 0 => p.prices # <<>> \/ p.err = TRUE \/ Answered(p.once, sources[a][k], a, 0)

Fields == {"todo", "ask", "prices", "err", "once", "used", "chosen"}

Pulling(p) ==
  /\ Fields \subseteq DOMAIN p
  /\ p.prices \in Seq(Quotation) /\ p.chosen \in Seq(Choice) /\ p.todo \in Seq(AllAssets)
  /\ Along(p.chosen, p.todo, PulledAssets(config.version))
  /\ p.todo = <<>> => p.ask = <<>>
  /\ p.todo # <<>> =>
       /\ \E k : AskedTo(p, Head(p.todo), k)
       /\ \A i \in 1..Len(p.prices) : QuotedBy(p.once, Head(p.todo), p.prices[i])
  /\ \A s \in Services : p.once[s] # None => Numbers(p.once[s].prices)
  /\ \A i \in 1..Len(p.chosen) : WellChosen(p.once, p.chosen[i])

(* The prices of a pull that has ended.                                    *)
AllPriced(r) ==
  /\ [i \in DOMAIN r.chosen |-> r.chosen[i].asset] = PulledAssets(config.version)
  /\ \A c \in Range(r.chosen) : WellChosen(r.once, c)

Configured ==
  /\ config \in Configs
  /\ sources # None => \A a \in AllAssets : IsList(sources[a])

PriceInv ==
  /\ Configured
  /\ \A s \in Services : Cached(s) => Numbers(timed[s].prices)
  /\ pull # None => Pulling(pull)
  /\ result # None => sources # None /\ AllPriced(result)

(* What a service sees can be priced.                                      *)
LEMMA SeenPriceable ==
  ASSUME NEW view \in Views
  PROVE  Priceable(Seen(view))
<1>1. PICK level, unlisted, worthless :
        level \in Nat /\ view.level = level /\ view.unlisted = unlisted /\ view.worthless = worthless
  BY PollingAssumption
<1>2. /\ Dollar \in Nat
      /\ \A a \in AllAssets : RateUnit % Market(level)[a] = 0
  BY <1>1, PollingAssumption
<1>3. 15 * Dollar * level \in Nat /\ (Dollar * level) \div 100 \in Nat
  <2>1. Dollar * level \in Nat
    BY <1>1, <1>2
  <2> QED
    BY <2>1, <1>1, <1>2
<1>4. ASSUME NEW a \in AllAssets PROVE Market(level)[a] \in Nat
  BY <1>2, <1>3 DEF Market
<1>5. Seen(view) = [a \in AllAssets \ unlisted |-> IF a \in worthless THEN 0 ELSE Market(level)[a]]
  BY <1>1 DEF Seen
<1> QED
  BY <1>2, <1>4, <1>5 DEF Priceable, Numbers

(* The assets of a pull begin with PEG.                                    *)
LEMMA ThePulledAssets ==
  ASSUME NEW version
  PROVE  /\ PulledAssets(version) \in Seq(AllAssets)
         /\ PulledAssets(version) # <<>> /\ PulledAssets(version)[1] = "PEG"
<1> DEFINE v2 == <<"PEG", "USD", "EUR", "XAU", "XAG", "XBT", "FCT">>
           v4 == v2 \o <<"AUD", "EOS">>
           v5 == v4 \o <<"NEO", "CRO", "AED">>
<1>1. v2 \in Seq(AllAssets) /\ Len(v2) > 0 /\ v2[1] = "PEG"
  BY TheAssets
<1>2. ASSUME NEW s \in Seq(AllAssets), NEW t \in Seq(AllAssets), Len(s) > 0, s[1] = "PEG"
      PROVE  s \o t \in Seq(AllAssets) /\ Len(s \o t) > 0 /\ (s \o t)[1] = "PEG"
  <2>1. /\ s \o t \in Seq(AllAssets) /\ Len(s \o t) = Len(s) + Len(t)
        /\ \A i \in 1..Len(s) + Len(t) : (s \o t)[i] = IF i <= Len(s) THEN s[i] ELSE t[i - Len(s)]
    BY ConcatProperties
  <2>2. Len(s) \in Nat /\ Len(t) \in Nat
    OBVIOUS
  <2>3. 1 \in 1..Len(s) + Len(t) /\ 1 <= Len(s)
    BY <2>2, <1>2
  <2> QED
    BY <2>1, <2>2, <2>3, <1>2
<1>3. <<"AUD", "EOS">> \in Seq(AllAssets) /\ <<"NEO", "CRO", "AED">> \in Seq(AllAssets)
  BY TheAssets
<1>4. PulledAssets(version) \in {v2, v4, v5}
  BY DEF PulledAssets
<1> HIDE DEF v2
<1>5. v4 \in Seq(AllAssets) /\ Len(v4) > 0 /\ v4[1] = "PEG"
  BY <1>1, <1>2, <1>3
<1> HIDE DEF v4
<1>6. v5 \in Seq(AllAssets) /\ Len(v5) > 0 /\ v5[1] = "PEG"
  BY <1>2, <1>3, <1>5
<1> HIDE DEF v5
<1> QED
  BY <1>1, <1>4, <1>5, <1>6

(* The next service of a list.                                             *)
LEMMA AskNext ==
  ASSUME NEW src, IsList(src), NEW k \in 0..Len(src), Rest(src, k) # <<>>
  PROVE  /\ k + 1 \in 1..Len(src) /\ Head(Rest(src, k)) = src[k + 1]
         /\ src[k + 1] \in Range(src) /\ Tail(Rest(src, k)) = Rest(src, k + 1)
<1>1. PICK n \in Nat : n = Len(src) /\ DOMAIN src = 1..n /\ src \in [1..n -> Range(src)]
  BY DEF IsList
<1>2. PICK m \in Nat : m = n - k /\ k \in Nat
  <2>1. k \in 0..n
    BY <1>1, Zenon
  <2> QED
    BY <2>1
<1>3. PICK r : r = Rest(src, k) /\ r = [i \in 1..m |-> src[k + i]]
  BY <1>1, <1>2 DEF Rest
<1>4. r \in [1..m -> Range(src)]
  BY <1>1, <1>2, <1>3
<1>5. r \in Seq(Range(src)) /\ Len(r) = m
  BY <1>4, ListOf
<1>6. m > 0 /\ k + 1 \in 1..n
  BY <1>1, <1>2, <1>3, <1>5, EmptySeq
<1>7. Head(r) = src[k + 1]
  BY <1>3, <1>5, <1>6
<1>8. Tail(r) = [i \in 1..(m - 1) |-> src[k + 1 + i]]
  <2>1. Tail(r) = [i \in 1..(m - 1) |-> r[i + 1]]
    <3>1. /\ Tail(r) \in Seq(Range(src)) /\ Len(Tail(r)) = m - 1
          /\ \A i \in 1..(m - 1) : Tail(r)[i] = r[i + 1]
      BY <1>5, <1>6, HeadTailProperties
    <3>2. PICK t : t = Tail(r)
      OBVIOUS
    <3>3. t = [i \in 1..(m - 1) |-> t[i]]
      <4>1. t \in Seq(Range(src)) /\ Len(t) = m - 1
        BY <3>1, <3>2
      <4>2. t \in [1..(m - 1) -> Range(src)]
        BY <4>1, LenProperties
      <4> QED
        BY <4>2
    <3> QED
      BY <3>1, <3>2, <3>3
  <2>2. \A i \in 1..(m - 1) : i + 1 \in 1..m /\ k + (i + 1) = k + 1 + i
    BY <1>2
  <2>3. \A i \in 1..(m - 1) : r[i + 1] = src[k + 1 + i]
    BY <2>2, <1>3
  <2> QED
    BY <2>1, <2>3
<1>9. Rest(src, k + 1) = [i \in 1..(m - 1) |-> src[k + 1 + i]]
  <2>1. Len(src) - (k + 1) = m - 1
    BY <1>1, <1>2
  <2> QED
    BY <2>1 DEF Rest
<1>10. src[k + 1] \in Range(src)
  BY <1>1, <1>6 DEF Range
<1> QED
  BY <1>1, <1>3, <1>6, <1>7, <1>8, <1>9, <1>10

(* A list of which nothing is left, and one of which all is.               *)
LEMMA ListEnds ==
  ASSUME NEW src, IsList(src)
  PROVE  /\ Rest(src, 0) = src
         /\ \A k \in 0..Len(src) : Rest(src, k) = <<>> => k = Len(src)
<1>1. PICK n \in Nat : n = Len(src) /\ DOMAIN src = 1..n /\ src \in [1..n -> Range(src)]
  BY DEF IsList
<1>2. Rest(src, 0) = src
  <2>1. Rest(src, 0) = [i \in 1..n |-> src[0 + i]]
    BY <1>1 DEF Rest
  <2>2. \A i \in 1..n : src[0 + i] = src[i]
    OBVIOUS
  <2>3. src = [i \in 1..n |-> src[i]]
    BY <1>1
  <2> QED
    BY <2>1, <2>2, <2>3
<1>3. \A k \in 0..Len(src) : Rest(src, k) = <<>> => k = Len(src)
  <2>1. ASSUME NEW k \in 0..n, Rest(src, k) = <<>>, k # n PROVE FALSE
    <3>1. 1 \in 1..(n - k)
      BY <2>1
    <3>2. DOMAIN Rest(src, k) = 1..(n - k)
      BY <1>1, Zenon DEF Rest
    <3>3. DOMAIN <<>> = {}
      OBVIOUS
    <3> QED
      BY <2>1, <3>1, <3>2, <3>3
  <2> QED
    BY <2>1, <1>1, Zenon
<1> QED
  BY <1>2, <1>3

(* A quote: the service has none, has zero, or adds one.                   *)
LEMMA QuoteGood ==
  ASSUME pull # None, Pulling(pull), NEW s \in Services, s = Asked, NEW answer, Numbers(answer.prices)
  PROVE  /\ DOMAIN Quote(answer) = DOMAIN pull /\ Quote(answer).ask = Tail(pull.ask)
         /\ Quote(answer).todo = pull.todo /\ Quote(answer).chosen = pull.chosen
         /\ \/ Quote(answer).prices = pull.prices /\ Quote(answer).err = TRUE
            \/ Quote(answer).prices = pull.prices /\ answer.prices[Asset] = 0
            \/ /\ answer.prices[Asset] \in Price
               /\ Quote(answer).prices = Append(pull.prices, [source |-> s, value |-> answer.prices[Asset]])
<1>1. Fields \subseteq DOMAIN pull
  BY DEF Pulling
<1>2. {"todo", "ask", "prices", "err", "once", "used", "chosen"} \subseteq DOMAIN pull
  BY <1>1 DEF Fields
<1>3. CASE Asset \in DOMAIN answer.prices
  <2>1. answer.prices[Asset] \in Nat
    BY <1>3 DEF Numbers
  <2> DEFINE q == [source |-> s, value |-> answer.prices[Asset]]
             p == IF answer.prices[Asset] = 0 THEN pull.prices ELSE Append(pull.prices, q)
  <2>2. Quote(answer) = [pull EXCEPT !.ask = Tail(@), !.err = FALSE, !.prices = p]
    BY <1>2, <1>3 DEF Quote
  <2>3. /\ DOMAIN Quote(answer) = DOMAIN pull /\ Quote(answer).ask = Tail(pull.ask)
        /\ Quote(answer).todo = pull.todo /\ Quote(answer).chosen = pull.chosen
        /\ Quote(answer).prices = p
    <3> HIDE DEF p
    <3> QED
      BY <2>2, <1>2
  <2> QED
    BY <2>1, <2>3 DEF Price
<1>4. CASE Asset \notin DOMAIN answer.prices
  <2>1. Quote(answer) = [pull EXCEPT !.ask = Tail(@), !.err = TRUE]
    BY <1>4 DEF Quote
  <2> QED
    BY <2>1, <1>2
<1> QED
  BY <1>3, <1>4

(* What a pull has been answered it keeps.                                 *)
LEMMA MoreAnswers ==
  ASSUME NEW once, NEW more, \A t \in Services : once[t] # None => more[t] = once[t]
  PROVE  /\ \A s, a, v : Answered(once, s, a, v) => Answered(more, s, a, v)
         /\ \A a, q : QuotedBy(once, a, q) => QuotedBy(more, a, q)
         /\ \A c : WellChosen(once, c) => WellChosen(more, c)
<1>1. \A s, a, v : Answered(once, s, a, v) => Answered(more, s, a, v)
  BY DEF Answered
<1>2. \A a, q : QuotedBy(once, a, q) => QuotedBy(more, a, q)
  BY <1>1 DEF QuotedBy
<1>3. ASSUME NEW c, WellChosen(once, c) PROVE WellChosen(more, c)
  BY <1>1, <1>2, <1>3 DEF WellChosen
<1> QED
  BY <1>1, <1>2, <1>3

(* What changes neither the configuration nor the services.                *)
LEMMA SameChoices ==
  ASSUME UNCHANGED <<config, sources>>
  PROVE  /\ \A p : Pulling(p)' <=> Pulling(p)
         /\ \A r : AllPriced(r)' <=> AllPriced(r)
         /\ Configured' <=> Configured
<1>1. ASSUME NEW CONSTANT q PROVE BestOf(q)' = BestOf(q)
  BY DEF BestOf
<1>2. ASSUME NEW CONSTANT o, NEW CONSTANT a, NEW CONSTANT q PROVE QuotedBy(o, a, q)' <=> QuotedBy(o, a, q)
  BY DEF QuotedBy
<1>3. ASSUME NEW CONSTANT o, NEW CONSTANT c PROVE WellChosen(o, c)' <=> WellChosen(o, c)
  BY <1>1, <1>2 DEF WellChosen
<1>4. ASSUME NEW CONSTANT p, NEW CONSTANT a, NEW CONSTANT k PROVE AskedTo(p, a, k)' <=> AskedTo(p, a, k)
  BY DEF AskedTo
<1>5. ASSUME NEW CONSTANT p PROVE Pulling(p)' <=> Pulling(p)
  BY <1>2, <1>3, <1>4 DEF Pulling
<1>6. ASSUME NEW CONSTANT r PROVE AllPriced(r)' <=> AllPriced(r)
  BY <1>3 DEF AllPriced
<1>7. Configured' <=> Configured
  BY DEF Configured
<1> QED
  BY <1>5, <1>6, <1>7

(* What a step has to keep.                                                *)
LEMMA PriceStep ==
  ASSUME UNCHANGED <<config, sources>>, Configured,
         \A s \in Services : Cached(s)' => Numbers(timed'[s].prices),
         NEW p, pull' = p, p # None => Pulling(p),
         NEW r, result' = r, r # None => sources # None /\ AllPriced(r)
  PROVE  PriceInv'
<1>1. p # None => Pulling(p)'
  BY SameChoices
<1>2. r # None => AllPriced(r)'
  BY SameChoices
<1>3. pull' # None => Pulling(pull)'
  BY <1>1
<1>4. result' # None => sources' # None /\ AllPriced(result)'
  BY <1>2
<1>5. Configured'
  BY SameChoices
<1> QED
  BY <1>3, <1>4, <1>5 DEF PriceInv

(* A step that uses an answer.                                             *)
LEMMA UseAnswer ==
  ASSUME pull # None, Pulling(pull), pull.ask # <<>>, \A a \in AllAssets : IsList(sources[a]),
         NEW s \in Services, s = Asked, NEW answer, answer # None, Numbers(answer.prices),
         NEW p, NEW once, NEW used,
         p = [Quote(answer) EXCEPT !.once = once, !.used = used],
         once[s] = answer, \A t \in Services : pull.once[t] # None => once[t] = pull.once[t],
         \A t \in Services : once[t] # None => Numbers(once[t].prices)
  PROVE  Pulling(p)
<1>1. PICK q : q = Quote(answer)
  OBVIOUS
<1>2. /\ DOMAIN q = DOMAIN pull /\ q.ask = Tail(pull.ask)
      /\ q.todo = pull.todo /\ q.chosen = pull.chosen
      /\ \/ q.prices = pull.prices /\ q.err = TRUE
         \/ q.prices = pull.prices /\ answer.prices[Asset] = 0
         \/ /\ answer.prices[Asset] \in Price
            /\ q.prices = Append(pull.prices, [source |-> s, value |-> answer.prices[Asset]])
  BY <1>1, QuoteGood
<1>3. {"todo", "ask", "prices", "err", "once", "used", "chosen"} \subseteq DOMAIN q
  BY <1>2 DEF Pulling, Fields
<1>4. p = [q EXCEPT !.once = once, !.used = used]
  BY <1>1
<1>5. /\ DOMAIN p = DOMAIN q /\ p.todo = q.todo /\ p.chosen = q.chosen /\ p.prices = q.prices
      /\ p.err = q.err /\ p.once = once /\ p.ask = q.ask
  BY <1>3, <1>4
<1>6. /\ pull.prices \in Seq(Quotation) /\ pull.chosen \in Seq(Choice) /\ pull.todo \in Seq(AllAssets)
      /\ pull.todo # <<>>
      /\ Along(pull.chosen, pull.todo, PulledAssets(config.version))
      /\ \A i \in 1..Len(pull.prices) : QuotedBy(pull.once, Asset, pull.prices[i])
      /\ \A i \in 1..Len(pull.chosen) : WellChosen(pull.once, pull.chosen[i])
  BY DEF Pulling, Asset
<1>7. PICK k : AskedTo(pull, Asset, k)
  BY <1>6 DEF Pulling, Asset
<1>8. PICK a, src : a \in AllAssets /\ a = Asset /\ a = Head(pull.todo) /\ src = sources[a] /\ IsList(src)
  BY <1>6, HeadTailProperties DEF Asset
<1>9. k \in 0..Len(src) /\ pull.ask = Rest(src, k) /\ Len(src) \in Nat
  BY <1>7, <1>8 DEF AskedTo, IsList
<1>10. /\ k + 1 \in 1..Len(src) /\ s = src[k + 1] /\ s \in Range(src) /\ p.ask = Rest(src, k + 1)
  <2>1. Rest(src, k) # <<>>
    BY <1>9
  <2>2. /\ k + 1 \in 1..Len(src) /\ Head(Rest(src, k)) = src[k + 1]
        /\ src[k + 1] \in Range(src) /\ Tail(Rest(src, k)) = Rest(src, k + 1)
    BY <2>1, <1>8, <1>9, AskNext
  <2>3. s = Head(Rest(src, k)) /\ p.ask = Tail(Rest(src, k))
    BY <1>2, <1>5, <1>9 DEF Asked
  <2> QED
    BY <2>2, <2>3
<1>11. /\ \A x, b, v : Answered(pull.once, x, b, v) => Answered(once, x, b, v)
       /\ \A b, x : QuotedBy(pull.once, b, x) => QuotedBy(once, b, x)
       /\ \A c : WellChosen(pull.once, c) => WellChosen(once, c)
  BY MoreAnswers
<1>12. Answered(once, s, a, answer.prices[a])
  BY DEF Answered
<1>13. /\ p.prices \in Seq(Quotation) /\ \A i \in 1..Len(p.prices) : QuotedBy(once, a, p.prices[i])
       /\ p.prices # <<>> \/ p.err = TRUE \/ answer.prices[a] = 0
  <2>1. CASE p.prices = pull.prices /\ (p.err = TRUE \/ answer.prices[a] = 0)
    BY <2>1, <1>6, <1>8, <1>11
  <2>2. CASE /\ answer.prices[a] \in Price
             /\ p.prices = Append(pull.prices, [source |-> s, value |-> answer.prices[a]])
    <3>1. PICK x : x = [source |-> s, value |-> answer.prices[a]]
      OBVIOUS
    <3>2. x \in Quotation /\ x.source = s /\ x.value = answer.prices[a]
      BY <3>1, <2>2 DEF Quotation
    <3>3. QuotedBy(once, a, x)
      BY <3>2, <1>8, <1>10, <1>12 DEF QuotedBy
    <3>4. PICK n \in Nat : n = Len(pull.prices)
      BY <1>6
    <3>5. /\ p.prices \in Seq(Quotation) /\ Len(p.prices) = n + 1 /\ p.prices[n + 1] = x
          /\ \A i \in 1..n : p.prices[i] = pull.prices[i]
      <4>1. p.prices = Append(pull.prices, x)
        BY <2>2, <3>1
      <4>2. PICK old, new : old = pull.prices /\ new = Append(old, x) /\ old \in Seq(Quotation)
        BY <1>6
      <4>3. /\ new \in Seq(Quotation) /\ Len(new) = Len(old) + 1 /\ new[Len(old) + 1] = x
            /\ \A i \in 1..Len(old) : new[i] = old[i]
        BY <3>2, <4>2, AppendProperties
      <4> QED
        BY <3>4, <4>1, <4>2, <4>3
    <3>6. \A i \in 1..(n + 1) : i \in 1..n \/ i = n + 1
      OBVIOUS
    <3>7. p.prices # <<>>
      BY <3>4, <3>5
    <3>8. \A i \in 1..n : QuotedBy(once, a, p.prices[i])
      BY <3>4, <3>5, <1>6, <1>8, <1>11
    <3> QED
      BY <3>3, <3>5, <3>6, <3>7, <3>8
  <2> QED
    BY <2>1, <2>2, <1>2, <1>5, <1>8
<1>14. AskedTo(p, a, k + 1)
  <2>1. k + 1 \in 0..Len(sources[a]) /\ p.ask = Rest(sources[a], k + 1)
    BY <1>8, <1>9, <1>10
  <2>2. p.prices # <<>> \/ p.err = TRUE \/ Answered(p.once, sources[a][k + 1], a, 0)
    BY <1>5, <1>8, <1>10, <1>12, <1>13
  <2> QED
    BY <2>1, <2>2 DEF AskedTo
<1>15. \A i \in 1..Len(p.chosen) : WellChosen(p.once, p.chosen[i])
  BY <1>2, <1>5, <1>6, <1>11
<1>16. Head(p.todo) = a /\ p.todo # <<>> /\ Fields \subseteq DOMAIN p
  BY <1>2, <1>3, <1>5, <1>6, <1>8 DEF Fields
<1> QED
  BY <1>2, <1>5, <1>6, <1>13, <1>14, <1>15, <1>16 DEF Pulling

(* Answers from the caches, and from the service itself.                   *)
LEMMA AnswersPriced ==
  ASSUME PollInv, PriceInv, FromOneTimeUseCache \/ FromTimedCache \/ CallSource
  PROVE  PriceInv'
<1>1. /\ pull # None /\ pull.ask # <<>> /\ Asked \in Enabled /\ UNCHANGED <<config, sources, result>>
  BY DEF FromOneTimeUseCache, FromTimedCache, CallSource, MustCall, Asking
<1>2. /\ sources # None /\ {"once", "used"} \subseteq DOMAIN pull /\ DOMAIN pull.once = Services
      /\ Asked \in Services /\ DOMAIN timed = Services
  BY <1>1 DEF PollInv, PullInv, UsedOnce, TimedInv
<1>3. /\ Pulling(pull) /\ \A s \in Services : Cached(s) => Numbers(timed[s].prices)
      /\ result # None => sources # None /\ AllPriced(result)
      /\ \A s \in Services : pull.once[s] # None => Numbers(pull.once[s].prices)
      /\ Configured /\ \A a \in AllAssets : IsList(sources[a])
  BY <1>1, <1>2 DEF PriceInv, Pulling, Configured
<1>4. PICK s \in Services : s = Asked
  BY <1>2
<1>5. SUFFICES \E answer, once, used :
                 /\ answer # None /\ Numbers(answer.prices)
                 /\ pull' = [Quote(answer) EXCEPT !.once = once, !.used = used]
                 /\ once[s] = answer /\ \A t \in Services : pull.once[t] # None => once[t] = pull.once[t]
                 /\ \A t \in Services : once[t] # None => Numbers(once[t].prices)
                 /\ \A t \in Services : Cached(t)' => Numbers(timed'[t].prices)
  <2>1. PICK answer, once, used :
                 /\ answer # None /\ Numbers(answer.prices)
                 /\ pull' = [Quote(answer) EXCEPT !.once = once, !.used = used]
                 /\ once[s] = answer /\ \A t \in Services : pull.once[t] # None => once[t] = pull.once[t]
                 /\ \A t \in Services : once[t] # None => Numbers(once[t].prices)
                 /\ \A t \in Services : Cached(t)' => Numbers(timed'[t].prices)
    BY <1>5
  <2>2. PICK p : p = [Quote(answer) EXCEPT !.once = once, !.used = used]
    OBVIOUS
  <2>3. Pulling(p)
    BY <2>1, <2>2, <1>1, <1>3, <1>4, UseAnswer
  <2>4. PICK r : r = result
    OBVIOUS
  <2> QED
    BY <2>1, <2>2, <2>3, <2>4, <1>1, <1>3, PriceStep
<1>6. CASE FromOneTimeUseCache
  <2> DEFINE q == Quote(pull.once[s])
             used == pull.used \cup {<<s, pull.once[s].call>>}
  <2>1. /\ pull.once[s] # None /\ pull' = [q EXCEPT !.used = @ \cup {<<s, pull.once[s].call>>}]
        /\ timed' = timed
    BY <1>4, <1>6 DEF FromOneTimeUseCache
  <2>2. DOMAIN q = DOMAIN pull /\ q.once = pull.once /\ q.used = pull.used
    BY <1>2, QuoteKeeps
  <2>3. pull' = [q EXCEPT !.once = pull.once, !.used = used]
    <3> HIDE DEF q
    <3> QED
      BY <2>1, <2>2, <1>2
  <2>4. Numbers(pull.once[s].prices) /\ \A t \in Services : Cached(t)' => Numbers(timed'[t].prices)
    BY <2>1, <1>3 DEF Cached
  <2> HIDE DEF used
  <2> QED
    BY <2>1, <2>3, <2>4, <1>3
<1>7. ASSUME NEW answer, NEW n, answer # None, Numbers(answer.prices), pull.once[s] = None,
             pull' = [Quote(answer) EXCEPT !.once = Remember(@, s, answer), !.used = @ \cup {<<s, n>>}]
      PROVE  \E once, used :
                 /\ pull' = [Quote(answer) EXCEPT !.once = once, !.used = used]
                 /\ once[s] = answer /\ \A t \in Services : pull.once[t] # None => once[t] = pull.once[t]
                 /\ \A t \in Services : once[t] # None => Numbers(once[t].prices)
  <2> DEFINE q == Quote(answer)
             once == Remember(pull.once, s, answer)
             used == pull.used \cup {<<s, n>>}
  <2>1. DOMAIN q = DOMAIN pull /\ q.once = pull.once /\ q.used = pull.used
    BY <1>2, QuoteKeeps
  <2>2. pull' = [q EXCEPT !.once = once, !.used = used]
    <3> HIDE DEF q
    <3> QED
      BY <2>1, <1>2, <1>7 DEF q
  <2>3. \A t \in Services : once[t] # None => Numbers(once[t].prices)
    BY <1>2, <1>3, <1>7 DEF Remember
  <2>4. once[s] = answer /\ \A t \in Services : pull.once[t] # None => once[t] = pull.once[t]
    BY <1>2, <1>7 DEF Remember
  <2> HIDE DEF once, used
  <2> QED
    BY <2>2, <2>3, <2>4
<1>8. CASE FromTimedCache
  <2>1. PICK answer : answer = timed[s]
    OBVIOUS
  <2>2. /\ answer # None /\ timed' = timed /\ pull.once[s] = None
        /\ pull' = [Quote(answer) EXCEPT !.once = Remember(@, s, answer),
                                         !.used = @ \cup {<<s, answer.call>>}]
    BY <2>1, <1>4, <1>8 DEF FromTimedCache
  <2>3. Numbers(answer.prices)
    BY <2>1, <2>2, <1>3 DEF Cached
  <2>4. \A t \in Services : Cached(t)' => Numbers(timed'[t].prices)
    BY <2>2, <1>3 DEF Cached
  <2>5. PICK once, used :
          /\ pull' = [Quote(answer) EXCEPT !.once = once, !.used = used]
          /\ once[s] = answer /\ \A t \in Services : pull.once[t] # None => once[t] = pull.once[t]
          /\ \A t \in Services : once[t] # None => Numbers(once[t].prices)
    BY <2>2, <2>3, <1>7
  <2>6. answer # None
    BY <2>2
  <2> QED
    BY <2>3, <2>4, <2>5, <2>6
<1>9. CASE CallSource
  <2>1. PICK view \in Views :
          LET answer == [call |-> calls + 1, prices |-> Fetched(s, Seen(view))]
          IN  /\ s = "Kitco" => KitcoAnswers(Seen(view))
              /\ timed' = [timed EXCEPT ![s] = answer]
              /\ pull' = [Quote(answer) EXCEPT !.once = Remember(@, s, answer),
                                               !.used = @ \cup {<<s, calls + 1>>}]
    BY <1>4, <1>9 DEF CallSource
  <2>2. PICK answer, n :
          n = calls + 1 /\ answer = [call |-> n, prices |-> Fetched(s, Seen(view))]
    OBVIOUS
  <2>3. /\ timed' = [timed EXCEPT ![s] = answer]
        /\ pull' = [Quote(answer) EXCEPT !.once = Remember(@, s, answer), !.used = @ \cup {<<s, n>>}]
    BY <2>1, <2>2
  <2>4. Numbers(answer.prices)
    <3>1. Priceable(Seen(view))
      BY SeenPriceable
    <3>2. Numbers(Fetched(s, Seen(view)))
      BY <2>1, <3>1, FetchedNumbers
    <3> QED
      BY <2>2, <3>2
  <2>5. answer # None
    <3>1. answer \in Answer
      BY <2>2 DEF PollInv, TimedInv, Answer
    <3> QED
      BY <3>1, PollingAssumption
  <2>6. \A t \in Services : Cached(t)' => Numbers(timed'[t].prices)
    BY <2>3, <2>4, <1>2, <1>3 DEF Cached
  <2>7. pull.once[s] = None
    BY <1>4, <1>9 DEF CallSource, MustCall
  <2>8. PICK once, used :
          /\ pull' = [Quote(answer) EXCEPT !.once = once, !.used = used]
          /\ once[s] = answer /\ \A t \in Services : pull.once[t] # None => once[t] = pull.once[t]
          /\ \A t \in Services : once[t] # None => Numbers(once[t].prices)
    BY <2>3, <2>4, <2>5, <2>7, <1>7
  <2> QED
    BY <2>4, <2>5, <2>6, <2>8
<1> QED
  BY <1>6, <1>8, <1>9

(* A pull begins with all the assets of the version to price.              *)
LEMMA StartPriced == PriceInv /\ StartPull => PriceInv'
<1> SUFFICES ASSUME PriceInv, StartPull PROVE PriceInv'
  OBVIOUS
<1>1. PICK pa, p : /\ pa = PulledAssets(config.version)
                   /\ p = [todo   |-> pa, ask |-> sources["PEG"],
                           prices |-> <<>>, err |-> FALSE, once |-> NewCachedDataSources,
                           used   |-> {}, chosen |-> <<>>]
  OBVIOUS
<1>2. pull' = p /\ UNCHANGED <<config, sources, timed, result>> /\ sources # None
  BY <1>1 DEF StartPull
<1>3. pa \in Seq(AllAssets) /\ pa # <<>> /\ pa[1] = "PEG"
  BY <1>1, ThePulledAssets
<1>4. Along(<<>>, pa, pa)
  <2>1. Len(pa) \in Nat /\ Len(<<>>) = 0 /\ 1..0 = {}
    BY <1>3
  <2> QED
    BY <2>1 DEF Along
<1>5. /\ p.todo = pa /\ p.prices = <<>> /\ p.chosen = <<>>
      /\ p.once = NewCachedDataSources /\ p.ask = sources["PEG"]
      /\ Fields \subseteq DOMAIN p
  BY <1>1 DEF Fields
<1>6. Head(pa) = "PEG" /\ \A s \in Services : NewCachedDataSources[s] = None
  BY <1>3 DEF NewCachedDataSources
<1>7. p.prices \in Seq(Quotation) /\ p.chosen \in Seq(Choice) /\ Len(p.chosen) = 0 /\ Len(p.prices) = 0 /\ 1..0 = {}
  BY <1>5
<1>8. AskedTo(p, "PEG", 0)
  <2>1. IsList(sources["PEG"])
    BY <1>2, TheAssets DEF PriceInv, Configured
  <2>2. Rest(sources["PEG"], 0) = sources["PEG"] /\ 0 \in 0..Len(sources["PEG"])
    BY <2>1, ListEnds DEF IsList
  <2> QED
    BY <2>2, <1>5 DEF AskedTo
<1>9. Pulling(p)
  BY <1>1, <1>3, <1>4, <1>5, <1>6, <1>7, <1>8 DEF Pulling
<1>10. \A s \in Services : Cached(s)' => Numbers(timed'[s].prices)
  BY <1>2 DEF PriceInv, Cached
<1>11. PICK r : r = result
  OBVIOUS
<1> QED
  BY <1>2, <1>9, <1>10, <1>11, PriceStep DEF PriceInv

(* Cutting leaves a number.                                                *)
LEMMA CutsKeep == \A v \in Nat : TruncateTo4(v) \in Nat /\ TruncateTo8(v) \in Nat
BY DEF TruncateTo4, TruncateTo8

(* The next asset: one more is priced, one fewer to price.                 *)
LEMMA NextAsset ==
  ASSUME NEW pa, NEW chosen \in Seq(Choice), NEW todo \in Seq(AllAssets), Along(chosen, todo, pa),
         todo # <<>>, NEW c \in Choice, c.asset = Head(todo)
  PROVE  /\ Append(chosen, c) \in Seq(Choice) /\ Tail(todo) \in Seq(AllAssets)
         /\ Along(Append(chosen, c), Tail(todo), pa)
         /\ \A i \in 1..Len(Append(chosen, c)) : \/ i \in 1..Len(chosen) /\ Append(chosen, c)[i] = chosen[i]
                                                 \/ Append(chosen, c)[i] = c
<1>1. PICK d, t : d = Append(chosen, c) /\ t = Tail(todo)
  OBVIOUS
<1>2. PICK n \in Nat, m \in Nat : n = Len(chosen) /\ m = Len(todo)
  OBVIOUS
<1>3. /\ d \in Seq(Choice) /\ Len(d) = n + 1 /\ d[n + 1] = c
      /\ \A i \in 1..n : d[i] = chosen[i]
  BY <1>1, <1>2, AppendProperties
<1>4. /\ t \in Seq(AllAssets) /\ Len(t) = m - 1 /\ m > 0
      /\ \A i \in 1..(m - 1) : t[i] = todo[i + 1]
  BY <1>1, <1>2, HeadTailProperties
<1>5. /\ n + m = Len(pa) /\ \A i \in 1..n : chosen[i].asset = pa[i]
      /\ \A i \in 1..m : todo[i] = pa[n + i]
  BY <1>2 DEF Along
<1>6. c.asset = pa[n + 1]
  <2>1. Head(todo) = todo[1] /\ 1 \in 1..m
    BY <1>4
  <2> QED
    BY <2>1, <1>5
<1>7. \A i \in 1..(n + 1) : i \in 1..n \/ i = n + 1
  OBVIOUS
<1>8. \A i \in 1..(n + 1) : d[i].asset = pa[i]
  BY <1>3, <1>5, <1>6, <1>7
<1>9. ASSUME NEW i \in 1..(m - 1) PROVE t[i] = pa[n + 1 + i]
  <2>1. i + 1 \in 1..m /\ n + (i + 1) = n + 1 + i
    OBVIOUS
  <2> QED
    BY <2>1, <1>4, <1>5
<1>10. Along(d, t, pa)
  BY <1>3, <1>4, <1>5, <1>8, <1>9 DEF Along
<1> QED
  BY <1>1, <1>2, <1>3, <1>4, <1>7, <1>10

(* A price found.                                                          *)
LEMMA FoundPriced == PollInv /\ PriceInv /\ PriceFound => PriceInv'
<1> SUFFICES ASSUME PollInv, PriceInv, PriceFound PROVE PriceInv'
  OBVIOUS
<1>1. /\ pull # None /\ pull.todo # <<>> /\ pull.ask = <<>>
      /\ UNCHANGED <<config, sources, timed, result>>
  BY DEF PriceFound
<1>2. Pulling(pull) /\ \A a \in AllAssets : IsList(sources[a])
  BY <1>1 DEF PriceInv, Configured, PollInv, PullInv
<1>3. /\ {"todo", "ask", "prices", "err", "once", "used", "chosen"} \subseteq DOMAIN pull
      /\ pull.prices \in Seq(Quotation) /\ pull.chosen \in Seq(Choice) /\ pull.todo \in Seq(AllAssets)
      /\ Along(pull.chosen, pull.todo, PulledAssets(config.version))
      /\ \A i \in 1..Len(pull.prices) : QuotedBy(pull.once, Asset, pull.prices[i])
      /\ \A s \in Services : pull.once[s] # None => Numbers(pull.once[s].prices)
      /\ \A i \in 1..Len(pull.chosen) : WellChosen(pull.once, pull.chosen[i])
  BY <1>1, <1>2 DEF Pulling, Fields, Asset
<1>4. PICK price, value :
        /\ pull' = Priced(price, value)
        /\ \/ /\ pull.prices # <<>> /\ price = BestOf(pull.prices) /\ value = price.value
           \/ /\ pull.prices = <<>> /\ ~pull.err /\ Asset = "PEG" /\ config.version # 3
              /\ price = None /\ value = 0
  BY DEF PriceFound
<1>5. PICK cut : cut = IF config.version = 1 THEN TruncateTo4(value) ELSE TruncateTo8(value)
  OBVIOUS
<1>6. PICK c : c = [asset |-> Asset, quote |-> price, quotes |-> pull.prices, value |-> cut]
  OBVIOUS
<1>7. c \in Choice /\ WellChosen(pull.once, c) /\ c.asset = Head(pull.todo)
  <2>1. Asset \in AllAssets /\ Asset = Head(pull.todo)
    BY <1>1, <1>3, HeadTailProperties DEF Asset
  <2>2. /\ c.asset = Asset /\ c.quote = price /\ c.quotes = pull.prices /\ c.value = cut
    BY <1>6
  <2>3. CASE pull.prices # <<>>
    <3>1. price \in Quotation /\ price = BestOf(pull.prices) /\ value = price.value
      BY <2>3, <1>3, <1>4, BestIsQuoted
    <3>2. PICK i \in 1..Len(pull.prices) : price = pull.prices[i]
      BY <2>3, <3>1, <1>3, BestIsQuoted
    <3>3. value \in Nat /\ value > 0 /\ price # None
      BY <3>1, PollingAssumption DEF Quotation, Price
    <3>4. cut \in Nat
      BY <3>3, <1>5, CutsKeep
    <3>5. QuotedBy(pull.once, Asset, price)
      BY <3>2, <1>3
    <3>6. c \in Choice
      BY <2>1, <3>1, <3>4, <1>3, <1>6 DEF Choice
    <3>7. WellChosen(pull.once, c)
      BY <2>2, <3>1, <3>3, <3>5 DEF WellChosen
    <3> QED
      BY <2>1, <2>2, <3>6, <3>7
  <2>4. CASE pull.prices = <<>>
    <3>1. pull.err # TRUE /\ Asset = "PEG" /\ config.version # 3 /\ price = None /\ value = 0
      BY <2>4, <1>4
    <3>2. PICK k : AskedTo(pull, "PEG", k)
      BY <3>1, <2>1, <1>1, <1>2 DEF Pulling
    <3>3. PICK src : src = sources["PEG"] /\ IsList(src) /\ Len(src) \in Nat
      BY <1>2, TheAssets DEF IsList
    <3>4. k \in 0..Len(src) /\ Rest(src, k) = <<>>
      BY <3>2, <3>3, <1>1 DEF AskedTo
    <3>5. k = Len(src)
      BY <3>3, <3>4, ListEnds
    <3>6. ASSUME src # <<>> PROVE Answered(pull.once, Last(src), "PEG", 0)
      <4>1. k > 0
        BY <3>3, <3>5, <3>6, EmptySeq DEF IsList
      <4> QED
        BY <4>1, <3>1, <3>2, <3>3, <3>5, <2>4 DEF AskedTo, Last
    <3>7. cut \in Nat
      BY <3>1, <1>5, CutsKeep
    <3>8. c \in Choice
      BY <2>1, <3>1, <3>7, <1>3, <1>6 DEF Choice
    <3>9. WellChosen(pull.once, c)
      BY <2>2, <2>4, <3>1, <3>3, <3>6 DEF WellChosen
    <3> QED
      BY <2>1, <2>2, <3>8, <3>9
  <2> QED
    BY <2>3, <2>4
<1>8. PICK p : p = Priced(price, value)
  OBVIOUS
<1>9. PICK ask : ask = IF Tail(pull.todo) = <<>> THEN <<>> ELSE sources[pull.todo[2]]
  OBVIOUS
<1>10. p = [pull EXCEPT !.todo = Tail(pull.todo), !.prices = <<>>, !.err = FALSE, !.ask = ask,
                        !.chosen = Append(pull.chosen, c)]
  BY <1>3, <1>5, <1>6, <1>8, <1>9 DEF Priced
<1>11. /\ DOMAIN p = DOMAIN pull /\ p.todo = Tail(pull.todo) /\ p.prices = <<>>
       /\ p.ask = ask /\ p.chosen = Append(pull.chosen, c) /\ p.once = pull.once
  BY <1>3, <1>10
<1>12. /\ Append(pull.chosen, c) \in Seq(Choice) /\ Tail(pull.todo) \in Seq(AllAssets)
       /\ Along(Append(pull.chosen, c), Tail(pull.todo), PulledAssets(config.version))
       /\ \A i \in 1..Len(Append(pull.chosen, c)) :
            \/ i \in 1..Len(pull.chosen) /\ Append(pull.chosen, c)[i] = pull.chosen[i]
            \/ Append(pull.chosen, c)[i] = c
  BY <1>1, <1>3, <1>7, NextAsset
<1>13. p.todo # <<>> => AskedTo(p, Head(p.todo), 0)
  <2> SUFFICES ASSUME p.todo # <<>> PROVE AskedTo(p, Head(p.todo), 0)
    OBVIOUS
  <2>1. Len(Tail(pull.todo)) \in Nat /\ Len(Tail(pull.todo)) > 0
    BY <1>11, <1>12
  <2>2. Head(p.todo) = p.todo[1] /\ Tail(pull.todo)[1] = pull.todo[1 + 1]
    BY <2>1, <1>1, <1>3, <1>11, HeadTailProperties
  <2>3. p.ask = sources[Head(p.todo)] /\ Head(p.todo) \in AllAssets
    BY <2>1, <2>2, <1>9, <1>11, <1>12
  <2>4. PICK src : src = sources[Head(p.todo)] /\ IsList(src)
    BY <2>3, <1>2
  <2>5. Rest(src, 0) = src /\ 0 \in 0..Len(src)
    BY <2>4, ListEnds DEF IsList
  <2> QED
    BY <2>3, <2>4, <2>5 DEF AskedTo
<1>14. \A i \in 1..Len(p.chosen) : WellChosen(p.once, p.chosen[i])
  BY <1>3, <1>7, <1>11, <1>12
<1>15. p.prices \in Seq(Quotation) /\ Len(p.prices) = 0 /\ 1..0 = {} /\ Fields \subseteq DOMAIN p
       /\ (p.todo = <<>> => p.ask = <<>>)
  BY <1>3, <1>9, <1>11 DEF Fields
<1>16. Pulling(p)
  BY <1>3, <1>11, <1>12, <1>13, <1>14, <1>15 DEF Pulling
<1>17. \A s \in Services : Cached(s)' => Numbers(timed'[s].prices)
  BY <1>1 DEF PriceInv, Cached
<1>18. PICK r : r = result
  OBVIOUS
<1> QED
  BY <1>1, <1>4, <1>8, <1>16, <1>17, <1>18, PriceStep DEF PriceInv

(* A pull that ends has nothing left to price.                             *)
LEMMA EndPriced == PollInv /\ PriceInv /\ EndPull => PriceInv'
<1> SUFFICES ASSUME PollInv, PriceInv, EndPull PROVE PriceInv'
  OBVIOUS
<1>1. /\ pull # None /\ pull.todo = <<>> /\ pull' = None /\ result' = pull
      /\ UNCHANGED <<config, sources, timed>>
  BY DEF EndPull
<1>2. Pulling(pull) /\ sources # None /\ Configured
  BY <1>1 DEF PollInv, PullInv, PriceInv
<1>3. PICK r, pa : r = pull /\ pa = PulledAssets(config.version)
  OBVIOUS
<1>4. /\ r.chosen \in Seq(Choice) /\ Along(r.chosen, <<>>, pa)
      /\ \A i \in 1..Len(r.chosen) : WellChosen(r.once, r.chosen[i])
  BY <1>1, <1>2, <1>3 DEF Pulling
<1>5. pa \in Seq(AllAssets)
  BY <1>3, ThePulledAssets
<1>6. PICK n \in Nat : n = Len(r.chosen) /\ DOMAIN r.chosen = 1..n
  BY <1>4
<1>7. Len(pa) = n /\ DOMAIN pa = 1..n /\ \A i \in 1..n : r.chosen[i].asset = pa[i]
  <2>1. Len(<<>>) = 0 /\ Len(pa) \in Nat /\ DOMAIN pa = 1..Len(pa)
    BY <1>5
  <2> QED
    BY <2>1, <1>4, <1>6 DEF Along
<1>8. [i \in DOMAIN r.chosen |-> r.chosen[i].asset] = pa
  <2>1. pa = [i \in 1..n |-> pa[i]]
    BY <1>5, <1>7
  <2> QED
    BY <2>1, <1>6, <1>7
<1>9. \A c \in Range(r.chosen) : WellChosen(r.once, c)
  BY <1>4, <1>6 DEF Range
<1>10. AllPriced(r)
  BY <1>3, <1>8, <1>9 DEF AllPriced
<1>11. \A s \in Services : Cached(s)' => Numbers(timed'[s].prices)
  BY <1>1 DEF PriceInv, Cached
<1>12. PICK p : p = None
  OBVIOUS
<1> QED
  BY <1>1, <1>2, <1>3, <1>10, <1>11, <1>12, PriceStep

(* NewDataSources gives every asset a list of services.                    *)
LEMMA SourcesListed ==
  ASSUME config \in Configs, Enabled \subseteq Services
  PROVE  \A a \in AllAssets : IsList(AssetSources[a])
<1> SUFFICES ASSUME NEW a \in AllAssets PROVE IsList(AssetSources[a])
  OBVIOUS
<1>1. CASE a \in DOMAIN config.override
  <2>1. PICK s \in Seq(STRING) : s = AssetSources[a]
    BY <1>1, PollingAssumption DEF AssetSources
  <2>2. \A i \in 1..Len(s) : s[i] \in Range(s)
    BY DEF Range
  <2>3. s \in [1..Len(s) -> Range(s)] /\ Len(s) \in Nat
    BY <2>2
  <2> QED
    BY <2>1, <2>3, ListOf DEF IsList
<1>2. CASE a \notin DOMAIN config.override
  <2> DEFINE T == {s \in Enabled : a \in SupportedPegs(s)}
             l == SetToSeq(T)
             s == StableSort(l, Ahead)
  <2>1. AssetSources[a] = s
    BY <1>2 DEF AssetSources, sortPriorityList
  <2>2. IsFiniteSet(T)
    <3>1. IsFiniteSet(Services)
      <4> DEFINE f == <<"APILayer", "ExchangeRates", "OpenExchangeRates", "FreeForexAPI", "1Forge",
                        "Kitco", "CoinCap", "CoinGecko", "CoinMarketCap", "AlternativeMe",
                        "PegnetMarketCap", "Factoshiio", "FixedUSD">>
      <4>1. f \in Surjection(1..13, Services)
        BY DEF Surjection, Services
      <4>2. IsFiniteSet(1..13)
        <5>1. 1 \in Int /\ 13 \in Int
          OBVIOUS
        <5> QED
          BY <5>1, FS_Interval
      <4> HIDE DEF f
      <4> QED
        BY <4>1, <4>2, FS_Surjection
    <3> QED
      BY <3>1, FS_Subset
  <2>3. Len(l) \in Nat
    <3> DEFINE n == Cardinality(T)
    <3>1. n \in Nat
      BY <2>2, FS_CardinalityType
    <3>2. \E f \in [1..n -> T] : IsInjective(f)
      <4>1. ExistsBijection(1..n, T)
        BY <2>2, FS_CardinalityType
      <4> QED
        BY <4>1 DEF ExistsBijection, Bijection, Injection, IsInjective
    <3>3. l \in [1..n -> T]
      BY <3>2 DEF SetToSeq
    <3> QED
      BY <3>1, <3>3, ListOf
  <2>4. PICK n \in Nat : n = Len(l)
    BY <2>3
  <2>5. PICK o : s = [k \in 1..n |-> l[o[k]]]
    BY <2>4 DEF StableSort
  <2> HIDE DEF s
  <2>6. s \in [1..n -> Range(s)]
    BY <2>5 DEF Range
  <2> QED
    BY <2>1, <2>6, ListOf DEF IsList
<1> QED
  BY <1>1, <1>2

(* The other steps.                                                        *)
LEMMA OthersPriced ==
  ASSUME PollInv, PriceInv,
         \/ NewDataSources \/ CallFails \/ AskUnknown \/ NoPrice
         \/ (\E s \in Services : Expire(s)) \/ UNCHANGED pollingVars
  PROVE  PriceInv'
<1>1. CASE NewDataSources
  <2>1. sources = None /\ UNCHANGED <<config, timed, pull, result>>
    BY <1>1 DEF NewDataSources
  <2>2. pull = None /\ result = None /\ config \in Configs
    BY <2>1 DEF PollInv, PullInv, PriceInv, Configured
  <2>3. sources' # None => sources' = AssetSources /\ Enabled \subseteq Services
    BY <2>1, <1>1 DEF NewDataSources
  <2>4. sources' # None => \A a \in AllAssets : IsList(sources'[a])
    BY <2>2, <2>3, SourcesListed
  <2> QED
    BY <2>1, <2>2, <2>4 DEF PriceInv, Cached, Configured
<1>2. ASSUME UNCHANGED <<config, sources, timed>>, result' = result \/ result' = None,
             pull' = pull \/ pull' = None \/ Pulling(pull')
      PROVE  PriceInv'
  <2>1. \A s \in Services : Cached(s)' => Numbers(timed'[s].prices)
    BY <1>2 DEF PriceInv, Cached
  <2>2. PICK p, r : p = pull' /\ r = result'
    OBVIOUS
  <2>3. p # None => Pulling(p)
    BY <2>2, <1>2 DEF PriceInv
  <2>4. r # None => sources # None /\ AllPriced(r)
    BY <2>2, <1>2 DEF PriceInv
  <2>5. Configured
    BY DEF PriceInv
  <2> QED
    BY <2>1, <2>2, <2>3, <2>4, <2>5, <1>2, PriceStep
<1>3. CASE CallFails
  <2>1. /\ UNCHANGED <<config, sources, timed, result>> /\ pull # None /\ pull.ask # <<>>
        /\ pull' = pull \/ pull' = [pull EXCEPT !.ask = Tail(@), !.err = TRUE]
    BY <1>3 DEF CallFails, MustCall, Asking
  <2>2. Pulling(pull) /\ \A a \in AllAssets : IsList(sources[a])
    BY <2>1 DEF PriceInv, Configured, PollInv, PullInv
  <2>3. PICK p : p = [pull EXCEPT !.ask = Tail(@), !.err = TRUE]
    OBVIOUS
  <2>4. {"todo", "ask", "prices", "err", "once", "used", "chosen"} \subseteq DOMAIN pull
    BY <2>2 DEF Pulling, Fields
  <2>5. /\ DOMAIN p = DOMAIN pull /\ p.todo = pull.todo /\ p.prices = pull.prices /\ p.err = TRUE
        /\ p.chosen = pull.chosen /\ p.once = pull.once /\ p.ask = Tail(pull.ask)
    BY <2>3, <2>4
  <2>6. pull.todo # <<>> /\ pull.todo \in Seq(AllAssets)
    BY <2>1, <2>2 DEF Pulling
  <2>7. PICK k, a : a \in AllAssets /\ a = Head(pull.todo) /\ AskedTo(pull, a, k)
    BY <2>2, <2>6, HeadTailProperties DEF Pulling
  <2>8. PICK src : src = sources[a] /\ IsList(src) /\ k \in 0..Len(src) /\ pull.ask = Rest(src, k)
    BY <2>2, <2>7 DEF AskedTo
  <2>9. k + 1 \in 1..Len(src) /\ p.ask = Rest(src, k + 1)
    BY <2>1, <2>5, <2>8, AskNext
  <2>10. AskedTo(p, a, k + 1)
    BY <2>5, <2>8, <2>9 DEF AskedTo
  <2>11. Pulling(p)
    BY <2>2, <2>5, <2>6, <2>7, <2>10 DEF Pulling
  <2> QED
    BY <2>1, <2>3, <2>11, <1>2
<1>4. CASE NoPrice
  <2>1. UNCHANGED <<config, sources, timed>> /\ pull' = None /\ result' = None
    BY <1>4 DEF NoPrice
  <2> QED
    BY <2>1, <1>2
<1>5. CASE AskUnknown \/ UNCHANGED pollingVars \/ \E s \in Services : Expire(s)
  <2>1. UNCHANGED <<config, sources, timed, pull, result>>
    BY <1>5 DEF AskUnknown, pollingVars, Expire
  <2> QED
    BY <2>1, <1>2
<1> QED
  BY <1>1, <1>3, <1>4, <1>5

(* The invariant holds of every state.                                     *)
LEMMA AlwaysPriced == PollingSpec => [](PollInv /\ PriceInv)
<1>1. InitPolling => PollInv
  BY PollInit
<1>2. InitPolling => PriceInv
  BY DEF InitPolling, PriceInv, Cached, Configured
<1>3. PollInv /\ [NextPolling]_pollingVars => PollInv'
  BY PollNext
<1>4. PollInv /\ PriceInv /\ [NextPolling]_pollingVars => PriceInv'
  BY AnswersPriced, StartPriced, FoundPriced, EndPriced, OthersPriced DEF NextPolling
<1> QED
  BY <1>1, <1>2, <1>3, <1>4, PTL DEF PollingSpec

(* In version 5 no single service sets a price: of three quotes or more of *)
(* which all but one agree, the price chosen is within the tolerance of    *)
(* those that agree (PullBestPrice, TrimmedMean).                          *)
THEOREM OutlierNeverWins == PollingSpec => []OneOutlierDoesNotWin
<1>1. PriceInv => OneOutlierDoesNotWin
  <2> SUFFICES ASSUME PriceInv, pull # None, config.version = 5, NEW c \in Range(pull.chosen),
                      NEW v \in Range(Values(c.quotes)), Len(c.quotes) >= 3,
                      Cardinality({i \in DOMAIN c.quotes : c.quotes[i].value = v}) >= Len(c.quotes) - 1
               PROVE  WithinBand(c.quote.value, [sum |-> v, count |-> 1])
    BY DEF OneOutlierDoesNotWin
  <2>1. /\ pull.chosen \in Seq(Choice)
        /\ \A i \in 1..Len(pull.chosen) : WellChosen(pull.once, pull.chosen[i])
    BY DEF PriceInv, Pulling
  <2>2. c \in Choice /\ WellChosen(pull.once, c)
    BY <2>1 DEF Range
  <2>3. c.quotes \in Seq(Quotation)
    BY <2>2 DEF Choice
  <2>4. c.quotes # <<>>
    BY <2>3
  <2>5. c.quote = BestOf(c.quotes)
    BY <2>2, <2>4 DEF WellChosen
  <2>6. v \in Price
    <3>1. PICK i \in DOMAIN c.quotes : v = c.quotes[i].value
      BY DEF Range, Values
    <3>2. c.quotes[i] \in Quotation
      BY <2>3
    <3> QED
      BY <3>1, <3>2 DEF Quotation
  <2> QED
    BY <2>3, <2>5, <2>6, OutlierLoses
<1> QED
  BY <1>1, AlwaysPriced, PTL

(* A pull that ends has priced every asset of its version, in order, with  *)
(* what a service of the asset answered and not with zero; only PEG may go *)
(* without, if nothing is configured for it or the last service answered   *)
(* zero (PullAllPEGAssets, PullBestPrice).                                 *)
THEOREM AllAssetsPriced == PollingSpec => []EveryAssetIsPriced
<1>1. PriceInv => EveryAssetIsPriced
  <2> SUFFICES ASSUME PriceInv, result # None PROVE EveryAssetIsPriced
    BY DEF EveryAssetIsPriced
  <2>1. AllPriced(result)
    BY DEF PriceInv
  <2>2. ASSUME NEW c \in Range(result.chosen)
        PROVE  LET asked    == sources[c.asset]
                   quote(s) == IF result.once[s] = None THEN None ELSE result.once[s].prices[c.asset]
               IN  IF c.quote # None
                   THEN /\ c.quote.source \in Range(asked)
                        /\ c.quote.value = quote(c.quote.source) /\ c.quote.value > 0
                   ELSE /\ c.asset = "PEG" /\ config.version # 3
                        /\ asked # <<>> => quote(Last(asked)) = 0
    <3>1. WellChosen(result.once, c)
      BY <2>1, <2>2 DEF AllPriced
    <3>2. CASE c.quote # None
      BY <3>1, <3>2 DEF WellChosen, QuotedBy, Answered
    <3>3. CASE c.quote = None
      BY <3>1, <3>3 DEF WellChosen, Answered
    <3> QED
      BY <3>2, <3>3
  <2> QED
    BY <2>1, <2>2 DEF AllPriced, EveryAssetIsPriced
<1> QED
  BY <1>1, AlwaysPriced, PTL

-----------------------------------------------------------------------------
(***************************************************************************)
(* The best nonces. A list that keeps the best of what it was offered      *)
(* keeps the best when one more is offered: how many it has of at least a  *)
(* difficulty is how many it was offered, up to its slots.                 *)
(***************************************************************************)
(* So many of a list's nonces can be counted.                              *)
LEMMA CountType ==
  ASSUME NEW s \in Seq(Nat), NEW d
  PROVE  AtLeast(s, d) \in Nat /\ AtLeast(s, d) <= Len(s) /\ IsFiniteSet({i \in DOMAIN s : s[i] >= d})
<1>1. PICK n \in Nat, D \in {DOMAIN s} : n = Len(s) /\ D = DOMAIN s /\ D = 1..n
  OBVIOUS
<1>2. IsFiniteSet(D) /\ Cardinality(D) = n
  <2>1. /\ IsFiniteSet(1..n)
        /\ Cardinality(1..n) = IF 1 > n THEN 0 ELSE n - 1 + 1
    <3>1. 1 \in Int /\ n \in Int
      BY <1>1
    <3> QED
      BY <3>1, FS_Interval, Zenon
  <2> QED
    BY <2>1, <1>1
<1> DEFINE A == {i \in D : s[i] >= d}
<1>3. A \subseteq D
  OBVIOUS
<1>4. AtLeast(s, d) = Cardinality(A)
  BY <1>1 DEF AtLeast
<1> HIDE DEF A
<1>5. IsFiniteSet(A) /\ Cardinality(A) <= n /\ Cardinality(A) \in Nat
  BY <1>2, <1>3, FS_Subset, FS_CardinalityType
<1> QED
  BY <1>1, <1>4, <1>5 DEF A

(* One more nonce.                                                         *)
LEMMA CountAppend ==
  ASSUME NEW s \in Seq(Nat), NEW x \in Nat, NEW d \in Nat
  PROVE  AtLeast(Append(s, x), d) = AtLeast(s, d) + (IF x >= d THEN 1 ELSE 0)
<1>0. Len(s) \in Nat /\ Append(s, x) \in Seq(Nat)
  OBVIOUS
<1>1. PICK n \in Nat, t \in Seq(Nat) : n = Len(s) /\ t = Append(s, x)
  BY <1>0
<1>2. /\ DOMAIN s = 1..n /\ DOMAIN t = 1..(n + 1) /\ t[n + 1] = x
      /\ \A i \in 1..n : t[i] = s[i]
  BY <1>1, AppendProperties
<1> DEFINE A == {i \in DOMAIN s : s[i] >= d}
           B == {i \in DOMAIN t : t[i] >= d}
<1>3. IsFiniteSet(A) /\ Cardinality(A) = AtLeast(s, d) /\ AtLeast(s, d) \in Nat
  BY CountType DEF AtLeast
<1>4. n + 1 \notin A
  BY <1>2
<1>5. \A i \in 1..(n + 1) : i \in 1..n \/ i = n + 1
  OBVIOUS
<1>6. 1..n \subseteq 1..(n + 1) /\ n + 1 \in 1..(n + 1)
  OBVIOUS
<1>7. B = IF x >= d THEN A \cup {n + 1} ELSE A
  BY <1>2, <1>5, <1>6
<1>8. AtLeast(t, d) = Cardinality(B)
  BY DEF AtLeast
<1> HIDE DEF A, B
<1>9. Cardinality(A \cup {n + 1}) = Cardinality(A) + 1
  BY <1>3, <1>4, FS_AddElement
<1> QED
  BY <1>1, <1>3, <1>7, <1>8, <1>9

(* n with old gone is m with new come, when at least d counts.             *)
Exchanged(n, old, m, new, d) ==
  n + (IF old >= d THEN 1 ELSE 0) = m + (IF new >= d THEN 1 ELSE 0)

(* A nonce in the place of another.                                        *)
LEMMA CountReplaced ==
  ASSUME NEW s \in Seq(Nat), NEW w \in 1..Len(s), NEW x \in Nat, NEW d \in Nat,
         NEW t, t = [s EXCEPT ![w] = x]
  PROVE  Exchanged(AtLeast(t, d), s[w], AtLeast(s, d), x, d)
<1>1. t \in Seq(Nat) /\ DOMAIN t = DOMAIN s /\ w \in DOMAIN s /\ t[w] = x
      /\ \A i \in DOMAIN s : i # w => t[i] = s[i]
  OBVIOUS
<1> DEFINE A == {i \in DOMAIN s : s[i] >= d}
           B == {i \in DOMAIN t : t[i] >= d}
<1>2. /\ IsFiniteSet(A) /\ Cardinality(A) = AtLeast(s, d) /\ AtLeast(s, d) \in Nat
      /\ IsFiniteSet(B) /\ Cardinality(B) = AtLeast(t, d) /\ AtLeast(t, d) \in Nat
  BY <1>1, CountType DEF AtLeast
<1>3. A \ {w} = B \ {w}
  BY <1>1
<1>4. (w \in A <=> s[w] >= d) /\ (w \in B <=> x >= d)
  BY <1>1
<1> HIDE DEF A, B
<1>5. /\ Cardinality(A \ {w}) = IF w \in A THEN Cardinality(A) - 1 ELSE Cardinality(A)
      /\ Cardinality(B \ {w}) = IF w \in B THEN Cardinality(B) - 1 ELSE Cardinality(B)
  BY <1>2, FS_RemoveElement
<1>6. PICK a \in Nat, b \in Nat : a = AtLeast(s, d) /\ b = AtLeast(t, d)
  BY <1>2
<1>7. (IF w \in A THEN a - 1 ELSE a) = IF w \in B THEN b - 1 ELSE b
  BY <1>2, <1>3, <1>5, <1>6
<1> QED
  BY <1>4, <1>6, <1>7 DEF Exchanged

(* A list with every nonce at least, and one with a nonce below.           *)
LEMMA CountEdges ==
  ASSUME NEW s \in Seq(Nat), NEW d \in Nat
  PROVE  /\ (\A i \in 1..Len(s) : s[i] >= d) => AtLeast(s, d) = Len(s)
         /\ (\E i \in 1..Len(s) : s[i] < d) => AtLeast(s, d) < Len(s)
<1>1. PICK n \in Nat, D \in {DOMAIN s} : n = Len(s) /\ D = DOMAIN s /\ D = 1..n
  OBVIOUS
<1>2. IsFiniteSet(D) /\ Cardinality(D) = n
  <2>1. /\ IsFiniteSet(1..n)
        /\ Cardinality(1..n) = IF 1 > n THEN 0 ELSE n - 1 + 1
    <3>1. 1 \in Int /\ n \in Int
      BY <1>1
    <3> QED
      BY <3>1, FS_Interval, Zenon
  <2> QED
    BY <2>1, <1>1
<1> DEFINE A == {i \in D : s[i] >= d}
<1>3. AtLeast(s, d) = Cardinality(A)
  BY <1>1 DEF AtLeast
<1>4. ASSUME \A i \in 1..n : s[i] >= d PROVE AtLeast(s, d) = n
  <2>1. A = D
    BY <1>1, <1>4
  <2> QED
    BY <2>1, <1>2, <1>3
<1>5. ASSUME NEW i \in 1..n, s[i] < d PROVE AtLeast(s, d) < n
  <2>1. A \subseteq D \ {i} /\ i \in D
    BY <1>1, <1>5
  <2> HIDE DEF A
  <2>2. IsFiniteSet(D \ {i}) /\ Cardinality(D \ {i}) = n - 1
    BY <2>1, <1>2, FS_RemoveElement
  <2>3. IsFiniteSet(A) /\ Cardinality(A) <= Cardinality(D \ {i})
    BY <2>1, <2>2, FS_Subset, Zenon
  <2>4. Cardinality(A) <= n - 1 /\ Cardinality(A) \in Nat
    BY <2>2, <2>3, FS_CardinalityType
  <2> QED
    BY <2>4, <1>1, <1>3
<1> QED
  BY <1>1, <1>4, <1>5

(* What fits in the slots.                                                 *)
Capped(n) == IF n < Keep THEN n ELSE Keep

BestSoFar(kept, all) ==
  /\ Len(kept) = Capped(Len(all))
  /\ \A d \in Difficulties : AtLeast(kept, d) = Capped(AtLeast(all, d))

(* AddNonce keeps the best.                                                *)
LEMMA AddKeepsBest ==
  ASSUME NEW r \in Ranking, RememberedWorst(r), NEW all \in Seq(Nat), BestSoFar(r.List, all), NEW x \in Nat
  PROVE  BestSoFar(AddNonce(r, x).List, Append(all, x))
<1>1. PICK s \in Seq(Nat), k \in Nat, n \in Nat, N \in Nat :
        s = r.List /\ k = Keep /\ k > 0 /\ n = Len(s) /\ N = Len(all)
  <2>1. r.List \in Seq(Nat) /\ Keep \in Nat /\ Keep > 0
    BY RankingAssumption DEF Ranking
  <2>2. Len(r.List) \in Nat /\ Len(all) \in Nat
    BY <2>1
  <2> QED
    BY <2>1, <2>2
<1>2. /\ n = (IF N < k THEN N ELSE k)
      /\ \A d \in Difficulties : AtLeast(s, d) = IF AtLeast(all, d) < k THEN AtLeast(all, d) ELSE k
  BY <1>1 DEF BestSoFar, Capped
<1>3. \A d \in Difficulties : d \in Nat /\ AtLeast(all, d) \in Nat /\ AtLeast(s, d) \in Nat
                              /\ AtLeast(s, d) <= n
  BY <1>1, CountType, RankingAssumption
<1>4. Len(Append(all, x)) = N + 1
        /\ \A d \in Difficulties : AtLeast(Append(all, x), d) = AtLeast(all, d) + (IF x >= d THEN 1 ELSE 0)
  BY <1>1, <1>3, CountAppend, AppendProperties
<1>5. PICK t : t = AddNonce(r, x).List
  OBVIOUS
<1>6. SUFFICES /\ Len(t) = (IF N + 1 < k THEN N + 1 ELSE k)
               /\ \A d \in Difficulties :
                    AtLeast(t, d) = IF AtLeast(all, d) + (IF x >= d THEN 1 ELSE 0) < k
                                    THEN AtLeast(all, d) + (IF x >= d THEN 1 ELSE 0) ELSE k
  BY <1>1, <1>4, <1>5, <1>6 DEF BestSoFar, Capped
<1>7. CASE n < k
  <2>1. t = Append(s, x)
    BY <1>1, <1>5, <1>7 DEF AddNonce, TakeSlot
  <2>2. Len(t) = n + 1 /\ \A d \in Difficulties : AtLeast(t, d) = AtLeast(s, d) + (IF x >= d THEN 1 ELSE 0)
    BY <2>1, <1>1, <1>3, CountAppend, AppendProperties
  <2>3. \A d \in Difficulties : AtLeast(s, d) < k /\ AtLeast(all, d) = AtLeast(s, d)
    BY <1>2, <1>3, <1>7, <1>1
  <2> QED
    BY <2>2, <2>3, <1>1, <1>2, <1>3, <1>7
<1>8. CASE ~(n < k)
  <2>1. n = k /\ ~(N < k)
    BY <1>1, <1>2, <1>8
  <2>2. PICK w \in 1..n, v \in Nat :
          /\ w = r.WorstIndex /\ v = r.WorstDiff /\ s[w] = v /\ \A i \in 1..n : v <= s[i]
    <3>1. s # <<>> /\ DOMAIN s = 1..n
      BY <2>1, <1>1
    <3> QED
      BY <3>1, <1>1 DEF RememberedWorst, Ranking
  <2>3. \A i \in 1..n : s[i] \in Nat
    BY <1>1
  <2>4. ASSUME NEW d \in Difficulties, d <= v PROVE AtLeast(s, d) = k /\ ~(AtLeast(all, d) < k)
    <3>0. d \in Nat
      BY <1>3
    <3>1. \A i \in 1..Len(s) : s[i] >= d
      <4>1. ASSUME NEW i \in 1..n PROVE s[i] >= d
        BY <3>0, <4>1, <2>2, <2>3, <2>4
      <4> QED
        BY <4>1, <1>1
    <3>2. AtLeast(s, d) = n
      BY <3>1, <1>1, <1>3, CountEdges
    <3>3. PICK c \in Nat : c = AtLeast(all, d)
      BY <1>3
    <3> QED
      BY <3>2, <3>3, <2>1, <1>2
  <2>5. ASSUME NEW d \in Difficulties, ~(d <= v) PROVE AtLeast(s, d) < k /\ AtLeast(all, d) = AtLeast(s, d)
    <3>0. d \in Nat
      BY <1>3
    <3>1. \E i \in 1..Len(s) : s[i] < d
      <4>1. s[w] < d
        BY <3>0, <2>2, <2>5
      <4> QED
        BY <4>1, <1>1
    <3>2. AtLeast(s, d) < n
      BY <3>1, <1>1, <1>3, CountEdges
    <3>3. PICK c \in Nat : c = AtLeast(all, d)
      BY <1>3
    <3> QED
      BY <3>2, <3>3, <2>1, <1>2, <1>1
  <2>6. CASE x < v
    <3>1. t = s
      BY <2>1, <2>2, <2>6, <1>1, <1>5 DEF AddNonce
    <3>2. ASSUME NEW d \in Difficulties
          PROVE  AtLeast(t, d) = IF AtLeast(all, d) + (IF x >= d THEN 1 ELSE 0) < k
                                 THEN AtLeast(all, d) + (IF x >= d THEN 1 ELSE 0) ELSE k
      <4>1. PICK a \in Nat, c \in Nat : a = AtLeast(s, d) /\ c = AtLeast(all, d) /\ d \in Nat
        BY <1>3
      <4>2. (d <= v => a = k /\ ~(c < k)) /\ (~(d <= v) => a < k /\ c = a)
        BY <4>1, <2>4, <2>5
      <4> QED
        BY <4>1, <4>2, <3>1, <2>2, <2>6, <1>1
    <3> QED
      BY <3>1, <3>2, <2>1, <1>1
  <2>7. CASE ~(x < v)
    <3>1. t = [s EXCEPT ![w] = x]
      BY <2>1, <2>2, <2>7, <1>1, <1>5 DEF AddNonce, Replace
    <3>2. Len(t) = n
      BY <3>1, <1>1
    <3>3. ASSUME NEW d \in Difficulties
          PROVE  AtLeast(t, d) = IF AtLeast(all, d) + (IF x >= d THEN 1 ELSE 0) < k
                                 THEN AtLeast(all, d) + (IF x >= d THEN 1 ELSE 0) ELSE k
      <4>1. PICK a \in Nat, c \in Nat : a = AtLeast(s, d) /\ c = AtLeast(all, d) /\ d \in Nat
        BY <1>3
      <4>2. (d <= v => a = k /\ ~(c < k)) /\ (~(d <= v) => a < k /\ c = a)
        BY <4>1, <2>4, <2>5
      <4>3. AtLeast(t, d) + (IF v >= d THEN 1 ELSE 0) = a + (IF x >= d THEN 1 ELSE 0)
        <5>1. w \in 1..Len(s) /\ d \in Nat
          BY <4>1, <1>1
        <5>2. Exchanged(AtLeast(t, d), s[w], AtLeast(s, d), x, d)
          BY <5>1, <3>1, CountReplaced
        <5> QED
          BY <5>2, <4>1, <2>2 DEF Exchanged
      <4>4. AtLeast(t, d) \in Nat
        <5>1. t \in Seq(Nat)
          BY <3>1, <1>1
        <5> QED
          BY <5>1, CountType
      <4> QED
        BY <4>1, <4>2, <4>3, <4>4, <2>2, <2>7, <1>1
    <3> QED
      BY <3>2, <3>3, <2>1, <1>1
  <2> QED
    BY <2>2, <2>6, <2>7
<1> QED
  BY <1>7, <1>8

(* f takes the members of A to those of B, one to one.                     *)
OneToOne(f, A, B) ==
  /\ f \in [A -> B] /\ \A x, y \in A : f[x] = f[y] => x = y
  /\ \A y \in B : \E x \in A : f[x] = y

(* Sets with a one-to-one correspondence.                                  *)
LEMMA SameCount ==
  ASSUME NEW A, NEW B, IsFiniteSet(A), NEW f, OneToOne(f, A, B)
  PROVE  IsFiniteSet(B) /\ Cardinality(B) = Cardinality(A)
<1>1. f \in Bijection(A, B)
  BY DEF OneToOne, Bijection, Injection, IsInjective, Surjection
<1> QED
  BY <1>1, FS_Bijection DEF ExistsBijection

(* t has the nonces of s, the highest difficulty first.                    *)
HardestFirst(t, s) ==
  /\ t \in Seq(Nat) /\ Len(t) = Len(s)
  /\ \A d \in Nat : AtLeast(t, d) = AtLeast(s, d)
  /\ \A i, j \in 1..Len(t) : i < j => t[i] >= t[j]

(* SortNonceRanks keeps the nonces.                                        *)
LEMMA SortedNonces ==
  ASSUME NEW s \in Seq(Nat)
  PROVE  HardestFirst(SortNonceRanks(s), s)
<1>0. Len(s) \in Nat /\ s \in [1..Len(s) -> Nat]
  BY LenProperties
<1>1. PICK n \in Nat : n = Len(s)
  BY <1>0
<1> DEFINE D == 1..n
           R == {p \in D \X D :
                   \/ Harder(s[p[1]], s[p[2]])
                   \/ p[1] < p[2] /\ ~Harder(s[p[2]], s[p[1]])}
           o == InOrder(n, R)
           key == [i \in D |-> 0 - s[i]]
           t == [k \in D |-> s[o[k]]]
<1>2. SortNonceRanks(s) = t
  BY <1>1 DEF SortNonceRanks, StableSort
<1>3. s \in [D -> Nat] /\ key \in [D -> Int] /\ \A i \in D : s[i] \in Nat /\ key[i] = 0 - s[i]
  BY <1>0, <1>1
<1> HIDE DEF key
<1>4. ASSUME NEW i \in D, NEW j \in D PROVE Harder(s[i], s[j]) <=> key[i] < key[j]
  <2>1. PICK x \in Nat, y \in Nat : x = s[i] /\ y = s[j] /\ key[i] = 0 - x /\ key[j] = 0 - y
    BY <1>3
  <2>2. x > y <=> 0 - x < 0 - y
    OBVIOUS
  <2> QED
    BY <2>1, <2>2 DEF Harder
<1>5. \A i, j \in D : <<i, j>> \in R <=> key[i] < key[j] \/ (i < j /\ ~(key[j] < key[i]))
  BY <1>4
<1>6. StrictOrder(n, R)
  <2> HIDE DEF R
  <2> QED
    BY <1>3, <1>5, KeyOrder
<1> HIDE DEF R
<1>7. /\ o \in [D -> D] /\ \A j, k \in D : j < k => <<o[j], o[k]>> \in R
      /\ \A j, k \in D : o[j] = o[k] => j = k
      /\ \A i \in D : \E k \in D : o[k] = i
  BY <1>6, InOrderSorts
<1> HIDE DEF o
<1>8. t \in [1..n -> Nat] /\ \A k \in D : t[k] = s[o[k]] /\ o[k] \in D
  BY <1>3, <1>7
<1> HIDE DEF t
<1>9. t \in Seq(Nat) /\ Len(t) = n
  BY <1>8, ListOf
<1>10. ASSUME NEW i \in D, NEW j \in D, i < j PROVE t[i] >= t[j]
  <2>1. PICK a \in D, b \in D : a = o[i] /\ b = o[j]
    BY <1>7
  <2>2. <<a, b>> \in R
    BY <2>1, <1>7, <1>10
  <2>3. PICK x \in Nat, y \in Nat : x = s[a] /\ y = s[b]
    BY <1>3
  <2>4. key[a] = 0 - x /\ key[b] = 0 - y
    BY <2>3, <1>3
  <2>5. 0 - x < 0 - y \/ ~(0 - y < 0 - x)
    BY <2>2, <2>4, <1>5
  <2>6. x >= y
    BY <2>5
  <2> QED
    BY <2>1, <2>3, <2>6, <1>8
<1>11. ASSUME NEW d \in Nat PROVE AtLeast(t, d) = AtLeast(s, d)
  <2> DEFINE A == {i \in DOMAIN t : t[i] >= d}
             B == {i \in DOMAIN s : s[i] >= d}
             f == [i \in A |-> o[i]]
  <2>1. IsFiniteSet(A) /\ AtLeast(t, d) = Cardinality(A) /\ AtLeast(s, d) = Cardinality(B)
    BY <1>9, CountType DEF AtLeast
  <2>2. DOMAIN t = D /\ DOMAIN s = D
    BY <1>3, <1>8
  <2>3. f \in [A -> B]
    BY <2>2, <1>8
  <2>4. \A x, y \in A : f[x] = f[y] => x = y
    BY <2>2, <1>7
  <2>5. ASSUME NEW y \in B PROVE \E x \in A : f[x] = y
    <3>1. PICK k \in D : o[k] = y
      BY <2>2, <1>7
    <3>2. k \in A
      BY <3>1, <2>2, <1>8
    <3> QED
      BY <3>1, <3>2
  <2> HIDE DEF A, B, f
  <2>6. OneToOne(f, A, B)
    BY <2>3, <2>4, <2>5 DEF OneToOne
  <2> QED
    BY <2>1, <2>6, SameCount
<1> QED
  BY <1>1, <1>2, <1>9, <1>10, <1>11 DEF HardestFirst

(* Two lists, one after the other.                                         *)
LEMMA CountConcat ==
  ASSUME NEW s \in Seq(Nat), NEW t \in Seq(Nat), NEW d \in Nat
  PROVE  s \o t \in Seq(Nat) /\ AtLeast(s \o t, d) = AtLeast(s, d) + AtLeast(t, d)
<1>0. Len(s) \in Nat /\ Len(t) \in Nat /\ s \o t \in Seq(Nat)
  OBVIOUS
<1>1. PICK n \in Nat, m \in Nat, u \in Seq(Nat) : n = Len(s) /\ m = Len(t) /\ u = s \o t
  BY <1>0
<1>2. /\ u \in Seq(Nat) /\ Len(u) = n + m
      /\ \A i \in 1..(n + m) : u[i] = IF i <= n THEN s[i] ELSE t[i - n]
  BY <1>1, ConcatProperties
<1>3. DOMAIN s = 1..n /\ DOMAIN t = 1..m /\ DOMAIN u = 1..(n + m)
  BY <1>1, <1>2
<1> DEFINE A == {i \in DOMAIN s : s[i] >= d}
           B == {i \in DOMAIN t : t[i] >= d}
           C == {i \in DOMAIN u : u[i] >= d}
           E == {i \in DOMAIN u : i > n /\ u[i] >= d}
           f == [i \in B |-> n + i]
<1>4. /\ IsFiniteSet(A) /\ AtLeast(s, d) = Cardinality(A) /\ AtLeast(s, d) \in Nat
      /\ IsFiniteSet(B) /\ AtLeast(t, d) = Cardinality(B) /\ AtLeast(t, d) \in Nat
      /\ AtLeast(u, d) = Cardinality(C)
  BY <1>2, CountType DEF AtLeast
<1>5. \A i \in 1..m : n + i \in 1..(n + m) /\ n + i > n /\ u[n + i] = t[i]
  <2> SUFFICES ASSUME NEW i \in 1..m PROVE n + i \in 1..(n + m) /\ n + i > n /\ u[n + i] = t[i]
    OBVIOUS
  <2>1. n + i \in 1..(n + m) /\ n + i > n /\ ~(n + i <= n) /\ (n + i) - n = i
    OBVIOUS
  <2> QED
    BY <2>1, <1>2
<1>6. \A i \in 1..(n + m) : i > n => i - n \in 1..m /\ n + (i - n) = i
  OBVIOUS
<1>7. \A i \in 1..n : i \in 1..(n + m) /\ ~(i > n) /\ u[i] = s[i]
  <2> SUFFICES ASSUME NEW i \in 1..n PROVE i \in 1..(n + m) /\ ~(i > n) /\ u[i] = s[i]
    OBVIOUS
  <2>1. i \in 1..(n + m) /\ ~(i > n) /\ i <= n
    OBVIOUS
  <2> QED
    BY <2>1, <1>2
<1>8. \A i \in 1..(n + m) : i > n \/ i \in 1..n
  OBVIOUS
<1>9. C = A \cup E
  BY <1>3, <1>7, <1>8
<1>10. A \cap E = {}
  BY <1>3, <1>7
<1>11. f \in [B -> E]
  BY <1>3, <1>5
<1>12. \A x, y \in B : f[x] = f[y] => x = y
  BY <1>3
<1>13. ASSUME NEW y \in E PROVE \E x \in B : f[x] = y
  <2>1. y - n \in 1..m /\ n + (y - n) = y
    BY <1>3, <1>6
  <2>2. t[y - n] = u[y]
    BY <2>1, <1>5
  <2>3. y - n \in B
    BY <2>1, <2>2, <1>3
  <2> QED
    BY <2>1, <2>3
<1> HIDE DEF A, B, C, E, f
<1>14. IsFiniteSet(E) /\ Cardinality(E) = Cardinality(B)
  <2>1. OneToOne(f, B, E)
    BY <1>11, <1>12, <1>13 DEF OneToOne
  <2> QED
    BY <2>1, <1>4, SameCount
<1>15. Cardinality(C) = Cardinality(A) + Cardinality(E)
  <2>1. Cardinality(A \cup E) = Cardinality(A) + Cardinality(E) - Cardinality(A \cap E)
    BY <1>4, <1>14, FS_Union
  <2>2. Cardinality(A \cap E) = 0
    BY <1>10, FS_EmptySet
  <2> QED
    BY <2>1, <2>2, <1>4, <1>9, <1>14
<1> QED
  BY <1>1, <1>2, <1>4, <1>14, <1>15

-----------------------------------------------------------------------------
(***************************************************************************)
(* The loops of the merge.                                                 *)
(***************************************************************************)
(* The lists while the nonces of s are added in turn.                      *)
AreAdded(g, s, n) ==
  g[0] = NewNonceRanking /\ \A k \in 1..n : g[k] = AddNonce(g[k - 1], s[k])

(* AddInTurn is the last of them.                                          *)
LEMMA InTurn ==
  ASSUME NEW s \in Seq(Nat)
  PROVE  \E g : AreAdded(g, s, Len(s)) /\ AddInTurn(s) = g[Len(s)]
<1> DEFINE N == {m \in Nat : \E g : AreAdded(g, s, m)}
<1>1. 0 \in N
  <2> DEFINE g == [k \in 0..0 |-> NewNonceRanking]
  <2>1. AreAdded(g, s, 0)
    BY DEF AreAdded
  <2> QED
    BY <2>1
<1>2. ASSUME NEW m \in Nat, m \in N PROVE m + 1 \in N
  <2>1. PICK g : AreAdded(g, s, m)
    BY <1>2
  <2> DEFINE h == [k \in 0..(m + 1) |-> IF k <= m THEN g[k] ELSE AddNonce(g[m], s[m + 1])]
  <2>2. h[0] = g[0] /\ h[m + 1] = AddNonce(g[m], s[m + 1]) /\ \A k \in 0..m : h[k] = g[k]
    OBVIOUS
  <2>3. ASSUME NEW k \in 1..(m + 1) PROVE h[k] = AddNonce(h[k - 1], s[k])
    <3> HIDE DEF h
    <3>1. CASE k = m + 1
      BY <3>1, <2>2
    <3>2. CASE k # m + 1
      <4>1. k \in 1..m /\ k \in 0..m /\ k - 1 \in 0..m
        BY <3>2
      <4> QED
        BY <4>1, <2>1, <2>2 DEF AreAdded
    <3> QED
      BY <3>1, <3>2
  <2> HIDE DEF h
  <2>4. AreAdded(h, s, m + 1)
    BY <2>1, <2>2, <2>3 DEF AreAdded
  <2> QED
    BY <2>4
<1>3. \A m \in Nat : m \in N
  <2> HIDE DEF N
  <2> QED
    BY <1>1, <1>2, SetInduction
<1>4. Len(s) \in Nat
  OBVIOUS
<1>5. PICK n \in Nat : n = Len(s)
  BY <1>4
<1>6. PICK g : AreAdded(g, s, n)
  BY <1>3
<1> DEFINE Next2(f) == [k \in 0..n |-> IF k = 0 THEN NewNonceRanking ELSE AddNonce(f[k - 1], s[k])]
           f == [k \in 0..n |-> g[k]]
           merged == CHOOSE x : x = Next2(x)
<1>7. f = Next2(f)
  <2>1. ASSUME NEW k \in 0..n PROVE f[k] = Next2(f)[k]
    <3>1. CASE k = 0
      BY <3>1, <1>6 DEF AreAdded
    <3>2. CASE k # 0
      <4>1. k \in 1..n /\ k - 1 \in 0..n
        BY <3>2
      <4>2. f[k - 1] = g[k - 1] /\ f[k] = g[k]
        BY <4>1
      <4>3. g[k] = AddNonce(g[k - 1], s[k])
        BY <4>1, <1>6 DEF AreAdded
      <4> QED
        BY <4>2, <4>3, <3>2
    <3> QED
      BY <3>1, <3>2
  <2> QED
    BY <2>1
<1>8. merged = Next2(merged)
  <2> HIDE DEF f
  <2> QED
    BY <1>7
<1>9. AddInTurn(s) = merged[n]
  BY <1>5 DEF AddInTurn
<1> HIDE DEF merged
<1>10. \A k \in 0..n : merged[k] = IF k = 0 THEN NewNonceRanking ELSE AddNonce(merged[k - 1], s[k])
  BY <1>8
<1>11. AreAdded(merged, s, n)
  <2>1. 0 \in 0..n /\ \A k \in 1..n : k \in 0..n /\ k # 0
    OBVIOUS
  <2> QED
    BY <2>1, <1>10 DEF AreAdded
<1> QED
  BY <1>5, <1>9, <1>11

(* The lists while those of the rankings are put one after the other.      *)
AreGathered(g, rs, n) ==
  g[0] = <<>> /\ \A k \in 1..n : g[k] = g[k - 1] \o GetNonces(rs[k])

(* Gathered is the last of them.                                           *)
LEMMA AllGathered ==
  ASSUME NEW rs, Len(rs) \in Nat
  PROVE  \E g : AreGathered(g, rs, Len(rs)) /\ Gathered(rs) = g[Len(rs)]
<1> DEFINE N == {m \in Nat : \E g : AreGathered(g, rs, m)}
<1>1. 0 \in N
  <2> DEFINE g == [k \in 0..0 |-> <<>>]
  <2>1. AreGathered(g, rs, 0)
    BY DEF AreGathered
  <2> QED
    BY <2>1
<1>2. ASSUME NEW m \in Nat, m \in N PROVE m + 1 \in N
  <2>1. PICK g : AreGathered(g, rs, m)
    BY <1>2
  <2> DEFINE h == [k \in 0..(m + 1) |-> IF k <= m THEN g[k] ELSE g[m] \o GetNonces(rs[m + 1])]
  <2>2. h[0] = g[0] /\ h[m + 1] = g[m] \o GetNonces(rs[m + 1]) /\ \A k \in 0..m : h[k] = g[k]
    OBVIOUS
  <2>3. ASSUME NEW k \in 1..(m + 1) PROVE h[k] = h[k - 1] \o GetNonces(rs[k])
    <3> HIDE DEF h
    <3>1. CASE k = m + 1
      <4>1. k - 1 = m /\ m \in 0..m
        BY <3>1
      <4> QED
        BY <4>1, <3>1, <2>2
    <3>2. CASE k # m + 1
      <4>1. k \in 1..m /\ k \in 0..m /\ k - 1 \in 0..m
        BY <3>2
      <4> QED
        BY <4>1, <2>1, <2>2 DEF AreGathered
    <3> QED
      BY <3>1, <3>2
  <2> HIDE DEF h
  <2>4. AreGathered(h, rs, m + 1)
    BY <2>1, <2>2, <2>3 DEF AreGathered
  <2> QED
    BY <2>4
<1>3. \A m \in Nat : m \in N
  <2> HIDE DEF N
  <2> QED
    BY <1>1, <1>2, SetInduction
<1>5. PICK n \in Nat : n = Len(rs)
  OBVIOUS
<1>6. PICK g : AreGathered(g, rs, n)
  BY <1>3
<1> DEFINE Next2(f) == [k \in 0..n |-> IF k = 0 THEN <<>> ELSE f[k - 1] \o GetNonces(rs[k])]
           f == [k \in 0..n |-> g[k]]
           list == CHOOSE x : x = Next2(x)
<1>7. f = Next2(f)
  <2>1. ASSUME NEW k \in 0..n PROVE f[k] = Next2(f)[k]
    <3>1. CASE k = 0
      BY <3>1, <1>6 DEF AreGathered
    <3>2. CASE k # 0
      <4>1. k \in 1..n /\ k - 1 \in 0..n
        BY <3>2
      <4>2. f[k - 1] = g[k - 1] /\ f[k] = g[k]
        BY <4>1
      <4>3. g[k] = g[k - 1] \o GetNonces(rs[k])
        BY <4>1, <1>6, Zenon DEF AreGathered
      <4> QED
        BY <4>2, <4>3, <3>2
    <3> QED
      BY <3>1, <3>2
  <2> QED
    BY <2>1
<1>8. list = Next2(list)
  <2> HIDE DEF f
  <2> QED
    BY <1>7, Zenon
<1>9. Gathered(rs) = list[n]
  BY <1>5 DEF Gathered
<1> HIDE DEF list
<1>10. \A k \in 0..n : list[k] = IF k = 0 THEN <<>> ELSE list[k - 1] \o GetNonces(rs[k])
  BY <1>8
<1>11. AreGathered(list, rs, n)
  <2>1. 0 \in 0..n /\ \A k \in 1..n : k \in 0..n /\ k # 0
    OBVIOUS
  <2> QED
    BY <2>1, <1>10 DEF AreGathered
<1> QED
  BY <1>5, <1>9, <1>11

(* A list without nonces.                                                  *)
LEMMA EmptyCount ==
  /\ <<>> \in Seq(Nat) /\ Len(<<>>) = 0 /\ \A d \in Nat : AtLeast(<<>>, d) = 0
  /\ BestSoFar(<<>>, <<>>)
<1>1. <<>> \in Seq(Nat) /\ Len(<<>>) = 0
  OBVIOUS
<1>2. ASSUME NEW d \in Nat PROVE AtLeast(<<>>, d) = 0
  <2>1. AtLeast(<<>>, d) \in Nat /\ AtLeast(<<>>, d) <= 0
    BY <1>1, CountType
  <2> QED
    BY <2>1
<1>3. Capped(0) = 0 /\ \A d \in Difficulties : d \in Nat
  BY RankingAssumption DEF Capped
<1> QED
  BY <1>1, <1>2, <1>3 DEF BestSoFar

(* A new list keeps the best of what is added to it in turn.               *)
LEMMA AddedBest ==
  ASSUME NEW s \in Seq(Nat)
  PROVE  AddInTurn(s).List \in Seq(Nat) /\ BestSoFar(AddInTurn(s).List, s)
<1>1. PICK g : AreAdded(g, s, Len(s)) /\ AddInTurn(s) = g[Len(s)]
  BY InTurn
<1>2. Len(s) \in Nat /\ s \in [1..Len(s) -> Nat]
  OBVIOUS
<1>3. PICK n \in Nat : n = Len(s)
  BY <1>2
<1> DEFINE First(k) == [i \in 1..k |-> s[i]]
           Good(k) == /\ g[k] \in Ranking /\ RememberedWorst(g[k]) /\ Len(g[k].List) <= Keep
                      /\ BestSoFar(g[k].List, First(k))
           N == {k \in Nat : k <= n => Good(k)}
<1>4. \A k \in Nat : k <= n => First(k) \in Seq(Nat) /\ Len(First(k)) = k
  <2> SUFFICES ASSUME NEW k \in Nat, k <= n PROVE First(k) \in Seq(Nat) /\ Len(First(k)) = k
    OBVIOUS
  <2>1. First(k) \in [1..k -> Nat]
    BY <1>2, <1>3
  <2> HIDE DEF First
  <2> QED
    BY <2>1, ListOf
<1>5. 0 \in N
  <2>1. g[0] = NewNonceRanking /\ g[0].List = <<>>
    BY <1>1 DEF AreAdded, NewNonceRanking
  <2>2. g[0] \in Ranking
    BY <2>1, RankingAssumption DEF NewNonceRanking, Ranking
  <2>3. RememberedWorst(g[0]) /\ Len(g[0].List) <= Keep
    BY <2>1, RankingAssumption DEF RememberedWorst
  <2>4. First(0) = <<>>
    OBVIOUS
  <2>5. BestSoFar(g[0].List, First(0))
    BY <2>1, <2>4, EmptyCount
  <2> QED
    BY <2>2, <2>3, <2>5
<1>6. ASSUME NEW k \in Nat, k \in N PROVE k + 1 \in N
  <2> SUFFICES ASSUME k + 1 <= n PROVE Good(k + 1)
    OBVIOUS
  <2>1. k <= n /\ k + 1 \in 1..n /\ (k + 1) - 1 = k
    BY <1>3
  <2>2. Good(k)
    BY <2>1, <1>6
  <2>3. PICK x \in Nat : x = s[k + 1]
    BY <2>1, <1>2, <1>3
  <2>4. g[k + 1] = AddNonce(g[k], x)
    BY <2>1, <2>3, <1>1, <1>3 DEF AreAdded
  <2>5. First(k + 1) = Append(First(k), x)
    <3>1. PICK a \in Seq(Nat), b \in Seq(Nat) : a = First(k) /\ b = First(k + 1) /\ Len(a) = k /\ Len(b) = k + 1
      <4>1. k + 1 \in Nat /\ k + 1 <= n
        BY <2>1
      <4>2. First(k) \in Seq(Nat) /\ Len(First(k)) = k
        BY <2>1, <1>4
      <4>3. First(k + 1) \in Seq(Nat) /\ Len(First(k + 1)) = k + 1
        <5> HIDE DEF First
        <5> QED
          BY <4>1, <1>4
      <4> HIDE DEF First
      <4> QED
        BY <4>2, <4>3
    <3>2. /\ Append(a, x) \in Seq(Nat) /\ Len(Append(a, x)) = k + 1
          /\ Append(a, x)[k + 1] = x /\ \A i \in 1..k : Append(a, x)[i] = a[i]
      BY <3>1, AppendProperties
    <3>3. /\ b[k + 1] = x /\ \A i \in 1..k : b[i] = a[i]
      BY <3>1, <2>3
    <3>4. \A i \in 1..(k + 1) : i \in 1..k \/ i = k + 1
      OBVIOUS
    <3>5. \A i \in 1..(k + 1) : b[i] = Append(a, x)[i]
      BY <3>2, <3>3, <3>4
    <3>6. b = Append(a, x)
      BY <3>1, <3>2, <3>5, SeqEqual
    <3> QED
      BY <3>1, <3>6
  <2>6. First(k) \in Seq(Nat)
    BY <2>1, <1>4
  <2> HIDE DEF First
  <2>7. PICK r \in Ranking : r = g[k] /\ RememberedWorst(r) /\ Len(r.List) <= Keep /\ BestSoFar(r.List, First(k))
    BY <2>2
  <2>8. AddNonce(r, x) \in Ranking /\ RememberedWorst(AddNonce(r, x)) /\ Len(AddNonce(r, x).List) <= Keep
    BY <2>7, AddNonceKeepsWorst
  <2>9. BestSoFar(AddNonce(r, x).List, Append(First(k), x))
    BY <2>6, <2>7, AddKeepsBest
  <2> QED
    BY <2>4, <2>5, <2>7, <2>8, <2>9
<1>7. \A k \in Nat : k \in N
  <2> HIDE DEF N
  <2> QED
    BY <1>5, <1>6, SetInduction
<1>8. Good(n)
  BY <1>7
<1>9. First(n) = s
  BY <1>2, <1>3
<1>10. g[n].List \in Seq(Nat)
  BY <1>8 DEF Ranking
<1> QED
  BY <1>1, <1>3, <1>8, <1>9, <1>10

(* What the lists drop is not missed in the whole.                         *)
LEMMA CapAdds ==
  ASSUME NEW a \in Nat, NEW b \in Nat, NEW c \in Nat, Capped(a) = Capped(b)
  PROVE  Capped(a + Capped(c)) = Capped(b + c)
<1>1. Keep \in Nat
  BY RankingAssumption
<1> QED
  BY <1>1 DEF Capped

(* The nonces of one miner, by their numbers.                              *)
FoundBy(m, s, d) == {m} \X {i \in DOMAIN s : s[i] >= d}

(* They are as many as the difficulties.                                   *)
LEMMA FoundByOne ==
  ASSUME NEW m, NEW s \in Seq(Nat), NEW d
  PROVE  IsFiniteSet(FoundBy(m, s, d)) /\ Cardinality(FoundBy(m, s, d)) = AtLeast(s, d)
<1> DEFINE A == {i \in DOMAIN s : s[i] >= d}
           F == {m} \X A
           f == [i \in A |-> <<m, i>>]
<1>1. IsFiniteSet(A) /\ AtLeast(s, d) = Cardinality(A)
  BY CountType DEF AtLeast
<1>2. FoundBy(m, s, d) = F
  BY DEF FoundBy
<1> HIDE DEF A
<1>3. f \in [A -> F]
  OBVIOUS
<1>4. \A x, y \in A : f[x] = f[y] => x = y
  OBVIOUS
<1>5. \A y \in F : \E x \in A : f[x] = y
  OBVIOUS
<1> HIDE DEF f, F
<1>6. OneToOne(f, A, F)
  BY <1>3, <1>4, <1>5 DEF OneToOne
<1>7. IsFiniteSet(F) /\ Cardinality(F) = Cardinality(A)
  BY <1>1, <1>6, SameCount
<1> QED
  BY <1>1, <1>2, <1>7

(* One more miner.                                                         *)
LEMMA FoundByOneMore ==
  ASSUME NEW M, NEW m, m \notin M, NEW d \in Nat, IsFiniteSet(Found(M, d)), offered[m] \in Seq(Nat)
  PROVE  /\ IsFiniteSet(Found(M \cup {m}, d))
         /\ Cardinality(Found(M \cup {m}, d)) = Cardinality(Found(M, d)) + AtLeast(offered[m], d)
<1> DEFINE F == FoundBy(m, offered[m], d)
           G == Found(M, d)
<1>1. Found(M \cup {m}, d) = G \cup F
  BY DEF Found, FoundBy
<1>2. G \cap F = {}
  BY DEF Found, FoundBy
<1>3. IsFiniteSet(F) /\ Cardinality(F) = AtLeast(offered[m], d) /\ AtLeast(offered[m], d) \in Nat
  BY FoundByOne, CountType
<1>4. IsFiniteSet(G)
  OBVIOUS
<1> HIDE DEF F, G
<1>5. /\ IsFiniteSet(G \cup F)
      /\ Cardinality(G \cup F) = Cardinality(G) + Cardinality(F) - Cardinality(G \cap F)
  BY <1>3, <1>4, FS_Union
<1>6. Cardinality(G \cap F) = 0 /\ Cardinality(G) \in Nat
  BY <1>2, <1>4, FS_EmptySet, FS_CardinalityType
<1>7. Cardinality(G \cup F) = Cardinality(G) + AtLeast(offered[m], d)
  BY <1>3, <1>5, <1>6
<1> QED
  BY <1>1, <1>5, <1>7 DEF G

(* Every miner's list holds the best of what was offered to it.            *)
ListsAreBest ==
  /\ offered \in [Miners -> Seq(Nat)]
  /\ \A m \in Miners : ranking[m].List \in Seq(Nat) /\ BestSoFar(ranking[m].List, offered[m])

(* The lists together have the best of what all miners found.              *)
LEMMA GatheredBest ==
  ASSUME ListsAreBest, NEW order \in SetToSeqs(Miners),
         NEW rs, rs = [k \in DOMAIN order |-> ranking[order[k]]]
  PROVE  /\ Gathered(rs) \in Seq(Nat)
         /\ \A d \in Difficulties : /\ IsFiniteSet(Found(Miners, d))
                                    /\ Capped(AtLeast(Gathered(rs), d)) = Capped(Cardinality(Found(Miners, d)))
<1>1. /\ order \in Seq(Miners) /\ Len(order) \in Nat
      /\ \A i \in 1..Len(order) : order[i] \in Miners
      /\ \A i, j \in 1..Len(order) : order[i] = order[j] => i = j
      /\ \A u \in Miners : \E i \in 1..Len(order) : order[i] = u
  BY RankingAssumption, ListOfSet
<1>2. PICK n \in Nat : n = Len(order)
  BY <1>1
<1>3. DOMAIN order = 1..n
  BY <1>1, <1>2
<1>4. Len(rs) = n /\ \A k \in 1..n : rs[k] = ranking[order[k]]
  <2>1. PICK S : S = {ranking[order[k]] : k \in 1..n}
    OBVIOUS
  <2>2. rs \in [1..n -> S]
    BY <2>1, <1>3
  <2> QED
    BY <2>2, <1>3, ListOf
<1>5. PICK g : AreGathered(g, rs, n) /\ Gathered(rs) = g[n]
  BY <1>4, AllGathered
<1> DEFINE M(k) == {order[i] : i \in 1..k}
           Same(k, d) == /\ IsFiniteSet(Found(M(k), d))
                         /\ Capped(AtLeast(g[k], d)) = Capped(Cardinality(Found(M(k), d)))
           Good(k) == g[k] \in Seq(Nat) /\ \A d \in Difficulties : Same(k, d)
           N == {k \in Nat : k <= n => Good(k)}
<1>6. 0 \in N
  <2>1. g[0] = <<>>
    BY <1>5 DEF AreGathered
  <2>2. M(0) = {}
    OBVIOUS
  <2>3. \A d : Found(M(0), d) = {}
    BY <2>2 DEF Found
  <2>4. \A d \in Difficulties : AtLeast(g[0], d) = 0
    BY <2>1, EmptyCount, RankingAssumption
  <2>5. IsFiniteSet({}) /\ Cardinality({}) = 0
    BY FS_EmptySet
  <2> QED
    BY <2>1, <2>3, <2>4, <2>5, EmptyCount
<1>7. ASSUME NEW k \in Nat, k \in N PROVE k + 1 \in N
  <2> SUFFICES ASSUME k + 1 <= n PROVE Good(k + 1)
    OBVIOUS
  <2>1. k <= n /\ k + 1 \in 1..n /\ (k + 1) - 1 = k
    BY <1>2
  <2>2. g[k] \in Seq(Nat) /\ \A d \in Difficulties : Same(k, d)
    BY <2>1, <1>7
  <2>3. PICK m \in Miners : m = order[k + 1]
    BY <2>1, <1>1, <1>2
  <2>4. M(k + 1) = M(k) \cup {m}
    <3>1. \A i \in 1..(k + 1) : i \in 1..k \/ i = k + 1
      OBVIOUS
    <3>2. \A i \in 1..k : i \in 1..(k + 1)
      OBVIOUS
    <3>3. k + 1 \in 1..(k + 1)
      OBVIOUS
    <3> QED
      BY <3>1, <3>2, <3>3, <2>3
  <2>5. m \notin M(k)
    <3>1. \A i \in 1..k : i \in 1..n /\ i # k + 1
      BY <2>1
    <3> QED
      BY <3>1, <2>1, <2>3, <1>1, <1>2
  <2> HIDE DEF M
  <2>6. PICK s \in Seq(Nat), all \in Seq(Nat) : s = ranking[m].List /\ all = offered[m] /\ BestSoFar(s, all)
    BY DEF ListsAreBest
  <2>7. PICK t : t = SortNonceRanks(s) /\ HardestFirst(t, s)
    BY SortedNonces
  <2>8. g[k + 1] = g[k] \o t /\ t \in Seq(Nat)
    BY <2>1, <2>3, <2>6, <2>7, <1>4, <1>5 DEF AreGathered, GetNonces, HardestFirst
  <2>9. g[k + 1] \in Seq(Nat)
    BY <2>2, <2>8
  <2>10. ASSUME NEW d \in Difficulties PROVE Same(k + 1, d)
    <3>1. d \in Nat
      BY RankingAssumption
    <3>2. AtLeast(g[k + 1], d) = AtLeast(g[k], d) + AtLeast(t, d)
      BY <3>1, <2>2, <2>8, CountConcat
    <3>3. AtLeast(t, d) = Capped(AtLeast(all, d))
      BY <3>1, <2>6, <2>7 DEF HardestFirst, BestSoFar
    <3>4. IsFiniteSet(Found(M(k), d)) /\ Capped(AtLeast(g[k], d)) = Capped(Cardinality(Found(M(k), d)))
      BY <2>2
    <3>5. /\ IsFiniteSet(Found(M(k + 1), d))
          /\ Cardinality(Found(M(k + 1), d)) = Cardinality(Found(M(k), d)) + AtLeast(all, d)
      BY <3>1, <3>4, <2>4, <2>5, <2>6, FoundByOneMore
    <3>6. PICK a \in Nat, b \in Nat, c \in Nat :
            a = AtLeast(g[k], d) /\ b = Cardinality(Found(M(k), d)) /\ c = AtLeast(all, d)
      BY <3>4, <2>2, <2>6, CountType, FS_CardinalityType
    <3>7. Capped(a + Capped(c)) = Capped(b + c)
      <4>1. Capped(a) = Capped(b)
        BY <3>4, <3>6, Zenon
      <4> QED
        BY <4>1, CapAdds, Zenon
    <3> QED
      BY <3>2, <3>3, <3>5, <3>6, <3>7
  <2> QED
    BY <2>9, <2>10
<1>8. \A k \in Nat : k \in N
  <2> HIDE DEF N
  <2> QED
    BY <1>6, <1>7, SetInduction
<1>9. Good(n)
  BY <1>8
<1>10. M(n) = Miners
  BY <1>1, <1>2
<1> QED
  BY <1>5, <1>9, <1>10

(* The lists are the best of what was offered and what is written is the   *)
(* best of all. The lists' lengths are needed: a list that is not full has *)
(* dropped nothing.                                                        *)
BestInv ==
  /\ ListsAreBest
  /\ written =>
       /\ \A d \in Difficulties : /\ IsFiniteSet(Found(Miners, d))
                                  /\ AtLeast(final, d) = Capped(Cardinality(Found(Miners, d)))
       /\ \A i, j \in DOMAIN final : i < j => final[i] >= final[j]

(* A miner's nonce keeps it.                                               *)
LEMMA MineBest ==
  ASSUME RankingInv, BestInv, NEW m \in Miners, NEW d \in Difficulties, Mine(m, d)
  PROVE  BestInv'
<1>1. /\ d \in Nat /\ ~written /\ written' = written
      /\ ranking' = [ranking EXCEPT ![m] = AddNonce(@, d)]
      /\ offered' = [offered EXCEPT ![m] = Append(@, d)]
  BY RankingAssumption DEF Mine
<1>2. ranking \in [Miners -> Ranking] /\ \A k \in Miners : RememberedWorst(ranking[k])
  BY <1>1 DEF RankingInv
<1>3. /\ offered \in [Miners -> Seq(Nat)]
      /\ \A k \in Miners : ranking[k].List \in Seq(Nat) /\ BestSoFar(ranking[k].List, offered[k])
  BY DEF BestInv, ListsAreBest
<1>4. PICK r \in Ranking, all \in Seq(Nat) :
        r = ranking[m] /\ all = offered[m] /\ RememberedWorst(r) /\ BestSoFar(r.List, all) /\ Len(r.List) <= Keep
  BY <1>1, <1>2, <1>3 DEF RankingInv
<1>5. PICK t : t = AddNonce(r, d)
  OBVIOUS
<1>6. t \in Ranking /\ BestSoFar(t.List, Append(all, d)) /\ Append(all, d) \in Seq(Nat) /\ t.List \in Seq(Nat)
  <2>1. t \in Ranking
    BY <1>1, <1>4, <1>5, AddNonceKeepsWorst
  <2>2. BestSoFar(t.List, Append(all, d))
    BY <1>1, <1>4, <1>5, AddKeepsBest
  <2> QED
    BY <2>1, <2>2, <1>1 DEF Ranking
<1>7. ranking' = [ranking EXCEPT ![m] = t] /\ offered' = [offered EXCEPT ![m] = Append(all, d)]
  BY <1>1, <1>4, <1>5
<1>8. offered' \in [Miners -> Seq(Nat)]
  BY <1>3, <1>6, <1>7
<1>9. ASSUME NEW k \in Miners PROVE ranking'[k].List \in Seq(Nat) /\ BestSoFar(ranking'[k].List, offered'[k])
  <2>1. CASE k = m
    <3>1. ranking'[k] = t /\ offered'[k] = Append(all, d)
      BY <2>1, <1>2, <1>3, <1>7
    <3> QED
      BY <3>1, <1>6
  <2>2. CASE k # m
    <3>1. ranking'[k] = ranking[k] /\ offered'[k] = offered[k]
      BY <2>2, <1>2, <1>3, <1>7
    <3> QED
      BY <3>1, <1>3
  <2> QED
    BY <2>1, <2>2
<1>10. ListsAreBest'
  BY <1>8, <1>9 DEF ListsAreBest, BestSoFar, AtLeast
<1> QED
  BY <1>1, <1>10 DEF BestInv

(* The merge establishes its second part.                                  *)
LEMMA WriteBest ==
  ASSUME RankingInv, BestInv, Write
  PROVE  BestInv'
<1>1. /\ ~written /\ written' = TRUE /\ offered' = offered
      /\ ranking' = [m \in Miners |-> [ranking[m] EXCEPT !.List = GetNonces(ranking[m])]]
  BY DEF Write
<1>2. PICK order \in SetToSeqs(Miners) :
        final' = GetNonces(MergeNonceRankings([k \in DOMAIN order |-> ranking[order[k]]]))
  BY DEF Write
<1>3. PICK rs : rs = [k \in DOMAIN order |-> ranking[order[k]]]
  OBVIOUS
<1>4. ranking \in [Miners -> Ranking]
  BY <1>1 DEF RankingInv
<1>5. /\ offered \in [Miners -> Seq(Nat)] /\ ListsAreBest
      /\ \A k \in Miners : ranking[k].List \in Seq(Nat) /\ BestSoFar(ranking[k].List, offered[k])
  BY DEF BestInv, ListsAreBest
<1>6. \A d \in Difficulties : d \in Nat
  BY RankingAssumption
<1>7. ASSUME NEW k \in Miners PROVE ranking'[k].List \in Seq(Nat) /\ BestSoFar(ranking'[k].List, offered'[k])
  <2>0. PICK s \in Seq(Nat) : s = ranking[k].List
    BY <1>5
  <2>1. PICK t : t = SortNonceRanks(s) /\ HardestFirst(t, s)
    BY SortedNonces
  <2>2. ranking'[k].List = t
    BY <2>0, <2>1, <1>1, <1>4 DEF GetNonces, Ranking
  <2>3. BestSoFar(t, offered[k]) /\ t \in Seq(Nat)
    BY <2>0, <2>1, <1>5, <1>6 DEF HardestFirst, BestSoFar
  <2> QED
    BY <2>2, <2>3, <1>1
<1>8. ListsAreBest'
  BY <1>1, <1>5, <1>7 DEF ListsAreBest, BestSoFar, AtLeast
<1>9. PICK all \in Seq(Nat) :
        /\ all = Gathered(rs)
        /\ \A d \in Difficulties : /\ IsFiniteSet(Found(Miners, d))
                                   /\ Capped(AtLeast(all, d)) = Capped(Cardinality(Found(Miners, d)))
  BY <1>3, <1>5, GatheredBest
<1>10. PICK s \in Seq(Nat) : s = SortNonceRanks(all) /\ \A d \in Difficulties : AtLeast(s, d) = AtLeast(all, d)
  BY <1>6, SortedNonces DEF HardestFirst
<1>11. PICK best \in Seq(Nat) : best = AddInTurn(s).List /\ BestSoFar(best, s)
  BY AddedBest
<1>12. final' = SortNonceRanks(best)
  BY <1>2, <1>3, <1>9, <1>10, <1>11 DEF GetNonces, MergeNonceRankings
<1>13. PICK out : out = SortNonceRanks(best) /\ HardestFirst(out, best)
  BY SortedNonces
<1>14. \A d \in Difficulties : AtLeast(out, d) = Capped(Cardinality(Found(Miners, d)))
  BY <1>6, <1>9, <1>10, <1>11, <1>13 DEF HardestFirst, BestSoFar
<1>15. \A i, j \in DOMAIN out : i < j => out[i] >= out[j]
  <2>1. out \in Seq(Nat) /\ \A i, j \in 1..Len(out) : i < j => out[i] >= out[j]
    BY <1>13 DEF HardestFirst
  <2>2. PICK D : D = DOMAIN out /\ D = 1..Len(out)
    BY <2>1
  <2> QED
    BY <2>1, <2>2
<1>16. \A d \in Difficulties : AtLeast(final, d)' = AtLeast(out, d) /\ Found(Miners, d)' = Found(Miners, d)
  BY <1>1, <1>12, <1>13 DEF AtLeast, Found
<1>17. final' = out
  BY <1>12, <1>13
<1> QED
  BY <1>8, <1>9, <1>14, <1>15, <1>16, <1>17 DEF BestInv

(* Up to so many is the lesser of the two.                                 *)
LEMMA CappedIsMin ==
  ASSUME NEW n \in Nat
  PROVE  Min({Keep, n}) = Capped(n)
<1>1. Keep \in Nat
  BY RankingAssumption
<1>2. n < Keep \/ Keep <= n
  BY <1>1
<1> QED
  BY <1>1, <1>2, LesserOfTwo DEF Capped

(* The entry writer writes the best nonces the miners found, whatever the  *)
(* order their lists arrived in, for every number of slots, miners and     *)
(* nonces.                                                                 *)
THEOREM BestWritten == Spec => []WritesTheBest
<1>1. Init => BestInv
  <2> SUFFICES ASSUME Init PROVE BestInv
    OBVIOUS
  <2>1. \A m \in Miners : ranking[m].List = <<>> /\ offered[m] = <<>>
    BY DEF Init, NewNonceRanking
  <2>2. offered \in [Miners -> Seq(Nat)]
    BY EmptyCount DEF Init
  <2>3. ListsAreBest
    BY <2>1, <2>2, EmptyCount DEF ListsAreBest
  <2> QED
    BY <2>3 DEF BestInv, Init
<1>2. RankingInv /\ BestInv /\ [Next]_vars => BestInv'
  <2> SUFFICES ASSUME RankingInv, BestInv, [Next]_vars PROVE BestInv'
    OBVIOUS
  <2>1. CASE UNCHANGED vars
    <3>1. ranking' = ranking /\ offered' = offered /\ written' = written /\ final' = final
      BY <2>1 DEF vars
    <3>2. ListsAreBest'
      BY <3>1 DEF BestInv, ListsAreBest, BestSoFar, AtLeast
    <3>3. \A d \in Difficulties : Found(Miners, d)' = Found(Miners, d) /\ AtLeast(final, d)' = AtLeast(final, d)
      BY <3>1 DEF Found, AtLeast
    <3> QED
      BY <3>1, <3>2, <3>3 DEF BestInv
  <2> QED
    BY <2>1, MineBest, WriteBest DEF Next
<1>3. BestInv => WritesTheBest
  <2> SUFFICES ASSUME BestInv PROVE WritesTheBest
    OBVIOUS
  <2>1. ASSUME NEW m \in Miners PROVE IsBestOf(ranking[m].List, offered[m])
    <3>1. PICK s \in Seq(Nat), all \in Seq(Nat) : s = ranking[m].List /\ all = offered[m] /\ BestSoFar(s, all)
      BY DEF BestInv, ListsAreBest
    <3>2. \A d \in Difficulties : AtLeast(all, d) \in Nat /\ AtLeast(s, d) = Capped(AtLeast(all, d))
      BY <3>1, CountType DEF BestSoFar
    <3>3. \A d \in Difficulties : AtLeast(s, d) = Min({Keep, AtLeast(all, d)})
      BY <3>2, CappedIsMin
    <3> QED
      BY <3>1, <3>3 DEF IsBestOf
  <2>2. ASSUME written, NEW d \in Difficulties
        PROVE  AtLeast(final, d) = Min({Keep, Cardinality(Found(Miners, d))})
    <3>1. IsFiniteSet(Found(Miners, d)) /\ AtLeast(final, d) = Capped(Cardinality(Found(Miners, d)))
      BY <2>2 DEF BestInv
    <3>2. Cardinality(Found(Miners, d)) \in Nat
      BY <3>1, FS_CardinalityType
    <3> QED
      BY <3>1, <3>2, CappedIsMin
  <2> QED
    BY <2>1, <2>2 DEF WritesTheBest, BestInv
<1>4. Init => RankingInv
  BY RankingStart
<1>5. RankingInv /\ [Next]_vars => RankingInv'
  BY RankingStep
<1> QED
  BY <1>1, <1>2, <1>3, <1>4, <1>5, PTL DEF Spec
=============================================================================
