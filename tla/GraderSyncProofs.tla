-------------------------- MODULE GraderSyncProofs --------------------------
(***************************************************************************)
(* Theorems about GraderSync, for every OPR chain, grading function and    *)
(* reward schedule.                                                        *)
(***************************************************************************)
EXTENDS GraderSync, CommonLemmas, FiniteSetTheorems, SequenceTheorems, WellFoundedInduction, TLAPS

(* A non-empty set of positive numbers with an upper bound has a maximum,  *)
(* which is what Max returns.                                              *)
LEMMA MaxOfBounded ==
  ASSUME NEW n \in Nat, NEW S, S \subseteq 1..n, S # {}
  PROVE  Max(S) \in S /\ \A y \in S : Max(S) >= y
<1> DEFINE T == {n - x : x \in S}
<1>1. T \subseteq Nat /\ T # {}
  <2>1. \A x \in S : x \in 1..n /\ n - x \in Nat
    OBVIOUS
  <2>2. PICK x \in S : TRUE
    OBVIOUS
  <2> QED
    BY <2>1, <2>2
<1>2. \E t \in T : \A y \in T : ~ (<<y, t>> \in OpToRel(<, Nat))
  BY <1>1, NatLessThanWellFounded, WFMin
<1>3. \E x \in S : \A y \in S : x >= y
  <2>1. PICK t \in T : \A y \in T : ~ (<<y, t>> \in OpToRel(<, Nat))
    BY <1>2
  <2>2. \A y \in T : ~ (y < t)
    BY <1>1, <2>1 DEF OpToRel
  <2>3. PICK x \in S : t = n - x
    BY <2>1
  <2>4. ASSUME NEW y \in S PROVE x >= y
    <3>1. n - y \in T /\ x \in 1..n /\ y \in 1..n
      OBVIOUS
    <3> QED
      BY <2>2, <2>3, <3>1
  <2> QED
    BY <2>4
<1> QED
  BY <1>3 DEF Max

(* A largest element of a bounded set is the one Max returns.              *)
LEMMA MaxIsUnique ==
  ASSUME NEW n \in Nat, NEW S, S \subseteq 1..n, NEW x \in S, \A y \in S : x >= y
  PROVE  Max(S) = x
<1>1. Max(S) \in S /\ \A y \in S : Max(S) >= y
  BY MaxOfBounded
<1>2. Max(S) \in 1..n /\ x \in 1..n
  BY <1>1
<1> QED
  BY <1>1, <1>2

(* An interval from 1 has as many elements as its upper end.               *)
LEMMA IntervalIsFinite ==
  ASSUME NEW n \in Nat
  PROVE  IsFiniteSet(1..n) /\ Cardinality(1..n) = n
<1>1. 1 \in Int /\ n \in Int
  OBVIOUS
<1>2. IsFiniteSet(1..n) /\ Cardinality(1..n) = IF 1 > n THEN 0 ELSE n - 1 + 1
  BY <1>1, FS_Interval
<1> QED
  BY <1>2

(* MinRecords is one of its two values, both positive.                     *)
LEMMA MinRecordsType ==
  ASSUME NEW d
  PROVE  /\ MinRecords(d) \in Nat
         /\ 1 <= MinRecords(d) /\ MinRecords(d) <= MinV1 + MinV2
BY RecordsAssumption DEF MinRecords

(* What the assumption on Chains says of the chain in play: heights that   *)
(* grow along it and a typed grading function.                             *)
LEMMA ChainType ==
  ASSUME TypeOK
  PROVE  /\ chain \in Seq(EBlock) /\ DOMAIN chain = 1..Len(chain) /\ Len(chain) \in Nat
         /\ GradingIsTyped(chain)
         /\ \A i \in 1..Len(chain) : chain[i] \in EBlock /\ chain[i].DBHeight \in Heights
         /\ \A i, j \in 1..Len(chain) : i < j => chain[i].DBHeight < chain[j].DBHeight
         /\ \A h \in Heights : h \in Nat /\ h > 0
<1>1. IsChain(chain) /\ GradingIsTyped(chain)
  BY ChainsAssumption DEF TypeOK
<1>2. chain \in Seq(EBlock)
  BY <1>1 DEF IsChain
<1>3. DOMAIN chain = 1..Len(chain) /\ Len(chain) \in Nat
  BY <1>2
<1>4. \A i \in 1..Len(chain) : chain[i] \in EBlock
  BY <1>2
<1>5. \A e \in EBlock : e.DBHeight \in Heights
  BY DEF EBlock
<1> QED
  BY <1>1, <1>2, <1>3, <1>4, <1>5, HeightsAssumption DEF IsChain

(* FetchOPRBlock returns nil or a graded block of the eblock's height with *)
(* at least as many records as it pays.                                    *)
LEMMA FetchOPRBlockType ==
  ASSUME TypeOK, NEW i \in 1..Len(chain), NEW w,
         FetchOPRBlock(chain[i], w) # NoBlock
  PROVE  /\ FetchOPRBlock(chain[i], w) \in OprBlock
         /\ FetchOPRBlock(chain[i], w).Dbht = chain[i].DBHeight
         /\ ~FetchOPRBlock(chain[i], w).EmptyOPRBlock
         /\ Len(FetchOPRBlock(chain[i], w).GradedOPRs) >= MinRecords(chain[i].DBHeight)
<1> DEFINE eb     == chain[i]
           oprs   == FetchOPRsFromEBlock(eb, w)
           graded == GradeMinimum(eb, oprs)
<1>1. eb \in EBlock /\ eb.DBHeight \in Heights /\ GradingIsTyped(chain) /\ i \in DOMAIN chain
  BY ChainType
<1>2. eb.EntryList \in Seq(Entry) /\ DOMAIN eb.EntryList = 1..Len(eb.EntryList)
      /\ Len(eb.EntryList) \in Nat
  BY <1>1 DEF EBlock
<1>3. oprs \in SUBSET DOMAIN eb.EntryList
  BY DEF FetchOPRsFromEBlock
<1>4. graded \in Seq({eb.EntryList[k] : k \in oprs})
  BY <1>1, <1>3 DEF GradingIsTyped
<1>5. graded \in Seq(Entry)
  <2>1. {eb.EntryList[k] : k \in oprs} \subseteq Entry
    BY <1>2, <1>3
  <2> QED
    BY <1>4, <2>1
<1>6. Cardinality(oprs) \in Nat
  <2>1. IsFiniteSet(DOMAIN eb.EntryList)
    <3>1. IsFiniteSet(1..Len(eb.EntryList))
      BY <1>2, IntervalIsFinite
    <3> QED
      BY <1>2, <3>1
  <2>2. IsFiniteSet(oprs)
    BY <2>1, <1>3, FS_Subset
  <2> QED
    BY <2>2, FS_CardinalityType
<1>7. /\ FetchOPRBlock(eb, w) =
           [Dbht |-> eb.DBHeight, GradedOPRs |-> graded,
            TotalNumberRecords |-> Cardinality(oprs), EmptyOPRBlock |-> FALSE]
      /\ ~(Len(graded) < MinRecords(eb.DBHeight))
  BY DEF FetchOPRBlock
<1>8. Len(graded) >= MinRecords(eb.DBHeight)
  BY <1>7, <1>5, MinRecordsType
<1> HIDE DEF oprs, graded
<1> QED
  BY <1>1, <1>5, <1>6, <1>7, <1>8 DEF OprBlock

(* What SyncBlocks adds is what lies between the target and the head.      *)
LEMMA AddedIsGap ==
  ASSUME target \in Nat, NEW h \in Nat
  PROVE  /\ h > target => Added(h) = (target + 1)..h
         /\ h <= target => Added(h) = {}
BY DEF Added, Walked

(* The winners of eblock j are read off the stored blocks below it: they   *)
(* do not change while those verdicts stay.                                *)
LEMMA WinnersStable ==
  ASSUME TypeOK, chain' = chain, NEW j \in 1..(Len(chain) + 1),
         \A i \in 1..(j - 1) :
            /\ IsGraded(i)' <=> IsGraded(i)
            /\ IsGraded(i) => /\ Stored(i)'.Dbht = Stored(i).Dbht
                              /\ Stored(i)'.GradedOPRs = Stored(i).GradedOPRs
  PROVE  StoredWinners(j)' = StoredWinners(j)
<1> DEFINE G == {i \in 1..(j - 1) : IsGraded(i)}
<1>1. G' = G
  OBVIOUS
<1>2. CASE G = {}
  BY <1>1, <1>2 DEF StoredWinners
<1>3. CASE G # {}
  <2>1. Len(chain) \in Nat
    BY ChainType
  <2>2. Max(G) \in G
    BY <1>3, <2>1, MaxOfBounded, G \subseteq 1..(j - 1), j - 1 \in Nat
  <2>3. Winners(Stored(Max(G)))' = Winners(Stored(Max(G)))
    BY <2>2, <1>1 DEF Winners, MinRecords
  <2> QED
    BY <1>1, <1>3, <2>3 DEF StoredWinners
<1> QED
  BY <1>2, <1>3

(***************************************************************************)
(* The inductive invariant: types, the queue, the store, the memory and    *)
(* the block in flight depend on each other. Grading the next eblock is    *)
(* right because memory matches the store; memory matches the store after  *)
(* the save because the block in flight is the next verdict.               *)
(***************************************************************************)
GraderInv ==
  /\ TypeOK
  /\ QueueIsGap
  /\ StoreIsRegradable
  /\ MemoryMatchesStore
  /\ InFlightIsNext

(* A non-empty queue starts with the eblock after the current one.         *)
LEMMA NextIsCurrentPlusOne ==
  ASSUME TypeOK, QueueIsGap, toParse # <<>>
  PROVE  /\ current + 1 \in 1..Len(chain) /\ current < target
         /\ Head(toParse) = current + 1
         /\ NextEBlock = chain[current + 1]
         /\ Tail(toParse) = [k \in 1..(target - (current + 1)) |-> current + 1 + k]
         /\ Tail(toParse) \in Seq(1..Len(chain))
<1>1. Len(chain) \in Nat /\ current \in 0..Len(chain) /\ target \in 0..Len(chain)
      /\ toParse \in Seq(1..Len(chain)) /\ current <= target
      /\ toParse = [k \in 1..(target - current) |-> current + k]
  BY ChainType DEF TypeOK, QueueIsGap
<1>2. Len(toParse) = target - current
  BY <1>1
<1>3. current < target
  BY <1>1, <1>2
<1>4. Head(toParse) = current + 1
  BY <1>1, <1>2, <1>3
<1>5. Tail(toParse) = [k \in 1..(target - (current + 1)) |-> current + 1 + k]
  <2> DEFINE n == target - current
  <2>1. n \in Nat \ {0} /\ n - 1 = target - (current + 1) /\ Len(toParse) = n
    BY <1>1, <1>2, <1>3
  <2>2. Tail(toParse) = [k \in 1..(n - 1) |-> toParse[k + 1]]
    <3> DEFINE t == Tail(toParse)
    <3>1. toParse \in Seq(1..Len(chain)) /\ toParse # <<>>
      BY <1>1
    <3>2. /\ t \in Seq(1..Len(chain)) /\ Len(t) = n - 1
          /\ \A k \in 1..Len(t) : t[k] = toParse[k + 1]
      BY <3>1, <2>1, HeadTailProperties
    <3> HIDE DEF t, n
    <3>3. t = [k \in 1..(n - 1) |-> t[k]]
      BY <3>2, LenProperties
    <3> QED
      BY <3>2, <3>3 DEF t
  <2>3. \A k \in 1..(n - 1) : toParse[k + 1] = current + 1 + k
    BY <2>1, <1>1
  <2> HIDE DEF n
  <2> QED
    BY <2>1, <2>2, <2>3
<1>6. Tail(toParse) \in Seq(1..Len(chain))
  BY <1>1
<1> QED
  BY <1>1, <1>3, <1>4, <1>5, <1>6 DEF NextEBlock

(* The winners found in memory for a height are the stored ones, when the  *)
(* eblocks below that height, the first n, have all been parsed. Blocks in *)
(* memory at later heights do not matter.                                  *)
LEMMA PreviousWinnersAt ==
  ASSUME TypeOK, StoreIsRegradable, MemoryMatchesStore, pc # "pay",
         NEW d \in Nat, NEW n \in 0..current,
         \A i \in 1..Len(chain) : i <= n <=> chain[i].DBHeight < d
  PROVE  GetPreviousWinners(oprBlks, d) = StoredWinners(n + 1)
<1> DEFINE below == {k \in DOMAIN oprBlks : oprBlks[k].Dbht < d}
           G == {j \in 1..(n + 1 - 1) : IsGraded(j)}
<1>1. /\ oprBlks \in Seq(OprBlock) /\ DOMAIN oprBlks = 1..Len(oprBlks) /\ Len(oprBlks) \in Nat
      /\ current \in 0..Len(chain) /\ Len(chain) \in Nat /\ n \in Nat /\ 1..(n + 1 - 1) = 1..n
      /\ 1..n \subseteq 1..Len(chain) /\ 1..n \subseteq 1..current
  BY ChainType DEF TypeOK
<1>2. \A i, j \in 1..Len(chain) : i < j => chain[i].DBHeight < chain[j].DBHeight
  BY ChainType
<1>3. \A i \in 1..Len(chain) : chain[i].DBHeight \in Nat
  BY ChainType
<1>4. \A k \in DOMAIN oprBlks : \E i \in 1..current :
         /\ IsGraded(i)
         /\ oprBlks[k].Dbht = chain[i].DBHeight
         /\ oprBlks[k].GradedOPRs = Stored(i).GradedOPRs
  BY DEF MemoryMatchesStore, InMemory
<1>5. \A i \in 1..current : IsGraded(i) => \E k \in DOMAIN oprBlks : oprBlks[k].Dbht = chain[i].DBHeight
  BY DEF MemoryMatchesStore, InMemory
<1>6. \A k : k \in below <=> k \in DOMAIN oprBlks /\ oprBlks[k].Dbht < d
  OBVIOUS
<1>7. StoredWinners(n + 1) = IF G = {} THEN <<>> ELSE Winners(Stored(Max(G)))
  BY DEF StoredWinners
<1>8. GetPreviousWinners(oprBlks, d) =
        LET prev == IF below = {} THEN NoBlock ELSE oprBlks[Max(below)]
        IN  IF prev = NoBlock THEN <<>> ELSE Winners(prev)
  BY DEF GetPreviousWinners, GetPreviousOPRBlock
<1>9. \A j : j \in G <=> j \in 1..n /\ IsGraded(j)
  BY <1>1
<1> HIDE DEF G, below
<1>10. ASSUME NEW k \in below
       PROVE  \E i \in G : /\ IsGraded(i) /\ i \in 1..Len(chain)
                           /\ oprBlks[k].Dbht = chain[i].DBHeight
                           /\ oprBlks[k].GradedOPRs = Stored(i).GradedOPRs
  <2>1. PICK i \in 1..current : /\ IsGraded(i)
                                /\ oprBlks[k].Dbht = chain[i].DBHeight
                                /\ oprBlks[k].GradedOPRs = Stored(i).GradedOPRs
    BY <1>4, <1>6
  <2>2. i \in 1..Len(chain) /\ i <= n
    BY <2>1, <1>1, <1>6
  <2> QED
    BY <2>1, <2>2, <1>1, <1>9
<1>11. ASSUME NEW j \in G PROVE \E k \in below : oprBlks[k].Dbht = chain[j].DBHeight
  <2>1. j \in 1..n /\ j \in 1..current /\ j \in 1..Len(chain) /\ IsGraded(j) /\ j <= n
    BY <1>1, <1>9
  <2>2. PICK k \in DOMAIN oprBlks : oprBlks[k].Dbht = chain[j].DBHeight
    BY <1>5, <2>1
  <2> QED
    BY <1>6, <2>1, <2>2
<1>12. CASE below = {}
  BY <1>7, <1>8, <1>11, <1>12
<1>13. CASE below # {}
  <2> DEFINE m == Max(below)
  <2>1. m \in below /\ (\A y \in below : m >= y) /\ m \in 1..Len(oprBlks)
    BY <1>1, <1>6, <1>13, MaxOfBounded, below \subseteq 1..Len(oprBlks)
  <2> HIDE DEF m
  <2>2. PICK i \in G : /\ IsGraded(i) /\ i \in 1..Len(chain)
                       /\ oprBlks[m].Dbht = chain[i].DBHeight
                       /\ oprBlks[m].GradedOPRs = Stored(i).GradedOPRs
    BY <1>10, <2>1
  <2>3. ASSUME NEW j \in G PROVE i >= j
    <3>1. PICK k \in below : oprBlks[k].Dbht = chain[j].DBHeight
      BY <1>11
    <3>2. j \in 1..Len(chain) /\ chain[j].DBHeight \in Nat /\ chain[i].DBHeight \in Nat
      BY <1>1, <1>3, <1>9, <2>2
    <3>3. k \in 1..Len(oprBlks) /\ m >= k
      BY <1>1, <1>6, <2>1
    <3>4. k < m => oprBlks[k].Dbht < oprBlks[m].Dbht
      BY <1>1, <2>1, <3>3 DEF MemoryMatchesStore
    <3>5. k < m \/ k = m
      BY <3>3, <2>1
    <3>6. oprBlks[k].Dbht = chain[j].DBHeight /\ oprBlks[m].Dbht = chain[i].DBHeight
      BY <3>1, <2>2
    <3>7. chain[j].DBHeight <= chain[i].DBHeight
      <4>1. CASE k = m
        BY <3>2, <3>6, <4>1
      <4>2. CASE k < m
        BY <3>2, <3>4, <3>6, <4>2
      <4> QED
        BY <3>5, <4>1, <4>2
    <3>8. i < j => chain[i].DBHeight < chain[j].DBHeight
      BY <1>2, <2>2, <3>2
    <3>9. i \in Nat /\ j \in Nat
      BY <1>1, <2>2, <3>2
    <3> QED
      BY <3>2, <3>7, <3>8, <3>9
  <2>4. Max(G) = i
    BY <2>2, <2>3, <1>1, <1>9, MaxIsUnique, G \subseteq 1..n
  <2>5. oprBlks[m] # NoBlock
    BY <1>1, <2>1, NilAssumption
  <2>6. Stored(i).Dbht = chain[i].DBHeight
    BY <2>2 DEF StoreIsRegradable, SameVerdict, IsGraded
  <2>7. Winners(oprBlks[m]) = Winners(Stored(i))
    BY <2>2, <2>6 DEF Winners
  <2> QED
    BY <1>13, <2>2, <2>4, <2>5, <2>7, <1>7, <1>8 DEF m
<1> QED
  BY <1>12, <1>13

(* The winners Sync checks the next eblock against are the stored ones.    *)
LEMMA PreviousWinnersAreStored ==
  ASSUME TypeOK, StoreIsRegradable, MemoryMatchesStore, pc # "pay",
         NEW c \in 1..Len(chain), c = current + 1
  PROVE  GetPreviousWinners(oprBlks, chain[c].DBHeight) = StoredWinners(c)
<1>1. Len(chain) \in Nat /\ current \in Nat /\ current \in 0..current
  BY ChainType DEF TypeOK
<1>2. chain[c].DBHeight \in Nat
  BY ChainType
<1>3. ASSUME NEW i \in 1..Len(chain)
      PROVE  i <= current <=> chain[i].DBHeight < chain[c].DBHeight
  <2>1. /\ i < c => chain[i].DBHeight < chain[c].DBHeight
        /\ c < i => chain[c].DBHeight < chain[i].DBHeight
        /\ chain[i].DBHeight \in Nat
    BY ChainType
  <2> QED
    BY <1>1, <1>2, <2>1
<1> QED
  BY <1>1, <1>2, <1>3, PreviousWinnersAt

(* Writing the verdict on the eblock after the stored prefix, or writing   *)
(* it again, keeps the store regradable and changes no earlier verdict.    *)
LEMMA StoreStep ==
  ASSUME TypeOK, StoreIsRegradable, NEW c \in 1..Len(chain), NEW b \in OprBlock,
         chain' = chain, store' = [store EXCEPT ![chain[c].DBHeight] = b],
         \A j \in 1..(c - 1) : Stored(j) # NoBlock,
         SameVerdict(b, c)
  PROVE  /\ StoreIsRegradable'
         /\ \A i \in 1..Len(chain) : i # c => Stored(i)' = Stored(i)
         /\ Stored(c)' = b /\ b # NoBlock
         /\ StoredWinners(c)' = StoredWinners(c)
         /\ SameVerdict(b, c)'
         /\ Stored(c) # NoBlock => /\ b.EmptyOPRBlock = Stored(c).EmptyOPRBlock
                                   /\ b.GradedOPRs = Stored(c).GradedOPRs
<1>1. /\ Len(chain) \in Nat
      /\ \A i \in 1..Len(chain) : chain[i].DBHeight \in Heights /\ chain[i].DBHeight \in Nat
      /\ \A i, j \in 1..Len(chain) : i < j => chain[i].DBHeight < chain[j].DBHeight
      /\ store \in [Heights -> OprBlock \cup {NoBlock}]
  BY ChainType DEF TypeOK
<1>2. ASSUME NEW i \in 1..Len(chain), i # c PROVE Stored(i)' = Stored(i)
  <2>1. chain[i].DBHeight # chain[c].DBHeight
    BY <1>1, <1>2
  <2> QED
    BY <1>1, <2>1 DEF Stored
<1>3. Stored(c)' = b
  BY <1>1 DEF Stored
<1>4. b # NoBlock
  BY NilAssumption
<1>5. Stored(c) # NoBlock =>
        /\ b.EmptyOPRBlock = Stored(c).EmptyOPRBlock
        /\ b.GradedOPRs = Stored(c).GradedOPRs
        /\ b.Dbht = Stored(c).Dbht
  BY DEF StoreIsRegradable, SameVerdict
<1>6. ASSUME NEW i \in 1..Len(chain), Stored(i)' # NoBlock
      PROVE  StoredWinners(i)' = StoredWinners(i)
  <2>1. ASSUME NEW j \in 1..(i - 1)
        PROVE  /\ IsGraded(j)' <=> IsGraded(j)
               /\ IsGraded(j) => /\ Stored(j)'.Dbht = Stored(j).Dbht
                                 /\ Stored(j)'.GradedOPRs = Stored(j).GradedOPRs
    <3>1. j \in 1..Len(chain) /\ j < i
      BY <1>1
    <3>2. CASE j # c
      BY <3>1, <3>2, <1>2 DEF IsGraded
    <3>3. CASE j = c
      <4>1. Stored(i) # NoBlock
        BY <1>2, <1>6, <3>1, <3>3
      <4>2. Stored(c) # NoBlock
        BY <4>1, <3>1, <3>3 DEF StoreIsRegradable
      <4> QED
        BY <4>2, <1>3, <1>4, <1>5, <3>3 DEF IsGraded
    <3> QED
      BY <3>2, <3>3
  <2>2. i \in 1..(Len(chain) + 1)
    BY <1>1
  <2> QED
    BY <2>1, <2>2, WinnersStable
<1>7. StoredWinners(c)' = StoredWinners(c)
  BY <1>3, <1>4, <1>6
<1>8. SameVerdict(b, c)'
  BY <1>7 DEF SameVerdict
<1>9. ASSUME NEW i \in 1..Len(chain), Stored(i)' # NoBlock
      PROVE  /\ \A j \in 1..i : Stored(j)' # NoBlock
             /\ SameVerdict(Stored(i), i)'
  <2>1. CASE i = c
    <3>1. \A j \in 1..i : j \in 1..Len(chain) /\ (j # c => j \in 1..(c - 1))
      BY <1>1, <2>1
    <3>2. \A j \in 1..i : Stored(j)' # NoBlock
      BY <3>1, <1>2, <1>3, <1>4
    <3>3. SameVerdict(Stored(i), i)'
      BY <1>3, <1>8, <2>1 DEF SameVerdict
    <3> QED
      BY <3>2, <3>3
  <2>2. CASE i # c
    <3>1. Stored(i) # NoBlock
      BY <1>2, <1>9, <2>2
    <3>2. \A j \in 1..i : j \in 1..Len(chain) /\ Stored(j) # NoBlock
      BY <3>1, <1>1 DEF StoreIsRegradable
    <3>3. \A j \in 1..i : Stored(j)' # NoBlock
      BY <3>2, <1>2, <1>3, <1>4
    <3>4. SameVerdict(Stored(i), i)
      BY <3>1 DEF StoreIsRegradable
    <3>5. StoredWinners(i)' = StoredWinners(i)
      BY <1>6, <1>9
    <3>6. Stored(i)' = Stored(i)
      BY <1>2, <2>2
    <3>7. SameVerdict(Stored(i), i)'
      BY <3>4, <3>5, <3>6 DEF SameVerdict
    <3> QED
      BY <3>3, <3>7
  <2> QED
    BY <2>1, <2>2
<1>10. StoreIsRegradable'
  BY <1>9 DEF StoreIsRegradable
<1> QED
  BY <1>2, <1>3, <1>4, <1>5, <1>7, <1>8, <1>10

(* A gap from c to t followed by a gap from t to h is the gap from c to h. *)
LEMMA GapsJoin ==
  ASSUME NEW n \in Nat, NEW c \in Nat, NEW t \in Nat, NEW h \in Nat,
         c <= t, t <= h, h <= n,
         NEW q, q = [k \in 1..(t - c) |-> c + k],
         NEW r, r = [k \in 1..(h - t) |-> t + k]
  PROVE  /\ q \o r = [k \in 1..(h - c) |-> c + k]
         /\ q \o r \in Seq(1..n)
<1> DEFINE g == [k \in 1..(h - c) |-> c + k]
<1>1. q \in Seq(1..n) /\ Len(q) = t - c
  OBVIOUS
<1>2. r \in Seq(1..n) /\ Len(r) = h - t
  OBVIOUS
<1>3. g \in Seq(1..n) /\ Len(g) = h - c
  OBVIOUS
<1>4. /\ q \o r \in Seq(1..n)
      /\ Len(q \o r) = h - c
      /\ \A i \in 1..(h - c) : (q \o r)[i] = IF i <= t - c THEN q[i] ELSE r[i - (t - c)]
  BY <1>1, <1>2, ConcatProperties, (t - c) + (h - t) = h - c
<1>5. \A i \in 1..(h - c) : g[i] = c + i
  OBVIOUS
<1>6. \A i \in 1..(h - c) : i <= t - c => q[i] = c + i
  OBVIOUS
<1>7. \A i \in 1..(h - c) : ~(i <= t - c) => i - (t - c) \in 1..(h - t)
  OBVIOUS
<1>8. \A i \in 1..(h - c) : ~(i <= t - c) => r[i - (t - c)] = c + i
  <2>1. \A k \in 1..(h - t) : r[k] = t + k
    OBVIOUS
  <2>2. \A i \in 1..(h - c) : t + (i - (t - c)) = c + i
    OBVIOUS
  <2> QED
    BY <2>1, <2>2, <1>7
<1> HIDE DEF g
<1>9. \A i \in 1..(h - c) : (q \o r)[i] = g[i]
  BY <1>4, <1>5, <1>6, <1>8
<1>10. q \o r = g
  BY <1>3, <1>4, <1>9, SeqEqual
<1> QED
  BY <1>3, <1>10 DEF g

(* The queue SyncBlocks leaves is again the gap, up to the head it saw.    *)
LEMMA SyncBlocksQueue ==
  ASSUME TypeOK, QueueIsGap, NEW h \in Nat, h <= Len(chain),
         toParse' = toParse \o [k \in 1..Cardinality(Added(h)) |-> Min(Added(h)) + k - 1],
         target' = IF Added(h) = {} THEN target ELSE h
  PROVE  /\ target' \in 0..Len(chain) /\ current <= target'
         /\ toParse' = [k \in 1..(target' - current) |-> current + k]
         /\ toParse' \in Seq(1..Len(chain))
<1> DEFINE extra == [k \in 1..Cardinality(Added(h)) |-> Min(Added(h)) + k - 1]
<1>1. /\ Len(chain) \in Nat /\ current \in 0..Len(chain) /\ target \in 0..Len(chain)
      /\ toParse \in Seq(1..Len(chain)) /\ current <= target
      /\ toParse = [k \in 1..(target - current) |-> current + k]
  BY ChainType DEF TypeOK, QueueIsGap
<1>2. current \in Nat /\ target \in Nat /\ current <= Len(chain) /\ target <= Len(chain)
  BY <1>1
<1>3. /\ h > target => Added(h) = (target + 1)..h
      /\ h <= target => Added(h) = {}
  BY <1>2, AddedIsGap
<1>4. target' \in Nat /\ target <= target' /\ target' <= Len(chain)
  BY <1>1, <1>2, <1>3
<1>5. extra = [k \in 1..(target' - target) |-> target + k]
  <2>1. CASE h <= target
    <3>1. Added(h) = {} /\ Cardinality(Added(h)) = 0 /\ target' = target
      BY <1>3, <2>1, FS_EmptySet
    <3> QED
      BY <3>1, <1>2
  <2>2. CASE h > target
    <3>1. Added(h) = (target + 1)..h /\ target + 1 \in Added(h) /\ target' = h
      <4>1. Added(h) = (target + 1)..h
        BY <1>2, <1>3, <2>2
      <4>2. target + 1 \in (target + 1)..h
        BY <1>2, <2>2
      <4> QED
        BY <4>1, <4>2
    <3>2. Cardinality(Added(h)) = h - target
      <4>1. Cardinality((target + 1)..h) = IF target + 1 > h THEN 0 ELSE h - (target + 1) + 1
        BY <1>2, FS_Interval, target + 1 \in Int, h \in Int
      <4> QED
        BY <4>1, <3>1, <1>2, <2>2
    <3>3. Min(Added(h)) = target + 1
      <4>1. \A y \in Added(h) : y \in Int /\ target + 1 <= y
        BY <3>1, <1>2
      <4>2. ASSUME NEW x \in Added(h), \A y \in Added(h) : x <= y PROVE x = target + 1
        <5>1. x <= target + 1
          BY <4>2, <3>1
        <5>2. x \in Int /\ target + 1 <= x
          BY <4>1
        <5> QED
          BY <5>1, <5>2, <1>2
      <4> QED
        BY <4>1, <4>2, <3>1 DEF Min
    <3>4. \A k \in 1..(h - target) : target + 1 + k - 1 = target + k
      BY <1>2
    <3> QED
      BY <3>1, <3>2, <3>3, <3>4
  <2> QED
    BY <2>1, <2>2, <1>2
<1> HIDE DEF extra
<1>6. toParse' = toParse \o extra
  BY DEF extra
<1>7. PICK t \in Nat : t = target'
  BY <1>4
<1>8. /\ toParse \o extra = [k \in 1..(t - current) |-> current + k]
      /\ toParse \o extra \in Seq(1..Len(chain))
  BY <1>1, <1>2, <1>4, <1>5, <1>7, GapsJoin
<1>9. /\ toParse' = [k \in 1..(target' - current) |-> current + k]
      /\ toParse' \in Seq(1..Len(chain))
  BY <1>6, <1>7, <1>8
<1>10. target' \in 0..Len(chain) /\ current <= target'
  BY <1>1, <1>2, <1>4
<1> QED
  BY <1>9, <1>10

(* A graded block of the store has at least the records it pays.           *)
LEMMA StoredWinnersExist ==
  ASSUME TypeOK, StoreIsRegradable, NEW i \in 1..Len(chain), IsGraded(i)
  PROVE  /\ Stored(i).GradedOPRs \in Seq(Entry)
         /\ Len(Stored(i).GradedOPRs) >= MinRecords(chain[i].DBHeight)
<1> DEFINE b == FetchOPRBlock(chain[i], StoredWinners(i))
<1>1. SameVerdict(Stored(i), i) /\ ~Stored(i).EmptyOPRBlock
  BY DEF StoreIsRegradable, IsGraded
<1>2. b # NoBlock /\ Stored(i).GradedOPRs = b.GradedOPRs
  BY <1>1 DEF SameVerdict
<1>3. b \in OprBlock /\ Len(b.GradedOPRs) >= MinRecords(chain[i].DBHeight)
  BY <1>2, FetchOPRBlockType
<1> HIDE DEF b
<1>4. b.GradedOPRs \in Seq(Entry)
  BY <1>3 DEF OprBlock
<1> QED
  BY <1>2, <1>3, <1>4

(* The winners sent to the listeners are entries.                          *)
LEMMA PreviousWinnersType ==
  ASSUME TypeOK, StoreIsRegradable, MemoryMatchesStore, InMemory <= Len(chain), NEW d
  PROVE  GetPreviousWinners(oprBlks, d) \in Seq(Entry)
<1> DEFINE below == {k \in DOMAIN oprBlks : oprBlks[k].Dbht < d}
<1>1. oprBlks \in Seq(OprBlock) /\ DOMAIN oprBlks = 1..Len(oprBlks) /\ Len(oprBlks) \in Nat
  BY DEF TypeOK
<1>2. CASE below = {}
  BY <1>2 DEF GetPreviousWinners, GetPreviousOPRBlock
<1>3. CASE below # {}
  <2>1. Max(below) \in below
    BY <1>1, <1>3, MaxOfBounded, below \subseteq 1..Len(oprBlks)
  <2>2. PICK m \in DOMAIN oprBlks : m = Max(below)
    BY <2>1
  <2>3. oprBlks[m] \in OprBlock /\ oprBlks[m] # NoBlock
    BY <1>1, NilAssumption
  <2>4. GetPreviousWinners(oprBlks, d) = Winners(oprBlks[m])
    BY <1>3, <2>2, <2>3 DEF GetPreviousWinners, GetPreviousOPRBlock
  <2>5. PICK i \in 1..InMemory : /\ IsGraded(i)
                                 /\ oprBlks[m].Dbht = chain[i].DBHeight
                                 /\ oprBlks[m].GradedOPRs = Stored(i).GradedOPRs
    BY DEF MemoryMatchesStore
  <2>6. i \in 1..Len(chain)
    BY ChainType DEF InMemory, TypeOK
  <2> DEFINE g == oprBlks[m].GradedOPRs
             n == MinRecords(oprBlks[m].Dbht)
  <2>7. g \in Seq(Entry) /\ Len(g) >= n /\ n \in Nat
    BY <2>5, <2>6, StoredWinnersExist, MinRecordsType
  <2>8. Winners(oprBlks[m]) = SubSeq(g, 1, n)
    BY DEF Winners
  <2> HIDE DEF g, n
  <2>9. SubSeq(g, 1, n) \in Seq(Entry)
    BY <2>7, SubSeqProperties, \A k \in 1..n : g[k] \in Entry
  <2> QED
    BY <2>4, <2>8, <2>9
<1> QED
  BY <1>2, <1>3

(* A step that leaves the chain and the store alone leaves every verdict   *)
(* alone, and the winners derived from them.                               *)
LEMMA StoreFrame ==
  ASSUME chain' = chain, store' = store
  PROVE  /\ StoreIsRegradable' <=> StoreIsRegradable
         /\ \A i : Stored(i)' = Stored(i) /\ (IsGraded(i)' <=> IsGraded(i))
         /\ \A i : StoredWinners(i)' = StoredWinners(i)
         /\ \A b, i : SameVerdict(b, i)' <=> SameVerdict(b, i)
BY DEF StoreIsRegradable, Stored, IsGraded, StoredWinners, SameVerdict

(* A step that also leaves memory alone keeps them in agreement.           *)
LEMMA MemoryFrame ==
  ASSUME MemoryMatchesStore, chain' = chain, store' = store, oprBlks' = oprBlks,
         InMemory' = InMemory
  PROVE  MemoryMatchesStore'
BY StoreFrame DEF MemoryMatchesStore

(* A failed Sync call leaves the queue, the store and memory as they were  *)
(* and drops the block in flight.                                          *)
LEMMA SyncFailsStep ==
  ASSUME GraderInv, pc \in {"sync", "fetch", "save"}, SyncFails,
         UNCHANGED <<nodeVars, fdAlert, syncVars, oprBlks, balances, place, store>>
  PROVE  GraderInv'
<1> USE DEF GraderInv, nodeVars, syncVars
<1>1. pc' \in {"idle", "sync"} /\ oprblock' = NoBlock /\ tries' \in 0..2
      /\ UNCHANGED <<listening, event>>
  BY DEF SyncFails, TypeOK
<1>2. announced' \in Message
  <2>1. [Dbht |-> event, ToBePaid |-> <<>>, Error |-> TRUE] \in Message
    BY DEF Message, TypeOK
  <2> QED
    BY <2>1 DEF SyncFails, TypeOK
<1>3. TypeOK'
  BY <1>1, <1>2 DEF TypeOK
<1>4. QueueIsGap'
  BY DEF QueueIsGap
<1>5. StoreIsRegradable'
  BY StoreFrame
<1>6. MemoryMatchesStore'
  BY <1>1, MemoryFrame DEF InMemory
<1>7. InFlightIsNext'
  BY <1>1 DEF InFlightIsNext
<1> QED
  BY <1>3, <1>4, <1>5, <1>6, <1>7

(* A freshly started daemon with an empty store satisfies the invariant.   *)
LEMMA InitInv == Init => GraderInv
<1> SUFFICES ASSUME Init PROVE GraderInv
  OBVIOUS
<1> USE DEF Init, Fresh
<1>1. IsChain(chain) /\ Len(chain) \in Nat
  BY ChainsAssumption DEF IsChain
<1>2. 0 \in 0..Len(chain) /\ NoMessage \in Message
  BY <1>1 DEF NoMessage, Message
<1>3. TypeOK
  <2>1. /\ balances \in [Addrs -> Nat] /\ store \in [Heights -> OprBlock \cup {NoBlock}]
        /\ fdAlert \in Seq(Nat) /\ toParse \in Seq(1..Len(chain)) /\ oprBlks \in Seq(OprBlock)
    OBVIOUS
  <2>2. /\ listening \in BOOLEAN /\ oprblock \in OprBlock \cup {NoBlock}
        /\ pc \in {"idle", "sync", "next", "fetch", "save", "pay"}
    OBVIOUS
  <2>3. dbht \in Nat \ {0} /\ tries \in 0..2 /\ place \in Int /\ event \in Nat
    OBVIOUS
  <2>4. current \in 0..Len(chain) /\ target \in 0..Len(chain) /\ head \in 0..Len(chain)
    BY <1>2
  <2>5. announced \in Message /\ chain \in Chains
    BY <1>2
  <2> QED
    BY <2>1, <2>2, <2>3, <2>4, <2>5 DEF TypeOK
<1>4. QueueIsGap
  BY DEF QueueIsGap
<1>5. \A i \in 1..Len(chain) : Stored(i) = NoBlock
  BY <1>3, ChainType DEF Stored
<1>6. StoreIsRegradable
  BY <1>5 DEF StoreIsRegradable
<1>7. MemoryMatchesStore
  BY DEF MemoryMatchesStore, InMemory
<1>8. InFlightIsNext
  BY DEF InFlightIsNext
<1> QED
  BY <1>3, <1>4, <1>6, <1>7, <1>8 DEF GraderInv

(* The network's own steps do not touch the grader.                        *)
LEMMA NextDBlockStep ==
  ASSUME GraderInv, NextDBlock
  PROVE  GraderInv'
<1> USE DEF GraderInv, NextDBlock
<1>1. dbht' \in Nat \ {0} /\ head' \in 0..Len(chain)
  BY ChainType DEF TypeOK
<1>2. fdAlert' \in Seq(Nat)
  <2>1. fdAlert \in Seq(Nat) /\ dbht + 1 \in Nat
    BY DEF TypeOK
  <2>2. Append(fdAlert, dbht + 1) \in Seq(Nat)
    BY <2>1, AppendProperties
  <2> QED
    BY <2>1, <2>2
<1>3. TypeOK'
  BY <1>1, <1>2 DEF TypeOK
<1>4. QueueIsGap'
  BY DEF QueueIsGap
<1>5. StoreIsRegradable' /\ MemoryMatchesStore'
  BY StoreFrame, MemoryFrame DEF InMemory
<1>6. InFlightIsNext'
  BY StoreFrame DEF InFlightIsNext
<1> QED
  BY <1>3, <1>4, <1>5, <1>6

(* A restart forgets everything but the store.                             *)
LEMMA CrashStep ==
  ASSUME GraderInv, Crash
  PROVE  GraderInv'
<1> USE DEF GraderInv, Crash, nodeVars
<1>1. 0 \in 0..Len(chain) /\ NoMessage \in Message
  BY ChainType DEF NoMessage, Message
<1>2. TypeOK'
  <2>1. /\ balances' \in [Addrs -> Nat] /\ fdAlert' \in Seq(Nat)
        /\ toParse' \in Seq(1..Len(chain)) /\ oprBlks' \in Seq(OprBlock)
    OBVIOUS
  <2>2. /\ listening' \in BOOLEAN /\ oprblock' \in OprBlock \cup {NoBlock}
        /\ pc' \in {"idle", "sync", "next", "fetch", "save", "pay"}
    OBVIOUS
  <2>3. tries' \in 0..2 /\ place' \in Int /\ event' \in Nat
    OBVIOUS
  <2>4. current' \in 0..Len(chain) /\ target' \in 0..Len(chain) /\ announced' \in Message
    BY <1>1
  <2>5. UNCHANGED <<chain, dbht, head, store>>
    OBVIOUS
  <2> QED
    BY <2>1, <2>2, <2>3, <2>4, <2>5 DEF TypeOK
<1>3. QueueIsGap'
  BY DEF QueueIsGap
<1>4. StoreIsRegradable'
  BY StoreFrame
<1>5. MemoryMatchesStore'
  BY DEF MemoryMatchesStore, InMemory
<1>6. InFlightIsNext'
  BY DEF InFlightIsNext
<1> QED
  BY <1>2, <1>3, <1>4, <1>5, <1>6

(* Taking a minute-1 event only starts a Sync call.                        *)
LEMMA ReceiveMinuteOneStep ==
  ASSUME GraderInv, ReceiveMinuteOne
  PROVE  GraderInv'
<1> USE DEF GraderInv, ReceiveMinuteOne, nodeVars, syncVars
<1>1. event' \in Nat /\ fdAlert' \in Seq(Nat)
  BY DEF TypeOK
<1>2. TypeOK'
  BY <1>1 DEF TypeOK
<1>3. QueueIsGap'
  BY DEF QueueIsGap
<1>4. StoreIsRegradable' /\ MemoryMatchesStore'
  BY StoreFrame, MemoryFrame DEF InMemory
<1>5. InFlightIsNext'
  BY DEF InFlightIsNext
<1> QED
  BY <1>2, <1>3, <1>4, <1>5

(* A head that is new, unchanged or older than the target: the queue stays *)
(* the gap.                                                                *)
LEMMA SyncBlocksStep ==
  ASSUME GraderInv, SyncBlocks
  PROVE  GraderInv'
<1> USE DEF GraderInv, nodeVars, syncVars, runVars
<1>1. PICK h \in (head - HeadLag)..head :
        /\ h >= 0
        /\ toParse' = toParse \o [k \in 1..Cardinality(Added(h)) |-> Min(Added(h)) + k - 1]
        /\ target' = IF Added(h) = {} THEN target ELSE h
  BY DEF SyncBlocks
<1>2. /\ pc = "sync" /\ pc' = "next"
      /\ UNCHANGED <<chain, dbht, head, fdAlert, current, oprBlks, balances, listening, event,
                     tries, announced, oprblock, place, store>>
  BY DEF SyncBlocks
<1>3. h \in Nat /\ h <= Len(chain)
  BY <1>1, ChainType, ChainsAssumption DEF TypeOK
<1>4. /\ target' \in 0..Len(chain) /\ current <= target'
      /\ toParse' = [k \in 1..(target' - current) |-> current + k]
      /\ toParse' \in Seq(1..Len(chain))
  BY <1>1, <1>3, SyncBlocksQueue
<1>5. TypeOK'
  BY <1>2, <1>4 DEF TypeOK
<1>6. QueueIsGap'
  BY <1>2, <1>4 DEF QueueIsGap
<1>7. StoreIsRegradable' /\ MemoryMatchesStore'
  BY <1>2, StoreFrame, MemoryFrame DEF InMemory
<1>8. InFlightIsNext'
  BY <1>2 DEF InFlightIsNext
<1> QED
  BY <1>5, <1>6, <1>7, <1>8

(* The end of Sync sends winners that are entries and disturbs nothing     *)
(* else.                                                                   *)
LEMMA SyncDoneStep ==
  ASSUME GraderInv, SyncDone
  PROVE  GraderInv'
<1> USE DEF GraderInv, nodeVars, syncVars
<1>1. /\ pc = "next" /\ pc' = "idle" /\ tries' = 0 /\ listening' = TRUE
      /\ UNCHANGED <<chain, dbht, head, fdAlert, current, target, toParse, oprBlks, balances,
                     event, oprblock, place, store>>
  BY DEF SyncDone, SyncSucceeds
<1>2. announced' \in Message
  <2>1. InMemory <= Len(chain)
    BY <1>1, ChainType DEF InMemory, TypeOK
  <2>2. GetPreviousWinners(oprBlks, event) \in Seq(Entry)
    BY <2>1, PreviousWinnersType
  <2>3. [Dbht |-> event, Error |-> FALSE, ToBePaid |-> GetPreviousWinners(oprBlks, event)]
          \in Message
    BY <2>2 DEF TypeOK, Message
  <2>4. announced \in Message
    BY DEF TypeOK
  <2> QED
    BY <2>3, <2>4 DEF SyncDone, SyncSucceeds
<1>3. TypeOK'
  BY <1>1, <1>2 DEF TypeOK
<1>4. QueueIsGap'
  BY <1>1 DEF QueueIsGap
<1>5. StoreIsRegradable' /\ MemoryMatchesStore'
  BY <1>1, StoreFrame, MemoryFrame DEF InMemory
<1>6. InFlightIsNext'
  BY <1>1 DEF InFlightIsNext
<1> QED
  BY <1>3, <1>4, <1>5, <1>6

(* BlockParsed moves the queue on by one eblock.                           *)
LEMMA BlockParsedStep ==
  ASSUME TypeOK, QueueIsGap, toParse # <<>>, chain' = chain, BlockParsed
  PROVE  /\ current' = current + 1 /\ current' \in 0..Len(chain)
         /\ target' = target /\ toParse' \in Seq(1..Len(chain))
         /\ QueueIsGap'
<1>1. /\ current' = Head(toParse) /\ toParse' = Tail(toParse) /\ target' = target
  BY DEF BlockParsed
<1>2. /\ current + 1 \in 1..Len(chain) /\ current < target
      /\ Head(toParse) = current + 1
      /\ Tail(toParse) = [k \in 1..(target - (current + 1)) |-> current + 1 + k]
      /\ Tail(toParse) \in Seq(1..Len(chain))
  BY NextIsCurrentPlusOne
<1>3. Len(chain) \in Nat /\ current \in Int /\ target \in Int
  BY ChainType DEF TypeOK
<1>4. current' = current + 1 /\ toParse' = [k \in 1..(target' - current') |-> current' + k]
  BY <1>1, <1>2
<1>5. current' <= target' /\ current' \in 0..Len(chain)
  BY <1>1, <1>2, <1>3
<1>6. QueueIsGap'
  BY <1>4, <1>5 DEF QueueIsGap
<1> QED
  BY <1>1, <1>2, <1>4, <1>5, <1>6

(* An eblock the store knows to be invalid is passed over.                 *)
LEMMA ReadEmptyBlockStep ==
  ASSUME GraderInv, ReadEmptyBlock
  PROVE  GraderInv'
<1> USE DEF GraderInv, nodeVars, runVars
<1>1. /\ pc = "next" /\ toParse # <<>> /\ BlockParsed
      /\ UNCHANGED <<chain, dbht, head, fdAlert, oprBlks, balances, listening, event, tries,
                     announced, pc, oprblock, place, store>>
  BY DEF ReadEmptyBlock
<1>2. /\ current' = current + 1 /\ current' \in 0..Len(chain)
      /\ target' = target /\ toParse' \in Seq(1..Len(chain))
      /\ QueueIsGap'
  BY <1>1, BlockParsedStep
<1>3. TypeOK'
  BY <1>1, <1>2 DEF TypeOK
<1>4. StoreIsRegradable'
  BY <1>1, StoreFrame
<1>5. PICK c \in 1..Len(chain) : c = current + 1
  BY <1>1, NextIsCurrentPlusOne
<1>6. Stored(c) # NoBlock /\ ~IsGraded(c)
  <2>1. NextEBlock = chain[c]
    BY <1>1, <1>5, NextIsCurrentPlusOne
  <2> QED
    BY <2>1 DEF ReadEmptyBlock, Stored, IsGraded
<1>7. MemoryMatchesStore'
  <2>1. InMemory = current /\ InMemory' = c /\ current \in Nat
    BY <1>1, <1>2, <1>5 DEF InMemory, TypeOK
  <2>2. \A j \in 1..c : j \in 1..current \/ j = c
    BY <2>1, <1>5
  <2>3. \A j \in 1..current : j \in 1..c
    BY <2>1, <1>5
  <2>4. \A j : Stored(j)' = Stored(j) /\ (IsGraded(j)' <=> IsGraded(j))
    BY <1>1, StoreFrame
  <2>5. (\A j \in 1..InMemory :
           /\ Stored(j) # NoBlock
           /\ IsGraded(j) => \E k \in DOMAIN oprBlks : oprBlks[k].Dbht = chain[j].DBHeight)'
    BY <1>1, <1>6, <2>1, <2>2, <2>4 DEF MemoryMatchesStore
  <2>6. (\A k \in DOMAIN oprBlks : \E j \in 1..InMemory :
           /\ IsGraded(j)
           /\ oprBlks[k].Dbht = chain[j].DBHeight
           /\ oprBlks[k].GradedOPRs = Stored(j).GradedOPRs)'
    BY <1>1, <2>1, <2>3, <2>4 DEF MemoryMatchesStore
  <2>7. (\A k, m \in DOMAIN oprBlks : k < m => oprBlks[k].Dbht < oprBlks[m].Dbht)'
    BY <1>1 DEF MemoryMatchesStore
  <2> QED
    BY <2>5, <2>6, <2>7 DEF MemoryMatchesStore
<1>8. InFlightIsNext'
  BY <1>1 DEF InFlightIsNext
<1> QED
  BY <1>2, <1>3, <1>4, <1>7, <1>8

(* What a stored graded block reads back as is still the verdict.          *)
LEMMA ReadStoredBlockStep ==
  ASSUME GraderInv, ReadStoredBlock
  PROVE  GraderInv'
<1> USE DEF GraderInv, nodeVars, syncVars, runVars
<1>1. /\ pc = "next" /\ toParse # <<>> /\ pc' = "save"
      /\ UNCHANGED <<chain, dbht, head, fdAlert, current, target, toParse, oprBlks, balances,
                     listening, event, tries, announced, place, store>>
  BY DEF ReadStoredBlock
<1>2. PICK c \in 1..Len(chain) : c = current + 1
  BY <1>1, NextIsCurrentPlusOne
<1>3. IsGraded(c) /\ oprblock' = ToOPRBlock(Stored(c))
  <2>1. NextEBlock = chain[c]
    BY <1>1, <1>2, NextIsCurrentPlusOne
  <2> QED
    BY <2>1 DEF ReadStoredBlock, Stored, IsGraded
<1>4. PICK b : b = oprblock'
  OBVIOUS
<1>5. Stored(c) \in OprBlock
  BY <1>3, ChainType DEF IsGraded, Stored, TypeOK
<1>6. /\ b \in OprBlock /\ b.Dbht = Stored(c).Dbht
      /\ b.EmptyOPRBlock = Stored(c).EmptyOPRBlock
      /\ b.GradedOPRs = Stored(c).GradedOPRs
      /\ b.TotalNumberRecords = 0
  BY <1>3, <1>4, <1>5 DEF ToOPRBlock, OprBlock
<1>7. b # NoBlock /\ ~b.EmptyOPRBlock
  BY <1>3, <1>6, NilAssumption DEF IsGraded
<1>8. SameVerdict(b, c)
  BY <1>3, <1>6 DEF StoreIsRegradable, SameVerdict, IsGraded
<1>9. TypeOK'
  BY <1>1, <1>4, <1>6 DEF TypeOK
<1>10. QueueIsGap'
  BY <1>1 DEF QueueIsGap
<1>11. StoreIsRegradable' /\ MemoryMatchesStore'
  BY <1>1, StoreFrame, MemoryFrame DEF InMemory
<1>12. SameVerdict(b, c)'
  BY <1>1, <1>8, StoreFrame
<1>13. InFlightIsNext'
  <2>1. SameVerdict(oprblock, current + 1)'
    BY <1>1, <1>2, <1>4, <1>12 DEF SameVerdict
  <2> QED
    BY <1>1, <1>4, <1>6, <1>7, <2>1 DEF InFlightIsNext
<1> QED
  BY <1>9, <1>10, <1>11, <1>13

(* Finding nothing in the store, or failing to read it, only leads to a    *)
(* fetch.                                                                  *)
LEMMA ReadNothingStep ==
  ASSUME GraderInv, ReadNothing
  PROVE  GraderInv'
<1> USE DEF GraderInv, ReadNothing, nodeVars, syncVars, runVars
<1>1. TypeOK'
  BY DEF TypeOK
<1>2. QueueIsGap'
  BY DEF QueueIsGap
<1>3. StoreIsRegradable' /\ MemoryMatchesStore'
  BY StoreFrame, MemoryFrame DEF InMemory
<1>4. InFlightIsNext'
  BY DEF InFlightIsNext
<1> QED
  BY <1>1, <1>2, <1>3, <1>4

(* The eblock is graded against the winners in memory, which are those of  *)
(* the store: the block in flight is the verdict on the next eblock.       *)
LEMMA FetchFromFactomdStep ==
  ASSUME GraderInv, FetchFromFactomd
  PROVE  GraderInv'
<1> USE DEF GraderInv, nodeVars, syncVars, runVars
<1>1. /\ pc = "fetch" /\ pc' = "save" /\ toParse # <<>>
      /\ UNCHANGED <<chain, dbht, head, fdAlert, current, target, toParse, oprBlks, balances,
                     listening, event, tries, announced, place, store>>
  BY DEF FetchFromFactomd, InFlightIsNext
<1>2. PICK c \in 1..Len(chain) : c = current + 1
  BY <1>1, NextIsCurrentPlusOne
<1>3. PICK b : b = FetchOPRBlock(chain[c], StoredWinners(c))
  OBVIOUS
<1>4. oprblock' = b
  <2>1. NextEBlock = chain[c]
    BY <1>1, <1>2, NextIsCurrentPlusOne
  <2>2. GetPreviousWinners(oprBlks, chain[c].DBHeight) = StoredWinners(c)
    BY <1>1, <1>2, PreviousWinnersAreStored
  <2> QED
    BY <1>3, <2>1, <2>2 DEF FetchFromFactomd
<1>5. b # NoBlock => b \in OprBlock /\ b.Dbht = chain[c].DBHeight /\ ~b.EmptyOPRBlock
  BY <1>3, FetchOPRBlockType
<1>6. b # NoBlock => SameVerdict(b, c)
  <2>1. b # NoBlock => b.EmptyOPRBlock = FALSE
    BY <1>5 DEF OprBlock
  <2> QED
    BY <1>3, <1>5, <2>1 DEF SameVerdict
<1>7. TypeOK'
  BY <1>1, <1>4, <1>5 DEF TypeOK
<1>8. QueueIsGap'
  BY <1>1 DEF QueueIsGap
<1>9. StoreIsRegradable' /\ MemoryMatchesStore'
  BY <1>1, StoreFrame, MemoryFrame DEF InMemory
<1>10. InFlightIsNext'
  <2>1. b # NoBlock => SameVerdict(b, c)'
    BY <1>1, <1>6, StoreFrame
  <2>2. b # NoBlock => SameVerdict(oprblock, current + 1)'
    BY <1>1, <1>2, <1>4, <2>1 DEF SameVerdict
  <2>3. StoredWinners(c)' = StoredWinners(c)
    BY <1>1, StoreFrame
  <2>4. b = FetchOPRBlock(chain[current + 1], StoredWinners(current + 1))'
    <3>1. StoredWinners(current + 1)' = StoredWinners(c)'
      BY <1>1, <1>2 DEF StoredWinners
    <3> QED
      BY <1>1, <1>2, <1>3, <2>3, <3>1
  <2> QED
    BY <1>1, <1>4, <1>5, <2>2, <2>4 DEF InFlightIsNext
<1> QED
  BY <1>7, <1>8, <1>9, <1>10

(* The record of an invalid eblock is written and the eblock passed over.  *)
LEMMA SaveInvalidBlockStep ==
  ASSUME GraderInv, SaveInvalidBlock
  PROVE  GraderInv'
<1> USE DEF GraderInv, nodeVars, runVars
<1>1. /\ pc = "save" /\ pc' = "next" /\ oprblock = NoBlock /\ toParse # <<>> /\ BlockParsed
      /\ UNCHANGED <<chain, dbht, head, fdAlert, oprBlks, balances, listening, event, tries,
                     announced, oprblock, place>>
  BY DEF SaveInvalidBlock, InFlightIsNext
<1>2. PICK c \in 1..Len(chain) : c = current + 1
  BY <1>1, NextIsCurrentPlusOne
<1>3. PICK b : b = InvalidOPRBlock(chain[c].DBHeight)
  OBVIOUS
<1>4. store' = [store EXCEPT ![chain[c].DBHeight] = b]
  <2>1. NextEBlock = chain[c]
    BY <1>1, <1>2, NextIsCurrentPlusOne
  <2> QED
    BY <1>3, <2>1 DEF SaveInvalidBlock
<1>5. b \in OprBlock /\ b.EmptyOPRBlock = TRUE /\ b.GradedOPRs = <<>>
      /\ b.Dbht = chain[c].DBHeight
  <2>1. chain[c].DBHeight \in Heights
    BY ChainType
  <2> QED
    BY <1>3, <2>1 DEF InvalidOPRBlock, OprBlock
<1>6. SameVerdict(b, c)
  <2>1. FetchOPRBlock(chain[c], StoredWinners(c)) = NoBlock
    BY <1>1, <1>2 DEF InFlightIsNext
  <2> QED
    BY <1>5, <2>1 DEF SameVerdict
<1>7. InMemory = current /\ current \in Nat /\ \A j \in 1..(c - 1) : j \in 1..current
  BY <1>1, <1>2 DEF InMemory, TypeOK
<1>8. \A j \in 1..(c - 1) : Stored(j) # NoBlock
  BY <1>7 DEF MemoryMatchesStore
<1>9. /\ StoreIsRegradable'
      /\ \A i \in 1..Len(chain) : i # c => Stored(i)' = Stored(i)
      /\ Stored(c)' = b /\ b # NoBlock
  BY <1>1, <1>4, <1>5, <1>6, <1>8, StoreStep
<1>10. /\ current' = current + 1 /\ current' \in 0..Len(chain)
       /\ target' = target /\ toParse' \in Seq(1..Len(chain))
       /\ QueueIsGap'
  BY <1>1, BlockParsedStep
<1>11. store' \in [Heights -> OprBlock \cup {NoBlock}]
  BY <1>4, <1>5 DEF TypeOK
<1>12. TypeOK'
  BY <1>1, <1>10, <1>11 DEF TypeOK
<1>13. MemoryMatchesStore'
  <2>1. InMemory' = c
    BY <1>1, <1>2, <1>10 DEF InMemory
  <2>2. \A j \in 1..c : j \in 1..current \/ j = c
    BY <1>2, <1>7
  <2>3. \A j \in 1..current : j \in 1..c /\ j # c /\ j \in 1..Len(chain)
    BY <1>2, <1>7, ChainType
  <2>4. \A j \in 1..current : Stored(j)' = Stored(j) /\ (IsGraded(j)' <=> IsGraded(j))
    BY <2>3, <1>9 DEF IsGraded
  <2>5. Stored(c)' # NoBlock /\ ~IsGraded(c)'
    BY <1>5, <1>9 DEF IsGraded
  <2>6. (\A j \in 1..InMemory :
           /\ Stored(j) # NoBlock
           /\ IsGraded(j) => \E k \in DOMAIN oprBlks : oprBlks[k].Dbht = chain[j].DBHeight)'
    BY <1>1, <1>7, <2>1, <2>2, <2>4, <2>5 DEF MemoryMatchesStore
  <2>7. (\A k \in DOMAIN oprBlks : \E j \in 1..InMemory :
           /\ IsGraded(j)
           /\ oprBlks[k].Dbht = chain[j].DBHeight
           /\ oprBlks[k].GradedOPRs = Stored(j).GradedOPRs)'
    BY <1>1, <1>7, <2>1, <2>3, <2>4 DEF MemoryMatchesStore
  <2>8. (\A k, m \in DOMAIN oprBlks : k < m => oprBlks[k].Dbht < oprBlks[m].Dbht)'
    BY <1>1 DEF MemoryMatchesStore
  <2> QED
    BY <2>6, <2>7, <2>8 DEF MemoryMatchesStore
<1>14. InFlightIsNext'
  BY <1>1 DEF InFlightIsNext
<1> QED
  BY <1>9, <1>10, <1>12, <1>13, <1>14

(* The graded block is written and kept: it is the newest in memory.       *)
LEMMA SaveBlockStep ==
  ASSUME GraderInv, SaveBlock
  PROVE  GraderInv'
<1> USE DEF GraderInv, nodeVars, syncVars, runVars
<1>1. /\ pc = "save" /\ pc' = "pay" /\ oprblock # NoBlock /\ toParse # <<>> /\ place' = 0
      /\ UNCHANGED <<chain, dbht, head, fdAlert, current, target, toParse, balances, listening,
                     event, tries, announced, oprblock>>
  BY DEF SaveBlock, InFlightIsNext
<1>2. PICK c \in 1..Len(chain) : c = current + 1
  BY <1>1, NextIsCurrentPlusOne
<1>3. PICK b : b = oprblock
  OBVIOUS
<1>4. b \in OprBlock /\ SameVerdict(b, c) /\ ~b.EmptyOPRBlock
  BY <1>1, <1>2, <1>3 DEF InFlightIsNext, TypeOK
<1>5. b.Dbht = chain[c].DBHeight
  BY <1>4 DEF SameVerdict
<1>6. store' = [store EXCEPT ![chain[c].DBHeight] = b] /\ oprBlks' = Append(oprBlks, b)
  BY <1>3, <1>5 DEF SaveBlock
<1>7. InMemory = current /\ current \in Nat /\ \A j \in 1..(c - 1) : j \in 1..current
  BY <1>1, <1>2 DEF InMemory, TypeOK
<1>8. \A j \in 1..(c - 1) : Stored(j) # NoBlock
  BY <1>7 DEF MemoryMatchesStore
<1>9. /\ StoreIsRegradable'
      /\ \A i \in 1..Len(chain) : i # c => Stored(i)' = Stored(i)
      /\ Stored(c)' = b /\ b # NoBlock
  BY <1>1, <1>4, <1>6, <1>8, StoreStep
<1>10. QueueIsGap'
  BY <1>1 DEF QueueIsGap
<1>11. store' \in [Heights -> OprBlock \cup {NoBlock}]
  BY <1>4, <1>6 DEF TypeOK
<1> DEFINE n == Len(oprBlks)
<1>12. oprBlks \in Seq(OprBlock) /\ n \in Nat /\ DOMAIN oprBlks = 1..n
  BY DEF TypeOK
<1>13. /\ oprBlks' \in Seq(OprBlock) /\ Len(oprBlks') = n + 1 /\ DOMAIN oprBlks' = 1..(n + 1)
       /\ \A k \in 1..n : oprBlks'[k] = oprBlks[k]
       /\ oprBlks'[n + 1] = b /\ oprBlks' # <<>>
  BY <1>4, <1>6, <1>12, AppendProperties
<1>14. TypeOK'
  <2>1. oprBlks' \in Seq(OprBlock) /\ place' \in Int
    BY <1>1, <1>13
  <2> QED
    BY <1>1, <1>11, <2>1 DEF TypeOK
<1>15. MemoryMatchesStore'
  <2>1. InMemory' = c
    BY <1>1, <1>2 DEF InMemory
  <2>2. \A j \in 1..c : j \in 1..current \/ j = c
    BY <1>2, <1>7
  <2>3. \A j \in 1..current : j \in 1..c /\ j # c /\ j < c /\ j \in 1..Len(chain)
    BY <1>2, <1>7, ChainType
  <2>4. \A j \in 1..current : Stored(j)' = Stored(j) /\ (IsGraded(j)' <=> IsGraded(j))
    BY <2>3, <1>9 DEF IsGraded
  <2>5. Stored(c)' # NoBlock /\ IsGraded(c)'
    BY <1>4, <1>9 DEF IsGraded
  <2>6. \A k \in 1..n : \E j \in 1..current :
           /\ IsGraded(j)
           /\ oprBlks[k].Dbht = chain[j].DBHeight
           /\ oprBlks[k].GradedOPRs = Stored(j).GradedOPRs
    BY <1>7, <1>12 DEF MemoryMatchesStore
  <2>7. \A k \in 1..(n + 1) : k \in 1..n \/ k = n + 1
    BY <1>12
  <2>8. n + 1 \in 1..(n + 1) /\ \A k \in 1..n : k \in 1..(n + 1)
    BY <1>12
  <2> HIDE DEF n
  <2>9. ASSUME NEW j \in 1..c
        PROVE  /\ Stored(j)' # NoBlock
               /\ \E k \in 1..(n + 1) : IsGraded(j)' => oprBlks'[k].Dbht = chain[j].DBHeight
    <3>1. CASE j = c
      BY <3>1, <2>5, <2>8, <1>5, <1>13
    <3>2. CASE j \in 1..current
      <4>1. IsGraded(j) => \E k \in 1..n : oprBlks[k].Dbht = chain[j].DBHeight
        BY <3>2, <1>7, <1>12 DEF MemoryMatchesStore
      <4>2. Stored(j) # NoBlock
        BY <3>2, <1>7 DEF MemoryMatchesStore
      <4>3. CASE IsGraded(j)
        BY <4>1, <4>2, <4>3, <3>2, <2>4, <2>8, <1>13
      <4>4. CASE ~IsGraded(j)
        BY <4>2, <4>4, <3>2, <2>4, <2>8
      <4> QED
        BY <4>3, <4>4
    <3> QED
      BY <3>1, <3>2, <2>2
  <2>10. ASSUME NEW k \in 1..(n + 1)
         PROVE  \E j \in 1..c : /\ IsGraded(j)'
                                /\ oprBlks'[k].Dbht = chain[j].DBHeight
                                /\ oprBlks'[k].GradedOPRs = Stored(j)'.GradedOPRs
    <3>1. CASE k = n + 1
      BY <3>1, <2>5, <1>5, <1>9, <1>13, c \in 1..c
    <3>2. CASE k \in 1..n
      <4>1. PICK j \in 1..current : /\ IsGraded(j)
                                    /\ oprBlks[k].Dbht = chain[j].DBHeight
                                    /\ oprBlks[k].GradedOPRs = Stored(j).GradedOPRs
        BY <3>2, <2>6
      <4>2. oprBlks'[k] = oprBlks[k]
        BY <3>2, <1>13
      <4> QED
        BY <4>1, <4>2, <2>3, <2>4
    <3> QED
      BY <3>1, <3>2, <2>7
  <2>11. ASSUME NEW k \in 1..(n + 1), NEW m \in 1..(n + 1), k < m
         PROVE  oprBlks'[k].Dbht < oprBlks'[m].Dbht
    <3>1. k \in 1..n
      BY <2>11, <1>12 DEF n
    <3>2. oprBlks'[k] = oprBlks[k]
      BY <3>1, <1>13
    <3>3. CASE m = n + 1
      <4>1. PICK j \in 1..current : oprBlks[k].Dbht = chain[j].DBHeight
        BY <3>1, <2>6
      <4>2. chain[j].DBHeight < chain[c].DBHeight
        BY <2>3, ChainType
      <4> QED
        BY <4>1, <4>2, <3>2, <3>3, <1>5, <1>13
    <3>4. CASE m \in 1..n
      <4>1. oprBlks[k].Dbht < oprBlks[m].Dbht
        BY <2>11, <3>1, <3>4, <1>12 DEF MemoryMatchesStore
      <4> QED
        BY <4>1, <3>2, <3>4, <1>13
    <3> QED
      BY <3>3, <3>4, <2>7
  <2> QED
    BY <2>1, <2>9, <2>10, <2>11, <1>1, <1>13 DEF MemoryMatchesStore
<1>16. InFlightIsNext'
  <2>1. 0 \in 0..MinRecords(oprblock.Dbht)'
    BY MinRecordsType
  <2>2. oprblock' = Stored(current + 1)'
    <3>1. Stored(current + 1)' = Stored(c)'
      BY <1>1, <1>2 DEF Stored
    <3> QED
      BY <1>1, <1>3, <1>9, <3>1
  <2>3. oprblock' = oprBlks'[Len(oprBlks')]
    BY <1>1, <1>3, <1>13
  <2> HIDE DEF n
  <2> QED
    BY <1>1, <1>13, <2>1, <2>2, <2>3 DEF InFlightIsNext
<1> QED
  BY <1>9, <1>10, <1>14, <1>15, <1>16

(* While a block is paid it is the stored verdict on the next eblock.      *)
LEMMA PaidBlock ==
  ASSUME GraderInv, pc = "pay"
  PROVE  /\ toParse # <<>> /\ oprblock # NoBlock
         /\ oprblock.Dbht = chain[current + 1].DBHeight
         /\ NextEBlock = chain[current + 1]
         /\ NextEBlock.DBHeight \in Heights
         /\ place \in 0..MinRecords(NextEBlock.DBHeight)
<1> USE DEF GraderInv
<1>1. /\ toParse # <<>> /\ oprblock # NoBlock /\ oprblock = Stored(current + 1)
      /\ place \in 0..MinRecords(oprblock.Dbht)
  BY DEF InFlightIsNext
<1>2. PICK c \in 1..Len(chain) : c = current + 1
  BY <1>1, NextIsCurrentPlusOne
<1>3. NextEBlock = chain[c]
  BY <1>1, <1>2, NextIsCurrentPlusOne
<1>4. SameVerdict(Stored(c), c)
  BY <1>1, <1>2 DEF StoreIsRegradable
<1>5. oprblock.Dbht = chain[c].DBHeight
  BY <1>1, <1>2, <1>4 DEF SameVerdict
<1>6. chain[c].DBHeight \in Heights
  BY ChainType
<1> QED
  BY <1>1, <1>2, <1>3, <1>5, <1>6

(* Paying a winner changes a balance and the place only.                   *)
LEMMA PayWinnerStep ==
  ASSUME GraderInv, PayWinner
  PROVE  GraderInv'
<1> USE DEF GraderInv, nodeVars, syncVars, runVars
<1>1. /\ pc = "pay" /\ place' = place + 1 /\ place < MinRecords(NextEBlock.DBHeight)
      /\ UNCHANGED <<chain, dbht, head, fdAlert, current, target, toParse, oprBlks, listening,
                     event, tries, announced, pc, oprblock, store>>
  BY DEF PayWinner
<1>2. PICK r : r = GetRewardFromPlace(place, NextEBlock.DBHeight)
  OBVIOUS
<1>3. PICK a : a = oprblock.GradedOPRs[place + 1].CoinbasePEGAddress
  OBVIOUS
<1>4. balances' = [balances EXCEPT ![a] = @ + r]
  BY <1>2, <1>3 DEF PayWinner
<1>5. PICK h \in Heights : h = NextEBlock.DBHeight
  BY <1>1, PaidBlock
<1>6. place \in 0..MinRecords(h) /\ MinRecords(h) \in Nat /\ MinRecords(h) <= MinV1 + MinV2
      /\ oprblock.Dbht = h /\ place < MinRecords(h)
  BY <1>1, <1>5, PaidBlock, MinRecordsType
<1>7. r \in Nat
  <2>1. place \in 0..(MinV1 + MinV2)
    BY <1>6, RecordsAssumption
  <2>2. \A x \in Heights : \A p \in 0..(MinV1 + MinV2) : GetRewardFromPlace(p, x) \in Nat
    BY ChainType DEF GradingIsTyped
  <2> QED
    BY <1>2, <1>5, <2>1, <2>2
<1>8. balances' \in [Addrs -> Nat]
  <2>1. balances \in [Addrs -> Nat]
    BY DEF TypeOK
  <2>2. CASE a \in Addrs
    <3>1. balances[a] + r \in Nat
      BY <1>7, <2>1, <2>2
    <3> QED
      BY <1>4, <2>1, <3>1
  <2>3. CASE a \notin Addrs
    BY <1>4, <2>1, <2>3
  <2> QED
    BY <2>2, <2>3
<1>9. TypeOK'
  <2>1. place' \in Int
    BY <1>1, <1>6
  <2> QED
    BY <1>1, <1>8, <2>1 DEF TypeOK
<1>10. QueueIsGap'
  BY <1>1 DEF QueueIsGap
<1>11. StoreIsRegradable' /\ MemoryMatchesStore'
  BY <1>1, StoreFrame, MemoryFrame DEF InMemory
<1>12. InFlightIsNext'
  <2>1. place' \in 0..MinRecords(h)
    BY <1>1, <1>6
  <2>2. Stored(current + 1)' = Stored(current + 1)
    BY <1>1 DEF Stored
  <2>3. MinRecords(oprblock.Dbht)' = MinRecords(h)
    BY <1>1, <1>6
  <2> QED
    BY <1>1, <2>1, <2>2, <2>3 DEF InFlightIsNext
<1> QED
  BY <1>9, <1>10, <1>11, <1>12

(* A paid block becomes the last parsed one.                               *)
LEMMA PaidBlockParsedStep ==
  ASSUME GraderInv, PaidBlockParsed
  PROVE  GraderInv'
<1> USE DEF GraderInv, nodeVars, runVars
<1>1. /\ pc = "pay" /\ pc' = "next" /\ place' = -1 /\ oprblock' = NoBlock /\ BlockParsed
      /\ UNCHANGED <<chain, dbht, head, fdAlert, oprBlks, balances, listening, event, tries,
                     announced, store>>
  BY DEF PaidBlockParsed
<1>2. /\ current' = current + 1 /\ current' \in 0..Len(chain)
      /\ target' = target /\ toParse' \in Seq(1..Len(chain))
      /\ QueueIsGap'
  BY <1>1, PaidBlock, BlockParsedStep
<1>3. TypeOK'
  BY <1>1, <1>2 DEF TypeOK
<1>4. InMemory' = InMemory
  BY <1>1, <1>2 DEF InMemory
<1>5. StoreIsRegradable' /\ MemoryMatchesStore'
  BY <1>1, <1>4, StoreFrame, MemoryFrame
<1>6. InFlightIsNext'
  BY <1>1 DEF InFlightIsNext
<1> QED
  BY <1>2, <1>3, <1>5, <1>6

(* Every step preserves the invariant: one lemma per action.               *)
LEMMA NextInv == GraderInv /\ [Next]_vars => GraderInv'
<1> SUFFICES ASSUME GraderInv, [Next]_vars PROVE GraderInv'
  OBVIOUS
<1>1. CASE NextDBlock
  BY <1>1, NextDBlockStep
<1>2. CASE Crash
  BY <1>2, CrashStep
<1>3. CASE ReceiveMinuteOne
  BY <1>3, ReceiveMinuteOneStep
<1>4. CASE SyncBlocks
  BY <1>4, SyncBlocksStep
<1>5. CASE SyncBlocksFails
  BY <1>5, SyncFailsStep DEF SyncBlocksFails
<1>6. CASE SyncDone
  BY <1>6, SyncDoneStep
<1>7. CASE ReadEmptyBlock
  BY <1>7, ReadEmptyBlockStep
<1>8. CASE ReadStoredBlock
  BY <1>8, ReadStoredBlockStep
<1>9. CASE ReadNothing
  BY <1>9, ReadNothingStep
<1>10. CASE FetchFromFactomd
  BY <1>10, FetchFromFactomdStep
<1>11. CASE FetchFails
  BY <1>11, SyncFailsStep DEF FetchFails
<1>12. CASE SaveInvalidBlock
  BY <1>12, SaveInvalidBlockStep
<1>13. CASE SaveBlock
  BY <1>13, SaveBlockStep
<1>14. CASE SaveFails
  BY <1>14, SyncFailsStep DEF SaveFails
<1>15. CASE PayWinner
  BY <1>15, PayWinnerStep
<1>16. CASE PaidBlockParsed
  BY <1>16, PaidBlockParsedStep
<1>17. CASE UNCHANGED vars
  <2>1. /\ UNCHANGED <<chain, dbht, head, fdAlert, current, target, toParse, oprBlks, balances>>
        /\ UNCHANGED <<listening, event, tries, announced, pc, oprblock, place, store>>
    BY <1>17 DEF vars
  <2>2. TypeOK' /\ QueueIsGap'
    BY <2>1 DEF GraderInv, TypeOK, QueueIsGap
  <2>3. StoreIsRegradable' /\ MemoryMatchesStore'
    BY <2>1, StoreFrame, MemoryFrame DEF GraderInv, InMemory
  <2>4. InFlightIsNext'
    BY <2>1, StoreFrame DEF GraderInv, InFlightIsNext
  <2> QED
    BY <2>2, <2>3, <2>4 DEF GraderInv
<1> QED
  BY <1>1, <1>2, <1>3, <1>4, <1>5, <1>6, <1>7, <1>8, <1>9, <1>10, <1>11, <1>12, <1>13,
     <1>14, <1>15, <1>16, <1>17 DEF Next, Grader

(* The grader keeps its invariant: whatever fails, lags, crashes or is     *)
(* retried, the queue is the gap, the store holds regradable verdicts on a *)
(* prefix of the chain, memory matches it and the block in flight is the   *)
(* next verdict (QuickGrader.Sync).                                        *)
THEOREM GraderInvariant == Spec => []GraderInv
<1> QED
  BY InitInv, NextInv, PTL DEF Spec

(* Every variable keeps its type.                                          *)
THEOREM TypeCorrect == Spec => []TypeOK
<1>1. GraderInv => TypeOK
  BY DEF GraderInv
<1> QED
  BY <1>1, GraderInvariant, PTL

(* The queue of EntryBlockSync never skips or repeats an eblock.           *)
THEOREM QueueCorrect == Spec => []QueueIsGap
<1>1. GraderInv => QueueIsGap
  BY DEF GraderInv
<1> QED
  BY <1>1, GraderInvariant, PTL

(* The store of the grader always holds what grading the chain would give. *)
THEOREM StoreCorrect == Spec => []StoreIsRegradable
<1>1. GraderInv => StoreIsRegradable
  BY DEF GraderInv
<1> QED
  BY <1>1, GraderInvariant, PTL

(* The graded blocks in memory are those of the store.                     *)
THEOREM MemoryCorrect == Spec => []MemoryMatchesStore
<1>1. GraderInv => MemoryMatchesStore
  BY DEF GraderInv
<1> QED
  BY <1>1, GraderInvariant, PTL

(* The block Sync is about to write or pay is the next verdict.            *)
THEOREM InFlightCorrect == Spec => []InFlightIsNext
<1>1. GraderInv => InFlightIsNext
  BY DEF GraderInv
<1> QED
  BY <1>1, GraderInvariant, PTL

-----------------------------------------------------------------------------
(***************************************************************************)
(* The balances. What an address has been paid for is a set of places of   *)
(* blocks in memory, and its balance is the sum of their rewards: a step   *)
(* adds one place, or changes neither.                                     *)
(***************************************************************************)
Reward(blks, r) == GetRewardFromPlace(r[2] - 1, blks[r[1]].Dbht)
Earned(a) == [r \in Rewards(a) |-> Reward(oprBlks, r)]

PaidInv == \A a \in Addrs : balances[a] = Sum(Earned(a))

(* The blocks in memory are those of heights of the instance.              *)
LEMMA BlocksInMemory ==
  ASSUME TypeOK
  PROVE  /\ Len(oprBlks) \in Nat /\ DOMAIN oprBlks = 1..Len(oprBlks)
         /\ \A k \in 1..Len(oprBlks) : oprBlks[k].Dbht \in Heights
<1>1. oprBlks \in Seq(OprBlock)
  BY DEF TypeOK
<1>2. Len(oprBlks) \in Nat /\ DOMAIN oprBlks = 1..Len(oprBlks)
  BY <1>1, LenProperties
<1>3. \A k \in 1..Len(oprBlks) : oprBlks[k] \in OprBlock
  BY <1>1, ElementOfSeq
<1> QED
  BY <1>2, <1>3 DEF OprBlock

(* The rewards of an address are finitely many numbers.                    *)
LEMMA EarnedType ==
  ASSUME TypeOK, NEW a \in Addrs
  PROVE  IsFiniteSet(Rewards(a)) /\ Earned(a) \in [Rewards(a) -> Int]
<1> DEFINE N == 1..(MinV1 + MinV2)
<1>1. MinV1 + MinV2 \in Nat /\ Len(oprBlks) \in Nat
  BY RecordsAssumption, BlocksInMemory
<1>2. Rewards(a) \subseteq (1..Len(oprBlks)) \X N
  BY BlocksInMemory DEF Rewards
<1>3. IsFiniteSet((1..Len(oprBlks)) \X N)
  BY <1>1, IntervalIsFinite, FS_Product
<1>4. ASSUME NEW r \in Rewards(a) PROVE Reward(oprBlks, r) \in Int
  <2>1. r[1] \in 1..Len(oprBlks) /\ r[2] \in N
    BY <1>2
  <2>2. oprBlks[r[1]].Dbht \in Heights /\ r[2] - 1 \in 0..(MinV1 + MinV2)
    BY <2>1, <1>1, BlocksInMemory
  <2>3. \A h \in Heights : \A p \in 0..(MinV1 + MinV2) : GetRewardFromPlace(p, h) \in Nat
    BY ChainType DEF GradingIsTyped
  <2> QED
    BY <2>2, <2>3 DEF Reward
<1>5. IsFiniteSet(Rewards(a))
  BY <1>2, <1>3, FS_Subset
<1> QED
  BY <1>4, <1>5 DEF Earned

(* Nothing is paid in an empty memory.                                     *)
LEMMA NothingEarned ==
  ASSUME oprBlks = <<>>, NEW a \in Addrs
  PROVE  Sum(Earned(a)) = 0
<1>1. Rewards(a) = {}
  BY DEF Rewards
<1>2. Earned(a) \in [{} -> Int]
  BY <1>1 DEF Earned
<1> QED
  BY <1>2, FS_EmptySet, SumType

(* The rewards stay while the blocks, and the place of the one being paid, *)
(* stay.                                                                   *)
LEMMA EarnedFrame ==
  ASSUME NEW a \in Addrs, UNCHANGED <<oprBlks, place>>, (pc' = "pay") <=> (pc = "pay")
  PROVE  Earned(a)' = Earned(a)
<1>1. Rewards(a)' = Rewards(a)
  BY DEF Rewards
<1> QED
  BY <1>1 DEF Earned, Reward

(* A block just kept has paid nobody.                                      *)
LEMMA SaveEarns ==
  ASSUME GraderInv, SaveBlock, NEW a \in Addrs
  PROVE  Earned(a)' = Earned(a)
<1>1. /\ pc = "save" /\ pc' = "pay" /\ place' = 0 /\ oprBlks' = Append(oprBlks, oprblock)
      /\ oprBlks \in Seq(OprBlock) /\ oprblock \in OprBlock
  BY DEF SaveBlock, GraderInv, TypeOK
<1> DEFINE n == Len(oprBlks)
           N == 1..(MinV1 + MinV2)
<1>2. /\ n \in Nat /\ DOMAIN oprBlks = 1..n /\ DOMAIN oprBlks' = 1..(n + 1) /\ Len(oprBlks') = n + 1
      /\ \A k \in 1..n : oprBlks'[k] = oprBlks[k]
  BY <1>1, AppendProperties, LenProperties
<1>3. MinV1 + MinV2 \in Nat
  BY RecordsAssumption
<1>4. ASSUME NEW r \in (1..(n + 1)) \X N, r[1] = n + 1 => r[2] <= 0 PROVE r[1] \in 1..n
  BY <1>2, <1>3, <1>4
<1>5. 1..n \subseteq 1..(n + 1) /\ \A k \in 1..n : k # n + 1
  BY <1>2
<1>6. Rewards(a)' \subseteq Rewards(a)
  <2> SUFFICES ASSUME NEW r \in Rewards(a)' PROVE r \in Rewards(a)
    OBVIOUS
  <2>1. /\ r \in (1..(n + 1)) \X N /\ r[2] <= MinRecords(oprBlks'[r[1]].Dbht)
        /\ (r[1] = n + 1 => r[2] <= 0)
        /\ oprBlks'[r[1]].GradedOPRs[r[2]].CoinbasePEGAddress = a
    BY <1>1, <1>2 DEF Rewards
  <2>2. r[1] \in 1..n /\ r \in (1..n) \X N /\ oprBlks'[r[1]] = oprBlks[r[1]]
    <3>1. r[1] \in 1..n
      BY <2>1, <1>4
    <3> QED
      BY <3>1, <2>1, <1>2
  <2> QED
    BY <2>1, <2>2, <1>1, <1>2 DEF Rewards
<1>7. Rewards(a) \subseteq Rewards(a)'
  <2> SUFFICES ASSUME NEW r \in Rewards(a) PROVE r \in Rewards(a)'
    OBVIOUS
  <2>1. /\ r \in (1..n) \X N /\ r[2] <= MinRecords(oprBlks[r[1]].Dbht)
        /\ oprBlks[r[1]].GradedOPRs[r[2]].CoinbasePEGAddress = a
    BY <1>1, <1>2 DEF Rewards
  <2>2. r \in (1..(n + 1)) \X N /\ r[1] # n + 1 /\ oprBlks'[r[1]] = oprBlks[r[1]]
    BY <2>1, <1>2, <1>5
  <2> QED
    BY <2>1, <2>2, <1>1, <1>2 DEF Rewards
<1>8. \A r \in Rewards(a) : oprBlks'[r[1]] = oprBlks[r[1]]
  BY <1>2 DEF Rewards
<1> QED
  BY <1>6, <1>7, <1>8 DEF Earned, Reward

(* A block all of whose winners are paid has paid them all.                *)
LEMMA ParsedEarns ==
  ASSUME GraderInv, PaidBlockParsed, NEW a \in Addrs
  PROVE  Earned(a)' = Earned(a)
<1>1. /\ pc = "pay" /\ pc' # "pay" /\ oprBlks' = oprBlks /\ place = MinRecords(NextEBlock.DBHeight)
  BY DEF PaidBlockParsed
<1>2. oprblock.Dbht = NextEBlock.DBHeight /\ oprblock = oprBlks[Len(oprBlks)]
  BY <1>1, PaidBlock DEF GraderInv, InFlightIsNext
<1>3. place = MinRecords(oprBlks[Len(oprBlks)].Dbht)
  BY <1>1, <1>2
<1>4. Rewards(a)' = Rewards(a)
  BY <1>1, <1>3 DEF Rewards
<1> QED
  BY <1>1, <1>4 DEF Earned, Reward

(* Paying a winner adds its place to the rewards of its address, and to no *)
(* other's.                                                                *)
LEMMA PayEarns ==
  ASSUME GraderInv, PayWinner, PaidInv
  PROVE  PaidInv'
<1> DEFINE n == Len(oprBlks)
           b == oprBlks[n]
           x == <<n, place + 1>>
           N == 1..(MinV1 + MinV2)
<1>1. /\ pc = "pay" /\ pc' = "pay" /\ place' = place + 1 /\ oprBlks' = oprBlks
      /\ place < MinRecords(NextEBlock.DBHeight)
      /\ balances' = [balances EXCEPT ![oprblock.GradedOPRs[place + 1].CoinbasePEGAddress] =
                         @ + GetRewardFromPlace(place, NextEBlock.DBHeight)]
  BY DEF PayWinner
<1>2. /\ oprblock = b /\ b.Dbht = NextEBlock.DBHeight /\ place \in 0..MinRecords(b.Dbht)
      /\ oprBlks # <<>>
  BY <1>1, PaidBlock DEF GraderInv, InFlightIsNext
<1>3. /\ n \in Nat /\ DOMAIN oprBlks = 1..n /\ n \in 1..n
  BY <1>2, BlocksInMemory, EmptySeq DEF GraderInv, TypeOK
<1>4. /\ place \in Nat /\ place + 1 <= MinRecords(b.Dbht) /\ place + 1 \in N /\ MinV1 + MinV2 \in Nat
  <2>1. MinRecords(b.Dbht) \in Nat /\ MinRecords(b.Dbht) <= MinV1 + MinV2
    BY MinRecordsType
  <2>2. place < MinRecords(b.Dbht) /\ MinV1 + MinV2 \in Nat
    BY <1>1, <1>2, RecordsAssumption
  <2> QED
    BY <2>1, <2>2, <1>2
<1>5. /\ x \in (1..n) \X N /\ x[1] = n /\ x[2] = place + 1 /\ x[2] - 1 = place
  BY <1>3, <1>4
<1>6. \A r \in (1..n) \X N : r[2] \in Nat /\ (r[1] = n /\ r[2] = place + 1 => r = x)
  BY <1>3, <1>4
<1>7. PICK w : w = b.GradedOPRs[place + 1].CoinbasePEGAddress
  OBVIOUS
<1> HIDE DEF n, b, x
<1>8. ASSUME NEW a \in Addrs, NEW r
      PROVE  /\ r \in Rewards(a) <=>
                  /\ r \in (1..n) \X N /\ r[2] <= MinRecords(oprBlks[r[1]].Dbht)
                  /\ (r[1] = n => r[2] <= place)
                  /\ oprBlks[r[1]].GradedOPRs[r[2]].CoinbasePEGAddress = a
             /\ r \in Rewards(a)' <=>
                  /\ r \in (1..n) \X N /\ r[2] <= MinRecords(oprBlks[r[1]].Dbht)
                  /\ (r[1] = n => r[2] <= place + 1)
                  /\ oprBlks[r[1]].GradedOPRs[r[2]].CoinbasePEGAddress = a
  BY <1>1, <1>3 DEF Rewards, n
<1>9. ASSUME NEW a \in Addrs, a # w PROVE Rewards(a)' = Rewards(a)
  <2>1. ASSUME NEW r, r \in (1..n) \X N, r[1] = n, r[2] = place + 1
        PROVE  oprBlks[r[1]].GradedOPRs[r[2]].CoinbasePEGAddress # a
    BY <2>1, <1>9, <1>7 DEF b
  <2>2. ASSUME NEW r \in (1..n) \X N, r[1] = n, r[2] <= place + 1, r[2] # place + 1 PROVE r[2] <= place
    BY <2>2, <1>4, <1>6
  <2>3. ASSUME NEW r \in (1..n) \X N, r[2] <= place PROVE r[2] <= place + 1
    BY <2>3, <1>4, <1>6
  <2>4. ASSUME NEW r \in Rewards(a)' PROVE r \in Rewards(a)
    BY <2>1, <2>2, <2>4, <1>8
  <2>5. ASSUME NEW r \in Rewards(a) PROVE r \in Rewards(a)'
    BY <2>3, <2>5, <1>8
  <2> QED
    BY <2>4, <2>5
<1>10. ASSUME w \in Addrs PROVE x \notin Rewards(w) /\ Rewards(w)' = Rewards(w) \cup {x}
  <2>1. x \notin Rewards(w)
    BY <1>4, <1>5, <1>8, <1>10
  <2>2. x \in Rewards(w)'
    <3>1. /\ oprBlks[x[1]].Dbht = b.Dbht
          /\ oprBlks[x[1]].GradedOPRs[x[2]].CoinbasePEGAddress = w
      BY <1>5, <1>7 DEF b
    <3> QED
      BY <3>1, <1>4, <1>5, <1>8, <1>10
  <2>3. ASSUME NEW r \in (1..n) \X N, r[2] <= place PROVE r[2] <= place + 1
    BY <2>3, <1>4, <1>6
  <2>4. ASSUME NEW r \in (1..n) \X N, r[1] = n, r[2] <= place + 1, r # x PROVE r[2] <= place
    BY <2>4, <1>4, <1>6
  <2>5. ASSUME NEW r \in Rewards(w)', r # x PROVE r \in Rewards(w)
    BY <2>4, <2>5, <1>8, <1>10
  <2>6. ASSUME NEW r \in Rewards(w) PROVE r \in Rewards(w)'
    BY <2>3, <2>6, <1>8, <1>10
  <2> QED
    BY <2>1, <2>2, <2>5, <2>6
<1>11. ASSUME NEW a \in Addrs PROVE balances'[a] = Sum(Earned(a)')
  <2>1. balances \in [Addrs -> Nat] /\ balances[a] = Sum(Earned(a))
    BY DEF PaidInv, GraderInv, TypeOK
  <2>2. CASE a # w
    <3>1. Earned(a)' = Earned(a)
      BY <2>2, <1>1, <1>9 DEF Earned, Reward
    <3>2. balances'[a] = balances[a]
      BY <2>1, <2>2, <1>1, <1>2, <1>7
    <3> QED
      BY <3>1, <3>2, <2>1
  <2>3. CASE a = w
    <3> DEFINE f == Earned(a)'
               d == Earned(a)
    <3>1. /\ IsFiniteSet(Rewards(a)) /\ d \in [Rewards(a) -> Int]
      BY EarnedType DEF GraderInv
    <3>2. /\ \A r \in Rewards(a) : d[r] = Reward(oprBlks, r)
          /\ \A r \in Rewards(a)' : f[r] = Reward(oprBlks, r)
      BY <1>1 DEF Earned
    <3>3. x \notin Rewards(a) /\ Rewards(a)' = Rewards(a) \cup {x}
      BY <2>3, <1>10
    <3>4. f \in [Rewards(a)' -> Int]
      <4>1. Reward(oprBlks, x) \in Int
        <5>1. b.Dbht \in Heights /\ place \in 0..(MinV1 + MinV2)
          BY <1>3, <1>4, BlocksInMemory DEF GraderInv, b
        <5>2. GetRewardFromPlace(place, b.Dbht) \in Nat
          BY <5>1, ChainType DEF GradingIsTyped, GraderInv
        <5> QED
          BY <5>2, <1>5 DEF Reward, b
      <4>2. \A r \in Rewards(a) : Reward(oprBlks, r) \in Int
        BY <3>1, <3>2
      <4> QED
        BY <4>1, <4>2, <3>3, <1>1 DEF Earned
    <3> HIDE DEF f, d
    <3>5. OneMore(d, f, x)
      <4>1. DOMAIN d = Rewards(a) /\ DOMAIN f = Rewards(a)'
        BY <3>1, <3>4
      <4>2. \A r \in Rewards(a) : d[r] = f[r]
        BY <3>2, <3>3
      <4> QED
        BY <4>1, <4>2, <3>1, <3>4, <3>3 DEF OneMore
    <3>6. Sum(f) = Sum(d) + f[x]
      BY <3>5, SumWith
    <3>7. f[x] = GetRewardFromPlace(place, NextEBlock.DBHeight)
      BY <3>2, <3>3, <1>2, <1>5 DEF Reward, b
    <3>8. balances'[a] = balances[a] + GetRewardFromPlace(place, NextEBlock.DBHeight)
      BY <2>1, <2>3, <1>1, <1>2, <1>7
    <3> QED
      BY <3>6, <3>7, <3>8, <2>1 DEF f, d
  <2> QED
    BY <2>2, <2>3
<1> QED
  BY <1>11 DEF PaidInv

(* Every step keeps the balances the sums of the rewards.                  *)
LEMMA PaidStep ==
  ASSUME GraderInv, [Next]_vars, PaidInv
  PROVE  PaidInv'
<1>1. CASE PayWinner
  BY <1>1, PayEarns
<1>2. CASE Crash
  <2>1. oprBlks' = <<>> /\ balances' = [a \in Addrs |-> 0]
    BY <1>2 DEF Crash
  <2>2. ASSUME NEW a \in Addrs PROVE Sum(Earned(a)') = 0
    <3>1. Rewards(a)' = {}
      BY <2>1 DEF Rewards
    <3>2. Earned(a)' \in [{} -> Int]
      BY <3>1 DEF Earned
    <3> QED
      BY <3>2, FS_EmptySet, SumType
  <2> QED
    BY <2>1, <2>2 DEF PaidInv
<1>3. CASE SaveBlock
  <2>1. balances' = balances
    BY <1>3 DEF SaveBlock
  <2> QED
    BY <2>1, <1>3, SaveEarns DEF PaidInv
<1>4. CASE PaidBlockParsed
  <2>1. balances' = balances
    BY <1>4 DEF PaidBlockParsed
  <2> QED
    BY <2>1, <1>4, ParsedEarns DEF PaidInv
<1>5. CASE ~Crash /\ ~SaveBlock /\ ~PayWinner /\ ~PaidBlockParsed
  <2>1. UNCHANGED <<oprBlks, place, balances>>
    BY <1>5 DEF Next, Grader, vars, NextDBlock, ReceiveMinuteOne, SyncBlocks, SyncBlocksFails,
       SyncDone, ReadEmptyBlock, ReadStoredBlock, ReadNothing, FetchFromFactomd, FetchFails,
       SaveInvalidBlock, SaveFails
  <2>2. (pc' = "pay") <=> (pc = "pay")
    BY <1>5 DEF Next, Grader, vars, NextDBlock, ReceiveMinuteOne, SyncBlocks, SyncBlocksFails,
       SyncDone, SyncSucceeds, SyncFails, ReadEmptyBlock, ReadStoredBlock, ReadNothing,
       FetchFromFactomd, FetchFails, SaveInvalidBlock, SaveFails
  <2> QED
    BY <2>1, <2>2, EarnedFrame DEF PaidInv
<1> QED
  BY <1>1, <1>2, <1>3, <1>4, <1>5

(* Each winner of each block in memory has been paid exactly once, after   *)
(* any crash, retry or reread: every balance is the sum of its rewards     *)
(* (the payout loop of QuickGrader.Sync, BalanceTracker.AddToBalance).     *)
THEOREM WinnersPaid == Spec => []WinnersPaidOnce
<1>1. Init => PaidInv
  <2> SUFFICES ASSUME Init PROVE PaidInv
    OBVIOUS
  <2>1. oprBlks = <<>> /\ balances = [a \in Addrs |-> 0]
    BY DEF Init, Fresh
  <2> QED
    BY <2>1, NothingEarned DEF PaidInv
<1>2. GraderInv /\ [Next]_vars /\ PaidInv => PaidInv'
  BY PaidStep
<1>3. PaidInv <=> WinnersPaidOnce
  BY DEF PaidInv, WinnersPaidOnce, Earned, Reward
<1> QED
  BY <1>1, <1>2, <1>3, GraderInvariant, PTL DEF Spec

(* A write of the verdict on the next eblock keeps every verdict already   *)
(* stored, its own included.                                               *)
LEMMA WriteKeepsVerdicts ==
  ASSUME GraderInv, pc = "save", NEW c \in 1..Len(chain), c = current + 1, NEW b \in OprBlock,
         chain' = chain, store' = [store EXCEPT ![chain[c].DBHeight] = b], SameVerdict(b, c)
  PROVE  VerdictsKept
<1> USE DEF GraderInv
<1>1. \A j \in 1..(c - 1) : Stored(j) # NoBlock
  <2>1. InMemory = current /\ \A j \in 1..(c - 1) : j \in 1..current
    BY DEF InMemory, TypeOK
  <2> QED
    BY <2>1 DEF MemoryMatchesStore
<1>2. /\ Stored(c)' = b /\ b # NoBlock
      /\ Stored(c) # NoBlock => /\ b.EmptyOPRBlock = Stored(c).EmptyOPRBlock
                                /\ b.GradedOPRs = Stored(c).GradedOPRs
  BY <1>1, StoreStep
<1>3. \A h \in Heights : h # chain[c].DBHeight => store'[h] = store[h]
  BY DEF TypeOK
<1> QED
  BY <1>2, <1>3 DEF VerdictsKept, Stored

(* A step of the grader keeps every verdict already stored.                *)
LEMMA StepKeepsVerdicts ==
  ASSUME GraderInv, [Next]_vars
  PROVE  VerdictsKept
<1> USE DEF GraderInv
<1>1. CASE SaveInvalidBlock
  <2>1. /\ pc = "save" /\ oprblock = NoBlock /\ toParse # <<>> /\ chain' = chain
    BY <1>1 DEF SaveInvalidBlock, InFlightIsNext, nodeVars
  <2>2. PICK c \in 1..Len(chain) : c = current + 1
    BY <2>1, NextIsCurrentPlusOne
  <2>3. NextEBlock = chain[c]
    BY <2>1, <2>2, NextIsCurrentPlusOne
  <2>4. PICK b : b = InvalidOPRBlock(chain[c].DBHeight)
    OBVIOUS
  <2>5. store' = [store EXCEPT ![chain[c].DBHeight] = b]
    BY <1>1, <2>3, <2>4 DEF SaveInvalidBlock
  <2>6. b \in OprBlock /\ b.EmptyOPRBlock = TRUE /\ b.GradedOPRs = <<>>
        /\ b.Dbht = chain[c].DBHeight
    <3>1. chain[c].DBHeight \in Heights
      BY ChainType
    <3> QED
      BY <2>4, <3>1 DEF InvalidOPRBlock, OprBlock
  <2>7. FetchOPRBlock(chain[c], StoredWinners(c)) = NoBlock
    BY <2>1, <2>2 DEF InFlightIsNext
  <2>8. SameVerdict(b, c)
    BY <2>6, <2>7 DEF SameVerdict
  <2> QED
    BY <2>1, <2>2, <2>5, <2>6, <2>8, WriteKeepsVerdicts
<1>2. CASE SaveBlock
  <2>1. /\ pc = "save" /\ oprblock # NoBlock /\ toParse # <<>> /\ chain' = chain
    BY <1>2 DEF SaveBlock, InFlightIsNext, nodeVars
  <2>2. PICK c \in 1..Len(chain) : c = current + 1
    BY <2>1, NextIsCurrentPlusOne
  <2>3. PICK b : b = oprblock
    OBVIOUS
  <2>4. b \in OprBlock /\ SameVerdict(b, c)
    BY <2>1, <2>2, <2>3 DEF InFlightIsNext, TypeOK
  <2>5. store' = [store EXCEPT ![chain[c].DBHeight] = b]
    BY <1>2, <2>3, <2>4 DEF SaveBlock, SameVerdict
  <2> QED
    BY <2>1, <2>2, <2>4, <2>5, WriteKeepsVerdicts
<1>3. CASE ~SaveInvalidBlock /\ ~SaveBlock
  <2>1. store' = store
    BY <1>3 DEF Next, Grader, vars, NextDBlock, Crash, ReceiveMinuteOne, SyncBlocks,
       SyncBlocksFails, SyncDone, ReadEmptyBlock, ReadStoredBlock, ReadNothing,
       FetchFromFactomd, FetchFails, SaveFails, PayWinner, PaidBlockParsed
  <2> QED
    BY <2>1 DEF VerdictsKept
<1> QED
  BY <1>1, <1>2, <1>3

(* A verdict once written is never changed: neither Sync's rewrite of a    *)
(* block read back from disk nor a refetch after a crash or a failed read  *)
(* alters the graded list or the validity of a stored block.               *)
THEOREM VerdictsFinal == Spec => VerdictIsFinal
<1>1. ASSUME GraderInv, [Next]_vars PROVE [VerdictsKept]_store
  BY <1>1, StepKeepsVerdicts
<1> QED
  BY <1>1, GraderInvariant, PTL DEF Spec, VerdictIsFinal
-----------------------------------------------------------------------------
(***************************************************************************)
(* What the grader announces, when factomd's head does not lag. The head   *)
(* is the last eblock below the height being built, an event is never      *)
(* ahead of that height, and once SyncBlocks has run for an event the      *)
(* target is past every eblock below it: at the end of Sync they have all  *)
(* been parsed.                                                            *)
(***************************************************************************)
HeadInv ==
  /\ \A i \in 1..Len(chain) : i <= head <=> chain[i].DBHeight < dbht
  /\ target <= head
EventInv == event <= dbht /\ \A k \in DOMAIN fdAlert : fdAlert[k] <= dbht
TargetInv ==
  pc \notin {"idle", "sync"} =>
    \A i \in 1..Len(chain) : chain[i].DBHeight < event => i <= target
CurrentInv == HeadInv /\ EventInv /\ TargetInv /\ AnnouncedWinnersAreCurrent

(* The eblocks below a height are a prefix of the chain.                   *)
LEMMA BelowIsPrefix ==
  ASSUME TypeOK, NEW d \in Nat
  PROVE  \E n \in 0..Len(chain) :
            /\ {i \in 1..Len(chain) : chain[i].DBHeight < d} = 1..n
            /\ Cardinality({i \in 1..Len(chain) : chain[i].DBHeight < d}) = n
            /\ \A i \in 1..Len(chain) : i <= n <=> chain[i].DBHeight < d
<1> DEFINE B == {i \in 1..Len(chain) : chain[i].DBHeight < d}
<1>1. /\ Len(chain) \in Nat
      /\ \A i \in 1..Len(chain) : chain[i].DBHeight \in Nat
      /\ \A i, j \in 1..Len(chain) : i < j => chain[i].DBHeight < chain[j].DBHeight
  BY ChainType
<1>2. \A i : i \in B <=> i \in 1..Len(chain) /\ chain[i].DBHeight < d
  OBVIOUS
<1> HIDE DEF B
<1>3. \E n \in 0..Len(chain) : B = 1..n
  <2>1. CASE B = {}
    BY <1>1, <2>1
  <2>2. CASE B # {}
    <3>1. Max(B) \in B /\ \A y \in B : Max(B) >= y
      BY <1>1, <1>2, <2>2, MaxOfBounded, B \subseteq 1..Len(chain)
    <3>2. PICK n \in 1..Len(chain) : n = Max(B)
      BY <3>1, <1>2
    <3>3. ASSUME NEW i \in 1..n PROVE i \in B
      <4>1. i \in 1..Len(chain) /\ (i < n \/ i = n)
        BY <1>1, <3>2
      <4>2. chain[n].DBHeight < d
        BY <3>1, <3>2, <1>2
      <4>3. chain[i].DBHeight < d
        <5>1. chain[i].DBHeight \in Nat /\ chain[n].DBHeight \in Nat
          BY <4>1, <1>1
        <5>2. i < n => chain[i].DBHeight < chain[n].DBHeight
          BY <4>1, <1>1
        <5>3. i = n => chain[i].DBHeight < d
          BY <4>2
        <5>4. i < n => chain[i].DBHeight < d
          BY <4>2, <5>1, <5>2
        <5> QED
          BY <4>1, <5>3, <5>4
      <4> QED
        BY <4>1, <4>3, <1>2
    <3>4. \A i \in B : i \in 1..n
      BY <3>1, <3>2, <1>1, <1>2
    <3>5. B = 1..n /\ n \in 0..Len(chain)
      <4>1. \A i \in 1..n : i \in B
        BY <3>3
      <4>2. B = 1..n
        BY <3>4, <4>1
      <4> QED
        BY <4>2, <1>1
    <3> QED
      BY <3>5
  <2> QED
    BY <2>1, <2>2
<1>4. PICK n \in 0..Len(chain) : B = 1..n
  BY <1>3
<1>5. Cardinality(B) = n
  BY <1>1, <1>4, IntervalIsFinite
<1>6. \A i \in 1..Len(chain) : i <= n <=> chain[i].DBHeight < d
  BY <1>1, <1>2, <1>4
<1> QED
  BY <1>4, <1>5, <1>6 DEF B

(* What was announced stays right: no later verdict is below it.           *)
LEMMA AnnouncedStaysCurrent ==
  ASSUME GraderInv, GraderInv', VerdictsKept, chain' = chain, announced' = announced,
         AnnouncedWinnersAreCurrent
  PROVE  AnnouncedWinnersAreCurrent'
<1> SUFFICES ASSUME announced # NoMessage, ~announced.Error
             PROVE  AnnouncedWinnersAreCurrent'
  BY DEF AnnouncedWinnersAreCurrent
<1>1. announced.Dbht \in Nat /\ TypeOK /\ Len(chain) \in Nat
  BY ChainType DEF GraderInv, TypeOK, Message
<1> DEFINE B == {i \in 1..Len(chain) : chain[i].DBHeight < announced.Dbht}
<1>2. PICK n \in 0..Len(chain) : B = 1..n /\ Cardinality(B) = n
  BY <1>1, BelowIsPrefix
<1>3. (\A i \in B : Stored(i) # NoBlock) /\ announced.ToBePaid = StoredWinners(n + 1)
  BY <1>2 DEF AnnouncedWinnersAreCurrent
<1>4. ASSUME NEW i \in 1..n
      PROVE  /\ Stored(i)' # NoBlock
             /\ IsGraded(i)' <=> IsGraded(i)
             /\ IsGraded(i) => /\ Stored(i)'.Dbht = Stored(i).Dbht
                               /\ Stored(i)'.GradedOPRs = Stored(i).GradedOPRs
  <2>1. i \in 1..Len(chain) /\ Stored(i) # NoBlock /\ chain[i].DBHeight \in Heights
    BY <1>1, <1>2, <1>3, ChainType
  <2>2. /\ Stored(i)' # NoBlock
        /\ Stored(i)'.EmptyOPRBlock = Stored(i).EmptyOPRBlock
        /\ Stored(i)'.GradedOPRs = Stored(i).GradedOPRs
    BY <2>1 DEF VerdictsKept, Stored
  <2>3. Stored(i).Dbht = chain[i].DBHeight
    BY <2>1 DEF GraderInv, StoreIsRegradable, SameVerdict
  <2>4. Stored(i)'.Dbht = chain[i].DBHeight
    BY <2>1, <2>2 DEF GraderInv, StoreIsRegradable, SameVerdict
  <2> QED
    BY <2>1, <2>2, <2>3, <2>4 DEF IsGraded
<1>5. StoredWinners(n + 1)' = StoredWinners(n + 1)
  <2>1. n + 1 \in 1..(Len(chain) + 1) /\ 1..(n + 1 - 1) = 1..n
    BY <1>1, <1>2
  <2> QED
    BY <1>1, <1>4, <2>1, WinnersStable
<1>6. B' = B /\ Cardinality(B)' = n
  BY <1>2
<1>7. (\A i \in B : Stored(i) # NoBlock)'
  BY <1>2, <1>4, <1>6
<1> QED
  BY <1>3, <1>5, <1>6, <1>7 DEF AnnouncedWinnersAreCurrent

(* Sync ends with every eblock below the event parsed, and what it sends   *)
(* are the winners of the last valid one.                                  *)
LEMMA SyncDoneAnnounces ==
  ASSUME GraderInv, CurrentInv, SyncDone
  PROVE  AnnouncedWinnersAreCurrent'
<1> USE DEF GraderInv
<1>1. /\ pc = "next" /\ (current = target \/ toParse = <<>>)
      /\ UNCHANGED <<chain, store, current, target, toParse, oprBlks>>
      /\ announced' = IF ~listening THEN announced
                      ELSE [Dbht |-> event, Error |-> FALSE,
                            ToBePaid |-> GetPreviousWinners(oprBlks, event)]
  BY DEF SyncDone, SyncSucceeds, Synced, nodeVars, syncVars
<1>2. /\ Len(chain) \in Nat /\ current \in 0..Len(chain) /\ target \in 0..Len(chain)
      /\ current <= target /\ toParse = [k \in 1..(target - current) |-> current + k]
      /\ event \in Nat
  BY ChainType DEF TypeOK, QueueIsGap
<1>3. current = target
  <2>1. CASE toParse = <<>>
    <3>1. Len(toParse) = target - current
      BY <1>2
    <3> QED
      BY <1>2, <2>1, <3>1
  <2> QED
    BY <1>1, <2>1
<1>4. \A i : Stored(i)' = Stored(i) /\ StoredWinners(i)' = StoredWinners(i)
  BY <1>1 DEF Stored, StoredWinners, IsGraded
<1> DEFINE B(d) == {i \in 1..Len(chain) : chain[i].DBHeight < d}
<1>5. PICK n \in 0..Len(chain) : /\ B(event) = 1..n /\ Cardinality(B(event)) = n
                                 /\ \A i \in 1..Len(chain) : i <= n <=> chain[i].DBHeight < event
  BY <1>2, BelowIsPrefix
<1>6. n \in 0..current
  <2>1. n # 0 => n \in 1..Len(chain) /\ chain[n].DBHeight < event
    BY <1>2, <1>5
  <2>2. n # 0 => n <= target
    BY <1>1, <2>1 DEF CurrentInv, TargetInv
  <2> QED
    BY <1>2, <1>3, <1>5, <2>2
<1>7. GetPreviousWinners(oprBlks, event) = StoredWinners(n + 1)
  BY <1>1, <1>2, <1>5, <1>6, PreviousWinnersAt
<1>8. \A i \in B(event) : Stored(i) # NoBlock
  BY <1>1, <1>2, <1>5, <1>6 DEF MemoryMatchesStore, InMemory
<1>9. CASE ~listening
  BY <1>1, <1>4, <1>9 DEF CurrentInv, AnnouncedWinnersAreCurrent
<1>10. CASE listening
  <2>1. announced'.Dbht = event /\ announced'.ToBePaid = StoredWinners(n + 1)
    BY <1>1, <1>7, <1>10
  <2> DEFINE A == {i \in 1..Len(chain) : chain[i].DBHeight < announced.Dbht}
  <2>2. A' = B(event)
    BY <1>1, <2>1
  <2>3. A' = 1..n /\ Cardinality(A)' = n
    BY <1>5, <2>2
  <2>4. (\A i \in A : Stored(i) # NoBlock)'
    BY <1>4, <1>8, <2>2
  <2>5. announced'.ToBePaid = StoredWinners(n + 1)'
    BY <1>4, <2>1
  <2> QED
    BY <2>3, <2>4, <2>5 DEF AnnouncedWinnersAreCurrent
<1> QED
  BY <1>9, <1>10

(* Initially no eblock exists, and none is below height 1.                 *)
LEMMA InitCurrent == Init => CurrentInv
<1> SUFFICES ASSUME Init PROVE CurrentInv
  OBVIOUS
<1>1. TypeOK
  BY InitInv DEF GraderInv
<1>2. \A i \in 1..Len(chain) : chain[i].DBHeight \in Nat /\ chain[i].DBHeight > 0 /\ i > 0
  BY <1>1, ChainType
<1> QED
  BY <1>2 DEF Init, Fresh, CurrentInv, HeadInv, EventInv, TargetInv, AnnouncedWinnersAreCurrent

(* The chain grows by the eblock of the directory block that is completed. *)
LEMMA NextDBlockCurrent ==
  ASSUME GraderInv, HeadInv, EventInv, NextDBlock
  PROVE  HeadInv' /\ EventInv'
<1>1. /\ dbht' = dbht + 1 /\ UNCHANGED <<chain, target, event>>
      /\ head' = IF head < Len(chain) /\ chain[head + 1].DBHeight = dbht THEN head + 1 ELSE head
      /\ fdAlert' = fdAlert \/ fdAlert' = Append(fdAlert, dbht + 1)
  BY DEF NextDBlock
<1>2. /\ dbht \in Nat /\ Len(chain) \in Nat /\ head \in 0..Len(chain) /\ target \in 0..Len(chain)
      /\ event \in Nat /\ fdAlert \in Seq(Nat)
  BY ChainType DEF GraderInv, TypeOK
<1>3. /\ \A i \in 1..Len(chain) : chain[i].DBHeight \in Nat
      /\ \A i, j \in 1..Len(chain) : i < j => chain[i].DBHeight < chain[j].DBHeight
  BY ChainType DEF GraderInv
<1>4. ASSUME NEW i \in 1..Len(chain) PROVE i <= head' <=> chain[i].DBHeight < dbht + 1
  <2>1. chain[i].DBHeight \in Nat /\ (i <= head <=> chain[i].DBHeight < dbht)
    BY <1>3 DEF HeadInv
  <2>2. CASE i <= head
    BY <1>1, <1>2, <2>1, <2>2
  <2>3. CASE i = head + 1
    <3>1. ~(chain[i].DBHeight < dbht) /\ head < Len(chain)
      BY <1>2, <2>1, <2>3
    <3>2. head' = IF chain[i].DBHeight = dbht THEN head + 1 ELSE head
      BY <1>1, <2>3, <3>1
    <3> QED
      BY <1>2, <2>1, <2>3, <3>1, <3>2
  <2>4. CASE i > head + 1
    <3>1. PICK j \in 1..Len(chain) : j = head + 1
      BY <1>2, <2>4
    <3>2. chain[j].DBHeight \in Nat /\ ~(chain[j].DBHeight < dbht)
      BY <1>2, <1>3, <3>1 DEF HeadInv
    <3>3. chain[j].DBHeight < chain[i].DBHeight
      BY <1>3, <2>4, <3>1
    <3>4. ~(i <= head')
      BY <1>1, <1>2, <2>4
    <3> QED
      BY <1>2, <2>1, <3>2, <3>3, <3>4
  <2> QED
    BY <1>2, <2>2, <2>3, <2>4
<1>5. target' <= head'
  BY <1>1, <1>2 DEF HeadInv
<1>6. \A k \in DOMAIN fdAlert' : fdAlert'[k] <= dbht + 1
  <2>1. \A k \in DOMAIN fdAlert : fdAlert[k] \in Nat /\ fdAlert[k] <= dbht
    BY <1>2 DEF EventInv
  <2>2. CASE fdAlert' = fdAlert
    BY <1>2, <2>1, <2>2
  <2>3. CASE fdAlert' = Append(fdAlert, dbht + 1)
    BY <1>2, <2>1, <2>3, AppendProperties, dbht + 1 \in Nat
  <2> QED
    BY <1>1, <2>2, <2>3
<1>7. HeadInv'
  BY <1>1, <1>4, <1>5 DEF HeadInv
<1>8. EventInv'
  BY <1>1, <1>2, <1>6 DEF EventInv
<1> QED
  BY <1>7, <1>8

(* SyncBlocks brings the target up to a head that does not lag.            *)
LEMMA SyncBlocksCurrent ==
  ASSUME HeadLag = 0, GraderInv, HeadInv, EventInv, SyncBlocks
  PROVE  HeadInv' /\ TargetInv'
<1>1. /\ dbht \in Nat /\ Len(chain) \in Nat /\ head \in 0..Len(chain) /\ target \in 0..Len(chain)
      /\ event \in Nat /\ event <= dbht /\ target <= head
      /\ \A i \in 1..Len(chain) : chain[i].DBHeight \in Nat
  BY ChainType DEF GraderInv, TypeOK, HeadInv, EventInv
<1>2. PICK h \in (head - HeadLag)..head : target' = IF Added(h) = {} THEN target ELSE h
  BY DEF SyncBlocks
<1>3. h = head /\ h \in Nat /\ target \in Nat
  BY <1>1, <1>2
<1>4. target' = head
  <2>1. CASE h > target
    <3>1. Added(h) = (target + 1)..h /\ target + 1 \in (target + 1)..h
      BY <1>3, <2>1, AddedIsGap
    <3> QED
      BY <1>2, <1>3, <3>1
  <2>2. CASE h <= target
    <3>1. Added(h) = {}
      BY <1>3, <2>2, AddedIsGap
    <3> QED
      BY <1>1, <1>2, <1>3, <2>2, <3>1
  <2> QED
    BY <1>3, <2>1, <2>2
<1>5. UNCHANGED <<chain, dbht, head, event>>
  BY DEF SyncBlocks, nodeVars, runVars
<1>6. HeadInv'
  BY <1>1, <1>4, <1>5 DEF HeadInv
<1>7. ASSUME NEW i \in 1..Len(chain), chain[i].DBHeight < event PROVE i <= head
  <2>1. chain[i].DBHeight < dbht
    BY <1>1, <1>7
  <2> QED
    BY <2>1 DEF HeadInv
<1> QED
  BY <1>4, <1>5, <1>6, <1>7 DEF TargetInv

(* A step inside Sync's loop moves neither the clock nor the target.       *)
LEMMA LoopCurrent ==
  ASSUME CurrentInv, UNCHANGED <<chain, dbht, head, target, event, fdAlert>>,
         pc \notin {"idle", "sync"} \/ pc' \in {"idle", "sync"} \/ pc' = pc
  PROVE  HeadInv' /\ EventInv' /\ TargetInv'
BY DEF CurrentInv, HeadInv, EventInv, TargetInv

(* Every step keeps what the announcements rest on.                        *)
LEMMA NextCurrent ==
  ASSUME HeadLag = 0, GraderInv, GraderInv', CurrentInv, [Next]_vars
  PROVE  CurrentInv'
<1> USE DEF nodeVars, syncVars, runVars
<1>1. VerdictsKept
  BY StepKeepsVerdicts
<1>2. ASSUME chain' = chain, announced' = announced PROVE AnnouncedWinnersAreCurrent'
  BY <1>1, <1>2, AnnouncedStaysCurrent DEF CurrentInv
<1>3. CASE NextDBlock
  <2>1. HeadInv' /\ EventInv'
    BY <1>3, NextDBlockCurrent DEF CurrentInv
  <2>2. TargetInv' /\ UNCHANGED <<chain, announced>>
    BY <1>3 DEF NextDBlock, CurrentInv, TargetInv
  <2> QED
    BY <1>2, <2>1, <2>2 DEF CurrentInv
<1>4. CASE Crash
  <2>1. /\ target' = 0 /\ event' = 0 /\ fdAlert' = <<>> /\ pc' = "sync" /\ announced' = NoMessage
        /\ UNCHANGED <<chain, dbht, head>> /\ dbht \in Nat /\ head \in Nat
    BY <1>4, ChainType DEF Crash, GraderInv, TypeOK
  <2> QED
    BY <2>1 DEF CurrentInv, HeadInv, EventInv, TargetInv, AnnouncedWinnersAreCurrent
<1>5. CASE ReceiveMinuteOne
  <2>1. /\ fdAlert \in Seq(Nat) /\ fdAlert # <<>> /\ event' = Head(fdAlert)
        /\ fdAlert' = Tail(fdAlert) /\ pc' = "sync"
        /\ UNCHANGED <<chain, dbht, head, target, announced>>
    BY <1>5 DEF ReceiveMinuteOne, GraderInv, TypeOK
  <2>2. \A k \in DOMAIN fdAlert : fdAlert[k] <= dbht
    BY DEF CurrentInv, EventInv
  <2>3. EventInv'
    BY <2>1, <2>2 DEF EventInv
  <2> QED
    BY <1>2, <2>1, <2>3 DEF CurrentInv, HeadInv, TargetInv
<1>6. CASE SyncBlocks
  <2>1. HeadInv' /\ TargetInv'
    BY <1>6, SyncBlocksCurrent DEF CurrentInv
  <2>2. UNCHANGED <<chain, announced, event, dbht, fdAlert>>
    BY <1>6 DEF SyncBlocks
  <2> QED
    BY <1>2, <2>1, <2>2 DEF CurrentInv, EventInv
<1>7. CASE SyncDone
  <2>1. UNCHANGED <<chain, dbht, head, target, event, fdAlert>> /\ pc' = "idle"
    BY <1>7 DEF SyncDone, SyncSucceeds
  <2> QED
    BY <1>7, <2>1, LoopCurrent, SyncDoneAnnounces DEF CurrentInv
<1>8. CASE SyncBlocksFails \/ FetchFails \/ SaveFails
  <2>1. /\ UNCHANGED <<chain, dbht, head, target, event, fdAlert>> /\ pc' \in {"idle", "sync"}
        /\ announced' = announced \/ announced'.Error
    BY <1>8 DEF SyncBlocksFails, FetchFails, SaveFails, SyncFails
  <2>2. AnnouncedWinnersAreCurrent'
    BY <1>2, <2>1 DEF AnnouncedWinnersAreCurrent
  <2> QED
    BY <2>1, <2>2, LoopCurrent DEF CurrentInv
<1>9. CASE \/ ReadEmptyBlock \/ ReadStoredBlock \/ ReadNothing \/ FetchFromFactomd
           \/ SaveInvalidBlock \/ SaveBlock \/ PayWinner \/ PaidBlockParsed
  <2>1. /\ UNCHANGED <<chain, dbht, head, target, event, fdAlert, announced>>
        /\ pc \notin {"idle", "sync"}
    BY <1>9 DEF ReadEmptyBlock, ReadStoredBlock, ReadNothing, FetchFromFactomd,
       SaveInvalidBlock, SaveBlock, PayWinner, PaidBlockParsed, BlockParsed
  <2> QED
    BY <1>2, <2>1, LoopCurrent DEF CurrentInv
<1>10. CASE UNCHANGED vars
  <2>1. UNCHANGED <<chain, dbht, head, target, event, fdAlert, announced, pc>>
    BY <1>10 DEF vars
  <2> QED
    BY <1>2, <2>1, LoopCurrent DEF CurrentInv
<1> QED
  BY <1>3, <1>4, <1>5, <1>6, <1>7, <1>8, <1>9, <1>10 DEF Next, Grader

(* With a head that does not lag, the winners QuickGrader.Run sends for a  *)
(* height are those of the last valid OPR block below it, whatever was     *)
(* retried, crashed or came late.                                          *)
THEOREM AnnouncedCorrect ==
  ASSUME HeadLag = 0
  PROVE  Spec => []AnnouncedWinnersAreCurrent
<1>1. GraderInv /\ GraderInv' /\ CurrentInv /\ [Next]_vars => CurrentInv'
  BY NextCurrent
<1>2. CurrentInv => AnnouncedWinnersAreCurrent
  BY DEF CurrentInv
<1> QED
  BY <1>1, <1>2, InitCurrent, GraderInvariant, PTL DEF Spec
-----------------------------------------------------------------------------
(***************************************************************************)
(* GraderSync implements OracleLedger, for every chain, grading function   *)
(* and reward schedule: every step of the grader, its crashes and retries  *)
(* included, is a step of the ledger or leaves it unchanged.               *)
(***************************************************************************)

(* The ledger's copies of the pure operators are the grader's.             *)
LEMMA LedgerOperators ==
  /\ \A c : Ledger!IsChain(c) <=> IsChain(c)
  /\ \A d : Ledger!MinRecords(d) = MinRecords(d)
  /\ \A b, d : Ledger!GetPreviousWinners(b, d) = GetPreviousWinners(b, d)
  /\ \A eb, w : Ledger!FetchOPRBlock(eb, w) = FetchOPRBlock(eb, w)
<1>1. \A c : Ledger!IsChain(c) <=> IsChain(c)
  BY DEF IsChain, Ledger!IsChain, EBlock, Ledger!EBlock, Entry, Ledger!Entry
<1>2. \A d : Ledger!MinRecords(d) = MinRecords(d)
  BY DEF MinRecords, Ledger!MinRecords
<1>3. \A b, d : Ledger!GetPreviousWinners(b, d) = GetPreviousWinners(b, d)
  <2>1. \A S : Ledger!Max(S) = Max(S)
    BY DEF Max, Ledger!Max
  <2>2. \A b : Ledger!Winners(b) = Winners(b)
    BY <1>2 DEF Winners, Ledger!Winners
  <2>3. \A b, d : Ledger!GetPreviousOPRBlock(b, d) = GetPreviousOPRBlock(b, d)
    BY <2>1 DEF GetPreviousOPRBlock, Ledger!GetPreviousOPRBlock
  <2> QED
    BY <2>2, <2>3 DEF GetPreviousWinners, Ledger!GetPreviousWinners
<1>4. \A eb, w : Ledger!FetchOPRsFromEBlock(eb, w) = FetchOPRsFromEBlock(eb, w)
  BY DEF FetchOPRsFromEBlock, Ledger!FetchOPRsFromEBlock, VerifyWinners, Ledger!VerifyWinners
<1>5. \A eb, w : Ledger!FetchOPRBlock(eb, w) = FetchOPRBlock(eb, w)
  <2>1. \A S : Ledger!Cardinality(S) = Cardinality(S)
    BY DEF Cardinality, Ledger!Cardinality
  <2> QED
    BY <2>1, <1>2, <1>4 DEF FetchOPRBlock, Ledger!FetchOPRBlock
<1> QED
  BY <1>1, <1>2, <1>3, <1>5

(* A new grader is an empty ledger.                                        *)
LEMMA LedgerInit == Init => Ledger!Init
BY ChainsAssumption, LedgerOperators DEF Init, Fresh, Ledger!Init, Ledger!Empty

(* The ledger grades the next eblock as the store records it.              *)
LEMMA LedgerVerdict ==
  ASSUME GraderInv, pc # "pay", toParse # <<>>
  PROVE  /\ place = -1 /\ current < Len(chain)
         /\ Ledger!FetchOPRBlock(chain[current + 1],
                Ledger!GetPreviousWinners(oprBlks, chain[current + 1].DBHeight))
            = FetchOPRBlock(chain[current + 1], StoredWinners(current + 1))
<1> USE DEF GraderInv
<1>1. PICK c \in 1..Len(chain) : c = current + 1
  BY NextIsCurrentPlusOne
<1>2. GetPreviousWinners(oprBlks, chain[c].DBHeight) = StoredWinners(c)
  BY <1>1, PreviousWinnersAreStored
<1>3. place = -1
  BY DEF InFlightIsNext
<1>4. current < Len(chain)
  BY <1>1, ChainType DEF TypeOK
<1> QED
  BY <1>1, <1>2, <1>3, <1>4, LedgerOperators

(* An invalid eblock, read back or just graded, is settled with no effect. *)
LEMMA SettlesInvalid ==
  ASSUME GraderInv, pc # "pay", toParse # <<>>,
         FetchOPRBlock(chain[current + 1], StoredWinners(current + 1)) = NoBlock,
         BlockParsed, UNCHANGED <<chain, oprBlks, place, balances>>
  PROVE  Ledger!Grade
<1>1. current' = current + 1
  BY BlockParsedStep DEF GraderInv
<1> QED
  BY <1>1, LedgerVerdict DEF Ledger!Grade

(* Storing and keeping a block is the ledger's Grade, whether the block was*)
(* graded just now or read back.                                           *)
LEMMA SaveBlockGrades ==
  ASSUME GraderInv, SaveBlock
  PROVE  Ledger!Grade
<1> DEFINE b == FetchOPRBlock(chain[current + 1], StoredWinners(current + 1))
<1>1. /\ pc = "save" /\ oprblock # NoBlock /\ toParse # <<>> /\ place' = 0
      /\ oprBlks' = Append(oprBlks, oprblock)
      /\ UNCHANGED <<chain, current, balances>>
  BY DEF SaveBlock, nodeVars, syncVars, GraderInv, InFlightIsNext
<1>2. /\ ~oprblock.EmptyOPRBlock /\ oprblock.Dbht = chain[current + 1].DBHeight
      /\ oprblock.EmptyOPRBlock = (b = NoBlock)
      /\ oprblock.GradedOPRs = IF b = NoBlock THEN <<>> ELSE b.GradedOPRs
      /\ oprblock.TotalNumberRecords \in {0, b.TotalNumberRecords}
  BY <1>1 DEF GraderInv, InFlightIsNext, SameVerdict
<1>3. b # NoBlock /\ oprblock.GradedOPRs = b.GradedOPRs
  BY <1>2
<1>4. PICK c \in 1..Len(chain) : c = current + 1
  BY <1>1, NextIsCurrentPlusOne DEF GraderInv
<1>5. b \in OprBlock /\ b.Dbht = chain[c].DBHeight /\ ~b.EmptyOPRBlock
  BY <1>3, <1>4, FetchOPRBlockType DEF GraderInv
<1>6. oprblock \in OprBlock
  BY <1>1 DEF GraderInv, TypeOK
<1>7. /\ place = -1 /\ current < Len(chain)
      /\ Ledger!FetchOPRBlock(chain[current + 1],
             Ledger!GetPreviousWinners(oprBlks, chain[current + 1].DBHeight)) = b
  BY <1>1, LedgerVerdict
<1> HIDE DEF b
<1>8. PICK n \in {0, b.TotalNumberRecords} : n = oprblock.TotalNumberRecords
  BY <1>2
<1>9. oprblock = [b EXCEPT !.TotalNumberRecords = n]
  <2>1. oprblock.EmptyOPRBlock = b.EmptyOPRBlock
    BY <1>2, <1>5, <1>6 DEF OprBlock
  <2> QED
    BY <1>2, <1>3, <1>4, <1>5, <1>6, <1>8, <2>1 DEF OprBlock
<1>10. \E k \in {0, b.TotalNumberRecords} :
          oprBlks' = Append(oprBlks, [b EXCEPT !.TotalNumberRecords = k])
  BY <1>1, <1>8, <1>9
<1> QED
  BY <1>1, <1>3, <1>7, <1>10 DEF Ledger!Grade

(* Paying a winner is the ledger's Pay.                                    *)
LEMMA PayWinnerPays ==
  ASSUME GraderInv, PayWinner
  PROVE  Ledger!Pay
<1>1. /\ pc = "pay" /\ place' = place + 1 /\ place < MinRecords(NextEBlock.DBHeight)
      /\ UNCHANGED <<chain, current, oprBlks>>
      /\ balances' = [balances EXCEPT ![oprblock.GradedOPRs[place + 1].CoinbasePEGAddress] =
                         @ + GetRewardFromPlace(place, NextEBlock.DBHeight)]
  BY DEF PayWinner, nodeVars, syncVars
<1>2. oprblock = oprBlks[Len(oprBlks)]
  BY <1>1 DEF GraderInv, InFlightIsNext
<1>3. oprblock.Dbht = NextEBlock.DBHeight /\ place \in 0..MinRecords(NextEBlock.DBHeight)
  BY <1>1, PaidBlock
<1>4. place >= 0
  BY <1>3, MinRecordsType
<1> QED
  BY <1>1, <1>2, <1>3, <1>4, LedgerOperators DEF Ledger!Pay

(* Parsing a paid block is the ledger's Settle.                            *)
LEMMA PaidBlockSettles ==
  ASSUME GraderInv, PaidBlockParsed
  PROVE  Ledger!Settle
<1>1. /\ pc = "pay" /\ place = MinRecords(NextEBlock.DBHeight) /\ place' = -1 /\ BlockParsed
      /\ UNCHANGED <<chain, oprBlks, balances>>
  BY DEF PaidBlockParsed, nodeVars
<1>2. oprBlks # <<>> /\ oprblock = oprBlks[Len(oprBlks)]
  BY <1>1 DEF GraderInv, InFlightIsNext
<1>3. toParse # <<>> /\ oprblock.Dbht = NextEBlock.DBHeight
  BY <1>1, PaidBlock
<1>4. current' = current + 1
  BY <1>1, <1>3, BlockParsedStep DEF GraderInv
<1> QED
  BY <1>1, <1>2, <1>3, <1>4, LedgerOperators DEF Ledger!Settle

(* Every step of the grader is a step of the ledger or leaves it unchanged.*)
LEMMA LedgerNext ==
  ASSUME GraderInv, [Next]_vars
  PROVE  [Ledger!Next]_Ledger!ledgerVars
<1> USE DEF Ledger!Next
<1>1. CASE Crash
  BY <1>1 DEF Crash, nodeVars, Ledger!Restart
<1>2. CASE ReadEmptyBlock
  <2>1. /\ pc = "next" /\ toParse # <<>> /\ BlockParsed
        /\ UNCHANGED <<chain, oprBlks, place, balances>>
    BY <1>2 DEF ReadEmptyBlock, nodeVars
  <2>2. PICK c \in 1..Len(chain) : c = current + 1
    BY <2>1, NextIsCurrentPlusOne DEF GraderInv
  <2>3. NextEBlock = chain[c]
    BY <2>1, <2>2, NextIsCurrentPlusOne DEF GraderInv
  <2>4. Stored(c) # NoBlock /\ Stored(c).EmptyOPRBlock
    BY <1>2, <2>3 DEF ReadEmptyBlock, Stored
  <2>5. FetchOPRBlock(chain[c], StoredWinners(c)) = NoBlock
    BY <2>4 DEF GraderInv, StoreIsRegradable, SameVerdict
  <2> QED
    BY <2>1, <2>2, <2>5, SettlesInvalid
<1>3. CASE SaveInvalidBlock
  <2>1. /\ pc = "save" /\ oprblock = NoBlock /\ toParse # <<>> /\ BlockParsed
        /\ UNCHANGED <<chain, oprBlks, place, balances>>
    BY <1>3 DEF SaveInvalidBlock, nodeVars, GraderInv, InFlightIsNext
  <2>2. FetchOPRBlock(chain[current + 1], StoredWinners(current + 1)) = NoBlock
    BY <2>1 DEF GraderInv, InFlightIsNext
  <2> QED
    BY <2>1, <2>2, SettlesInvalid
<1>4. CASE SaveBlock
  BY <1>4, SaveBlockGrades
<1>5. CASE PayWinner
  BY <1>5, PayWinnerPays
<1>6. CASE PaidBlockParsed
  BY <1>6, PaidBlockSettles
<1>7. CASE /\ ~Crash /\ ~ReadEmptyBlock /\ ~SaveInvalidBlock /\ ~SaveBlock
           /\ ~PayWinner /\ ~PaidBlockParsed
  <2>1. UNCHANGED <<chain, current, oprBlks, place, balances>>
    BY <1>7 DEF Next, Grader, vars, nodeVars, syncVars, NextDBlock, ReceiveMinuteOne, SyncBlocks,
       SyncBlocksFails, SyncDone, ReadStoredBlock, ReadNothing, FetchFromFactomd, FetchFails,
       SaveFails
  <2> QED
    BY <2>1 DEF Ledger!ledgerVars
<1> QED
  BY <1>1, <1>2, <1>3, <1>4, <1>5, <1>6, <1>7

(* The grader implements the ledger: what it keeps in memory and pays is   *)
(* what a replica that never fails would, after any crash, failed call or  *)
(* reread of its store (QuickGrader.Sync).                                 *)
THEOREM GraderImplementsLedger == Spec => ImplementsLedger
<1> QED
  BY LedgerInit, LedgerNext, GraderInvariant, PTL DEF Spec, ImplementsLedger, Ledger!Spec
=============================================================================
