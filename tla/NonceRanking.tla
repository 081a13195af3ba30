---------------------------- MODULE NonceRanking ----------------------------
(***************************************************************************)
(* NonceRanking (opr/aggregator.go): the best nonces a miner has found, in *)
(* a list of Keep slots with the worst of them remembered, and the merge   *)
(* of the miners' lists by the entry writer. A slot keeps its difficulty.  *)
(* The ranking's own MinimumDifficulty is 0 everywhere in the program.     *)
(***************************************************************************)
EXTENDS Integers, Sequences, FiniteSets, SequencesExt, Sorting

CONSTANTS
  Keep,         \* slots of a list (Miner.RecordsPerBlock)
  Miners,       \* miners of the daemon
  Difficulties, \* difficulties a nonce may have
  MaxNonces     \* bound: nonces offered to a list

ASSUME RankingAssumption ==
  /\ Keep \in Nat \ {0} /\ MaxNonces \in Nat
  /\ IsFiniteSet(Miners) /\ Difficulties \subseteq Nat

VARIABLES
  ranking,    \* the list of each miner
  offered,    \* history: the difficulties offered to it
  written,    \* the entry writer has merged the lists
  final       \* the nonces it writes

vars == <<ranking, offered, written, final>>

(* List holds the taken slots only: taken is its length.                   *)
Ranking == [List : Seq(Nat), WorstDiff : Nat, WorstIndex : 1..Keep]

NewNonceRanking == [List |-> <<>>, WorstDiff |-> 0, WorstIndex |-> 1]

(* There is room: the nonce takes the next slot, and is the worst if it is *)
(* the first or below the worst.                                           *)
TakeSlot(r, d) ==
  LET worse == r.List = <<>> \/ d < r.WorstDiff
  IN  [List |-> Append(r.List, d),
       WorstDiff |-> IF worse THEN d ELSE r.WorstDiff,
       WorstIndex |-> IF worse THEN Len(r.List) + 1 ELSE r.WorstIndex]

(* The replacement without the search for the new worst, for the mutation  *)
(* runs.                                                                   *)
ReplaceWithoutSearch(r, d) ==
  [r EXCEPT !.List[r.WorstIndex] = d, !.WorstDiff = d]

(* The worst slot is replaced, then the loop looks for slots below the new *)
(* nonce and remembers the first of the lowest.                            *)
Replace(r, d) ==
  LET list == [r.List EXCEPT ![r.WorstIndex] = d]
      IsLowest(i) == \A j \in DOMAIN list : list[i] <= list[j]
      first == CHOOSE i \in DOMAIN list :
                 IsLowest(i) /\ \A j \in DOMAIN list : IsLowest(j) => i <= j
  IN  [List |-> list, WorstDiff |-> list[first],
       WorstIndex |-> IF list[first] < d THEN first ELSE r.WorstIndex]

AddNonce(r, d) ==
  IF Len(r.List) < Keep THEN TakeSlot(r, d)
  ELSE IF d < r.WorstDiff THEN r
  ELSE Replace(r, d)

(* By difficulty, the highest first.                                       *)
Harder(a, b) == a > b
SortNonceRanks(list) == StableSort(list, Harder)

GetNonces(r) == SortNonceRanks(r.List)

(* The nonces of the lists, one list after the other.                      *)
Gathered(rankings) ==
  LET list[k \in 0..Len(rankings)] ==
        IF k = 0 THEN <<>> ELSE list[k - 1] \o GetNonces(rankings[k])
  IN  list[Len(rankings)]

(* A new list to which the nonces are added in turn.                       *)
AddInTurn(nonces) ==
  LET merged[k \in 0..Len(nonces)] ==
        IF k = 0 THEN NewNonceRanking ELSE AddNonce(merged[k - 1], nonces[k])
  IN  merged[Len(nonces)]

(* The merge that stops at the first list, for the mutation runs.          *)
MergeFirst(rankings) == AddInTurn(GetNonces(rankings[1]))

(* MergeNonceRankings: everything kept is sorted and added to a new list.  *)
MergeNonceRankings(rankings) == AddInTurn(SortNonceRanks(Gathered(rankings)))
-----------------------------------------------------------------------------
Init ==
  /\ ranking = [m \in Miners |-> NewNonceRanking]
  /\ offered = [m \in Miners |-> <<>>]
  /\ written = FALSE /\ final = <<>>

(* A miner finds a nonce before the block's lists are merged.              *)
Mine(m, d) ==
  /\ ~written /\ Len(offered[m]) < MaxNonces
  /\ ranking' = [ranking EXCEPT ![m] = AddNonce(@, d)]
  /\ offered' = [offered EXCEPT ![m] = Append(@, d)]
  /\ UNCHANGED <<written, final>>

(* The entry writer merges the lists, in the order they arrived, and takes *)
(* the nonces to write. GetNonces leaves each list sorted and its worst    *)
(* index where it was: nothing may be added to it any more.                *)
Write ==
  /\ ~written /\ written' = TRUE
  /\ ranking' = [m \in Miners |-> [ranking[m] EXCEPT !.List = GetNonces(ranking[m])]]
  /\ \E order \in SetToSeqs(Miners) :
       final' = GetNonces(MergeNonceRankings([k \in DOMAIN order |-> ranking[order[k]]]))
  /\ UNCHANGED offered

Next == Write \/ \E m \in Miners, d \in Difficulties : Mine(m, d)

Spec == Init /\ [][Next]_vars
-----------------------------------------------------------------------------
RememberedWorst(r) ==
  r.List # <<>> =>
    /\ r.WorstIndex \in DOMAIN r.List
    /\ r.List[r.WorstIndex] = r.WorstDiff
    /\ \A i \in DOMAIN r.List : r.WorstDiff <= r.List[i]

(* As long as nonces can be added the remembered worst is the worst: its   *)
(* slot holds WorstDiff and no slot is below it ("Keep track of the worst  *)
(* difficulty to make the lookup cheap"), after any sequence of additions, *)
(* ties included.                                                          *)
WorstIsWorst == ~written => \A m \in Miners : RememberedWorst(ranking[m])

(* How many of the nonces have at least difficulty d.                      *)
AtLeast(s, d) == Cardinality({i \in DOMAIN s : s[i] >= d})

IsBestOf(kept, all) ==
  \A d \in Difficulties : AtLeast(kept, d) = Min({Keep, AtLeast(all, d)})

(* The nonces of those miners that do, each by its miner and its number.   *)
Found(miners, d) ==
  UNION {{m} \X {i \in DOMAIN offered[m] : offered[m][i] >= d} : m \in miners}

(* A miner's list holds the best of what it found ("It allows us to only   *)
(* keep the top X oprs"), and what is written is the best of what all      *)
(* miners found, best first, whatever the order their lists arrived in.    *)
WritesTheBest ==
  /\ \A m \in Miners : IsBestOf(ranking[m].List, offered[m])
  /\ written =>
       /\ \A d \in Difficulties : AtLeast(final, d) = Min({Keep, Cardinality(Found(Miners, d))})
       /\ \A i, j \in DOMAIN final : i < j => final[i] >= final[j]
=============================================================================
