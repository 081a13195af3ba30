----------------------------- MODULE GradingMath ----------------------------
(***************************************************************************)
(* Arithmetic the graders share. The code grades in floats; here the       *)
(* averages are exact fractions [num, den] and a grade is an integer: the  *)
(* sum of the fourth powers of the distances, brought to one denominator.  *)
(* That denominator is the same for every record graded against the same   *)
(* averages, so the order of the grades is the order of the code's.        *)
(***************************************************************************)
EXTENDS Integers, Sequences, FiniteSets, FiniteSetsExt, SequencesExt

CONSTANTS
  BandParts,   \* the tolerance band is 1/BandParts of the average (1%)
  Cutoff       \* the records a block is graded on: 50

ASSUME GradingAssumption == BandParts \in Nat \ {0} /\ Cutoff \in Nat \ {0}

AbsValue(x) == IF x < 0 THEN -x ELSE x
FourthPower(x) == x * x * x * x
Total(seq) == FoldSeq(LAMBDA x, y : x + y, 0, seq)

(* A stable sort of seq (sort.SliceStable): every element goes behind      *)
(* those it does not have to precede.                                      *)
SliceStable(seq, Before(_, _)) ==
  FoldLeft(LAMBDA sorted, x :
             InsertAt(sorted, 1 + Cardinality({j \in DOMAIN sorted : ~Before(x, sorted[j])}), x),
           <<>>, seq)

(* The least common multiple of a set of positive integers.                *)
Lcm(S) == FoldSet(LAMBDA x, m : x * Min({k \in 1..m : (x * k) % m = 0}), 1, S)

(* How far a price is from the average [num, den], as a multiple of        *)
(* 1/(BandParts * num). A record within the band is at distance 0.         *)
Distance(price, avg, banded) ==
  LET d == BandParts * AbsValue(price * avg.den - avg.num)
  IN  IF ~banded THEN d ELSE IF d <= avg.num THEN 0 ELSE d - avg.num

(* The sum of the distances to the fourth power, over the assets whose     *)
(* average is positive.                                                    *)
SumOfDistances(prices, avg, banded) ==
  LET graded == {i \in DOMAIN avg : avg[i].num > 0}
      common == Lcm({avg[i].num : i \in graded})
      term(i) == FourthPower(Distance(prices[i], avg[i], banded)
                               * (common \div avg[i].num))
  IN  MapThenSumSet(term, graded)
=============================================================================
