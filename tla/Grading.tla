------------------------------- MODULE Grading ------------------------------
(***************************************************************************)
(* The daemon's grading of a block (opr/grading.go): remove duplicates,    *)
(* take the Cutoff honest records of highest difficulty, then grade and    *)
(* sort ever shorter prefixes, so that the record furthest from the        *)
(* average of the first i ends at place i.                                 *)
(***************************************************************************)
EXTENDS PriceRecords, GradingMath

(* TrimmedMeanFloat and the averages, one fraction per token.              *)
TrimmedMeanFloat(data, p) ==
  LET sorted == SliceStable(data, <)
      length == Len(data)
  IN  IF length <= 3
      THEN [num |-> sorted[(length \div 2) + 1], den |-> 1]
      ELSE [num |-> Total(SubSeq(sorted, p + 1, length - p)), den |-> length - 2 * p]

Avg(list) ==
  [t \in DOMAIN list[1].Tokens |->
     [num |-> Total([i \in DOMAIN list |-> AbsValue(list[i].Tokens[t])]),
      den |-> Len(list)]]

Avg5(list) ==
  [t \in DOMAIN list[1].Tokens |->
     TrimmedMeanFloat([i \in DOMAIN list |-> list[i].Tokens[t]], (Len(list) \div 10) + 1)]

CalculateGrade(avg, opr, banded) == SumOfDistances(opr.Tokens, avg, banded)

(* RemoveDuplicateSubmissions that keeps duplicates, for the mutation runs.*)
KeepDuplicateSubmissions(list) == list

(* The first submission of every nonce and OPR hash.                       *)
RemoveDuplicateSubmissions(list) ==
  LET id(o) == <<o.Nonce, o.OPRHash>>
      add(nlist, o) == IF id(o) \in {id(nlist[i]) : i \in DOMAIN nlist} THEN nlist
                       ELSE Append(nlist, o)
  IN  FoldLeft(add, <<>>, list)

(* The honest records, in the order of the difficulty they report, up to   *)
(* Cutoff of them (all three versions begin so).                           *)
Top50(list) ==
  LET sorted == SliceStable(list, LAMBDA a, b :
                  a.SelfReportedDifficulty > b.SelfReportedDifficulty)
      honest == SelectSeq(sorted, LAMBDA o : o.SelfReportedDifficulty = o.Difficulty)
  IN  SubSeq(honest, 1, Min({Cutoff, Len(honest)}))

(* One pass: the first i records by grade, equal grades by difficulty.     *)
GradePass(list, i, avg, banded) ==
  LET byDifficulty == SliceStable(SubSeq(list, 1, i), LAMBDA a, b : a.Difficulty > b.Difficulty)
  IN  SliceStable(byDifficulty, LAMBDA a, b :
        CalculateGrade(avg, a, banded) < CalculateGrade(avg, b, banded))
      \o SubSeq(list, i + 1, Len(list))

(* The passes from the whole list down to its first `last' records, with   *)
(* the trimmed average or not, and the band as far as the winners or not.  *)
GradeDown(list, last, trimmed, band) ==
  LET pass[i \in 1..(Len(list) + 1)] ==
        IF i = Len(list) + 1 THEN list
        ELSE LET longer == pass[i + 1]
                 first == SubSeq(longer, 1, i)
             IN  GradePass(longer, i, IF trimmed THEN Avg5(first) ELSE Avg(first),
                           band /\ i >= WinnersV2)
  IN  IF Len(list) < last THEN list ELSE pass[last]

gradeMinimumVersionOne(ordered) ==
  LET list == RemoveDuplicateSubmissions(ordered)
  IN  IF Len(list) < WinnersV1 THEN <<>> ELSE GradeDown(Top50(list), WinnersV1, FALSE, FALSE)

gradeMinimumVersionTwo(ordered) ==
  LET list == RemoveDuplicateSubmissions(ordered)
  IN  IF Len(list) < WinnersV2 THEN <<>> ELSE GradeDown(Top50(list), 1, FALSE, TRUE)

gradeMinimumVersionThree(ordered) ==
  LET list == RemoveDuplicateSubmissions(ordered)
  IN  IF Len(list) < WinnersV2 THEN <<>> ELSE GradeDown(Top50(list), 1, TRUE, TRUE)

(* GradeMinimum by OPR version.                                            *)
GradeMinimumByVersion(ordered, version) ==
  IF ordered = <<>> THEN <<>>
  ELSE CASE version = 1      -> gradeMinimumVersionOne(ordered)
         [] version \in 2..4 -> gradeMinimumVersionTwo(ordered)
         [] version = 5      -> gradeMinimumVersionThree(ordered)

(* Rewards in PEG of a 0-based place.                                      *)
getRewardFromPlaceVersionOne(place) ==
  IF place >= WinnersV1 THEN 0
  ELSE CASE place = 0 -> 800 [] place = 1 -> 600 [] OTHER -> 450
getRewardFromPlaceVersionTwo(place)   == IF place >= WinnersV2 THEN 0 ELSE 200
getRewardFromPlaceVersionThree(place) == IF place >= WinnersV2 THEN 0 ELSE 360

RewardByVersion(place, version) ==
  CASE version = 1      -> getRewardFromPlaceVersionOne(place)
    [] version \in 2..4 -> getRewardFromPlaceVersionTwo(place)
    [] version = 5      -> getRewardFromPlaceVersionThree(place)
=============================================================================
