----------------------------- MODULE BlockGrader ----------------------------
(***************************************************************************)
(* The grading library (modules/grader), the second implementation of the  *)
(* oracle's rules: NewGrader for a height and its previous winners, AddOPR *)
(* for every entry, Grade at the end. It shares no code with the daemon.   *)
(***************************************************************************)
EXTENDS PriceRecords, GradingMath

ShortHashes(n) == [i \in 1..n |-> ""]    \* make([]string, n)

(* Previous winners are all blank or all short hashes.                     *)
verifyWinnerFormat(winners, length) ==
  /\ Len(winners) = length
  /\ \A i \in DOMAIN winners : (winners[i] = "") = (winners[1] = "")

(* NewGrader: the grader of a version, or Failed.                          *)
NewGrader(version, height, previousWinners) ==
  LET blank  == ShortHashes(IF version = 1 THEN WinnersV1 ELSE WinnersV2)
      counts == CASE version = 1 -> {WinnersV1}
                  [] version = 2 -> {WinnersV1, WinnersV2}
                  [] OTHER       -> {WinnersV2}
      grader(winners) == [version |-> version, height |-> height,
                          prevWinners |-> winners, oprs |-> <<>>]
  IN  IF height < 0 \/ version \notin 1..5 THEN Failed
      ELSE IF previousWinners = <<>> THEN grader(blank)
      ELSE IF \E n \in counts : verifyWinnerFormat(previousWinners, n)
      THEN grader(previousWinners) ELSE Failed

-----------------------------------------------------------------------------
(* The checks on an entry that all versions make.                          *)
WellFormed(entry, version) ==
  /\ entry.ExtIDs = 3 /\ entry.DifficultyBytes = 8
  /\ entry.VersionBytes = 1 /\ entry.Version = version

(* ParseV1Content and ParseV2Content.                                      *)
ParseV1Content(content) == content.enc = "json"
ParseV2Content(content) == content.enc = "proto"

(* A GradingOPR: the entry's fields and its ordered prices.                *)
GradingOPR(entry, prices) ==
  [EntryHash |-> entry.EntryHash, Nonce |-> entry.Nonce, OPRHash |-> entry.Content,
   SelfReportedDifficulty |-> entry.SelfReportedDifficulty,
   Difficulty |-> entry.Difficulty, Assets |-> prices]

(* Version 1: every listed asset is there, and only PNT may be 0. Neither  *)
(* the address nor the identity is checked.                                *)
ValidateV1(entry, height, winners) ==
  LET o == entry.Content
  IN  /\ WellFormed(entry, 1) /\ ParseV1Content(o)
      /\ o.Height = height
      /\ \A i \in DOMAIN V1Assets :
           /\ V1Assets[i] \in DOMAIN o.Assets
           /\ o.Assets[V1Assets[i]] = 0 => V1Assets[i] = "PNT"
      /\ verifyWinnerFormat(o.Winners, WinnersV1)
      /\ o.Winners = winners

(* Version 2: only the first asset, PEG, may be 0.                         *)
ValidateV2(entry, height, winners) ==
  LET o == entry.Content
  IN  /\ WellFormed(entry, 2) /\ ParseV2Content(o)
      /\ o.Height = height
      /\ Len(o.Assets) = Len(V2Assets)
      /\ \A i \in DOMAIN o.Assets : o.Assets[i] = 0 => i = 1
      /\ Valid(o.Address) /\ ValidIdentity(o.ID)
      /\ \E n \in {WinnersV1, WinnersV2} : verifyWinnerFormat(o.Winners, n)
      /\ o.Winners = winners

(* Version 3: PEG has a price, and there are 25 winners.                   *)
ValidateV3(entry, height, winners) ==
  LET o == entry.Content
  IN  /\ WellFormed(entry, 3) /\ ParseV2Content(o)
      /\ o.Height = height
      /\ Len(o.Assets) = Len(V2Assets)
      /\ \A i \in DOMAIN o.Assets : o.Assets[i] # 0
      /\ Valid(o.Address) /\ ValidIdentity(o.ID)
      /\ verifyWinnerFormat(o.Winners, WinnersV2)
      /\ o.Winners = winners

(* Versions 4 and 5: version 3 with more assets.                           *)
ValidateV4(entry, height, winners) ==
  LET o == entry.Content
  IN  /\ WellFormed(entry, 4) /\ ParseV2Content(o)
      /\ o.Height = height
      /\ Len(o.Assets) = Len(V4Assets)
      /\ \A i \in DOMAIN o.Assets : o.Assets[i] # 0
      /\ Valid(o.Address) /\ ValidIdentity(o.ID)
      /\ verifyWinnerFormat(o.Winners, WinnersV2)
      /\ o.Winners = winners

ValidateV5(entry, height, winners) ==
  LET o == entry.Content
  IN  /\ WellFormed(entry, 5) /\ ParseV2Content(o)
      /\ o.Height = height
      /\ Len(o.Assets) = Len(V5Assets)
      /\ \A i \in DOMAIN o.Assets : o.Assets[i] # 0
      /\ Valid(o.Address) /\ ValidIdentity(o.ID)
      /\ verifyWinnerFormat(o.Winners, WinnersV2)
      /\ o.Winners = winners

(* GetOrderedAssetsFloat: JSON prices by name, protobuf prices by place.   *)
OrderedAssets(version, content) ==
  IF version = 1 THEN [i \in DOMAIN V1Assets |-> content.Assets[V1Assets[i]]]
  ELSE content.Assets

(* AddOPR: an entry that does not validate is left out.                    *)
AddOPR(grader, entry) ==
  LET Validates(Check(_, _, _)) == Check(entry, grader.height, grader.prevWinners)
      valid == CASE grader.version = 1 -> Validates(ValidateV1)
                 [] grader.version = 2 -> Validates(ValidateV2)
                 [] grader.version = 3 -> Validates(ValidateV3)
                 [] grader.version = 4 -> Validates(ValidateV4)
                 [] grader.version = 5 -> Validates(ValidateV5)
  IN  IF ~valid THEN grader
      ELSE [grader EXCEPT !.oprs = Append(@,
              GradingOPR(entry, OrderedAssets(grader.version, entry.Content)))]

-----------------------------------------------------------------------------
(* filterDuplicates: the first of every nonce and OPR hash.                *)
filterDuplicates(oprs) ==
  FoldLeft(LAMBDA kept, o :
             IF \E i \in DOMAIN kept : kept[i].Nonce = o.Nonce /\ kept[i].OPRHash = o.OPRHash
             THEN kept ELSE Append(kept, o),
           <<>>, oprs)

(* sortByDifficulty: the `limit' best, without those that misreport.       *)
sortByDifficulty(oprs, limit) ==
  LET sorted == SliceStable(oprs, LAMBDA a, b :
                  a.SelfReportedDifficulty > b.SelfReportedDifficulty)
      topX(kept, o) == IF Len(kept) >= limit \/ o.Difficulty # o.SelfReportedDifficulty
                       THEN kept ELSE Append(kept, o)
  IN  FoldLeft(topX, <<>>, sorted)

averageV1(oprs) ==
  [a \in DOMAIN oprs[1].Assets |->
     [num |-> FoldSeq(LAMBDA o, sum : sum + AbsValue(o.Assets[a]), 0, oprs),
      den |-> Len(oprs)]]

(* averageV5: the median of up to three prices, else the mean without the  *)
(* top and bottom tenth and one more.                                      *)
averageV5(oprs) ==
  [a \in DOMAIN oprs[1].Assets |->
     LET sorted == SliceStable([i \in DOMAIN oprs |-> oprs[i].Assets[a]], <)
         n == Len(oprs)
         p == (n \div 10) + 1
     IN  IF n <= 3 THEN [num |-> sorted[(n \div 2) + 1], den |-> 1]
         ELSE [num |-> Total(SubSeq(sorted, p + 1, n - p)), den |-> n - 2 * p]]

gradeV1(avg, opr)         == SumOfDistances(opr.Assets, avg, FALSE)
gradeV2(avg, opr, banded) == SumOfDistances(opr.Assets, avg, banded)
gradeV5(avg, opr, banded) == SumOfDistances(opr.Assets, avg, banded)

(* Resort that does not look at the difficulty, for the mutation runs.     *)
ResortByGrade(oprs, i, grade) ==
  SliceStable(SubSeq(oprs, 1, i), LAMBDA a, b : grade[a] < grade[b])
    \o SubSeq(oprs, i + 1, Len(oprs))

(* The re-sort that ends every pass of grade.                              *)
Resort(oprs, i, grade) ==
  LET byDifficulty == SliceStable(SubSeq(oprs, 1, i), LAMBDA a, b :
                        a.SelfReportedDifficulty > b.SelfReportedDifficulty)
  IN  SliceStable(byDifficulty, LAMBDA a, b : grade[a] < grade[b])
      \o SubSeq(oprs, i + 1, Len(oprs))

(* V1GradedBlock.grade, V2GradedBlock.grade and V5GradedBlock.grade on the *)
(* records sortByDifficulty left.                                          *)
gradeBlockV1(oprs, cutoff) ==
  LET top == Min({cutoff, Len(oprs)})
      pass[i \in 1..(top + 1)] ==
        IF i = top + 1 THEN oprs
        ELSE LET list == pass[i + 1]
                 avg == averageV1(SubSeq(list, 1, i))
             IN  Resort(list, i, [o \in ToSet(list) |-> gradeV1(avg, o)])
  IN  IF Len(oprs) < WinnersV1 THEN oprs ELSE pass[Min({WinnersV1, top + 1})]

gradeBlockV2(oprs, cutoff) ==
  LET top == Min({cutoff, Len(oprs)})
      pass[i \in 1..(top + 1)] ==
        IF i = top + 1 THEN oprs
        ELSE LET list == pass[i + 1]
                 avg == averageV1(SubSeq(list, 1, i))
             IN  Resort(list, i, [o \in ToSet(list) |-> gradeV2(avg, o, i >= WinnersV2)])
  IN  IF Len(oprs) < WinnersV2 THEN oprs ELSE pass[1]

gradeBlockV5(oprs, cutoff) ==
  LET top == Min({cutoff, Len(oprs)})
      pass[i \in 1..(top + 1)] ==
        IF i = top + 1 THEN oprs
        ELSE LET list == pass[i + 1]
                 avg == averageV5(SubSeq(list, 1, i))
             IN  Resort(list, i, [o \in ToSet(list) |-> gradeV5(avg, o, i >= WinnersV2)])
  IN  IF Len(oprs) < WinnersV2 THEN oprs ELSE pass[1]

(* V1Payout, V2Payout (versions 2, 3 and 4) and V5Payout, in PEG.          *)
V1Payout(index) == IF index \notin 0..(WinnersV1 - 1) THEN 0
                   ELSE CASE index = 0 -> 800 [] index = 1 -> 600 [] OTHER -> 450
V2Payout(index) == IF index \in 0..(WinnersV2 - 1) THEN 200 ELSE 0
V5Payout(index) == IF index \in 0..(WinnersV2 - 1) THEN 360 ELSE 0

(* createShortHashes: the first `count' records.                           *)
createShortHashes(oprs, count) == [i \in 1..count |-> oprs[i].EntryHash]

(* A graded block: its records in order, what they are paid, and the short *)
(* hashes the next block must list - the old ones when there are too few.  *)
GradedBlock(grader, oprs, count, amounts) ==
  [oprs        |-> oprs,
   payout      |-> [i \in DOMAIN oprs |-> IF Len(oprs) < count THEN 0 ELSE amounts[i]],
   winners     |-> IF Len(oprs) < count THEN <<>> ELSE SubSeq(oprs, 1, count),
   shorthashes |-> IF Len(oprs) < count THEN grader.prevWinners
                   ELSE createShortHashes(oprs, count)]

GradeCustomV1(grader, cutoff) ==
  LET oprs == sortByDifficulty(filterDuplicates(grader.oprs), cutoff)
  IN  GradedBlock(grader, gradeBlockV1(oprs, cutoff), WinnersV1,
                  [i \in DOMAIN oprs |-> V1Payout(i - 1)])

GradeCustomV2(grader, cutoff) ==
  LET oprs == sortByDifficulty(filterDuplicates(grader.oprs), cutoff)
  IN  GradedBlock(grader, gradeBlockV2(oprs, cutoff), WinnersV2,
                  [i \in DOMAIN oprs |-> V2Payout(i - 1)])

GradeCustomV5(grader, cutoff) ==
  LET oprs == sortByDifficulty(filterDuplicates(grader.oprs), cutoff)
  IN  GradedBlock(grader, gradeBlockV5(oprs, cutoff), WinnersV2,
                  [i \in DOMAIN oprs |-> V5Payout(i - 1)])

(* Versions 3 and 4 grade as version 2.                                    *)
GradeCustomV3(grader, cutoff) == GradeCustomV2(grader, cutoff)
GradeCustomV4(grader, cutoff) == GradeCustomV2(grader, cutoff)

Grade(grader) ==
  CASE grader.version = 1 -> GradeCustomV1(grader, Cutoff)
    [] grader.version = 2 -> GradeCustomV2(grader, Cutoff)
    [] grader.version = 3 -> GradeCustomV3(grader, Cutoff)
    [] grader.version = 4 -> GradeCustomV4(grader, Cutoff)
    [] grader.version = 5 -> GradeCustomV5(grader, Cutoff)
=============================================================================
