----------------------------- MODULE StakeGrader ----------------------------
(***************************************************************************)
(* Staking price records: how the daemon makes one (spr/spr.go) and how    *)
(* the staking library grades a block of them (modules/graderStake). There *)
(* is no proof of work: a record counts once per payout address, and the   *)
(* first Cutoff records of the block are graded.                           *)
(***************************************************************************)
EXTENDS PriceRecords, GradingMath

(* StakingPriceRecord.Validate and NewSpr: the record a staker makes of    *)
(* the polled prices, before an address is put into it.                    *)
ValidateSpr(spr, dbht) ==
  /\ NetworkActive(dbht)
  /\ \A a \in DOMAIN spr.Assets : spr.Assets[a] # 0
  /\ spr.Dbht = dbht
  /\ spr.Version \in 5..7 /\ ContainsExactly(spr.Assets, AssetsV5)

NewSpr(dbht, prices) ==
  LET spr == [Version |-> SPRVersion(dbht), Dbht |-> dbht,
              Assets |-> [a \in DOMAIN prices |-> SetValue(prices[a])]]
  IN  IF ValidateSpr(spr, dbht) THEN spr ELSE Failed

(* SafeMarshal: protobuf with neither identity nor winners.                *)
MarshalSpr(spr, addr) ==
  [enc |-> "proto", Address |-> addr, ID |-> "", Height |-> spr.Dbht,
   Winners |-> <<>>, Assets |-> [i \in DOMAIN AssetsV5 |-> spr.Assets[AssetsV5[i]]]]

(* CreateSPREntry for one address: the version, the address's raw form,    *)
(* and a public key with its signature of the content, 96 bytes.           *)
CreateSPREntry(spr, addr, hash) ==
  [EntryHash |-> hash, ExtIDs |-> 3, VersionBytes |-> 1, Version |-> spr.Version,
   SignatureBytes |-> 96, Signed |-> MarshalSpr(spr, addr),
   Content |-> MarshalSpr(spr, addr)]

-----------------------------------------------------------------------------
NewStakeGrader(version, height) ==
  IF height < 0 \/ version \notin 5..7 THEN Failed
  ELSE [version |-> version, height |-> height, sprs |-> <<>>]

(* ParseS1Content.                                                         *)
ParseS1Content(content) == content.enc = "proto"

(* Version 5 asks for no signature; 6 and 7 do.                            *)
ValidateS1(entry, height) ==
  LET o == entry.Content
  IN  /\ entry.ExtIDs = 3 /\ entry.VersionBytes = 1 /\ entry.Version = 5
      /\ ParseS1Content(o) /\ o.Height = height
      /\ Len(o.Assets) = Len(V5Assets)
      /\ \A i \in DOMAIN o.Assets : o.Assets[i] # 0
      /\ Valid(o.Address)

ValidateS2(entry, height) ==
  LET o == entry.Content
  IN  /\ entry.ExtIDs = 3 /\ entry.VersionBytes = 1 /\ entry.Version = 6
      /\ ParseS1Content(o)
      /\ entry.SignatureBytes = 96 /\ entry.Signed = o
      /\ o.Height = height
      /\ Len(o.Assets) = Len(V5Assets)
      /\ \A i \in DOMAIN o.Assets : o.Assets[i] # 0
      /\ Valid(o.Address)

ValidateS3(entry, height) ==
  LET o == entry.Content
  IN  /\ entry.ExtIDs = 3 /\ entry.VersionBytes = 1 /\ entry.Version = 7
      /\ ParseS1Content(o)
      /\ entry.SignatureBytes = 96 /\ entry.Signed = o
      /\ o.Height = height
      /\ Len(o.Assets) = Len(V5Assets)
      /\ \A i \in DOMAIN o.Assets : o.Assets[i] # 0
      /\ Valid(o.Address)

(* A GradingSPR.                                                           *)
GradingSPR(entry) ==
  [EntryHash |-> entry.EntryHash, CoinbaseAddress |-> entry.Content.Address,
   Assets |-> entry.Content.Assets]

AddSPR(grader, entry) ==
  LET valid == CASE grader.version = 5 -> ValidateS1(entry, grader.height)
                 [] grader.version = 6 -> ValidateS2(entry, grader.height)
                 [] grader.version = 7 -> ValidateS3(entry, grader.height)
  IN  IF valid THEN [grader EXCEPT !.sprs = Append(@, GradingSPR(entry))] ELSE grader

-----------------------------------------------------------------------------
(* filterDuplicates by record instead of by address, for the mutation runs.*)
filterEqualSPRs(sprs) ==
  FoldLeft(LAMBDA kept, s : IF \E i \in DOMAIN kept : kept[i] = s
                            THEN kept ELSE Append(kept, s), <<>>, sprs)

(* filterDuplicates: one record per payout address.                        *)
filterDuplicateSPRs(sprs) ==
  FoldLeft(LAMBDA kept, s :
             IF \E i \in DOMAIN kept : kept[i].CoinbaseAddress = s.CoinbaseAddress
             THEN kept ELSE Append(kept, s),
           <<>>, sprs)

averageS1(sprs) ==
  [a \in DOMAIN sprs[1].Assets |->
     LET sorted == SliceStable([i \in DOMAIN sprs |-> sprs[i].Assets[a]], <)
         n == Len(sprs)
         p == (n \div 10) + 1
     IN  IF n <= 3 THEN [num |-> sorted[(n \div 2) + 1], den |-> 1]
         ELSE [num |-> Total(SubSeq(sorted, p + 1, n - p)), den |-> n - 2 * p]]

gradeS1(avg, spr, banded) == SumOfDistances(spr.Assets, avg, banded)

(* S1GradedBlock.grade: equal grades stay in the order of the block.       *)
gradeStakes(sprs, cutoff) ==
  LET top == Min({cutoff, Len(sprs)})
      pass[i \in 1..(top + 1)] ==
        IF i = top + 1 THEN sprs
        ELSE LET list == pass[i + 1]
                 first == SubSeq(list, 1, i)
                 avg == averageS1(first)
             IN  SliceStable(first, LAMBDA a, b :
                   gradeS1(avg, a, i >= WinnersV2) < gradeS1(avg, b, i >= WinnersV2))
                 \o SubSeq(list, i + 1, Len(sprs))
  IN  IF Len(sprs) < WinnersV2 THEN sprs ELSE pass[1]

(* S2GradedBlock.grade and S3GradedBlock.grade repeat it.                  *)
gradeStakesS2(sprs, cutoff) == gradeStakes(sprs, cutoff)
gradeStakesS3(sprs, cutoff) == gradeStakes(sprs, cutoff)

(* S1Payout, which all three versions pay, in PEG.                         *)
S1Payout(index) == IF index \in 0..(WinnersV2 - 1) THEN 180 ELSE 0

(* A graded block of SPRs. Its short hashes are never filled in.           *)
StakeGradedBlock(sprs) ==
  [sprs        |-> sprs,
   payout      |-> [i \in DOMAIN sprs |-> IF Len(sprs) < WinnersV2 THEN 0 ELSE S1Payout(i - 1)],
   winners     |-> IF Len(sprs) < WinnersV2 THEN <<>> ELSE SubSeq(sprs, 1, WinnersV2),
   shorthashes |-> <<>>]

GradeCustomS1(grader, cutoff) ==
  StakeGradedBlock(gradeStakes(filterDuplicateSPRs(grader.sprs), cutoff))
GradeCustomS2(grader, cutoff) ==
  StakeGradedBlock(gradeStakesS2(filterDuplicateSPRs(grader.sprs), cutoff))
GradeCustomS3(grader, cutoff) ==
  StakeGradedBlock(gradeStakesS3(filterDuplicateSPRs(grader.sprs), cutoff))

GradeStake(grader) ==
  CASE grader.version = 5 -> GradeCustomS1(grader, Cutoff)
    [] grader.version = 6 -> GradeCustomS2(grader, Cutoff)
    [] grader.version = 7 -> GradeCustomS3(grader, Cutoff)
=============================================================================
