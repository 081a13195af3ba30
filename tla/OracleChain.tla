----------------------------- MODULE OracleChain ----------------------------
(***************************************************************************)
(* The price records of successive blocks, from the miners that make them  *)
(* to the two graders that judge them: the daemon's (opr: ParseOPREntry,   *)
(* FetchOPRBlock of OPRBlocks with the algorithms of Grading) and the      *)
(* library's (BlockGrader). A block has up to MaxEntries OPR entries, then *)
(* up to MaxStakes SPRs, which only the staking library grades. Heights    *)
(* pass through the five OPR versions; a version's winners are what the    *)
(* records of the next block must list.                                    *)
(*                                                                         *)
(* An entry no grader accepts leaves no trace, so malformed entries cost   *)
(* no states: each kind of damage a check looks for is one of Defects.     *)
(***************************************************************************)
EXTENDS Grading, BlockGrader, StakeGrader, TLC

CONSTANTS
  OPRMiners,   \* [name, nonce, fct, peg, difficulty, honest]: who mines what
  Stakers,     \* [name, owner, fct]
  Defects,     \* damage done to OPR entries
  StakeDefects,\* damage done to SPR entries
  MaxHeight, MaxEntries, MaxStakes,
  StakeHeights \* the heights at which stakers write

VARIABLES
  dbht,     \* height of the block being filled
  phase,    \* "opr", then "spr"
  eblock,   \* the daemon's OPRs of the block (parsed, with the right winners)
  grader,   \* the library's BlockGrader for the block
  blks,     \* the daemon's graded blocks: the winners of the last
  stakes,   \* the staking library's BlockGrader
  last      \* what the block just closed came to, Failed at other times

chainVars == <<dbht, phase, eblock, grader, blks, stakes, last>>

(* Whatever entry is damaged, it has a hash of its own.                    *)
Damage == "damaged"
Names == {m.name : m \in OPRMiners}

(* GradeMinimum and GetRewardFromPlace as FetchOPRBlock calls them.        *)
GradePlaces(eb, places) ==
  LET oprs == FoldLeft(LAMBDA list, k : Append(list, eb.EntryList[k]), <<>>,
                       SetToSortSeq(places, <))
  IN  GradeMinimumByVersion(oprs, OPRVersion(eb.DBHeight))
RewardAt(place, height) == RewardByVersion(place, OPRVersion(height))

Daemon == INSTANCE OPRBlocks WITH
  Heights <- 1..MaxHeight, Addrs <- {<<"PEG", n>> : n \in Names},
  Hashes <- Names \cup {Damage, ""}, MinV1 <- WinnersV1, MinV2 <- WinnersV2,
  GradeMinimum <- GradePlaces, GetRewardFromPlace <- RewardAt, NoBlock <- Failed

(* The winners the daemon announces for a height.                          *)
Announced(height) ==
  [i \in DOMAIN Daemon!GetPreviousWinners(blks, height) |->
     Daemon!GetPreviousWinners(blks, height)[i].EntryHash]
ToBePaid == Announced(dbht)

-----------------------------------------------------------------------------
(* Polled prices are floats: half a unit below the daemon's precision. The *)
(* assets are those of the record's version: in version 1 all of AssetsV1, *)
(* as the daemon of that time polled them.                                 *)
Polled(m, list) ==
  [a \in ToSet(list) |-> HalfUnits * (CASE a = "FCT" -> m.fct
                                        [] a = "PEG" -> m.peg
                                        [] OTHER     -> 1) - 1]

(* The entry a miner writes: NewOpr with the winners the daemon announces, *)
(* mined. A dishonest miner reports more difficulty than its nonce has.    *)
MinedEntry(m) ==
  LET opr == NewOpr("id", Address(m.name), dbht, ToBePaid,
                    Polled(m, AssetList(OPRVersion(dbht))))
      e == CreateOPREntry(opr, m.name, m.nonce, m.difficulty)
  IN  IF m.honest THEN e ELSE [e EXCEPT !.SelfReportedDifficulty = @ + 5]

Without(f, x) == [a \in DOMAIN f \ {x} |-> f[a]]
Adding(f, x, v) == (x :> v) @@ f

(* Damage to an entry, one defect at a time.                               *)
Damaged(entry, defect) ==
  LET e == [entry EXCEPT !.EntryHash = Damage]
      json == e.Content.enc = "json"
      assets == e.Content.Assets
  IN  CASE defect = "extids"    -> [e EXCEPT !.ExtIDs = 2]
        [] defect = "diffbytes" -> [e EXCEPT !.DifficultyBytes = 7]
        [] defect = "verbytes"  -> [e EXCEPT !.VersionBytes = 2]
        [] defect = "version"   -> [e EXCEPT !.Version = @ + 1]
        [] defect = "junk"      -> [e EXCEPT !.Content.enc = "junk"]
        [] defect = "height"    -> [e EXCEPT !.Content.Height = @ + 1]
        [] defect = "winners"   -> [e EXCEPT !.Content.Winners = [i \in DOMAIN @ |-> "other"]]
        [] defect = "identity"  -> [e EXCEPT !.Content.ID = "!"]
        [] defect = "zero"      -> [e EXCEPT !.Content.Assets =
                                      IF json THEN Adding(assets, "FCT", 0) ELSE [assets EXCEPT ![2] = 0]]
        [] defect = "missing"   -> [e EXCEPT !.Content.Assets =
                                      IF json THEN Without(assets, "FCT") ELSE Tail(assets)]
        [] defect = "address"   -> [e EXCEPT !.Content.Address = BadChecksum(@)]
        [] defect = "extra"     -> [e EXCEPT !.Content.Assets =
                                      IF json THEN Adding(assets, "XYZ", 2) ELSE Append(assets, 1)]
        [] defect = "fewer"     -> [e EXCEPT !.Content.Winners = SubSeq(@, 1, Len(@) - 1)]

-----------------------------------------------------------------------------
(* What the library has kept of the block.                                 *)
Library == IF grader = Failed THEN <<>> ELSE grader.oprs

(* The daemon keeps an entry that parses and lists the right winners       *)
(* (fetchOPRWorker); the library keeps one that AddOPR takes.              *)
ReceiveOPR(entry) ==
  \E e \in {entry} : \E opr \in {ParseOPREntry(e, dbht)} :
    /\ eblock' = IF opr # Failed /\ Daemon!VerifyWinners(opr, Daemon!GetPreviousWinners(blks, dbht))
                 THEN Append(eblock, opr) ELSE eblock
    /\ grader' = IF grader = Failed THEN Failed ELSE AddOPR(grader, e)

MineOPR(m) ==
  /\ phase = "opr" /\ Len(eblock) < MaxEntries
  /\ ReceiveOPR(MinedEntry(m))
  /\ last' = Failed
  /\ UNCHANGED <<dbht, phase, blks, stakes>>

(* What a damaged entry meets depends on the height and the winners only,  *)
(* so one miner's stands for all and it comes first in a block.            *)
DamagedOPR(defect) ==
  /\ phase = "opr" /\ eblock = <<>> /\ Library = <<>>
  /\ ReceiveOPR(Damaged(MinedEntry(CHOOSE m \in OPRMiners : m.honest), defect))
  /\ last' = Failed
  /\ UNCHANGED <<dbht, phase, blks, stakes>>

Hashes(seq) == [i \in DOMAIN seq |-> seq[i].EntryHash]

(* What later blocks look up in a graded block.                            *)
Remembered(blk) ==
  [Dbht |-> blk.Dbht, GradedOPRs |-> [i \in DOMAIN Daemon!Winners(blk) |->
                        [EntryHash |-> Daemon!Winners(blk)[i].EntryHash]]]

(* The two graders begin a block with the same previous winners.           *)
InStep(height) ==
  /\ grader # Failed
  /\ grader.prevWinners =
       IF Announced(height) # <<>> THEN Announced(height)
       ELSE ShortHashes(IF OPRVersion(height) = 1 THEN WinnersV1 ELSE WinnersV2)

(* The OPR block is complete: the daemon syncs it (FetchOPRBlock), the     *)
(* library grades it. Its user takes the short hashes on to the next block *)
(* and is left without a grader if NewGrader refuses them. Remembered for  *)
(* the properties: whether both began with the same winners and whether    *)
(* they kept the same entries.                                             *)
CloseOPRBlock ==
  /\ phase = "opr"
  /\ \E blk \in {Daemon!FetchOPRBlock([DBHeight |-> dbht, EntryList |-> eblock],
                                        Daemon!GetPreviousWinners(blks, dbht))},
        lib \in {IF grader = Failed THEN Failed ELSE Grade(grader)} :
         /\ blks' = IF blk = Failed THEN blks ELSE <<Remembered(blk)>>
         /\ last' = [daemon |-> blk, library |-> lib, inStep |-> InStep(dbht),
                     same |-> grader # Failed /\ Hashes(eblock) = Hashes(Library)]
         /\ grader' = IF lib = Failed THEN Failed
                      ELSE NewGrader(OPRVersion(dbht + 1), dbht + 1, lib.shorthashes)
  /\ eblock' = <<>> /\ phase' = "spr"
  /\ UNCHANGED <<dbht, stakes>>

StakedEntry(s) == CreateSPREntry(NewSpr(dbht, Polled(s, AssetsV5)), Address(s.owner), s.name)

DamagedStake(e, defect) ==
  CASE defect = "none"      -> e
    [] defect = "signature" -> [e EXCEPT !.Signed.Height = @ + 1]
    [] defect = "height"    -> [e EXCEPT !.Content.Height = @ + 1, !.Signed.Height = @ + 1]
    [] defect = "version"   -> [e EXCEPT !.Version = @ + 1]

ReceiveSPR(s, defect) ==
  /\ phase = "spr" /\ Len(stakes.sprs) < MaxStakes /\ dbht \in StakeHeights
  /\ defect # "none" => stakes.sprs = <<>>
  /\ stakes' = AddSPR(stakes, DamagedStake(StakedEntry(s), defect))
  /\ last' = Failed
  /\ UNCHANGED <<dbht, phase, eblock, grader, blks>>

(* The SPR block is graded and the next height begins.                     *)
CloseSPRBlock ==
  /\ phase = "spr" /\ dbht < MaxHeight
  /\ last' = [stake |-> GradeStake(stakes)]
  /\ stakes' = NewStakeGrader(SPRVersion(dbht + 1), dbht + 1)
  /\ dbht' = dbht + 1 /\ phase' = "opr"
  /\ UNCHANGED <<eblock, grader, blks>>

InitChain ==
  /\ dbht = 1 /\ phase = "opr" /\ eblock = <<>> /\ blks = <<>> /\ last = Failed
  /\ grader = NewGrader(OPRVersion(1), 1, <<>>)
  /\ stakes = NewStakeGrader(SPRVersion(1), 1)

NextChain ==
  \/ \E m \in OPRMiners : MineOPR(m)
  \/ \E d \in Defects : DamagedOPR(d)
  \/ CloseOPRBlock
  \/ \E s \in Stakers, d \in StakeDefects \cup {"none"} : ReceiveSPR(s, d)
  \/ CloseSPRBlock

ChainSpec == InitChain /\ [][NextChain]_chainVars

-----------------------------------------------------------------------------
Closed(field) == last # Failed /\ field \in DOMAIN last

(* What an honest miner makes is accepted: in every block, across every    *)
(* change of version and of winners, and after a block without winners,    *)
(* NewOpr succeeds and the daemon keeps its entry as the record that was   *)
(* made; so does the library, if it has the same previous winners, and a   *)
(* staker's entry passes its version's check.                              *)
OwnRecordsAreAccepted ==
  /\ phase = "opr" /\ eblock = <<>> =>
       \A m \in OPRMiners :
         \E made \in {NewOpr("id", Address(m.name), dbht, ToBePaid,
                              Polled(m, AssetList(OPRVersion(dbht))))} \ {Failed} :
           \E e \in {CreateOPREntry(made, m.name, m.nonce, m.difficulty)} :
             /\ SafeUnmarshal(e.Version, e.Content) = made
             /\ ParseOPREntry(e, dbht) # Failed
             /\ Daemon!VerifyWinners(made, Daemon!GetPreviousWinners(blks, dbht))
             /\ InStep(dbht) => Len(AddOPR(grader, e).oprs) = Len(grader.oprs) + 1
  /\ phase = "spr" /\ stakes.sprs = <<>> =>
       \A s \in Stakers : Len(AddSPR(stakes, StakedEntry(s)).sprs) = 1

(* A block in which both have the same winners, in order, and pay each the *)
(* same.                                                                   *)
SameWinners(daemon, library) ==
  IF daemon = Failed THEN library.winners = <<>>
  ELSE LET paid == Daemon!Winners(daemon)
       IN  /\ Hashes(paid) = Hashes(library.winners)
           /\ \A i \in DOMAIN paid : RewardAt(i - 1, dbht) = library.payout[i]

(* As long as both implementations have the same previous winners, the     *)
(* daemon keeps what the library keeps, and in version 1 the library what  *)
(* the daemon keeps. A block in which they kept the same entries has the   *)
(* same winners and payments for both, so both begin the next one with the *)
(* same winners - unless version 1 ends without a winner ever, or version  *)
(* 2 without a list of its own length, which version 3 refuses.            *)
GradersGradeAlike ==
  /\ phase = "opr" /\ InStep(dbht) =>
       LET daemon == ToSet(Hashes(eblock))
           library == ToSet(Hashes(Library))
       IN  IF OPRVersion(dbht) = 1 THEN daemon \subseteq library ELSE library \subseteq daemon
  /\ Closed("library") /\ last.same =>
       /\ SameWinners(last.daemon, last.library)
       /\ last.inStep =>
            \/ InStep(dbht + 1)
            \/ OPRVersion(dbht) = 1 /\ OPRVersion(dbht + 1) = 2 /\ blks = <<>>
            \/ /\ OPRVersion(dbht) = 2 /\ OPRVersion(dbht + 1) = 3
               /\ Len(last.library.shorthashes) = WinnersV1

(* What the tests of the library ask of a record, "must have exactly 25    *)
(* previous winning shorthashes" (v3_util_test.go:20-24), is what the      *)
(* daemon asks too: as long as both have the same previous winners, they   *)
(* give a block the same winners, in order, and pay each the same.         *)
GradersAgree ==
  Closed("library") /\ last.inStep => SameWinners(last.daemon, last.library)

(* Record i of the list is, among the first i, the furthest from their     *)
(* average, the last by Tie among the equally far.                         *)
Peeled(list, lowest, Average(_), Dist(_, _, _), Banded(_), Tie(_, _)) ==
  \A i \in lowest..Len(list) :
    LET first == SubSeq(list, 1, i)
        d(j) == Dist(Average(first), list[j], Banded(i))
    IN  \A j \in 1..(i - 1) :
          d(j) < d(i) \/ (d(j) = d(i) /\ Tie(list[j], list[i]))

(* Grading throws out the furthest record again and again: whoever ends at *)
(* place i is, among the first i, at the greatest distance from their own  *)
(* average, and on equal distance has the least difficulty (an OPR) - down *)
(* to the winners in version 1, to the last record from version 2 on.      *)
GradingPeelsTheFurthest ==
  /\ Closed("library") /\ last.library # Failed /\ last.library.winners # <<>> =>
       LET oprs == last.library.oprs
           harder(a, b) == a.Difficulty >= b.Difficulty
           v == OPRVersion(dbht)
       IN  CASE v = 1 -> Peeled(oprs, WinnersV1 + 1, averageV1,
                           LAMBDA avg, o, b : gradeV1(avg, o), LAMBDA i : FALSE, harder)
             [] v \in 2..4 -> Peeled(oprs, 2, averageV1, gradeV2, LAMBDA i : i >= WinnersV2, harder)
             [] v = 5 -> Peeled(oprs, 2, averageV5, gradeV5, LAMBDA i : i >= WinnersV2, harder)
  /\ Closed("stake") /\ last.stake.winners # <<>> =>
       Peeled(SubSeq(last.stake.sprs, 1, Min({Cutoff, Len(last.stake.sprs)})), 2, averageS1,
              gradeS1, LAMBDA i : i >= WinnersV2, LAMBDA a, b : TRUE)

(* A payout address is paid once per block of staking records, and never   *)
(* for more places than the block has winners.                             *)
StakersArePaidOnce ==
  Closed("stake") =>
    LET paid == {i \in DOMAIN last.stake.sprs : last.stake.payout[i] > 0}
    IN  /\ Cardinality(paid) = Len(last.stake.winners)
        /\ \A i, j \in paid : last.stake.sprs[i].CoinbaseAddress
                                = last.stake.sprs[j].CoinbaseAddress => i = j
=============================================================================
