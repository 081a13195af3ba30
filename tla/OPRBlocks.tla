----------------------------- MODULE OPRBlocks -----------------------------
(***************************************************************************)
(* The values the grader works on and the pure functions it applies to     *)
(* them: entries, entry blocks (eblocks) of the OPR chain, graded OPR      *)
(* blocks, and the steps of QuickGrader.FetchOPRBlock (opr/grader.go,      *)
(* opr/grading.go).                                                        *)
(*                                                                         *)
(* An entry keeps what grading tells apart: its hash, the address it pays, *)
(* the short hashes of the previous winners it lists ("" for a bootstrap   *)
(* record) and IsOPR, the verdict of ParseOPREntry (three ExtIDs,          *)
(* unmarshals, validates for its height).                                  *)
(***************************************************************************)
EXTENDS Integers, Sequences, FiniteSets, FiniteSetsExt

CONSTANTS
  Heights,              \* directory block heights of the instance
  Addrs,                \* payout addresses (CoinbasePEGAddress)
  Hashes,               \* entry hashes, "" included
  MinV1, MinV2,         \* records a block needs, and pays: 10 and 25
  V2GradingActivation,  \* first height that needs MinV2
  GradeMinimum(_, _),   \* graded order of the OPRs at given places of an eblock
  GetRewardFromPlace(_, _), \* reward of a (0-based) place at a height
  NoBlock               \* a nil *OprBlock

Entry == [EntryHash : Hashes, CoinbasePEGAddress : Addrs,
          WinPreviousOPR : Seq(Hashes), IsOPR : BOOLEAN]

EBlock == [DBHeight : Heights, EntryList : Seq(Entry)]

OprBlock == [Dbht : Heights, GradedOPRs : Seq(Entry),
             TotalNumberRecords : Nat, EmptyOPRBlock : BOOLEAN]

(* Heights are positive: a DBHeight of 0 is the network's genesis block.   *)
ASSUME HeightsAssumption == Heights \subseteq Nat \ {0}
ASSUME RecordsAssumption ==
  /\ MinV1 \in Nat \ {0} /\ MinV2 \in Nat \ {0}
  /\ V2GradingActivation \in Nat
ASSUME HashesAssumption == "" \in Hashes
ASSUME NilAssumption == NoBlock \notin OprBlock

(* The two pure functions left abstract return what the code's versions    *)
(* return: an ordering of some of the given OPRs, and a reward in PEG.     *)
GradingIsTyped(c) ==
  /\ \A i \in DOMAIN c : \A S \in SUBSET DOMAIN c[i].EntryList :
        GradeMinimum(c[i], S) \in Seq({c[i].EntryList[k] : k \in S})
  /\ \A h \in Heights : \A p \in 0..(MinV1 + MinV2) :
        GetRewardFromPlace(p, h) \in Nat

(* An OPR chain: a directory block holds at most one of its eblocks.       *)
IsChain(c) ==
  /\ c \in Seq(EBlock)
  /\ \A i, j \in DOMAIN c : i < j => c[i].DBHeight < c[j].DBHeight

(* MinRecords: the OPR version of the height decides.                      *)
MinRecords(dbht) == IF dbht < V2GradingActivation THEN MinV1 ELSE MinV2

(* GetPreviousOPRBlock that forgets its bound, for the mutation runs.      *)
LatestOPRBlock(blks, dbht) == IF blks = <<>> THEN NoBlock ELSE blks[Len(blks)]

(* The highest-known OPR block below dbht, nil when there is none.         *)
GetPreviousOPRBlock(blks, dbht) ==
  LET below == {i \in DOMAIN blks : blks[i].Dbht < dbht}
  IN  IF below = {} THEN NoBlock ELSE blks[Max(below)]

(* The paid records of a graded block.                                     *)
Winners(b) == SubSeq(b.GradedOPRs, 1, MinRecords(b.Dbht))

GetPreviousWinners(blks, dbht) ==
  LET prev == GetPreviousOPRBlock(blks, dbht)
  IN  IF prev = NoBlock THEN <<>> ELSE Winners(prev)

(* Every short hash the OPR lists is the winner's in that place; with no   *)
(* winners yet it is blank. (A list longer than the winners makes the Go   *)
(* code index out of range; no chain of the instances holds one.)          *)
VerifyWinners(opr, winners) ==
  \A i \in DOMAIN opr.WinPreviousOPR :
     IF winners = <<>>
     THEN opr.WinPreviousOPR[i] = ""
     ELSE /\ i \in DOMAIN winners
          /\ opr.WinPreviousOPR[i] = winners[i].EntryHash

(* The places of the eblock that hold an OPR with the right winners: what  *)
(* ParallelFetchOPRsFromEBlock returns, sorted back into entry order.      *)
FetchOPRsFromEBlock(eb, winners) ==
  {k \in DOMAIN eb.EntryList :
     /\ eb.EntryList[k].IsOPR
     /\ VerifyWinners(eb.EntryList[k], winners)}

(* FetchOPRBlock: nil when the eblock has too few entries, too few OPRs or *)
(* too few graded records, else the graded block.                          *)
FetchOPRBlock(eb, winners) ==
  LET min    == MinRecords(eb.DBHeight)
      oprs   == FetchOPRsFromEBlock(eb, winners)
      graded == GradeMinimum(eb, oprs)
  IN  IF \/ Len(eb.EntryList) < min
         \/ Cardinality(oprs) < min
         \/ Len(graded) < min
      THEN NoBlock
      ELSE [Dbht |-> eb.DBHeight, GradedOPRs |-> graded,
            TotalNumberRecords |-> Cardinality(oprs), EmptyOPRBlock |-> FALSE]

(* WriteInvalidOPRBlock: the record of an eblock that did not validate.    *)
InvalidOPRBlock(dbht) ==
  [Dbht |-> dbht, GradedOPRs |-> <<>>, TotalNumberRecords |-> 0,
   EmptyOPRBlock |-> TRUE]

(* ToOPRBlock that loses the graded list, for the mutation runs.           *)
ToOPRBlockUngraded(obj) == [obj EXCEPT !.TotalNumberRecords = 0, !.GradedOPRs = <<>>]

(* ToOPRBlock: what a stored block looks like when it is read back. The    *)
(* number of records is not restored.                                      *)
ToOPRBlock(obj) == [obj EXCEPT !.TotalNumberRecords = 0]
=============================================================================
