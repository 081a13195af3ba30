---------------------------- MODULE OracleLedger ----------------------------
(***************************************************************************)
(* What the grader promises: a replica of the OPR chain's ledger. Eblocks  *)
(* are settled one at a time in chain order, each graded against the       *)
(* winners of the blocks settled before it and each winner paid once. A    *)
(* replica may lose everything and settle again from the first eblock; it  *)
(* never fails, never reads a disk and never skips.                        *)
(*                                                                         *)
(* The number of records of a block is not promised to survive.            *)
(***************************************************************************)
EXTENDS OPRBlocks

VARIABLES
  chain,      \* the OPR chain as the network writes it
  settled,    \* eblocks settled so far
  blocks,     \* the graded blocks among them
  place,      \* winners of the newest block already paid, -1 when all are
  balances    \* PEG balance per address

ledgerVars == <<chain, settled, blocks, place, balances>>

Empty ==
  /\ settled = 0
  /\ blocks = <<>>
  /\ place = -1
  /\ balances = [a \in Addrs |-> 0]

Init == IsChain(chain) /\ Empty

(* The next eblock is graded; an invalid one is settled with no effect.    *)
Grade ==
  /\ place = -1
  /\ settled < Len(chain)
  /\ LET eb == chain[settled + 1]
         b  == FetchOPRBlock(eb, GetPreviousWinners(blocks, eb.DBHeight))
     IN  \/ /\ b = NoBlock
            /\ settled' = settled + 1
            /\ UNCHANGED <<chain, blocks, place, balances>>
         \/ /\ b # NoBlock
            /\ \E n \in {0, b.TotalNumberRecords} :
                 blocks' = Append(blocks, [b EXCEPT !.TotalNumberRecords = n])
            /\ place' = 0
            /\ UNCHANGED <<chain, settled, balances>>

(* The next winner of the newest block is paid.                            *)
Pay ==
  LET b == blocks[Len(blocks)] IN
  /\ place >= 0 /\ place < MinRecords(b.Dbht)
  /\ place' = place + 1
  /\ balances' = [balances EXCEPT ![b.GradedOPRs[place + 1].CoinbasePEGAddress] =
                     @ + GetRewardFromPlace(place, b.Dbht)]
  /\ UNCHANGED <<chain, settled, blocks>>

(* All its winners are paid: the block is settled.                         *)
Settle ==
  /\ blocks # <<>>
  /\ place = MinRecords(blocks[Len(blocks)].Dbht)
  /\ place' = -1
  /\ settled' = settled + 1
  /\ UNCHANGED <<chain, blocks, balances>>

Restart ==
  /\ settled' = 0
  /\ blocks' = <<>>
  /\ place' = -1
  /\ balances' = [a \in Addrs |-> 0]
  /\ UNCHANGED chain

Next == Grade \/ Pay \/ Settle \/ Restart

Spec == Init /\ [][Next]_ledgerVars
=============================================================================
