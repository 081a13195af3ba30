---------------------------- MODULE BurnTracking ----------------------------
(***************************************************************************)
(* BurnTracking.UpdateBurns (balances/burns.go): the factoid blocks after  *)
(* the first OPR block are read one by one and each burn is credited as    *)
(* pFCT to the burner. The grader calls it at every minute 1; the node may *)
(* fail at every call, and the daemon may be restarted, which forgets both *)
(* the height and the balances.                                            *)
(***************************************************************************)
EXTENDS Integers, Sequences, Sums

CONSTANTS
  Burners,     \* addresses
  Chain,       \* the factoid blocks: Chain[h] is a sequence of transactions
  StartBlock,  \* height of the first OPR block
  Network,     \* "Main" or "Test"
  MaxUpdates   \* bound: calls of UpdateBurns

Transaction == [burn : BOOLEAN,    \* one entry credit output, the burn address, amount 0
                outputs : Nat, inputs : Nat, from : Burners, amount : Nat]

ASSUME BurnAssumption ==
  /\ StartBlock \in Nat \ {0} /\ MaxUpdates \in Nat /\ Network \in {"Main", "Test"}
  /\ Chain \in Seq(Seq(Transaction))

VARIABLES
  height,      \* DirectoryBlockHeight of the node
  FctDbht,     \* last block credited, 0 for none
  pfct,        \* Balances, of pFCT
  update,      \* the call that runs, or Idle
  updates      \* counter

burnVars == <<height, FctDbht, pfct, update, updates>>

Idle == [running |-> FALSE, dbht |-> 0, i |-> 0, tx |-> 0, deltas |-> [a \in Burners |-> 0]]

InitBurns ==
  /\ height = StartBlock /\ FctDbht = 0
  /\ pfct = [a \in Burners |-> 0]
  /\ update = Idle /\ updates = 0

(* Is this a burn? One input, no output, and the test network counts a     *)
(* thousandfold.                                                           *)
BurnOf(tx) ==
  IF tx.burn /\ tx.outputs = 0 /\ tx.inputs = 1
  THEN IF Network = "Main" THEN tx.amount ELSE tx.amount * 1000
  ELSE 0

(* A call that resumes at the block it credited last, for the mutation     *)
(* runs.                                                                   *)
ResumeAtLast(dbht) == dbht

FirstBlock(dbht) == dbht + 1

(* UpdateBurns starts at the first OPR block and asks for the heights.     *)
UpdateBurns ==
  /\ ~update.running /\ updates < MaxUpdates
  /\ updates' = updates + 1
  /\ FctDbht' = IF FctDbht = 0 THEN StartBlock ELSE FctDbht
  /\ \/ update' = [Idle EXCEPT !.running = TRUE, !.dbht = height, !.i = FirstBlock(FctDbht')]
     \/ update' = Idle                 \* GetHeights fails
  /\ UNCHANGED <<height, pfct>>

InLoop == update.running /\ update.i < update.dbht

(* The next transaction of block i.                                        *)
ReadTransaction ==
  /\ InLoop /\ update.tx < Len(Chain[update.i])
  /\ LET tx == Chain[update.i][update.tx + 1]
     IN  update' = [update EXCEPT !.tx = @ + 1, !.deltas[tx.from] = @ + BurnOf(tx)]
  /\ UNCHANGED <<height, FctDbht, pfct, updates>>

(* GetFBlockByHeight or GetTransaction fails, or there is no block: the    *)
(* call returns and the block's deltas are lost.                           *)
ReadFails ==
  /\ InLoop /\ update' = Idle
  /\ UNCHANGED <<height, FctDbht, pfct, updates>>

(* "Process them as a block": AddToBalance for every burner, then the      *)
(* height is remembered.                                                   *)
CreditBlock ==
  /\ InLoop /\ update.tx = Len(Chain[update.i])
  /\ pfct' = [a \in Burners |-> pfct[a] + update.deltas[a]]
  /\ FctDbht' = update.i
  /\ update' = [update EXCEPT !.i = @ + 1, !.tx = 0, !.deltas = Idle.deltas]
  /\ UNCHANGED <<height, updates>>

UpdateEnds ==
  /\ update.running /\ ~InLoop /\ update' = Idle
  /\ UNCHANGED <<height, FctDbht, pfct, updates>>

NewFactoidBlock ==
  /\ height < Len(Chain) /\ height' = height + 1
  /\ UNCHANGED <<FctDbht, pfct, update, updates>>

Restart ==
  /\ FctDbht' = 0 /\ pfct' = [a \in Burners |-> 0] /\ update' = Idle
  /\ UNCHANGED <<height, updates>>

NextBurns ==
  UpdateBurns \/ ReadTransaction \/ ReadFails \/ CreditBlock \/ UpdateEnds
    \/ NewFactoidBlock \/ Restart

BurnsSpec == InitBurns /\ [][NextBurns]_burnVars
-----------------------------------------------------------------------------
(* What an address burns in a block.                                       *)
BurntIn(h, a) ==
  Sum([i \in DOMAIN Chain[h] |-> IF Chain[h][i].from = a THEN BurnOf(Chain[h][i]) ELSE 0])

(* Every burn of the blocks after the first OPR block, up to the last one  *)
(* credited, is credited exactly once, however the calls before failed and *)
(* resumed; nothing of a block is credited before all of it is read, and   *)
(* the newest block of the node is left for the next call.                 *)
BurnsCreditedOnce ==
  /\ \A a \in Burners :
       pfct[a] = Sum([h \in (StartBlock + 1)..FctDbht |-> BurntIn(h, a)])
  /\ FctDbht > StartBlock => FctDbht < height
=============================================================================
