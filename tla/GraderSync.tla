----------------------------- MODULE GraderSync -----------------------------
(***************************************************************************)
(* QuickGrader (opr/grader.go) with its eblock queue                       *)
(* (opr/entryblocksync.go), its block store (opr/oprblocks.go) and the     *)
(* balances it pays into (balances/balances.go), against a factomd node    *)
(* whose OPR chain grows, whose calls fail and whose head may lag, and a   *)
(* process that may die at any step: memory is lost, the store is not.     *)
(*                                                                         *)
(* An eblock is named by its place in the chain; place 0 stands for the    *)
(* empty KeyMR of a new EntryBlockSync and for the chain's ZeroHash.       *)
(***************************************************************************)
EXTENDS OPRBlocks, Sums

CONSTANTS
  Chains,     \* the OPR chains of the instance
  MaxHeight,  \* bound: the last directory block height begun
  HeadLag,    \* bound: eblocks by which factomd's head may lag
  AlertCap    \* capacity of a monitor listener's channel (10)

ASSUME ChainsAssumption ==
  /\ \A c \in Chains : IsChain(c) /\ GradingIsTyped(c)
  /\ MaxHeight \in Nat /\ HeadLag \in Nat /\ AlertCap \in Nat \ {0}

VARIABLES
  \* factomd and the monitor
  chain,      \* the OPR chain as the network will write it
  dbht,       \* height of the directory block being built
  head,       \* eblocks of the chain that exist so far
  fdAlert,    \* minute-1 events (heights) the grader has not yet received
  \* EntryBlockSync
  current, target, toParse,
  \* QuickGrader
  oprBlks, balances, listening, event, tries, announced,
  \* the Sync call in progress
  pc, oprblock, place,
  \* OPRBlockStore
  store

nodeVars == <<chain, dbht, head>>
syncVars == <<current, target, toParse>>
runVars  == <<listening, event, tries, announced>>
vars == <<chain, dbht, head, fdAlert, current, target, toParse, oprBlks, balances,
          listening, event, tries, announced, pc, oprblock, place, store>>

(* What SendToListeners sent last. Dbht is history: an OPRs message of the *)
(* code carries no height.                                                 *)
NoMessage == [Dbht |-> 0, ToBePaid |-> <<>>, Error |-> FALSE]
Message == [Dbht : Nat, ToBePaid : Seq(Entry), Error : BOOLEAN]

(* The grader's memory when the daemon starts: NewQuickGrader,             *)
(* NewEntryBlockSync and NewBalanceTracker.                                *)
Fresh ==
  /\ current = 0 /\ target = 0 /\ toParse = <<>>
  /\ oprBlks = <<>>
  /\ balances = [a \in Addrs |-> 0]
  /\ listening = FALSE /\ event = 0 /\ tries = 0
  /\ announced = NoMessage
  /\ pc = "sync" /\ oprblock = NoBlock /\ place = -1
  /\ fdAlert = <<>>

Init ==
  /\ chain \in Chains
  /\ dbht = 1 /\ head = 0
  /\ store = [h \in Heights |-> NoBlock]
  /\ Fresh
-----------------------------------------------------------------------------
(***************************************************************************)
(* The node. A directory block is completed: its OPR eblock, if it has     *)
(* one, becomes the chain head, and the monitor reports minute 1 of the    *)
(* next height unless it misses the minute or the listener's channel is    *)
(* full.                                                                   *)
(***************************************************************************)
NextDBlock ==
  /\ dbht < MaxHeight
  /\ dbht' = dbht + 1
  /\ head' = IF head < Len(chain) /\ chain[head + 1].DBHeight = dbht
             THEN head + 1 ELSE head
  /\ \/ UNCHANGED fdAlert
     \/ /\ listening /\ Len(fdAlert) < AlertCap
        /\ fdAlert' = Append(fdAlert, dbht + 1)
  /\ UNCHANGED <<chain, store, current, target, toParse, oprBlks, balances,
                 listening, event, tries, announced, pc, oprblock, place>>

(* A restart with last run's balances, for the mutation runs.              *)
CrashKeepsBalances ==
  /\ current' = 0 /\ target' = 0 /\ toParse' = <<>>
  /\ oprBlks' = <<>>
  /\ listening' = FALSE /\ event' = 0 /\ tries' = 0
  /\ announced' = NoMessage
  /\ pc' = "sync" /\ oprblock' = NoBlock /\ place' = -1
  /\ fdAlert' = <<>>
  /\ UNCHANGED <<nodeVars, store, balances>>

(* The daemon dies and is started again.                                   *)
Crash ==
  /\ current' = 0 /\ target' = 0 /\ toParse' = <<>>
  /\ oprBlks' = <<>>
  /\ balances' = [a \in Addrs |-> 0]
  /\ listening' = FALSE /\ event' = 0 /\ tries' = 0
  /\ announced' = NoMessage
  /\ pc' = "sync" /\ oprblock' = NoBlock /\ place' = -1
  /\ fdAlert' = <<>>
  /\ UNCHANGED <<nodeVars, store>>
-----------------------------------------------------------------------------
(***************************************************************************)
(* Run: the call of Sync and what follows it.                              *)
(***************************************************************************)
ReceiveMinuteOne ==
  /\ pc = "idle" /\ fdAlert # <<>>
  /\ event' = Head(fdAlert)
  /\ fdAlert' = Tail(fdAlert)
  /\ tries' = 0
  /\ pc' = "sync"
  /\ UNCHANGED <<nodeVars, syncVars, oprBlks, balances, listening, announced,
                 oprblock, place, store>>

(* Two variants of SyncFails for the mutation runs: a block's sync retried *)
(* for ever, the initial sync given up.                                    *)
SyncFailsForEver ==
  /\ oprblock' = NoBlock /\ pc' = "sync"
  /\ UNCHANGED <<listening, event, announced, tries>>

SyncFailsForGood ==
  /\ oprblock' = NoBlock /\ pc' = "idle" /\ tries' = 0
  /\ announced' = [Dbht |-> event, ToBePaid |-> <<>>, Error |-> TRUE]
  /\ UNCHANGED <<listening, event>>

(* Sync returned an error: the initial sync is tried again for ever, a     *)
(* block's three times, and then the listeners are told.                   *)
SyncFails ==
  /\ oprblock' = NoBlock
  /\ IF listening /\ tries = 2
     THEN /\ announced' = [Dbht |-> event, ToBePaid |-> <<>>, Error |-> TRUE]
          /\ pc' = "idle"
          /\ tries' = 0
     ELSE /\ pc' = "sync"
          /\ tries' = IF listening THEN tries + 1 ELSE tries
          /\ UNCHANGED announced
  /\ UNCHANGED <<listening, event>>

(* Sync returned nil: the initial sync makes the grader listen, a block's  *)
(* sends the winners of the OPR block before the event's height.           *)
SyncSucceeds ==
  /\ pc' = "idle"
  /\ tries' = 0
  /\ listening' = TRUE
  /\ announced' = IF ~listening THEN announced
                  ELSE [Dbht |-> event, Error |-> FALSE,
                        ToBePaid |-> GetPreviousWinners(oprBlks, event)]
  /\ UNCHANGED event
-----------------------------------------------------------------------------
(***************************************************************************)
(* EntryBlockSync.                                                         *)
(***************************************************************************)

(* The eblocks SyncBlocks walks back over from head h: down to the target, *)
(* or to the first eblock when the walk never meets it.                    *)
Walked(h) == {i \in 1..h : i > target \/ h < target}

(* AddNewHeadMarker without its early return, for the mutation runs.       *)
AddedAnyway(h) == Walked(h)

(* Those AddNewHeadMarker appends: it skips what lies below the target.    *)
Added(h) == {i \in Walked(h) : target = 0 \/ i >= target}

(* SyncBlocks: the head is looked up, then the queue extended in chain     *)
(* order. A failure leaves the queue as it was.                            *)
SyncBlocks ==
  /\ pc = "sync"
  /\ \E h \in (head - HeadLag)..head :
       /\ h >= 0
       /\ toParse' = toParse \o [k \in 1..Cardinality(Added(h)) |-> Min(Added(h)) + k - 1]
       /\ target' = IF Added(h) = {} THEN target ELSE h
  /\ pc' = "next"
  /\ UNCHANGED <<nodeVars, fdAlert, current, oprBlks, balances, runVars, oprblock,
                 place, store>>

SyncBlocksFails ==
  /\ pc = "sync"
  /\ SyncFails
  /\ UNCHANGED <<nodeVars, fdAlert, syncVars, oprBlks, balances, place, store>>

Synced == current = target

BlockParsed ==
  /\ current' = Head(toParse)
  /\ toParse' = Tail(toParse)
  /\ UNCHANGED target

NextEBlock == chain[Head(toParse)]
-----------------------------------------------------------------------------
(***************************************************************************)
(* The loop of QuickGrader.Sync.                                           *)
(***************************************************************************)
SyncDone ==
  /\ pc = "next"
  /\ Synced \/ toParse = <<>>
  /\ SyncSucceeds
  /\ UNCHANGED <<nodeVars, fdAlert, syncVars, oprBlks, balances, oprblock, place, store>>

(* The store already knows the eblock is not a valid OPR block.            *)
ReadEmptyBlock ==
  /\ pc = "next" /\ ~Synced /\ toParse # <<>>
  /\ LET obj == store[NextEBlock.DBHeight] IN obj # NoBlock /\ obj.EmptyOPRBlock
  /\ BlockParsed
  /\ UNCHANGED <<nodeVars, fdAlert, oprBlks, balances, runVars, pc, oprblock, place, store>>

(* The store has the graded block.                                         *)
ReadStoredBlock ==
  /\ pc = "next" /\ ~Synced /\ toParse # <<>>
  /\ LET obj == store[NextEBlock.DBHeight] IN
       /\ obj # NoBlock /\ ~obj.EmptyOPRBlock
       /\ oprblock' = ToOPRBlock(obj)
  /\ pc' = "save"
  /\ UNCHANGED <<nodeVars, fdAlert, syncVars, oprBlks, balances, runVars, place, store>>

(* The store has no block, or reading it failed: the error is dropped and  *)
(* the eblock is fetched from factomd.                                     *)
ReadNothing ==
  /\ pc = "next" /\ ~Synced /\ toParse # <<>>
  /\ pc' = "fetch"
  /\ UNCHANGED <<nodeVars, fdAlert, syncVars, oprBlks, balances, runVars, oprblock,
                 place, store>>

(* The fetch with enforceWinners off, for the mutation runs.               *)
FetchUnenforced ==
  /\ pc = "fetch"
  /\ oprblock' = LET graded == GradeMinimum(NextEBlock,
                                  {k \in DOMAIN NextEBlock.EntryList : NextEBlock.EntryList[k].IsOPR})
                 IN  IF Len(graded) < MinRecords(NextEBlock.DBHeight) THEN NoBlock
                     ELSE [Dbht |-> NextEBlock.DBHeight, GradedOPRs |-> graded,
                           TotalNumberRecords |-> 0, EmptyOPRBlock |-> FALSE]
  /\ pc' = "save"
  /\ UNCHANGED <<nodeVars, fdAlert, syncVars, oprBlks, balances, runVars, place, store>>

FetchFromFactomd ==
  /\ pc = "fetch"
  /\ oprblock' = FetchOPRBlock(NextEBlock, GetPreviousWinners(oprBlks, NextEBlock.DBHeight))
  /\ pc' = "save"
  /\ UNCHANGED <<nodeVars, fdAlert, syncVars, oprBlks, balances, runVars, place, store>>

(* The fetch whose error is taken for an invalid block, for the mutation   *)
(* runs.                                                                   *)
FetchErrorIsInvalid ==
  /\ pc = "fetch"
  /\ Len(NextEBlock.EntryList) >= MinRecords(NextEBlock.DBHeight)
  /\ oprblock' = NoBlock
  /\ pc' = "save"
  /\ UNCHANGED <<nodeVars, fdAlert, syncVars, oprBlks, balances, runVars, place, store>>

(* An entry of the eblock could not be fetched or parsed. (The entries of  *)
(* an eblock that is too short are not fetched.)                           *)
FetchFails ==
  /\ pc = "fetch"
  /\ Len(NextEBlock.EntryList) >= MinRecords(NextEBlock.DBHeight)
  /\ SyncFails
  /\ UNCHANGED <<nodeVars, fdAlert, syncVars, oprBlks, balances, place, store>>

SaveInvalidBlock ==
  /\ pc = "save" /\ oprblock = NoBlock
  /\ store' = [store EXCEPT ![NextEBlock.DBHeight] = InvalidOPRBlock(NextEBlock.DBHeight)]
  /\ BlockParsed
  /\ pc' = "next"
  /\ UNCHANGED <<nodeVars, fdAlert, oprBlks, balances, runVars, oprblock, place>>

(* A graded block is stored, even one just read from the store, and kept.  *)
SaveBlock ==
  /\ pc = "save" /\ oprblock # NoBlock
  /\ store' = [store EXCEPT ![oprblock.Dbht] = oprblock]
  /\ oprBlks' = Append(oprBlks, oprblock)
  /\ place' = 0
  /\ pc' = "pay"
  /\ UNCHANGED <<nodeVars, fdAlert, syncVars, balances, runVars, oprblock>>

(* The block kept in memory before the write that fails, for the mutation  *)
(* runs.                                                                   *)
SaveFailsKeepsBlock ==
  /\ pc = "save"
  /\ SyncFails
  /\ oprBlks' = IF oprblock = NoBlock THEN oprBlks ELSE Append(oprBlks, oprblock)
  /\ UNCHANGED <<nodeVars, fdAlert, syncVars, balances, place, store>>

SaveFails ==
  /\ pc = "save"
  /\ SyncFails
  /\ UNCHANGED <<nodeVars, fdAlert, syncVars, oprBlks, balances, place, store>>

(* The next winner's reward is added to its balance.                       *)
PayWinner ==
  /\ pc = "pay"
  /\ place < MinRecords(NextEBlock.DBHeight)
  /\ LET winner == oprblock.GradedOPRs[place + 1]
         reward == GetRewardFromPlace(place, NextEBlock.DBHeight)
     IN  balances' = [balances EXCEPT ![winner.CoinbasePEGAddress] = @ + reward]
  /\ place' = place + 1
  /\ UNCHANGED <<nodeVars, fdAlert, syncVars, oprBlks, runVars, pc, oprblock, store>>

PaidBlockParsed ==
  /\ pc = "pay"
  /\ place = MinRecords(NextEBlock.DBHeight)
  /\ BlockParsed
  /\ place' = -1
  /\ oprblock' = NoBlock
  /\ pc' = "next"
  /\ UNCHANGED <<nodeVars, fdAlert, oprBlks, balances, runVars, store>>

Grader ==
  \/ ReceiveMinuteOne
  \/ SyncBlocks \/ SyncBlocksFails \/ SyncDone
  \/ ReadEmptyBlock \/ ReadStoredBlock \/ ReadNothing
  \/ FetchFromFactomd \/ FetchFails
  \/ SaveInvalidBlock \/ SaveBlock \/ SaveFails
  \/ PayWinner \/ PaidBlockParsed

Next == NextDBlock \/ Crash \/ Grader

Spec == Init /\ [][Next]_vars

(* The grader's goroutine runs whenever it can. A factomd or database call *)
(* that the initial sync retries for ever succeeds in the end; those made  *)
(* for an event may all fail.                                              *)
FairSpec ==
  /\ Spec
  /\ WF_vars(Grader)
  /\ SF_vars(~listening /\ SyncBlocks) /\ SF_vars(~listening /\ FetchFromFactomd)
  /\ SF_vars(~listening /\ SaveBlock) /\ SF_vars(~listening /\ SaveInvalidBlock)
-----------------------------------------------------------------------------
(***************************************************************************)
(* Properties.                                                             *)
(***************************************************************************)

(* Every variable holds a value of its kind.                               *)
TypeOK ==
  /\ chain \in Chains
  /\ dbht \in Nat \ {0} /\ head \in 0..Len(chain)
  /\ fdAlert \in Seq(Nat)
  /\ current \in 0..Len(chain) /\ target \in 0..Len(chain)
  /\ toParse \in Seq(1..Len(chain))
  /\ oprBlks \in Seq(OprBlock)
  /\ balances \in [Addrs -> Nat]
  /\ listening \in BOOLEAN
  /\ event \in Nat /\ tries \in 0..2
  /\ announced \in Message
  /\ pc \in {"idle", "sync", "next", "fetch", "save", "pay"}
  /\ oprblock \in OprBlock \cup {NoBlock}
  /\ place \in Int
  /\ store \in [Heights -> OprBlock \cup {NoBlock}]

(* The queue is the gap between the last parsed eblock and the target, in  *)
(* chain order: whatever failed, lagged or was retried, no eblock is       *)
(* skipped or parsed twice (EntryBlockSync's "blocks in between in order").*)
QueueIsGap ==
  /\ current <= target
  /\ toParse = [k \in 1..(target - current) |-> current + k]

Stored(i) == store[chain[i].DBHeight]
IsGraded(i) == Stored(i) # NoBlock /\ ~Stored(i).EmptyOPRBlock

(* The winners an OPR of eblock i must list, according to the store.       *)
StoredWinners(i) ==
  LET graded == {j \in 1..(i - 1) : IsGraded(j)}
  IN  IF graded = {} THEN <<>> ELSE Winners(Stored(Max(graded)))

(* The store's verdict b on eblock i is the one grading it gives.          *)
SameVerdict(b, i) ==
  LET regraded == FetchOPRBlock(chain[i], StoredWinners(i))
  IN  /\ b.Dbht = chain[i].DBHeight
      /\ b.EmptyOPRBlock = (regraded = NoBlock)
      /\ b.GradedOPRs = IF regraded = NoBlock THEN <<>> ELSE regraded.GradedOPRs

(* What the store holds is what grading the chain again would give, and it *)
(* holds a prefix of the chain: no verdict is written because of a failed  *)
(* call, against stale winners or out of order, and a restart that trusts  *)
(* the store (Sync's "try and fetch from disk") loses nothing.             *)
StoreIsRegradable ==
  \A i \in 1..Len(chain) : Stored(i) # NoBlock =>
     /\ \A j \in 1..i : Stored(j) # NoBlock
     /\ SameVerdict(Stored(i), i)

(* Eblocks whose block is in memory: those parsed, and the one being paid. *)
InMemory == IF pc = "pay" THEN current + 1 ELSE current

(* Memory agrees with the store: oprBlks holds the valid blocks of the     *)
(* parsed eblocks, each once, in order, with the stored graded list. This  *)
(* is what GetPreviousOPRBlock's scan from the end relies on.              *)
MemoryMatchesStore ==
  /\ \A i \in 1..InMemory :
       /\ Stored(i) # NoBlock
       /\ IsGraded(i) => \E k \in DOMAIN oprBlks : oprBlks[k].Dbht = chain[i].DBHeight
  /\ \A k \in DOMAIN oprBlks : \E i \in 1..InMemory :
       /\ IsGraded(i)
       /\ oprBlks[k].Dbht = chain[i].DBHeight
       /\ oprBlks[k].GradedOPRs = Stored(i).GradedOPRs
  /\ \A k, m \in DOMAIN oprBlks : k < m => oprBlks[k].Dbht < oprBlks[m].Dbht

(* The block on its way to the store is the verdict on the next eblock:    *)
(* graded just now or before a crash, read back or refetched, it is what   *)
(* the winners in the store ask for, and the one being paid is the newest. *)
InFlightIsNext ==
  /\ pc \in {"fetch", "save", "pay"} => toParse # <<>>
  /\ pc \notin {"save", "pay"} => oprblock = NoBlock
  /\ pc = "save" =>
       IF oprblock = NoBlock
       THEN FetchOPRBlock(chain[current + 1], StoredWinners(current + 1)) = NoBlock
       ELSE /\ ~oprblock.EmptyOPRBlock /\ SameVerdict(oprblock, current + 1)
            /\ oprblock.TotalNumberRecords \in
                 {0, FetchOPRBlock(chain[current + 1], StoredWinners(current + 1)).TotalNumberRecords}
  /\ IF pc = "pay"
     THEN /\ oprblock # NoBlock /\ oprblock = Stored(current + 1)
          /\ oprBlks # <<>> /\ oprblock = oprBlks[Len(oprBlks)]
          /\ place \in 0..MinRecords(oprblock.Dbht)
     ELSE place = -1

(* A verdict once written to the store is never changed: not by a crash    *)
(* between the write and BlockParsed, not by the rewrite of a block read   *)
(* back from disk, not by a refetch after a failed read.                   *)
VerdictsKept ==
  \A h \in Heights : store[h] # NoBlock =>
     /\ store'[h] # NoBlock
     /\ store'[h].EmptyOPRBlock = store[h].EmptyOPRBlock
     /\ store'[h].GradedOPRs = store[h].GradedOPRs
VerdictIsFinal == [][VerdictsKept]_store

(* With a head that does not lag, the winners sent for a height are those  *)
(* of the last valid OPR block below it, even if Sync was retried while    *)
(* later blocks appeared or the daemon had been restarted in between       *)
(* (Run: "Alert followers that we have graded the previous block").        *)
AnnouncedWinnersAreCurrent ==
  announced # NoMessage /\ ~announced.Error =>
    LET below == {i \in 1..Len(chain) : chain[i].DBHeight < announced.Dbht}
    IN  /\ \A i \in below : Stored(i) # NoBlock
        /\ announced.ToBePaid = StoredWinners(Cardinality(below) + 1)

(* Every balance is the sum of the rewards of the blocks in memory: after  *)
(* any crashes and retries each winner of each block was paid exactly once *)
(* (the block being paid up to its current place).                         *)
Rewards(a) ==
  {r \in (DOMAIN oprBlks) \X (1..(MinV1 + MinV2)) :
     /\ r[2] <= MinRecords(oprBlks[r[1]].Dbht)
     /\ pc = "pay" /\ r[1] = Len(oprBlks) => r[2] <= place
     /\ oprBlks[r[1]].GradedOPRs[r[2]].CoinbasePEGAddress = a}

WinnersPaidOnce ==
  \A a \in Addrs :
    balances[a] = Sum([r \in Rewards(a) |-> GetRewardFromPlace(r[2] - 1, oprBlks[r[1]].Dbht)])

(* The number of records of a stored block is the number of OPRs it was    *)
(* graded from ("it's nice to know how many existed before we cut it").    *)
TotalNumberRecordsKept ==
  \A i \in 1..Len(chain) : IsGraded(i) =>
     Stored(i).TotalNumberRecords =
       Cardinality(FetchOPRsFromEBlock(chain[i], StoredWinners(i)))

(* The grader implements the ledger: whatever is read back from disk,      *)
(* refetched, retried or lost, it behaves like a replica that grades the   *)
(* chain itself and never fails.                                           *)
Ledger == INSTANCE OracleLedger WITH
            settled <- current, blocks <- oprBlks
ImplementsLedger == Ledger!Spec

(* A minute-1 event the grader received is answered, with winners or with  *)
(* an error, unless the daemon dies: three tries bound the wait (Run).     *)
EventIsAnswered ==
  \A h \in 1..MaxHeight :
    (pc = "sync" /\ event = h) ~> (announced.Dbht = h \/ ~listening)

(* If the daemon stops dying, the initial sync ends and the grader listens *)
(* (Run's first loop), having settled the chain it saw.                    *)
InitialSyncEnds == <>[][~Crash]_vars => <>[]listening
=============================================================================
