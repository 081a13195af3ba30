------------------------------- MODULE Mining -------------------------------
(***************************************************************************)
(* The coordinator's loop (mining/coordinator.go), its miners              *)
(* (mining/miner.go) and the per-block entry writers (mining/              *)
(* entryWriter.go): goroutines that share command channels, list channels  *)
(* and a statistics channel per block.                                     *)
(*                                                                         *)
(* A block is numbered by its entry writer; block 0 is the writer the      *)
(* coordinator starts with. The coordinator sees some sequence of minute-1 *)
(* and minute-9 events (the other minutes change nothing), each as late as *)
(* it likes. A nonce keeps the OPR hash it was computed on, named by the   *)
(* block. Rankings are shared by pointer: a list is the object, not a copy.*)
(***************************************************************************)
EXTENDS Integers, Sequences, FiniteSets

CONSTANTS
  NumMiners,   \* Miner.NumberOfMiners
  Keep,        \* Miner.RecordsPerBlock, also the capacity of minerLists
  CommandCap,  \* capacity of a miner's command channel (10)
  MaxBlocks    \* bound: blocks mined

ASSUME MiningAssumption ==
  /\ NumMiners \in Nat \ {0} /\ Keep \in Nat \ {0}
  /\ CommandCap \in Nat \ {0} /\ MaxBlocks \in Nat

Miners == 1..NumMiners
Blocks == 0..MaxBlocks

VARIABLES
  \* MiningCoordinator
  cpc,        \* where LaunchMiners is
  mining,     \* its flag
  block,      \* the block of FactomEntryWriter and statsAggregate
  next,       \* the miner the next command goes to
  cm,         \* stats received for the block
  groupStats, \* the miners they came from
  \* PegnetMiner
  commands,   \* command channel per miner
  mpc,        \* where Mine is
  oprhash, writer, rankings, paused,
  list,       \* the nonces of each miner's list of each block
  \* EntryWriter, per block
  added,      \* miners in the order of AddMiner
  minerLists, \* channel of lists, by owner
  aggregate,  \* lists received, by owner
  wpc,        \* where collectAndWrite is
  statsAggregate, \* channel of stats, by owner
  cancelled   \* the context

coordVars  == <<cpc, mining, block, next, cm, groupStats>>
minerVars  == <<mpc, oprhash, writer, rankings, paused, list>>
writerVars == <<added, minerLists, aggregate, wpc>>
vars == <<cpc, mining, block, next, cm, groupStats, commands, mpc, oprhash, writer, rankings,
          paused, list, added, minerLists, aggregate, wpc, statsAggregate, cancelled>>

Init ==
  /\ cpc = "wait" /\ mining = FALSE /\ block = 0 /\ next = 1
  /\ cm = 0 /\ groupStats = {}
  /\ commands = [m \in Miners |-> <<>>]
  /\ mpc = [m \in Miners |-> "init"]
  /\ oprhash = [m \in Miners |-> 0]
  /\ writer = [m \in Miners |-> 0]
  /\ rankings = [m \in Miners |-> 0]
  /\ paused = [m \in Miners |-> FALSE]
  /\ list = [m \in Miners |-> [b \in Blocks |-> {}]]
  /\ added = [b \in Blocks |-> <<>>]
  /\ minerLists = [b \in Blocks |-> <<>>]
  /\ aggregate = [b \in Blocks |-> {}]
  /\ wpc = [b \in Blocks |-> "open"]
  /\ statsAggregate = [b \in Blocks |-> <<>>]
  /\ cancelled = FALSE
-----------------------------------------------------------------------------
(***************************************************************************)
(* LaunchMiners. A minute 1 without entry credits, while mining, or whose  *)
(* OPR could not be made changes nothing.                                  *)
(***************************************************************************)
MinuteOne ==
  /\ cpc = "wait" /\ ~mining
  /\ block < MaxBlocks
  /\ mining' = TRUE
  /\ block' = block + 1
  /\ cpc' = "start" /\ next' = 1
  /\ UNCHANGED <<cm, groupStats, commands, minerVars, writerVars, statsAggregate, cancelled>>

(* SendCommand to one miner after the other.                               *)
SendTo(name) ==
  /\ cpc = name
  /\ Len(commands[next]) < CommandCap
  /\ commands' = [commands EXCEPT ![next] = Append(@, [name |-> name, block |-> block])]
  /\ next' = next + 1

SendStart ==
  /\ SendTo("start")
  /\ cpc' = IF next = NumMiners THEN "wait" ELSE "start"
  /\ UNCHANGED <<mining, block, cm, groupStats, minerVars, writerVars, statsAggregate,
                 cancelled>>

MinuteNine ==
  /\ cpc = "wait" /\ mining
  /\ mining' = FALSE
  /\ cpc' = "submit" /\ next' = 1
  /\ UNCHANGED <<block, cm, groupStats, commands, minerVars, writerVars, statsAggregate,
                 cancelled>>

SendSubmit ==
  /\ SendTo("submit")
  /\ cpc' = IF next = NumMiners THEN "write" ELSE "submit"
  /\ UNCHANGED <<mining, block, cm, groupStats, minerVars, writerVars, statsAggregate,
                 cancelled>>

(* CollectAndWrite, once per writer, starts collectAndWrite.               *)
CollectAndWrite ==
  /\ cpc = "write"
  /\ wpc' = [wpc EXCEPT ![block] = IF @ = "open" THEN "collect" ELSE @]
  /\ cpc' = "stats" /\ cm' = 0 /\ groupStats' = {}
  /\ UNCHANGED <<mining, block, next, commands, minerVars, added, minerLists, aggregate,
                 statsAggregate, cancelled>>

(* The stats loop that stops one short, for the mutation runs.             *)
CollectStatsEarly ==
  /\ cpc = "stats" /\ statsAggregate[block] # <<>>
  /\ groupStats' = groupStats \cup {Head(statsAggregate[block])}
  /\ statsAggregate' = [statsAggregate EXCEPT ![block] = Tail(@)]
  /\ cm' = cm + 1
  /\ cpc' = IF cm' >= NumMiners - 1 THEN "wait" ELSE "stats"
  /\ UNCHANGED <<mining, block, next, commands, minerVars, writerVars, cancelled>>

(* One miner's stats arrive; the last send the group's to the tracker.     *)
CollectStats ==
  /\ cpc = "stats" /\ statsAggregate[block] # <<>>
  /\ groupStats' = groupStats \cup {Head(statsAggregate[block])}
  /\ statsAggregate' = [statsAggregate EXCEPT ![block] = Tail(@)]
  /\ cm' = cm + 1
  /\ cpc' = IF cm' = NumMiners THEN "wait" ELSE "stats"
  /\ UNCHANGED <<mining, block, next, commands, minerVars, writerVars, cancelled>>

(* The context is cancelled; the coordinator notices between two events.   *)
Cancel ==
  /\ ~cancelled /\ cancelled' = TRUE
  /\ UNCHANGED <<coordVars, commands, minerVars, writerVars, statsAggregate>>

CoordinatorCancelled ==
  /\ cancelled /\ cpc = "wait"
  /\ cpc' = "done"
  /\ UNCHANGED <<mining, block, next, cm, groupStats, commands, minerVars, writerVars,
                 statsAggregate, cancelled>>
-----------------------------------------------------------------------------
(***************************************************************************)
(* A miner. It reads a command between two nonces, or waits for one when   *)
(* it is paused or has not yet started.                                    *)
(***************************************************************************)
Command1(m) == commands[m][1]
Reads(m, name) ==
  /\ mpc[m] \in {"init", "run"} /\ commands[m] # <<>>
  /\ Command1(m).name = name
  /\ commands' = [commands EXCEPT ![m] = Tail(@)]

(* The start batch without ResetRecords, for the mutation runs.            *)
StartWithoutReset(m) ==
  LET b == Command1(m).block IN
  /\ Reads(m, "start")
  /\ added' = [added EXCEPT ![b] = Append(@, m)]
  /\ writer' = [writer EXCEPT ![m] = b]
  /\ oprhash' = [oprhash EXCEPT ![m] = b]
  /\ paused' = [paused EXCEPT ![m] = FALSE]
  /\ mpc' = [mpc EXCEPT ![m] = "run"]
  /\ UNCHANGED <<coordVars, rankings, list, minerLists, aggregate, wpc, statsAggregate,
                 cancelled>>

(* A start batch that registers its miner twice, for the mutation runs.    *)
StartTwice(m) ==
  LET b == Command1(m).block IN
  /\ Reads(m, "start")
  /\ added' = [added EXCEPT ![b] = @ \o <<m, m>>]
  /\ writer' = [writer EXCEPT ![m] = b]
  /\ rankings' = [rankings EXCEPT ![m] = b]
  /\ oprhash' = [oprhash EXCEPT ![m] = b]
  /\ paused' = [paused EXCEPT ![m] = FALSE]
  /\ mpc' = [mpc EXCEPT ![m] = "run"]
  /\ UNCHANGED <<coordVars, list, minerLists, aggregate, wpc, statsAggregate, cancelled>>

(* The batch of minute 1: RecordAggregator (AddMiner), StatsAggregator,    *)
(* ResetRecords, NewOPRHash, MinimumAccept, ResumeMining.                  *)
Start(m) ==
  LET b == Command1(m).block IN
  /\ Reads(m, "start")
  /\ added' = [added EXCEPT ![b] = Append(@, m)]
  /\ writer' = [writer EXCEPT ![m] = b]
  /\ rankings' = [rankings EXCEPT ![m] = b]
  /\ oprhash' = [oprhash EXCEPT ![m] = b]
  /\ paused' = [paused EXCEPT ![m] = FALSE]
  /\ mpc' = [mpc EXCEPT ![m] = "run"]
  /\ UNCHANGED <<coordVars, list, minerLists, aggregate, wpc, statsAggregate, cancelled>>

(* The batch of minute 9: SubmitNonces sends the list, then the stats,     *)
(* then PauseMining.                                                       *)
ReadSubmit(m) ==
  /\ Reads(m, "submit")
  /\ mpc' = [mpc EXCEPT ![m] = "submit"]
  /\ UNCHANGED <<coordVars, oprhash, writer, rankings, paused, list, writerVars,
                 statsAggregate, cancelled>>

SubmitNonces(m) ==
  /\ mpc[m] = "submit"
  /\ Len(minerLists[writer[m]]) < Keep
  /\ minerLists' = [minerLists EXCEPT ![writer[m]] = Append(@, [miner |-> m, list |-> rankings[m]])]
  /\ mpc' = [mpc EXCEPT ![m] = "stats"]
  /\ UNCHANGED <<coordVars, commands, oprhash, writer, rankings, paused, list, added,
                 aggregate, wpc, statsAggregate, cancelled>>

(* The batch without PauseMining, for the mutation runs.                   *)
SendStatsUnpaused(m) ==
  /\ mpc[m] = "stats"
  /\ Len(statsAggregate[writer[m]]) < NumMiners
  /\ statsAggregate' = [statsAggregate EXCEPT ![writer[m]] = Append(@, m)]
  /\ mpc' = [mpc EXCEPT ![m] = "run"]
  /\ UNCHANGED <<coordVars, commands, oprhash, writer, rankings, paused, list, writerVars,
                 cancelled>>

SendStats(m) ==
  /\ mpc[m] = "stats"
  /\ Len(statsAggregate[writer[m]]) < NumMiners
  /\ statsAggregate' = [statsAggregate EXCEPT ![writer[m]] = Append(@, m)]
  /\ paused' = [paused EXCEPT ![m] = TRUE]
  /\ mpc' = [mpc EXCEPT ![m] = "run"]
  /\ UNCHANGED <<coordVars, commands, oprhash, writer, rankings, list, writerVars, cancelled>>

(* A nonce good enough for the list.                                       *)
AddNonce(m) ==
  /\ mpc[m] = "run" /\ ~paused[m]
  /\ list' = [list EXCEPT ![m][rankings[m]] = @ \cup {oprhash[m]}]
  /\ UNCHANGED <<coordVars, commands, mpc, oprhash, writer, rankings, paused, writerVars,
                 statsAggregate, cancelled>>

MinerCancelled(m) ==
  /\ cancelled /\ mpc[m] \in {"init", "run"}
  /\ mpc' = [mpc EXCEPT ![m] = "done"]
  /\ UNCHANGED <<coordVars, commands, oprhash, writer, rankings, paused, list, writerVars,
                 statsAggregate, cancelled>>
-----------------------------------------------------------------------------
(***************************************************************************)
(* collectAndWrite of one block's writer. The loop compares the lists it   *)
(* has with w.miners, read without the lock: the miners that have          *)
(* registered by then, not those the coordinator has sent commands to.     *)
(***************************************************************************)
(* A loop that stops one list short, for the mutation runs.                *)
GatherListEarly(b) ==
  /\ wpc[b] = "collect" /\ minerLists[b] # <<>>
  /\ aggregate' = [aggregate EXCEPT ![b] = @ \cup {Head(minerLists[b])}]
  /\ minerLists' = [minerLists EXCEPT ![b] = Tail(@)]
  /\ wpc' = [wpc EXCEPT ![b] = IF Cardinality(aggregate'[b]) >= Len(added[b]) - 1
                               THEN "write" ELSE "collect"]
  /\ UNCHANGED <<coordVars, commands, minerVars, added, statsAggregate, cancelled>>

GatherList(b) ==
  /\ wpc[b] = "collect" /\ minerLists[b] # <<>>
  /\ aggregate' = [aggregate EXCEPT ![b] = @ \cup {Head(minerLists[b])}]
  /\ minerLists' = [minerLists EXCEPT ![b] = Tail(@)]
  /\ wpc' = [wpc EXCEPT ![b] = IF Cardinality(aggregate'[b]) = Len(added[b])
                               THEN "write" ELSE "collect"]
  /\ UNCHANGED <<coordVars, commands, minerVars, added, statsAggregate, cancelled>>

(* The lists are merged and the best records written.                      *)
WriteBlock(b) ==
  /\ wpc[b] = "write"
  /\ wpc' = [wpc EXCEPT ![b] = "written"]
  /\ UNCHANGED <<coordVars, commands, minerVars, added, minerLists, aggregate, statsAggregate,
                 cancelled>>

Coordinator ==
  SendStart \/ SendSubmit \/ CollectAndWrite \/ CollectStats \/ CoordinatorCancelled

Miner(m) ==
  Start(m) \/ ReadSubmit(m) \/ SubmitNonces(m) \/ SendStats(m) \/ MinerCancelled(m)

Writer(b) == GatherList(b) \/ WriteBlock(b)

Next ==
  \/ MinuteOne \/ MinuteNine \/ Cancel \/ Coordinator
  \/ \E m \in Miners : Miner(m) \/ AddNonce(m)
  \/ \E b \in Blocks : Writer(b)

Spec == Init /\ [][Next]_vars

(* Every goroutine that can take a step takes one; the minutes need not    *)
(* come and nonces need not be found.                                      *)
FairSpec ==
  /\ Spec
  /\ WF_vars(Coordinator)
  /\ \A m \in Miners : WF_vars(Miner(m))
  /\ \A b \in Blocks : WF_vars(Writer(b))
-----------------------------------------------------------------------------
Received(b) == aggregate[b] \cup {minerLists[b][k] : k \in DOMAIN minerLists[b]}

(* A list a block's writer receives holds only nonces computed on that     *)
(* block's OPR hash, whatever command was late: nothing mined for one OPR  *)
(* is written with another (writeMiningRecord pairs nonce and template).   *)
NoncesMatchOPR ==
  \A b \in Blocks : \A l \in Received(b) : list[l.miner][l.list] \subseteq {b}

(* A list a miner has submitted never changes again: the writer merges and *)
(* sorts it without a lock, through the pointer the miner still holds.     *)
SubmittedListIsFrozen ==
  [][\A b \in Blocks : \A l \in Received(b) :
        list'[l.miner][l.list] = list[l.miner][l.list]]_vars

(* The minute-9 barrier: when the coordinator is between two blocks, every *)
(* miner has answered for the last one and has no command left, and the    *)
(* block's stats came from each miner once. No command channel ever holds  *)
(* more than the two batches of one block, so SendCommand never blocks.    *)
BlocksDoNotOverlap ==
  /\ cpc = "wait" /\ ~mining /\ block > 0 =>
       /\ groupStats = Miners /\ statsAggregate[block] = <<>>
       /\ \A m \in Miners : mpc[m] # "done" => commands[m] = <<>> /\ paused[m]
  /\ \A m \in Miners : Len(commands[m]) <= 2

(* A writer stops with one list of each miner that had registered when its *)
(* last list came in, the first of them in the order of AddMiner, and with *)
(* no other: a miner is left out of a block only by registering after all  *)
(* the miners before it had submitted (collectAndWrite compares with       *)
(* w.miners, which AddMiner may still raise).                              *)
LeftOutAreLate ==
  \A b \in Blocks : wpc[b] \in {"write", "written"} =>
     {l.miner : l \in aggregate[b]} = {added[b][k] : k \in 1..Cardinality(aggregate[b])}

(* "AddMiner will add a miner to listen to for this block": the minute-9   *)
(* handler ends. Every miner hands in its list and its stats and the       *)
(* coordinator takes events again, unless the context is cancelled.        *)
MinuteNineEnds == cpc = "submit" ~> (cpc = "wait" \/ cancelled)

(* Every block handed to its writer is written, unless cancelled.          *)
EveryBlockIsWritten ==
  \A b \in Blocks : wpc[b] = "collect" ~> (wpc[b] = "written" \/ cancelled)
=============================================================================
