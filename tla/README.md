# PegNet in TLA+

Models of PegNet's own logic: the OPR grader with its block store, the records
and the two implementations of their grading, the mining coordinator with its
miners and entry writers, network mining, staking, the polling of prices, and the
arithmetic of conversions, burns and nonces. TLC checks small instances. For every
value of the constants TLAPS proves all the safety properties of the passing runs
but four: three compare the results of gradings, one is about rounded floats (see
Proofs).

## The system

A PegNet daemon (`src/cmd`) watches a factomd node. Once per block of ten
minutes it polls prices, its miners write *oracle price records* (OPRs) to a
chain, and the grader of every daemon reads that chain, keeps the OPRs that list
the previous block's winners, grades them and pays the best. Ledgers built on
PegNet use the grading, staking and conversion libraries under `src/modules`. The
parts, the state they keep and how they interact:

| Part | State | Operations | Talks to |
|---|---|---|---|
| `common.Monitor` | last minute seen, listeners (channels of 10) | poll, notify (drops when full) | grader, coordinators |
| `opr.EntryBlockSync` | current, target, queue of eblocks | SyncBlocks, NextEBlock, BlockParsed | factomd; used by the grader |
| `opr.QuickGrader` | graded blocks, alert channels | Run, Sync, FetchOPRBlock, GetAlert | store, balances, listeners |
| `opr.OPRBlockStore` | verdict per height on disk | WriteOPRBlock, FetchOPRBlock | LevelDB |
| `opr` records and grading | none (pure) | NewOpr, CreateOPREntry, ParseOPREntry, GradeMinimum | coordinator, grader |
| `modules/grader`, `modules/graderStake` | the records added so far | NewGrader, AddOPR or AddSPR, Grade | ledgers of others |
| `balances` | balance per address, burn height | AddToBalance, UpdateBurns | grader, factomd |
| `mining.MiningCoordinator` | mining flag, current writer, stats channel | minute 1, minute 9 | monitor, grader, miners, writers |
| `mining.PegnetMiner` | OPR hash, nonce, nonce list, paused | HandleCommand, Mine | command, list and stats channels |
| `mining.EntryWriter` | registered miners, list channel, template | AddMiner, CollectAndWrite | miners, factomd |
| `opr.NonceRanking` | slots, worst difficulty and index | AddNonce, GetNonces, merge | miner, writer |
| `networkMiner` | accepted clients, mining flag, channels both ways | ForwardMonitorEvents, Listen, reconnect | coordinator over TCP |
| `mining.GlobalStatTracker` | buckets per height | InsertStats | coordinator, network server |
| `staking` | staking flag, commands, writers | minutes 1 and 8, CollectAndWrite | monitor, factomd |
| `polling` | sources by priority, a cache per service, a cache per pull | PullAllPEGAssets, PullBestPrice | price services; NewOpr, NewSpr |
| `modules/conversions`, `transactionid` | requests of a block | AddConversion, Payouts, Refund, Convert | ledgers of others |
| `api`, `controlPanel`, `cmd` | views | I/O | |

What is hard: a crash between two writes, a call that fails half way and is
retried while the chain grows, a head that lags, a verdict on disk that must stay
what grading would give, goroutines that meet only through bounded channels,
lists shared by pointer, a message whose height is implied by its arrival, events
dropped or notified twice, a connection that breaks, a cache that runs out in the
middle of a pull, rules implemented twice, rounding. What makes the parts
correct: no eblock or burn skipped or paid twice; disk, memory and balances
agree; nonces stay with their OPR; every handler ends; an OPR lists the winners
of its own block and both graders accept it; a bank is spent to the unit.
`hazards` in PROJECT.json lists each at its line.

## Modules

| Module | Models | Notes |
|---|---|---|
| `OPRBlocks` | entries, eblocks, OPR blocks; MinRecords, GetPreviousOPRBlock, VerifyWinners, FetchOPRBlock, ToOPRBlock | `GradeMinimum` and `GetRewardFromPlace` are constants: any grading, any rewards |
| `OracleLedger` | what the grader promises: each eblock settled once, in order | abstract: no failures, no disk |
| `GraderSync` | EntryBlockSync, QuickGrader.Run and Sync, the store, the balances | extends OPRBlocks; refines OracleLedger |
| `GraderSyncMC` | eleven chains, a grading function and rewards for TLC | |
| `GraderSyncProofs` | theorems about GraderSync, the refinement included | |
| `ParallelFetch` | the workers and the collector of ParallelFetchOPRsFromEBlock | the inside of GraderSync's fetch step |
| `PriceRecords` | OPRs: activation heights, asset lists, addresses, NewOpr, encodings, CreateOPREntry, ParseOPREntry | operators only |
| `GradingMath`, `Grading` | opr/grading.go | operators only |
| `BlockGrader`, `StakeGrader` | modules/grader; spr/spr.go and modules/graderStake | operators only |
| `OracleChain`, `OracleChainMC`, `OracleChainProofs` | blocks of OPRs and SPRs through all versions, graded by both implementations | composes the five above with OPRBlocks; a theorem on the payment of stakers |
| `Mining`, `MiningProofs` | LaunchMiners, PegnetMiner, EntryWriter | |
| `NonceRanking` | aggregator.go and its use | |
| `Nonces` | NonceIncrementer, difficulty.go | floats of `Precision` bits, with their rounding |
| `WinnerAlerts`, `WinnerAlertsProofs` | monitor, grader and coordinator seen from the winners' channel | |
| `NetworkMiner`, `NetworkMinerProofs` | server, connection, client, BlockingOPRMaker, statistics buckets | |
| `Staking` | monitor, coordinator, staker, writers | |
| `DataSources`, `Polling`, `PollingMC` | the price services; caches, priorities and the choice of a price | |
| `Conversions`, `BurnTracking` | modules/conversions with transactionid; balances/burns.go | |
| `BlocksMC`, `AlgorithmsMC`, `ProcessesMC` | components that share nothing, one moving per behaviour | BlocksMC: Mining, OracleChain; AlgorithmsMC: NonceRanking, Nonces, Conversions, BurnTracking, Polling; ProcessesMC: NetworkMiner, Staking, ParallelFetch |
| `AlgorithmsProofs` | theorems about NonceRanking, Nonces, BurnTracking, Conversions, Polling | |
| `ProcessesProofs` | theorems about Staking, ParallelFetch | |
| `Sums`, `Sorting` | the sum of a map or list, and Go's stable sort as the rank of each place | used by the arithmetic and by the statistics |
| `CommonLemmas` | facts about naturals, channels, sums and sorts | used by the proofs |

**GraderSync.** `pc` is where the grader is: `sync` (in SyncBlocks), `next` (top
of Sync's loop), `fetch`, `save`, `pay`, `idle` (waiting in Run). Each external
call of the loop is an action with its failure beside it. A failed store read is
`ReadNothing`: the code drops that error and refetches. `SyncFails` is every
`return err` of Sync with what Run does about it; `SyncSucceeds` is the nil
return. `Crash` may happen at any step and clears everything but the store. The
environment, `NextDBlock`, completes a directory block and may or may not deliver
the minute-1 event. An eblock is named by its place in the chain; an entry is
reduced to its hash, its address, the winners it lists and whether
`ParseOPREntry` accepts it. `SyncBlocks` is one step, since a failure of any of
its calls leaves the queue as it was.

**ParallelFetch.** The caller, the workers and the collector are processes that
meet at two bounded channels, a wait group and a few shared variables. What a
worker finds out about an entry (an OPR with the right winners, something else, an
error) is a choice. `SortByOrder`, the sort of the answers at the end, is any
rearrangement in ascending order (there is one: lemma SortedByOrder). FetchIsSequential is what lets GraderSync treat the fetch as one
step that either gives the OPRs in entry order or fails.

**OracleChain.** Miners are named with the prices they report; an entry is what
CreateOPREntry makes of NewOpr's record, or that entry damaged in one way a check
looks for. Each entry goes to the daemon (ParseOPREntry, VerifyWinners) and to the
library (AddOPR), and they need not agree on it: the version-1 library looks neither
at addresses nor for unlisted assets, and from version 2 on the daemon takes a list
of fewer winners. At the end of a block both grade what they kept, and the winners
of each are what its next block asks for. `InStep` says that the two begin a block
with the same previous winners, which is where a comparison makes sense. Then the
block's SPRs are added and graded. A JSON
price is a float of twice the precision the daemon keeps, so encoding is not the
identity; averages are fractions and grades integers of one denominator, so no
float decides a tie. A hash, an address and a key are names; an address has the
damage its check can find.

**Mining.** A block is numbered by its writer. The commands the coordinator sends
come in two batches, so a command channel holds `start` and `submit` records;
`Start` is the whole minute-1 batch. The minute-9 batch blocks twice (the list
channel, the stats channel) and is three actions. A list is an object named by
miner and block, shared by pointer, whose nonces are named by the OPR hash they
were computed on. `w.miners` is the length of `added[b]`, read without the lock as
in the code. Writing the records to factomd (a retried commit and reveal) is one
step: nothing waits for it. `EntryWriter.Cancel` has no caller and is left out.

**NonceRanking, Nonces.** Slots hold difficulties. The list holds the taken slots
only. The own minimum of a ranking is 0 everywhere in the program and is left out.
A nonce is a sequence of bytes with `Base` values. The floor is computed as in the
code, one rounded operation after the other: a float is a fraction cut to
`Precision` bits (nearest, ties to even), in a space of `Space` difficulties that
need more bits than that, as 64 are more than 53. A difficulty that rounds to the
end of the space divides by zero and the code panics: there is no floor. A result
below zero or past the end is converted to uint64 to any of the values that
compilers and machines make of it.

**WinnerAlerts.** `failures`, one of `FaultSets`, is what may go wrong in a
behaviour: no entry credits, a minute that passes between two polls, a listener a
whole channel behind, a grader still in its initial sync when the coordinator
starts. Sync failing three times and NewOpr failing after it took its message are
always possible.

**NetworkMiner.** Server and client are loops over channels; the connection is two
queues that a break empties. The handshake (greeting, challenge, acceptance) is
played in full, with the right secret, a wrong one and none asked for. The timing
of the code's world, minutes against milliseconds, is the guard `Settled` of
NextMinute: what can be handled is handled before the next minute 1. Anything may
still come in any order within a block, and a fault (a break, one in the middle of
the answer to the challenge, which ends Listen for good, an unfunded minute 1, a
NewOpr or an entry write of the server that fails) may come anywhere. Other clients
of the server touch this one only in the buckets of the statistics:
`OtherStatistics` sends those of another connection for any height so far, before,
with or after this client's.

**Staking.** The monitor polls a node whose minutes it may miss; an error makes it
forget the minute and notify it again. A writer is a process that writes one entry
per address with bounded retries while the coordinator goes on.

**Polling.** Configurations, right and wrong, are choices of the initial state. An
answer is the market as a service sees it: at a level (services that agree give the
same), with some assets not listed and some at zero. Asked for an asset its answer
does not hold, a service is passed over like one that failed; Kitco fails as a whole
when a metal is missing; a service of exchange rates lists nothing worth zero. The
sources of an asset are the enabled services in the stable order of their
priorities, or the override, which may name anything. The
asset groups and the names a service uses for them are cut to one or two members,
with every oddity of the code kept (rates the wrong way round, symbols with a
suffix, ids, defaults). TrimmedMean sorts the quotes it is given, as the code does.

**Conversions, BurnTracking.** Requests are added one by one, with every error of
AddConversion, then paid and refunded; the order in which Go walks the map is a
parameter. UpdateBurns is one action per call to factomd, each of which may fail;
a restart forgets height and balances together.

## Runs

| Run | Bounds | Shows |
|---|---|---|
| `grader_lag` | eleven chains of 2 or 3 eblocks, 5 heights, head lag 1, 2 pending events | QueueIsGap, StoreIsRegradable, MemoryMatchesStore, WinnersPaidOnce, VerdictIsFinal, ImplementsLedger |
| `grader_run` | the same chains, no lag | AnnouncedWinnersAreCurrent, EventIsAnswered, InitialSyncEnds |
| `grader_totals` | as grader_lag | violation of TotalNumberRecordsKept |
| `blocks` | mining: 2 miners, 1 list slot, 2 blocks. Chain: 6 heights, 4 OPRs a block, 4 SPRs at the first three heights (one per staking version), 4 miners, 5 stakers, 16 kinds of damage; 1 and 2 winners, graded on 3 | NoncesMatchOPR, BlocksDoNotOverlap, LeftOutAreLate, SubmittedListIsFrozen, EveryBlockIsWritten; OwnRecordsAreAccepted, GradersGradeAlike, GradingPeelsTheFurthest, StakersArePaidOnce |
| `mining_blocks` | 3 miners, 1 list slot, 1 block | violation of MinuteNineEnds |
| `alerts` | minutes 1 and 2, channels of 3 and 2, 4 heights, four sets of faults | WinnersFromPriorBlock, SubmittedAtItsHeight, NewOPREnds, WinnersAdvance |
| `alerts_unfunded` | the same, one fault | violation of OPRListsPriorWinners |
| `graders_differ` | the chain part from version 3 on, 3 heights, records with a winner left out | violation of GradersAgree |
| `algorithms` | ranking: 2 miners, 2 slots, 3 difficulties, 4 nonces each. Conversions: 3 requests. Burns: 6 blocks, 5 calls. Nonces: 10 of 3 miners, bytes of 3 values; 10 lists of difficulties below 1024 in floats of 7 bits. Polling: 10 configurations, 2 pulls, 2 odd answers of 2 kinds, 1 expiry. | WorstIsWorst, WritesTheBest; PayoutsSpendTheBank, ConversionsCreateNoValue; BurnsCreditedOnce; MinersSearchApart, FloorFollowsTheCutoff; OneFreshAnswerPerPull, OneOutlierDoesNotWin, EveryAssetIsPriced |
| `polling_priority` | the polling part | violation of PriorityOrderIsKept |
| `processes` | network: 3 blocks, 1 fault (or one message of another client), 2 buckets. Staking: 2 blocks, 2 addresses, 2 tries, 1 failed poll. Fetch: 4 entries, 2 workers, channels of 2 | MinedOPRIsCurrent, StatsKeepTheNewest, DeliveredIsMined; OneWriterPerBlock, WritersEnd; FetchIsSequential, NoUseAfterClose, FetchEnds |
| `network_starts` | the network part | violation of StartsOnEverySignal |

`blocks`, `algorithms` and `processes` put components side by side that share no
state. A behaviour chooses one and moves only it, so its states are those of the parts
added up, and a property of one part is checked as in a run of its own.

*Why the bounds are enough.* The chains of the grader hold a valid and an invalid
first block, a block whose OPRs list the right, the wrong and no winners, junk, a
block that loses a dishonest record in grading, the change from version 1 to 2 and
a gap in heights; three eblocks are one more than a verdict depends on. One eblock
of lag reaches both outcomes of the walk (it meets the target or runs to the first
eblock). Crashes are unbounded. Two miners are what a race between registering and
collecting takes (three and a list channel of one what it takes to block a miner, in
`mining_blocks`), two blocks what carrying something over takes, and the command
bound of 2 is never exceeded (BlocksDoNotOverlap), so the code's 10 is no
different. `alerts` shrinks a block to its two significant minutes so that channels
overflow within four heights. The chain part has one height per version and two of the
first; four entries exceed what is graded (3), which exceeds the winners (2), so
every cut is made, with ties in price and a dishonest difficulty. Four nonces
overfill two slots twice; three difficulties give ties and strict orders. Three
requests are what a tie between two and a third beside it takes; the banks are
empty, short and ample. Ten nonces make a base-3 counter wrap twice.
The lists of difficulties hold places that a float of 7 bits holds and that it does
not, next to the top of the space (a zero division) and so low that the estimate is
negative. One odd view of the market is a hundredth of it, which cutting to four
decimals takes to nothing, with assets not listed; the other lists some at zero. Four fetched
entries are twice what a channel holds, so every send blocks in some behaviour. One fault in three
blocks is a block before it, the block it hits and a block to recover in.

Runs that switch deadlock checking off do so because the bounded environment
stops (no more blocks, nonces or heights) and, in `Mining` and `Staking`, because a
cancelled daemon stops.

*Assumed in the models.* NetworkMiner assumes the timing `Settled`, so an answer of
the grader that comes a whole block late is out of its reach, and that the server's
monitor loses neither minute 1 nor minute 9 (WinnerAlerts and Staking let theirs
lose minutes): without its minute 9 a client mines on into the next block and does
not start there. Only these two minutes are in the model; the others, which the
server forwards too and which renew the height it pairs with the winners, are what a
model of lost minutes would have to add. GradersGradeAlike states its two exceptions itself: version 1 that
ends without a winner ever, and version 2 without a list of its own length; there
the library and the daemon stand at lists of different lengths. PayoutsSpendTheBank compares map orders only when the tied
txids differ as index and hash. DeliveredIsMined excepts behaviours in which an
OPR was missed, which `network_starts` is about.

*Fairness.* GraderSync: weak fairness of the grader's goroutine; strong fairness
of SyncBlocks, the fetch and the two saves of the initial sync, that is, a factomd
or database call retried for ever succeeds in the end; the calls made for an event
may all fail, and EventIsAnswered rests on Run's three tries. Without it a daemon
cut off from factomd rightly never leaves its initial sync. All others: weak
fairness of each goroutine, which the Go scheduler gives; minutes need not come,
nonces need not be found and calls need not succeed. In NetworkMiner all loops of
one process share one fairness condition.

*Disagreements found.*

1. `grader_totals`: `TotalNumberRecords` becomes 0 on disk after a restart:
   ToOPRBlock does not restore it and Sync stores what it has read.
2. `mining_blocks`: a writer may stop before every miner's list is in, since it
   compares with the miners registered so far (LeftOutAreLate says exactly whose
   lists it has). When more than `Keep` lists are left over, a miner blocks in
   SubmitNonces and the coordinator with it, for ever: three miners and one record,
   or five and the default of three. The comment on AddMiner promises each miner a
   writer that listens.
3. `alerts_unfunded`: a message carries no height. A block sat out for want of
   entry credits shifts the pairing of winners and heights, and it stays shifted; a
   coordinator started while the grader is still in its initial sync does the same
   (opr.go:366).
4. `polling_priority`: the mean of the version-5 band sorts the quotes themselves,
   so the lowest quote in the band is taken and not the first in priority.
5. `network_starts`: a client that missed one OPR refuses the next one too.
6. `graders_differ`: from version 2 on the daemon compares the winners an OPR lists
   only as far as its list goes (grading.go:331-339) and Validate does not look at
   its length, while the library and its tests ask for exactly 25. A record with a
   shorter list is graded, and may be paid, by one and not by the other.
   GradersGradeAlike says what remains true: the daemon keeps all that the library
   keeps (in version 1 the other way round), and from the same records both make the
   same winners and payments.

Met while modelling, without a run: the comments at conversionlimit.go:129 and :148
give the dust of a tie to the highest entry hash, SortTxIDS puts the lowest first;
graderStake/baseGradedBlock.go:45-46 says that an SPR is a duplicate "when both nonce
and sprhash are the same", the code below it compares the payout address only, so of
two different SPRs of one address the second is dropped (StakersArePaidOnce is about
what the code does, and its mutant is the comment's reading); spr.go:248-249 returns a
nil error with a nil entry; the version-1 library looks neither at addresses nor for
unlisted assets; a service that failed
is called again for the next asset, although assets.go:284 says one call per pull;
the short hashes of the staking winners are always empty.

## Proofs

All theorems hold for every value of the constants: every chain, any grading
function and rewards of the right type, any head lag, any number of miners, blocks,
entries, workers, minutes, addresses and retries, any set of conversions, any
market. They assume only the named ASSUMEs of the modules they extend, which TLC
evaluates in the runs. Most say that a bound is a natural, or positive, or that a
list has elements of its type. Five say more. `ChainsAssumption`: the heights of
a chain grow and grading returns some of the OPRs it is given. `NilAssumption` and
`NothingAssumption` keep Go's nil apart from real values. `CapacityAssumption`
(WinnerAlerts): an event channel holds no more than the events of one block and
the alert channel at least two messages; both have 10 places in the code and a
block has minutes 0 to 9. `PollingAssumption`: the market's prices, at each level
a service may see it at, are positive integers in a unit so small that an inverted
rate is one too (so that no float decides a comparison); what a service lists may
lack any of them, or have any at zero. TypeOK,
InFlightIsNext and the other parts of the inductive invariants are stated only in
the proof modules: no run lists them, since the theorems cover every instance. They
were checked with TLC before they were proved.

Every proof has the same shape: a conjunction of named parts is shown to hold
initially and to be kept by each action (one lemma per action), and the properties
follow from it.

* **GraderSync.** `GraderInvariant`: `GraderInv`, the conjunction of TypeOK,
  QueueIsGap, StoreIsRegradable, MemoryMatchesStore and InFlightIsNext, is
  inductive. None of the parts is so alone. A store write keeps StoreIsRegradable
  only if the block in flight is the verdict the *stored* winners ask for
  (InFlightIsNext). That holds when the block is fetched because the winners in
  memory are the stored ones (MemoryMatchesStore, lemma PreviousWinnersAreStored),
  and when it is read back because the store is right already. That the write is
  to the first height without a verdict, or repeats one, is QueueIsGap with
  MemoryMatchesStore. Two more lemmas are about a store write (StoreStep) and the
  walk (AddedIsGap, GapsJoin). `TypeCorrect`, `QueueCorrect`, `StoreCorrect`,
  `MemoryCorrect`, `InFlightCorrect` follow. `VerdictsFinal`: a stored verdict is
  never changed. The only steps that write repeat the verdict that regrading gives.
* `WinnersPaid`: `PaidInv` says that the balance of an address is the sum over the
  places it was paid for. Paying adds the next place of the block
  last in memory, which was not in the set before; saving and parsing a block leave
  the set as it is, and a crash empties both.
* `AnnouncedCorrect`, for `HeadLag = 0` (with a lag the grader may announce before
  it has seen the last eblock, and the property is not claimed). On top of
  GraderInv, `CurrentInv` says that the head is the last eblock below the height
  being built, that no event is ahead of that height, and that after SyncBlocks the
  target is past every eblock below the event. So at the end of Sync those are all
  parsed, and lemma PreviousWinnersAt finds their last winners in memory even if
  later blocks are there too. What was announced stays right since no stored verdict
  changes (StepKeepsVerdicts).
* `GraderImplementsLedger`: GraderSync implements OracleLedger with
  `settled <- current`, `blocks <- oprBlks`. Saving a block is Grade, paying is Pay,
  parsing a paid block is Settle, Crash is Restart, all the rest stutters.
* **ParallelFetch.** `FetchInvariant`: `CountInv` says where every entry is that
  the wait group still counts (not sent, in a channel, with a worker, with the
  collector), `WorkInv` and `AnswersInv` that it is there only once and with what
  was found out about it, `RecordedInv` that what was found out is recorded or on
  its way. When the count is zero nothing is on its way, so the collector is through
  before the channel is closed (`ClosedInTime`) and what is recorded is everything
  (`FetchCorrect`). That a sort exists is an induction on its length
  (SortableStep, SortExists), done with SetInduction.
* **Mining.** `BarrierInvariant`: in the current block each miner is in one of a few
  phases (resting, searching, submitting, answered), and the phase says exactly what
  its command channel holds, whether its list is with the writer and whether its
  stats are in. The coordinator cannot count to NumMiners before each has answered
  once (lemma Sizes: a cardinality). `BlocksApart` reads the barrier off the phases,
  `NoncesCorrect` needs also that a miner hashes with the OPR of the list it fills,
  and `ListsFrozen` that no miner adds to a list it has handed in. `LeftOutCorrect`:
  by `LateInv` a miner registers once per block and before it submits, so a writer's
  lists are of registered miners, one each, and when it has as many as are
  registered it has those of all so far; who registers later comes behind them.
* **WinnerAlerts.** `AlertsInvariant` has three layers. `OrderInv`: events,
  announcements and OPRs grow along the channels, whatever is lost; this alone gives
  `WinnersNeverRepeat`. `MiningInv`: when no minute is lost, the OPR being mined is
  for the height of the coordinator's next minute 9; this gives `SubmittedInTime`.
  `PairingInv`: without a fault each event channel holds the last minutes without a
  gap (InStep), so the announcements on their way are those of the heights the
  coordinator has yet to ask for, at most two; this gives `WinnersPaired`.
* **Staking.** `StakingInvariant`: minutes come in order (OrderInv), each writer has
  the record of a height of its own (TemplatesInv), a minute 8 of a staked height is
  still to come, in the channel, or was skipped (NoticedInv), the chain holds what
  the writers have written (ChainInv), and the staker with the commands on their way
  ends where the coordinator wants it (CommandsInv). `OneWriter` follows.
* **NetworkMiner.** `NetworkInvariant`: `ServerInv` says that what the server has not
  handled is of the current block and that it stops mining with the last of its
  minutes, so ForwardOPR pairs the height it took last with the winners of that
  height; `TravelInv` says that every OPR on the connection, with the maker or with
  the coordinator is such a pair. `MinedCorrect`: NewOPR then returns the OPR of the
  height asked for (lemma NewOPRIs), or nil. The first part rests on the timing
  guard `Settled`.
  `StatsCorrect`: statistics join the bucket of their height, or make one, which is
  inserted by appending, sorting and cutting; what is cut are not the newest, and a
  height older than a full list is cut at once (`Collected`, kept by every insertion
  of any client for any height). The second part needs that a client without
  the secret has nothing but its handshake on its way in either direction (`Quiet`).
* **NonceRanking.** `WorstRemembered`: the worst slot a nonce list remembers is its
  worst, ties included, by the invariant that adds the type and the length bound.
  `BestWritten` counts: for each difficulty a list holds as many nonces of at least
  that difficulty as were offered, up to the number of its slots (AddKeepsBest). A
  list that drops something is full, so its length belongs to the invariant. Merged
  counts add up and are capped again (CountConcat, GatheredBest), the sort does not
  change them (SameCount), and two lists with the same counts in descending order
  are the same.
* **Nonces.** `SearchApart`: each nonce comes later than the ones before it, in the
  order by length and then by the first byte that differs, through every carry
  (NextNonceIsLater), and the first byte stays the miner's.
* **BurnTracking.** `BurnsCorrect`: while UpdateBurns runs, what it has added up is
  what the transactions read so far burn (`UpdateInv`); it is credited when the block
  is read to its end and the resume height moves with it, in one step.
* **Conversions.** `ConversionsInv`: what each request asks for is what its input
  converts to, and a settled block is paid and refunded by the code's formulas.
  `BankSpent`: the shares rounded down fall short of the bank by less than one unit
  per request (DustIs), and that goes to one request (TopIs), the same one for every
  order of the map if the txids differ (OrderDoesNotMatter). `NoValueCreated`: a
  refund and a payout together exceed an input by no more than the dust (GainOfOne),
  summed over the requests (SumBound).
* **Polling.** `OneAnswer`: calls are numbered, so an answer still fresh when it is
  taken cannot be one that had run out when the pull began, and a pull takes from
  its own cache what it has taken once (`TimedInv`, `PullInv`). `AllAssetsPriced`:
  whatever a service names, quotes and leaves out, what is read from its answer are
  numbers, positive where the asset is listed above zero (FetchedNumbers, one lemma
  per shape of answer). `PriceInv` follows the pull: the answers used once are kept
  to its end, so a choice that was right stays right (`WellChosen`); the sources
  still to ask are the rest of the asset's list and the last one asked is the one
  before them (`AskedTo`), so at the end of the list the error or the zero the code
  looks at is that of the last source. `OutlierNeverWins`: if all quotes but one agree,
  the trimmed mean of the sorted quotes leaves the lowest and the highest out, so it
  is the value of those that agree, and the quote chosen is within its band
  (TrimmedAgree, OutlierLoses).
* **OracleChain.** `StakesPaidOnce`: the filter of duplicates leaves one SPR per
  payout address (FilteredOnce), and every pass of the grading is a rearrangement,
  whatever the averages and grades come to (SortRearranges, GradingRearranges). So
  the places paid are as many as there are winners, and of different addresses.

`CommonLemmas` holds what these share: the least and the greatest number of a set,
induction in the form of a set that contains 0 and successors (the library's
induction theorems, which quantify over an operator, cannot be instantiated here),
what a send and a receive do to the messages a channel holds, and the theory of sums
and of sorts. A sum is a fold that takes its elements in an order left to CHOOSE: the
equation of the fold is shown to have a solution (PartialSumsExist), the fold is
it, and the order of choice drops out (PartialSumsCommute), which gives
a sum with one more element, with one changed, and under a bound (SumOfOneMore,
SumUpdate, SumBound). A sort is the map from a rank to the place that has it;
InOrderSorts shows it to be a rearrangement in order for every strict total order,
and KeyOrder that comparing keys and then places is one.

*Only model-checked.* Every liveness property, since fairness is beyond TLAPS here:
EventIsAnswered, InitialSyncEnds, EveryBlockIsWritten, NewOPREnds,
DeliveredIsMined, WritersEnd, FetchEnds. FloorFollowsTheCutoff: the error of a chain of rounded operations, bounded over
fractions with powers of two, which the arithmetic of the provers does not reach. And
three invariants of OracleChain.
OwnRecordsAreAccepted composes a record's making, encoding and parsing with the
checks of five versions: it is an evaluation over all kinds of records, with no
induction in it that a proof would shorten. GradersGradeAlike asks that two independent
computations (averages over lists in different orders, a sort by integer grades of
a common denominator, passes that shrink the list) give the same list of winners,
and GradingPeelsTheFurthest what those passes compute; both are inductions over
data with operators for parameters (which average, which grade, which order), and
those induction theorems cannot be instantiated. TLC compares them on every block
of the chain part. The violation runs state what does not hold.

## Not modelled

Left out: the upstream listeners of GlobalStatTracker.Collect and the grader's
registry of alert channels (their maps are raced over, with no outcome a property
could be about), the read-only queries of the grader, a minute lost by a network server's monitor, a
rate of zero from a service that is inverted (the code makes +Inf of it), an OPR
that lists more winners than there are (VerifyWinners indexes out of range; the
model refuses it), the market hours of `polling/markets.go`, which
only tests call, and for good: hash functions and base58, HTTP and JSON layers
(`api`, `controlPanel`, the transport of `polling`), `opr/recorder.go`'s CSV export,
the command line, generated protobuf code, LevelDB, simulations and test helpers.
