---------------------------- MODULE MiningProofs ----------------------------
(***************************************************************************)
(* The minute-9 barrier of the mining coordinator holds for any number of  *)
(* miners and blocks, any list channel and any command channel: blocks do  *)
(* not overlap, a list holds nonces of its own block's OPR only, a         *)
(* submitted list never changes again, and a writer stops with the lists   *)
(* of the first miners that registered, cancellation included.             *)
(***************************************************************************)
EXTENDS Mining, CommonLemmas, SequenceTheorems, FiniteSetTheorems, TLAPS

Command == [name : {"start", "submit"}, block : Blocks]
Submission == [miner : Miners, list : Blocks]

TypeOK ==
  /\ cpc \in {"wait", "start", "submit", "write", "stats", "done"}
  /\ mining \in BOOLEAN /\ block \in Blocks /\ next \in 1..(NumMiners + 1)
  /\ cm \in Nat /\ groupStats \subseteq Miners
  /\ commands \in [Miners -> Seq(Command)]
  /\ mpc \in [Miners -> {"init", "run", "submit", "stats", "done"}]
  /\ oprhash \in [Miners -> Blocks] /\ writer \in [Miners -> Blocks]
  /\ rankings \in [Miners -> Blocks] /\ paused \in [Miners -> BOOLEAN]
  /\ list \in [Miners -> [Blocks -> SUBSET Blocks]]
  /\ added \in [Blocks -> Seq(Miners)]
  /\ minerLists \in [Blocks -> Seq(Submission)]
  /\ aggregate \in [Blocks -> SUBSET Submission]
  /\ wpc \in [Blocks -> {"open", "collect", "write", "written"}]
  /\ statsAggregate \in [Blocks -> Seq(Miners)]
  /\ cancelled \in BOOLEAN

(* The coordinator's place in the current block: the miners that have been *)
(* sent the batch of minute 1, those that have been sent the batch of      *)
(* minute 9, and those whose stats have come since.                        *)
Between == cpc \in {"wait", "done"} /\ ~mining
Counting == cpc = "stats" \/ Between
StartSent(m) == IF cpc = "start" THEN m < next ELSE block > 0
SubmitSent(m) ==
  \/ cpc = "submit" /\ m < next
  \/ cpc \in {"write", "stats"}
  \/ Between /\ block > 0
Answered == Range(statsAggregate[block]) \cup (IF Counting THEN groupStats ELSE {})
HandedIn(m) == \E l \in Received(block) : l.miner = m

StartOf(b) == [name |-> "start", block |-> b]
SubmitOf(b) == [name |-> "submit", block |-> b]

(***************************************************************************)
(* The phases of a miner in the coordinator's current block. What is still *)
(* in its command channel is exactly what it was sent and has not read.    *)
(***************************************************************************)
Resting(m) ==
  /\ mpc[m] = "init" \/ (mpc[m] = "run" /\ paused[m])
  /\ m \notin Answered /\ ~HandedIn(m)
  /\ commands[m] = IF ~StartSent(m) THEN <<>>
                   ELSE IF SubmitSent(m) THEN <<StartOf(block), SubmitOf(block)>>
                   ELSE <<StartOf(block)>>
Searching(m) ==
  /\ mpc[m] = "run" /\ ~paused[m] /\ rankings[m] = block
  /\ StartSent(m) /\ m \notin Answered /\ ~HandedIn(m)
  /\ commands[m] = IF SubmitSent(m) THEN <<SubmitOf(block)>> ELSE <<>>
Submitting(m) ==
  /\ mpc[m] \in {"submit", "stats"} /\ rankings[m] = block
  /\ SubmitSent(m) /\ m \notin Answered /\ commands[m] = <<>>
  /\ mpc[m] = "submit" => ~HandedIn(m)
Finished(m) ==
  /\ mpc[m] = "run" /\ paused[m]
  /\ m \in Answered /\ commands[m] = <<>>
(* A miner that has returned reads nothing more: it holds at most what it  *)
(* was sent in this block.                                                 *)
Returned(m) ==
  /\ mpc[m] = "done"
  /\ Len(commands[m]) <= (IF StartSent(m) THEN 1 ELSE 0) + (IF SubmitSent(m) THEN 1 ELSE 0)
  /\ m \in Answered => commands[m] = <<>>

InPhase(m) ==
  Resting(m) \/ Searching(m) \/ Submitting(m) \/ Finished(m) \/ Returned(m)

(* The coordinator's own bookkeeping.                                      *)
CoordinatorInv ==
  /\ cpc = "start" => mining
  /\ cpc \in {"submit", "write", "stats"} => ~mining
  /\ mining \/ cpc \in {"submit", "write", "stats"} => block > 0
  /\ cpc \in {"start", "submit"} => next <= NumMiners
  /\ Between /\ block = 0 => groupStats = {}

(* Each miner's stats come once, and the coordinator goes on only when     *)
(* they have all come.                                                     *)
StatsInv ==
  /\ IsInjective(statsAggregate[block])
  /\ \A m \in Answered : SubmitSent(m)
  /\ cpc = "stats" => cm = Cardinality(groupStats)
  /\ cpc = "stats" => Range(statsAggregate[block]) \cap groupStats = {}
  /\ Between /\ block > 0 => groupStats = Miners /\ statsAggregate[block] = <<>>

(* Nothing has been sent for a block that has not begun.                   *)
FutureInv == \A b \in Blocks : b > block => statsAggregate[b] = <<>> /\ Received(b) = {}

(* A miner's list, writer and OPR hash are of one block, and a list is     *)
(* submitted to the writer of its own block.                               *)
ListsInv ==
  /\ \A m \in Miners : writer[m] = rankings[m] /\ oprhash[m] = rankings[m]
  /\ \A m \in Miners, b \in Blocks : list[m][b] \subseteq {b}
  /\ \A b \in Blocks : \A l \in Received(b) : l.list = b

MiningInv ==
  /\ TypeOK /\ CoordinatorInv /\ StatsInv /\ FutureInv /\ ListsInv
  /\ \A m \in Miners : InPhase(m)
-----------------------------------------------------------------------------
(* The miners are finitely many.                                           *)
LEMMA MinersFinite ==
  IsFiniteSet(Miners) /\ Cardinality(Miners) = NumMiners
BY FS_Interval, MiningAssumption DEF Miners

(* The two constants' types as the provers need them.                      *)
LEMMA Sizes ==
  /\ NumMiners \in Nat /\ NumMiners >= 1 /\ MaxBlocks \in Nat
  /\ Miners \subseteq Nat /\ Blocks \subseteq Nat /\ 0 \in Blocks
  /\ \A m \in Miners : 1 <= m /\ m <= NumMiners
BY MiningAssumption DEF Miners, Blocks

(* What the writer of a block has received, seen as the contents of its    *)
(* channel and its aggregate.                                              *)
LEMMA ReceivedIs ==
  ASSUME NEW b
  PROVE  Received(b) = aggregate[b] \cup Range(minerLists[b])
BY DEF Received, Range

(* The invariant holds before the first minute.                            *)
LEMMA InitInv == Init => MiningInv
<1> SUFFICES ASSUME Init PROVE MiningInv
  OBVIOUS
<1>1. TypeOK
  BY Sizes DEF Init, TypeOK, Command, Submission
<1>2. \A b \in Blocks : Range(statsAggregate[b]) = {} /\ Received(b) = {}
                       /\ statsAggregate[b] = <<>> /\ IsInjective(statsAggregate[b])
  BY RangeEmpty, ReceivedIs DEF Init
<1>3. Answered = {} /\ block \in Blocks
  BY <1>2, Sizes DEF Init, Answered
<1>4. CoordinatorInv
  BY DEF Init, CoordinatorInv, Between
<1>5. StatsInv
  BY <1>2, <1>3 DEF Init, StatsInv, Between
<1>6. FutureInv
  BY <1>2 DEF FutureInv
<1>7. ListsInv
  BY <1>2 DEF Init, ListsInv
<1>8. \A m \in Miners : Resting(m)
  BY <1>2, <1>3 DEF Init, Resting, HandedIn, StartSent
<1> QED
  BY <1>1, <1>4, <1>5, <1>6, <1>7, <1>8 DEF MiningInv, InPhase

(* A command channel of at most one block's two batches.                   *)
LEMMA Batches ==
  ASSUME NEW a, NEW b
  PROVE  /\ Append(<<>>, a) = <<a>> /\ Append(<<a>>, b) = <<a, b>>
         /\ <<a>> # <<>> /\ <<a, b>> # <<>>
         /\ <<a>>[1] = a /\ <<a, b>>[1] = a
         /\ Tail(<<a>>) = <<>> /\ Tail(<<a, b>>) = <<b>>
         /\ Len(<<>>) = 0 /\ Len(<<a>>) = 1 /\ Len(<<a, b>>) = 2
<1>1. Append(<<>>, a) = <<a>> /\ Tail(<<a>>) = <<>> /\ <<a>> # <<>> /\ <<a>>[1] = a
  OBVIOUS
<1>2. Append(<<a>>, b) = <<a, b>>
  <2>1. <<a>> \in Seq({a, b}) /\ b \in {a, b} /\ Len(<<a>>) = 1
    OBVIOUS
  <2>2. /\ Append(<<a>>, b) \in Seq({a, b}) /\ Len(Append(<<a>>, b)) = 2
        /\ Append(<<a>>, b)[1] = a /\ Append(<<a>>, b)[2] = b
    BY <2>1, AppendProperties
  <2>3. <<a, b>> \in Seq({a, b}) /\ Len(<<a, b>>) = 2 /\ <<a, b>>[1] = a /\ <<a, b>>[2] = b
    OBVIOUS
  <2>4. \A i \in 1..2 : i = 1 \/ i = 2
    OBVIOUS
  <2> QED
    BY <2>2, <2>3, <2>4, SeqEqual
<1>3. Tail(<<a, b>>) = <<b>>
  OBVIOUS
<1>4. <<a, b>> # <<>> /\ <<a, b>>[1] = a
  OBVIOUS
<1>5. Len(<<>>) = 0 /\ Len(<<a>>) = 1 /\ Len(<<a, b>>) = 2
  OBVIOUS
<1> QED
  BY <1>1, <1>2, <1>3, <1>4, <1>5

(* Only a miner that has been sent the batch of minute 9 answers it.       *)
LEMMA AnsweredAreMiners ==
  ASSUME MiningInv
  PROVE  Answered \subseteq Miners /\ \A m \in Answered : SubmitSent(m)
<1>1. statsAggregate[block] \in Seq(Miners) /\ groupStats \subseteq Miners
  BY DEF MiningInv, TypeOK
<1>2. Range(statsAggregate[block]) \subseteq Miners
  BY <1>1, ElementOfSeq DEF Range
<1>3. Answered \subseteq Miners
  BY <1>1, <1>2 DEF Answered
<1> QED
  BY <1>3 DEF MiningInv, StatsInv

(* A step that leaves the coordinator's place alone, and all that a miner  *)
(* can see of itself, leaves the miner in its phase.                       *)
LEMMA MinerUntouched ==
  ASSUME NEW m \in Miners, InPhase(m), UNCHANGED <<cpc, mining, block, next>>,
         commands'[m] = commands[m], mpc'[m] = mpc[m], paused'[m] = paused[m],
         rankings'[m] = rankings[m],
         (m \in Answered)' <=> m \in Answered, HandedIn(m)' <=> HandedIn(m)
  PROVE  InPhase(m)'
<1>1. (StartSent(m)' <=> StartSent(m)) /\ (SubmitSent(m)' <=> SubmitSent(m))
  BY DEF StartSent, SubmitSent, Between
<1> QED
  BY <1>1 DEF InPhase, Resting, Searching, Submitting, Finished, Returned, StartOf, SubmitOf

(* The coordinator's clauses depend on its own variables only.             *)
LEMMA CoordinatorUntouched ==
  ASSUME UNCHANGED coordVars
  PROVE  /\ CoordinatorInv => CoordinatorInv'
         /\ \A m \in Miners : (StartSent(m)' <=> StartSent(m)) /\ (SubmitSent(m)' <=> SubmitSent(m))
         /\ (Between' <=> Between) /\ (Counting' <=> Counting)
         /\ UNCHANGED <<cpc, mining, block, next, cm, groupStats>>
BY DEF coordVars, CoordinatorInv, StartSent, SubmitSent, Between, Counting
-----------------------------------------------------------------------------
(***************************************************************************)
(* The coordinator's steps.                                                *)
(***************************************************************************)

(* Minute 1 opens a block: every miner has finished the last one, so none  *)
(* is left with a command, a list or stats of the new block.               *)
LEMMA MinuteOneKeeps == MiningInv /\ MinuteOne => MiningInv'
<1> SUFFICES ASSUME MiningInv, MinuteOne PROVE MiningInv'
  OBVIOUS
<1> USE DEF MinuteOne
<1>1. block \in Nat /\ block + 1 \in Blocks /\ block' = block + 1 /\ block' > 0 /\ Between
  BY Sizes DEF MiningInv, TypeOK, Blocks, Between
<1>2. TypeOK'
  <2>1. next' \in 1..(NumMiners + 1) /\ cpc' \in {"wait", "start"} /\ mining' \in BOOLEAN
    BY Sizes
  <2> QED
    BY <2>1, <1>1 DEF MiningInv, TypeOK, minerVars, writerVars
<1>3. /\ \A b \in Blocks : Received(b)' = Received(b) /\ statsAggregate'[b] = statsAggregate[b]
      /\ Received(block)' = {} /\ statsAggregate'[block'] = <<>>
  <2>1. \A b \in Blocks : Received(b)' = Received(b) /\ statsAggregate'[b] = statsAggregate[b]
    BY DEF Received, writerVars
  <2>2. aggregate[block + 1] \cup {minerLists[block + 1][k] : k \in DOMAIN minerLists[block + 1]} = {}
        /\ statsAggregate[block + 1] = <<>>
    BY <1>1 DEF MiningInv, FutureInv, Received
  <2>3. Received(block)' = {}
    BY <1>1, <2>2 DEF Received, writerVars
  <2> QED
    BY <1>1, <2>1, <2>2, <2>3
<1>4. ~Counting' /\ ~Between' /\ Answered' = {}
  BY <1>1, <1>3, RangeEmpty DEF Counting, Between, Answered
<1>5. CoordinatorInv'
  BY <1>1, <1>4, Sizes DEF CoordinatorInv
<1>6. StatsInv'
  BY <1>3, <1>4, RangeEmpty DEF StatsInv
<1>7. FutureInv'
  BY <1>1, <1>3, Sizes DEF MiningInv, FutureInv
<1>8. ListsInv'
  BY <1>3 DEF MiningInv, ListsInv, minerVars
<1>9. ASSUME NEW m \in Miners PROVE InPhase(m)'
  <2>1. ~StartSent(m)' /\ ~SubmitSent(m)' /\ m \notin Answered' /\ ~HandedIn(m)'
    BY <1>3, <1>4, Sizes DEF StartSent, SubmitSent, HandedIn
  <2>2. commands'[m] = commands[m] /\ mpc'[m] = mpc[m] /\ paused'[m] = paused[m]
    BY DEF minerVars
  <2>3. commands[m] = <<>> /\ (mpc[m] = "init" \/ (mpc[m] = "run" /\ paused[m]) \/ mpc[m] = "done")
    <3>1. CASE block = 0
      <4>1. ~StartSent(m) /\ ~SubmitSent(m)
        BY <3>1 DEF StartSent, SubmitSent
      <4>2. CASE Returned(m)
        <5>1. Len(commands[m]) <= 0 /\ commands[m] \in Seq(Command)
          BY <4>1, <4>2 DEF Returned, MiningInv, TypeOK
        <5> QED
          BY <5>1, <4>2, EmptySeq DEF Returned
      <4>3. CASE ~Returned(m)
        BY <4>1, <4>3 DEF MiningInv, InPhase, Resting, Searching, Submitting, Finished, StatsInv
      <4> QED
        BY <4>2, <4>3
    <3>2. CASE block > 0
      <4>1. m \in Answered
        BY <1>1, <3>2 DEF MiningInv, StatsInv, Answered, Counting
      <4> QED
        BY <4>1 DEF MiningInv, InPhase, Resting, Searching, Submitting, Finished, Returned
    <3> QED
      BY <1>1, <3>1, <3>2
  <2>4. CASE mpc[m] = "done"
    BY <2>1, <2>2, <2>3, <2>4 DEF InPhase, Returned
  <2>5. CASE mpc[m] # "done"
    BY <2>1, <2>2, <2>3, <2>5 DEF InPhase, Resting
  <2> QED
    BY <2>4, <2>5
<1> QED
  BY <1>2, <1>5, <1>6, <1>7, <1>8, <1>9 DEF MiningInv

(* A command of the coordinator's current batch goes to one miner.         *)
LEMMA SendToFrame ==
  ASSUME MiningInv, NEW name \in {"start", "submit"}, SendTo(name)
  PROVE  /\ next \in Miners /\ next' = next + 1 /\ cpc = name
         /\ commands' \in [Miners -> Seq(Command)]
         /\ commands'[next] = Append(commands[next], [name |-> name, block |-> block])
         /\ Len(commands'[next]) = Len(commands[next]) + 1
         /\ \A m \in Miners : m # next => commands'[m] = commands[m]
         /\ next' \in 1..(NumMiners + 1)
<1>1. next \in Miners /\ next' = next + 1 /\ cpc = name
  BY Sizes DEF MiningInv, TypeOK, CoordinatorInv, SendTo, Miners
<1>2. [name |-> name, block |-> block] \in Command
  BY DEF MiningInv, TypeOK, Command
<1>3. commands' = [commands EXCEPT ![next] = Append(commands[next], [name |-> name, block |-> block])]
  BY DEF SendTo
<1>4. commands \in [Miners -> Seq(Command)]
  BY DEF MiningInv, TypeOK
<1> QED
  BY <1>1, <1>2, <1>3, <1>4, Sizes, AppendProperties DEF Miners

(* What the writers hold does not change, and the block goes on.           *)
LEMMA WritersUntouched ==
  ASSUME MiningInv, UNCHANGED <<block, minerVars, writerVars, statsAggregate>>
  PROVE  /\ FutureInv' /\ ListsInv'
         /\ \A b \in Blocks : Received(b)' = Received(b)
         /\ \A m \in Miners : HandedIn(m)' <=> HandedIn(m)
         /\ \A m \in Miners : mpc'[m] = mpc[m] /\ paused'[m] = paused[m] /\ rankings'[m] = rankings[m]
<1>1. \A b \in Blocks : Received(b)' = Received(b)
  BY DEF Received, writerVars
<1>2. block' = block /\ block \in Blocks
  BY DEF MiningInv, TypeOK
<1>3. FutureInv'
  BY <1>1, <1>2 DEF MiningInv, FutureInv
<1>4. ListsInv'
  BY <1>1 DEF MiningInv, ListsInv, minerVars
<1>5. \A m \in Miners : HandedIn(m)' <=> HandedIn(m)
  <2>1. Received(block)' = Received(block)
    BY <1>1, <1>2 DEF Received, writerVars
  <2> QED
    BY <2>1 DEF HandedIn
<1>6. \A m \in Miners : mpc'[m] = mpc[m] /\ paused'[m] = paused[m] /\ rankings'[m] = rankings[m]
  BY DEF minerVars
<1> QED
  BY <1>1, <1>3, <1>4, <1>5, <1>6

(* The batch of minute 1 reaches one more miner.                           *)
LEMMA SendStartKeeps == MiningInv /\ SendStart => MiningInv'
<1> SUFFICES ASSUME MiningInv, SendStart PROVE MiningInv'
  OBVIOUS
<1>1. /\ next \in Miners /\ next' = next + 1 /\ cpc = "start"
      /\ commands' \in [Miners -> Seq(Command)]
      /\ commands'[next] = Append(commands[next], StartOf(block))
      /\ Len(commands'[next]) = Len(commands[next]) + 1
      /\ \A m \in Miners : m # next => commands'[m] = commands[m]
      /\ next' \in 1..(NumMiners + 1)
  BY SendToFrame DEF SendStart, StartOf
<1>2. /\ UNCHANGED <<mining, block, cm, groupStats, statsAggregate, cancelled>>
      /\ UNCHANGED minerVars /\ UNCHANGED writerVars
      /\ cpc' = IF next = NumMiners THEN "wait" ELSE "start"
  BY DEF SendStart
<1>3. mining /\ block > 0 /\ next <= NumMiners /\ block \in Blocks
  BY <1>1 DEF MiningInv, CoordinatorInv, TypeOK
<1>4. TypeOK'
  BY <1>1, <1>2 DEF MiningInv, TypeOK, minerVars, writerVars
<1>5. /\ FutureInv' /\ ListsInv'
      /\ \A m \in Miners : HandedIn(m)' <=> HandedIn(m)
      /\ \A m \in Miners : mpc'[m] = mpc[m] /\ paused'[m] = paused[m] /\ rankings'[m] = rankings[m]
  BY <1>2, WritersUntouched
<1>6. ~Between /\ ~Counting /\ ~Between' /\ ~Counting' /\ Answered' = Answered
  BY <1>1, <1>2, <1>3 DEF Between, Counting, Answered
<1>7. \A m \in Miners : ~SubmitSent(m) /\ ~SubmitSent(m)'
  BY <1>1, <1>2, <1>6 DEF SubmitSent
<1>8. Answered = {}
  BY <1>7, AnsweredAreMiners
<1>9. CoordinatorInv'
  <2>1. cpc' = "start" => next' <= NumMiners
    BY <1>1, <1>2, <1>3, Sizes DEF Miners
  <2> QED
    BY <2>1, <1>1, <1>2, <1>3, <1>6 DEF CoordinatorInv
<1>10. StatsInv'
  BY <1>1, <1>2, <1>6, <1>8 DEF MiningInv, StatsInv, Answered
<1>11. ASSUME NEW m \in Miners PROVE InPhase(m)'
  <2>1. CASE m # next
    <3>1. StartSent(m)' <=> StartSent(m)
      BY <1>1, <1>2, <1>3, <2>1, Sizes DEF StartSent
    <3> QED
      BY <2>1, <3>1, <1>1, <1>2, <1>5, <1>6, <1>7
      DEF MiningInv, InPhase, Resting, Searching, Submitting, Finished, Returned, StartOf, SubmitOf
  <2>2. CASE m = next
    <3>1. ~StartSent(m) /\ StartSent(m)'
      BY <1>1, <1>2, <1>3, <2>2, Sizes DEF StartSent
    <3>2. m \notin Answered /\ m \notin Answered'
      BY <1>6, <1>8
    <3>3. CASE Resting(m)
      <4>1. commands'[m] = <<StartOf(block)>> /\ block' = block
        <5>1. commands[m] = <<>>
          BY <3>1, <3>3 DEF Resting
        <5>2. commands'[m] = Append(commands[m], StartOf(block)) /\ block' = block
          BY <2>2, <1>1, <1>2
        <5> QED
          BY <5>1, <5>2, Batches
      <4> QED
        BY <4>1, <3>1, <3>2, <3>3, <1>5, <1>7 DEF InPhase, Resting, StartOf
    <3>4. CASE Returned(m)
      <4>1. Len(commands[m]) <= 0 /\ commands[m] \in Seq(Command)
        BY <3>1, <3>4, <1>7 DEF Returned, MiningInv, TypeOK
      <4>2. Len(commands'[m]) <= 1
        BY <4>1, <1>1, <2>2
      <4> QED
        BY <4>2, <3>1, <3>2, <3>4, <1>5, <1>7 DEF InPhase, Returned
    <3> QED
      BY <3>1, <3>2, <3>3, <3>4, <1>7 DEF MiningInv, InPhase, Searching, Submitting, Finished
  <2> QED
    BY <2>1, <2>2
<1> QED
  BY <1>4, <1>5, <1>9, <1>10, <1>11 DEF MiningInv

(* Minute 9 begins: no miner has been sent the batch yet.                  *)
LEMMA MinuteNineKeeps == MiningInv /\ MinuteNine => MiningInv'
<1> SUFFICES ASSUME MiningInv, MinuteNine PROVE MiningInv'
  OBVIOUS
<1>1. /\ cpc = "wait" /\ mining /\ mining' = FALSE /\ cpc' = "submit" /\ next' = 1
      /\ UNCHANGED <<block, cm, groupStats, commands, statsAggregate, cancelled>>
      /\ UNCHANGED minerVars /\ UNCHANGED writerVars
  BY DEF MinuteNine
<1>2. block > 0 /\ block \in Blocks
  BY <1>1 DEF MiningInv, CoordinatorInv, TypeOK
<1>3. next' \in 1..(NumMiners + 1) /\ next' <= NumMiners
  BY <1>1, Sizes
<1>4. TypeOK'
  BY <1>1, <1>3 DEF MiningInv, TypeOK, minerVars, writerVars
<1>5. /\ FutureInv' /\ ListsInv'
      /\ \A m \in Miners : HandedIn(m)' <=> HandedIn(m)
      /\ \A m \in Miners : mpc'[m] = mpc[m] /\ paused'[m] = paused[m] /\ rankings'[m] = rankings[m]
  BY <1>1, WritersUntouched
<1>6. ~Between /\ ~Counting /\ ~Between' /\ ~Counting' /\ Answered' = Answered
  BY <1>1 DEF Between, Counting, Answered
<1>7. \A m \in Miners : /\ ~SubmitSent(m) /\ ~SubmitSent(m)'
                        /\ StartSent(m) /\ StartSent(m)'
  BY <1>1, <1>2, <1>6, Sizes DEF SubmitSent, StartSent
<1>8. Answered = {}
  BY <1>7, AnsweredAreMiners
<1>9. CoordinatorInv'
  BY <1>1, <1>2, <1>3, <1>6 DEF CoordinatorInv
<1>10. StatsInv'
  BY <1>1, <1>6, <1>8 DEF MiningInv, StatsInv, Answered
<1>11. \A m \in Miners : InPhase(m)'
  BY <1>1, <1>5, <1>6, <1>7
  DEF MiningInv, InPhase, Resting, Searching, Submitting, Finished, Returned, StartOf, SubmitOf
<1> QED
  BY <1>4, <1>5, <1>9, <1>10, <1>11 DEF MiningInv

(* The batch of minute 9 reaches one more miner.                           *)
LEMMA SendSubmitKeeps == MiningInv /\ SendSubmit => MiningInv'
<1> SUFFICES ASSUME MiningInv, SendSubmit PROVE MiningInv'
  OBVIOUS
<1>1. /\ next \in Miners /\ next' = next + 1 /\ cpc = "submit"
      /\ commands' \in [Miners -> Seq(Command)]
      /\ commands'[next] = Append(commands[next], SubmitOf(block))
      /\ Len(commands'[next]) = Len(commands[next]) + 1
      /\ \A m \in Miners : m # next => commands'[m] = commands[m]
      /\ next' \in 1..(NumMiners + 1)
  BY SendToFrame DEF SendSubmit, SubmitOf
<1>2. /\ UNCHANGED <<mining, block, cm, groupStats, statsAggregate, cancelled>>
      /\ UNCHANGED minerVars /\ UNCHANGED writerVars
      /\ cpc' = IF next = NumMiners THEN "write" ELSE "submit"
  BY DEF SendSubmit
<1>3. ~mining /\ block > 0 /\ next <= NumMiners /\ block \in Blocks
  BY <1>1 DEF MiningInv, CoordinatorInv, TypeOK
<1>4. TypeOK'
  BY <1>1, <1>2 DEF MiningInv, TypeOK, minerVars, writerVars
<1>5. /\ FutureInv' /\ ListsInv'
      /\ \A m \in Miners : HandedIn(m)' <=> HandedIn(m)
      /\ \A m \in Miners : mpc'[m] = mpc[m] /\ paused'[m] = paused[m] /\ rankings'[m] = rankings[m]
  BY <1>2, WritersUntouched
<1>6. ~Between /\ ~Counting /\ ~Between' /\ ~Counting' /\ Answered' = Answered
  BY <1>1, <1>2, <1>3 DEF Between, Counting, Answered
<1>7. \A m \in Miners : StartSent(m) /\ StartSent(m)'
  BY <1>1, <1>2, <1>3 DEF StartSent
<1>8. \A m \in Miners : /\ m # next => (SubmitSent(m)' <=> SubmitSent(m))
                        /\ m = next => ~SubmitSent(m) /\ SubmitSent(m)'
  <2>1. ASSUME NEW m \in Miners PROVE SubmitSent(m) <=> m < next
    BY <1>1, <1>6 DEF SubmitSent
  <2>2. ASSUME NEW m \in Miners PROVE SubmitSent(m)' <=> (next = NumMiners \/ m < next + 1)
    BY <1>1, <1>2, <1>6 DEF SubmitSent
  <2> QED
    BY <2>1, <2>2, <1>1, Sizes
<1>9. next \notin Answered /\ next \notin Answered' /\ Answered \subseteq Miners
  BY <1>1, <1>6, <1>8, AnsweredAreMiners
<1>10. CoordinatorInv'
  <2>1. cpc' = "submit" => next' <= NumMiners
    BY <1>1, <1>2, <1>3, Sizes DEF Miners
  <2> QED
    BY <2>1, <1>1, <1>2, <1>3, <1>6 DEF CoordinatorInv
<1>11. StatsInv'
  <2>1. \A m \in Answered' : SubmitSent(m)'
    BY <1>6, <1>8, <1>9 DEF MiningInv, StatsInv
  <2> QED
    BY <2>1, <1>1, <1>2, <1>6 DEF MiningInv, StatsInv
<1>12. ASSUME NEW m \in Miners PROVE InPhase(m)'
  <2>1. CASE m # next
    BY <2>1, <1>1, <1>2, <1>5, <1>6, <1>7, <1>8
    DEF MiningInv, InPhase, Resting, Searching, Submitting, Finished, Returned, StartOf, SubmitOf
  <2>2. CASE m = next
    <3>1. CASE Resting(m)
      <4>1. commands'[m] = <<StartOf(block), SubmitOf(block)>> /\ block' = block
        <5>1. commands[m] = <<StartOf(block)>>
          BY <3>1, <2>2, <1>7, <1>8 DEF Resting
        <5>2. Append(<<StartOf(block)>>, SubmitOf(block)) = <<StartOf(block), SubmitOf(block)>>
          BY Batches
        <5>3. commands'[m] = Append(commands[m], SubmitOf(block)) /\ block' = block
          BY <2>2, <1>1, <1>2
        <5> QED
          BY <5>1, <5>2, <5>3
      <4> QED
        BY <4>1, <3>1, <2>2, <1>5, <1>7, <1>8, <1>9 DEF InPhase, Resting, StartOf, SubmitOf
    <3>2. CASE Searching(m)
      <4>1. commands'[m] = <<SubmitOf(block)>> /\ block' = block
        <5>1. commands[m] = <<>>
          BY <3>2, <2>2, <1>7, <1>8 DEF Searching
        <5>2. commands'[m] = Append(commands[m], SubmitOf(block)) /\ block' = block
          BY <2>2, <1>1, <1>2
        <5> QED
          BY <5>1, <5>2, Batches
      <4> QED
        BY <4>1, <3>2, <2>2, <1>5, <1>7, <1>8, <1>9 DEF InPhase, Searching, SubmitOf
    <3>3. CASE Returned(m)
      <4>1. Len(commands[m]) <= 1 /\ commands[m] \in Seq(Command)
        BY <3>3, <2>2, <1>7, <1>8 DEF Returned, MiningInv, TypeOK
      <4>2. Len(commands'[m]) <= 2
        BY <4>1, <1>1, <2>2
      <4> QED
        BY <4>2, <3>3, <2>2, <1>5, <1>7, <1>8, <1>9 DEF InPhase, Returned
    <3> QED
      BY <3>1, <3>2, <3>3, <2>2, <1>8, <1>9 DEF MiningInv, InPhase, Submitting, Finished
  <2> QED
    BY <2>1, <2>2
<1> QED
  BY <1>4, <1>5, <1>10, <1>11, <1>12 DEF MiningInv

(* The block goes to its writer and the counting of stats begins.          *)
LEMMA CollectAndWriteKeeps == MiningInv /\ CollectAndWrite => MiningInv'
<1> SUFFICES ASSUME MiningInv, CollectAndWrite PROVE MiningInv'
  OBVIOUS
<1>1. /\ cpc = "write" /\ cpc' = "stats" /\ cm' = 0 /\ groupStats' = {}
      /\ wpc' = [wpc EXCEPT ![block] = IF @ = "open" THEN "collect" ELSE @]
      /\ UNCHANGED <<mining, block, next, commands, added, minerLists, aggregate,
                     statsAggregate, cancelled>>
      /\ UNCHANGED minerVars
  BY DEF CollectAndWrite
<1>2. ~mining /\ block > 0 /\ block \in Blocks
  BY <1>1 DEF MiningInv, CoordinatorInv, TypeOK
<1>3. TypeOK'
  <2>1. wpc' \in [Blocks -> {"open", "collect", "write", "written"}]
    BY <1>1 DEF MiningInv, TypeOK
  <2> QED
    BY <2>1, <1>1 DEF MiningInv, TypeOK, minerVars
<1>4. /\ \A b \in Blocks : Received(b)' = Received(b)
      /\ \A m \in Miners : HandedIn(m)' <=> HandedIn(m)
  <2>1. \A b \in Blocks : Received(b)' = Received(b)
    BY <1>1 DEF Received
  <2>2. Received(block)' = Received(block)
    BY <1>1 DEF Received
  <2> QED
    BY <2>1, <2>2 DEF HandedIn
<1>5. FutureInv' /\ ListsInv'
  BY <1>1, <1>4 DEF MiningInv, FutureInv, ListsInv, minerVars
<1>6. ~Between /\ ~Counting /\ ~Between' /\ Answered' = Answered
  BY <1>1 DEF Between, Counting, Answered
<1>7. \A m \in Miners : /\ SubmitSent(m) /\ SubmitSent(m)'
                        /\ StartSent(m) /\ StartSent(m)'
  BY <1>1, <1>2 DEF SubmitSent, StartSent
<1>8. CoordinatorInv'
  BY <1>1, <1>2, <1>6 DEF CoordinatorInv
<1>9. StatsInv'
  <2>1. cm' = Cardinality(groupStats')
    BY <1>1, FS_EmptySet
  <2>2. \A m \in Answered' : SubmitSent(m)'
    BY <1>6, <1>7, AnsweredAreMiners
  <2> QED
    BY <2>1, <2>2, <1>1, <1>6 DEF MiningInv, StatsInv
<1>10. \A m \in Miners : mpc'[m] = mpc[m] /\ paused'[m] = paused[m] /\ rankings'[m] = rankings[m]
  BY <1>1 DEF minerVars
<1>11. \A m \in Miners : InPhase(m)'
  BY <1>1, <1>4, <1>6, <1>7, <1>10
  DEF MiningInv, InPhase, Resting, Searching, Submitting, Finished, Returned, StartOf, SubmitOf
<1> QED
  BY <1>3, <1>5, <1>8, <1>9, <1>11 DEF MiningInv

(* One miner's stats move from the channel to the group's. They are not    *)
(* there yet, so that NumMiners of them are every miner's.                 *)
LEMMA CollectStatsKeeps == MiningInv /\ CollectStats => MiningInv'
<1> SUFFICES ASSUME MiningInv, CollectStats PROVE MiningInv'
  OBVIOUS
<1> DEFINE ch == statsAggregate[block]
           h == Head(ch)
<1>1. /\ cpc = "stats" /\ ch # <<>>
      /\ groupStats' = groupStats \cup {h}
      /\ statsAggregate' = [statsAggregate EXCEPT ![block] = Tail(ch)]
      /\ cm' = cm + 1
      /\ cpc' = IF cm' = NumMiners THEN "wait" ELSE "stats"
      /\ UNCHANGED <<mining, block, next, commands, cancelled>>
      /\ UNCHANGED minerVars /\ UNCHANGED writerVars
  BY DEF CollectStats
<1>2. ~mining /\ block > 0 /\ block \in Blocks /\ ch \in Seq(Miners) /\ cm \in Nat
      /\ groupStats \subseteq Miners /\ cm = Cardinality(groupStats)
      /\ Range(ch) \cap groupStats = {} /\ IsInjective(ch)
      /\ statsAggregate \in [Blocks -> Seq(Miners)]
  BY <1>1 DEF MiningInv, CoordinatorInv, TypeOK, StatsInv
<1>3. /\ Tail(ch) \in Seq(Miners) /\ h \in Miners
      /\ Range(ch) = {h} \cup Range(Tail(ch))
      /\ IsInjective(Tail(ch)) /\ h \notin Range(Tail(ch))
  BY <1>1, <1>2, RangeTail
<1>4. statsAggregate' \in [Blocks -> Seq(Miners)] /\ statsAggregate'[block] = Tail(ch)
      /\ \A b \in Blocks : b # block => statsAggregate'[b] = statsAggregate[b]
  BY <1>1, <1>2, <1>3
<1> HIDE DEF ch, h
<1>5. TypeOK'
  <2>1. cpc' \in {"wait", "stats"} /\ cm' \in Nat /\ groupStats' \subseteq Miners
    BY <1>1, <1>2, <1>3
  <2> QED
    BY <2>1, <1>1, <1>4 DEF MiningInv, TypeOK, minerVars, writerVars
<1>6. cm' = Cardinality(groupStats') /\ groupStats' \subseteq Miners
      /\ Range(Tail(ch)) \cap groupStats' = {}
  <2>1. IsFiniteSet(groupStats) /\ h \notin groupStats
    BY <1>2, <1>3, MinersFinite, FS_Subset
  <2>2. Cardinality(groupStats') = Cardinality(groupStats) + 1
    BY <1>1, <2>1, FS_AddElement
  <2> QED
    BY <2>2, <1>1, <1>2, <1>3
<1>7. cm' = NumMiners => groupStats' = Miners /\ Tail(ch) = <<>>
  <2> SUFFICES ASSUME cm' = NumMiners PROVE groupStats' = Miners /\ Tail(ch) = <<>>
    OBVIOUS
  <2>1. groupStats' = Miners
    BY <1>6, MinersFinite, FS_Subset
  <2>2. Range(Tail(ch)) \subseteq Miners
    BY <1>3, ElementOfSeq DEF Range
  <2>3. Range(Tail(ch)) = {}
    BY <2>1, <2>2, <1>6
  <2> QED
    BY <2>1, <2>3, <1>3, RangeEmpty
<1>8. Counting /\ Counting' /\ (Between' <=> cm' = NumMiners)
  BY <1>1, <1>2 DEF Counting, Between
<1>9. Answered' = Answered
  <2>1. Answered = Range(ch) \cup groupStats
    BY <1>8 DEF Answered, ch
  <2>2. Answered' = Range(Tail(ch)) \cup groupStats'
    BY <1>1, <1>4, <1>8 DEF Answered
  <2> QED
    BY <2>1, <2>2, <1>1, <1>3
<1>10. \A m \in Miners : /\ SubmitSent(m) /\ SubmitSent(m)'
                         /\ StartSent(m) /\ StartSent(m)'
  BY <1>1, <1>2 DEF SubmitSent, StartSent, Between
<1>11. CoordinatorInv'
  BY <1>1, <1>2 DEF CoordinatorInv, Between
<1>12. StatsInv'
  <2>1. \A m \in Answered' : SubmitSent(m)'
    BY <1>9, <1>10, AnsweredAreMiners
  <2>2. statsAggregate'[block'] = Tail(ch)
    BY <1>1, <1>4
  <2> QED
    BY <2>1, <2>2, <1>3, <1>6, <1>7, <1>8 DEF StatsInv
<1>13. /\ \A b \in Blocks : Received(b)' = Received(b)
       /\ \A m \in Miners : HandedIn(m)' <=> HandedIn(m)
  <2>1. \A b \in Blocks : Received(b)' = Received(b)
    BY <1>1 DEF Received, writerVars
  <2>2. Received(block)' = Received(block)
    BY <1>1 DEF Received, writerVars
  <2> QED
    BY <2>1, <2>2 DEF HandedIn
<1>14. FutureInv'
  BY <1>1, <1>2, <1>4, <1>13, Sizes DEF MiningInv, FutureInv
<1>15. ListsInv'
  BY <1>1, <1>13 DEF MiningInv, ListsInv, minerVars
<1>16. \A m \in Miners : mpc'[m] = mpc[m] /\ paused'[m] = paused[m] /\ rankings'[m] = rankings[m]
  BY <1>1 DEF minerVars
<1>17. \A m \in Miners : InPhase(m)'
  BY <1>1, <1>9, <1>10, <1>13, <1>16
  DEF MiningInv, InPhase, Resting, Searching, Submitting, Finished, Returned, StartOf, SubmitOf
<1> QED
  BY <1>5, <1>11, <1>12, <1>14, <1>15, <1>17 DEF MiningInv

(* The coordinator returns: its place in the block is kept.                *)
LEMMA CoordinatorCancelledKeeps == MiningInv /\ CoordinatorCancelled => MiningInv'
<1> SUFFICES ASSUME MiningInv, CoordinatorCancelled PROVE MiningInv'
  OBVIOUS
<1>1. /\ cpc = "wait" /\ cpc' = "done"
      /\ UNCHANGED <<mining, block, next, cm, groupStats, commands, statsAggregate, cancelled>>
      /\ UNCHANGED minerVars /\ UNCHANGED writerVars
  BY DEF CoordinatorCancelled
<1>2. TypeOK'
  BY <1>1 DEF MiningInv, TypeOK, minerVars, writerVars
<1>3. /\ FutureInv' /\ ListsInv'
      /\ \A m \in Miners : HandedIn(m)' <=> HandedIn(m)
      /\ \A m \in Miners : mpc'[m] = mpc[m] /\ paused'[m] = paused[m] /\ rankings'[m] = rankings[m]
  BY <1>1, WritersUntouched
<1>4. (Between' <=> Between) /\ (Counting' <=> Counting) /\ Answered' = Answered
  BY <1>1 DEF Between, Counting, Answered
<1>5. \A m \in Miners : (StartSent(m)' <=> StartSent(m)) /\ (SubmitSent(m)' <=> SubmitSent(m))
  BY <1>1, <1>4 DEF StartSent, SubmitSent
<1>6. CoordinatorInv'
  BY <1>1, <1>4 DEF MiningInv, CoordinatorInv
<1>7. StatsInv'
  <2>1. \A m \in Answered' : SubmitSent(m)'
    BY <1>4, <1>5, AnsweredAreMiners
  <2> QED
    BY <2>1, <1>1, <1>4 DEF MiningInv, StatsInv
<1>8. \A m \in Miners : InPhase(m)'
  BY <1>1, <1>3, <1>4, <1>5
  DEF MiningInv, InPhase, Resting, Searching, Submitting, Finished, Returned, StartOf, SubmitOf
<1> QED
  BY <1>2, <1>3, <1>6, <1>7, <1>8 DEF MiningInv
-----------------------------------------------------------------------------
(***************************************************************************)
(* The miners' steps: each leaves the coordinator and the others alone.    *)
(***************************************************************************)

(* A miner's step that sends no stats keeps the invariant when it keeps    *)
(* its own phase, the lists and the types.                                 *)
LEMMA MinerStep ==
  ASSUME MiningInv, NEW m \in Miners, UNCHANGED coordVars, UNCHANGED statsAggregate,
         \A n \in Miners : n # m => /\ commands'[n] = commands[n] /\ mpc'[n] = mpc[n]
                                    /\ paused'[n] = paused[n] /\ rankings'[n] = rankings[n]
                                    /\ (HandedIn(n)' <=> HandedIn(n)),
         TypeOK', FutureInv', ListsInv', InPhase(m)'
  PROVE  MiningInv'
<1>1. /\ CoordinatorInv' /\ UNCHANGED <<cpc, mining, block, next, cm, groupStats>>
      /\ \A n \in Miners : SubmitSent(n)' <=> SubmitSent(n)
      /\ (Between' <=> Between) /\ (Counting' <=> Counting)
  BY CoordinatorUntouched DEF MiningInv
<1>2. Answered' = Answered
  BY <1>1 DEF Answered
<1>3. StatsInv'
  <2>1. \A n \in Answered' : SubmitSent(n)'
    BY <1>1, <1>2, AnsweredAreMiners
  <2> QED
    BY <2>1, <1>1 DEF MiningInv, StatsInv
<1>4. ASSUME NEW n \in Miners, n # m PROVE InPhase(n)'
  <2>1. InPhase(n)
    BY DEF MiningInv
  <2> QED
    BY <2>1, <1>1, <1>2, <1>4, MinerUntouched
<1> QED
  BY <1>1, <1>3, <1>4 DEF MiningInv

(* A command read is the first of the current block's batches still in the *)
(* channel: the batch of minute 1 is read at rest, that of minute 9 while  *)
(* searching.                                                              *)
LEMMA ReadsInPhase ==
  ASSUME MiningInv, NEW m \in Miners, NEW name \in {"start", "submit"}, Reads(m, name)
  PROVE  /\ commands' \in [Miners -> Seq(Command)]
         /\ \A n \in Miners : n # m => commands'[n] = commands[n]
         /\ commands'[m] = IF name = "start" /\ SubmitSent(m) THEN <<SubmitOf(block)>> ELSE <<>>
         /\ Command1(m).block = block
         /\ name = "start" => Resting(m) /\ StartSent(m)
         /\ name = "submit" => Searching(m) /\ SubmitSent(m)
<1>1. /\ mpc[m] \in {"init", "run"} /\ commands[m] # <<>> /\ commands[m][1].name = name
      /\ commands' = [commands EXCEPT ![m] = Tail(commands[m])]
      /\ commands \in [Miners -> Seq(Command)]
  BY DEF Reads, Command1, MiningInv, TypeOK
<1>2. commands'[m] = Tail(commands[m]) /\ commands' \in [Miners -> Seq(Command)]
      /\ \A n \in Miners : n # m => commands'[n] = commands[n]
  <2>1. Tail(commands[m]) \in Seq(Command)
    BY <1>1, HeadTailProperties
  <2> QED
    BY <2>1, <1>1
<1>3. /\ StartOf(block).name = "start" /\ StartOf(block).block = block
      /\ SubmitOf(block).name = "submit" /\ SubmitOf(block).block = block
  BY DEF StartOf, SubmitOf
<1>4. CASE Resting(m)
  <2>1. StartSent(m)
    BY <1>1, <1>4 DEF Resting
  <2>2. commands[m] = IF SubmitSent(m) THEN <<StartOf(block), SubmitOf(block)>>
                      ELSE <<StartOf(block)>>
    BY <2>1, <1>4 DEF Resting
  <2>3. commands[m][1] = StartOf(block)
        /\ Tail(commands[m]) = IF SubmitSent(m) THEN <<SubmitOf(block)>> ELSE <<>>
    BY <2>2, Batches
  <2>4. name = "start" /\ Command1(m).block = block
    BY <2>3, <1>1, <1>3 DEF Command1
  <2> QED
    BY <2>1, <2>3, <2>4, <1>2, <1>4
<1>5. CASE Searching(m)
  <2>1. SubmitSent(m) /\ commands[m] = <<SubmitOf(block)>>
    BY <1>1, <1>5 DEF Searching
  <2>2. commands[m][1] = SubmitOf(block) /\ Tail(commands[m]) = <<>>
    BY <2>1, Batches
  <2>3. name = "submit" /\ Command1(m).block = block
    BY <2>2, <1>1, <1>3 DEF Command1
  <2> QED
    BY <2>1, <2>2, <2>3, <1>2, <1>5
<1> QED
  BY <1>1, <1>4, <1>5 DEF MiningInv, InPhase, Submitting, Finished, Returned

(* The batch of minute 1 puts a miner on the current block: writer, list   *)
(* and OPR hash together.                                                  *)
LEMMA StartKeeps == \A m \in Miners : MiningInv /\ Start(m) => MiningInv'
<1> SUFFICES ASSUME NEW m \in Miners, MiningInv, Start(m) PROVE MiningInv'
  OBVIOUS
<1>1. /\ commands' \in [Miners -> Seq(Command)]
      /\ \A n \in Miners : n # m => commands'[n] = commands[n]
      /\ commands'[m] = IF SubmitSent(m) THEN <<SubmitOf(block)>> ELSE <<>>
      /\ Command1(m).block = block /\ Resting(m) /\ StartSent(m)
  <2>1. Reads(m, "start")
    BY DEF Start
  <2> QED
    BY <2>1, ReadsInPhase
<1>2. /\ added' = [added EXCEPT ![block] = Append(@, m)]
      /\ writer' = [writer EXCEPT ![m] = block]
      /\ rankings' = [rankings EXCEPT ![m] = block]
      /\ oprhash' = [oprhash EXCEPT ![m] = block]
      /\ paused' = [paused EXCEPT ![m] = FALSE]
      /\ mpc' = [mpc EXCEPT ![m] = "run"]
      /\ UNCHANGED coordVars /\ UNCHANGED <<list, minerLists, aggregate, wpc, statsAggregate, cancelled>>
  BY <1>1 DEF Start
<1>3. block \in Blocks /\ TypeOK
  BY DEF MiningInv, TypeOK
<1>4. TypeOK'
  <2>1. added' \in [Blocks -> Seq(Miners)]
    BY <1>2, <1>3, AppendProperties DEF TypeOK
  <2>2. /\ writer' \in [Miners -> Blocks] /\ rankings' \in [Miners -> Blocks]
        /\ oprhash' \in [Miners -> Blocks] /\ paused' \in [Miners -> BOOLEAN]
        /\ mpc' \in [Miners -> {"init", "run", "submit", "stats", "done"}]
    BY <1>2, <1>3 DEF TypeOK
  <2> QED
    BY <2>1, <2>2, <1>1, <1>2, <1>3 DEF TypeOK, coordVars
<1>5. /\ \A b \in Blocks : Received(b)' = Received(b)
      /\ \A n \in Miners : HandedIn(n)' <=> HandedIn(n)
      /\ block' = block
  <2>1. block' = block
    BY <1>2 DEF coordVars
  <2>2. \A b \in Blocks : Received(b)' = Received(b)
    BY <1>2 DEF Received
  <2>3. Received(block)' = Received(block)
    BY <2>1, <1>2 DEF Received
  <2> QED
    BY <2>1, <2>2, <2>3 DEF HandedIn
<1>6. FutureInv'
  BY <1>2, <1>5 DEF MiningInv, FutureInv
<1>7. ListsInv'
  <2>1. \A n \in Miners : writer'[n] = rankings'[n] /\ oprhash'[n] = rankings'[n]
    BY <1>2, <1>3 DEF TypeOK, MiningInv, ListsInv
  <2> QED
    BY <2>1, <1>2, <1>5 DEF MiningInv, ListsInv
<1>8. \A n \in Miners : n # m => /\ mpc'[n] = mpc[n] /\ paused'[n] = paused[n]
                                 /\ rankings'[n] = rankings[n]
  BY <1>2, <1>3 DEF TypeOK
<1>9. Searching(m)'
  <2>1. (StartSent(m)' <=> StartSent(m)) /\ (SubmitSent(m)' <=> SubmitSent(m))
        /\ Answered' = Answered
    BY <1>2, CoordinatorUntouched DEF Answered
  <2>2. mpc'[m] = "run" /\ paused'[m] = FALSE /\ rankings'[m] = block
    BY <1>2, <1>3 DEF TypeOK
  <2> QED
    BY <2>1, <2>2, <1>1, <1>5 DEF Searching, Resting, SubmitOf
<1> QED
  BY <1>1, <1>2, <1>4, <1>5, <1>6, <1>7, <1>8, <1>9, MinerStep DEF InPhase

(* A miner's step that touches no writer leaves what they received alone.  *)
LEMMA NothingSubmitted ==
  ASSUME MiningInv, UNCHANGED coordVars, UNCHANGED <<minerLists, aggregate, statsAggregate>>
  PROVE  /\ \A b \in Blocks : Received(b)' = Received(b)
         /\ \A n \in Miners : HandedIn(n)' <=> HandedIn(n)
         /\ Answered' = Answered /\ block' = block /\ block \in Blocks /\ FutureInv'
<1>1. block' = block /\ block \in Blocks
  BY DEF coordVars, MiningInv, TypeOK
<1>2. \A b \in Blocks : Received(b)' = Received(b)
  BY DEF Received
<1>3. Received(block)' = Received(block)
  BY <1>1 DEF Received
<1>4. Answered' = Answered
  BY CoordinatorUntouched DEF Answered
<1>5. FutureInv'
  BY <1>1, <1>2 DEF MiningInv, FutureInv
<1> QED
  BY <1>1, <1>2, <1>3, <1>4, <1>5 DEF HandedIn

(* The batch of minute 9 stops the search.                                 *)
LEMMA ReadSubmitKeeps == \A m \in Miners : MiningInv /\ ReadSubmit(m) => MiningInv'
<1> SUFFICES ASSUME NEW m \in Miners, MiningInv, ReadSubmit(m) PROVE MiningInv'
  OBVIOUS
<1>1. /\ commands' \in [Miners -> Seq(Command)]
      /\ \A n \in Miners : n # m => commands'[n] = commands[n]
      /\ commands'[m] = <<>> /\ Searching(m) /\ SubmitSent(m)
  <2>1. Reads(m, "submit")
    BY DEF ReadSubmit
  <2> QED
    BY <2>1, ReadsInPhase
<1>2. /\ mpc' = [mpc EXCEPT ![m] = "submit"] /\ UNCHANGED coordVars
      /\ UNCHANGED <<oprhash, writer, rankings, paused, list, statsAggregate, cancelled>>
      /\ UNCHANGED <<added, minerLists, aggregate, wpc>>
  BY DEF ReadSubmit, writerVars
<1>3. TypeOK'
  <2>1. mpc' \in [Miners -> {"init", "run", "submit", "stats", "done"}]
    BY <1>2 DEF MiningInv, TypeOK
  <2> QED
    BY <2>1, <1>1, <1>2 DEF MiningInv, TypeOK, coordVars
<1>4. /\ \A b \in Blocks : Received(b)' = Received(b)
      /\ \A n \in Miners : HandedIn(n)' <=> HandedIn(n)
      /\ Answered' = Answered /\ block' = block /\ FutureInv'
  BY <1>2, NothingSubmitted
<1>5. ListsInv'
  BY <1>2, <1>4 DEF MiningInv, ListsInv
<1>6. mpc'[m] = "submit" /\ \A n \in Miners : n # m => mpc'[n] = mpc[n]
  BY <1>2 DEF MiningInv, TypeOK
<1>7. Submitting(m)'
  <2>1. SubmitSent(m)' <=> SubmitSent(m)
    BY <1>2, CoordinatorUntouched
  <2> QED
    BY <2>1, <1>1, <1>2, <1>4, <1>6 DEF Submitting, Searching
<1> QED
  BY <1>1, <1>2, <1>3, <1>4, <1>5, <1>6, <1>7, MinerStep DEF InPhase

(* The list goes to the writer of its own block.                           *)
LEMMA SubmitNoncesKeeps == \A m \in Miners : MiningInv /\ SubmitNonces(m) => MiningInv'
<1> SUFFICES ASSUME NEW m \in Miners, MiningInv, SubmitNonces(m) PROVE MiningInv'
  OBVIOUS
<1> DEFINE sub == [miner |-> m, list |-> rankings[m]]
<1>1. mpc[m] = "submit" /\ Submitting(m)
  BY DEF SubmitNonces, MiningInv, InPhase, Resting, Searching, Submitting, Finished, Returned
<1>2. rankings[m] = block /\ writer[m] = block /\ block \in Blocks
  BY <1>1 DEF Submitting, MiningInv, ListsInv, TypeOK
<1>3. sub \in Submission /\ sub.miner = m /\ sub.list = block
  BY <1>2 DEF Submission
<1>4. /\ minerLists' = [minerLists EXCEPT ![block] = Append(minerLists[block], sub)]
      /\ mpc' = [mpc EXCEPT ![m] = "stats"] /\ UNCHANGED coordVars
      /\ UNCHANGED <<commands, oprhash, writer, rankings, paused, list, added, aggregate, wpc,
                     statsAggregate, cancelled>>
  BY <1>2 DEF SubmitNonces
<1>5. minerLists \in [Blocks -> Seq(Submission)] /\ block' = block
  BY <1>4 DEF MiningInv, TypeOK, coordVars
<1> HIDE DEF sub
<1>6. /\ minerLists' \in [Blocks -> Seq(Submission)]
      /\ Range(minerLists'[block]) = Range(minerLists[block]) \cup {sub}
      /\ \A b \in Blocks : b # block => minerLists'[b] = minerLists[b]
  <2>1. /\ Append(minerLists[block], sub) \in Seq(Submission)
        /\ Range(Append(minerLists[block], sub)) = Range(minerLists[block]) \cup {sub}
    BY <1>2, <1>3, <1>5, RangeAppend
  <2> QED
    BY <2>1, <1>2, <1>4, <1>5
<1>7. TypeOK'
  <2>1. mpc' \in [Miners -> {"init", "run", "submit", "stats", "done"}]
    BY <1>4 DEF MiningInv, TypeOK
  <2> QED
    BY <2>1, <1>4, <1>6 DEF MiningInv, TypeOK, coordVars
<1>8. /\ \A b \in Blocks : b # block => Received(b)' = Received(b)
      /\ Received(block)' = Received(block) \cup {sub}
  <2>1. \A b \in Blocks : b # block => Received(b)' = Received(b)
    BY <1>4, <1>6 DEF Received
  <2>2. Received(block)' = aggregate[block] \cup Range(minerLists'[block])
    BY <1>4, <1>5 DEF Received, Range
  <2>3. Received(block) = aggregate[block] \cup Range(minerLists[block])
    BY DEF Received, Range
  <2> QED
    BY <2>1, <2>2, <2>3, <1>6
<1>9. FutureInv'
  BY <1>4, <1>5, <1>8, <1>2, Sizes DEF MiningInv, FutureInv
<1>10. ListsInv'
  <2>1. ASSUME NEW b \in Blocks, NEW l \in Received(b)' PROVE l.list = b
    <3>1. Received(b)' = IF b = block THEN Received(b) \cup {sub} ELSE Received(b)
      BY <1>5, <1>8
    <3> QED
      BY <3>1, <1>3, <2>1 DEF MiningInv, ListsInv
  <2> QED
    BY <2>1, <1>4 DEF MiningInv, ListsInv
<1>11. \A n \in Miners : n # m => /\ mpc'[n] = mpc[n] /\ (HandedIn(n)' <=> HandedIn(n))
  BY <1>3, <1>4, <1>8 DEF MiningInv, TypeOK, HandedIn
<1>12. Submitting(m)'
  <2>1. (SubmitSent(m)' <=> SubmitSent(m)) /\ Answered' = Answered
    BY <1>4, CoordinatorUntouched DEF Answered
  <2>2. mpc'[m] = "stats"
    BY <1>4 DEF MiningInv, TypeOK
  <2> QED
    BY <2>1, <2>2, <1>1, <1>4, <1>5 DEF Submitting
<1> QED
  BY <1>4, <1>7, <1>9, <1>10, <1>11, <1>12, MinerStep DEF InPhase

(* A miner's stats come once a block, and it rests.                        *)
LEMMA SendStatsKeeps == \A m \in Miners : MiningInv /\ SendStats(m) => MiningInv'
<1> SUFFICES ASSUME NEW m \in Miners, MiningInv, SendStats(m) PROVE MiningInv'
  OBVIOUS
<1> DEFINE ch == statsAggregate[block]
<1>1. mpc[m] = "stats" /\ Submitting(m)
  BY DEF SendStats, MiningInv, InPhase, Resting, Searching, Submitting, Finished, Returned
<1>2. rankings[m] = block /\ writer[m] = block /\ block \in Blocks
      /\ m \notin Answered /\ SubmitSent(m) /\ commands[m] = <<>>
  BY <1>1 DEF Submitting, MiningInv, ListsInv, TypeOK
<1>3. /\ statsAggregate' = [statsAggregate EXCEPT ![block] = Append(ch, m)]
      /\ paused' = [paused EXCEPT ![m] = TRUE]
      /\ mpc' = [mpc EXCEPT ![m] = "run"] /\ UNCHANGED coordVars
      /\ UNCHANGED <<commands, oprhash, writer, rankings, list, cancelled>>
      /\ UNCHANGED <<added, minerLists, aggregate, wpc>>
  BY <1>2 DEF SendStats, writerVars
<1>4. /\ UNCHANGED <<cpc, mining, block, next, cm, groupStats>>
      /\ statsAggregate \in [Blocks -> Seq(Miners)] /\ ch \in Seq(Miners)
      /\ mpc \in [Miners -> {"init", "run", "submit", "stats", "done"}]
      /\ paused \in [Miners -> BOOLEAN]
  BY <1>2, <1>3 DEF MiningInv, TypeOK, coordVars
<1>5. /\ CoordinatorInv'
      /\ \A n \in Miners : SubmitSent(n)' <=> SubmitSent(n)
      /\ (Between' <=> Between) /\ (Counting' <=> Counting)
  BY <1>3, CoordinatorUntouched DEF MiningInv
<1>6. /\ Append(ch, m) \in Seq(Miners)
      /\ Range(Append(ch, m)) = Range(ch) \cup {m}
      /\ IsInjective(Append(ch, m))
  <2>1. IsInjective(ch) /\ m \notin Range(ch)
    BY <1>2 DEF MiningInv, StatsInv, Answered
  <2> QED
    BY <2>1, <1>4, RangeAppend
<1>7. /\ statsAggregate' \in [Blocks -> Seq(Miners)] /\ statsAggregate'[block] = Append(ch, m)
      /\ \A b \in Blocks : b # block => statsAggregate'[b] = statsAggregate[b]
  BY <1>2, <1>3, <1>4, <1>6
<1> HIDE DEF ch
<1>8. Answered' = Answered \cup {m}
  <2>1. Answered = Range(ch) \cup (IF Counting THEN groupStats ELSE {})
    BY DEF Answered, ch
  <2>2. Answered' = Range(Append(ch, m)) \cup (IF Counting THEN groupStats ELSE {})
    BY <1>4, <1>5, <1>7 DEF Answered
  <2> QED
    BY <2>1, <2>2, <1>6
<1>9. TypeOK'
  <2>1. /\ mpc' \in [Miners -> {"init", "run", "submit", "stats", "done"}]
        /\ paused' \in [Miners -> BOOLEAN]
    BY <1>3, <1>4
  <2> QED
    BY <2>1, <1>3, <1>4, <1>7 DEF MiningInv, TypeOK
<1>10. /\ \A b \in Blocks : Received(b)' = Received(b)
       /\ \A n \in Miners : HandedIn(n)' <=> HandedIn(n)
  <2>1. \A b \in Blocks : Received(b)' = Received(b)
    BY <1>3 DEF Received
  <2>2. Received(block)' = Received(block)
    BY <1>3, <1>4 DEF Received
  <2> QED
    BY <2>1, <2>2 DEF HandedIn
<1>11. FutureInv' /\ ListsInv'
  BY <1>2, <1>3, <1>4, <1>7, <1>10, Sizes DEF MiningInv, FutureInv, ListsInv
<1>12. StatsInv'
  <2>1. \A n \in Answered' : SubmitSent(n)'
    BY <1>2, <1>5, <1>8, AnsweredAreMiners
  <2>2. ~Between \/ block = 0
    BY <1>2, Sizes DEF MiningInv, StatsInv, Answered, Counting
  <2>3. statsAggregate'[block'] = Append(ch, m)
    BY <1>4, <1>7
  <2>4. cpc = "stats" => m \notin groupStats /\ Range(ch) \cap groupStats = {}
    BY <1>2 DEF Answered, Counting, MiningInv, StatsInv, ch
  <2>5. cpc' = "stats" => cm' = Cardinality(groupStats')
    BY <1>4 DEF MiningInv, StatsInv
  <2>6. cpc' = "stats" => Range(Append(ch, m)) \cap groupStats' = {}
    BY <2>4, <1>4, <1>6
  <2> QED
    BY <2>1, <2>2, <2>3, <2>5, <2>6, <1>2, <1>4, <1>5, <1>6, Sizes DEF StatsInv
<1>13. ASSUME NEW n \in Miners PROVE InPhase(n)'
  <2>1. CASE n # m
    <3>1. InPhase(n) /\ mpc'[n] = mpc[n] /\ paused'[n] = paused[n]
      BY <2>1, <1>3, <1>4 DEF MiningInv
    <3> QED
      BY <3>1, <2>1, <1>3, <1>4, <1>8, <1>10, MinerUntouched
  <2>2. CASE n = m
    <3>1. mpc'[m] = "run" /\ paused'[m]
      BY <1>3, <1>4
    <3> QED
      BY <3>1, <2>2, <1>2, <1>3, <1>8 DEF InPhase, Finished
  <2> QED
    BY <2>1, <2>2
<1> QED
  BY <1>5, <1>9, <1>11, <1>12, <1>13 DEF MiningInv

(* A nonce found goes to the list of the block whose OPR it was found on.  *)
LEMMA AddNonceKeeps == \A m \in Miners : MiningInv /\ AddNonce(m) => MiningInv'
<1> SUFFICES ASSUME NEW m \in Miners, MiningInv, AddNonce(m) PROVE MiningInv'
  OBVIOUS
<1>1. /\ list' = [list EXCEPT ![m][rankings[m]] = @ \cup {oprhash[m]}]
      /\ UNCHANGED coordVars
      /\ UNCHANGED <<commands, mpc, oprhash, writer, rankings, paused, statsAggregate, cancelled>>
      /\ UNCHANGED <<added, minerLists, aggregate, wpc>>
  BY DEF AddNonce, writerVars
<1>2. /\ rankings[m] \in Blocks /\ oprhash[m] = rankings[m]
      /\ list \in [Miners -> [Blocks -> SUBSET Blocks]]
  BY DEF MiningInv, TypeOK, ListsInv
<1>3. /\ list' \in [Miners -> [Blocks -> SUBSET Blocks]]
      /\ \A n \in Miners, b \in Blocks :
            list'[n][b] = IF n = m /\ b = rankings[m] THEN list[n][b] \cup {b} ELSE list[n][b]
  BY <1>1, <1>2
<1>4. TypeOK'
  BY <1>1, <1>3 DEF MiningInv, TypeOK, coordVars
<1>5. /\ \A b \in Blocks : Received(b)' = Received(b)
      /\ \A n \in Miners : HandedIn(n)' <=> HandedIn(n)
      /\ Answered' = Answered /\ FutureInv'
  BY <1>1, NothingSubmitted
<1>6. ListsInv'
  <2>1. \A n \in Miners, b \in Blocks : list'[n][b] \subseteq {b}
    <3> SUFFICES ASSUME NEW n \in Miners, NEW b \in Blocks PROVE list'[n][b] \subseteq {b}
      OBVIOUS
    <3>1. list[n][b] \subseteq {b}
      BY DEF MiningInv, ListsInv
    <3> QED
      BY <3>1, <1>3
  <2> QED
    BY <2>1, <1>1, <1>5 DEF MiningInv, ListsInv
<1>7. InPhase(m)'
  <2>1. InPhase(m) /\ UNCHANGED <<cpc, mining, block, next>>
    BY <1>1 DEF MiningInv, coordVars
  <2> QED
    BY <2>1, <1>1, <1>5, MinerUntouched
<1> QED
  BY <1>1, <1>4, <1>5, <1>6, <1>7, MinerStep

(* A cancelled miner returns with what it has in its channel.              *)
LEMMA MinerCancelledKeeps == \A m \in Miners : MiningInv /\ MinerCancelled(m) => MiningInv'
<1> SUFFICES ASSUME NEW m \in Miners, MiningInv, MinerCancelled(m) PROVE MiningInv'
  OBVIOUS
<1>1. /\ mpc' = [mpc EXCEPT ![m] = "done"] /\ mpc[m] \in {"init", "run"}
      /\ UNCHANGED coordVars
      /\ UNCHANGED <<commands, oprhash, writer, rankings, paused, list, statsAggregate, cancelled>>
      /\ UNCHANGED <<added, minerLists, aggregate, wpc>>
  BY DEF MinerCancelled, writerVars
<1>2. mpc'[m] = "done" /\ (\A n \in Miners : n # m => mpc'[n] = mpc[n])
      /\ mpc' \in [Miners -> {"init", "run", "submit", "stats", "done"}]
  BY <1>1 DEF MiningInv, TypeOK
<1>3. TypeOK'
  BY <1>1, <1>2 DEF MiningInv, TypeOK, coordVars
<1>4. /\ \A b \in Blocks : Received(b)' = Received(b)
      /\ \A n \in Miners : HandedIn(n)' <=> HandedIn(n)
      /\ Answered' = Answered /\ FutureInv'
  BY <1>1, NothingSubmitted
<1>5. ListsInv'
  BY <1>1, <1>4 DEF MiningInv, ListsInv
<1>6. Returned(m)'
  <2>1. (StartSent(m)' <=> StartSent(m)) /\ (SubmitSent(m)' <=> SubmitSent(m))
    BY <1>1, CoordinatorUntouched
  <2>2. Len(commands[m]) <= (IF StartSent(m) THEN 1 ELSE 0) + (IF SubmitSent(m) THEN 1 ELSE 0)
    <3>1. CASE Resting(m)
      <4>1. commands[m] = <<>> \/ commands[m] = <<StartOf(block)>>
            \/ commands[m] = <<StartOf(block), SubmitOf(block)>>
        BY <3>1 DEF Resting
      <4>2. commands[m] # <<>> => StartSent(m)
        BY <3>1 DEF Resting
      <4>3. commands[m] = <<StartOf(block), SubmitOf(block)>> => StartSent(m) /\ SubmitSent(m)
        BY <3>1, Batches DEF Resting
      <4> QED
        BY <4>1, <4>2, <4>3, Batches
    <3>2. CASE Searching(m)
      BY <3>2, Batches DEF Searching
    <3>3. CASE Finished(m)
      BY <3>3, Batches DEF Finished
    <3> QED
      BY <3>1, <3>2, <3>3, <1>1 DEF MiningInv, InPhase, Submitting, Returned
  <2>3. m \in Answered => commands[m] = <<>>
    BY <1>1 DEF MiningInv, InPhase, Resting, Searching, Submitting, Finished, Returned
  <2> QED
    BY <2>1, <2>2, <2>3, <1>1, <1>2, <1>4 DEF Returned
<1> QED
  BY <1>1, <1>2, <1>3, <1>4, <1>5, <1>6, MinerStep DEF InPhase
-----------------------------------------------------------------------------
(***************************************************************************)
(* The writers' steps and the context.                                     *)
(***************************************************************************)

(* A step that moves lists between a writer's channel and its aggregate    *)
(* changes nothing that a miner or the coordinator looks at.               *)
LEMMA WriterStep ==
  ASSUME MiningInv, UNCHANGED coordVars, UNCHANGED minerVars,
         UNCHANGED <<commands, statsAggregate>>, TypeOK',
         \A b \in Blocks : Received(b)' = Received(b)
  PROVE  MiningInv'
<1>1. block' = block /\ block \in Blocks /\ UNCHANGED <<cpc, mining, block, next>>
  BY DEF coordVars, MiningInv, TypeOK
<1>2. \A m \in Miners : HandedIn(m)' <=> HandedIn(m)
  <2>1. Received(block)' = Received(block)
    <3>1. aggregate'[block] \cup {minerLists'[block][k] : k \in DOMAIN minerLists'[block]}
            = Received(block)
      BY <1>1 DEF Received
    <3> QED
      BY <3>1, <1>1 DEF Received
  <2> QED
    BY <2>1 DEF HandedIn
<1>3. FutureInv' /\ ListsInv'
  BY <1>1 DEF MiningInv, FutureInv, ListsInv, minerVars
<1>4. /\ CoordinatorInv' /\ (Between' <=> Between) /\ (Counting' <=> Counting)
      /\ \A m \in Miners : SubmitSent(m)' <=> SubmitSent(m)
  BY CoordinatorUntouched DEF MiningInv
<1>5. Answered' = Answered
  BY <1>1, <1>4 DEF Answered, coordVars
<1>6. StatsInv'
  <2>1. \A m \in Answered' : SubmitSent(m)'
    BY <1>4, <1>5, AnsweredAreMiners
  <2> QED
    BY <2>1, <1>1, <1>4 DEF MiningInv, StatsInv, coordVars
<1>7. ASSUME NEW m \in Miners PROVE InPhase(m)'
  <2>1. InPhase(m) /\ mpc'[m] = mpc[m] /\ paused'[m] = paused[m] /\ rankings'[m] = rankings[m]
    BY DEF MiningInv, minerVars
  <2> QED
    BY <2>1, <1>1, <1>2, <1>5, MinerUntouched
<1> QED
  BY <1>3, <1>4, <1>6, <1>7 DEF MiningInv

(* A list gathered is still received.                                      *)
LEMMA GatherListKeeps == \A b \in Blocks : MiningInv /\ GatherList(b) => MiningInv'
<1> SUFFICES ASSUME NEW b \in Blocks, MiningInv, GatherList(b) PROVE MiningInv'
  OBVIOUS
<1> DEFINE ch == minerLists[b]
           full == Cardinality(aggregate'[b]) = Len(added[b])
<1>1. /\ ch # <<>>
      /\ aggregate' = [aggregate EXCEPT ![b] = @ \cup {Head(ch)}]
      /\ minerLists' = [minerLists EXCEPT ![b] = Tail(ch)]
      /\ wpc' = [wpc EXCEPT ![b] = IF full THEN "write" ELSE "collect"]
      /\ UNCHANGED coordVars /\ UNCHANGED minerVars
      /\ UNCHANGED <<commands, added, statsAggregate, cancelled>>
  BY DEF GatherList
<1>2. /\ ch \in Seq(Submission) /\ minerLists \in [Blocks -> Seq(Submission)]
      /\ aggregate \in [Blocks -> SUBSET Submission]
      /\ wpc \in [Blocks -> {"open", "collect", "write", "written"}]
  BY DEF MiningInv, TypeOK
<1>3. /\ Tail(ch) \in Seq(Submission) /\ Head(ch) \in Submission
      /\ Range(ch) = {Head(ch)} \cup Range(Tail(ch))
  BY <1>1, <1>2, RangeTail
<1> HIDE DEF full
<1>4. /\ minerLists' \in [Blocks -> Seq(Submission)]
      /\ aggregate' \in [Blocks -> SUBSET Submission]
      /\ wpc' \in [Blocks -> {"open", "collect", "write", "written"}]
      /\ minerLists'[b] = Tail(ch) /\ aggregate'[b] = aggregate[b] \cup {Head(ch)}
      /\ \A d \in Blocks : d # b => minerLists'[d] = minerLists[d] /\ aggregate'[d] = aggregate[d]
  BY <1>1, <1>2, <1>3
<1>5. TypeOK'
  BY <1>1, <1>4 DEF MiningInv, TypeOK, coordVars, minerVars
<1>6. ASSUME NEW d \in Blocks PROVE Received(d)' = Received(d)
  <2>1. CASE d = b
    <3>1. Received(d)' = aggregate'[b] \cup Range(minerLists'[b])
      BY <2>1 DEF Received, Range
    <3>2. Received(d) = aggregate[b] \cup Range(ch)
      BY <2>1 DEF Received, Range
    <3> QED
      BY <3>1, <3>2, <1>3, <1>4
  <2>2. CASE d # b
    BY <2>2, <1>4 DEF Received
  <2> QED
    BY <2>1, <2>2
<1> QED
  BY <1>1, <1>5, <1>6, WriterStep

(* Writing the block changes only where its writer is.                     *)
LEMMA WriteBlockKeeps == \A b \in Blocks : MiningInv /\ WriteBlock(b) => MiningInv'
<1> SUFFICES ASSUME NEW b \in Blocks, MiningInv, WriteBlock(b) PROVE MiningInv'
  OBVIOUS
<1>1. /\ wpc' = [wpc EXCEPT ![b] = "written"]
      /\ UNCHANGED coordVars /\ UNCHANGED minerVars
      /\ UNCHANGED <<commands, added, minerLists, aggregate, statsAggregate, cancelled>>
  BY DEF WriteBlock
<1>2. TypeOK'
  <2>1. wpc' \in [Blocks -> {"open", "collect", "write", "written"}]
    BY <1>1 DEF MiningInv, TypeOK
  <2> QED
    BY <2>1, <1>1 DEF MiningInv, TypeOK, coordVars, minerVars
<1>3. \A d \in Blocks : Received(d)' = Received(d)
  BY <1>1 DEF Received
<1> QED
  BY <1>1, <1>2, <1>3, WriterStep

(* The context's cancellation and a stuttering step change nothing else.   *)
LEMMA CancelKeeps ==
  MiningInv /\ (Cancel \/ UNCHANGED vars) => MiningInv'
<1> SUFFICES ASSUME MiningInv, Cancel \/ UNCHANGED vars PROVE MiningInv'
  OBVIOUS
<1>1. /\ UNCHANGED coordVars /\ UNCHANGED minerVars /\ UNCHANGED writerVars
      /\ UNCHANGED <<commands, statsAggregate>> /\ cancelled' \in {TRUE, cancelled}
  BY DEF Cancel, vars, coordVars, minerVars, writerVars
<1>2. TypeOK'
  <2>1. cancelled' \in BOOLEAN
    BY <1>1 DEF MiningInv, TypeOK
  <2> QED
    BY <2>1, <1>1 DEF MiningInv, TypeOK, coordVars, minerVars, writerVars
<1>3. \A d \in Blocks : Received(d)' = Received(d)
  BY <1>1 DEF Received, writerVars
<1> QED
  BY <1>1, <1>2, <1>3, WriterStep

(* Every step keeps the invariant.                                         *)
LEMMA NextInv == MiningInv /\ [Next]_vars => MiningInv'
<1> SUFFICES ASSUME MiningInv, [Next]_vars PROVE MiningInv'
  OBVIOUS
<1>1. CASE MinuteOne
  BY <1>1, MinuteOneKeeps
<1>2. CASE MinuteNine
  BY <1>2, MinuteNineKeeps
<1>3. CASE Cancel \/ UNCHANGED vars
  BY <1>3, CancelKeeps
<1>4. CASE Coordinator
  BY <1>4, SendStartKeeps, SendSubmitKeeps, CollectAndWriteKeeps, CollectStatsKeeps,
     CoordinatorCancelledKeeps DEF Coordinator
<1>5. ASSUME NEW m \in Miners, Miner(m) \/ AddNonce(m) PROVE MiningInv'
  BY <1>5, StartKeeps, ReadSubmitKeeps, SubmitNoncesKeeps, SendStatsKeeps, MinerCancelledKeeps,
     AddNonceKeeps DEF Miner
<1>6. ASSUME NEW b \in Blocks, Writer(b) PROVE MiningInv'
  BY <1>6, GatherListKeeps, WriteBlockKeeps DEF Writer
<1> QED
  BY <1>1, <1>2, <1>3, <1>4, <1>5, <1>6 DEF Next

(* The coordinator's, the miners' and the writers' state is always one of  *)
(* the barrier's: each miner is in a phase of the current block, its stats *)
(* come once and its list is of one block.                                 *)
THEOREM BarrierInvariant == Spec => []MiningInv
BY InitInv, NextInv, PTL DEF Spec

(* A list a writer receives holds nonces of its block's OPR only, for any  *)
(* number of miners and blocks and whenever the commands are read.         *)
THEOREM NoncesCorrect == Spec => []NoncesMatchOPR
<1>1. MiningInv => NoncesMatchOPR
  <2> SUFFICES ASSUME MiningInv, NEW b \in Blocks, NEW l \in Received(b)
               PROVE  list[l.miner][l.list] \subseteq {b}
    BY DEF NoncesMatchOPR
  <2>1. l \in Submission
    <3>1. minerLists[b] \in Seq(Submission) /\ aggregate[b] \subseteq Submission
      BY DEF MiningInv, TypeOK
    <3>2. Range(minerLists[b]) \subseteq Submission
      BY <3>1, ElementOfSeq DEF Range
    <3> QED
      BY <3>1, <3>2, ReceivedIs
  <2>2. l.miner \in Miners /\ l.list = b
    BY <2>1 DEF Submission, MiningInv, ListsInv
  <2> QED
    BY <2>2 DEF MiningInv, ListsInv
<1> QED
  BY <1>1, BarrierInvariant, PTL

(* Blocks do not overlap: when the coordinator is between two of them,     *)
(* every miner has answered and rests with an empty channel, and no        *)
(* channel ever holds more than one block's two batches.                   *)
THEOREM BlocksApart == Spec => []BlocksDoNotOverlap
<1>1. MiningInv => BlocksDoNotOverlap
  <2> SUFFICES ASSUME MiningInv PROVE BlocksDoNotOverlap
    OBVIOUS
  <2>1. ASSUME cpc = "wait", ~mining, block > 0
        PROVE  /\ groupStats = Miners /\ statsAggregate[block] = <<>>
               /\ \A m \in Miners : mpc[m] # "done" => commands[m] = <<>> /\ paused[m]
    <3>1. Between /\ groupStats = Miners /\ statsAggregate[block] = <<>>
      BY <2>1 DEF Between, MiningInv, StatsInv
    <3>2. \A m \in Miners : m \in Answered
      BY <3>1 DEF Answered, Counting
    <3> QED
      BY <3>1, <3>2 DEF MiningInv, InPhase, Resting, Searching, Submitting, Finished, Returned
  <2>2. ASSUME NEW m \in Miners PROVE Len(commands[m]) <= 2
    <3>1. CASE Returned(m)
      <4>1. commands[m] \in Seq(Command)
        BY DEF MiningInv, TypeOK
      <4> QED
        BY <4>1, <3>1 DEF Returned
    <3>2. CASE ~Returned(m)
      <4>1. \/ commands[m] = <<>> \/ commands[m] = <<StartOf(block)>>
            \/ commands[m] = <<SubmitOf(block)>>
            \/ commands[m] = <<StartOf(block), SubmitOf(block)>>
        BY <3>2 DEF MiningInv, InPhase, Resting, Searching, Submitting, Finished
      <4>2. /\ Len(<<>>) = 0 /\ Len(<<StartOf(block)>>) = 1 /\ Len(<<SubmitOf(block)>>) = 1
            /\ Len(<<StartOf(block), SubmitOf(block)>>) = 2
        BY Batches
      <4>3. Len(commands[m]) \in {0, 1, 2}
        BY <4>1, <4>2, Zenon
      <4>4. \A k \in {0, 1, 2} : k <= 2
        OBVIOUS
      <4> QED
        BY <4>3, <4>4, Zenon
    <3> QED
      BY <3>1, <3>2
  <2> QED
    BY <2>1, <2>2 DEF BlocksDoNotOverlap
<1> QED
  BY <1>1, BarrierInvariant, PTL

(* A list a miner has submitted never changes again.                       *)
THEOREM ListsFrozen == Spec => SubmittedListIsFrozen
<1> DEFINE Frozen == \A b \in Blocks : \A l \in Received(b) :
                        list'[l.miner][l.list] = list[l.miner][l.list]
<1>1. ASSUME MiningInv, [Next]_vars PROVE [Frozen]_vars
  <2>1. CASE list' = list
    BY <2>1
  <2>2. ASSUME NEW m \in Miners, AddNonce(m) PROVE Frozen
    <3>1. Searching(m)
      BY <2>2, <1>1 DEF AddNonce, MiningInv, InPhase, Resting, Searching, Submitting, Finished,
                        Returned
    <3>2. rankings[m] = block /\ ~HandedIn(m)
      BY <3>1 DEF Searching
    <3>3. ASSUME NEW b \in Blocks, NEW l \in Received(b)
          PROVE  list'[l.miner][l.list] = list[l.miner][l.list]
      <4>1. l.list = b
        BY <1>1 DEF MiningInv, ListsInv
      <4>2. l.miner # m \/ l.list # rankings[m]
        BY <4>1, <3>2 DEF HandedIn
      <4>3. list' = [list EXCEPT ![m] = [list[m] EXCEPT ![rankings[m]] = @ \cup {oprhash[m]}]]
        BY <2>2 DEF AddNonce
      <4>4. list \in [Miners -> [Blocks -> SUBSET Blocks]]
        BY <1>1 DEF MiningInv, TypeOK
      <4>5. CASE l.miner # m
        BY <4>3, <4>4, <4>5
      <4>6. CASE l.list # rankings[m]
        BY <4>1, <4>3, <4>4, <4>6
      <4> QED
        BY <4>2, <4>5, <4>6
    <3> QED
      BY <3>3
  <2>3. list' = list \/ \E m \in Miners : AddNonce(m)
    <3>1. ASSUME NEW m \in Miners, Miner(m) PROVE list' = list
      BY <3>1 DEF Miner, Start, ReadSubmit, SubmitNonces, SendStats, MinerCancelled
    <3>2. ASSUME NEW b \in Blocks, Writer(b) PROVE list' = list
      BY <3>2 DEF Writer, GatherList, WriteBlock, minerVars
    <3>3. ASSUME MinuteOne \/ MinuteNine \/ Cancel \/ Coordinator PROVE list' = list
      BY <3>3 DEF MinuteOne, MinuteNine, Cancel, Coordinator, SendStart, SendSubmit,
                  CollectAndWrite, CollectStats, CoordinatorCancelled, minerVars
    <3>4. ASSUME UNCHANGED vars PROVE list' = list
      BY <3>4 DEF vars
    <3> QED
      BY <1>1, <3>1, <3>2, <3>3, <3>4 DEF Next
  <2> QED
    BY <2>1, <2>2, <2>3
<1> QED
  BY <1>1, BarrierInvariant, PTL DEF Spec, SubmittedListIsFrozen
-----------------------------------------------------------------------------
(***************************************************************************)
(* Who is left out of a block. A miner registers once per block, on the    *)
(* command of minute 1, and submits only to the writer it has registered   *)
(* with, so a writer with as many lists as miners has one of each.         *)
(***************************************************************************)
(* The miner has not been sent the batch of minute 1, or not read it.      *)
Pending(m) == ~StartSent(m) \/ (commands[m] # <<>> /\ commands[m][1] = StartOf(block))

Active == {"run", "submit", "stats"}
Stopped == {"write", "written"}

(* A stopped writer's lists are those of the first that registered.        *)
FirstCame(b) ==
  /\ Cardinality(aggregate[b]) <= Len(added[b])
  /\ {l.miner : l \in aggregate[b]} = {added[b][k] : k \in 1..Cardinality(aggregate[b])}

LateInv ==
  /\ \A b \in Blocks : IsInjective(added[b]) /\ IsFiniteSet(aggregate[b])
  /\ \A b \in Blocks : b > block => added[b] = <<>>
  /\ \A m \in Miners : Pending(m) => m \notin Range(added[block])
  /\ \A m \in Miners : mpc[m] \in Active => m \in Range(added[writer[m]])
  /\ \A b \in Blocks : \A l \in Received(b) : l.miner \in Range(added[b])
  /\ \A b \in Blocks : wpc[b] \in Stopped => FirstCame(b)

(* Before the first minute nobody has registered.                          *)
LEMMA InitLate == Init => LateInv
<1> SUFFICES ASSUME Init PROVE LateInv
  OBVIOUS
<1>1. /\ block = 0 /\ 0 \in Blocks /\ \A b \in Blocks : added[b] = <<>> /\ aggregate[b] = {}
      /\ \A b \in Blocks : minerLists[b] = <<>> /\ wpc[b] = "open"
      /\ \A m \in Miners : mpc[m] = "init"
  BY Sizes DEF Init
<1>2. \A b \in Blocks : Range(added[b]) = {} /\ IsInjective(added[b]) /\ Received(b) = {}
  BY <1>1, RangeEmpty, ReceivedIs
<1>3. \A b \in Blocks : IsFiniteSet(aggregate[b])
  BY <1>1, FS_EmptySet
<1> QED
  BY <1>1, <1>2, <1>3 DEF LateInv, Active, Stopped

(* A step that registers nobody, takes no list in and begins no block.     *)
LEMMA LateFrame ==
  ASSUME LateInv, UNCHANGED <<block, added, writer, aggregate>>,
         \A m \in Miners : Pending(m)' => Pending(m),
         \A m \in Miners : mpc'[m] \in Active => mpc[m] \in Active,
         \A b \in Blocks : \A l \in Received(b)' : l \in Received(b) \/ l.miner \in Range(added[b]),
         \A b \in Blocks : wpc'[b] \in Stopped => wpc[b] \in Stopped
  PROVE  LateInv'
<1>1. \A b \in Blocks : IsInjective(added'[b]) /\ IsFiniteSet(aggregate'[b])
  BY DEF LateInv
<1>2. \A b \in Blocks : b > block' => added'[b] = <<>>
  BY DEF LateInv
<1>3. \A m \in Miners : Pending(m)' => m \notin Range(added'[block'])
  BY DEF LateInv
<1>4. \A m \in Miners : mpc'[m] \in Active => m \in Range(added'[writer'[m]])
  BY DEF LateInv
<1>5. \A b \in Blocks : \A l \in Received(b)' : l.miner \in Range(added'[b])
  BY DEF LateInv
<1>6. \A b \in Blocks : wpc'[b] \in Stopped => FirstCame(b)'
  BY DEF LateInv, FirstCame
<1> QED
  BY <1>1, <1>2, <1>3, <1>4, <1>5, <1>6 DEF LateInv, Active, Stopped

(* A step of the coordinator that sends nothing.                           *)
LEMMA LateCoordinator ==
  ASSUME MiningInv, LateInv, UNCHANGED <<block, commands, minerVars, added, minerLists, aggregate>>,
         cpc # "start", cpc' # "start", \A b \in Blocks : wpc'[b] \in Stopped => wpc[b] \in Stopped
  PROVE  LateInv'
<1>1. \A m \in Miners : Pending(m)' => Pending(m)
  BY DEF Pending, StartSent
<1>2. \A b \in Blocks : Received(b)' = Received(b)
  BY DEF Received
<1>3. writer' = writer /\ mpc' = mpc
  BY DEF minerVars
<1> QED
  BY <1>1, <1>2, <1>3, LateFrame

(* A block begins, with a new writer.                                      *)
LEMMA LateMinuteOne == MiningInv /\ LateInv /\ MinuteOne => LateInv'
<1> SUFFICES ASSUME MiningInv, LateInv, MinuteOne PROVE LateInv'
  OBVIOUS
<1>1. /\ block' = block + 1 /\ block \in Blocks /\ block' \in Blocks /\ added' = added
      /\ writer' = writer /\ mpc' = mpc /\ aggregate' = aggregate /\ minerLists' = minerLists /\ wpc' = wpc
  BY Sizes DEF MinuteOne, MiningInv, TypeOK, Blocks, minerVars, writerVars
<1>2. added[block + 1] = <<>> /\ Range(added'[block']) = {}
  BY <1>1, RangeEmpty, Sizes DEF LateInv
<1>3. \A b \in Blocks : b > block' => b > block
  BY <1>1, Sizes
<1>4. \A b \in Blocks : Received(b)' = Received(b) /\ (FirstCame(b) => FirstCame(b)')
  BY <1>1 DEF Received, FirstCame
<1>5. \A b \in Blocks : b > block' => added'[b] = <<>>
  BY <1>1, <1>3 DEF LateInv
<1>6. \A m \in Miners : Pending(m)' => m \notin Range(added'[block'])
  BY <1>2
<1>7. \A b \in Blocks : wpc'[b] \in Stopped => FirstCame(b)'
  BY <1>1, <1>4 DEF LateInv
<1> QED
  BY <1>1, <1>4, <1>5, <1>6, <1>7 DEF LateInv, Active, Stopped

(* A command is sent: the batch of minute 1 to a miner that is waiting for *)
(* it, that of minute 9 behind what there is.                              *)
LEMMA LateSend == MiningInv /\ LateInv /\ (SendStart \/ SendSubmit) => LateInv'
<1> SUFFICES ASSUME MiningInv, LateInv, SendStart \/ SendSubmit PROVE LateInv'
  OBVIOUS
<1>1. UNCHANGED <<block, added, writer, aggregate, mpc, minerLists, wpc>>
  BY DEF SendStart, SendSubmit, minerVars, writerVars
<1>2. \A b \in Blocks : Received(b)' = Received(b)
  BY <1>1 DEF Received
<1>3. ASSUME NEW m \in Miners, Pending(m)' PROVE Pending(m)
  <2>1. CASE SendStart
    <3>1. /\ cpc = "start" /\ next' = next + 1 /\ cpc' \in {"wait", "start"} /\ block > 0
          /\ next \in Nat /\ m \in Nat /\ (m # next => commands'[m] = commands[m])
      <4>1. SendTo("start") /\ cpc' \in {"wait", "start"}
        BY <2>1 DEF SendStart
      <4> QED
        BY <4>1, SendToFrame, Sizes DEF MiningInv, CoordinatorInv
    <3>2. CASE m = next
      BY <3>1, <3>2 DEF Pending, StartSent
    <3>3. CASE m # next
      BY <3>1, <3>3, <1>1, <1>3 DEF Pending, StartSent
    <3> QED
      BY <3>2, <3>3
  <2>2. CASE SendSubmit
    <3>1. /\ cpc = "submit" /\ cpc' \in {"write", "submit"}
          /\ (m # next => commands'[m] = commands[m]) /\ next \in Miners
          /\ commands'[next] = Append(commands[next], SubmitOf(block))
      <4>1. SendTo("submit") /\ cpc' \in {"write", "submit"}
        BY <2>2 DEF SendSubmit
      <4> QED
        BY <4>1, SendToFrame DEF SubmitOf
    <3>2. CASE m = next
      <4>1. commands[m] \in Seq(Command) /\ SubmitOf(block) \in Command /\ SubmitOf(block) # StartOf(block)
        BY DEF MiningInv, TypeOK, Command, SubmitOf, StartOf
      <4>2. CASE commands[m] = <<>>
        <5>1. commands'[m] = <<SubmitOf(block)>>
          BY <4>2, <3>1, <3>2, Batches
        <5>2. commands'[m][1] = SubmitOf(block)
          BY <5>1, Batches
        <5> QED
          BY <5>2, <4>1, <3>1, <1>1, <1>3 DEF Pending, StartSent, StartOf
      <4>3. CASE commands[m] # <<>>
        <5>1. commands'[m][1] = commands[m][1]
          <6>1. Len(commands[m]) \in Nat /\ Len(commands[m]) >= 1
            BY <4>1, <4>3
          <6> QED
            BY <6>1, <4>1, <3>1, <3>2, AppendProperties
        <5> QED
          BY <5>1, <4>3, <3>1, <1>1, <1>3 DEF Pending, StartSent
      <4> QED
        BY <4>2, <4>3
    <3>3. CASE m # next
      BY <3>1, <3>3, <1>1, <1>3 DEF Pending, StartSent
    <3> QED
      BY <3>2, <3>3
  <2> QED
    BY <2>1, <2>2
<1> QED
  BY <1>1, <1>2, <1>3, LateFrame

(* A miner registers with the block's writer, for the first time.          *)
LEMMA LateStart == \A m \in Miners : MiningInv /\ LateInv /\ Start(m) => LateInv'
<1> SUFFICES ASSUME NEW m \in Miners, MiningInv, LateInv, Start(m) PROVE LateInv'
  OBVIOUS
<1>1. /\ \A n \in Miners : n # m => commands'[n] = commands[n]
      /\ commands'[m] = IF SubmitSent(m) THEN <<SubmitOf(block)>> ELSE <<>>
      /\ Command1(m).block = block /\ Resting(m) /\ StartSent(m)
  <2>1. Reads(m, "start")
    BY DEF Start
  <2> QED
    BY <2>1, ReadsInPhase
<1>2. /\ added' = [added EXCEPT ![block] = Append(added[block], m)]
      /\ writer' = [writer EXCEPT ![m] = block] /\ mpc' = [mpc EXCEPT ![m] = "run"]
      /\ UNCHANGED <<cpc, block, next, minerLists, aggregate, wpc>>
  BY <1>1 DEF Start, coordVars
<1>3. /\ block \in Blocks /\ added \in [Blocks -> Seq(Miners)] /\ writer \in [Miners -> Blocks]
      /\ DOMAIN mpc = Miners
  BY DEF MiningInv, TypeOK
<1>4. Pending(m)
  <2>1. commands[m] = IF SubmitSent(m) THEN <<StartOf(block), SubmitOf(block)>> ELSE <<StartOf(block)>>
    BY <1>1 DEF Resting
  <2>2. commands[m] # <<>> /\ commands[m][1] = StartOf(block)
    BY <2>1, Batches
  <2> QED
    BY <2>2 DEF Pending
<1>5. PICK a \in Seq(Miners) : a = added[block]
  BY <1>3
<1>6. /\ added'[block] = Append(a, m) /\ Append(a, m) \in Seq(Miners)
      /\ Range(added'[block]) = Range(a) \cup {m} /\ IsInjective(added'[block])
  <2>1. m \notin Range(a) /\ IsInjective(a)
    BY <1>3, <1>4, <1>5 DEF LateInv
  <2>2. added'[block] = Append(a, m)
    BY <1>2, <1>3, <1>5
  <2> QED
    BY <2>1, <2>2, <1>5, RangeAppend
<1>7. \A b \in Blocks : b # block => added'[b] = added[b]
  BY <1>2, <1>3
<1>8. \A b \in Blocks : IsInjective(added'[b]) /\ Range(added[b]) \subseteq Range(added'[b])
  BY <1>5, <1>6, <1>7 DEF LateInv
<1>9. \A b \in Blocks : b > block' => added'[b] = <<>>
  <2>1. \A b \in Blocks : b > block => b # block
    BY <1>3, Sizes
  <2> QED
    BY <2>1, <1>2, <1>7 DEF LateInv
<1>10. ASSUME NEW n \in Miners, Pending(n)' PROVE n \notin Range(added'[block'])
  <2>1. StartSent(n)' <=> StartSent(n)
    BY <1>2 DEF StartSent
  <2>2. n # m
    <3>1. SubmitOf(block) # StartOf(block) /\ <<SubmitOf(block)>>[1] = SubmitOf(block)
      BY Batches DEF SubmitOf, StartOf
    <3>2. StartOf(block)' = StartOf(block)
      BY <1>2 DEF StartOf
    <3> QED
      BY <3>1, <3>2, <2>1, <1>1, <1>2, <1>10 DEF Pending
  <2>3. Pending(n)
    BY <2>1, <2>2, <1>1, <1>2, <1>10 DEF Pending, StartOf
  <2> QED
    BY <2>2, <2>3, <1>2, <1>5, <1>6 DEF LateInv
<1>11. ASSUME NEW n \in Miners, mpc'[n] \in Active PROVE n \in Range(added'[writer'[n]])
  <2>1. CASE n = m
    BY <2>1, <1>2, <1>3, <1>6
  <2>2. CASE n # m
    <3>1. writer'[n] = writer[n] /\ mpc'[n] = mpc[n] /\ writer[n] \in Blocks
      BY <2>2, <1>2, <1>3
    <3> QED
      BY <3>1, <1>8, <1>11 DEF LateInv
  <2> QED
    BY <2>1, <2>2
<1>12. \A b \in Blocks : Received(b)' = Received(b)
  BY <1>2 DEF Received
<1>13. ASSUME NEW b \in Blocks, wpc'[b] \in Stopped PROVE FirstCame(b)'
  <2>1. FirstCame(b)
    BY <1>2, <1>13 DEF LateInv
  <2>2. CASE b = block
    <3>0. Len(a) \in Nat /\ IsFiniteSet(aggregate[b])
      BY DEF LateInv
    <3>1. PICK c \in Nat, l \in Nat : c = Cardinality(aggregate[b]) /\ l = Len(a) /\ c <= l
      BY <3>0, <2>1, <2>2, <1>5, FS_CardinalityType DEF FirstCame
    <3>2. Len(added'[b]) = l + 1 /\ \A k \in 1..l : added'[b][k] = a[k]
      BY <3>1, <2>2, <1>5, <1>6, AppendProperties
    <3>3. {added'[b][k] : k \in 1..c} = {a[k] : k \in 1..c}
      <4>1. \A k \in 1..c : k \in 1..l
        BY <3>1
      <4>2. \A k \in 1..c : added'[b][k] = a[k]
        BY <4>1, <3>2
      <4> QED
        BY <4>2
    <3>4. {l2.miner : l2 \in aggregate[b]} = {a[k] : k \in 1..c}
      BY <3>1, <2>1, <2>2, <1>5 DEF FirstCame
    <3>5. c <= Len(added'[b])
      BY <3>1, <3>2
    <3> QED
      BY <3>1, <3>3, <3>4, <3>5, <1>2 DEF FirstCame
  <2>3. CASE b # block
    BY <2>1, <2>3, <1>2, <1>7 DEF FirstCame
  <2> QED
    BY <2>2, <2>3
<1>14. \A b \in Blocks : \A l \in Received(b)' : l.miner \in Range(added'[b])
  BY <1>8, <1>12 DEF LateInv
<1> QED
  BY <1>2, <1>8, <1>9, <1>10, <1>11, <1>13, <1>14 DEF LateInv, Active, Stopped

(* A miner's other steps.                                                  *)
LEMMA LateMiner ==
  \A m \in Miners :
    MiningInv /\ LateInv
      /\ (ReadSubmit(m) \/ SubmitNonces(m) \/ SendStats(m) \/ MinerCancelled(m) \/ AddNonce(m))
    => LateInv'
<1> SUFFICES ASSUME NEW m \in Miners, MiningInv, LateInv,
                    ReadSubmit(m) \/ SubmitNonces(m) \/ SendStats(m) \/ MinerCancelled(m) \/ AddNonce(m)
             PROVE  LateInv'
  OBVIOUS
<1>1. UNCHANGED <<cpc, block, next, added, writer, aggregate, wpc>>
  BY DEF ReadSubmit, SubmitNonces, SendStats, MinerCancelled, AddNonce, coordVars, writerVars
<1>2. ASSUME NEW n \in Miners, Pending(n)' PROVE Pending(n)
  <2>1. commands'[n] = commands[n] \/ commands'[n] = <<>>
    <3>1. CASE ReadSubmit(m)
      <4>1. Reads(m, "submit")
        BY <3>1 DEF ReadSubmit
      <4> QED
        BY <4>1, ReadsInPhase
    <3>2. CASE ~ReadSubmit(m)
      BY <3>2 DEF SubmitNonces, SendStats, MinerCancelled, AddNonce
    <3> QED
      BY <3>1, <3>2
  <2> QED
    BY <2>1, <1>1, <1>2 DEF Pending, StartSent, StartOf
<1>3. ASSUME NEW n \in Miners, mpc'[n] \in Active PROVE mpc[n] \in Active
  <2>1. DOMAIN mpc = Miners
    BY DEF MiningInv, TypeOK
  <2>2. CASE ReadSubmit(m)
    <3>1. mpc' = [mpc EXCEPT ![m] = "submit"] /\ Searching(m)
      <4>1. Reads(m, "submit") /\ mpc' = [mpc EXCEPT ![m] = "submit"]
        BY <2>2 DEF ReadSubmit
      <4> QED
        BY <4>1, ReadsInPhase
    <3> QED
      BY <3>1, <2>1, <1>3 DEF Searching, Active
  <2>3. CASE ~ReadSubmit(m)
    BY <2>1, <2>3, <1>3 DEF SubmitNonces, SendStats, MinerCancelled, AddNonce, Active
  <2> QED
    BY <2>2, <2>3
<1>4. ASSUME NEW b \in Blocks, NEW l \in Received(b)'
      PROVE  l \in Received(b) \/ l.miner \in Range(added[b])
  <2>1. CASE SubmitNonces(m)
    <3>0. PICK w \in Blocks : w = writer[m]
      BY DEF MiningInv, TypeOK
    <3> DEFINE x == [miner |-> m, list |-> rankings[m]]
    <3>1. /\ minerLists' = [minerLists EXCEPT ![w] = Append(minerLists[w], x)]
          /\ mpc[m] = "submit" /\ minerLists \in [Blocks -> Seq(Submission)]
      BY <2>1, <3>0 DEF SubmitNonces, MiningInv, TypeOK
    <3>2. m \in Range(added[w]) /\ x.miner = m /\ x \in Submission
      BY <3>0, <3>1 DEF LateInv, Active, MiningInv, TypeOK, Submission
    <3>3. CASE b = w
      <4>1. Range(minerLists'[b]) = Range(minerLists[b]) \cup {x}
        <5>1. minerLists'[b] = Append(minerLists[b], x) /\ minerLists[b] \in Seq(Submission)
          BY <3>1, <3>3
        <5> HIDE DEF x
        <5> QED
          BY <5>1, <3>2, RangeAppend
      <4>2. Received(b)' = aggregate[b] \cup Range(minerLists'[b])
        BY <1>1 DEF Received, Range
      <4>3. l = x \/ l \in Received(b)
        BY <4>1, <4>2, ReceivedIs
      <4> QED
        BY <4>3, <3>2, <3>3
    <3>4. CASE b # w
      BY <3>1, <3>4, <1>1 DEF Received
    <3> QED
      BY <3>3, <3>4
  <2>2. CASE ~SubmitNonces(m)
    <3>1. minerLists' = minerLists
      BY <2>2 DEF ReadSubmit, SendStats, MinerCancelled, AddNonce, writerVars
    <3> QED
      BY <3>1, <1>1 DEF Received
  <2> QED
    BY <2>1, <2>2
<1> QED
  BY <1>1, <1>2, <1>3, <1>4, LateFrame

(* As many lists as miners, of different miners: one of each.              *)
LEMMA OneOfEach ==
  ASSUME NEW b \in Blocks, NEW A, NEW a \in Seq(Miners), IsFiniteSet(A), A \subseteq Submission,
         \A l \in A : l.list = b /\ l.miner \in Range(a),
         IsInjective(a), Cardinality(A) = Len(a)
  PROVE  {l.miner : l \in A} = {a[k] : k \in 1..Len(a)}
<1>0. Len(a) \in Nat /\ DOMAIN a = 1..Len(a)
  OBVIOUS
<1>1. PICK n \in Nat : n = Len(a)
  BY <1>0
<1> DEFINE M == {l.miner : l \in A}
           f == [k \in 1..n |-> a[k]]
           g == [l \in A |-> l.miner]
<1>2. IsFiniteSet(1..n) /\ Cardinality(1..n) = n
  <2>1. 1 \in Int /\ n \in Int
    OBVIOUS
  <2>2. /\ IsFiniteSet(1..n)
        /\ Cardinality(1..n) = IF 1 > n THEN 0 ELSE n - 1 + 1
    BY <2>1, FS_Interval, Zenon
  <2> QED
    BY <2>2
<1>3. f \in Bijection(1..n, Range(a))
  <2>1. f \in [1..n -> Range(a)] /\ \A r \in Range(a) : \E k \in 1..n : f[k] = r
    BY <1>0, <1>1 DEF Range
  <2>2. \A i, j \in 1..n : f[i] = f[j] => i = j
    BY <1>0, <1>1 DEF IsInjective
  <2> HIDE DEF f
  <2> QED
    BY <2>1, <2>2 DEF Bijection, Injection, Surjection, IsInjective
<1>4. IsFiniteSet(Range(a)) /\ Cardinality(Range(a)) = n
  <2> HIDE DEF f
  <2> QED
    BY <1>2, <1>3, FS_Bijection DEF ExistsBijection
<1>5. g \in Bijection(A, M)
  <2>1. \A l \in A : l = [miner |-> l.miner, list |-> b]
    BY DEF Submission
  <2>2. g \in [A -> M] /\ \A m \in M : \E l \in A : g[l] = m
    OBVIOUS
  <2>3. \A l, k \in A : g[l] = g[k] => l = k
    BY <2>1
  <2> HIDE DEF g, M
  <2> QED
    BY <2>2, <2>3 DEF Bijection, Injection, Surjection, IsInjective
<1>6. IsFiniteSet(M) /\ Cardinality(M) = n
  <2> HIDE DEF g, M
  <2> QED
    BY <1>1, <1>5, FS_Bijection DEF ExistsBijection
<1>7. M \subseteq Range(a)
  OBVIOUS
<1>8. M = Range(a)
  <2> HIDE DEF M
  <2> QED
    BY <1>4, <1>6, <1>7, FS_Subset
<1>9. Range(a) = {a[k] : k \in 1..n}
  BY <1>0, <1>1 DEF Range
<1> QED
  BY <1>1, <1>8, <1>9

(* A writer takes in a list, and stops if it has one of each miner.        *)
LEMMA LateGather == \A b \in Blocks : MiningInv /\ LateInv /\ GatherList(b) => LateInv'
<1> SUFFICES ASSUME NEW b \in Blocks, MiningInv, LateInv, GatherList(b) PROVE LateInv'
  OBVIOUS
<1>0. UNCHANGED <<cpc, block, next, commands, mpc, writer, added>>
  BY DEF GatherList, coordVars, minerVars
<1>1. PICK ch \in Seq(Submission) : ch = minerLists[b] /\ ch # <<>>
  BY DEF GatherList, MiningInv, TypeOK
<1> DEFINE x == Head(ch)
<1>2. /\ aggregate' = [aggregate EXCEPT ![b] = aggregate[b] \cup {x}]
      /\ minerLists' = [minerLists EXCEPT ![b] = Tail(ch)]
      /\ wpc' = [wpc EXCEPT ![b] = IF Cardinality(aggregate'[b]) = Len(added[b]) THEN "write" ELSE "collect"]
      /\ wpc[b] = "collect"
  BY <1>1 DEF GatherList
<1> HIDE DEF x
<1>3. DOMAIN aggregate = Blocks /\ DOMAIN minerLists = Blocks /\ DOMAIN wpc = Blocks
      /\ added[b] \in Seq(Miners) /\ aggregate[b] \subseteq Submission
  BY DEF MiningInv, TypeOK
<1>4. Range(ch) = {x} \cup Range(Tail(ch)) /\ x \in Submission
  BY <1>1, RangeTail, HeadTailProperties DEF x
<1>5. aggregate'[b] = aggregate[b] \cup {x} /\ \A d \in Blocks : d # b => aggregate'[d] = aggregate[d]
  BY <1>2, <1>3
<1>6. \A d \in Blocks : Received(d)' = Received(d)
  <2>1. Received(b)' = Received(b)
    <3>1. Received(b)' = aggregate'[b] \cup Range(minerLists'[b])
      BY DEF Received, Range
    <3>2. minerLists'[b] = Tail(ch)
      BY <1>2, <1>3
    <3>3. Received(b) = aggregate[b] \cup Range(ch)
      BY <1>1, ReceivedIs
    <3> QED
      BY <3>1, <3>2, <3>3, <1>4, <1>5
  <2>2. \A d \in Blocks : d # b => Received(d)' = Received(d)
    BY <1>2, <1>3 DEF Received
  <2> QED
    BY <2>1, <2>2
<1>7. \A d \in Blocks : IsFiniteSet(aggregate'[d])
  <2>1. IsFiniteSet(aggregate[b] \cup {x})
    BY FS_AddElement DEF LateInv
  <2> QED
    BY <2>1, <1>5 DEF LateInv
<1>8. ASSUME NEW d \in Blocks, wpc'[d] \in Stopped PROVE FirstCame(d)'
  <2>1. CASE d = b
    <3>1. Cardinality(aggregate'[b]) = Len(added[b])
      BY <2>1, <1>2, <1>3, <1>8 DEF Stopped
    <3>2. x \in Received(b) /\ aggregate[b] \subseteq Received(b)
      BY <1>1, <1>4, ReceivedIs
    <3>3. \A l \in aggregate'[b] : l.list = b /\ l.miner \in Range(added[b])
      BY <3>2, <1>5 DEF LateInv, MiningInv, ListsInv
    <3>4. IsFiniteSet(aggregate'[b]) /\ aggregate'[b] \subseteq Submission /\ IsInjective(added[b])
      BY <1>3, <1>4, <1>5, <1>7 DEF LateInv
    <3>5. {l.miner : l \in aggregate'[b]} = {added[b][k] : k \in 1..Len(added[b])}
      BY <3>1, <3>3, <3>4, <1>3, OneOfEach
    <3>6. Len(added[b]) \in Nat
      BY <1>3
    <3>7. FirstCame(b)'
      <4>1. added'[b] = added[b] /\ Cardinality(aggregate'[b]) <= Len(added'[b])
        BY <3>1, <3>6, <1>0
      <4>2. {l.miner : l \in aggregate'[b]} = {added'[b][k] : k \in 1..Cardinality(aggregate'[b])}
        BY <4>1, <3>1, <3>5
      <4> QED
        BY <4>1, <4>2 DEF FirstCame
    <3> QED
      BY <3>7, <2>1
  <2>2. CASE d # b
    <3>1. FirstCame(d) /\ aggregate'[d] = aggregate[d]
      BY <2>2, <1>2, <1>3, <1>5, <1>8 DEF LateInv
    <3> QED
      BY <3>1, <1>0 DEF FirstCame
  <2> QED
    BY <2>1, <2>2
<1>9. \A m \in Miners : Pending(m)' <=> Pending(m)
  BY <1>0 DEF Pending, StartSent, StartOf
<1> QED
  BY <1>0, <1>6, <1>7, <1>8, <1>9 DEF LateInv, Active, Stopped

(* A writer stops with one list of each miner registered by then, the      *)
(* first in the order of registering, for any number of miners, however    *)
(* late some of them register.                                             *)
THEOREM LeftOutCorrect == Spec => []LeftOutAreLate
<1>1. ASSUME MiningInv, LateInv, [Next]_vars PROVE LateInv'
  <2>1. CASE MinuteOne
    BY <1>1, <2>1, LateMinuteOne
  <2>2. CASE SendStart \/ SendSubmit
    BY <1>1, <2>2, LateSend
  <2>3. CASE MinuteNine \/ CollectAndWrite \/ CollectStats \/ CoordinatorCancelled
    <3>1. UNCHANGED <<block, commands, minerVars, added, minerLists, aggregate>>
      BY <2>3 DEF MinuteNine, CollectAndWrite, CollectStats, CoordinatorCancelled, writerVars
    <3>2. cpc # "start" /\ cpc' # "start"
      BY <2>3 DEF MinuteNine, CollectAndWrite, CollectStats, CoordinatorCancelled
    <3>3. \A b \in Blocks : wpc'[b] \in Stopped => wpc[b] \in Stopped
      <4>1. CASE CollectAndWrite
        <5>1. wpc' = [wpc EXCEPT ![block] = IF wpc[block] = "open" THEN "collect" ELSE wpc[block]] /\ DOMAIN wpc = Blocks
          BY <1>1, <4>1 DEF CollectAndWrite, MiningInv, TypeOK
        <5> QED
          BY <5>1 DEF Stopped
      <4>2. CASE ~CollectAndWrite
        BY <2>3, <4>2 DEF MinuteNine, CollectStats, CoordinatorCancelled, writerVars
      <4> QED
        BY <4>1, <4>2
    <3> QED
      BY <1>1, <3>1, <3>2, <3>3, LateCoordinator
  <2>4. ASSUME NEW m \in Miners, Miner(m) \/ AddNonce(m) PROVE LateInv'
    BY <1>1, <2>4, LateStart, LateMiner DEF Miner
  <2>5. ASSUME NEW b \in Blocks, GatherList(b) PROVE LateInv'
    BY <1>1, <2>5, LateGather
  <2>6. CASE Cancel \/ UNCHANGED vars \/ \E b \in Blocks : WriteBlock(b)
    <3>1. UNCHANGED <<cpc, block, next, commands, writer, mpc, added, minerLists, aggregate>>
      BY <2>6 DEF Cancel, vars, WriteBlock, coordVars, minerVars, writerVars
    <3>2. \A b \in Blocks : wpc'[b] \in Stopped => wpc[b] \in Stopped
      <4>1. DOMAIN wpc = Blocks
        BY <1>1 DEF MiningInv, TypeOK
      <4> QED
        BY <4>1, <2>6 DEF Cancel, vars, WriteBlock, writerVars, Stopped
    <3>3. \A m \in Miners : Pending(m)' => Pending(m)
      BY <3>1 DEF Pending, StartSent, StartOf
    <3>4. \A b \in Blocks : Received(b)' = Received(b)
      BY <3>1 DEF Received
    <3> QED
      BY <1>1, <3>1, <3>2, <3>3, <3>4, LateFrame
  <2> QED
    BY <1>1, <2>1, <2>2, <2>3, <2>4, <2>5, <2>6 DEF Next, Coordinator, Writer
<1>2. LateInv => LeftOutAreLate
  BY DEF LateInv, LeftOutAreLate, FirstCame, Stopped
<1> QED
  BY <1>1, <1>2, InitLate, BarrierInvariant, PTL DEF Spec
=============================================================================
