--------------------------- MODULE ProcessesProofs --------------------------
(***************************************************************************)
(* Theorems about two groups of goroutines, for every value of their       *)
(* constants: the staking coordinator with its staker and writers          *)
(* (Staking), and the workers that fetch an eblock (ParallelFetch).        *)
(***************************************************************************)
EXTENDS Staking, ParallelFetch, CommonLemmas, FiniteSetTheorems, SequenceTheorems, TLAPS

(***************************************************************************)
(* One writer per staked block, for any number of blocks, addresses and    *)
(* retries, any capacity of the channels and any failure of the polls.     *)
(***************************************************************************)
Minutes == [Dbht : Nat \ {0}, Minute : {1, 8}]
Hashes == Nat \cup {Nothing}
Writers == [sprTemplate : Hashes, once : BOOLEAN,
            state : {"idle", "writing", "done", "failed"}, address : Nat \ {0}, tries : Nat]
Commands == [sprhash : Hashes, paused : BOOLEAN]

TypeOK ==
  /\ node \in Minutes /\ seen \in Minutes \cup {Nothing} /\ alert \in Seq(Minutes)
  /\ pc \in {"loop", "make", "start", "pause", "stopped"} /\ event \in Minutes \cup {Nothing}
  /\ staking \in BOOLEAN
  /\ writers \in Seq(Writers) /\ writer = Len(writers) /\ writer \in Nat \ {0}
  /\ commands \in Seq(Commands)
  /\ staker \in [running : BOOLEAN, paused : BOOLEAN, sprhash : Hashes]

(* Minutes come in the order of time, some of them twice.                  *)
NotAfter(e, f) == e.Dbht < f.Dbht \/ (e.Dbht = f.Dbht /\ e.Minute <= f.Minute)

OrderInv ==
  /\ seen # Nothing => NotAfter(seen, node)
  /\ event # Nothing => NotAfter(event, node)
  /\ \A i, j \in DOMAIN alert : i < j => NotAfter(alert[i], alert[j])
  /\ \A i \in DOMAIN alert : /\ NotAfter(alert[i], node)
                             /\ event # Nothing => NotAfter(event, alert[i])

(* Every writer after the first has the record of a height of its own, in  *)
(* order; a new one is made only past the heights of all the others.       *)
Template(i) == writers[i].sprTemplate
Passed(h) == h < event.Dbht \/ (h = event.Dbht /\ event.Minute = 8)

TemplatesInv ==
  /\ pc \in {"make", "start"} => staking
  /\ pc = "make" => event # Nothing /\ event.Minute = 1
  /\ pc = "pause" => ~staking
  /\ (staking /\ pc \in {"loop", "start"}) \/ pc = "pause" => writer > 1
  /\ Template(1) = Nothing
  /\ \A i \in 2..writer : /\ Template(i) \in Nat /\ event # Nothing /\ Template(i) <= event.Dbht
                          /\ ~staking \/ pc = "make" => Passed(Template(i))
  /\ \A i, j \in 2..writer : i < j => Template(i) < Template(j)

(* Minute 8 of a height that is or will be staked is still to come, or in  *)
(* the channel, or went unnoticed.                                         *)
Eight(h) == [Dbht |-> h, Minute |-> 8]
Noticed(h) ==
  \/ Eight(h) \in skipped
  \/ Eight(h) \in Range(alert)
  \/ NotAfter(node, [Dbht |-> h, Minute |-> 1])
  \/ node = Eight(h) /\ seen # node

NoticedInv ==
  /\ \A e \in Range(alert) : e.Minute = 1 => Noticed(e.Dbht)
  /\ pc = "make" => Noticed(event.Dbht)
  /\ staking /\ pc \in {"loop", "start"} => Noticed(Template(writer))
  /\ pc = "pause" => Template(writer) = event.Dbht \/ Eight(Template(writer)) \in skipped

(* What a writer has behind it is on the chain, and the chain holds only   *)
(* what a writer that was started has put there.                           *)
ChainInv ==
  /\ \A w \in 1..writer :
       /\ writers[w].state = "writing" => writers[w].once
       /\ \A k \in 1..(writers[w].address - 1) : <<Template(w), Addresses[k]>> \in chain
  /\ \A entry \in chain : \E w \in 1..writer : writers[w].once /\ Template(w) = entry[1]

(* The staker as the commands on their way will leave it.                  *)
WillPause(cs, s) == IF cs = <<>> THEN s.paused ELSE cs[Len(cs)].paused
WillStake(cs, s) ==
  IF cs = <<>> THEN s.sprhash
  ELSE IF ~cs[Len(cs)].paused THEN cs[Len(cs)].sprhash
  ELSE IF Len(cs) = 1 THEN s.sprhash ELSE cs[Len(cs) - 1].sprhash

CommandsInv ==
  /\ \A i, j \in DOMAIN commands : j = i + 1 /\ commands[j].paused => ~commands[i].paused
  /\ writer > 1 /\ pc \in {"loop", "make", "pause"} =>
       /\ WillStake(commands, staker) = Template(writer)
       /\ WillPause(commands, staker) = IF pc = "loop" THEN ~staking ELSE pc = "make"

StakingInv ==
  TypeOK /\ OrderInv /\ TemplatesInv /\ NoticedInv /\ ChainInv /\ CommandsInv
-----------------------------------------------------------------------------
(* The order of minutes.                                                   *)
LEMMA MinuteOrder ==
  /\ \A e \in Minutes : /\ e.Dbht \in Nat \ {0} /\ e.Minute \in {1, 8} /\ e # Nothing
                        /\ e = [Dbht |-> e.Dbht, Minute |-> e.Minute]
                        /\ NotAfter(e, e)
  /\ \A e, f, g \in Minutes : NotAfter(e, f) /\ NotAfter(f, g) => NotAfter(e, g)
<1>1. \A e \in Minutes : /\ e.Dbht \in Nat \ {0} /\ e.Minute \in {1, 8}
                         /\ e = [Dbht |-> e.Dbht, Minute |-> e.Minute]
  BY DEF Minutes
<1>2. \A e \in Minutes : e # Nothing
  BY NothingAssumption DEF Minutes
<1>3. \A e \in Minutes : NotAfter(e, e)
  BY <1>1 DEF NotAfter
<1>4. \A e, f, g \in Minutes : NotAfter(e, f) /\ NotAfter(f, g) => NotAfter(e, g)
  BY <1>1 DEF NotAfter
<1> QED
  BY <1>1, <1>2, <1>3, <1>4

(* Minute 8 of a height.                                                   *)
LEMMA EightIs ==
  \A h : Eight(h).Dbht = h /\ Eight(h).Minute = 8
BY DEF Eight

(* The channel in terms of what it holds.                                  *)
LEMMA AlertRange ==
  ASSUME TypeOK, OrderInv
  PROVE  \A e \in Range(alert) : /\ e \in Minutes /\ NotAfter(e, node)
                                 /\ event # Nothing => NotAfter(event, e)
<1>1. \A i \in DOMAIN alert : alert[i] \in Minutes
  BY ElementOfSeq, LenProperties DEF TypeOK
<1> QED
  BY <1>1 DEF OrderInv, Range

LEMMA InitInv == InitStaking => StakingInv
<1> SUFFICES ASSUME InitStaking PROVE StakingInv
  OBVIOUS
<1>1. /\ node = [Dbht |-> 1, Minute |-> 1] /\ seen = Nothing /\ alert = <<>>
      /\ pc = "loop" /\ event = Nothing /\ staking = FALSE /\ writer = 1
      /\ writers = <<NewEntryWriter>> /\ commands = <<>> /\ chain = {}
      /\ staker = [running |-> TRUE, paused |-> FALSE, sprhash |-> Nothing]
  BY DEF InitStaking
<1>2. NewEntryWriter \in Writers /\ NewEntryWriter.sprTemplate = Nothing
  BY DEF NewEntryWriter, Writers, Hashes
<1>3. /\ writers \in Seq(Writers) /\ Len(writers) = 1 /\ writers[1] = NewEntryWriter
  <2> HIDE DEF NewEntryWriter
  <2> QED
    BY <1>1, <1>2
<1>4. TypeOK
  <2>1. node \in Minutes /\ alert \in Seq(Minutes) /\ commands \in Seq(Commands)
    BY <1>1 DEF Minutes
  <2>2. staker \in [running : BOOLEAN, paused : BOOLEAN, sprhash : Hashes]
    BY <1>1 DEF Hashes
  <2>3. writer = Len(writers) /\ writer \in Nat \ {0}
    BY <1>1, <1>3
  <2>4. /\ pc = "loop" /\ staking = FALSE /\ event \in Minutes \cup {Nothing}
        /\ seen \in Minutes \cup {Nothing}
    BY <1>1
  <2> QED
    BY <2>1, <2>2, <2>3, <2>4, <1>3 DEF TypeOK
<1>5. DOMAIN alert = {} /\ Range(alert) = {} /\ DOMAIN commands = {} /\ 2..writer = {}
  BY <1>1, RangeEmpty
<1>6. OrderInv
  BY <1>1, <1>5 DEF OrderInv
<1>7. TemplatesInv
  BY <1>1, <1>2, <1>3, <1>5 DEF TemplatesInv, Template
<1>8. NoticedInv
  BY <1>1, <1>5 DEF NoticedInv
<1>9. ChainInv
  <2>1. \A w \in 1..writer : writers[w] = NewEntryWriter
    BY <1>1, <1>3
  <2>2. NewEntryWriter.state = "idle" /\ NewEntryWriter.address = 1
    BY DEF NewEntryWriter
  <2>3. 1..(1 - 1) = {}
    OBVIOUS
  <2> HIDE DEF NewEntryWriter
  <2> QED
    BY <2>1, <2>2, <2>3, <1>1 DEF ChainInv
<1>10. CommandsInv
  BY <1>1, <1>5 DEF CommandsInv
<1> QED
  BY <1>4, <1>6, <1>7, <1>8, <1>9, <1>10 DEF StakingInv
-----------------------------------------------------------------------------
(***************************************************************************)
(* factomd and the monitor.                                                *)
(***************************************************************************)
(* A step that leaves the coordinator, the staker and the writers alone.   *)
LEMMA ClockOnly ==
  ASSUME StakingInv, TypeOK', OrderInv', \A h \in Nat : Noticed(h) => Noticed(h)',
         \A e \in Range(alert') : e.Minute = 1 => e \in Range(alert) \/ Noticed(e.Dbht)',
         skipped \subseteq skipped', UNCHANGED <<coordinator, writers, commands, staker, chain>>
  PROVE  StakingInv'
<1>1. /\ TypeOK /\ OrderInv /\ TemplatesInv /\ NoticedInv /\ ChainInv /\ CommandsInv
  BY DEF StakingInv
<1>2. /\ UNCHANGED <<pc, event, staking, writer>> /\ UNCHANGED <<writers, commands, staker, chain>>
  BY DEF coordinator
<1>3. TemplatesInv'
  BY <1>1, <1>2 DEF TemplatesInv, Template, Passed
<1>4. ChainInv'
  BY <1>1, <1>2 DEF ChainInv, Template
<1>5. CommandsInv'
  BY <1>1, <1>2 DEF CommandsInv, Template
<1>6. NoticedInv'
  <2>1. \A e \in Range(alert) : e.Dbht \in Nat
    BY <1>1, AlertRange, MinuteOrder
  <2>2. \A e \in Range(alert') : e.Minute = 1 => Noticed(e.Dbht)'
    BY <2>1, <1>1 DEF NoticedInv
  <2>3. pc = "make" => Noticed(event.Dbht)'
    <3>1. pc = "make" => event.Dbht \in Nat
      BY <1>1, MinuteOrder DEF TemplatesInv, TypeOK
    <3>2. ASSUME NEW h \in Nat, Noticed(h), pc = "make", event.Dbht = h PROVE Noticed(event.Dbht)'
      BY <3>2, <1>2
    <3> QED
      BY <3>1, <3>2, <1>1 DEF NoticedInv
  <2>4. staking /\ pc \in {"loop", "start"} => Noticed(Template(writer))'
    <3>1. staking /\ pc \in {"loop", "start"} => Template(writer) \in Nat
      <4>1. staking /\ pc \in {"loop", "start"} => writer \in 2..writer
        BY <1>1 DEF TemplatesInv, TypeOK
      <4> QED
        BY <4>1, <1>1 DEF TemplatesInv
    <3>2. Template(writer)' = Template(writer)
      BY <1>2 DEF Template
    <3>3. ASSUME NEW h \in Nat, Noticed(h)', Template(writer)' = h PROVE Noticed(Template(writer))'
      BY <3>3
    <3> QED
      BY <3>1, <3>2, <3>3, <1>1 DEF NoticedInv
  <2>5. pc = "pause" => Template(writer)' = event.Dbht \/ Eight(Template(writer))' \in skipped'
    <3>1. Template(writer)' = Template(writer) /\ Eight(Template(writer))' = Eight(Template(writer))
      BY <1>2 DEF Template, Eight
    <3> QED
      BY <3>1, <1>1 DEF NoticedInv
  <2> QED
    BY <2>2, <2>3, <2>4, <2>5, <1>2 DEF NoticedInv
<1> QED
  BY <1>1, <1>3, <1>4, <1>5, <1>6 DEF StakingInv

(* factomd goes on.                                                        *)
LEMMA MinutePassesInv ==
  ASSUME StakingInv, MinutePasses
  PROVE  StakingInv'
<1>1. TypeOK /\ OrderInv
  BY DEF StakingInv
<1>2. /\ node' = IF node.Minute = 1 THEN [node EXCEPT !.Minute = 8]
                 ELSE [Dbht |-> node.Dbht + 1, Minute |-> 1]
      /\ skipped' = IF seen = node THEN skipped ELSE skipped \cup {node}
  BY DEF MinutePasses
<1>3. /\ UNCHANGED <<seen, alert, writers, commands, staker, chain>> /\ UNCHANGED coordinator
  BY DEF MinutePasses
<1>4. node \in Minutes /\ node.Dbht \in Nat \ {0} /\ node.Minute \in {1, 8}
      /\ node = [Dbht |-> node.Dbht, Minute |-> node.Minute]
  BY <1>1, MinuteOrder DEF TypeOK
<1>5. \/ node.Minute = 1 /\ node' = [Dbht |-> node.Dbht, Minute |-> 8]
      \/ node.Minute = 8 /\ node' = [Dbht |-> node.Dbht + 1, Minute |-> 1]
  BY <1>2, <1>4
<1>6. node' \in Minutes /\ NotAfter(node, node')
  BY <1>4, <1>5 DEF Minutes, NotAfter
<1>7. UNCHANGED <<pc, event, staking, writer>>
  BY <1>3 DEF coordinator
<1>8. TypeOK'
  BY <1>1, <1>3, <1>6, <1>7 DEF TypeOK
<1>9. \A e \in Minutes : NotAfter(e, node) => NotAfter(e, node')
  BY <1>4, <1>6, MinuteOrder
<1>10. OrderInv'
  <2>1. \A i \in DOMAIN alert : alert[i] \in Minutes
    BY <1>1, ElementOfSeq, LenProperties DEF TypeOK
  <2>2. (seen # Nothing => seen \in Minutes) /\ (event # Nothing => event \in Minutes)
    BY <1>1 DEF TypeOK
  <2> QED
    BY <2>1, <2>2, <1>1, <1>3, <1>7, <1>9 DEF OrderInv
<1>11. ASSUME NEW h \in Nat, Noticed(h) PROVE Noticed(h)'
  <2>1. CASE Eight(h) \in skipped
    BY <2>1, <1>2 DEF Noticed
  <2>2. CASE Eight(h) \in Range(alert)
    BY <2>2, <1>3 DEF Noticed
  <2>3. CASE NotAfter(node, [Dbht |-> h, Minute |-> 1])
    <3>1. node.Dbht < h \/ (node.Dbht = h /\ node.Minute = 1)
      BY <2>3, <1>4 DEF NotAfter
    <3>2. CASE node.Dbht < h
      <4>1. NotAfter(node', [Dbht |-> h, Minute |-> 1])
        BY <3>2, <1>4, <1>5 DEF NotAfter
      <4> QED
        BY <4>1 DEF Noticed
    <3>3. CASE node.Dbht = h /\ node.Minute = 1
      <4>1. node' = Eight(h)
        BY <3>3, <1>5 DEF Eight
      <4>2. seen # node'
        <5>1. CASE seen = Nothing
          BY <5>1, <1>6, MinuteOrder
        <5>2. CASE seen # Nothing
          <6>1. seen \in Minutes /\ NotAfter(seen, node)
            BY <5>2, <1>1 DEF TypeOK, OrderInv
          <6>2. ~(seen.Dbht = h /\ seen.Minute = 8)
            BY <6>1, <3>3 DEF NotAfter
          <6> QED
            BY <6>2, <4>1, EightIs
        <5> QED
          BY <5>1, <5>2
      <4> QED
        BY <4>1, <4>2, <1>3 DEF Noticed
    <3> QED
      BY <3>1, <3>2, <3>3
  <2>4. CASE node = Eight(h) /\ seen # node
    BY <2>4, <1>2 DEF Noticed
  <2> QED
    BY <1>11, <2>1, <2>2, <2>3, <2>4 DEF Noticed
<1> QED
  BY <1>2, <1>3, <1>8, <1>10, <1>11, ClockOnly

(* A poll sees a minute it has not just seen, and offers it.               *)
LEMMA PollSeesInv ==
  ASSUME StakingInv, PollSees
  PROVE  StakingInv'
<1>1. TypeOK /\ OrderInv
  BY DEF StakingInv
<1>2. /\ seen' = node
      /\ \/ alert' = Append(alert, node) /\ skipped' = skipped
         \/ alert' = alert /\ skipped' = skipped \cup {node}
  BY DEF PollSees
<1>3. /\ UNCHANGED <<node, writers, commands, staker, chain>> /\ UNCHANGED coordinator
  BY DEF PollSees
<1>4. UNCHANGED <<pc, event, staking, writer>>
  BY <1>3 DEF coordinator
<1>5. node \in Minutes /\ alert \in Seq(Minutes) /\ NotAfter(node, node)
  BY <1>1, MinuteOrder DEF TypeOK
<1>6. /\ alert' \in Seq(Minutes) /\ Range(alert) \subseteq Range(alert')
      /\ Range(alert') \subseteq Range(alert) \cup {node}
      /\ node \in Range(alert') \/ node \in skipped'
  <2>1. CASE alert' = alert /\ skipped' = skipped \cup {node}
    BY <2>1, <1>5
  <2>2. CASE alert' = Append(alert, node)
    <3>1. Append(alert, node) \in Seq(Minutes) /\ Range(Append(alert, node)) = Range(alert) \cup {node}
      BY <1>5, RangeAppend
    <3> QED
      BY <3>1, <2>2
  <2> QED
    BY <2>1, <2>2, <1>2
<1>7. TypeOK'
  BY <1>1, <1>2, <1>3, <1>4, <1>6 DEF TypeOK
<1>8. OrderInv'
  <2>1. CASE alert' = alert
    BY <2>1, <1>1, <1>2, <1>3, <1>4, <1>5 DEF OrderInv
  <2>2. CASE alert' = Append(alert, node)
    <3> DEFINE k == Len(alert)
    <3>1. /\ k \in Nat /\ DOMAIN alert = 1..k /\ DOMAIN alert' = 1..(k + 1)
          /\ \A i \in 1..k : alert'[i] = alert[i]
          /\ alert'[k + 1] = node
      BY <2>2, <1>5, AppendProperties
    <3> HIDE DEF k
    <3>2. \A i \in 1..(k + 1) : i \in 1..k \/ i = k + 1
      BY <3>1
    <3>3. \A i \in 1..(k + 1) : /\ NotAfter(alert'[i], node)
                                /\ event # Nothing => NotAfter(event, alert'[i])
      BY <3>1, <3>2, <1>1, <1>5 DEF OrderInv
    <3>4. \A i, j \in 1..(k + 1) : i < j => i \in 1..k /\ (j \in 1..k \/ j = k + 1)
      BY <3>1
    <3>5. \A i, j \in 1..(k + 1) : i < j => NotAfter(alert'[i], alert'[j])
      BY <3>1, <3>3, <3>4, <1>1 DEF OrderInv
    <3> QED
      BY <3>1, <3>3, <3>5, <1>1, <1>2, <1>3, <1>4, <1>5 DEF OrderInv
  <2> QED
    BY <2>1, <2>2, <1>2
<1>9. skipped \subseteq skipped'
  BY <1>2
<1>10. ASSUME NEW h \in Nat, Noticed(h) PROVE Noticed(h)'
  <2>1. CASE node = Eight(h)
    BY <2>1, <1>6 DEF Noticed
  <2>2. CASE node # Eight(h)
    BY <2>2, <1>3, <1>6, <1>9, <1>10 DEF Noticed
  <2> QED
    BY <2>1, <2>2
<1>11. \A e \in Range(alert') : e.Minute = 1 => e \in Range(alert) \/ Noticed(e.Dbht)'
  <2>1. node.Minute = 1 => NotAfter(node, [Dbht |-> node.Dbht, Minute |-> 1])
    BY DEF NotAfter
  <2> QED
    BY <2>1, <1>3, <1>6 DEF Noticed
<1> QED
  BY <1>3, <1>7, <1>8, <1>9, <1>10, <1>11, ClockOnly

(* A poll that fails makes the monitor see the minute anew.                *)
LEMMA PollFailsInv ==
  ASSUME StakingInv, PollFails
  PROVE  StakingInv'
<1>1. TypeOK /\ OrderInv
  BY DEF StakingInv
<1>2. /\ seen' = Nothing /\ UNCHANGED <<node, skipped, alert, writers, commands, staker, chain>>
      /\ UNCHANGED coordinator
  BY DEF PollFails
<1>3. UNCHANGED <<pc, event, staking, writer>>
  BY <1>2 DEF coordinator
<1>4. TypeOK' /\ OrderInv'
  BY <1>1, <1>2, <1>3 DEF TypeOK, OrderInv
<1>5. node # Nothing
  BY <1>1, MinuteOrder DEF TypeOK
<1>6. \A h \in Nat : Noticed(h) => Noticed(h)'
  BY <1>2, <1>5 DEF Noticed
<1> QED
  BY <1>2, <1>4, <1>6, ClockOnly
-----------------------------------------------------------------------------
(***************************************************************************)
(* The coordinator's alerts.                                               *)
(***************************************************************************)
(* What the coordinator has behind it and before it once it takes an       *)
(* alert, whatever it does with it.                                        *)
LEMMA TakesFacts ==
  ASSUME StakingInv, NEW m \in {1, 8}, Takes(m), pc' \in {"loop", "make", "pause"},
         staking' \in BOOLEAN
  PROVE  /\ TypeOK' /\ OrderInv' /\ ChainInv' /\ pc = "loop" /\ event' \in Minutes
         /\ event'.Minute = m /\ event' \in Range(alert) /\ NotAfter(event', node)
         /\ \A e \in Range(alert') : e \in Range(alert) /\ NotAfter(event', e)
         /\ \A e \in Range(alert) : e \in Minutes /\ NotAfter(event', e)
         /\ event # Nothing => NotAfter(event, event')
         /\ UNCHANGED <<writer, writers, commands, staker, skipped, node, seen>>
         /\ \A h : Noticed(h) /\ event' # Eight(h) => Noticed(h)'
<1>1. TypeOK /\ OrderInv /\ ChainInv
  BY DEF StakingInv
<1>2. /\ pc = "loop" /\ alert # <<>> /\ Head(alert).Minute = m /\ alert' = Tail(alert)
      /\ event' = Head(alert)
  BY DEF Takes
<1>3. /\ UNCHANGED <<writer, writers, commands, staker, skipped>>
      /\ UNCHANGED <<node, seen, chain>>
  BY DEF Takes, clock
<1>4. /\ alert' \in Seq(Minutes) /\ event' \in Minutes
      /\ Range(alert) = {event'} \cup Range(alert')
  BY <1>1, <1>2, RangeTail DEF TypeOK
<1>5. TypeOK'
  BY <1>1, <1>3, <1>4 DEF TypeOK
<1> DEFINE k == Len(alert)
<1>6. /\ k \in Nat \ {0} /\ DOMAIN alert = 1..k /\ DOMAIN alert' = 1..(k - 1)
      /\ event' = alert[1]
      /\ \A i \in 1..(k - 1) : alert'[i] = alert[i + 1]
  BY <1>1, <1>2, HeadTailProperties, EmptySeq DEF TypeOK
<1> HIDE DEF k
<1>7. 1 \in 1..k /\ \A i \in 1..(k - 1) : i + 1 \in 1..k /\ 1 < i + 1
  BY <1>6
<1>8. \A i \in 1..(k - 1) : NotAfter(event', alert'[i]) /\ NotAfter(alert'[i], node)
  BY <1>1, <1>6, <1>7 DEF OrderInv
<1>9. NotAfter(event', node) /\ (event # Nothing => NotAfter(event, event'))
  BY <1>1, <1>6, <1>7 DEF OrderInv
<1>10. \A i, j \in 1..(k - 1) : i < j => NotAfter(alert'[i], alert'[j])
  <2> SUFFICES ASSUME NEW i \in 1..(k - 1), NEW j \in 1..(k - 1), i < j
               PROVE  NotAfter(alert'[i], alert'[j])
    OBVIOUS
  <2>1. i + 1 < j + 1
    OBVIOUS
  <2> QED
    BY <2>1, <1>1, <1>6, <1>7 DEF OrderInv
<1>11. OrderInv'
  BY <1>1, <1>3, <1>6, <1>8, <1>9, <1>10 DEF OrderInv
<1>12. ChainInv'
  BY <1>1, <1>3 DEF ChainInv, Template
<1>13. \A e \in Range(alert') : NotAfter(event', e)
  BY <1>6, <1>8 DEF Range
<1>14. \A e \in Range(alert) : e \in Minutes /\ NotAfter(event', e)
  BY <1>1, <1>4, <1>13, AlertRange, MinuteOrder
<1>15. \A h : Noticed(h) /\ event' # Eight(h) => Noticed(h)'
  BY <1>3, <1>4 DEF Noticed
<1>16. event'.Minute = m /\ event' \in Range(alert)
  BY <1>2, <1>4
<1> QED
  BY <1>2, <1>3, <1>4, <1>5, <1>9, <1>11, <1>12, <1>13, <1>14, <1>15, <1>16

(* An alert of minute 1, with or without a record to make.                 *)
LEMMA MinuteOneInv ==
  ASSUME StakingInv, MinuteOne \/ MinuteOneUnfunded
  PROVE  StakingInv'
<1>0. TypeOK /\ TemplatesInv /\ NoticedInv /\ CommandsInv
  BY DEF StakingInv
<1>1. Takes(1)
  BY DEF MinuteOne, MinuteOneUnfunded
<1>2. pc = "loop" /\ staking \in BOOLEAN
  BY <1>0, <1>1 DEF Takes, TypeOK
<1>3. \/ pc' = "loop" /\ staking' = staking
      \/ pc' = "make" /\ staking = FALSE /\ staking' = TRUE
  BY <1>2 DEF MinuteOne, MinuteOneUnfunded
<1>4. /\ TypeOK' /\ OrderInv' /\ ChainInv' /\ event' \in Minutes
      /\ event'.Minute = 1 /\ event' \in Range(alert)
      /\ \A e \in Range(alert') : e \in Range(alert) /\ NotAfter(event', e)
      /\ event # Nothing => NotAfter(event, event')
      /\ UNCHANGED <<writer, writers, commands, staker, skipped, node, seen>>
      /\ \A h : Noticed(h) /\ event' # Eight(h) => Noticed(h)'
  <2>1. pc' \in {"loop", "make", "pause"} /\ staking' \in BOOLEAN /\ 1 \in {1, 8}
    BY <1>2, <1>3
  <2> QED
    BY <2>1, <1>1, TakesFacts
<1>5. \A h : event' # Eight(h)
  BY <1>4, EightIs
<1>6. TemplatesInv'
  <2>1. event' # Nothing /\ event'.Dbht \in Nat
    BY <1>4, MinuteOrder
  <2>2. ASSUME NEW i \in 2..writer
        PROVE  /\ Template(i) \in Nat /\ Template(i) <= event'.Dbht
               /\ ~staking => Template(i) < event'.Dbht
    <3>1. /\ Template(i) \in Nat /\ event # Nothing /\ Template(i) <= event.Dbht
          /\ ~staking => Passed(Template(i))
      BY <1>0 DEF TemplatesInv
    <3>2. event \in Minutes /\ event.Dbht \in Nat /\ event.Minute \in {1, 8} /\ NotAfter(event, event')
      BY <3>1, <1>0, <1>4, MinuteOrder DEF TypeOK
    <3>3. Template(i) <= event'.Dbht
      BY <3>1, <3>2, <2>1 DEF NotAfter
    <3>4. ~staking => Template(i) < event'.Dbht
      BY <3>1, <3>2, <2>1, <1>4 DEF NotAfter, Passed
    <3> QED
      BY <3>1, <3>3, <3>4
  <2>3. ~staking' \/ pc' = "make" => ~staking
    BY <1>2, <1>3
  <2>4. \A i \in 2..writer : ~staking' \/ pc' = "make" => Passed(Template(i))'
    BY <2>2, <2>3, <1>4 DEF Passed, Template
  <2>5. \A i \in 2..writer : Template(i)' \in Nat /\ Template(i)' <= event'.Dbht
    BY <2>2, <1>4 DEF Template
  <2>6. Template(1)' = Nothing /\ \A i, j \in 2..writer : i < j => Template(i)' < Template(j)'
    BY <1>0, <1>4 DEF TemplatesInv, Template
  <2>7. /\ pc' \in {"make", "start"} => staking'
        /\ pc' # "pause"
        /\ staking' /\ pc' \in {"loop", "start"} => writer > 1
    BY <1>0, <1>2, <1>3 DEF TemplatesInv
  <2> QED
    BY <2>1, <2>4, <2>5, <2>6, <2>7, <1>4 DEF TemplatesInv
<1>7. NoticedInv'
  <2>1. \A e \in Range(alert') : e.Minute = 1 => Noticed(e.Dbht)'
    BY <1>0, <1>4, <1>5 DEF NoticedInv
  <2>2. Noticed(event.Dbht)'
    <3>1. \A h : Noticed(h) => Noticed(h)'
      BY <1>4, <1>5
    <3>2. \A e \in Range(alert) : e.Minute = 1 => Noticed(e.Dbht)'
      BY <3>1, <1>0 DEF NoticedInv
    <3> QED
      BY <3>2, <1>4 DEF Noticed
  <2>3. staking' /\ pc' \in {"loop", "start"} => Noticed(Template(writer))'
    <3>1. staking /\ pc = "loop" => Noticed(Template(writer))
      BY <1>0 DEF NoticedInv
    <3>2. \A h : Noticed(h) => Noticed(h)'
      BY <1>4, <1>5
    <3>3. Template(writer)' = Template(writer)
      BY <1>4 DEF Template
    <3>4. ASSUME NEW h, h = Template(writer)', Noticed(h)' PROVE Noticed(Template(writer))'
      BY <3>4
    <3> QED
      BY <3>1, <3>2, <3>3, <3>4, <1>2, <1>3
  <2> QED
    BY <2>1, <2>2, <2>3, <1>3 DEF NoticedInv
<1>8. CommandsInv'
  <2>1. Template(writer)' = Template(writer)
    BY <1>4 DEF Template
  <2>2. UNCHANGED <<writer, commands, staker>>
    BY <1>4
  <2>3. /\ pc' = "make" => ~staking
        /\ pc' = "loop" => staking' = staking
        /\ pc' \in {"loop", "make"}
    BY <1>3
  <2>4. writer > 1 => /\ WillStake(commands, staker) = Template(writer)
                      /\ WillPause(commands, staker) = ~staking
    BY <1>0, <1>2 DEF CommandsInv
  <2> QED
    BY <2>1, <2>2, <2>3, <2>4, <1>0 DEF CommandsInv, WillStake, WillPause
<1> QED
  BY <1>4, <1>6, <1>7, <1>8 DEF StakingInv

(* An alert of minute 8.                                                   *)
LEMMA MinuteEightInv ==
  ASSUME StakingInv, MinuteEight
  PROVE  StakingInv'
<1>0. TypeOK /\ TemplatesInv /\ NoticedInv /\ CommandsInv
  BY DEF StakingInv
<1>1. Takes(8) /\ staking' = FALSE
  BY DEF MinuteEight
<1>2. pc = "loop" /\ staking \in BOOLEAN
  BY <1>0, <1>1 DEF Takes, TypeOK
<1>3. pc' = IF staking THEN "pause" ELSE "loop"
  BY <1>2 DEF MinuteEight
<1>4. /\ TypeOK' /\ OrderInv' /\ ChainInv' /\ event' \in Minutes
      /\ event'.Minute = 8 /\ NotAfter(event', node)
      /\ \A e \in Range(alert') : e \in Range(alert) /\ NotAfter(event', e)
      /\ \A e \in Range(alert) : e \in Minutes /\ NotAfter(event', e)
      /\ event # Nothing => NotAfter(event, event')
      /\ UNCHANGED <<writer, writers, commands, staker, skipped, node, seen>>
      /\ \A h : Noticed(h) /\ event' # Eight(h) => Noticed(h)'
  <2>1. pc' \in {"loop", "make", "pause"} /\ staking' \in BOOLEAN /\ 8 \in {1, 8}
    BY <1>1, <1>3
  <2> QED
    BY <2>1, <1>1, TakesFacts
<1>5. event' # Nothing /\ event'.Dbht \in Nat
  BY <1>4, MinuteOrder
<1>6. ASSUME NEW i \in 2..writer PROVE Template(i) \in Nat /\ Template(i) <= event'.Dbht
  <2>1. Template(i) \in Nat /\ event # Nothing /\ Template(i) <= event.Dbht
    BY <1>0 DEF TemplatesInv
  <2>2. event.Dbht \in Nat /\ NotAfter(event, event')
    BY <2>1, <1>0, <1>4, MinuteOrder DEF TypeOK
  <2> QED
    BY <2>1, <2>2, <1>5 DEF NotAfter
<1>7. TemplatesInv'
  <2>1. \A i \in 2..writer : /\ Template(i)' \in Nat /\ Template(i)' <= event'.Dbht
                             /\ Passed(Template(i))'
    BY <1>4, <1>5, <1>6 DEF Template, Passed
  <2>2. Template(1)' = Nothing /\ \A i, j \in 2..writer : i < j => Template(i)' < Template(j)'
    BY <1>0, <1>4 DEF TemplatesInv, Template
  <2>3. pc' \in {"loop", "pause"} /\ (pc' = "pause" => writer > 1)
    BY <1>0, <1>2, <1>3 DEF TemplatesInv
  <2> QED
    BY <2>1, <2>2, <2>3, <1>1, <1>4, <1>5 DEF TemplatesInv
<1>8. NoticedInv'
  <2>1. \A e \in Range(alert') : e.Minute = 1 => Noticed(e.Dbht)'
    <3> SUFFICES ASSUME NEW e \in Range(alert'), e.Minute = 1 PROVE Noticed(e.Dbht)'
      OBVIOUS
    <3>1. Noticed(e.Dbht) /\ e \in Minutes /\ NotAfter(event', e)
      BY <1>0, <1>4 DEF NoticedInv
    <3>2. event' # Eight(e.Dbht)
      <4>1. SUFFICES ASSUME event'.Dbht = e.Dbht PROVE FALSE
        BY EightIs
      <4> QED
        BY <4>1, <3>1, <1>4, <1>5 DEF NotAfter
    <3> QED
      BY <3>1, <3>2, <1>4
  <2>2. ASSUME staking
        PROVE  Template(writer) = event'.Dbht \/ Eight(Template(writer)) \in skipped
    <3> DEFINE h == Template(writer)
    <3>1. Noticed(h) /\ writer \in 2..writer
      BY <2>2, <1>0, <1>2 DEF NoticedInv, TemplatesInv, TypeOK
    <3>2. h \in Nat /\ h <= event'.Dbht
      BY <3>1, <1>6
    <3> HIDE DEF h
    <3>3. SUFFICES ASSUME h < event'.Dbht, Eight(h) \notin skipped PROVE FALSE
      BY <3>2, <1>5 DEF h
    <3>4. Eight(h) \notin Range(alert)
      BY <3>2, <3>3, <1>4, <1>5, EightIs DEF NotAfter
    <3>5. node.Dbht \in Nat /\ node.Dbht >= event'.Dbht
      BY <1>0, <1>4, <1>5, MinuteOrder DEF NotAfter, TypeOK
    <3>6. node # Eight(h)
      BY <3>2, <3>3, <3>5, <1>5, EightIs
    <3>7. ~NotAfter(node, [Dbht |-> h, Minute |-> 1])
      BY <3>2, <3>3, <3>5, <1>5 DEF NotAfter
    <3> QED
      BY <3>1, <3>3, <3>4, <3>6, <3>7 DEF Noticed
  <2>3. pc' = "pause" => Template(writer)' = event'.Dbht \/ Eight(Template(writer))' \in skipped'
    <3>1. Template(writer)' = Template(writer) /\ Eight(Template(writer))' = Eight(Template(writer))
      BY <1>4 DEF Template, Eight
    <3> QED
      BY <3>1, <2>2, <1>2, <1>3, <1>4
  <2> QED
    BY <2>1, <2>3, <1>1, <1>3 DEF NoticedInv
<1>9. CommandsInv'
  <2>1. Template(writer)' = Template(writer)
    BY <1>4 DEF Template
  <2>2. UNCHANGED <<writer, commands, staker>>
    BY <1>4
  <2>3. (pc' = "pause" /\ staking) \/ (pc' = "loop" /\ ~staking)
    BY <1>2, <1>3
  <2>4. writer > 1 => /\ WillStake(commands, staker) = Template(writer)
                      /\ WillPause(commands, staker) = ~staking
    BY <1>0, <1>2 DEF CommandsInv
  <2> QED
    BY <2>1, <2>2, <2>3, <2>4, <1>0, <1>1 DEF CommandsInv, WillStake, WillPause
<1> QED
  BY <1>4, <1>7, <1>8, <1>9 DEF StakingInv
-----------------------------------------------------------------------------
(***************************************************************************)
(* The coordinator's records and writers.                                  *)
(***************************************************************************)
(* What does not concern the alerts is kept by a step that leaves them,    *)
(* the event and the records of the writers alone.                         *)
LEMMA NoticedKept ==
  ASSUME StakingInv, UNCHANGED <<node, seen, skipped, alert, event, writer>>,
         \A i \in 1..writer : writers'[i].sprTemplate = writers[i].sprTemplate,
         pc' \in {"loop", "stopped"} \/ pc' = pc,
         pc' = "make" => pc = "make",
         staking' /\ pc' \in {"loop", "start"} => staking /\ pc \in {"loop", "start"}
  PROVE  OrderInv' /\ NoticedInv' /\ Template(writer)' = Template(writer)
<1>1. TypeOK /\ OrderInv /\ NoticedInv
  BY DEF StakingInv
<1>2. OrderInv'
  BY <1>1 DEF OrderInv
<1>3. Template(writer)' = Template(writer)
  <2>1. writer \in 1..writer
    BY <1>1 DEF TypeOK
  <2> QED
    BY <2>1 DEF Template
<1>4. \A h : Noticed(h)' = Noticed(h)
  BY DEF Noticed
<1>5. Noticed(event.Dbht)' = Noticed(event.Dbht)
  BY DEF Noticed
<1>6. Noticed(Template(writer))' = Noticed(Template(writer))
  <2>1. ASSUME NEW h, h = Template(writer)'
        PROVE  Noticed(Template(writer))' = Noticed(h)'
    BY <2>1
  <2> QED
    BY <2>1, <1>3, <1>4
<1>7. Eight(Template(writer))' = Eight(Template(writer))
  BY <1>3 DEF Eight
<1>8. pc' = "pause" => pc = "pause"
  OBVIOUS
<1>9. NoticedInv'
  BY <1>1, <1>3, <1>4, <1>5, <1>6, <1>7, <1>8 DEF NoticedInv
<1> QED
  BY <1>2, <1>3, <1>9

(* NewSPR is cancelled or fails: the coordinator goes on as before.        *)
LEMMA NewSPRFailsInv ==
  ASSUME StakingInv, NewSPRFails
  PROVE  StakingInv'
<1>0. TypeOK /\ TemplatesInv /\ ChainInv /\ CommandsInv
  BY DEF StakingInv
<1>1. pc = "make" /\ staking' = FALSE /\ pc' = "loop"
  BY DEF NewSPRFails
<1>2. /\ UNCHANGED <<node, seen, skipped, alert, event, writer>>
      /\ UNCHANGED <<writers, commands, staker, chain>>
  BY DEF NewSPRFails, clock
<1>3. TypeOK'
  BY <1>0, <1>1, <1>2 DEF TypeOK
<1>4. OrderInv' /\ NoticedInv' /\ Template(writer)' = Template(writer)
  BY <1>1, <1>2, NoticedKept
<1>5. TemplatesInv'
  BY <1>0, <1>1, <1>2 DEF TemplatesInv, Template, Passed
<1>6. ChainInv'
  BY <1>0, <1>2 DEF ChainInv, Template
<1>7. CommandsInv'
  BY <1>0, <1>1, <1>2 DEF CommandsInv, Template
<1> QED
  BY <1>3, <1>4, <1>5, <1>6, <1>7 DEF StakingInv

(* NewSPR returns: a new writer, linked after the last, with its record.   *)
LEMMA NewSPRInv ==
  ASSUME StakingInv, NewSPR
  PROVE  StakingInv'
<1> DEFINE x == [sprTemplate |-> event.Dbht, once |-> FALSE, state |-> "idle",
                 address |-> 1, tries |-> 0]
<1>0. TypeOK /\ OrderInv /\ TemplatesInv /\ NoticedInv /\ ChainInv /\ CommandsInv
  BY DEF StakingInv
<1>1. pc = "make" /\ pc' = "start"
  BY DEF NewSPR
<1>2. /\ UNCHANGED <<node, seen, skipped, alert, event, staking>>
      /\ UNCHANGED <<commands, staker, chain>>
  BY DEF NewSPR, clock
<1>3. PICK n \in Nat \ {0} : n = writer /\ n = Len(writers) /\ writers \in Seq(Writers)
  BY <1>0 DEF TypeOK
<1>4. event \in Minutes /\ event # Nothing /\ event.Dbht \in Nat \ {0} /\ event.Minute = 1 /\ staking
  BY <1>0, <1>1, MinuteOrder DEF TypeOK, TemplatesInv
<1>5. /\ x \in Writers /\ x.sprTemplate = event.Dbht /\ x.state = "idle" /\ x.address = 1
      /\ NewEntryWriter \in Writers /\ SetSPR(NewEntryWriter, event.Dbht) = x
  <2>1. x \in Writers
    BY <1>4 DEF Writers, Hashes
  <2>2. NewEntryWriter \in Writers
    BY DEF NewEntryWriter, Writers, Hashes
  <2>3. SetSPR(NewEntryWriter, event.Dbht) = x
    BY DEF NewEntryWriter, SetSPR
  <2> QED
    BY <2>1, <2>2, <2>3
<1>6. /\ NextBlockWriter(writers, writer) = Append(writers, NewEntryWriter)
      /\ Len(Append(writers, NewEntryWriter)) = n + 1
      /\ DOMAIN Append(writers, NewEntryWriter) = 1..(n + 1)
      /\ Append(writers, NewEntryWriter) \in Seq(Writers)
      /\ \A i \in 1..n : Append(writers, NewEntryWriter)[i] = writers[i]
      /\ Append(writers, NewEntryWriter)[n + 1] = NewEntryWriter
  <2> HIDE DEF NewEntryWriter
  <2> QED
    BY <1>3, <1>5, AppendProperties DEF NextBlockWriter
<1>7. /\ writer' = n + 1
      /\ writers' = [Append(writers, NewEntryWriter) EXCEPT ![n + 1] =
                       SetSPR(NewEntryWriter, event.Dbht)]
  <2>1. /\ writer' = Len(NextBlockWriter(writers, writer))
        /\ writers' = [NextBlockWriter(writers, writer) EXCEPT
                         ![Len(NextBlockWriter(writers, writer))] =
                           SetSPR(NextBlockWriter(writers, writer)
                                    [Len(NextBlockWriter(writers, writer))], event.Dbht)]
    BY DEF NewSPR
  <2> QED
    BY <2>1, <1>6
<1> HIDE DEF x
<1>8. /\ writers' \in Seq(Writers) /\ Len(writers') = n + 1 /\ writers'[n + 1] = x
      /\ \A i \in 1..n : writers'[i] = writers[i]
  <2> DEFINE t == Append(writers, NewEntryWriter)
  <2>1. /\ t \in Seq(Writers) /\ Len(t) = n + 1 /\ DOMAIN t = 1..(n + 1)
        /\ \A i \in 1..n : t[i] = writers[i]
        /\ writers' = [t EXCEPT ![n + 1] = x]
    BY <1>5, <1>6, <1>7
  <2> HIDE DEF t
  <2>2. n + 1 \in 1..(n + 1) /\ \A i \in 1..n : i \in 1..(n + 1) /\ i # n + 1
    BY <1>3
  <2>3. writers' \in Seq(Writers) /\ Len(writers') = Len(t)
    BY <2>1, <2>2, <1>5, ExceptSeq
  <2> QED
    BY <2>1, <2>2, <2>3
<1>9. \A i \in 1..(n + 1) : i \in 1..n \/ i = n + 1
  BY <1>3
<1>10. /\ \A i \in 1..n : Template(i)' = Template(i)
       /\ Template(n + 1)' = event.Dbht /\ Template(writer)' = event.Dbht
  BY <1>5, <1>7, <1>8 DEF Template
<1>11. TypeOK'
  BY <1>0, <1>1, <1>2, <1>3, <1>7, <1>8 DEF TypeOK
<1>12. OrderInv'
  BY <1>0, <1>2 DEF OrderInv
<1>13. TemplatesInv'
  <2>1. \A i \in 2..n : i \in 1..n /\ Template(i) \in Nat /\ Template(i) < event.Dbht
    BY <1>0, <1>1, <1>3, <1>4 DEF TemplatesInv, Passed
  <2>2. \A i \in 2..(n + 1) : i \in 2..n \/ i = n + 1
    BY <1>3
  <2>3. \A i \in 2..(n + 1) : Template(i)' \in Nat /\ Template(i)' <= event.Dbht
    BY <2>1, <2>2, <1>4, <1>10
  <2>4. \A i, j \in 2..(n + 1) : i < j => Template(i)' < Template(j)'
    <3> SUFFICES ASSUME NEW i \in 2..(n + 1), NEW j \in 2..(n + 1), i < j
                 PROVE  Template(i)' < Template(j)'
      OBVIOUS
    <3>1. i \in 2..n
      BY <1>3
    <3>2. CASE j \in 2..n
      BY <3>1, <3>2, <2>1, <1>0, <1>3, <1>10 DEF TemplatesInv
    <3>3. CASE j = n + 1
      BY <3>1, <3>3, <2>1, <1>10
    <3> QED
      BY <2>2, <3>2, <3>3
  <2>5. 1 \in 1..n /\ Template(1) = Nothing /\ n + 1 > 1
    BY <1>0, <1>3 DEF TemplatesInv
  <2> QED
    BY <2>3, <2>4, <2>5, <1>1, <1>2, <1>4, <1>7, <1>10 DEF TemplatesInv
<1>14. NoticedInv'
  <2>1. \A h : Noticed(h)' = Noticed(h)
    BY <1>2 DEF Noticed
  <2>2. Noticed(event.Dbht)
    BY <1>0, <1>1 DEF NoticedInv
  <2>3. ASSUME NEW h, h = Template(writer)', Noticed(h)' PROVE Noticed(Template(writer))'
    BY <2>3
  <2>4. Noticed(Template(writer))'
    BY <2>1, <2>2, <2>3, <1>10
  <2> QED
    BY <2>1, <2>4, <1>0, <1>1, <1>2 DEF NoticedInv
<1>15. ChainInv'
  <2>1. ASSUME NEW w \in 1..(n + 1)
        PROVE  /\ writers'[w].state = "writing" => writers'[w].once
               /\ \A k \in 1..(writers'[w].address - 1) : <<Template(w)', Addresses[k]>> \in chain
    <3>1. CASE w \in 1..n
      BY <3>1, <1>0, <1>3, <1>8, <1>10 DEF ChainInv
    <3>2. CASE w = n + 1
      BY <3>2, <1>5, <1>8
    <3> QED
      BY <3>1, <3>2, <1>9
  <2>2. \A entry \in chain : \E w \in 1..(n + 1) : writers'[w].once /\ Template(w)' = entry[1]
    <3>1. 1..n \subseteq 1..(n + 1)
      BY <1>3
    <3>2. \A entry \in chain : \E w \in 1..n : writers[w].once /\ Template(w) = entry[1]
      BY <1>0, <1>3 DEF ChainInv
    <3> QED
      BY <3>1, <3>2, <1>8, <1>10
  <2> QED
    BY <2>1, <2>2, <1>2, <1>7 DEF ChainInv
<1>16. CommandsInv'
  BY <1>0, <1>1, <1>2 DEF CommandsInv
<1> QED
  BY <1>11, <1>12, <1>13, <1>14, <1>15, <1>16 DEF StakingInv

(* A command sent.                                                         *)
LEMMA SendIs ==
  ASSUME NEW cs \in Seq(Commands), NEW c \in Commands
  PROVE  /\ Append(cs, c) \in Seq(Commands) /\ Append(cs, c) # <<>>
         /\ Len(Append(cs, c)) = Len(cs) + 1 /\ Len(cs) \in Nat
         /\ DOMAIN Append(cs, c) = 1..(Len(cs) + 1) /\ DOMAIN cs = 1..Len(cs)
         /\ \A i \in 1..Len(cs) : Append(cs, c)[i] = cs[i]
         /\ Append(cs, c)[Len(cs) + 1] = c
<1>1. /\ Append(cs, c) \in Seq(Commands) /\ Len(Append(cs, c)) = Len(cs) + 1
      /\ \A i \in 1..Len(cs) : Append(cs, c)[i] = cs[i]
      /\ Append(cs, c)[Len(cs) + 1] = c
  BY AppendProperties
<1>2. Len(cs) \in Nat /\ DOMAIN cs = 1..Len(cs)
  BY LenProperties
<1>3. DOMAIN Append(cs, c) = 1..(Len(cs) + 1)
  BY <1>1, LenProperties
<1>4. Append(cs, c) # <<>>
  <2> DEFINE t == Append(cs, c)
  <2>1. Len(t) # 0
    BY <1>1, <1>2
  <2> HIDE DEF t
  <2>2. t # <<>>
    BY <2>1
  <2> QED
    BY <2>2 DEF t
<1> QED
  BY <1>1, <1>2, <1>3, <1>4

(* The staker is told to stake the writer's record.                        *)
LEMMA SendStartInv ==
  ASSUME StakingInv, SendStart
  PROVE  StakingInv'
<1> DEFINE c == Resume(writers[writer].sprTemplate)
           k == Len(commands)
<1>0. TypeOK /\ TemplatesInv /\ ChainInv /\ CommandsInv
  BY DEF StakingInv
<1>1. pc = "start" /\ pc' = "loop" /\ commands' = Append(commands, c)
  BY DEF SendStart, SendCommand
<1>2. /\ UNCHANGED <<node, seen, skipped, alert, event, writer>>
      /\ UNCHANGED <<staking, writers, staker, chain>>
  BY DEF SendStart, clock
<1>3. writers \in Seq(Writers) /\ writer \in 1..Len(writers) /\ commands \in Seq(Commands)
  BY <1>0 DEF TypeOK
<1>4. writers[writer] \in Writers
  BY <1>3, ElementOfSeq
<1>5. c \in Commands /\ ~c.paused /\ c.sprhash = Template(writer)
  BY <1>4 DEF Resume, Commands, Writers, Template
<1> HIDE DEF c, k
<1>6. /\ commands' \in Seq(Commands) /\ commands' # <<>> /\ Len(commands') = k + 1 /\ k \in Nat
      /\ DOMAIN commands' = 1..(k + 1) /\ DOMAIN commands = 1..k
      /\ \A i \in 1..k : commands'[i] = commands[i]
      /\ commands'[k + 1] = c
  BY <1>1, <1>3, <1>5, SendIs DEF k
<1>7. TypeOK'
  BY <1>0, <1>1, <1>2, <1>6 DEF TypeOK
<1>8. OrderInv' /\ NoticedInv' /\ Template(writer)' = Template(writer)
  BY <1>1, <1>2, NoticedKept
<1>9. TemplatesInv'
  BY <1>0, <1>1, <1>2 DEF TemplatesInv, Template, Passed
<1>10. ChainInv'
  BY <1>0, <1>2 DEF ChainInv, Template
<1>11. CommandsInv'
  <2>1. \A i, j \in 1..(k + 1) : j = i + 1 => i \in 1..k /\ (j \in 1..k \/ j = k + 1)
    BY <1>6
  <2>2. \A i, j \in 1..(k + 1) : j = i + 1 /\ commands'[j].paused => ~commands'[i].paused
    BY <2>1, <1>0, <1>5, <1>6 DEF CommandsInv
  <2>3. WillStake(commands', staker') = Template(writer) /\ WillPause(commands', staker') = FALSE
    BY <1>5, <1>6 DEF WillStake, WillPause, Commands
  <2>4. staking
    BY <1>0, <1>1 DEF TemplatesInv
  <2> QED
    BY <2>2, <2>3, <2>4, <1>1, <1>2, <1>6, <1>8 DEF CommandsInv
<1> QED
  BY <1>7, <1>8, <1>9, <1>10, <1>11 DEF StakingInv

(* A step of a writer leaves its record alone.                             *)
LEMMA WriterStep ==
  ASSUME TypeOK, NEW w \in 1..writer, NEW x \in Writers,
         x.sprTemplate = writers[w].sprTemplate, writers' = [writers EXCEPT ![w] = x]
  PROVE  /\ writers' \in Seq(Writers) /\ Len(writers') = Len(writers) /\ writers'[w] = x
         /\ \A i \in 1..writer : /\ i # w => writers'[i] = writers[i]
                                 /\ writers'[i].sprTemplate = writers[i].sprTemplate
<1>1. writers \in Seq(Writers) /\ writer = Len(writers) /\ DOMAIN writers = 1..writer
  BY LenProperties DEF TypeOK
<1>2. writers' \in Seq(Writers) /\ Len(writers') = Len(writers)
  BY <1>1, ExceptSeq
<1>3. writers'[w] = x /\ \A i \in 1..writer : i # w => writers'[i] = writers[i]
  BY <1>1
<1> QED
  BY <1>2, <1>3

(* The records and what is to come of them, when only writers move.        *)
LEMMA TemplatesKept ==
  ASSUME StakingInv, \A i \in 1..writer : writers'[i].sprTemplate = writers[i].sprTemplate,
         UNCHANGED <<writer, event, pc, staking>>
  PROVE  TemplatesInv'
<1>1. TypeOK /\ TemplatesInv
  BY DEF StakingInv
<1>2. writer \in Nat \ {0} /\ 1 \in 1..writer /\ \A i \in 2..writer : i \in 1..writer
  BY <1>1 DEF TypeOK
<1>3. Template(1)' = Template(1) /\ \A i \in 2..writer : Template(i)' = Template(i)
  BY <1>2 DEF Template
<1>4. \A h : Passed(h)' = Passed(h)
  BY DEF Passed
<1>5. \A i \in 2..writer : Passed(Template(i))' = Passed(Template(i))
  BY <1>3 DEF Passed, Template
<1> QED
  BY <1>1, <1>3, <1>5 DEF TemplatesInv

(* The staker is told to pause, and the writer starts to write, once.      *)
LEMMA SendPauseInv ==
  ASSUME StakingInv, SendPause
  PROVE  StakingInv'
<1> DEFINE k == Len(commands)
           old == writers[writer]
           x == IF old.once THEN old ELSE [old EXCEPT !.once = TRUE, !.state = "writing"]
<1>0. TypeOK /\ TemplatesInv /\ ChainInv /\ CommandsInv
  BY DEF StakingInv
<1>1. pc = "pause" /\ pc' = "loop" /\ commands' = Append(commands, Pause)
  BY DEF SendPause, SendCommand
<1>2. /\ UNCHANGED <<node, seen, skipped, alert, event, writer>>
      /\ UNCHANGED <<staking, staker, chain>>
  BY DEF SendPause, clock
<1>3. /\ writers \in Seq(Writers) /\ writer \in 1..Len(writers) /\ writer \in 1..writer
      /\ commands \in Seq(Commands) /\ DOMAIN writers = 1..writer
  BY <1>0, LenProperties DEF TypeOK
<1>4. old \in Writers
  BY <1>3, ElementOfSeq
<1>5. /\ x \in Writers /\ x.sprTemplate = old.sprTemplate /\ x.address = old.address
      /\ x.once
  BY <1>4 DEF Writers
<1>6. writers' = [writers EXCEPT ![writer] = x]
  BY DEF SendPause
<1> HIDE DEF x
<1>7. /\ writers' \in Seq(Writers) /\ Len(writers') = Len(writers) /\ writers'[writer] = x
      /\ \A i \in 1..writer : /\ i # writer => writers'[i] = writers[i]
                              /\ writers'[i].sprTemplate = writers[i].sprTemplate
  BY <1>0, <1>3, <1>5, <1>6, WriterStep
<1>8. Pause \in Commands /\ Pause.paused
  BY DEF Pause, Commands, Hashes
<1> HIDE DEF old, k
<1>9. /\ commands' \in Seq(Commands) /\ commands' # <<>> /\ Len(commands') = k + 1 /\ k \in Nat
      /\ DOMAIN commands' = 1..(k + 1) /\ DOMAIN commands = 1..k
      /\ \A i \in 1..k : commands'[i] = commands[i]
      /\ commands'[k + 1] = Pause
  <2> HIDE DEF Pause
  <2> QED
    BY <1>1, <1>3, <1>8, SendIs DEF k
<1>10. TypeOK'
  BY <1>0, <1>1, <1>2, <1>7, <1>9 DEF TypeOK
<1>11. ~staking /\ writer > 1
  BY <1>0, <1>1 DEF TemplatesInv
<1>12. OrderInv' /\ NoticedInv' /\ Template(writer)' = Template(writer)
  BY <1>1, <1>2, <1>7, <1>11, NoticedKept
<1>13. TemplatesInv'
  <2>1. writer \in Nat \ {0} /\ 1 \in 1..writer /\ \A i \in 2..writer : i \in 1..writer
    BY <1>0 DEF TypeOK
  <2>2. Template(1)' = Template(1) /\ \A i \in 2..writer : Template(i)' = Template(i)
    BY <2>1, <1>7 DEF Template
  <2>3. \A i \in 2..writer : Passed(Template(i))' = Passed(Template(i))
    BY <2>2, <1>2 DEF Passed, Template
  <2> QED
    BY <2>2, <2>3, <1>0, <1>1, <1>2, <1>11 DEF TemplatesInv
<1>14. ChainInv'
  <2>1. \A i \in 1..writer : /\ Template(i)' = Template(i)
                             /\ writers'[i].address = writers[i].address
                             /\ writers[i].once => writers'[i].once
                             /\ i # writer => writers'[i] = writers[i]
    BY <1>5, <1>7 DEF Template, old
  <2>2. \A i \in 1..writer : writers'[i].state = "writing" => writers'[i].once
    BY <2>1, <1>0, <1>5, <1>7 DEF ChainInv
  <2>3. \A i \in 1..writer : \A j \in 1..(writers'[i].address - 1) :
          <<Template(i)', Addresses[j]>> \in chain
    BY <2>1, <1>0 DEF ChainInv
  <2>4. \A entry \in chain : \E i \in 1..writer : writers'[i].once /\ Template(i)' = entry[1]
    BY <2>1, <1>0 DEF ChainInv
  <2> QED
    BY <2>2, <2>3, <2>4, <1>2 DEF ChainInv
<1>15. CommandsInv'
  <2>1. /\ WillStake(commands, staker) = Template(writer)
        /\ WillPause(commands, staker) = FALSE
    BY <1>0, <1>1, <1>11 DEF CommandsInv
  <2>2. commands = <<>> <=> k = 0
    BY <1>3, EmptySeq DEF k
  <2>3. k # 0 => ~commands[k].paused /\ commands[k].sprhash = Template(writer)
    BY <2>1, <2>2 DEF WillStake, WillPause, k
  <2>4. \A i, j \in 1..(k + 1) : j = i + 1 => i \in 1..k /\ (j \in 1..k \/ (j = k + 1 /\ i = k))
    BY <1>9
  <2>5. \A i, j \in 1..(k + 1) : j = i + 1 /\ commands'[j].paused => ~commands'[i].paused
    <3> SUFFICES ASSUME NEW i \in 1..(k + 1), NEW j \in 1..(k + 1), j = i + 1,
                        commands'[j].paused
                 PROVE  ~commands'[i].paused
      OBVIOUS
    <3>1. CASE j \in 1..k
      BY <3>1, <2>4, <1>0, <1>9 DEF CommandsInv
    <3>2. CASE i = k
      BY <3>2, <2>3, <2>4, <1>9
    <3> QED
      BY <3>1, <3>2, <2>4
  <2>6. WillPause(commands', staker) = TRUE
    <3>1. Pause.paused = TRUE
      BY DEF Pause
    <3> QED
      BY <3>1, <1>9 DEF WillPause
  <2>7. WillStake(commands', staker) = Template(writer)
    <3>1. CASE k = 0
      <4>1. WillStake(commands, staker) = staker.sprhash
        BY <3>1, <2>2 DEF WillStake
      <4> QED
        BY <4>1, <3>1, <2>1, <1>8, <1>9 DEF WillStake
    <3>2. CASE k # 0
      <4>1. k + 1 # 1 /\ (k + 1) - 1 = k /\ k \in 1..k
        BY <3>2, <1>9
      <4> QED
        BY <4>1, <3>2, <2>3, <1>8, <1>9 DEF WillStake
    <3> QED
      BY <3>1, <3>2
  <2> QED
    BY <2>5, <2>6, <2>7, <1>1, <1>2, <1>9, <1>11, <1>12 DEF CommandsInv
<1> QED
  BY <1>10, <1>12, <1>13, <1>14, <1>15 DEF StakingInv
-----------------------------------------------------------------------------
(***************************************************************************)
(* The staker, the writers and the end.                                    *)
(***************************************************************************)
LEMMA HandleCommandInv ==
  ASSUME StakingInv, HandleCommand
  PROVE  StakingInv'
<1> DEFINE k == Len(commands)
           c == Head(commands)
<1>0. TypeOK /\ TemplatesInv /\ ChainInv /\ CommandsInv
  BY DEF StakingInv
<1>1. /\ commands # <<>> /\ commands' = Tail(commands)
      /\ staker' = [staker EXCEPT !.paused = c.paused,
                      !.sprhash = IF c.paused THEN @ ELSE c.sprhash]
  BY DEF HandleCommand
<1>2. /\ UNCHANGED <<node, seen, skipped, alert, event, writer>>
      /\ UNCHANGED <<pc, staking, writers, chain>>
  BY DEF HandleCommand, clock, coordinator
<1>3. /\ commands \in Seq(Commands)
      /\ staker \in [running : BOOLEAN, paused : BOOLEAN, sprhash : Hashes]
  BY <1>0 DEF TypeOK
<1>4. /\ k \in Nat \ {0} /\ DOMAIN commands = 1..k /\ DOMAIN commands' = 1..(k - 1)
      /\ c = commands[1] /\ Len(commands') = k - 1 /\ c \in Commands
      /\ commands' \in Seq(Commands)
      /\ \A i \in 1..(k - 1) : commands'[i] = commands[i + 1]
  BY <1>1, <1>3, HeadTailProperties, EmptySeq
<1>5. commands' = <<>> <=> k = 1
  BY <1>4, EmptySeq
<1> HIDE DEF k, c
<1>6. /\ staker' \in [running : BOOLEAN, paused : BOOLEAN, sprhash : Hashes]
      /\ staker'.paused = c.paused
      /\ staker'.sprhash = IF c.paused THEN staker.sprhash ELSE c.sprhash
  BY <1>1, <1>3, <1>4 DEF Commands
<1>7. TypeOK'
  BY <1>0, <1>2, <1>4, <1>6 DEF TypeOK
<1>8. OrderInv' /\ NoticedInv' /\ Template(writer)' = Template(writer)
  BY <1>2, NoticedKept
<1>9. TemplatesInv'
  BY <1>2, TemplatesKept
<1>10. ChainInv'
  BY <1>0, <1>2 DEF ChainInv, Template
<1>11. CommandsInv'
  <2>1. \A i, j \in 1..(k - 1) : j = i + 1 /\ commands'[j].paused => ~commands'[i].paused
    <3> SUFFICES ASSUME NEW i \in 1..(k - 1), NEW j \in 1..(k - 1), j = i + 1,
                        commands'[j].paused
                 PROVE  ~commands'[i].paused
      OBVIOUS
    <3>1. i + 1 \in 1..k /\ j + 1 \in 1..k /\ j + 1 = (i + 1) + 1
      BY <1>4
    <3> QED
      BY <3>1, <1>0, <1>4 DEF CommandsInv
  <2>2. WillPause(commands', staker') = WillPause(commands, staker)
    <3>1. WillPause(commands, staker) = commands[k].paused
      BY <1>1 DEF WillPause, k
    <3>2. CASE k = 1
      BY <3>1, <3>2, <1>4, <1>5, <1>6 DEF WillPause
    <3>3. CASE k # 1
      <4>1. k - 1 \in 1..(k - 1) /\ (k - 1) + 1 = k
        BY <3>3, <1>4
      <4> QED
        BY <3>1, <3>3, <4>1, <1>4, <1>5 DEF WillPause
    <3> QED
      BY <3>2, <3>3
  <2>3. WillStake(commands', staker') = WillStake(commands, staker)
    <3>1. WillStake(commands, staker) =
            IF ~commands[k].paused THEN commands[k].sprhash
            ELSE IF k = 1 THEN staker.sprhash ELSE commands[k - 1].sprhash
      BY <1>1 DEF WillStake, k
    <3>2. CASE k = 1
      BY <3>1, <3>2, <1>4, <1>5, <1>6 DEF WillStake
    <3>3. CASE k = 2
      <4>1. /\ commands'[1] = commands[2] /\ Len(commands') = 1 /\ commands' # <<>>
            /\ 1 \in 1..k /\ 2 \in 1..k /\ 2 = 1 + 1 /\ k - 1 = 1
        BY <3>3, <1>4, <1>5
      <4>2. commands[2].paused => ~commands[1].paused
        BY <4>1, <1>0, <1>4 DEF CommandsInv
      <4> QED
        BY <3>1, <3>3, <4>1, <4>2, <1>4, <1>6 DEF WillStake
    <3>4. CASE k > 2
      <4>1. /\ k - 1 \in 1..(k - 1) /\ (k - 1) + 1 = k /\ k - 1 # 1 /\ k # 1
            /\ (k - 1) - 1 \in 1..(k - 1) /\ ((k - 1) - 1) + 1 = k - 1
        BY <3>4, <1>4
      <4>2. /\ commands'[k - 1] = commands[k] /\ commands'[(k - 1) - 1] = commands[k - 1]
            /\ commands' # <<>> /\ Len(commands') = k - 1
        BY <4>1, <1>4, <1>5
      <4> QED
        BY <3>1, <4>1, <4>2 DEF WillStake
    <3> QED
      BY <3>2, <3>3, <3>4, <1>4
  <2> QED
    BY <2>1, <2>2, <2>3, <1>0, <1>2, <1>4, <1>8 DEF CommandsInv
<1> QED
  BY <1>7, <1>8, <1>9, <1>10, <1>11 DEF StakingInv

(* A writer's call returns, with or without an entry on the chain.         *)
LEMMA EntryInv ==
  ASSUME StakingInv, NEW w \in DOMAIN writers, EntryWritten(w) \/ EntryFails(w)
  PROVE  StakingInv'
<1> DEFINE old == writers[w]
           entry1 == <<old.sprTemplate, Addresses[old.address]>>
<1>0. TypeOK /\ TemplatesInv /\ ChainInv /\ CommandsInv
  BY DEF StakingInv
<1>1. w \in 1..writer /\ writers \in Seq(Writers) /\ DOMAIN writers = 1..writer /\ writer = Len(writers)
  BY <1>0, LenProperties DEF TypeOK
<1>2. old \in Writers
  BY <1>1, ElementOfSeq
<1>3. old.state = "writing" /\ old.once
  BY <1>0, <1>1 DEF EntryWritten, EntryFails, Writes, ChainInv
<1>4. /\ UNCHANGED <<node, seen, skipped, alert, event, writer>>
      /\ UNCHANGED <<pc, staking, commands, staker>>
  BY DEF EntryWritten, EntryFails, clock, coordinator
<1>5. \E x \in Writers :
        /\ writers' = [writers EXCEPT ![w] = x] /\ x.sprTemplate = old.sprTemplate /\ x.once
        /\ \/ chain' \in {chain, chain \cup {entry1}} /\ x.address = old.address
           \/ chain' = chain \cup {entry1} /\ x.address = old.address + 1
  <2>0. old.address \in Nat \ {0} /\ old.tries \in Nat
    BY <1>2 DEF Writers
  <2>1. CASE EntryWritten(w)
    <3>1. /\ NextAddress(old) \in Writers /\ NextAddress(old).sprTemplate = old.sprTemplate
          /\ NextAddress(old).once
          /\ \/ NextAddress(old).address = old.address
             \/ NextAddress(old).address = old.address + 1
      <4> HIDE DEF old
      <4>1. CASE old.address = Len(Addresses)
        BY <4>1, <1>2, <1>3 DEF Writers, NextAddress
      <4>2. CASE old.address # Len(Addresses)
        <5>1. NextAddress(old) = [old EXCEPT !.address = old.address + 1, !.tries = 0]
          BY <4>2 DEF NextAddress
        <5>2. NextAddress(old) \in Writers
          <6>1. old.address + 1 \in Nat \ {0} /\ 0 \in Nat
            BY <2>0
          <6>2. NextAddress(old) =
                  [sprTemplate |-> old.sprTemplate, once |-> old.once, state |-> old.state,
                   address |-> old.address + 1, tries |-> 0]
            BY <5>1, <1>2 DEF Writers
          <6>3. /\ old.sprTemplate \in Hashes /\ old.once \in BOOLEAN
                /\ old.state \in {"idle", "writing", "done", "failed"}
            BY <1>2 DEF Writers
          <6> QED
            BY <6>1, <6>2, <6>3 DEF Writers
        <5> QED
          BY <5>1, <5>2, <1>2, <1>3 DEF Writers
      <4> QED
        BY <4>1, <4>2
    <3>2. writers' = [writers EXCEPT ![w] = NextAddress(old)] /\ chain' = chain \cup {entry1}
      BY <2>1 DEF EntryWritten
    <3> HIDE DEF old, entry1
    <3> QED
      BY <3>1, <3>2
  <2>2. CASE EntryFails(w)
    <3>1. /\ NextTry(old) \in Writers /\ NextTry(old).sprTemplate = old.sprTemplate
          /\ NextTry(old).once /\ NextTry(old).address = old.address
      <4> HIDE DEF old
      <4> QED
        BY <2>0, <1>2, <1>3 DEF Writers, NextTry
    <3>2. writers' = [writers EXCEPT ![w] = NextTry(old)]
      BY <2>2 DEF EntryFails
    <3>3. chain' \in {chain, chain \cup {entry1}}
      BY <2>2 DEF EntryFails
    <3> HIDE DEF old, entry1
    <3> QED
      BY <3>1, <3>2, <3>3
  <2> QED
    BY <2>1, <2>2
<1>6. PICK x \in Writers :
        /\ writers' = [writers EXCEPT ![w] = x] /\ x.sprTemplate = old.sprTemplate /\ x.once
        /\ \/ chain' \in {chain, chain \cup {entry1}} /\ x.address = old.address
           \/ chain' = chain \cup {entry1} /\ x.address = old.address + 1
  BY <1>5
<1>7. /\ writers' \in Seq(Writers) /\ Len(writers') = Len(writers) /\ writers'[w] = x
      /\ \A i \in 1..writer : /\ i # w => writers'[i] = writers[i]
                              /\ writers'[i].sprTemplate = writers[i].sprTemplate
  BY <1>0, <1>1, <1>6, WriterStep
<1>8. TypeOK'
  BY <1>0, <1>4, <1>7 DEF TypeOK
<1>9. OrderInv' /\ NoticedInv' /\ Template(writer)' = Template(writer)
  BY <1>4, <1>7, NoticedKept
<1>10. TemplatesInv'
  BY <1>4, <1>7, TemplatesKept
<1>11. CommandsInv'
  BY <1>0, <1>4, <1>9 DEF CommandsInv
<1>12. ChainInv'
  <2>1. chain \subseteq chain' /\ chain' \subseteq chain \cup {entry1}
    BY <1>6
  <2>2. \A i \in 1..writer : Template(i)' = Template(i)
    BY <1>7 DEF Template
  <2>3. Template(w) = old.sprTemplate /\ entry1[1] = Template(w)
    BY DEF Template
  <2>4. ASSUME NEW i \in 1..writer
        PROVE  /\ writers'[i].state = "writing" => writers'[i].once
               /\ \A j \in 1..(writers'[i].address - 1) : <<Template(i)', Addresses[j]>> \in chain'
    <3>1. CASE i # w
      BY <3>1, <2>1, <2>2, <1>0, <1>7 DEF ChainInv
    <3>2. CASE i = w
      <4>1. old.address \in Nat \ {0}
        BY <1>2 DEF Writers
      <4>2. \A j \in 1..(old.address - 1) : <<Template(w), Addresses[j]>> \in chain
        BY <1>0, <1>1 DEF ChainInv
      <4>3. CASE x.address = old.address
        BY <4>2, <4>3, <3>2, <2>1, <2>2, <1>6, <1>7
      <4>4. CASE x.address = old.address + 1 /\ chain' = chain \cup {entry1}
        <5>1. \A j \in 1..(x.address - 1) : j \in 1..(old.address - 1) \/ j = old.address
          BY <4>1, <4>4
        <5>2. <<Template(w), Addresses[old.address]>> \in chain'
          BY <4>4, <2>3
        <5>3. \A j \in 1..(x.address - 1) : <<Template(w), Addresses[j]>> \in chain'
          BY <5>1, <5>2, <4>2, <2>1
        <5> QED
          BY <5>3, <3>2, <2>2, <1>6, <1>7
      <4> QED
        BY <4>3, <4>4, <1>6
    <3> QED
      BY <3>1, <3>2
  <2>5. ASSUME NEW entry \in chain'
        PROVE  \E i \in 1..writer : writers'[i].once /\ Template(i)' = entry[1]
    <3>1. CASE entry = entry1
      BY <3>1, <2>2, <2>3, <1>1, <1>6, <1>7
    <3>2. CASE entry \in chain
      <4>1. PICK i \in 1..writer : writers[i].once /\ Template(i) = entry[1]
        BY <3>2, <1>0 DEF ChainInv
      <4>2. writers'[i].once
        BY <4>1, <1>6, <1>7
      <4> QED
        BY <4>1, <4>2, <2>2
    <3> QED
      BY <3>1, <3>2, <2>1
  <2> QED
    BY <2>4, <2>5, <1>4 DEF ChainInv
<1> QED
  BY <1>8, <1>9, <1>10, <1>11, <1>12 DEF StakingInv

(* Cancellation, and a panic, leave everything as it was.                  *)
LEMMA StopInv ==
  ASSUME StakingInv,
         \/ Cancel \/ CoordinatorStops \/ StakerCancelled \/ UNCHANGED stakingVars
         \/ \E w \in DOMAIN writers : EntryUnsigned(w)
  PROVE  StakingInv'
<1>0. TypeOK /\ TemplatesInv /\ ChainInv /\ CommandsInv
  BY DEF StakingInv
<1>1. /\ UNCHANGED <<node, seen, skipped, alert, event, writer>>
      /\ UNCHANGED <<staking, writers, commands, chain>>
      /\ pc' = pc \/ pc' = "stopped"
      /\ staker' = staker \/ staker' = [staker EXCEPT !.running = FALSE]
  BY DEF Cancel, CoordinatorStops, StakerCancelled, EntryUnsigned, stakingVars, clock, coordinator
<1>2. /\ staker' \in [running : BOOLEAN, paused : BOOLEAN, sprhash : Hashes]
      /\ staker'.paused = staker.paused /\ staker'.sprhash = staker.sprhash
  BY <1>0, <1>1 DEF TypeOK
<1>3. TypeOK'
  BY <1>0, <1>1, <1>2 DEF TypeOK
<1>4. OrderInv' /\ NoticedInv' /\ Template(writer)' = Template(writer)
  BY <1>1, NoticedKept
<1>5. TemplatesInv'
  BY <1>0, <1>1 DEF TemplatesInv, Template, Passed
<1>6. ChainInv'
  BY <1>0, <1>1 DEF ChainInv, Template
<1>7. CommandsInv'
  BY <1>0, <1>1, <1>2, <1>4 DEF CommandsInv, WillStake, WillPause
<1> QED
  BY <1>3, <1>4, <1>5, <1>6, <1>7 DEF StakingInv
-----------------------------------------------------------------------------
(* The inductive invariant: minutes in order, one record per height, no    *)
(* minute 8 lost unnoticed, the chain as the writers left it and the       *)
(* commands as the coordinator sent them (poll, LaunchStaker, NewSPR,      *)
(* HandleCommand, writeStakingRecord).                                     *)
THEOREM StakingInvariant == StakingSpec => []StakingInv
<1>1. StakingInv /\ [NextStaking]_stakingVars => StakingInv'
  BY MinutePassesInv, PollSeesInv, PollFailsInv, MinuteOneInv, MinuteEightInv, NewSPRFailsInv,
     NewSPRInv, SendStartInv, SendPauseInv, HandleCommandInv, EntryInv, StopInv
     DEF NextStaking, Coordinator, Staker
<1> QED
  BY <1>1, InitInv, PTL DEF StakingSpec

(* A height is staked by at most one writer, what is on the chain was made *)
(* for its height, a record is late only when its minute 8 went unnoticed, *)
(* and the staker follows the coordinator: for any number of blocks and    *)
(* addresses and however often polls and entries fail.                     *)
THEOREM OneWriter == StakingSpec => []OneWriterPerBlock
<1>1. StakingInv => OneWriterPerBlock
  <2> SUFFICES ASSUME StakingInv PROVE OneWriterPerBlock
    OBVIOUS
  <2>0. TypeOK /\ TemplatesInv /\ NoticedInv /\ ChainInv /\ CommandsInv
    BY DEF StakingInv
  <2>1. writer \in Nat \ {0} /\ DOMAIN writers = 1..writer
    BY <2>0, LenProperties DEF TypeOK
  <2>2. ASSUME NEW v \in 1..writer, NEW w \in 1..writer, v # w, Template(v) # Nothing
        PROVE  Template(v) # Template(w)
    <3>1. v \in 2..writer
      BY <2>0, <2>1, <2>2 DEF TemplatesInv
    <3>2. CASE w = 1
      BY <3>2, <2>0, <2>2 DEF TemplatesInv
    <3>3. CASE w \in 2..writer
      <4>1. Template(v) \in Nat /\ Template(w) \in Nat
        BY <3>1, <3>3, <2>0 DEF TemplatesInv
      <4>2. CASE v < w
        BY <4>1, <4>2, <3>1, <3>3, <2>0 DEF TemplatesInv
      <4>3. CASE w < v
        BY <4>1, <4>3, <3>1, <3>3, <2>0 DEF TemplatesInv
      <4> QED
        BY <4>2, <4>3, <2>2
    <3> QED
      BY <3>2, <3>3, <2>1
  <2>3. ASSUME NEW entry \in chain
        PROVE  \E w \in DOMAIN writers :
                 /\ writers[w].once /\ writers[w].sprTemplate = entry[1]
                 /\ \A k \in 1..(writers[w].address - 1) : <<entry[1], Addresses[k]>> \in chain
    <3>1. PICK w \in 1..writer : writers[w].once /\ Template(w) = entry[1]
      BY <2>0 DEF ChainInv
    <3>2. \A k \in 1..(writers[w].address - 1) : <<entry[1], Addresses[k]>> \in chain
      BY <3>1, <2>0 DEF ChainInv
    <3> QED
      BY <3>1, <3>2, <2>1 DEF Template
  <2>4. pc = "pause" =>
          \/ writers[writer].sprTemplate = event.Dbht
          \/ [Dbht |-> writers[writer].sprTemplate, Minute |-> 8] \in skipped
    BY <2>0 DEF NoticedInv, Template, Eight
  <2>5. pc = "loop" /\ commands = <<>> /\ writer > 1 =>
          staker.paused = ~staking /\ staker.sprhash = writers[writer].sprTemplate
    BY <2>0 DEF CommandsInv, WillStake, WillPause, Template
  <2>6. \A v, w \in DOMAIN writers :
          v # w /\ writers[v].sprTemplate # Nothing => writers[v].sprTemplate # writers[w].sprTemplate
    BY <2>1, <2>2 DEF Template
  <2> QED
    BY <2>3, <2>4, <2>5, <2>6 DEF OneWriterPerBlock
<1> QED
  BY <1>1, StakingInvariant, PTL

-----------------------------------------------------------------------------
(***************************************************************************)
(* The goroutines that fetch an eblock return what a sequential loop would *)
(* and never use what they have closed, for any number of entries and      *)
(* workers and any channel capacity.                                       *)
(***************************************************************************)
FetchTypeOK ==
  /\ sent \in 0..Count /\ mpc \in {"send", "wait", "returned"}
  /\ work \in Seq(Orders) /\ collect \in Seq(Response) /\ closed \in BOOLEAN
  /\ wpc \in [Workers -> Response \cup {Idle, Stopped}]
  /\ resp \in Response \cup {Idle}
  /\ cpc \in {"record", "done"} => resp \in Response
  /\ oprResponses \in Seq(Orders) /\ collectErr \in BOOLEAN
  /\ cpc \in {"range", "record", "done", "close", "returned"}
  /\ count \in Nat /\ wg \in Nat
  /\ outcome \in [Orders -> Kinds \cup {"unknown"}]

(* The workers that hold an answer, and the answers that have not been     *)
(* recorded.                                                               *)
Holders == {w \in Workers : wpc[w] \in Response}
Unrecorded ==
  {wpc[w] : w \in Holders} \cup Range(collect) \cup (IF cpc = "record" THEN {resp} ELSE {})
Owed == IF cpc \in {"record", "done"} THEN 1 ELSE 0

(* Every entry that is not counted off is somewhere: not yet sent, in a    *)
(* channel, with a worker or with the collector.                           *)
CountInv ==
  /\ IsFiniteSet(Holders)
  /\ wg = count
  /\ count = (Count - sent) + Len(work) + Cardinality(Holders) + Len(collect) + Owed
  /\ mpc = "send" <=> sent < Count
  /\ count = 0 <=> cpc \in {"close", "returned"}
  /\ closed => cpc = "returned"
  /\ mpc = "returned" => wg = 0

(* An entry in the work channel is there once, and nothing is known of it; *)
(* of every other entry that was sent something is.                        *)
WorkInv ==
  /\ IsInjective(work)
  /\ \A i \in Orders : outcome[i] = "unknown" <=> i > sent \/ i \in Range(work)
  /\ \A i \in Range(work) : i <= sent

(* An answer is in one place, and says what was found out.                 *)
AnswersInv ==
  /\ \A r \in Unrecorded : outcome[r.order] = r.kind
  /\ \A w, v \in Holders : wpc[w] = wpc[v] => w = v
  /\ \A w \in Holders : wpc[w] \notin Range(collect)
  /\ IsInjective(collect)
  /\ cpc = "record" => resp \notin Range(collect) /\ \A w \in Holders : wpc[w] # resp

(* What is recorded is what was found out and is not on its way.           *)
RecordedInv ==
  /\ IsInjective(oprResponses)
  /\ \A i \in Range(oprResponses) : outcome[i] = "opr" /\ \A r \in Unrecorded : r.order # i
  /\ \A i \in Orders : outcome[i] = "opr" =>
        i \in Range(oprResponses) \/ \E r \in Unrecorded : r.order = i
  /\ \A i \in Orders : outcome[i] = "error" =>
        collectErr \/ \E r \in Unrecorded : r.order = i
  /\ collectErr => \E i \in Orders : outcome[i] = "error"
  /\ mpc = "returned" => result = [oprs |-> SortByOrder(oprResponses), err |-> collectErr]

FetchInv == FetchTypeOK /\ CountInv /\ WorkInv /\ AnswersInv /\ RecordedInv
-----------------------------------------------------------------------------
(***************************************************************************)
(* Sorting. A permutation that sorts is there to be chosen: put the        *)
(* greatest last and sort the rest.                                        *)
(***************************************************************************)
Sortable(n) ==
  \A r \in [1..n -> Orders] : \E p \in Bijection(1..n, 1..n) : Ascending(Moved(r, p))

(* One more place: the greatest number r[g] changes places with the last.  *)
LEMMA SortableStep ==
  ASSUME NEW n \in Nat, Sortable(n)
  PROVE  Sortable(n + 1)
<1> SUFFICES ASSUME NEW r \in [1..(n + 1) -> Orders]
             PROVE  \E q \in Bijection(1..(n + 1), 1..(n + 1)) : Ascending(Moved(r, q))
  BY DEF Sortable
<1>1. Count \in Nat /\ Orders \subseteq 0..Count /\ Orders \subseteq Nat
  BY FetchAssumption DEF Orders
<1>2. PICK g \in 1..(n + 1) : \A i \in 1..(n + 1) : r[i] <= r[g]
  <2> DEFINE V == {r[i] : i \in 1..(n + 1)}
  <2>1. V \subseteq 0..Count /\ V # {}
    <3>1. n + 1 \in 1..(n + 1)
      OBVIOUS
    <3> QED
      BY <3>1, <1>1
  <2>2. \E x \in V : \A y \in V : y <= x
    <3> HIDE DEF V
    <3> QED
      BY <2>1, <1>1, GreatestNat
  <2> QED
    BY <2>2
<1> DEFINE r2 == [i \in 1..n |-> IF i = g THEN r[n + 1] ELSE r[i]]
<1>3. r2 \in [1..n -> Orders]
  OBVIOUS
<1>4. PICK p \in Bijection(1..n, 1..n) : Ascending(Moved(r2, p))
  <2> HIDE DEF r2
  <2> QED
    BY <1>3 DEF Sortable
<1>5. /\ p \in [1..n -> 1..n]
      /\ \A a, b \in 1..n : p[a] = p[b] => a = b
      /\ \A t \in 1..n : \E s \in 1..n : p[s] = t
  BY <1>4 DEF Bijection, Injection, Surjection, IsInjective
<1> DEFINE q == [i \in 1..(n + 1) |-> IF i = n + 1 THEN g
                                      ELSE IF p[i] = g THEN n + 1 ELSE p[i]]
<1>6. /\ \A i \in 1..(n + 1) : i \in 1..n \/ i = n + 1
      /\ \A i \in 1..n : i \in 1..(n + 1) /\ i # n + 1
      /\ n + 1 \in 1..(n + 1)
  OBVIOUS
<1>7. /\ q \in [1..(n + 1) -> 1..(n + 1)] /\ q[n + 1] = g
      /\ \A i \in 1..n : q[i] = IF p[i] = g THEN n + 1 ELSE p[i]
  BY <1>5, <1>6
<1> HIDE DEF q
<1>8. \A a, b \in 1..(n + 1) : q[a] = q[b] => a = b
  <2>1. \A a \in 1..n : p[a] \in 1..n /\ p[a] # n + 1 /\ q[a] # g
    BY <1>5, <1>6, <1>7
  <2>2. ASSUME NEW a \in 1..n, NEW b \in 1..n, q[a] = q[b] PROVE a = b
    <3>1. /\ p[a] # n + 1 /\ p[b] # n + 1
          /\ q[a] = IF p[a] = g THEN n + 1 ELSE p[a]
          /\ q[b] = IF p[b] = g THEN n + 1 ELSE p[b]
      BY <2>1, <1>7
    <3>2. p[a] = p[b]
      BY <3>1, <2>2, Zenon
    <3> QED
      BY <3>2, <1>5
  <2>3. ASSUME NEW a \in 1..n PROVE q[a] # q[n + 1]
    BY <2>1, <1>7
  <2>4. ASSUME NEW a \in 1..(n + 1), NEW b \in 1..(n + 1), q[a] = q[b] PROVE a = b
    <3>1. (a \in 1..n \/ a = n + 1) /\ (b \in 1..n \/ b = n + 1)
      BY <1>6
    <3> QED
      BY <3>1, <2>2, <2>3, <2>4, Zenon
  <2> QED
    BY <2>4
<1>9. \A t \in 1..(n + 1) : \E s \in 1..(n + 1) : q[s] = t
  <2> SUFFICES ASSUME NEW t \in 1..(n + 1) PROVE \E s \in 1..(n + 1) : q[s] = t
    OBVIOUS
  <2>1. CASE t = g
    BY <2>1, <1>6, <1>7
  <2>2. CASE t # g /\ t = n + 1
    <3>1. g \in 1..n
      BY <2>2, <1>6
    <3>2. PICK s \in 1..n : p[s] = g
      BY <3>1, <1>5
    <3> QED
      BY <3>2, <2>2, <1>6, <1>7
  <2>3. CASE t # g /\ t # n + 1
    <3>1. PICK s \in 1..n : p[s] = t
      BY <2>3, <1>5, <1>6
    <3> QED
      BY <3>1, <2>3, <1>6, <1>7
  <2> QED
    BY <2>1, <2>2, <2>3
<1>10. q \in Bijection(1..(n + 1), 1..(n + 1))
  BY <1>7, <1>8, <1>9 DEF Bijection, Injection, Surjection, IsInjective
<1>11. \A i \in 1..n : r[q[i]] = r2[p[i]]
  BY <1>5, <1>6, <1>7
<1>12. \A i, j \in 1..n : i < j => r2[p[i]] <= r2[p[j]]
  <2>1. DOMAIN r2 = 1..n
    OBVIOUS
  <2> HIDE DEF r2
  <2> QED
    BY <2>1, <1>4 DEF Ascending, Moved
<1>13. ASSUME NEW i \in 1..(n + 1), NEW j \in 1..(n + 1), i < j PROVE r[q[i]] <= r[q[j]]
  <2>1. CASE j = n + 1
    BY <2>1, <1>2, <1>7
  <2>2. CASE j \in 1..n
    <3>1. i \in 1..n
      BY <2>2, <1>13
    <3> QED
      BY <3>1, <2>2, <1>11, <1>12, <1>13
  <2> QED
    BY <2>1, <2>2, <1>6
<1>14. Ascending(Moved(r, q))
  BY <1>13 DEF Ascending, Moved
<1> QED
  BY <1>10, <1>14

(* Every list of orders can be sorted.                                     *)
LEMMA SortExists == \A n \in Nat : Sortable(n)
<1> DEFINE S == {n \in Nat : Sortable(n)}
<1>1. Sortable(0)
  <2> SUFFICES ASSUME NEW r \in [1..0 -> Orders]
               PROVE  \E p \in Bijection(1..0, 1..0) : Ascending(Moved(r, p))
    BY DEF Sortable
  <2>1. r \in Bijection(1..0, 1..0) /\ Ascending(Moved(r, r))
    BY DEF Bijection, Injection, Surjection, IsInjective, Ascending, Moved
  <2> QED
    BY <2>1
<1>2. 0 \in S /\ \A n \in Nat : n \in S => n + 1 \in S
  BY <1>1, SortableStep
<1>3. \A n \in Nat : n \in S
  <2> HIDE DEF S
  <2> QED
    BY <1>2, SetInduction
<1> QED
  BY <1>3

(* Sorting distinct orders loses none, adds none and leaves them in        *)
(* increasing order.                                                       *)
LEMMA SortedByOrder ==
  ASSUME NEW s \in Seq(Orders), IsInjective(s)
  PROVE  LET t == SortByOrder(s) IN
         /\ Range(t) = Range(s)
         /\ \A i, j \in DOMAIN t : i < j => t[i] < t[j]
<1> DEFINE D == DOMAIN s
           p == CHOOSE p \in Bijection(D, D) : Ascending(Moved(s, p))
           t == Moved(s, p)
<1>1. D = 1..Len(s) /\ Len(s) \in Nat /\ s \in [1..Len(s) -> Orders]
  BY LenProperties
<1>2. \E q \in Bijection(D, D) : Ascending(Moved(s, q))
  BY <1>1, SortExists DEF Sortable
<1>3. p \in Bijection(D, D) /\ Ascending(t)
  BY <1>2
<1>4. t = SortByOrder(s)
  BY DEF SortByOrder
<1> HIDE DEF p
<1>5. /\ p \in [D -> D]
      /\ \A a, b \in D : p[a] = p[b] => a = b
      /\ \A x \in D : \E y \in D : p[y] = x
  BY <1>3 DEF Bijection, Injection, Surjection, IsInjective
<1>6. DOMAIN t = D /\ \A i \in D : t[i] = s[p[i]]
  BY DEF Moved
<1> HIDE DEF t
<1>7. Range(t) = Range(s)
  <2>1. \A i \in D : t[i] \in Range(s)
    BY <1>5, <1>6 DEF Range
  <2>2. \A i \in D : s[i] \in Range(t)
    <3> SUFFICES ASSUME NEW i \in D PROVE s[i] \in Range(t)
      OBVIOUS
    <3>1. PICK y \in D : p[y] = i
      BY <1>5
    <3> QED
      BY <3>1, <1>6 DEF Range
  <2> QED
    BY <2>1, <2>2, <1>6 DEF Range
<1>8. ASSUME NEW i \in D, NEW j \in D, i < j PROVE t[i] < t[j]
  <2>1. t[i] <= t[j]
    BY <1>3, <1>6, <1>8 DEF Ascending
  <2>2. p[i] # p[j] /\ p[i] \in D /\ p[j] \in D
    <3>1. i # j
      BY <1>1, <1>8
    <3> QED
      BY <3>1, <1>5, Zenon
  <2>3. t[i] # t[j]
    BY <2>2, <1>6 DEF IsInjective
  <2>4. t[i] \in Nat /\ t[j] \in Nat
    <3>1. s[p[i]] \in Orders /\ s[p[j]] \in Orders
      BY <2>2, <1>1
    <3>2. Orders \subseteq Nat
      BY FetchAssumption DEF Orders
    <3> QED
      BY <3>1, <3>2, <1>6
  <2> QED
    BY <2>1, <2>3, <2>4
<1> QED
  BY <1>4, <1>6, <1>7, <1>8
-----------------------------------------------------------------------------
(***************************************************************************)
(* The invariant.                                                          *)
(***************************************************************************)

(* An idle or stopped worker holds no answer.                              *)
LEMMA NoAnswer ==
  /\ Idle \notin Response /\ Stopped \notin Response
  /\ Count \in Nat /\ Count >= 1 /\ Orders \subseteq Nat /\ 0 \notin Orders
  /\ \A r \in Response : r.order \in Orders /\ r.kind \in Kinds
  /\ \A r, q \in Response : r.order = q.order /\ r.kind = q.kind => r = q
BY FetchAssumption DEF Response, Idle, Stopped, Orders

(* Answers on their way are answers.                                       *)
LEMMA UnrecordedAreResponses ==
  ASSUME FetchTypeOK
  PROVE  Unrecorded \subseteq Response
<1>1. Range(collect) \subseteq Response
  BY ElementOfSeq DEF FetchTypeOK, Range
<1> QED
  BY <1>1 DEF FetchTypeOK, Unrecorded, Holders

(* Nothing has been sent at the beginning.                                 *)
LEMMA InitFetchInv == InitFetch => FetchInv
<1> SUFFICES ASSUME InitFetch PROVE FetchInv
  OBVIOUS
<1>1. FetchTypeOK
  <2>1. sent \in 0..Count /\ count \in Nat /\ wg \in Nat
    BY NoAnswer DEF InitFetch
  <2>2. wpc \in [Workers -> Response \cup {Idle, Stopped}] /\ resp \in Response \cup {Idle}
    BY DEF InitFetch
  <2>3. work \in Seq(Orders) /\ collect \in Seq(Response) /\ oprResponses \in Seq(Orders)
    BY DEF InitFetch
  <2>4. outcome \in [Orders -> Kinds \cup {"unknown"}]
    BY DEF InitFetch
  <2> QED
    BY <2>1, <2>2, <2>3, <2>4 DEF InitFetch, FetchTypeOK
<1>2. Holders = {} /\ Range(work) = {} /\ Range(collect) = {} /\ Range(oprResponses) = {}
      /\ IsInjective(work) /\ IsInjective(collect) /\ IsInjective(oprResponses)
  BY NoAnswer, RangeEmpty DEF InitFetch, Holders
<1>3. Unrecorded = {} /\ Owed = 0
  BY <1>2 DEF InitFetch, Unrecorded, Owed
<1>4. CountInv
  <2>1. IsFiniteSet(Holders) /\ Cardinality(Holders) = 0
    BY <1>2, FS_EmptySet
  <2>2. Len(work) = 0 /\ Len(collect) = 0
    BY DEF InitFetch
  <2> QED
    BY <2>1, <2>2, <1>3, NoAnswer DEF InitFetch, CountInv
<1>5. WorkInv
  BY <1>2, NoAnswer DEF InitFetch, WorkInv
<1>6. AnswersInv
  BY <1>2, <1>3 DEF InitFetch, AnswersInv
<1>7. RecordedInv
  BY <1>2, <1>3 DEF InitFetch, RecordedInv
<1> QED
  BY <1>1, <1>4, <1>5, <1>6, <1>7 DEF FetchInv

(* The caller queues an entry nobody has seen.                             *)
LEMMA SendWorkKeeps == FetchInv /\ SendWork => FetchInv'
<1> SUFFICES ASSUME FetchInv, SendWork PROVE FetchInv'
  OBVIOUS
<1>1. /\ mpc = "send" /\ work' = Append(work, sent + 1) /\ sent' = sent + 1
      /\ mpc' = IF sent' = Count THEN "wait" ELSE "send"
      /\ UNCHANGED <<result, collect, closed, wpc, wg, outcome>>
      /\ UNCHANGED <<resp, oprResponses, collectErr, cpc, count>>
  BY DEF SendWork, collectorVars
<1>2. sent \in Nat /\ sent < Count /\ sent + 1 \in Orders /\ work \in Seq(Orders) /\ Count \in Nat
  BY <1>1, NoAnswer DEF FetchInv, FetchTypeOK, CountInv, Orders
<1>3. /\ work' \in Seq(Orders) /\ Len(work') = Len(work) + 1
      /\ Range(work') = Range(work) \cup {sent + 1} /\ IsInjective(work')
  <2>1. IsInjective(work) /\ sent + 1 \notin Range(work)
    BY <1>2 DEF FetchInv, WorkInv
  <2> QED
    BY <2>1, <1>1, <1>2, RangeAppend, AppendProperties
<1>4. FetchTypeOK'
  <2>1. sent' \in 0..Count /\ mpc' \in {"send", "wait", "returned"}
    BY <1>1, <1>2
  <2> QED
    BY <2>1, <1>1, <1>3 DEF FetchInv, FetchTypeOK
<1>5. Holders' = Holders /\ Unrecorded' = Unrecorded /\ Owed' = Owed
  BY <1>1 DEF Holders, Unrecorded, Owed
<1>6. CountInv'
  <2>1. Len(work) \in Nat /\ Len(collect) \in Nat /\ Owed \in Nat
    BY <1>2, LenProperties DEF FetchInv, FetchTypeOK, Owed
  <2>2. Cardinality(Holders) \in Nat
    BY FS_CardinalityType DEF FetchInv, CountInv
  <2>3. count' = (Count - sent') + Len(work') + Cardinality(Holders') + Len(collect') + Owed'
    BY <2>1, <2>2, <1>1, <1>2, <1>3, <1>5 DEF FetchInv, CountInv
  <2>4. mpc' = "send" <=> sent' < Count
    BY <1>1, <1>2
  <2>5. mpc' # "returned"
    BY <1>1
  <2> QED
    BY <2>3, <2>4, <2>5, <1>1, <1>5 DEF FetchInv, CountInv
<1>7. WorkInv'
  <2>1. \A i \in Orders : i > sent <=> i > sent + 1 \/ i = sent + 1
    BY <1>2, NoAnswer
  <2>2. \A i \in Orders : outcome[i] = "unknown" <=> i > sent + 1 \/ i \in Range(work')
    BY <2>1, <1>2, <1>3 DEF FetchInv, WorkInv
  <2>3. \A i \in Range(work') : i <= sent + 1
    <3>1. Range(work) \subseteq Orders
      BY <1>2, ElementOfSeq DEF Range
    <3>2. \A i \in Range(work) : i <= sent /\ i \in Nat
      BY <3>1, NoAnswer DEF FetchInv, WorkInv
    <3>3. \A i \in Range(work) : i <= sent + 1
      BY <3>2, <1>2
    <3> QED
      BY <3>3, <1>2, <1>3
  <2> QED
    BY <2>2, <2>3, <1>1, <1>3 DEF WorkInv
<1>8. AnswersInv'
  BY <1>1, <1>5 DEF FetchInv, AnswersInv
<1>9. RecordedInv'
  BY <1>1, <1>5 DEF FetchInv, RecordedInv
<1> QED
  BY <1>4, <1>6, <1>7, <1>8, <1>9 DEF FetchInv

(* The caller returns once the wait group is at zero.                      *)
LEMMA ReturnKeeps == FetchInv /\ Return => FetchInv'
<1> SUFFICES ASSUME FetchInv, Return PROVE FetchInv'
  OBVIOUS
<1>1. /\ mpc = "wait" /\ wg = 0 /\ mpc' = "returned"
      /\ result' = [oprs |-> SortByOrder(oprResponses), err |-> collectErr]
      /\ UNCHANGED <<sent, work, collect, closed, wpc, wg, outcome>>
      /\ UNCHANGED <<resp, oprResponses, collectErr, cpc, count>>
  BY DEF Return, collectorVars
<1>2. FetchTypeOK'
  BY <1>1 DEF FetchInv, FetchTypeOK
<1>3. Holders' = Holders /\ Unrecorded' = Unrecorded /\ Owed' = Owed
  BY <1>1 DEF Holders, Unrecorded, Owed
<1>4. CountInv'
  BY <1>1, <1>3 DEF FetchInv, CountInv
<1>5. WorkInv'
  BY <1>1 DEF FetchInv, WorkInv
<1>6. AnswersInv'
  BY <1>1, <1>3 DEF FetchInv, AnswersInv
<1>7. RecordedInv'
  BY <1>1, <1>3 DEF FetchInv, RecordedInv
<1> QED
  BY <1>2, <1>4, <1>5, <1>6, <1>7 DEF FetchInv

(* A worker takes an entry of which nothing was known.                     *)
LEMMA FetchEntryKeeps == \A w \in Workers : FetchInv /\ FetchEntry(w) => FetchInv'
<1> SUFFICES ASSUME NEW w \in Workers, FetchInv, FetchEntry(w) PROVE FetchInv'
  OBVIOUS
<1>1. PICK kind \in Kinds :
        /\ wpc[w] = Idle /\ work # <<>> /\ work' = Tail(work)
        /\ wpc' = [wpc EXCEPT ![w] = [order |-> Head(work), kind |-> kind]]
        /\ outcome' = [outcome EXCEPT ![Head(work)] = kind]
        /\ UNCHANGED <<sent, mpc, result, collect, closed, wg>>
        /\ UNCHANGED <<resp, oprResponses, collectErr, cpc, count>>
  BY DEF FetchEntry, mainVars, collectorVars
<1> DEFINE h == Head(work)
           r == [order |-> h, kind |-> kind]
<1>2. /\ work \in Seq(Orders) /\ wpc \in [Workers -> Response \cup {Idle, Stopped}]
      /\ outcome \in [Orders -> Kinds \cup {"unknown"}] /\ IsInjective(work)
  BY DEF FetchInv, FetchTypeOK, WorkInv
<1>3. /\ work' \in Seq(Orders) /\ h \in Orders /\ Len(work') = Len(work) - 1
      /\ Range(work) = {h} \cup Range(work') /\ IsInjective(work') /\ h \notin Range(work')
      /\ Len(work) \in Nat
  BY <1>1, <1>2, RangeTail, HeadTailProperties
<1>4. r \in Response /\ r.order = h /\ r.kind = kind
  BY <1>3 DEF Response
<1> HIDE DEF h, r
<1>5. outcome[h] = "unknown" /\ kind # "unknown" /\ h <= sent
  BY <1>3 DEF FetchInv, WorkInv, Kinds
<1>6. /\ wpc' \in [Workers -> Response \cup {Idle, Stopped}] /\ wpc'[w] = r
      /\ \A v \in Workers : v # w => wpc'[v] = wpc[v]
      /\ outcome' \in [Orders -> Kinds \cup {"unknown"}] /\ outcome'[h] = kind
      /\ \A i \in Orders : i # h => outcome'[i] = outcome[i]
  BY <1>1, <1>2, <1>3, <1>4 DEF r, h
<1>7. FetchTypeOK'
  BY <1>1, <1>3, <1>6 DEF FetchInv, FetchTypeOK
<1>8. Holders' = Holders \cup {w} /\ w \notin Holders /\ Owed' = Owed
  BY <1>1, <1>2, <1>4, <1>6, NoAnswer DEF Holders, Owed
<1>9. Unrecorded' = Unrecorded \cup {r}
  <2>1. {wpc'[v] : v \in Holders'} = {wpc[v] : v \in Holders} \cup {r}
    <3>1. \A v \in Holders : v # w /\ v \in Workers /\ wpc'[v] = wpc[v]
      BY <1>6, <1>8 DEF Holders
    <3> QED
      BY <3>1, <1>6, <1>8
  <2> QED
    BY <2>1, <1>1 DEF Unrecorded
<1>10. CountInv'
  <2>1. /\ IsFiniteSet(Holders') /\ Cardinality(Holders') = Cardinality(Holders) + 1
        /\ Cardinality(Holders) \in Nat
    BY <1>8, FS_AddElement, FS_CardinalityType DEF FetchInv, CountInv
  <2>2. Len(collect) \in Nat /\ Owed \in Nat /\ sent \in Nat /\ Count \in Nat
    BY LenProperties, NoAnswer DEF FetchInv, FetchTypeOK, Owed
  <2>3. count' = (Count - sent') + Len(work') + Cardinality(Holders') + Len(collect') + Owed'
    BY <2>1, <2>2, <1>1, <1>3, <1>8 DEF FetchInv, CountInv
  <2> QED
    BY <2>1, <2>3, <1>1 DEF FetchInv, CountInv
<1>11. WorkInv'
  <2>1. \A i \in Orders : outcome'[i] = "unknown" <=> i > sent \/ i \in Range(work')
    <3> SUFFICES ASSUME NEW i \in Orders
                 PROVE  outcome'[i] = "unknown" <=> i > sent \/ i \in Range(work')
      OBVIOUS
    <3>1. CASE i = h
      <4>1. ~(h > sent)
        BY <1>5, <1>3, NoAnswer DEF FetchInv, FetchTypeOK
      <4> QED
        BY <4>1, <3>1, <1>3, <1>5, <1>6
    <3>2. CASE i # h
      BY <3>2, <1>3, <1>6 DEF FetchInv, WorkInv
    <3> QED
      BY <3>1, <3>2
  <2> QED
    BY <2>1, <1>1, <1>3 DEF FetchInv, WorkInv
<1>12. \A q \in Unrecorded : q \in Response /\ q.order # h /\ q # r
  BY <1>4, <1>5, UnrecordedAreResponses, NoAnswer DEF FetchInv, AnswersInv, Kinds
<1>13. AnswersInv'
  <2>1. \A q \in Unrecorded' : outcome'[q.order] = q.kind
    BY <1>4, <1>6, <1>9, <1>12, NoAnswer DEF FetchInv, AnswersInv
  <2>2. /\ \A v \in Holders : wpc[v] \in Unrecorded /\ wpc'[v] = wpc[v]
        /\ Range(collect) \subseteq Unrecorded /\ (cpc = "record" => resp \in Unrecorded)
    BY <1>6, <1>8 DEF Unrecorded, Holders
  <2>3. r \notin Range(collect) /\ (cpc = "record" => resp # r) /\ \A v \in Holders : wpc[v] # r
    BY <2>2, <1>12
  <2>4. \A u, v \in Holders' : wpc'[u] = wpc'[v] => u = v
    BY <2>2, <2>3, <1>6, <1>8 DEF FetchInv, AnswersInv
  <2>5. \A v \in Holders' : wpc'[v] \notin Range(collect)
    BY <2>2, <2>3, <1>6, <1>8 DEF FetchInv, AnswersInv
  <2>6. cpc = "record" => \A v \in Holders' : wpc'[v] # resp
    BY <2>2, <2>3, <1>6, <1>8 DEF FetchInv, AnswersInv
  <2> QED
    BY <2>1, <2>4, <2>5, <2>6, <1>1 DEF FetchInv, AnswersInv
<1>14. RecordedInv'
  <2>1. Range(oprResponses) \subseteq Orders
    BY ElementOfSeq DEF FetchInv, FetchTypeOK, Range
  <2>2. \A i \in Range(oprResponses) : i # h
    BY <1>5 DEF FetchInv, RecordedInv
  <2>3. \A i \in Range(oprResponses) : outcome'[i] = "opr" /\ \A q \in Unrecorded' : q.order # i
    BY <2>1, <2>2, <1>4, <1>6, <1>9 DEF FetchInv, RecordedInv
  <2>4. \A i \in Orders : outcome'[i] = "opr" =>
           i \in Range(oprResponses) \/ \E q \in Unrecorded' : q.order = i
    BY <1>4, <1>6, <1>9 DEF FetchInv, RecordedInv
  <2>5. \A i \in Orders : outcome'[i] = "error" =>
           collectErr \/ \E q \in Unrecorded' : q.order = i
    BY <1>4, <1>6, <1>9 DEF FetchInv, RecordedInv
  <2>6. collectErr => \E i \in Orders : outcome'[i] = "error"
    BY <1>5, <1>6 DEF FetchInv, RecordedInv
  <2> QED
    BY <2>3, <2>4, <2>5, <2>6, <1>1 DEF FetchInv, RecordedInv
<1> QED
  BY <1>7, <1>10, <1>11, <1>13, <1>14 DEF FetchInv

(* A worker's answer moves to the channel.                                 *)
LEMMA SendResultKeeps == \A w \in Workers : FetchInv /\ SendResult(w) => FetchInv'
<1> SUFFICES ASSUME NEW w \in Workers, FetchInv, SendResult(w) PROVE FetchInv'
  OBVIOUS
<1> DEFINE r == wpc[w]
<1>1. /\ r \in Response /\ collect' = Append(collect, r)
      /\ wpc' = [wpc EXCEPT ![w] = Idle]
      /\ UNCHANGED <<sent, mpc, result, work, closed, wg, outcome>>
      /\ UNCHANGED <<resp, oprResponses, collectErr, cpc, count>>
  BY DEF SendResult, mainVars, collectorVars
<1>2. /\ collect \in Seq(Response) /\ wpc \in [Workers -> Response \cup {Idle, Stopped}]
      /\ IsInjective(collect) /\ r \notin Range(collect) /\ w \in Holders
  BY <1>1 DEF FetchInv, FetchTypeOK, AnswersInv, Holders
<1>3. /\ wpc' \in [Workers -> Response \cup {Idle, Stopped}] /\ wpc'[w] = Idle
      /\ \A v \in Workers : v # w => wpc'[v] = wpc[v]
  BY <1>1, <1>2
<1>4. /\ collect' \in Seq(Response) /\ Len(collect') = Len(collect) + 1 /\ Len(collect) \in Nat
      /\ Range(collect') = Range(collect) \cup {r} /\ IsInjective(collect')
  BY <1>1, <1>2, RangeAppend, AppendProperties
<1>5. Holders' = Holders \ {w} /\ Owed' = Owed
  BY <1>1, <1>3, NoAnswer DEF Holders, Owed
<1>6. /\ \A v \in Holders' : v \in Holders /\ v # w /\ wpc'[v] = wpc[v] /\ wpc[v] # r
      /\ \A v \in Holders : v = w \/ v \in Holders'
  BY <1>2, <1>3, <1>5 DEF FetchInv, AnswersInv, Holders
<1> HIDE DEF r
<1>7. Unrecorded' = Unrecorded
  <2>1. {wpc[v] : v \in Holders} = {wpc'[v] : v \in Holders'} \cup {r}
    BY <1>2, <1>6 DEF r
  <2> QED
    BY <2>1, <1>1, <1>4 DEF Unrecorded
<1>8. FetchTypeOK'
  BY <1>1, <1>3, <1>4 DEF FetchInv, FetchTypeOK
<1>9. CountInv'
  <2>1. /\ IsFiniteSet(Holders') /\ Cardinality(Holders') = Cardinality(Holders) - 1
        /\ Cardinality(Holders) \in Nat
    BY <1>2, <1>5, FS_RemoveElement, FS_CardinalityType DEF FetchInv, CountInv
  <2>2. Len(work) \in Nat /\ Owed \in Nat /\ sent \in Nat /\ Count \in Nat
    BY LenProperties, NoAnswer DEF FetchInv, FetchTypeOK, Owed
  <2>3. count' = (Count - sent') + Len(work') + Cardinality(Holders') + Len(collect') + Owed'
    BY <2>1, <2>2, <1>1, <1>4, <1>5 DEF FetchInv, CountInv
  <2> QED
    BY <2>1, <2>3, <1>1 DEF FetchInv, CountInv
<1>10. WorkInv'
  BY <1>1 DEF FetchInv, WorkInv
<1>11. AnswersInv'
  <2>1. cpc = "record" => resp # r
    BY <1>2 DEF FetchInv, AnswersInv, r
  <2>2. \A v \in Holders' : wpc'[v] \notin Range(collect')
    BY <1>4, <1>6 DEF FetchInv, AnswersInv
  <2>3. \A u, v \in Holders' : wpc'[u] = wpc'[v] => u = v
    BY <1>6 DEF FetchInv, AnswersInv
  <2>4. cpc = "record" => resp \notin Range(collect') /\ \A v \in Holders' : wpc'[v] # resp
    BY <2>1, <1>4, <1>6 DEF FetchInv, AnswersInv
  <2> QED
    BY <2>2, <2>3, <2>4, <1>1, <1>4, <1>7 DEF FetchInv, AnswersInv
<1>12. RecordedInv'
  BY <1>1, <1>7 DEF FetchInv, RecordedInv
<1> QED
  BY <1>8, <1>9, <1>10, <1>11, <1>12 DEF FetchInv

(* A worker that leaves holds no answer.                                   *)
LEMMA StopWorkingKeeps == \A w \in Workers : FetchInv /\ StopWorking(w) => FetchInv'
<1> SUFFICES ASSUME NEW w \in Workers, FetchInv, StopWorking(w) PROVE FetchInv'
  OBVIOUS
<1>1. /\ wpc[w] = Idle /\ wpc' = [wpc EXCEPT ![w] = Stopped]
      /\ UNCHANGED <<sent, mpc, result, work, collect, closed, wg, outcome>>
      /\ UNCHANGED <<resp, oprResponses, collectErr, cpc, count>>
  BY DEF StopWorking, mainVars, collectorVars
<1>2. /\ wpc' \in [Workers -> Response \cup {Idle, Stopped}] /\ wpc'[w] = Stopped
      /\ \A v \in Workers : v # w => wpc'[v] = wpc[v]
  BY <1>1 DEF FetchInv, FetchTypeOK
<1>3. FetchTypeOK'
  BY <1>1, <1>2 DEF FetchInv, FetchTypeOK
<1>4. Holders' = Holders /\ Owed' = Owed /\ \A v \in Holders : wpc'[v] = wpc[v]
  BY <1>1, <1>2, NoAnswer DEF Holders, Owed
<1>5. Unrecorded' = Unrecorded
  <2>1. {wpc[v] : v \in Holders} = {wpc'[v] : v \in Holders'}
    BY <1>4
  <2> QED
    BY <2>1, <1>1 DEF Unrecorded
<1>6. CountInv'
  BY <1>1, <1>4 DEF FetchInv, CountInv
<1>7. WorkInv'
  BY <1>1 DEF FetchInv, WorkInv
<1>8. AnswersInv'
  BY <1>1, <1>4, <1>5 DEF FetchInv, AnswersInv
<1>9. RecordedInv'
  BY <1>1, <1>5 DEF FetchInv, RecordedInv
<1> QED
  BY <1>3, <1>6, <1>7, <1>8, <1>9 DEF FetchInv

(* The collector takes an answer out of the channel.                       *)
LEMMA ReceiveKeeps == FetchInv /\ Receive => FetchInv'
<1> SUFFICES ASSUME FetchInv, Receive PROVE FetchInv'
  OBVIOUS
<1>1. /\ cpc = "range" /\ collect # <<>> /\ resp' = Head(collect) /\ collect' = Tail(collect)
      /\ cpc' = "record"
      /\ UNCHANGED <<sent, mpc, result, work, closed, wpc, wg, outcome>>
      /\ UNCHANGED <<oprResponses, collectErr, count>>
  BY DEF Receive, mainVars
<1>2. collect \in Seq(Response) /\ IsInjective(collect)
  BY DEF FetchInv, FetchTypeOK, AnswersInv
<1>3. /\ collect' \in Seq(Response) /\ resp' \in Response
      /\ Len(collect') = Len(collect) - 1 /\ Len(collect) \in Nat
      /\ Range(collect) = {resp'} \cup Range(collect') /\ IsInjective(collect')
      /\ resp' \notin Range(collect')
  BY <1>1, <1>2, RangeTail, HeadTailProperties
<1>4. FetchTypeOK'
  BY <1>1, <1>3 DEF FetchInv, FetchTypeOK
<1>5. Holders' = Holders /\ Owed' = 1 /\ Owed = 0 /\ \A w \in Holders : wpc'[w] = wpc[w]
  BY <1>1 DEF Holders, Owed
<1>6. Unrecorded' = Unrecorded
  BY <1>1, <1>3, <1>5 DEF Unrecorded
<1>7. CountInv'
  <2>1. Cardinality(Holders) \in Nat
    BY FS_CardinalityType DEF FetchInv, CountInv
  <2>2. Len(work) \in Nat /\ sent \in Nat /\ Count \in Nat
    BY LenProperties, NoAnswer DEF FetchInv, FetchTypeOK
  <2>3. count' = (Count - sent') + Len(work') + Cardinality(Holders') + Len(collect') + Owed'
    BY <2>1, <2>2, <1>1, <1>3, <1>5 DEF FetchInv, CountInv
  <2>4. count # 0 /\ ~closed
    BY <1>1 DEF FetchInv, CountInv
  <2> QED
    BY <2>3, <2>4, <1>1, <1>5 DEF FetchInv, CountInv
<1>8. WorkInv'
  BY <1>1 DEF FetchInv, WorkInv
<1>9. AnswersInv'
  <2>1. resp' \in Range(collect) /\ Range(collect') \subseteq Range(collect)
    BY <1>3
  <2>2. \A w \in Holders : wpc[w] # resp' /\ wpc[w] \notin Range(collect')
    BY <2>1 DEF FetchInv, AnswersInv
  <2> QED
    BY <2>2, <1>1, <1>3, <1>5, <1>6 DEF FetchInv, AnswersInv
<1>10. RecordedInv'
  BY <1>1, <1>6 DEF FetchInv, RecordedInv
<1> QED
  BY <1>4, <1>7, <1>8, <1>9, <1>10 DEF FetchInv

(* An answer is recorded where it says, once.                              *)
LEMMA RecordKeeps == FetchInv /\ Record => FetchInv'
<1> SUFFICES ASSUME FetchInv, Record PROVE FetchInv'
  OBVIOUS
<1>1. /\ cpc = "record" /\ cpc' = "done"
      /\ collectErr' = (collectErr \/ resp.kind = "error")
      /\ oprResponses' = IF resp.kind = "opr" THEN Append(oprResponses, resp.order)
                         ELSE oprResponses
      /\ UNCHANGED <<sent, mpc, result, work, collect, closed, wpc, resp, count, wg, outcome>>
  BY DEF Record, mainVars
<1>2. /\ resp \in Response /\ resp.order \in Orders /\ outcome[resp.order] = resp.kind
      /\ oprResponses \in Seq(Orders) /\ IsInjective(oprResponses)
      /\ resp \in Unrecorded /\ count # 0 /\ mpc # "returned"
  <2>1. resp \in Unrecorded
    BY <1>1 DEF Unrecorded
  <2>2. resp \in Response /\ resp.order \in Orders
    BY <1>1, NoAnswer DEF FetchInv, FetchTypeOK
  <2>3. count # 0 /\ mpc # "returned"
    BY <1>1 DEF FetchInv, CountInv
  <2> QED
    BY <2>1, <2>2, <2>3 DEF FetchInv, FetchTypeOK, AnswersInv, RecordedInv
<1>3. resp.order \notin Range(oprResponses)
  BY <1>2 DEF FetchInv, RecordedInv
<1>4. /\ oprResponses' \in Seq(Orders) /\ IsInjective(oprResponses')
      /\ Range(oprResponses') =
           IF resp.kind = "opr" THEN Range(oprResponses) \cup {resp.order} ELSE Range(oprResponses)
  <2>1. /\ Append(oprResponses, resp.order) \in Seq(Orders)
        /\ IsInjective(Append(oprResponses, resp.order))
        /\ Range(Append(oprResponses, resp.order)) = Range(oprResponses) \cup {resp.order}
    BY <1>2, <1>3, RangeAppend
  <2> QED
    BY <2>1, <1>1, <1>2
<1>5. Holders' = Holders /\ Owed' = Owed /\ \A w \in Holders : wpc'[w] = wpc[w]
  BY <1>1 DEF Holders, Owed
<1>6. Unrecorded = Unrecorded' \cup {resp} /\ resp \notin Unrecorded'
  BY <1>1, <1>5 DEF Unrecorded, FetchInv, AnswersInv
<1>7. \A r \in Unrecorded' : r \in Unrecorded /\ r.order # resp.order
  <2>1. \A r \in Unrecorded : r \in Response /\ outcome[r.order] = r.kind
    BY UnrecordedAreResponses DEF FetchInv, AnswersInv
  <2> QED
    BY <2>1, <1>2, <1>6, NoAnswer
<1>8. FetchTypeOK'
  <2>1. collectErr' \in BOOLEAN
    BY <1>1
  <2> QED
    BY <2>1, <1>1, <1>2, <1>4 DEF FetchInv, FetchTypeOK
<1>9. CountInv'
  BY <1>1, <1>2, <1>5 DEF FetchInv, CountInv
<1>10. WorkInv'
  BY <1>1 DEF FetchInv, WorkInv
<1>11. AnswersInv'
  BY <1>1, <1>5, <1>6 DEF FetchInv, AnswersInv
<1>12. RecordedInv'
  <2>1. \A i \in Range(oprResponses') : outcome[i] = "opr" /\ \A r \in Unrecorded' : r.order # i
    BY <1>2, <1>4, <1>7 DEF FetchInv, RecordedInv
  <2>2. ASSUME NEW i \in Orders, outcome[i] = "opr"
        PROVE  i \in Range(oprResponses') \/ \E r \in Unrecorded' : r.order = i
    <3>1. i \in Range(oprResponses) \/ \E r \in Unrecorded : r.order = i
      BY <2>2 DEF FetchInv, RecordedInv
    <3> QED
      BY <3>1, <2>2, <1>2, <1>4, <1>6
  <2>3. ASSUME NEW i \in Orders, outcome[i] = "error"
        PROVE  collectErr' \/ \E r \in Unrecorded' : r.order = i
    <3>1. collectErr \/ \E r \in Unrecorded : r.order = i
      BY <2>3 DEF FetchInv, RecordedInv
    <3> QED
      BY <3>1, <2>3, <1>1, <1>2, <1>6
  <2>4. collectErr' => \E i \in Orders : outcome[i] = "error"
    BY <1>1, <1>2 DEF FetchInv, RecordedInv
  <2> QED
    BY <2>1, <2>2, <2>3, <2>4, <1>1, <1>2, <1>4 DEF RecordedInv
<1> QED
  BY <1>8, <1>9, <1>10, <1>11, <1>12 DEF FetchInv

(* A recorded answer is counted off.                                       *)
LEMMA DoneKeeps == FetchInv /\ Done => FetchInv'
<1> SUFFICES ASSUME FetchInv, Done PROVE FetchInv'
  OBVIOUS
<1>1. /\ cpc = "done" /\ wg' = wg - 1 /\ count' = count - 1
      /\ cpc' = IF count' = 0 THEN "close" ELSE "range"
      /\ UNCHANGED <<sent, mpc, result, work, collect, closed, wpc, resp, oprResponses,
                     collectErr, outcome>>
  BY DEF Done, mainVars
<1>2. count \in Nat /\ count # 0 /\ wg = count /\ mpc # "returned" /\ ~closed
  BY <1>1 DEF FetchInv, FetchTypeOK, CountInv
<1>3. FetchTypeOK'
  <2>1. count' \in Nat /\ wg' \in Nat /\ cpc' \in {"close", "range"}
    BY <1>1, <1>2
  <2> QED
    BY <2>1, <1>1 DEF FetchInv, FetchTypeOK
<1>4. Holders' = Holders /\ Owed' = 0 /\ Owed = 1
  BY <1>1 DEF Holders, Owed
<1>5. Unrecorded' = Unrecorded
  BY <1>1, <1>4 DEF Unrecorded
<1>6. CountInv'
  <2>1. Cardinality(Holders) \in Nat
    BY FS_CardinalityType DEF FetchInv, CountInv
  <2>2. Len(work) \in Nat /\ Len(collect) \in Nat /\ sent \in Nat /\ Count \in Nat
    BY LenProperties, NoAnswer DEF FetchInv, FetchTypeOK
  <2>3. count' = (Count - sent') + Len(work') + Cardinality(Holders') + Len(collect') + Owed'
    BY <2>1, <2>2, <1>1, <1>4 DEF FetchInv, CountInv
  <2> QED
    BY <2>3, <1>1, <1>2, <1>4 DEF FetchInv, CountInv
<1>7. WorkInv'
  BY <1>1 DEF FetchInv, WorkInv
<1>8. AnswersInv'
  BY <1>1, <1>4, <1>5 DEF FetchInv, AnswersInv
<1>9. RecordedInv'
  BY <1>1, <1>5 DEF FetchInv, RecordedInv
<1> QED
  BY <1>3, <1>6, <1>7, <1>8, <1>9 DEF FetchInv

(* The work channel is closed, or nothing happens.                         *)
LEMMA CloseWorkKeeps == FetchInv /\ (CloseWork \/ UNCHANGED fetchVars) => FetchInv'
<1> SUFFICES ASSUME FetchInv, CloseWork \/ UNCHANGED fetchVars PROVE FetchInv'
  OBVIOUS
<1>1. /\ \/ cpc = "close" /\ closed' = TRUE /\ cpc' = "returned"
         \/ UNCHANGED <<cpc, closed>>
      /\ UNCHANGED <<sent, mpc, result, work, collect, wpc, resp, oprResponses, collectErr,
                     count, wg, outcome>>
  BY DEF CloseWork, mainVars, fetchVars
<1>2. FetchTypeOK'
  BY <1>1 DEF FetchInv, FetchTypeOK
<1>3. Holders' = Holders /\ Owed' = Owed
  BY <1>1 DEF Holders, Owed
<1>4. Unrecorded' = Unrecorded
  BY <1>1, <1>3 DEF Unrecorded
<1>5. CountInv'
  BY <1>1, <1>3 DEF FetchInv, CountInv
<1>6. WorkInv'
  BY <1>1 DEF FetchInv, WorkInv
<1>7. AnswersInv'
  BY <1>1, <1>3, <1>4 DEF FetchInv, AnswersInv
<1>8. RecordedInv'
  BY <1>1, <1>4 DEF FetchInv, RecordedInv
<1> QED
  BY <1>2, <1>5, <1>6, <1>7, <1>8 DEF FetchInv
-----------------------------------------------------------------------------
(* Every goroutine keeps the count of the entries and the places of the    *)
(* answers.                                                                *)
THEOREM FetchInvariant == FetchSpec => []FetchInv
<1>1. FetchInv /\ [NextFetch]_fetchVars => FetchInv'
  <2> SUFFICES ASSUME FetchInv, [NextFetch]_fetchVars PROVE FetchInv'
    OBVIOUS
  <2>1. CASE Caller
    BY <2>1, SendWorkKeeps, ReturnKeeps DEF Caller
  <2>2. CASE Collector
    BY <2>2, ReceiveKeeps, RecordKeeps, DoneKeeps, CloseWorkKeeps DEF Collector
  <2>3. ASSUME NEW w \in Workers, Worker(w) PROVE FetchInv'
    BY <2>3, FetchEntryKeeps, SendResultKeeps, StopWorkingKeeps DEF Worker
  <2>4. CASE UNCHANGED fetchVars
    BY <2>4, CloseWorkKeeps
  <2> QED
    BY <2>1, <2>2, <2>3, <2>4 DEF NextFetch
<1> QED
  BY <1>1, InitFetchInv, PTL DEF FetchSpec

(* When everything is counted off, nothing is on its way.                  *)
LEMMA NothingLeft ==
  ASSUME FetchInv, count = 0
  PROVE  sent = Count /\ work = <<>> /\ collect = <<>> /\ Unrecorded = {}
<1>1. IsFiniteSet(Holders) /\ Cardinality(Holders) \in Nat
  BY FS_CardinalityType DEF FetchInv, CountInv
<1>2. /\ Len(work) \in Nat /\ Len(collect) \in Nat /\ sent \in Nat /\ Count \in Nat
      /\ sent <= Count /\ Owed \in Nat
  BY LenProperties, NoAnswer DEF FetchInv, FetchTypeOK, Owed
<1>3. /\ Count - sent = 0 /\ Len(work) = 0 /\ Cardinality(Holders) = 0 /\ Len(collect) = 0
      /\ Owed = 0
  BY <1>1, <1>2 DEF FetchInv, CountInv
<1>4. Holders = {}
  BY <1>1, <1>3, FS_EmptySet
<1>5. work = <<>> /\ collect = <<>>
  BY <1>3, EmptySeq DEF FetchInv, FetchTypeOK
<1>6. cpc # "record"
  BY <1>3 DEF Owed
<1> QED
  BY <1>2, <1>3, <1>4, <1>5, <1>6, RangeEmpty DEF Unrecorded

(* No send on the closed channel, no wait group below zero, and no answer  *)
(* recorded once the caller may read: for any number of goroutines.        *)
THEOREM ClosedInTime == FetchSpec => []NoUseAfterClose
<1>1. FetchInv => NoUseAfterClose
  <2> SUFFICES ASSUME FetchInv PROVE NoUseAfterClose
    OBVIOUS
  <2>1. ASSUME closed PROVE mpc # "send" /\ work = <<>> /\ collect = <<>>
    <3>1. count = 0
      BY <2>1 DEF FetchInv, CountInv
    <3> QED
      BY <3>1, NothingLeft, NoAnswer DEF FetchInv, CountInv
  <2>2. ASSUME wg = 0
        PROVE  (\A i \in Orders : outcome[i] # "unknown") /\ cpc \in {"close", "returned"}
    <3>1. count = 0
      BY <2>2 DEF FetchInv, CountInv
    <3>2. \A i \in Orders : ~(i > Count)
      BY NoAnswer DEF Orders
    <3> QED
      BY <3>1, <3>2, NothingLeft, RangeEmpty DEF FetchInv, CountInv, WorkInv
  <2>3. wg >= 0
    BY DEF FetchInv, FetchTypeOK
  <2> QED
    BY <2>1, <2>2, <2>3 DEF NoUseAfterClose
<1> QED
  BY <1>1, FetchInvariant, PTL

(* What is returned is what a sequential loop over the entries would       *)
(* return, for any number of entries and workers.                          *)
THEOREM FetchCorrect == FetchSpec => []FetchIsSequential
<1>1. FetchInv => FetchIsSequential
  <2> SUFFICES ASSUME FetchInv, mpc = "returned"
               PROVE  /\ Range(result.oprs) = {i \in Orders : outcome[i] = "opr"}
                      /\ \A i, j \in DOMAIN result.oprs : i < j => result.oprs[i] < result.oprs[j]
                      /\ result.err = (\E i \in Orders : outcome[i] = "error")
    BY DEF FetchIsSequential
  <2>1. Unrecorded = {}
    BY NothingLeft DEF FetchInv, CountInv
  <2>2. result.oprs = SortByOrder(oprResponses) /\ result.err = collectErr
    BY DEF FetchInv, RecordedInv
  <2>3. /\ oprResponses \in Seq(Orders) /\ IsInjective(oprResponses)
        /\ Range(oprResponses) \subseteq Orders
    BY ElementOfSeq DEF FetchInv, FetchTypeOK, RecordedInv, Range
  <2>4. Range(oprResponses) = {i \in Orders : outcome[i] = "opr"}
    BY <2>1, <2>3 DEF FetchInv, RecordedInv
  <2>5. collectErr = (\E i \in Orders : outcome[i] = "error")
    BY <2>1 DEF FetchInv, FetchTypeOK, RecordedInv
  <2> QED
    BY <2>2, <2>3, <2>4, <2>5, SortedByOrder
<1> QED
  BY <1>1, FetchInvariant, PTL
=============================================================================
