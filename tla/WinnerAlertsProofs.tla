------------------------- MODULE WinnerAlertsProofs -------------------------
(***************************************************************************)
(* The winners an OPR lists, for any number of blocks, any number of       *)
(* minutes in a block and any interleaving of monitor, grader and          *)
(* coordinator.                                                            *)
(***************************************************************************)
EXTENDS WinnerAlerts, CommonLemmas, SequenceTheorems, TLAPS

Event == [Dbht : Nat \ {0}, Minute : 0..LastMinute]
Message == [Dbht : Nat \ {0}, Error : BOOLEAN]

TypeOK ==
  /\ failures \subseteq Faults /\ now \in Event /\ listening \in BOOLEAN
  /\ fdAlert \in Seq(Event) /\ grading \in Nat
  /\ alert \in Seq(Event) /\ gAlert \in Seq(Message)
  /\ mining \in BOOLEAN /\ waiting \in Nat /\ opr \in [Dbht : Nat, Winners : Nat]
  /\ submitted \in [Dbht : Nat, At : Nat]

(* Minute 1 of height d is before the event e, or not after it.            *)
OneBefore(d, e) == d < e.Dbht \/ (d = e.Dbht /\ 1 < e.Minute)
OneReached(d, e) == d < e.Dbht \/ (d = e.Dbht /\ 1 <= e.Minute)
Before(e, f) == e.Dbht < f.Dbht \/ (e.Dbht = f.Dbht /\ e.Minute < f.Minute)

(* The events in a channel come in the order of time, up to n.             *)
EachLater(n, ch) ==
  /\ \A i, j \in DOMAIN ch : i < j => Before(ch[i], ch[j])
  /\ \A i \in DOMAIN ch : ch[i] = n \/ Before(ch[i], n)

(* What the grader has taken for minute 1 is before all that it has not,   *)
(* and it announces in that order; so does the coordinator with what it    *)
(* has made an OPR for.                                                    *)
GraderOrder ==
  /\ EachLater(now, fdAlert)
  /\ grading # 0 => OneReached(grading, now) /\ \A e \in Range(fdAlert) : OneBefore(grading, e)
  /\ \A g \in Range(gAlert) : /\ OneReached(g.Dbht, now)
                              /\ \A e \in Range(fdAlert) : OneBefore(g.Dbht, e)
                              /\ grading # 0 => g.Dbht < grading
                              /\ opr.Winners < g.Dbht
  /\ \A i, j \in DOMAIN gAlert : i < j => gAlert[i].Dbht < gAlert[j].Dbht
  /\ OneReached(opr.Winners, now) /\ \A e \in Range(fdAlert) : OneBefore(opr.Winners, e)
  /\ grading # 0 => opr.Winners < grading
CoordinatorOrder ==
  /\ EachLater(now, alert)
  /\ waiting # 0 => /\ OneReached(waiting, now) /\ opr.Dbht < waiting
                    /\ \A e \in Range(alert) : OneBefore(waiting, e)
  /\ OneReached(opr.Dbht, now) /\ \A e \in Range(alert) : OneBefore(opr.Dbht, e)

OrderInv == TypeOK /\ GraderOrder /\ CoordinatorOrder

(***************************************************************************)
(* When nothing is lost a channel holds the last minutes, up to n, without *)
(* a gap.                                                                  *)
(***************************************************************************)
Back(n, k) == IF k <= n.Minute THEN [Dbht |-> n.Dbht, Minute |-> n.Minute - k]
              ELSE [Dbht |-> n.Dbht - 1, Minute |-> LastMinute + 1 + n.Minute - k]
InStep(n, ch) == Len(ch) <= EventCap /\ \A i \in DOMAIN ch : ch[i] = Back(n, Len(ch) - i)

(* The event a listener takes next, now or when it comes, and the first    *)
(* height whose minute 1 is not before it.                                 *)
After(e) == IF e.Minute < LastMinute THEN [Dbht |-> e.Dbht, Minute |-> e.Minute + 1]
            ELSE [Dbht |-> e.Dbht + 1, Minute |-> 0]
Due(n, ch) == IF ch = <<>> THEN After(n) ELSE Head(ch)
FirstOne(e) == IF e.Minute <= 1 THEN e.Dbht ELSE e.Dbht + 1

NothingLost == failures \cap {"missed minute", "overflow"} = {}

(* An OPR that is being made or mined is of the block whose last minute is *)
(* still to come.                                                          *)
MiningInv ==
  /\ waiting # 0 => mining
  /\ NothingLost =>
       /\ InStep(now, alert)
       /\ mining => Due(now, alert).Minute > 1
                    /\ Due(now, alert).Dbht = IF waiting # 0 THEN waiting ELSE opr.Dbht
       /\ submitted.Dbht = submitted.At

(* The heights the grader has announced and the coordinator has not used   *)
(* are consecutive, from the one it wants next.                            *)
Wanted == IF waiting # 0 THEN waiting ELSE FirstOne(Due(now, alert))
Announcing == IF grading # 0 THEN grading ELSE FirstOne(Due(now, fdAlert))
PairingInv ==
  failures = {} =>
    /\ listening /\ InStep(now, fdAlert)
    /\ grading # 0 => Due(now, fdAlert).Minute > 1 /\ Due(now, fdAlert).Dbht = grading
    /\ \A i \in DOMAIN gAlert : gAlert[i].Dbht = Wanted + i - 1
    /\ Announcing = Wanted + Len(gAlert)
    /\ opr.Winners = opr.Dbht

AlertsInv == OrderInv /\ MiningInv /\ PairingInv
-----------------------------------------------------------------------------
(* What a minute that passes does to what was reached before it.           *)
LEMMA AfterIs ==
  ASSUME NEW e \in Event
  PROVE  /\ After(e) \in Event /\ Before(e, After(e))
         /\ \A f \in Event : Before(f, e) => Before(f, After(e))
         /\ \A d \in Nat : OneReached(d, e) => /\ OneReached(d, After(e))
                                               /\ OneBefore(d, After(e))
<1>1. /\ e.Dbht \in Nat \ {0} /\ e.Minute \in 0..LastMinute
      /\ After(e).Dbht = IF e.Minute < LastMinute THEN e.Dbht ELSE e.Dbht + 1
      /\ After(e).Minute = IF e.Minute < LastMinute THEN e.Minute + 1 ELSE 0
  BY DEF After, Event
<1>2. After(e) \in Event
  BY <1>1, AlertsAssumption DEF After, Event
<1>3. \A f \in Event : f.Dbht \in Nat /\ f.Minute \in 0..LastMinute
  BY DEF Event
<1>4. Before(e, After(e)) /\ \A f \in Event : Before(f, e) => Before(f, After(e))
  BY <1>1, <1>3, AlertsAssumption DEF Before
<1>5. \A d \in Nat : OneReached(d, e) => OneReached(d, After(e)) /\ OneBefore(d, After(e))
  BY <1>1, AlertsAssumption DEF OneReached, OneBefore
<1> QED
  BY <1>2, <1>4, <1>5

(* The monitor's next minute.                                              *)
LEMMA NextMinuteIs ==
  ASSUME now \in Event
  PROVE  NextMinute = After(now)
BY DEF NextMinute, After, Event

(* A channel stays in order when a minute passes, sent to it or not.       *)
LEMMA OrderSend ==
  ASSUME NEW n \in Event, NEW ch \in Seq(Event), EachLater(n, ch)
  PROVE  EachLater(After(n), ch) /\ EachLater(After(n), Append(ch, After(n)))
<1> DEFINE a == After(n)
           t == Append(ch, a)
           k == Len(ch)
<1>1. /\ a \in Event /\ Before(n, a)
      /\ \A f \in Event : Before(f, n) => Before(f, a)
  BY AfterIs
<1>2. /\ k \in Nat /\ DOMAIN ch = 1..k /\ DOMAIN t = 1..(k + 1)
      /\ \A i \in 1..k : ch[i] \in Event /\ t[i] = ch[i]
      /\ t[k + 1] = a
  BY <1>1, AppendProperties, ElementOfSeq
<1> HIDE DEF a, t, k
<1>3. \A i \in 1..k : Before(ch[i], a)
  BY <1>1, <1>2 DEF EachLater
<1>4. EachLater(a, ch)
  BY <1>2, <1>3 DEF EachLater
<1>5. EachLater(a, t)
  <2>1. \A i \in 1..(k + 1) : i \in 1..k \/ i = k + 1
    BY <1>2
  <2>2. ASSUME NEW i \in 1..(k + 1), NEW j \in 1..(k + 1), i < j PROVE Before(t[i], t[j])
    <3>1. i \in 1..k
      BY <2>2, <1>2
    <3> QED
      BY <3>1, <2>1, <2>2, <1>2, <1>3 DEF EachLater
  <2>3. \A i \in 1..(k + 1) : t[i] = a \/ Before(t[i], a)
    BY <2>1, <1>2, <1>3
  <2> QED
    BY <2>2, <2>3, <1>2 DEF EachLater
<1> QED
  BY <1>4, <1>5 DEF a, t

(* What is taken from a channel is before all that stays in it.            *)
LEMMA OrderTake ==
  ASSUME NEW n \in Event, NEW ch \in Seq(Event), EachLater(n, ch), ch # <<>>
  PROVE  /\ EachLater(n, Tail(ch)) /\ Head(ch) \in Event
         /\ Head(ch) = n \/ Before(Head(ch), n)
         /\ \A e \in Range(Tail(ch)) : e \in Event /\ Before(Head(ch), e)
<1> DEFINE t == Tail(ch)
           k == Len(ch)
<1>1. /\ k \in Nat \ {0} /\ DOMAIN ch = 1..k /\ DOMAIN t = 1..(k - 1)
      /\ Head(ch) = ch[1] /\ Head(ch) \in Event /\ t \in Seq(Event)
      /\ \A i \in 1..(k - 1) : t[i] = ch[i + 1]
  BY HeadTailProperties, EmptySeq
<1> HIDE DEF t, k
<1>2. 1 \in 1..k /\ \A i \in 1..(k - 1) : i + 1 \in 1..k /\ 1 < i + 1
  BY <1>1
<1>3. EachLater(n, t)
  <2>1. ASSUME NEW i \in 1..(k - 1), NEW j \in 1..(k - 1), i < j PROVE Before(t[i], t[j])
    <3>1. i + 1 < j + 1
      BY <2>1
    <3> QED
      BY <3>1, <1>1, <1>2 DEF EachLater
  <2>2. \A i \in 1..(k - 1) : t[i] = n \/ Before(t[i], n)
    BY <1>1, <1>2 DEF EachLater
  <2> QED
    BY <2>1, <2>2, <1>1 DEF EachLater
<1>4. \A i \in 1..(k - 1) : t[i] \in Event /\ Before(ch[1], t[i])
  <2>1. \A i \in 1..(k - 1) : t[i] \in Event
    BY <1>1, ElementOfSeq
  <2> QED
    BY <2>1, <1>1, <1>2 DEF EachLater
<1>5. \A e \in Range(t) : e \in Event /\ Before(Head(ch), e)
  BY <1>1, <1>4 DEF Range
<1>6. Head(ch) = n \/ Before(Head(ch), n)
  BY <1>1, <1>2 DEF EachLater
<1> QED
  BY <1>1, <1>3, <1>5, <1>6 DEF t

(* Counting back from the next minute.                                     *)
LEMMA BackIs ==
  ASSUME NEW n \in Event
  PROVE  /\ Back(n, 0) = n
         /\ \A k \in 0..LastMinute : /\ Back(After(n), k + 1) = Back(n, k)
                                     /\ Back(n, k).Dbht \in Int /\ Back(n, k).Dbht >= n.Dbht - 1
         /\ \A k \in 1..LastMinute : Back(n, k - 1) = After(Back(n, k))
<1>1. n.Dbht \in Nat \ {0} /\ n.Minute \in 0..LastMinute /\ n = [Dbht |-> n.Dbht, Minute |-> n.Minute]
  BY DEF Event
<1>2. Back(n, 0) = n
  BY <1>1 DEF Back
<1>3. ASSUME NEW k \in 0..LastMinute
      PROVE  Back(After(n), k + 1) = Back(n, k)
  <2>1. CASE n.Minute < LastMinute
    <3>1. After(n) = [Dbht |-> n.Dbht, Minute |-> n.Minute + 1]
      BY <2>1 DEF After
    <3> QED
      BY <3>1, <1>1, AlertsAssumption DEF Back
  <2>2. CASE n.Minute = LastMinute
    <3>1. After(n) = [Dbht |-> n.Dbht + 1, Minute |-> 0]
      BY <2>2, <1>1, AlertsAssumption DEF After
    <3>2. Back(n, k) = [Dbht |-> n.Dbht, Minute |-> LastMinute - k]
      BY <2>2, <1>1, AlertsAssumption DEF Back
    <3>3. Back(After(n), k + 1) = [Dbht |-> (n.Dbht + 1) - 1, Minute |-> LastMinute + 1 + 0 - (k + 1)]
      BY <3>1, AlertsAssumption DEF Back
    <3> QED
      BY <3>2, <3>3, <1>1, AlertsAssumption
  <2> QED
    BY <2>1, <2>2, <1>1, AlertsAssumption
<1>4. \A k \in 0..LastMinute : Back(n, k).Dbht \in Int /\ Back(n, k).Dbht >= n.Dbht - 1
  BY <1>1 DEF Back
<1>5. ASSUME NEW k \in 1..LastMinute PROVE Back(n, k - 1) = After(Back(n, k))
  <2>1. CASE k <= n.Minute
    BY <2>1, <1>1, AlertsAssumption DEF Back, After
  <2>2. CASE k - 1 = n.Minute
    BY <2>2, <1>1, AlertsAssumption DEF Back, After
  <2>3. CASE k - 1 > n.Minute
    BY <2>3, <1>1, AlertsAssumption DEF Back, After
  <2> QED
    BY <2>1, <2>2, <2>3, <1>1, AlertsAssumption
<1> QED
  BY <1>2, <1>3, <1>4, <1>5

(* A minute that passes and is sent leaves a listener as it was.           *)
LEMMA StepSend ==
  ASSUME NEW n \in Event, NEW ch \in Seq(Event), InStep(n, ch), Len(ch) < EventCap
  PROVE  /\ InStep(After(n), Append(ch, After(n)))
         /\ Due(After(n), Append(ch, After(n))) = Due(n, ch)
<1> DEFINE a == After(n)
           t == Append(ch, a)
           k == Len(ch)
<1>1. a \in Event
  BY AfterIs
<1>2. /\ k \in Nat /\ DOMAIN ch = 1..k /\ DOMAIN t = 1..(k + 1) /\ Len(t) = k + 1
      /\ \A i \in 1..k : t[i] = ch[i]
      /\ t[k + 1] = a /\ t \in Seq(Event)
  BY <1>1, AppendProperties
<1>3. k < EventCap /\ EventCap \in Nat /\ EventCap <= LastMinute + 1 /\ LastMinute \in Nat
  BY AlertsAssumption, CapacityAssumption
<1>4. Due(a, t) = Due(n, ch)
  <2>1. t # <<>> /\ Head(t) = t[1]
    BY <1>2, HeadTailProperties, EmptySeq
  <2>2. CASE ch = <<>>
    <3>1. k = 0
      BY <2>2
    <3> QED
      BY <3>1, <2>1, <2>2, <1>2 DEF Due
  <2>3. CASE ch # <<>>
    <3>1. Head(ch) = ch[1] /\ 1 \in 1..k
      BY <2>3, <1>2, EmptySeq
    <3> QED
      BY <3>1, <2>1, <2>3, <1>2 DEF Due
  <2> QED
    BY <2>2, <2>3
<1>5. ASSUME NEW i \in 1..(k + 1) PROVE t[i] = Back(a, (k + 1) - i)
  <2>1. CASE i = k + 1
    <3>1. (k + 1) - i = 0
      BY <2>1, <1>2
    <3> QED
      BY <3>1, <2>1, <1>1, <1>2, BackIs
  <2>2. CASE i \in 1..k
    <3>1. k - i \in 0..LastMinute /\ (k + 1) - i = (k - i) + 1
      BY <2>2, <1>2, <1>3
    <3>2. Back(a, (k - i) + 1) = Back(n, k - i)
      BY <3>1, BackIs
    <3>3. t[i] = Back(n, k - i)
      BY <2>2, <1>2 DEF InStep
    <3> QED
      BY <3>1, <3>2, <3>3
  <2> QED
    BY <2>1, <2>2, <1>2
<1>6. k + 1 <= EventCap
  BY <1>2, <1>3
<1>7. InStep(a, t)
  <2> HIDE DEF a, t, k
  <2> QED
    BY <1>2, <1>5, <1>6 DEF InStep
<1> QED
  BY <1>4, <1>7

(* What a listener takes next follows what it has taken.                   *)
LEMMA StepTake ==
  ASSUME NEW n \in Event, NEW ch \in Seq(Event), InStep(n, ch), ch # <<>>
  PROVE  InStep(n, Tail(ch)) /\ Due(n, ch) = Head(ch) /\ Due(n, Tail(ch)) = After(Head(ch))
<1> DEFINE t == Tail(ch)
           k == Len(ch)
<1>1. /\ k \in Nat \ {0} /\ DOMAIN ch = 1..k /\ DOMAIN t = 1..(k - 1)
      /\ Len(t) = k - 1 /\ Head(ch) = ch[1] /\ t \in Seq(Event)
      /\ \A i \in 1..(k - 1) : t[i] = ch[i + 1]
  BY HeadTailProperties, EmptySeq
<1>2. k <= EventCap /\ EventCap \in Nat /\ EventCap <= LastMinute + 1 /\ LastMinute \in Nat
  BY AlertsAssumption, CapacityAssumption DEF InStep
<1>3. \A i \in 1..k : ch[i] = Back(n, k - i)
  BY <1>1 DEF InStep
<1>4. InStep(n, t)
  <2> HIDE DEF t, k
  <2>1. ASSUME NEW i \in 1..(k - 1) PROVE t[i] = Back(n, (k - 1) - i)
    <3>1. i + 1 \in 1..k /\ k - (i + 1) = (k - 1) - i
      BY <1>1
    <3> QED
      BY <3>1, <1>1, <1>3
  <2>2. k - 1 <= EventCap
    BY <1>1, <1>2
  <2> QED
    BY <2>1, <2>2, <1>1 DEF InStep
<1>5. Due(n, t) = After(ch[1])
  <2>0. ch[1] = Back(n, k - 1)
    BY <1>1, <1>3
  <2>1. CASE k = 1
    <3>1. t = <<>> /\ k - 1 = 0
      BY <2>1, <1>1, EmptySeq
    <3>2. Back(n, 0) = n
      BY BackIs
    <3> QED
      BY <3>1, <3>2, <2>0 DEF Due
  <2>2. CASE k > 1
    <3>1. t # <<>> /\ Head(t) = t[1] /\ t[1] = ch[2]
      <4>1. Len(t) # 0 /\ 1 \in 1..(k - 1) /\ 1 + 1 = 2
        BY <2>2, <1>1
      <4> HIDE DEF t, k
      <4>2. t # <<>> /\ t[1] = ch[1 + 1]
        BY <4>1, <1>1
      <4>3. Head(t) = t[1]
        BY <4>2, <1>1, HeadTailProperties
      <4> QED
        BY <4>1, <4>2, <4>3
    <3>2. ch[2] = Back(n, k - 2) /\ k - 1 \in 1..LastMinute /\ (k - 1) - 1 = k - 2
      BY <2>2, <1>1, <1>2, <1>3
    <3>3. Back(n, (k - 1) - 1) = After(Back(n, k - 1))
      BY <3>2, BackIs
    <3> QED
      BY <3>1, <3>2, <3>3, <2>0 DEF Due
  <2> QED
    BY <2>1, <2>2, <1>1
<1> QED
  BY <1>1, <1>4, <1>5 DEF Due

(* A listener that loses nothing is at most a block behind.                *)
LEMMA StepDue ==
  ASSUME NEW n \in Event, NEW ch \in Seq(Event), InStep(n, ch)
  PROVE  Due(n, ch) \in Event /\ Due(n, ch).Dbht >= n.Dbht - 1
<1>0. n.Dbht \in Nat /\ n.Minute \in 0..LastMinute
  BY DEF Event
<1>1. CASE ch = <<>>
  <2>1. After(n) \in Event /\ After(n).Dbht >= n.Dbht
    BY <1>0, AfterIs DEF After
  <2>2. After(n).Dbht \in Nat
    BY <2>1 DEF Event
  <2> QED
    BY <1>0, <1>1, <2>1, <2>2 DEF Due
<1>2. CASE ch # <<>>
  <2>1. /\ Len(ch) \in Nat \ {0} /\ DOMAIN ch = 1..Len(ch)
        /\ Head(ch) = ch[1] /\ Head(ch) \in Event
    BY <1>2, HeadTailProperties, EmptySeq
  <2>2. Len(ch) <= EventCap /\ ch[1] = Back(n, Len(ch) - 1)
    BY <2>1 DEF InStep
  <2>3. Len(ch) - 1 \in 0..LastMinute
    BY <2>1, <2>2, AlertsAssumption, CapacityAssumption
  <2> QED
    BY <1>2, <2>1, <2>2, <2>3, BackIs DEF Due
<1> QED
  BY <1>1, <1>2
-----------------------------------------------------------------------------
(***************************************************************************)
(* The order of events and announcements, whatever is lost.                *)
(***************************************************************************)
(* A send that may be dropped adds at most its own message.                *)
LEMMA SendIs ==
  ASSUME NEW S, NEW ch \in Seq(S), NEW x \in S, NEW t \in {ch, Append(ch, x)}
  PROVE  t \in Seq(S) /\ Range(t) \subseteq Range(ch) \cup {x}
<1>1. CASE t = ch
  BY <1>1
<1>2. CASE t = Append(ch, x)
  <2>1. Append(ch, x) \in Seq(S) /\ Range(Append(ch, x)) = Range(ch) \cup {x}
    BY RangeAppend
  <2> QED
    BY <1>2, <2>1
<1> QED
  BY <1>1, <1>2

LEMMA InitOrder == Init => OrderInv
<1> SUFFICES ASSUME Init PROVE OrderInv
  OBVIOUS
<1>1. /\ failures \in FaultSets /\ now = [Dbht |-> 1, Minute |-> 0]
      /\ fdAlert = <<>> /\ grading = 0 /\ alert = <<>> /\ gAlert = <<>>
      /\ mining = FALSE /\ waiting = 0 /\ opr = [Dbht |-> 0, Winners |-> 0]
      /\ submitted = [Dbht |-> 0, At |-> 0]
  BY DEF Init, NoOPR
<1>2. TypeOK
  <2>1. failures \subseteq Faults /\ listening \in BOOLEAN
    BY AlertsAssumption DEF Init
  <2>2. now \in Event
    BY <1>1, AlertsAssumption DEF Event
  <2>3. fdAlert \in Seq(Event) /\ alert \in Seq(Event) /\ gAlert \in Seq(Message)
    BY <1>1
  <2> QED
    BY <1>1, <2>1, <2>2, <2>3 DEF TypeOK
<1>3. OneReached(0, now)
  BY <1>1 DEF OneReached
<1>4. Range(fdAlert) = {} /\ Range(alert) = {} /\ Range(gAlert) = {}
  BY <1>1, RangeEmpty
<1>5. EachLater(now, fdAlert) /\ EachLater(now, alert) /\ DOMAIN gAlert = {}
  BY <1>1 DEF EachLater
<1>6. GraderOrder
  BY <1>1, <1>3, <1>4, <1>5 DEF GraderOrder
<1>7. CoordinatorOrder
  BY <1>1, <1>3, <1>4, <1>5 DEF CoordinatorOrder
<1> QED
  BY <1>2, <1>6, <1>7 DEF OrderInv

(* A minute passes, and either listener has heard of it or not.            *)
LEMMA PollOrder == OrderInv /\ (Notify \/ MissMinute) => OrderInv'
<1> SUFFICES ASSUME OrderInv, Notify \/ MissMinute PROVE OrderInv'
  OBVIOUS
<1>1. TypeOK /\ GraderOrder /\ CoordinatorOrder
  BY DEF OrderInv
<1>2. now' = After(now) /\ now' \in Event
  BY <1>1, NextMinuteIs, AfterIs DEF TypeOK, Notify, MissMinute
<1>3. /\ UNCHANGED <<failures, listening, grading, gAlert, mining>>
      /\ UNCHANGED <<waiting, opr, submitted>>
  BY DEF Notify, MissMinute, graderVars
<1>4. /\ fdAlert' \in {fdAlert, Append(fdAlert, now')}
      /\ alert' \in {alert, Append(alert, now')}
  BY DEF Notify, MissMinute, TrySend, graderVars
<1>5. /\ fdAlert' \in Seq(Event) /\ Range(fdAlert') \subseteq Range(fdAlert) \cup {now'}
      /\ alert' \in Seq(Event) /\ Range(alert') \subseteq Range(alert) \cup {now'}
  <2>1. fdAlert \in Seq(Event) /\ alert \in Seq(Event)
    BY <1>1 DEF TypeOK
  <2>2. fdAlert' \in Seq(Event) /\ Range(fdAlert') \subseteq Range(fdAlert) \cup {now'}
    <3>1. CASE fdAlert' = fdAlert
      BY <3>1, <2>1
    <3>2. CASE fdAlert' = Append(fdAlert, now')
      BY <3>2, <2>1, <1>2, SendIs
    <3> QED
      BY <3>1, <3>2, <1>4
  <2>3. alert' \in Seq(Event) /\ Range(alert') \subseteq Range(alert) \cup {now'}
    <3>1. CASE alert' = alert
      BY <3>1, <2>1
    <3>2. CASE alert' = Append(alert, now')
      BY <3>2, <2>1, <1>2, SendIs
    <3> QED
      BY <3>1, <3>2, <1>4
  <2> QED
    BY <2>2, <2>3
<1>6. TypeOK'
  BY <1>1, <1>2, <1>3, <1>5 DEF TypeOK
<1>7. \A d \in Nat : OneReached(d, now) => OneReached(d, now') /\ OneBefore(d, now')
  BY <1>1, <1>2, AfterIs DEF TypeOK
<1>8. EachLater(now', fdAlert') /\ EachLater(now', alert')
  BY <1>1, <1>2, <1>4, OrderSend DEF TypeOK, GraderOrder, CoordinatorOrder
<1>9. /\ opr.Winners \in Nat /\ opr.Dbht \in Nat /\ grading \in Nat /\ waiting \in Nat
      /\ \A g \in Range(gAlert) : g.Dbht \in Nat
  <2>1. \A g \in Range(gAlert) : g \in Message
    BY <1>1, ElementOfSeq, LenProperties DEF TypeOK, Range
  <2> QED
    BY <1>1, <2>1 DEF TypeOK, Message
<1>10. GraderOrder'
  <2>1. /\ grading # 0 => /\ OneReached(grading, now')
                          /\ \A e \in Range(fdAlert') : OneBefore(grading, e)
        /\ OneReached(opr.Winners, now') /\ \A e \in Range(fdAlert') : OneBefore(opr.Winners, e)
    BY <1>1, <1>5, <1>7, <1>9 DEF GraderOrder
  <2>2. \A g \in Range(gAlert) : /\ OneReached(g.Dbht, now')
                                 /\ \A e \in Range(fdAlert') : OneBefore(g.Dbht, e)
    BY <1>1, <1>5, <1>7, <1>9 DEF GraderOrder
  <2> QED
    BY <2>1, <2>2, <1>1, <1>3, <1>8 DEF GraderOrder
<1>11. CoordinatorOrder'
  <2>1. /\ waiting # 0 => /\ OneReached(waiting, now')
                          /\ \A e \in Range(alert') : OneBefore(waiting, e)
        /\ OneReached(opr.Dbht, now') /\ \A e \in Range(alert') : OneBefore(opr.Dbht, e)
    BY <1>1, <1>5, <1>7, <1>9 DEF CoordinatorOrder
  <2> QED
    BY <2>1, <1>1, <1>3, <1>8 DEF CoordinatorOrder
<1> QED
  BY <1>6, <1>10, <1>11 DEF OrderInv

(* The grader takes an event.                                              *)
LEMMA GraderEventOrder == OrderInv /\ GraderEvent => OrderInv'
<1> SUFFICES ASSUME OrderInv, GraderEvent PROVE OrderInv'
  OBVIOUS
<1> DEFINE e1 == Head(fdAlert)
<1>1. TypeOK /\ GraderOrder /\ CoordinatorOrder
  BY DEF OrderInv
<1>2. /\ grading = 0 /\ fdAlert # <<>> /\ fdAlert' = Tail(fdAlert)
      /\ grading' = IF e1.Minute = 1 THEN e1.Dbht ELSE 0
  BY DEF GraderEvent
<1>3. UNCHANGED <<failures, now, listening, alert, gAlert, mining, waiting, opr, submitted>>
  BY DEF GraderEvent
<1>4. /\ fdAlert' \in Seq(Event) /\ e1 \in Event
      /\ Range(fdAlert) = {e1} \cup Range(fdAlert')
  BY <1>1, <1>2, RangeTail DEF TypeOK
<1>5. /\ EachLater(now, fdAlert') /\ (e1 = now \/ Before(e1, now))
      /\ \A e \in Range(fdAlert') : e \in Event /\ Before(e1, e)
  BY <1>1, <1>2, OrderTake DEF TypeOK, GraderOrder
<1> HIDE DEF e1
<1>6. e1.Dbht \in Nat \ {0} /\ e1.Minute \in 0..LastMinute /\ now.Dbht \in Nat /\ now.Minute \in Nat
  BY <1>1, <1>4 DEF Event, TypeOK
<1>7. TypeOK'
  <2>1. grading' \in Nat
    BY <1>2, <1>6
  <2> QED
    BY <2>1, <1>1, <1>3, <1>4 DEF TypeOK
<1>8. CoordinatorOrder'
  BY <1>1, <1>3 DEF CoordinatorOrder
<1>9. GraderOrder'
  <2>1. \A d \in Nat : OneBefore(d, e1) /\ e1.Minute = 1 => d < e1.Dbht
    BY <1>6 DEF OneBefore
  <2>2. \A e \in Range(fdAlert') : e1.Minute = 1 => OneBefore(e1.Dbht, e)
    BY <1>5, <1>6 DEF Before, OneBefore
  <2>3. e1.Minute = 1 => OneReached(e1.Dbht, now)
    BY <1>5, <1>6 DEF Before, OneReached
  <2>4. opr.Winners \in Nat /\ \A g \in Range(gAlert) : g.Dbht \in Nat
    <3>1. \A g \in Range(gAlert) : g \in Message
      BY <1>1, ElementOfSeq, LenProperties DEF TypeOK, Range
    <3> QED
      BY <1>1, <3>1 DEF TypeOK, Message
  <2>5. grading' # 0 => grading' = e1.Dbht /\ e1.Minute = 1
    BY <1>2
  <2>6. grading' # 0 => /\ OneReached(grading', now)
                        /\ \A e \in Range(fdAlert') : OneBefore(grading', e)
                        /\ opr.Winners < grading'
    BY <2>1, <2>2, <2>3, <2>4, <2>5, <1>1, <1>4 DEF GraderOrder
  <2>7. \A g \in Range(gAlert) : /\ \A e \in Range(fdAlert') : OneBefore(g.Dbht, e)
                                 /\ grading' # 0 => g.Dbht < grading'
    BY <2>1, <2>4, <2>5, <1>1, <1>4 DEF GraderOrder
  <2> QED
    BY <2>6, <2>7, <1>1, <1>3, <1>4, <1>5 DEF GraderOrder
<1> QED
  BY <1>7, <1>8, <1>9 DEF OrderInv

(* The grader announces what it has graded, or its failure.                *)
LEMMA SendOrder == OrderInv /\ SendToListeners => OrderInv'
<1> SUFFICES ASSUME OrderInv, SendToListeners PROVE OrderInv'
  OBVIOUS
<1>1. TypeOK /\ GraderOrder /\ CoordinatorOrder
  BY DEF OrderInv
<1>2. grading # 0 /\ grading' = 0
  BY DEF SendToListeners
<1>3. UNCHANGED <<failures, now, listening, fdAlert, alert, mining, waiting, opr, submitted>>
  BY DEF SendToListeners
<1>4. PICK failed \in BOOLEAN :
        gAlert' = TrySend(gAlert, AlertCap, [Dbht |-> grading, Error |-> failed])
  BY DEF SendToListeners
<1> DEFINE x == [Dbht |-> grading, Error |-> failed]
<1>5. x \in Message /\ x.Dbht = grading /\ grading \in Nat /\ gAlert \in Seq(Message)
  BY <1>1, <1>2 DEF TypeOK, Message
<1>6. gAlert' \in {gAlert, Append(gAlert, x)}
  BY <1>4 DEF TrySend
<1> HIDE DEF x
<1>7. gAlert' \in Seq(Message) /\ Range(gAlert') \subseteq Range(gAlert) \cup {x}
  <2>1. \A t \in {gAlert, Append(gAlert, x)} :
          t \in Seq(Message) /\ Range(t) \subseteq Range(gAlert) \cup {x}
    BY <1>5, SendIs
  <2> QED
    BY <2>1, <1>6
<1>8. TypeOK'
  BY <1>1, <1>2, <1>3, <1>7 DEF TypeOK
<1>9. CoordinatorOrder'
  BY <1>1, <1>3 DEF CoordinatorOrder
<1>10. \A i, j \in DOMAIN gAlert' : i < j => gAlert'[i].Dbht < gAlert'[j].Dbht
  <2>1. CASE gAlert' = gAlert
    BY <2>1, <1>1 DEF GraderOrder
  <2>2. CASE gAlert' = Append(gAlert, x)
    <3> DEFINE k == Len(gAlert)
    <3>1. /\ k \in Nat /\ DOMAIN gAlert = 1..k /\ DOMAIN gAlert' = 1..(k + 1)
          /\ \A i \in 1..k : gAlert'[i] = gAlert[i]
          /\ gAlert'[k + 1] = x
      BY <2>2, <1>5, AppendProperties
    <3> HIDE DEF k
    <3>2. \A i \in 1..k : gAlert[i].Dbht < grading
      BY <3>1, <1>1, <1>2 DEF GraderOrder, Range
    <3>3. \A i, j \in 1..(k + 1) : i < j => i \in 1..k /\ (j \in 1..k \/ j = k + 1)
      BY <3>1
    <3> QED
      BY <3>1, <3>2, <3>3, <1>1, <1>5 DEF GraderOrder
  <2> QED
    BY <2>1, <2>2, <1>6
<1>11. GraderOrder'
  <2>1. \A g \in Range(gAlert') : /\ OneReached(g.Dbht, now)
                                  /\ \A e \in Range(fdAlert) : OneBefore(g.Dbht, e)
                                  /\ opr.Winners < g.Dbht
    BY <1>1, <1>2, <1>5, <1>7 DEF GraderOrder
  <2> QED
    BY <2>1, <1>1, <1>2, <1>3, <1>10 DEF GraderOrder
<1> QED
  BY <1>8, <1>9, <1>11 DEF OrderInv

(* The coordinator takes an event; at minute 1 it may begin an OPR.        *)
LEMMA TakesOrder ==
  ASSUME OrderInv, NEW m \in 0..LastMinute, Takes(m), UNCHANGED <<failures, now, gAlert, opr>>,
         UNCHANGED <<listening, fdAlert, grading>>,
         waiting' = 0 \/ (m = 1 /\ waiting' = Head(alert).Dbht),
         mining' \in BOOLEAN, submitted' \in [Dbht : Nat, At : Nat]
  PROVE  OrderInv'
<1> DEFINE e1 == Head(alert)
<1>1. TypeOK /\ GraderOrder /\ CoordinatorOrder
  BY DEF OrderInv
<1>2. waiting = 0 /\ alert # <<>> /\ e1.Minute = m /\ alert' = Tail(alert)
  BY DEF Takes
<1>4. alert' \in Seq(Event) /\ e1 \in Event /\ Range(alert) = {e1} \cup Range(alert')
  BY <1>1, <1>2, RangeTail DEF TypeOK
<1>5. /\ EachLater(now, alert') /\ (e1 = now \/ Before(e1, now))
      /\ \A e \in Range(alert') : e \in Event /\ Before(e1, e)
  BY <1>1, <1>2, OrderTake DEF TypeOK, CoordinatorOrder
<1>6. waiting' # 0 => waiting' = e1.Dbht /\ e1.Minute = 1
  BY <1>2
<1> HIDE DEF e1
<1>7. e1.Dbht \in Nat \ {0} /\ e1.Minute \in 0..LastMinute /\ now.Dbht \in Nat /\ now.Minute \in Nat
  BY <1>1, <1>4 DEF Event, TypeOK
<1>8. TypeOK'
  <2>1. waiting' \in Nat
    BY <1>6, <1>7
  <2> QED
    BY <2>1, <1>1, <1>4 DEF TypeOK
<1>9. GraderOrder'
  BY <1>1 DEF GraderOrder
<1>10. CoordinatorOrder'
  <2>1. opr.Dbht \in Nat /\ OneBefore(opr.Dbht, e1)
    BY <1>1, <1>4 DEF TypeOK, CoordinatorOrder
  <2>2. \A e \in Range(alert') : e1.Minute = 1 => OneBefore(e1.Dbht, e)
    BY <1>5, <1>7 DEF Before, OneBefore
  <2>3. e1.Minute = 1 => OneReached(e1.Dbht, now) /\ opr.Dbht < e1.Dbht
    BY <2>1, <1>5, <1>7 DEF Before, OneReached, OneBefore
  <2>4. waiting' # 0 => /\ OneReached(waiting', now) /\ opr.Dbht < waiting'
                        /\ \A e \in Range(alert') : OneBefore(waiting', e)
    BY <2>2, <2>3, <1>6
  <2> QED
    BY <2>4, <1>1, <1>4, <1>5 DEF CoordinatorOrder
<1> QED
  BY <1>8, <1>9, <1>10 DEF OrderInv

(* NewOpr takes an announcement: an OPR that it makes is later than the    *)
(* last in both its height and its winners.                                *)
LEMMA TakeWinnersOrder ==
  ASSUME OrderInv, TakeWinners
  PROVE  OrderInv' /\ (opr' # opr => opr'.Winners > opr.Winners /\ opr'.Dbht > opr.Dbht)
<1> DEFINE g1 == Head(gAlert)
<1>1. TypeOK /\ GraderOrder /\ CoordinatorOrder
  BY DEF OrderInv
<1>2. /\ waiting # 0 /\ gAlert # <<>> /\ gAlert' = Tail(gAlert) /\ waiting' = 0
      /\ opr' = opr \/ opr' = [Dbht |-> waiting, Winners |-> g1.Dbht]
      /\ mining' = FALSE \/ mining' = mining
  BY DEF TakeWinners
<1>3. /\ UNCHANGED <<failures, now, listening, fdAlert, grading>>
      /\ UNCHANGED <<alert, submitted>>
  BY DEF TakeWinners, graderVars
<1>4. gAlert' \in Seq(Message) /\ g1 \in Message /\ Range(gAlert) = {g1} \cup Range(gAlert')
  BY <1>1, <1>2, RangeTail DEF TypeOK
<1> DEFINE k == Len(gAlert)
<1>5. /\ k \in Nat \ {0} /\ DOMAIN gAlert = 1..k /\ DOMAIN gAlert' = 1..(k - 1)
      /\ g1 = gAlert[1]
      /\ \A i \in 1..(k - 1) : gAlert'[i] = gAlert[i + 1]
  BY <1>1, <1>2, HeadTailProperties, EmptySeq DEF TypeOK
<1> HIDE DEF g1, k
<1>6. g1.Dbht \in Nat \ {0} /\ waiting \in Nat /\ opr.Dbht \in Nat /\ opr.Winners \in Nat
  BY <1>1, <1>4 DEF Message, TypeOK
<1>7. TypeOK'
  <2>1. opr' \in [Dbht : Nat, Winners : Nat] /\ mining' \in BOOLEAN /\ waiting' \in Nat
    <3>1. mining' \in BOOLEAN
      BY <1>1, <1>2 DEF TypeOK
    <3>2. opr \in [Dbht : Nat, Winners : Nat]
      BY <1>1 DEF TypeOK
    <3>3. opr' \in [Dbht : Nat, Winners : Nat]
      BY <3>2, <1>2, <1>6
    <3> QED
      BY <3>1, <3>3, <1>2
  <2> QED
    BY <2>1, <1>1, <1>3, <1>4 DEF TypeOK
<1>8. 1 \in 1..k /\ \A i \in 1..(k - 1) : i + 1 \in 1..k /\ 1 < i + 1
  BY <1>5
<1>9. \A g \in Range(gAlert') : g1.Dbht < g.Dbht
  <2>1. \A i \in 1..(k - 1) : g1.Dbht < gAlert'[i].Dbht
    BY <1>1, <1>5, <1>8 DEF GraderOrder
  <2> QED
    BY <2>1, <1>5 DEF Range
<1>10. \A i, j \in DOMAIN gAlert' : i < j => gAlert'[i].Dbht < gAlert'[j].Dbht
  <2> SUFFICES ASSUME NEW i \in 1..(k - 1), NEW j \in 1..(k - 1), i < j
               PROVE  gAlert'[i].Dbht < gAlert'[j].Dbht
    BY <1>5
  <2>1. i + 1 < j + 1
    OBVIOUS
  <2> QED
    BY <2>1, <1>1, <1>5, <1>8 DEF GraderOrder
<1>11. opr' # opr => opr'.Winners = g1.Dbht /\ opr'.Dbht = waiting
  BY <1>2
<1>12. opr' # opr => opr'.Winners > opr.Winners /\ opr'.Dbht > opr.Dbht
  <2>1. opr.Winners < g1.Dbht /\ opr.Dbht < waiting
    BY <1>1, <1>2, <1>4 DEF GraderOrder, CoordinatorOrder
  <2> QED
    BY <2>1, <1>6, <1>11
<1>13. GraderOrder'
  <2>1. /\ OneReached(opr'.Winners, now) /\ \A e \in Range(fdAlert) : OneBefore(opr'.Winners, e)
        /\ grading # 0 => opr'.Winners < grading
        /\ \A g \in Range(gAlert') : opr'.Winners < g.Dbht
    <3>1. CASE opr' = opr
      BY <3>1, <1>1, <1>4 DEF GraderOrder
    <3>2. CASE opr' # opr
      BY <3>2, <1>1, <1>4, <1>9, <1>11 DEF GraderOrder
    <3> QED
      BY <3>1, <3>2
  <2>2. \A g \in Range(gAlert') : /\ OneReached(g.Dbht, now)
                                  /\ \A e \in Range(fdAlert) : OneBefore(g.Dbht, e)
                                  /\ grading # 0 => g.Dbht < grading
    BY <1>1, <1>4 DEF GraderOrder
  <2> QED
    BY <2>1, <2>2, <1>1, <1>3, <1>10 DEF GraderOrder
<1>14. CoordinatorOrder'
  <2>1. OneReached(opr'.Dbht, now) /\ \A e \in Range(alert) : OneBefore(opr'.Dbht, e)
    BY <1>1, <1>2, <1>11 DEF CoordinatorOrder
  <2> QED
    BY <2>1, <1>1, <1>2, <1>3 DEF CoordinatorOrder
<1> QED
  BY <1>7, <1>12, <1>13, <1>14 DEF OrderInv

(* Every step keeps the order, and moves the OPR forward only.             *)
LEMMA NextOrder ==
  ASSUME OrderInv, [Next]_vars
  PROVE  OrderInv' /\ (opr' # opr => opr'.Winners > opr.Winners /\ opr'.Dbht > opr.Dbht)
<1>1. ASSUME Notify \/ MissMinute PROVE OrderInv' /\ opr' = opr
  BY <1>1, PollOrder DEF Notify, MissMinute
<1>2. ASSUME InitialSyncDone PROVE OrderInv' /\ opr' = opr
  BY <1>2 DEF InitialSyncDone, OrderInv, TypeOK, GraderOrder, CoordinatorOrder
<1>3. ASSUME GraderEvent PROVE OrderInv' /\ opr' = opr
  BY <1>3, GraderEventOrder DEF GraderEvent
<1>4. ASSUME SendToListeners PROVE OrderInv' /\ opr' = opr
  BY <1>4, SendOrder DEF SendToListeners
<1>5. /\ mining \in BOOLEAN /\ submitted \in [Dbht : Nat, At : Nat] /\ opr.Dbht \in Nat
      /\ 0 \in Nat /\ 1 \in 0..LastMinute /\ LastMinute \in 0..LastMinute
  BY AlertsAssumption DEF OrderInv, TypeOK
<1>6. ASSUME OtherMinute PROVE OrderInv' /\ opr' = opr
  <2>1. PICK m \in (0..LastMinute) \ {1, LastMinute} : Takes(m)
    BY <1>6 DEF OtherMinute
  <2>2. /\ UNCHANGED <<failures, now, gAlert, opr>> /\ UNCHANGED <<listening, fdAlert, grading>>
        /\ UNCHANGED <<mining, waiting, submitted>>
    BY <1>6 DEF OtherMinute, graderVars
  <2>3. waiting' = 0
    BY <2>1, <2>2 DEF Takes
  <2> QED
    BY <2>1, <2>2, <2>3, <1>5, TakesOrder
<1>7. ASSUME MinuteOne \/ MinuteOneUnfunded PROVE OrderInv' /\ opr' = opr
  <2>1. Takes(1)
    BY <1>7 DEF MinuteOne, MinuteOneUnfunded
  <2>2. /\ UNCHANGED <<failures, now, gAlert, opr>> /\ UNCHANGED <<listening, fdAlert, grading>>
        /\ UNCHANGED <<submitted>>
    BY <1>7 DEF MinuteOne, MinuteOneUnfunded, graderVars
  <2>3. (waiting' = 0 \/ waiting' = Head(alert).Dbht) /\ mining' \in BOOLEAN
    BY <1>7, <2>1, <1>5 DEF MinuteOne, MinuteOneUnfunded, Takes
  <2> QED
    BY <2>1, <2>2, <2>3, <1>5, TakesOrder
<1>8. ASSUME MinuteNine PROVE OrderInv' /\ opr' = opr
  <2>1. Takes(LastMinute)
    BY <1>8 DEF MinuteNine
  <2>2. /\ UNCHANGED <<failures, now, gAlert, opr>> /\ UNCHANGED <<listening, fdAlert, grading>>
        /\ waiting' = 0 /\ mining' \in BOOLEAN
    BY <1>8, <2>1 DEF MinuteNine, graderVars, Takes
  <2>3. submitted' \in [Dbht : Nat, At : Nat]
    <3>1. Head(alert) \in Event
      BY <2>1, RangeTail DEF Takes, OrderInv, TypeOK
    <3> QED
      BY <3>1, <1>5, <1>8 DEF MinuteNine, Event
  <2> QED
    BY <2>1, <2>2, <2>3, <1>5, TakesOrder
<1>9. CASE UNCHANGED vars
  BY <1>9 DEF vars, OrderInv, TypeOK, GraderOrder, CoordinatorOrder
<1> QED
  BY <1>1, <1>2, <1>3, <1>4, <1>6, <1>7, <1>8, <1>9, TakeWinnersOrder
     DEF Next, Grader, Coordinator
-----------------------------------------------------------------------------
(***************************************************************************)
(* What is mined is of the block in progress, when no minute is lost.      *)
(***************************************************************************)
(* The event the coordinator takes, and the one that is due after it.      *)
LEMMA TakesDue ==
  ASSUME OrderInv, InStep(now, alert), NEW m, Takes(m)
  PROVE  /\ waiting = 0 /\ Head(alert) \in Event /\ Head(alert).Minute = m
         /\ Due(now, alert) = Head(alert)
         /\ InStep(now, alert') /\ Due(now, alert') = After(Head(alert))
<1>1. waiting = 0 /\ alert # <<>> /\ Head(alert).Minute = m /\ alert' = Tail(alert)
  BY DEF Takes
<1>2. now \in Event /\ alert \in Seq(Event)
  BY DEF OrderInv, TypeOK
<1>3. Head(alert) \in Event
  BY <1>1, <1>2, RangeTail
<1> QED
  BY <1>1, <1>2, <1>3, StepTake

(* What follows an event within its block, and the heights to come.        *)
LEMMA AfterFields ==
  ASSUME NEW e \in Event
  PROVE  /\ e.Dbht \in Nat \ {0} /\ e.Minute \in 0..LastMinute
         /\ e.Minute # LastMinute => /\ After(e).Dbht = e.Dbht
                                     /\ After(e).Minute = e.Minute + 1
         /\ FirstOne(After(e)) = IF e.Minute = 1 THEN e.Dbht + 1 ELSE FirstOne(e)
         /\ FirstOne(e) = (IF e.Minute > 1 THEN e.Dbht + 1 ELSE e.Dbht)
<1>1. e.Dbht \in Nat \ {0} /\ e.Minute \in 0..LastMinute
  BY DEF Event
<1>2. /\ After(e).Dbht = IF e.Minute < LastMinute THEN e.Dbht ELSE e.Dbht + 1
      /\ After(e).Minute = IF e.Minute < LastMinute THEN e.Minute + 1 ELSE 0
  BY DEF After
<1> QED
  BY <1>1, <1>2, AlertsAssumption DEF FirstOne

LEMMA InitMining == Init => MiningInv
<1> SUFFICES ASSUME Init PROVE MiningInv
  OBVIOUS
<1>1. /\ alert = <<>> /\ mining = FALSE /\ waiting = 0
      /\ submitted = [Dbht |-> 0, At |-> 0]
  BY DEF Init
<1>2. InStep(now, alert)
  BY <1>1, AlertsAssumption DEF InStep
<1> QED
  BY <1>1, <1>2 DEF MiningInv

LEMMA NextMining ==
  ASSUME OrderInv, MiningInv, [Next]_vars
  PROVE  MiningInv'
<1>0. /\ now \in Event /\ alert \in Seq(Event) /\ LastMinute \in Nat /\ LastMinute > 1
      /\ mining \in BOOLEAN /\ opr.Dbht \in Nat /\ waiting \in Nat
  BY AlertsAssumption DEF OrderInv, TypeOK
<1>1. CASE Notify
  <2>1. /\ now' = After(now) /\ UNCHANGED <<failures, mining, waiting, opr, submitted>>
        /\ NothingLost => Len(alert) < EventCap
        /\ Len(alert) < EventCap => alert' = Append(alert, After(now))
    BY <1>0, <1>1, NextMinuteIs DEF Notify, NothingLost, TrySend
  <2>2. NothingLost => InStep(now', alert') /\ Due(now', alert') = Due(now, alert)
    BY <2>1, <1>0, StepSend DEF MiningInv
  <2> QED
    BY <2>1, <2>2 DEF MiningInv, NothingLost
<1>2. CASE MissMinute
  BY <1>2 DEF MissMinute, MiningInv, NothingLost
<1>3. CASE InitialSyncDone \/ GraderEvent \/ SendToListeners
  <2>1. UNCHANGED <<failures, now, alert, mining, waiting, opr, submitted>>
    BY <1>3 DEF InitialSyncDone, GraderEvent, SendToListeners
  <2> QED
    BY <2>1 DEF MiningInv, NothingLost
<1>4. CASE OtherMinute
  <2>1. PICK m \in (0..LastMinute) \ {1, LastMinute} : Takes(m)
    BY <1>4 DEF OtherMinute
  <2>2. UNCHANGED <<failures, now, mining, waiting, opr, submitted>>
    BY <1>4 DEF OtherMinute
  <2>3. NothingLost /\ mining => Due(now, alert').Minute > 1 /\ Due(now, alert').Dbht = opr.Dbht
    BY <2>1, <1>0, TakesDue, AfterFields DEF MiningInv
  <2> QED
    BY <2>1, <2>2, <2>3, TakesDue DEF MiningInv, NothingLost
<1>5. CASE MinuteOne
  <2>1. Takes(1) /\ UNCHANGED <<failures, now, opr, submitted>>
    BY <1>5 DEF MinuteOne
  <2>2. IF mining THEN UNCHANGED <<mining, waiting>>
        ELSE mining' = TRUE /\ waiting' = Head(alert).Dbht
    BY <1>5 DEF MinuteOne
  <2>3. waiting' # 0 => mining'
    BY <2>1, <2>2 DEF Takes
  <2>4. ASSUME NothingLost
        PROVE  /\ InStep(now, alert') /\ waiting' # 0
               /\ Due(now, alert').Minute > 1 /\ Due(now, alert').Dbht = waiting'
    <3>1. InStep(now, alert)
      BY <2>4 DEF MiningInv
    <3>2. /\ Head(alert) \in Event /\ Head(alert).Minute = 1 /\ Due(now, alert) = Head(alert)
          /\ InStep(now, alert') /\ Due(now, alert') = After(Head(alert))
      BY <3>1, <2>1, TakesDue
    <3>3. ~mining
      BY <3>2, <2>4 DEF MiningInv
    <3>4. waiting' = Head(alert).Dbht
      BY <3>3, <2>2
    <3> QED
      BY <3>2, <3>4, <1>0, AfterFields
  <2> QED
    BY <2>1, <2>3, <2>4 DEF MiningInv, NothingLost
<1>6. CASE MinuteOneUnfunded
  <2>1. Takes(1) /\ UNCHANGED <<failures, now, mining, waiting, opr, submitted>>
    BY <1>6 DEF MinuteOneUnfunded
  <2>2. NothingLost => ~mining /\ InStep(now, alert')
    BY <2>1, <1>0, TakesDue DEF MiningInv
  <2> QED
    BY <2>1, <2>2 DEF MiningInv, NothingLost
<1>7. CASE TakeWinners
  <2>1. /\ waiting # 0 /\ waiting' = 0 /\ UNCHANGED <<failures, now, alert, submitted>>
        /\ mining' = FALSE \/ (opr'.Dbht = waiting /\ mining' = mining)
    BY <1>7 DEF TakeWinners
  <2> QED
    BY <2>1 DEF MiningInv, NothingLost
<1>8. CASE MinuteNine
  <2>1. /\ Takes(LastMinute) /\ mining' = FALSE /\ UNCHANGED <<failures, now, waiting, opr>>
        /\ submitted' = IF mining THEN [Dbht |-> opr.Dbht, At |-> Head(alert).Dbht]
                        ELSE submitted
    BY <1>8 DEF MinuteNine
  <2>2. waiting' = 0
    BY <2>1 DEF Takes
  <2>3. NothingLost => InStep(now, alert') /\ submitted'.Dbht = submitted'.At
    BY <2>1, <1>0, TakesDue DEF MiningInv
  <2> QED
    BY <2>1, <2>2, <2>3 DEF MiningInv, NothingLost
<1>9. CASE UNCHANGED vars
  BY <1>9 DEF vars, MiningInv, NothingLost
<1> QED
  BY <1>1, <1>2, <1>3, <1>4, <1>5, <1>6, <1>7, <1>8, <1>9 DEF Next, Grader, Coordinator
-----------------------------------------------------------------------------
(***************************************************************************)
(* Announcements and OPRs pair up when nothing fails.                      *)
(***************************************************************************)
LEMMA InitPairing == Init => PairingInv
<1> SUFFICES ASSUME Init, failures = {} PROVE PairingInv
  BY DEF PairingInv
<1>1. /\ fdAlert = <<>> /\ grading = 0 /\ alert = <<>> /\ gAlert = <<>> /\ waiting = 0
      /\ opr = [Dbht |-> 0, Winners |-> 0]
  BY DEF Init, NoOPR
<1>2. now \in Event
  BY InitOrder DEF OrderInv, TypeOK
<1>3. listening
  BY DEF Init
<1>4. InStep(now, fdAlert) /\ DOMAIN gAlert = {} /\ Len(gAlert) = 0
  BY <1>1, AlertsAssumption DEF InStep
<1>5. Due(now, alert) = After(now) /\ Due(now, fdAlert) = After(now)
  BY <1>1 DEF Due
<1>6. FirstOne(After(now)) \in Nat
  <2>1. After(now) \in Event
    BY <1>2, AfterIs
  <2> QED
    BY <2>1, AfterFields
<1>7. Wanted = FirstOne(After(now)) /\ Announcing = FirstOne(After(now))
  BY <1>1, <1>5 DEF Wanted, Announcing
<1> QED
  BY <1>1, <1>3, <1>4, <1>6, <1>7 DEF PairingInv

(* What holds of the two sides when nothing fails.                         *)
LEMMA PairingFacts ==
  ASSUME OrderInv, MiningInv, PairingInv, failures = {}
  PROVE  /\ now \in Event /\ alert \in Seq(Event) /\ fdAlert \in Seq(Event)
         /\ gAlert \in Seq(Message) /\ InStep(now, alert) /\ InStep(now, fdAlert) /\ listening
         /\ Due(now, alert) \in Event /\ Due(now, fdAlert) \in Event
         /\ Len(gAlert) \in Nat /\ DOMAIN gAlert = 1..Len(gAlert)
         /\ waiting \in Nat /\ grading \in Nat /\ Wanted \in Nat /\ Announcing \in Nat
         /\ \A i \in 1..Len(gAlert) : gAlert[i].Dbht = Wanted + i - 1
         /\ Announcing = Wanted + Len(gAlert)
         /\ Wanted >= now.Dbht - 1
<1>1. /\ now \in Event /\ alert \in Seq(Event) /\ fdAlert \in Seq(Event)
      /\ gAlert \in Seq(Message) /\ waiting \in Nat /\ grading \in Nat
  BY DEF OrderInv, TypeOK
<1>2. InStep(now, alert) /\ InStep(now, fdAlert) /\ listening
  BY DEF MiningInv, PairingInv, NothingLost
<1>3. /\ Due(now, alert) \in Event /\ Due(now, fdAlert) \in Event
      /\ Due(now, alert).Dbht >= now.Dbht - 1
  BY <1>1, <1>2, StepDue
<1>4. Len(gAlert) \in Nat /\ DOMAIN gAlert = 1..Len(gAlert)
  BY <1>1, LenProperties
<1>5. /\ Due(now, alert).Dbht \in Nat /\ now.Dbht \in Nat
      /\ FirstOne(Due(now, alert)) \in Nat /\ FirstOne(Due(now, fdAlert)) \in Nat
      /\ FirstOne(Due(now, alert)) >= Due(now, alert).Dbht
  <2>1. Due(now, alert).Dbht \in Nat /\ now.Dbht \in Nat
    BY <1>1, <1>3 DEF Event
  <2>2. FirstOne(Due(now, alert)) \in Nat /\ FirstOne(Due(now, alert)) >= Due(now, alert).Dbht
    BY <1>3, AfterFields
  <2>3. FirstOne(Due(now, fdAlert)) \in Nat
    BY <1>3, AfterFields
  <2> QED
    BY <2>1, <2>2, <2>3
<1>6. waiting # 0 => Due(now, alert).Dbht = waiting
  BY DEF MiningInv, NothingLost
<1>7. Wanted \in Nat /\ Announcing \in Nat /\ Wanted >= now.Dbht - 1
  BY <1>1, <1>3, <1>5, <1>6 DEF Wanted, Announcing
<1> QED
  BY <1>1, <1>2, <1>3, <1>4, <1>7 DEF PairingInv

(* The monitor and the grader keep the pairing.                            *)
LEMMA GraderPairing ==
  ASSUME OrderInv, MiningInv, PairingInv, failures = {}, Notify \/ MissMinute \/ Grader
  PROVE  PairingInv'
<1>0. /\ now \in Event /\ alert \in Seq(Event) /\ fdAlert \in Seq(Event)
      /\ gAlert \in Seq(Message) /\ InStep(now, alert) /\ InStep(now, fdAlert) /\ listening
      /\ Due(now, alert) \in Event /\ Due(now, fdAlert) \in Event
      /\ Len(gAlert) \in Nat /\ DOMAIN gAlert = 1..Len(gAlert)
      /\ waiting \in Nat /\ grading \in Nat /\ Wanted \in Nat /\ Announcing \in Nat
  BY PairingFacts
<1>1. CASE Notify
  <2>1. /\ now' = After(now) /\ UNCHANGED <<failures, listening, grading, gAlert, waiting, opr>>
        /\ Len(fdAlert) < EventCap /\ Len(alert) < EventCap
    BY <1>0, <1>1, NextMinuteIs DEF Notify
  <2>2. alert' = Append(alert, After(now)) /\ fdAlert' = Append(fdAlert, After(now))
    BY <2>1, <1>0, <1>1 DEF Notify, TrySend
  <2>3. /\ InStep(now', fdAlert') /\ Due(now', fdAlert') = Due(now, fdAlert)
        /\ Due(now', alert') = Due(now, alert)
    BY <2>1, <2>2, <1>0, StepSend
  <2>4. Wanted' = Wanted /\ Announcing' = Announcing
    BY <2>1, <2>3 DEF Wanted, Announcing
  <2> QED
    BY <2>1, <2>3, <2>4 DEF PairingInv
<1>2. CASE MissMinute \/ InitialSyncDone
  BY <1>0, <1>2 DEF MissMinute, InitialSyncDone
<1>3. CASE GraderEvent
  <2> DEFINE e1 == Head(fdAlert)
  <2>1. /\ grading = 0 /\ fdAlert # <<>> /\ fdAlert' = Tail(fdAlert)
        /\ grading' = IF e1.Minute = 1 THEN e1.Dbht ELSE 0
        /\ UNCHANGED <<failures, now, listening, alert, gAlert, waiting, opr>>
    BY <1>3 DEF GraderEvent
  <2>2. /\ InStep(now, fdAlert') /\ Due(now, fdAlert) = e1
        /\ Due(now, fdAlert') = After(e1)
    BY <2>1, <1>0, StepTake
  <2> HIDE DEF e1
  <2>3. /\ e1 \in Event /\ e1.Dbht \in Nat \ {0} /\ e1.Minute \in 0..LastMinute
        /\ e1.Minute # LastMinute => After(e1).Dbht = e1.Dbht /\ After(e1).Minute = e1.Minute + 1
        /\ FirstOne(After(e1)) = IF e1.Minute = 1 THEN e1.Dbht + 1 ELSE FirstOne(e1)
        /\ FirstOne(e1) = (IF e1.Minute > 1 THEN e1.Dbht + 1 ELSE e1.Dbht)
    BY <2>2, <1>0, AfterFields
  <2>4. Wanted' = Wanted
    BY <2>1 DEF Wanted
  <2>5. Announcing = FirstOne(e1)
    BY <2>1, <2>2 DEF Announcing
  <2>6. /\ Announcing' = Announcing
        /\ grading' # 0 => Due(now, fdAlert').Minute > 1 /\ Due(now, fdAlert').Dbht = grading'
    <3>1. CASE e1.Minute = 1
      <4>1. grading' = e1.Dbht /\ Announcing' = e1.Dbht
        BY <3>1, <2>1, <2>3 DEF Announcing
      <4> QED
        BY <4>1, <3>1, <2>2, <2>3, <2>5, AlertsAssumption
    <3>2. CASE e1.Minute # 1
      <4>1. grading' = 0 /\ Announcing' = FirstOne(After(e1))
        BY <3>2, <2>1, <2>2 DEF Announcing
      <4> QED
        BY <4>1, <3>2, <2>3, <2>5
    <3> QED
      BY <3>1, <3>2
  <2> QED
    BY <2>1, <2>2, <2>4, <2>6 DEF PairingInv
<1>4. CASE SendToListeners
  <2>1. /\ grading # 0 /\ grading' = 0
        /\ UNCHANGED <<failures, now, listening, fdAlert, alert, waiting, opr>>
    BY <1>4 DEF SendToListeners
  <2>2. PICK failed \in BOOLEAN :
          gAlert' = TrySend(gAlert, AlertCap, [Dbht |-> grading, Error |-> failed])
    BY <1>4 DEF SendToListeners
  <2> DEFINE x == [Dbht |-> grading, Error |-> failed]
             k == Len(gAlert)
  <2>3. k < AlertCap
    <3>1. grading <= now.Dbht /\ now.Dbht \in Nat
      BY <2>1, <1>0 DEF OrderInv, GraderOrder, OneReached, Event
    <3>2. grading = Wanted + k /\ Wanted >= now.Dbht - 1
      BY <2>1, PairingFacts DEF Announcing
    <3> QED
      BY <3>1, <3>2, <1>0, AlertsAssumption, CapacityAssumption
  <2>4. gAlert' = Append(gAlert, x) /\ x \in Message /\ x.Dbht = grading
    BY <2>1, <2>2, <2>3, <1>0 DEF TrySend, Message
  <2>5. /\ Len(gAlert') = k + 1 /\ DOMAIN gAlert' = 1..(k + 1)
        /\ \A i \in 1..k : gAlert'[i] = gAlert[i]
        /\ gAlert'[k + 1].Dbht = grading
    <3> HIDE DEF x
    <3> QED
      BY <2>4, <1>0, AppendProperties
  <2> HIDE DEF x, k
  <2>6. k \in Nat /\ grading = Wanted + k /\ \A i \in 1..k : gAlert[i].Dbht = Wanted + i - 1
    BY <2>1, PairingFacts DEF Announcing, k
  <2>7. Wanted' = Wanted
    BY <2>1 DEF Wanted
  <2>8. \A i \in 1..(k + 1) : gAlert'[i].Dbht = Wanted + i - 1
    <3>1. \A i \in 1..(k + 1) : i \in 1..k \/ i = k + 1
      BY <2>6
    <3>2. \A i \in 1..k : gAlert'[i].Dbht = Wanted + i - 1
      BY <2>5, <2>6
    <3>3. gAlert'[k + 1].Dbht = Wanted + (k + 1) - 1
      <4>1. Wanted + (k + 1) - 1 = Wanted + k
        BY <2>6, <1>0
      <4> QED
        BY <4>1, <2>5, <2>6
    <3> QED
      BY <3>1, <3>2, <3>3
  <2>9. Announcing' = grading + 1
    <3>1. Due(now, fdAlert).Minute > 1 /\ Due(now, fdAlert).Dbht = grading
      BY <2>1 DEF PairingInv
    <3>2. FirstOne(Due(now, fdAlert)) = grading + 1
      BY <3>1, <1>0, AfterFields
    <3> QED
      BY <3>2, <2>1 DEF Announcing
  <2>10. Announcing' = Wanted + (k + 1)
    BY <2>6, <2>9, <1>0
  <2> QED
    BY <2>1, <2>5, <2>7, <2>8, <2>10, <1>0 DEF PairingInv
<1> QED
  BY <1>1, <1>2, <1>3, <1>4 DEF Grader

(* The coordinator takes an event other than minute 1.                     *)
LEMMA SkipPairing ==
  ASSUME OrderInv, MiningInv, PairingInv, failures = {},
         NEW m \in 0..LastMinute, m # 1, Takes(m), waiting' = 0,
         UNCHANGED <<failures, now, listening, fdAlert, grading, gAlert, opr>>
  PROVE  PairingInv'
<1>1. InStep(now, alert)
  BY PairingFacts
<1>2. /\ waiting = 0 /\ Head(alert) \in Event /\ Head(alert).Minute = m
      /\ Due(now, alert) = Head(alert) /\ Due(now, alert') = After(Head(alert))
  BY <1>1, TakesDue
<1>3. FirstOne(After(Head(alert))) = FirstOne(Head(alert))
  BY <1>2, AfterFields
<1>4. Wanted' = Wanted
  BY <1>2, <1>3 DEF Wanted
<1>5. Announcing' = Announcing
  BY DEF Announcing
<1> QED
  BY <1>4, <1>5 DEF PairingInv

(* The coordinator keeps the pairing, and lists the winners it wants.      *)
LEMMA CoordinatorPairing ==
  ASSUME OrderInv, MiningInv, PairingInv, failures = {}, Coordinator
  PROVE  PairingInv'
<1>0. /\ now \in Event /\ gAlert \in Seq(Message) /\ InStep(now, alert)
      /\ Len(gAlert) \in Nat /\ DOMAIN gAlert = 1..Len(gAlert)
      /\ Due(now, alert) \in Event
      /\ waiting \in Nat /\ Wanted \in Nat /\ Announcing \in Nat
      /\ \A i \in 1..Len(gAlert) : gAlert[i].Dbht = Wanted + i - 1
      /\ Announcing = Wanted + Len(gAlert)
  BY PairingFacts
<1>1. CASE OtherMinute
  <2>1. PICK m \in (0..LastMinute) \ {1, LastMinute} : Takes(m)
    BY <1>1 DEF OtherMinute
  <2>2. /\ UNCHANGED <<failures, now, listening, fdAlert, grading, gAlert, opr>>
        /\ waiting' = waiting
    BY <1>1 DEF OtherMinute, graderVars
  <2>3. waiting' = 0
    BY <2>1, <2>2 DEF Takes
  <2> QED
    BY <2>1, <2>2, <2>3, SkipPairing
<1>2. CASE MinuteNine
  <2>1. /\ Takes(LastMinute) /\ waiting' = waiting
        /\ UNCHANGED <<failures, now, listening, fdAlert, grading, gAlert, opr>>
    BY <1>2 DEF MinuteNine, graderVars
  <2>2. waiting' = 0 /\ LastMinute \in 0..LastMinute /\ LastMinute # 1
    BY <2>1, AlertsAssumption DEF Takes
  <2> QED
    BY <2>1, <2>2, SkipPairing
<1>3. CASE MinuteOne
  <2>1. /\ Takes(1) /\ UNCHANGED <<failures, now, listening, fdAlert, grading, gAlert, opr>>
        /\ ~mining => waiting' = Head(alert).Dbht
    BY <1>3 DEF MinuteOne, graderVars
  <2>2. /\ waiting = 0 /\ Head(alert) \in Event /\ Head(alert).Minute = 1
        /\ Due(now, alert) = Head(alert)
    BY <2>1, <1>0, TakesDue
  <2>3. ~mining
    BY <2>2 DEF MiningInv, NothingLost
  <2>4. Wanted = Head(alert).Dbht /\ Head(alert).Dbht # 0
    BY <2>2, AfterFields DEF Wanted
  <2>5. Wanted' = Wanted
    BY <2>1, <2>3, <2>4 DEF Wanted
  <2>6. Announcing' = Announcing
    BY <2>1 DEF Announcing
  <2> QED
    BY <2>1, <2>5, <2>6 DEF PairingInv
<1>4. CASE MinuteOneUnfunded
  BY <1>4 DEF MinuteOneUnfunded
<1>5. CASE TakeWinners
  <2> DEFINE k == Len(gAlert)
             w == waiting
  <2>1. /\ w # 0 /\ gAlert # <<>> /\ gAlert' = Tail(gAlert) /\ waiting' = 0
        /\ opr' = opr \/ opr' = [Dbht |-> w, Winners |-> Head(gAlert).Dbht]
        /\ UNCHANGED <<failures, now, listening, fdAlert, grading, alert>>
    BY <1>5 DEF TakeWinners, graderVars
  <2>2. /\ k \in Nat \ {0} /\ DOMAIN gAlert' = 1..(k - 1) /\ Len(gAlert') = k - 1
        /\ Head(gAlert) = gAlert[1]
        /\ \A i \in 1..(k - 1) : gAlert'[i] = gAlert[i + 1]
    BY <2>1, <1>0, HeadTailProperties, EmptySeq
  <2>3. Wanted = w /\ w \in Nat
    BY <2>1, <1>0 DEF Wanted
  <2>4. /\ Announcing = w + k
        /\ \A i \in 1..k : gAlert[i].Dbht = w + i - 1
    BY <2>3, <1>0
  <2>5. Wanted' = w + 1
    <3>1. Due(now, alert).Minute > 1 /\ Due(now, alert).Dbht = w
      BY <2>1 DEF MiningInv, NothingLost
    <3>2. FirstOne(Due(now, alert)) = w + 1
      BY <3>1, <1>0, AfterFields
    <3> QED
      BY <3>2, <2>1 DEF Wanted
  <2>6. Announcing' = Announcing
    BY <2>1 DEF Announcing
  <2> HIDE DEF k, w
  <2>7. \A i \in 1..(k - 1) : gAlert'[i].Dbht = (w + 1) + i - 1
    <3> SUFFICES ASSUME NEW i \in 1..(k - 1) PROVE gAlert'[i].Dbht = (w + 1) + i - 1
      OBVIOUS
    <3>1. i + 1 \in 1..k /\ w + (i + 1) - 1 = (w + 1) + i - 1
      BY <2>2, <2>3
    <3> QED
      BY <3>1, <2>2, <2>4
  <2>8. Announcing' = (w + 1) + (k - 1)
    BY <2>2, <2>3, <2>4, <2>6
  <2>9. gAlert[1].Dbht = w
    <3>1. 1 \in 1..k /\ w + 1 - 1 = w
      BY <2>2, <2>3
    <3> QED
      BY <3>1, <2>4
  <2>10. opr'.Winners = opr'.Dbht
    BY <2>1, <2>2, <2>9 DEF PairingInv
  <2> QED
    BY <2>1, <2>2, <2>5, <2>7, <2>8, <2>10 DEF PairingInv
<1> QED
  BY <1>1, <1>2, <1>3, <1>4, <1>5 DEF Coordinator

LEMMA NextPairing ==
  ASSUME OrderInv, MiningInv, PairingInv, [Next]_vars
  PROVE  PairingInv'
<1>1. CASE UNCHANGED vars
  BY <1>1 DEF vars, PairingInv, Wanted, Announcing
<1>2. CASE Next
  <2>1. failures' = failures
    BY <1>2 DEF Next, Grader, Coordinator, Notify, MissMinute, InitialSyncDone, GraderEvent,
                SendToListeners, OtherMinute, MinuteOne, MinuteOneUnfunded, TakeWinners,
                MinuteNine
  <2>2. CASE failures = {}
    BY <2>2, <1>2, GraderPairing, CoordinatorPairing DEF Next
  <2>3. CASE failures # {}
    BY <2>1, <2>3 DEF PairingInv
  <2> QED
    BY <2>2, <2>3
<1> QED
  BY <1>1, <1>2
-----------------------------------------------------------------------------
(* The inductive invariant: the order of events and announcements, the     *)
(* block an OPR is mined for, and the pairing of announcements and OPRs    *)
(* (poll, Run, SendToListeners, LaunchMiners, NewOpr).                     *)
THEOREM AlertsInvariant == Spec => []AlertsInv
<1>1. Init => AlertsInv
  BY InitOrder, InitMining, InitPairing DEF AlertsInv
<1>2. AlertsInv /\ [Next]_vars => AlertsInv'
  BY NextOrder, NextMining, NextPairing DEF AlertsInv
<1> QED
  BY <1>1, <1>2, PTL DEF Spec

(* With no fault an OPR lists the winners announced for its own height,    *)
(* for any number of blocks and any delay of grader and coordinator that   *)
(* fits their channels (NewOpr, opr/opr.go).                               *)
THEOREM WinnersPaired == Spec => []WinnersFromPriorBlock
<1>1. AlertsInv => WinnersFromPriorBlock
  BY DEF AlertsInv, PairingInv, WinnersFromPriorBlock, OPRListsPriorWinners
<1> QED
  BY <1>1, AlertsInvariant, PTL

(* An OPR is submitted at the height it was built for unless a minute is   *)
(* lost, even with a grader that starts late or fails and no entry credits *)
(* (LaunchMiners, mining/coordinator.go).                                  *)
THEOREM SubmittedInTime == Spec => []SubmittedAtItsHeight
<1>1. AlertsInv => SubmittedAtItsHeight
  BY DEF AlertsInv, MiningInv, NothingLost, SubmittedAtItsHeight
<1> QED
  BY <1>1, AlertsInvariant, PTL

(* Whatever is lost or late, a new OPR lists later winners than the one    *)
(* before it, for a later height: no announcement is used twice (NewOpr).  *)
THEOREM WinnersNeverRepeat == Spec => WinnersAdvance
<1>1. AlertsInv /\ [Next]_vars
        => [opr' # opr => opr'.Winners > opr.Winners /\ opr'.Dbht > opr.Dbht]_opr
  BY NextOrder DEF AlertsInv
<1> QED
  BY <1>1, AlertsInvariant, PTL DEF Spec, WinnersAdvance
=============================================================================
