---------------------------- MODULE WinnerAlerts ----------------------------
(***************************************************************************)
(* How the winners of a block reach the OPR built on it. The monitor       *)
(* (common/monitor.go) tells the grader (Run, opr/grader.go) and the       *)
(* coordinator (LaunchMiners, mining/coordinator.go) of each minute; at    *)
(* minute 1 the grader sends winners to the coordinator's alert channel    *)
(* and the coordinator's NewOpr (opr/opr.go) takes a message from it.      *)
(*                                                                         *)
(* A message carries no height in the code; here it is named by the height *)
(* of the event it answers, so that the property can tell which winners an *)
(* OPR lists. A block has the minutes 0..LastMinute (9).                   *)
(***************************************************************************)
EXTENDS Integers, Sequences

CONSTANTS
  LastMinute,  \* minute 9, when mining stops
  EventCap,    \* capacity of a monitor listener's channel (10)
  AlertCap,    \* capacity of the coordinator's grader alert (10)
  MaxHeight,   \* bound: blocks observed
  FaultSets    \* what may go wrong in a behaviour: sets of Faults

Faults == {"balance", "missed minute", "late grader", "overflow"}

ASSUME AlertsAssumption ==
  /\ LastMinute \in Nat /\ LastMinute > 1
  /\ EventCap \in Nat \ {0} /\ AlertCap \in Nat \ {0} /\ MaxHeight \in Nat
  /\ FaultSets \subseteq SUBSET Faults

(* A listener channel holds no more than a block of minutes, and the       *)
(* coordinator's grader alert two messages or more (10, 10 and 10).        *)
ASSUME CapacityAssumption == EventCap <= LastMinute + 1 /\ AlertCap >= 2

VARIABLES
  failures,   \* the faults of this behaviour
  now,        \* the minute factomd is in
  \* QuickGrader.Run
  listening,  \* the initial sync is done
  fdAlert,    \* its monitor channel
  grading,    \* height being synced, 0 when waiting
  \* MiningCoordinator
  alert,      \* its monitor channel
  gAlert,     \* its grader channel
  mining, waiting, opr,
  submitted   \* history: the last OPR submitted, and the event it was for

vars == <<failures, now, listening, fdAlert, grading, alert, gAlert, mining, waiting, opr,
          submitted>>
graderVars == <<listening, fdAlert, grading>>

NoOPR == [Dbht |-> 0, Winners |-> 0]

Init ==
  /\ failures \in FaultSets
  /\ now = [Dbht |-> 1, Minute |-> 0]
  /\ listening \in IF "late grader" \in failures THEN BOOLEAN ELSE {TRUE}
  /\ fdAlert = <<>> /\ grading = 0
  /\ alert = <<>> /\ gAlert = <<>>
  /\ mining = FALSE /\ waiting = 0 /\ opr = NoOPR
  /\ submitted = [Dbht |-> 0, At |-> 0]
-----------------------------------------------------------------------------
(* A channel send that gives up when the channel is full.                  *)
TrySend(q, cap, x) == IF Len(q) < cap THEN Append(q, x) ELSE q

NextMinute ==
  IF now.Minute < LastMinute
  THEN [now EXCEPT !.Minute = @ + 1]
  ELSE [Dbht |-> now.Dbht + 1, Minute |-> 0]

(* poll: the minute changes and the listeners are notified. Without the    *)
(* fault "overflow" no listener is a whole channel of minutes behind.      *)
Notify ==
  /\ now' = NextMinute
  /\ now'.Dbht <= MaxHeight
  /\ "overflow" \in failures \/ (Len(fdAlert) < EventCap /\ Len(alert) < EventCap)
  /\ fdAlert' = IF listening THEN TrySend(fdAlert, EventCap, now') ELSE fdAlert
  /\ alert' = TrySend(alert, EventCap, now')
  /\ UNCHANGED <<failures, listening, grading, gAlert, mining, waiting, opr, submitted>>

(* A minute that passes between two polls.                                 *)
MissMinute ==
  /\ "missed minute" \in failures
  /\ now' = NextMinute
  /\ now'.Dbht <= MaxHeight
  /\ UNCHANGED <<failures, graderVars, alert, gAlert, mining, waiting, opr, submitted>>
-----------------------------------------------------------------------------
(* Run's initial sync ends and the grader starts to listen.                *)
InitialSyncDone ==
  /\ ~listening /\ listening' = TRUE
  /\ UNCHANGED <<failures, now, fdAlert, grading, alert, gAlert, mining, waiting, opr, submitted>>

(* The grader takes an event: minute 1 makes it sync.                      *)
GraderEvent ==
  /\ grading = 0 /\ fdAlert # <<>>
  /\ fdAlert' = Tail(fdAlert)
  /\ grading' = IF Head(fdAlert).Minute = 1 THEN Head(fdAlert).Dbht ELSE 0
  /\ UNCHANGED <<failures, now, listening, alert, gAlert, mining, waiting, opr, submitted>>

(* A grader that tells its listeners nothing of a failure, for the         *)
(* mutation runs.                                                          *)
SendOnlyWinners ==
  /\ grading # 0 /\ grading' = 0
  /\ \E failed \in BOOLEAN :
       gAlert' = IF failed THEN gAlert
                 ELSE TrySend(gAlert, AlertCap, [Dbht |-> grading, Error |-> FALSE])
  /\ UNCHANGED <<failures, now, listening, fdAlert, alert, mining, waiting, opr, submitted>>

(* Sync succeeded or failed three times: SendToListeners.                  *)
SendToListeners ==
  /\ grading # 0 /\ grading' = 0
  /\ \E failed \in BOOLEAN :
       gAlert' = TrySend(gAlert, AlertCap, [Dbht |-> grading, Error |-> failed])
  /\ UNCHANGED <<failures, now, listening, fdAlert, alert, mining, waiting, opr, submitted>>
-----------------------------------------------------------------------------
(* The coordinator takes an event, unless NewOpr is waiting for winners.   *)
Takes(m) ==
  /\ waiting = 0 /\ alert # <<>> /\ Head(alert).Minute = m
  /\ alert' = Tail(alert)

OtherMinute ==
  /\ \E m \in (0..LastMinute) \ {1, LastMinute} : Takes(m)
  /\ UNCHANGED <<failures, now, graderVars, gAlert, mining, waiting, opr, submitted>>

(* Minute 1: NewOpr, if there are entry credits and nothing is being mined.*)
MinuteOne ==
  /\ Takes(1)
  /\ IF mining THEN UNCHANGED <<mining, waiting>>
     ELSE mining' = TRUE /\ waiting' = Head(alert).Dbht
  /\ UNCHANGED <<failures, now, graderVars, gAlert, opr, submitted>>

(* No entry credits, their balance could not be read, or NewOpr returned   *)
(* before it came to wait for winners (an incomplete configuration).       *)
MinuteOneUnfunded ==
  /\ "balance" \in failures
  /\ Takes(1)
  /\ UNCHANGED <<failures, now, graderVars, gAlert, mining, waiting, opr, submitted>>

(* NewOpr that looks at the oldest message and leaves it there, for the    *)
(* mutation runs.                                                          *)
PeekWinners ==
  /\ waiting # 0 /\ gAlert # <<>>
  /\ waiting' = 0
  /\ IF Head(gAlert).Error THEN mining' = FALSE /\ gAlert' = Tail(gAlert) /\ UNCHANGED opr
     ELSE /\ opr' = [Dbht |-> waiting, Winners |-> Head(gAlert).Dbht]
          /\ UNCHANGED <<mining, gAlert>>
  /\ UNCHANGED <<failures, now, graderVars, alert, submitted>>

(* NewOpr takes the oldest message: no OPR if the grader failed or the     *)
(* prices could not be read, else one that lists those winners.            *)
TakeWinners ==
  /\ waiting # 0 /\ gAlert # <<>>
  /\ gAlert' = Tail(gAlert)
  /\ waiting' = 0
  /\ \/ mining' = FALSE /\ UNCHANGED opr
     \/ /\ ~Head(gAlert).Error
        /\ opr' = [Dbht |-> waiting, Winners |-> Head(gAlert).Dbht]
        /\ UNCHANGED mining
  /\ UNCHANGED <<failures, now, graderVars, alert, submitted>>

(* Minute 9 that goes on mining, for the mutation runs.                    *)
MinuteNineGoesOn ==
  /\ Takes(LastMinute)
  /\ submitted' = IF mining THEN [Dbht |-> opr.Dbht, At |-> Head(alert).Dbht] ELSE submitted
  /\ UNCHANGED <<failures, now, graderVars, gAlert, mining, waiting, opr>>

(* Minute 9: what was mined is submitted.                                  *)
MinuteNine ==
  /\ Takes(LastMinute)
  /\ mining' = FALSE
  /\ submitted' = IF mining THEN [Dbht |-> opr.Dbht, At |-> Head(alert).Dbht] ELSE submitted
  /\ UNCHANGED <<failures, now, graderVars, gAlert, waiting, opr>>

Grader == InitialSyncDone \/ GraderEvent \/ SendToListeners
Coordinator ==
  OtherMinute \/ MinuteOne \/ MinuteOneUnfunded \/ TakeWinners \/ MinuteNine

Next == Notify \/ MissMinute \/ Grader \/ Coordinator

Spec == Init /\ [][Next]_vars

(* The grader and the coordinator run whenever they can.                   *)
FairSpec == Spec /\ WF_vars(Grader) /\ WF_vars(Coordinator)
-----------------------------------------------------------------------------
(* What NewOpr says of itself (opr.go:310-312): it "collects the winners   *)
(* from the prior block", the ones announced for the height it is made at. *)
OPRListsPriorWinners == opr.Winners = opr.Dbht

(* Unless a minute-1 event went without a NewOpr or the grader without an  *)
(* event, an OPR lists the winners announced for its own height, however   *)
(* slow the grader and the coordinator are (NewOpr, SendToListeners).      *)
WinnersFromPriorBlock == failures = {} => OPRListsPriorWinners

(* As long as no minute is missed, what is submitted at the end of a block *)
(* was built at its beginning: an OPR is not mined over into the next one, *)
(* be the grader late or the entry credits spent.                          *)
SubmittedAtItsHeight ==
  failures \cap {"missed minute", "overflow"} = {} => submitted.Dbht = submitted.At

(* Two OPRs never list the winners of one announcement, nor do they go     *)
(* back to older ones, even when minutes are missed, channels overflow and *)
(* the grader is late.                                                     *)
WinnersAdvance == [][opr' # opr => opr'.Winners > opr.Winners /\ opr'.Dbht > opr.Dbht]_opr

(* NewOpr does not wait for ever: with a grader that listens from the      *)
(* start and misses no minute, every minute-1 event the coordinator acts   *)
(* on is answered, even when earlier events went without a NewOpr.         *)
NewOPREnds ==
  failures \subseteq {"balance"} /\ waiting # 0 ~> waiting = 0
=============================================================================
