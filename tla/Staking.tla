------------------------------- MODULE Staking ------------------------------
(***************************************************************************)
(* Staking: the monitor that polls factomd for minutes (common/monitor.go),*)
(* the coordinator that makes a record at minute 1 and has it written at   *)
(* minute 8, the staker it commands and the writers that put one entry per *)
(* payout address on the chain (staking).                                  *)
(*                                                                         *)
(* The monitor sees only what it polls: minutes pass unseen, and after an  *)
(* error it forgets the last minute and notifies it again. A writer runs   *)
(* on its own, with retries, while the next blocks are already staked.     *)
(***************************************************************************)
EXTENDS Integers, Sequences, FiniteSets, Functions

CONSTANTS
  Addresses,    \* Staker.CoinbaseAddress, a sequence
  MaxStaked,    \* bound on heights
  AlertCap,     \* capacity of a listener channel (10)
  CommandCap,   \* capacity of the staker's command channel (10)
  MaxTries,     \* tries an entry is given before backoff.Retry ends (10 s)
  MaxErrors,    \* bound on failing polls
  Nothing          \* no minute seen, no template

ASSUME BoundsAssumption ==
  /\ MaxStaked \in Nat \ {0} /\ AlertCap \in Nat \ {0} /\ CommandCap \in Nat \ {0}
  /\ MaxTries \in Nat \ {0} /\ MaxErrors \in Nat

(* factomd reports no minute like the one the monitor starts from.         *)
ASSUME NothingAssumption == Nothing \notin [Dbht : Nat \ {0}, Minute : {1, 8}]

VARIABLES
  node,       \* factomd's current minute
  seen,       \* the monitor's last minute, Nothing at first and after an error
  errors,     \* failed polls so far
  skipped,    \* minutes that no listener was told of
  alert,      \* the coordinator's listener channel
  pc,         \* the coordinator: "loop", "make", "start", "pause", "stopped"
  event,      \* the event it works on
  staking,    \* its flag
  writer,     \* index of its FactomEntryWriter
  writers,    \* the chain of writers linked by Next
  commands,   \* the staker's command channel
  staker,     \* [running, paused, sprhash]
  chain,      \* SPR entries on the chain: <<height, address>>
  cancelled,  \* the context
  panicked    \* the process died

clock       == <<node, seen, errors, skipped>>
coordinator == <<pc, event, staking, writer>>
stakingVars == <<clock, alert, coordinator, writers, commands, staker, chain, cancelled, panicked>>

-----------------------------------------------------------------------------
(* CheckStakingAddresses: no address twice (else the daemon panics).       *)
CheckStakingAddresses(addrs) == addrs # <<>> /\ IsInjective(addrs)

(* NewEntryWriter: no template, CollectAndWrite not yet done.              *)
NewEntryWriter == [sprTemplate |-> Nothing, once |-> FALSE, state |-> "idle",
                   address |-> 1, tries |-> 0]

(* The batches BuildCommand puts together.                                 *)
Resume(hash)  == [sprhash |-> hash, paused |-> FALSE]
Pause         == [sprhash |-> Nothing, paused |-> TRUE]

InitStaking ==
  /\ CheckStakingAddresses(Addresses)
  /\ node = [Dbht |-> 1, Minute |-> 1] /\ seen = Nothing /\ errors = 0 /\ skipped = {}
  /\ alert = <<>>
  /\ pc = "loop" /\ event = Nothing /\ staking = FALSE
  /\ writer = 1 /\ writers = <<NewEntryWriter>>
  /\ commands = <<>> /\ staker = [running |-> TRUE, paused |-> FALSE, sprhash |-> Nothing]
  /\ chain = {} /\ cancelled = FALSE /\ panicked = FALSE

-----------------------------------------------------------------------------
(* factomd goes to the next minute, whether or not it was polled.          *)
MinutePasses ==
  /\ node.Minute = 1 \/ node.Dbht < MaxStaked
  /\ node' = IF node.Minute = 1 THEN [node EXCEPT !.Minute = 8]
             ELSE [Dbht |-> node.Dbht + 1, Minute |-> 1]
  /\ skipped' = IF seen = node THEN skipped ELSE skipped \cup {node}
  /\ UNCHANGED <<seen, errors, alert, coordinator, writers, commands, staker, chain,
                 cancelled, panicked>>

(* waitForNextMinute returns a minute other than the last one and notify   *)
(* offers it to the listeners: one whose channel is full misses it.        *)
PollSees ==
  /\ seen # node
  /\ seen' = node
  /\ IF Len(alert) < AlertCap
     THEN alert' = Append(alert, node) /\ UNCHANGED skipped
     ELSE skipped' = skipped \cup {node} /\ UNCHANGED alert
  /\ UNCHANGED <<node, errors, coordinator, writers, commands, staker, chain,
                 cancelled, panicked>>

(* getMinute gives up: the last minute is forgotten.                       *)
PollFails ==
  /\ errors < MaxErrors
  /\ seen' = Nothing /\ errors' = errors + 1
  /\ UNCHANGED <<node, skipped, alert, coordinator, writers, commands, staker, chain,
                 cancelled, panicked>>

-----------------------------------------------------------------------------
(* LaunchStaker: one alert at a time.                                      *)
Takes(minute) ==
  /\ pc = "loop" /\ alert # <<>> /\ Head(alert).Minute = minute
  /\ alert' = Tail(alert) /\ event' = Head(alert)
  /\ UNCHANGED <<clock, writer, writers, commands, staker, chain, cancelled, panicked>>

(* Minute 1 without entry credits, or with the balance unknown.            *)
MinuteOneUnfunded == Takes(1) /\ UNCHANGED <<pc, staking>>

(* Minute 1 without its guard, for the mutation runs.                      *)
MinuteOneAgain ==
  /\ Takes(1) /\ staking' = TRUE /\ pc' = "make"

(* Minute 1: a record is made, unless one is being staked already.         *)
MinuteOne ==
  /\ Takes(1) /\ staking' = TRUE
  /\ pc' = IF staking THEN pc ELSE "make"

(* NewSPR is cancelled or fails.                                           *)
NewSPRFails ==
  /\ pc = "make" /\ staking' = FALSE /\ pc' = "loop"
  /\ UNCHANGED <<clock, alert, event, writer, writers, commands, staker, chain,
                 cancelled, panicked>>

(* NextBlockWriter: the writer linked after w, made when there is none.    *)
NextBlockWriter(ws, w) == IF w = Len(ws) THEN Append(ws, NewEntryWriter) ELSE ws

(* SetSPR: the first record a writer is given, cloned.                     *)
SetSPR(w, height) == IF w.sprTemplate = Nothing THEN [w EXCEPT !.sprTemplate = height] ELSE w

(* NewSPR returns a record: the next writer gets it.                       *)
NewSPR ==
  /\ pc = "make" /\ pc' = "start"
  /\ LET ws == NextBlockWriter(writers, writer)
     IN  /\ writer' = Len(ws)
         /\ writers' = [ws EXCEPT ![Len(ws)] = SetSPR(@, event.Dbht)]
  /\ UNCHANGED <<clock, alert, event, staking, commands, staker, chain, cancelled, panicked>>

(* SendCommand blocks while the channel is full.                           *)
SendCommand(command) ==
  /\ Len(commands) < CommandCap /\ commands' = Append(commands, command)

SendStart ==
  /\ pc = "start" /\ pc' = "loop"
  /\ SendCommand(Resume(writers[writer].sprTemplate))
  /\ UNCHANGED <<clock, alert, event, staking, writer, writers, staker, chain,
                 cancelled, panicked>>

(* Minute 8 stops staking, if it is on.                                    *)
MinuteEight ==
  /\ Takes(8) /\ staking' = FALSE
  /\ pc' = IF staking THEN "pause" ELSE pc

(* The staker is paused and the writer started, once (CollectAndWrite).    *)
SendPause ==
  /\ pc = "pause" /\ pc' = "loop"
  /\ SendCommand(Pause)
  /\ writers' = [writers EXCEPT ![writer] =
                   IF @.once THEN @ ELSE [@ EXCEPT !.once = TRUE, !.state = "writing"]]
  /\ UNCHANGED <<clock, alert, event, staking, writer, staker, chain, cancelled, panicked>>

Cancel ==
  /\ ~cancelled /\ cancelled' = TRUE
  /\ UNCHANGED <<clock, alert, coordinator, writers, commands, staker, chain, panicked>>

CoordinatorStops ==
  /\ cancelled /\ pc = "loop" /\ pc' = "stopped"
  /\ UNCHANGED <<clock, alert, event, staking, writer, writers, commands, staker, chain,
                 cancelled, panicked>>

-----------------------------------------------------------------------------
(* HandleCommand, from each of the staker's three selects.                 *)
HandleCommand ==
  /\ staker.running /\ commands # <<>>
  /\ commands' = Tail(commands)
  /\ staker' = [staker EXCEPT !.paused = Head(commands).paused,
                  !.sprhash = IF Head(commands).paused THEN @ ELSE Head(commands).sprhash]
  /\ UNCHANGED <<clock, alert, coordinator, writers, chain, cancelled, panicked>>

StakerCancelled ==
  /\ cancelled /\ staker.running
  /\ staker' = [staker EXCEPT !.running = FALSE]
  /\ UNCHANGED <<clock, alert, coordinator, writers, commands, chain, cancelled, panicked>>

-----------------------------------------------------------------------------
(* writeStakingRecord: every address in turn. An entry that is committed   *)
(* and revealed without an error ends its retries.                         *)
Writes(w) == w \in DOMAIN writers /\ writers[w].state = "writing"

(* A writer goes on to its next address, or to its next try.               *)
NextAddress(x) ==
  IF x.address = Len(Addresses) THEN [x EXCEPT !.state = "done"]
  ELSE [x EXCEPT !.address = @ + 1, !.tries = 0]
NextTry(x) ==
  IF x.tries + 1 = MaxTries THEN [x EXCEPT !.state = "failed"] ELSE [x EXCEPT !.tries = @ + 1]

EntryWritten(w) ==
  /\ Writes(w)
  /\ chain' = chain \cup {<<writers[w].sprTemplate, Addresses[writers[w].address]>>}
  /\ writers' = [writers EXCEPT ![w] = NextAddress(@)]
  /\ UNCHANGED <<clock, alert, coordinator, commands, staker, cancelled, panicked>>

(* EntryFails that retries for ever, for the mutation runs.                *)
EntryRetried(w) ==
  /\ Writes(w)
  /\ writers' = [writers EXCEPT ![w].tries = (@ + 1) % MaxTries]
  /\ UNCHANGED <<clock, alert, coordinator, commands, staker, chain, cancelled, panicked>>

(* The commit or the reveal fails. A failing commit does not keep the      *)
(* reveal from being sent, so the entry may be on the chain all the same.  *)
(* After the last try the other addresses are given up too.                *)
EntryFails(w) ==
  /\ Writes(w)
  /\ \E revealed \in BOOLEAN :
       chain' = IF revealed
                THEN chain \cup {<<writers[w].sprTemplate, Addresses[writers[w].address]>>}
                ELSE chain
  /\ writers' = [writers EXCEPT ![w] = NextTry(@)]
  /\ UNCHANGED <<clock, alert, coordinator, commands, staker, cancelled, panicked>>

(* CreateSPREntry without a signature returns neither an entry nor an      *)
(* error, and CommitEntry of no entry panics.                              *)
EntryUnsigned(w) ==
  /\ Writes(w)
  /\ panicked' = TRUE
  /\ UNCHANGED <<clock, alert, coordinator, writers, commands, staker, chain, cancelled>>

-----------------------------------------------------------------------------
Coordinator ==
  \/ MinuteOne \/ NewSPR \/ SendStart \/ MinuteEight \/ SendPause \/ CoordinatorStops

Staker == HandleCommand \/ StakerCancelled

NextStaking ==
  /\ ~panicked
  /\ \/ MinutePasses \/ PollSees \/ PollFails
     \/ MinuteOneUnfunded \/ NewSPRFails \/ Coordinator
     \/ Cancel
     \/ Staker
     \/ \E w \in DOMAIN writers : EntryWritten(w) \/ EntryFails(w) \/ EntryUnsigned(w)

(* Goroutines run: the coordinator and the staker go on as long as they    *)
(* can, NewSPR returns, and every call of a writer returns, with or        *)
(* without an error. Nothing is assumed of factomd or of the polls.        *)
Fairness ==
  /\ WF_stakingVars(~panicked /\ (Coordinator \/ NewSPRFails))
  /\ WF_stakingVars(~panicked /\ Staker)
  /\ \A w \in 1..(MaxStaked + 1) : WF_stakingVars(~panicked /\ (EntryWritten(w) \/ EntryFails(w)))

StakingSpec == InitStaking /\ [][NextStaking]_stakingVars /\ Fairness

-----------------------------------------------------------------------------
(* However minutes are missed or notified twice: a height is staked by at  *)
(* most one writer, whatever is on the chain was made for the height it    *)
(* says, and a record is written late (the alert that starts its writer is *)
(* of a later height) only when its own minute 8 went unnoticed. Once it   *)
(* has read its commands the staker stakes exactly when the coordinator    *)
(* does, and the record of the coordinator's writer.                       *)
OneWriterPerBlock ==
  /\ \A v, w \in DOMAIN writers :
       v # w /\ writers[v].sprTemplate # Nothing => writers[v].sprTemplate # writers[w].sprTemplate
  /\ \A entry \in chain : \E w \in DOMAIN writers :
       /\ writers[w].once /\ writers[w].sprTemplate = entry[1]
       /\ \A k \in 1..(writers[w].address - 1) : <<entry[1], Addresses[k]>> \in chain
  /\ pc = "pause" =>
       \/ writers[writer].sprTemplate = event.Dbht
       \/ [Dbht |-> writers[writer].sprTemplate, Minute |-> 8] \in skipped
  /\ pc = "loop" /\ commands = <<>> /\ writer > 1 =>
       staker.paused = ~staking /\ staker.sprhash = writers[writer].sprTemplate

(* A writer that was started comes to an end, and the coordinator is not   *)
(* held up by the staker's channel: it takes the next alert, or stops.     *)
(* Only the panic of a missing signature is excepted.                      *)
WritersEnd ==
  /\ \A w \in 1..(MaxStaked + 1) : Writes(w) ~> (~Writes(w) \/ panicked)
  /\ (pc \in {"make", "start", "pause"}) ~> (pc \in {"loop", "stopped"} \/ cancelled \/ panicked)
=============================================================================
