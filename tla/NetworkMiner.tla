---------------------------- MODULE NetworkMiner ----------------------------
(***************************************************************************)
(* Mining over the network (networkMiner/): a server next to factomd makes *)
(* the OPRs and forwards minutes and OPRs to a client over one connection; *)
(* the client runs the mining coordinator on stand-ins for the monitor and *)
(* the OPR maker (common/monitor_fake.go, mining/oprmaker.go) and sends    *)
(* back entries and statistics (mining/stats.go). The connection may break *)
(* and what was on its way is lost. Hashing is left out: at minute 9 the   *)
(* coordinator has one entry of the OPR it mines.                          *)
(*                                                                         *)
(* Timing: messages and loops take less than the rest of a block, so all   *)
(* that can be handled is handled before the next minute 1.                *)
(***************************************************************************)
EXTENDS Integers, Sequences, FiniteSets, FiniteSetsExt, Sorting

CONSTANTS
  MaxHeight,          \* bound on block heights
  MaxFaults,          \* bound on broken connections, failed calls and the like
  MaxGlobalStatsBuckets,
  MonitorCapacity,    \* events a listener's channel holds (10: those of a block)
  MakerCapacity,      \* OPRs the channel of BlockingOPRMaker holds (5)
  None

VARIABLES
  now,          \* the chain: [dbht, minute]
  faults,
  useAuth, secret,    \* the server's setting, and whether the client knows the secret
  srv,          \* ForwardMonitorEvents: [alert, gAlerts, mining, last]
  link,         \* the connection: [open, greeted, id, accepted, toClient, toServer]
  listen,       \* the client's Listen: "listening", "lost" or "ended"
  maker,        \* BlockingOPRMaker.n
  mon,          \* the events the client's coordinator has yet to take
  coord,        \* the client's coordinator: [pc, mining, dbht, opr]
  out,          \* the client's channels to Forwarder: [entries, stats]
  factom,       \* entries the server wrote
  buckets,      \* the server's miningStatistics
  hist          \* history: [events, oprs, mined, missed, graded, counted: <<height, client>>]

vars == <<now, faults, useAuth, secret, srv, link, listen, maker, mon, coord, out, factom, buckets, hist>>
client == <<listen, maker, mon, coord, out>>

ASSUME NetworkAssumption ==
  /\ MaxHeight \in Nat /\ MaxFaults \in Nat /\ MaxGlobalStatsBuckets \in Nat \ {0}
  /\ MonitorCapacity \in Nat \ {0} /\ MakerCapacity \in Nat \ {0}

-----------------------------------------------------------------------------
NewConnection(id) ==
  [open |-> TRUE, greeted |-> FALSE, id |-> id, accepted |-> FALSE,
   toClient |-> <<>>, toServer |-> <<[cmd |-> "AddTag"]>>]

Init ==
  /\ now = [dbht |-> 0, minute |-> 9]
  /\ faults = 0
  /\ useAuth \in BOOLEAN /\ secret \in (IF useAuth THEN {"right", "wrong"} ELSE {"right"})
  /\ srv = [alert |-> <<>>, gAlerts |-> <<>>, mining |-> FALSE, last |-> 0]
  /\ link = NewConnection(1)
  /\ listen = "listening"
  /\ maker = <<>> /\ mon = <<>>
  /\ coord = [pc |-> "wait", mining |-> FALSE, dbht |-> 0, opr |-> None]
  /\ out = [entries |-> <<>>, stats |-> <<>>]
  /\ factom = {} /\ buckets = <<>>
  /\ hist = [events |-> {}, oprs |-> {}, mined |-> {}, missed |-> FALSE, graded |-> {}, counted |-> {}]

Fault == faults < MaxFaults /\ faults' = faults + 1
ToClient(m) == [link EXCEPT !.toClient = Append(@, m)]
ToServer(m) == [link EXCEPT !.toServer = Append(@, m)]

(* SendToClients reaches the clients that were accepted.                   *)
SendToClients(m) == IF link.accepted THEN ToClient(m) ELSE link

-----------------------------------------------------------------------------
(* The chain and the grader beside the server (external to the module).    *)
Settled ==
  /\ srv.alert = <<>> /\ srv.gAlerts = <<>>
  /\ link.toClient = <<>> /\ link.toServer = <<>> /\ (link.open => link.greeted)
  /\ \/ coord.pc = "wait" /\ mon = <<>>
     \/ coord.pc = "newopr" /\ maker = <<>>
     \/ coord.pc = "ended"
  /\ out.entries = <<>> /\ out.stats = <<>>

NextMinute ==
  /\ now.minute = 9 => Settled /\ now.dbht < MaxHeight
  /\ now' = IF now.minute = 9 THEN [dbht |-> now.dbht + 1, minute |-> 1]
            ELSE [now EXCEPT !.minute = 9]
  /\ srv' = [srv EXCEPT !.alert = Append(@, now')]
  /\ hist' = [hist EXCEPT !.missed = @ \/ (now.minute = 9 /\ now.dbht > 0 /\ now.dbht \notin hist.graded)]
  /\ UNCHANGED <<faults, useAuth, secret, link, client, factom, buckets>>

Graded ==
  /\ now.minute = 1 /\ now.dbht > 0
  /\ srv.gAlerts = <<>> /\ now.dbht \notin hist.graded
  /\ srv' = [srv EXCEPT !.gAlerts = Append(@, now.dbht)]
  /\ hist' = [hist EXCEPT !.graded = @ \cup {now.dbht}]
  /\ UNCHANGED <<now, faults, useAuth, secret, link, client, factom, buckets>>

-----------------------------------------------------------------------------
(* ForwardMonitorEvents: a minute is forwarded.                            *)
ForwardEvent ==
  /\ srv.alert # <<>>
  /\ LET fds == Head(srv.alert)
     IN  /\ srv' = [srv EXCEPT !.alert = Tail(@), !.last = fds.dbht, !.mining = (fds.minute = 1)]
         /\ link' = SendToClients([cmd |-> "FactomEvent", evt |-> fds])
  /\ UNCHANGED <<now, faults, useAuth, secret, client, factom, buckets, hist>>

(* At minute 1 the balance cannot be read or is 0: nothing is forwarded.   *)
ForwardUnfunded ==
  /\ srv.alert # <<>> /\ Head(srv.alert).minute = 1 /\ Fault
  /\ srv' = [srv EXCEPT !.alert = Tail(@)]
  /\ link' = SendToClients([cmd |-> "CoordinatorError"])
  /\ UNCHANGED <<now, useAuth, secret, client, factom, buckets, hist>>

(* The grader's winners are made into an OPR, or into nil if that fails.   *)
ForwardOPR ==
  /\ srv.gAlerts # <<>> /\ srv.mining
  /\ srv' = [srv EXCEPT !.gAlerts = Tail(@)]
  /\ \/ /\ link' = SendToClients([cmd |-> "ConstructedOPR",
                                  opr |-> [dbht |-> srv.last, graded |-> Head(srv.gAlerts), id |-> "server"]])
        /\ UNCHANGED faults
     \/ Fault /\ link' = SendToClients([cmd |-> "ConstructedOPR", opr |-> None])
  /\ UNCHANGED <<now, useAuth, secret, client, factom, buckets, hist>>

(* Winners that come while the server is not mining are dropped: before    *)
(* the minute 1 they belong to is taken, too.                              *)
DropWinners ==
  /\ srv.gAlerts # <<>> /\ ~srv.mining
  /\ srv' = [srv EXCEPT !.gAlerts = Tail(@)]
  /\ hist' = [hist EXCEPT !.missed = TRUE]
  /\ UNCHANGED <<now, faults, useAuth, secret, link, client, factom, buckets>>

-----------------------------------------------------------------------------
(* onNewClient: a challenge, or a ping and the client is accepted.         *)
Greet ==
  [link EXCEPT !.greeted = TRUE, !.accepted = ~useAuth,
               !.toClient = Append(@, IF useAuth THEN [cmd |-> "SecretChallenge", challenge |-> link.id]
                                      ELSE [cmd |-> "Ping"])]

OnNewClient ==
  /\ link.open /\ ~link.greeted
  /\ link' = Greet
  /\ UNCHANGED <<now, faults, useAuth, secret, srv, client, factom, buckets, hist>>

Received == Head(link.toServer)
Serving == link.open /\ link.greeted /\ link.toServer # <<>>
Taken == [link EXCEPT !.toServer = Tail(@)]

(* onNewMessage: tags and pongs change nothing here; what a client sends   *)
(* before it is accepted is ignored otherwise.                             *)
OnIgnored ==
  /\ Serving
  /\ \/ Received.cmd \in {"AddTag", "Pong"}
     \/ Received.cmd \in {"FactomEntry", "MiningStatistics"} /\ ~link.accepted
  /\ link' = Taken
  /\ UNCHANGED <<now, faults, useAuth, secret, srv, client, factom, buckets, hist>>

(* WriteEntry retries for a while; in the end the entry is in or is not.   *)
OnFactomEntry ==
  /\ Serving /\ Received.cmd = "FactomEntry" /\ link.accepted
  /\ link' = Taken
  /\ \/ factom' = factom \cup {Received.opr} /\ UNCHANGED faults
     \/ Fault /\ UNCHANGED factom
  /\ UNCHANGED <<now, useAuth, secret, srv, client, buckets, hist>>

(* GlobalStatTracker.insert: a bucket per height, newest first, of which   *)
(* the last are dropped beyond MaxGlobalStatsBuckets.                      *)
fetch(list, height) == {i \in DOMAIN list : list[i].height = height}
Newer(a, b) == a.height > b.height
NewBucket(list, g) ==
  StableSort(Append(list, [height |-> g.height, groups |-> {g.id}]), Newer)

(* InsertStats that drops the newest bucket, for the mutation runs.        *)
InsertStatsCutTop(list, g) ==
  IF fetch(list, g.height) # {}
  THEN [list EXCEPT ![Min(fetch(list, g.height))].groups = @ \cup {g.id}]
  ELSE LET added == NewBucket(list, g)
       IN  SubSeq(added, Max({1, Len(added) - MaxGlobalStatsBuckets + 1}), Len(added))

InsertStats(list, g) ==
  IF fetch(list, g.height) # {}
  THEN [list EXCEPT ![Min(fetch(list, g.height))].groups = @ \cup {g.id}]
  ELSE LET added == NewBucket(list, g)
       IN  SubSeq(added, 1, Min({Len(added), MaxGlobalStatsBuckets}))

(* The name of another client's connection.                                *)
Other == 0

(* Statistics are put under the name of the connection and collected.      *)
OnMiningStatistics ==
  /\ Serving /\ Received.cmd = "MiningStatistics" /\ link.accepted
  /\ link' = Taken
  /\ buckets' = InsertStats(buckets, [height |-> Received.height, id |-> link.id])
  /\ hist' = [hist EXCEPT !.counted = @ \cup {<<Received.height, link.id>>}]
  /\ UNCHANGED <<now, faults, useAuth, secret, srv, client, factom>>

(* Another client, accepted long ago, sends its statistics of any height   *)
(* so far, early or late: the clients meet in the buckets.                 *)
OtherStatistics ==
  /\ Fault
  /\ \E height \in 1..now.dbht :
       /\ buckets' = InsertStats(buckets, [height |-> height, id |-> Other])
       /\ hist' = [hist EXCEPT !.counted = @ \cup {<<height, Other>>}]
  /\ UNCHANGED <<now, useAuth, secret, srv, link, client, factom>>

(* The answer to the challenge: the client is accepted, or told that it is *)
(* not and the connection closed.                                          *)
OnSecretChallenge ==
  /\ Serving /\ Received.cmd = "SecretChallenge"
  /\ link' = IF Received.challenge = link.id /\ Received.response = "right"
             THEN [Taken EXCEPT !.accepted = TRUE]
             ELSE [Taken EXCEPT !.open = FALSE, !.toServer = <<>>,
                                !.toClient = Append(@, [cmd |-> "RejectedConnection"])]
  /\ UNCHANGED <<now, faults, useAuth, secret, srv, client, factom, buckets, hist>>

-----------------------------------------------------------------------------
(* The connection breaks. The server forgets the client, and Listen goes   *)
(* on to reconnect.                                                        *)
Broken == [link EXCEPT !.open = FALSE, !.accepted = FALSE, !.toClient = <<>>, !.toServer = <<>>]

Break ==
  /\ link.open /\ Fault
  /\ link' = Broken
  /\ listen' = IF listen = "listening" THEN "lost" ELSE listen
  /\ hist' = [hist EXCEPT !.missed = TRUE]
  /\ UNCHANGED <<now, useAuth, secret, srv, maker, mon, coord, out, factom, buckets>>

(* ConnectionLost and Connect.                                             *)
Reconnect ==
  /\ listen = "lost"
  /\ link' = NewConnection(link.id + 1)
  /\ listen' = "listening"
  /\ UNCHANGED <<now, faults, useAuth, secret, srv, maker, mon, coord, out, factom, buckets, hist>>

-----------------------------------------------------------------------------
(* Listen.                                                                 *)
Listening == listen = "listening" /\ link.toClient # <<>>
Message == Head(link.toClient)
Read == [link EXCEPT !.toClient = Tail(@)]

(* BlockingOPRMaker.Drain at every event, for the mutation runs.           *)
DrainAlways(evt) == <<>>

(* BlockingOPRMaker.Drain, at minute 1.                                    *)
Drain(evt) == IF evt.minute = 1 THEN <<>> ELSE maker

(* A minute: the listener's channel is not waited for when it is full.     *)
ListenFactomEvent ==
  /\ Listening /\ Message.cmd = "FactomEvent"
  /\ link' = Read
  /\ maker' = Drain(Message.evt)
  /\ mon' = IF Len(mon) < MonitorCapacity THEN Append(mon, Message.evt) ELSE mon
  /\ hist' = IF Message.evt.minute = 1 THEN [hist EXCEPT !.events = @ \cup {Message.evt.dbht}] ELSE hist
  /\ UNCHANGED <<now, faults, useAuth, secret, srv, listen, coord, out, factom, buckets>>

(* An OPR gets the client's identity; RecOPR waits for room.               *)
ListenConstructedOPR ==
  /\ Listening /\ Message.cmd = "ConstructedOPR" /\ Len(maker) < MakerCapacity
  /\ link' = Read
  /\ maker' = Append(maker, IF Message.opr = None THEN None ELSE [Message.opr EXCEPT !.id = "client"])
  /\ hist' = IF Message.opr = None THEN hist ELSE [hist EXCEPT !.oprs = @ \cup {Message.opr.dbht}]
  /\ UNCHANGED <<now, faults, useAuth, secret, srv, listen, mon, coord, out, factom, buckets>>

(* The challenge is answered with the secret, a ping with a pong; a pong   *)
(* that cannot be sent is forgotten.                                       *)
ListenAnswer ==
  /\ Listening /\ Message.cmd \in {"SecretChallenge", "Ping", "CoordinatorError"}
  /\ link' = IF Message.cmd = "CoordinatorError" \/ ~link.open THEN Read
             ELSE [Read EXCEPT !.toServer = Append(@,
                     IF Message.cmd = "Ping" THEN [cmd |-> "Pong"]
                     ELSE [cmd |-> "SecretChallenge", challenge |-> Message.challenge, response |-> secret])]
  /\ UNCHANGED <<now, faults, useAuth, secret, srv, client, factom, buckets, hist>>

(* The connection breaks while the challenge is answered: Listen cancels   *)
(* the client's context and ends, without reconnecting.                    *)
ListenUnanswered ==
  /\ Listening /\ Message.cmd = "SecretChallenge" /\ link.open /\ Fault
  /\ link' = Broken
  /\ listen' = "ended"
  /\ hist' = [hist EXCEPT !.missed = TRUE]
  /\ UNCHANGED <<now, useAuth, secret, srv, maker, mon, coord, out, factom, buckets>>

(* Rejected: Listen cancels the client's context and ends.                 *)
ListenRejected ==
  /\ Listening /\ Message.cmd = "RejectedConnection"
  /\ link' = Read
  /\ listen' = "ended"
  /\ UNCHANGED <<now, faults, useAuth, secret, srv, maker, mon, coord, out, factom, buckets, hist>>

-----------------------------------------------------------------------------
(* The client's coordinator takes minute 1 and asks for an OPR, or minute  *)
(* 9 and hands over its entry (forwardMiningRecord) and statistics.        *)
TakeEvent ==
  /\ coord.pc = "wait" /\ mon # <<>>
  /\ mon' = Tail(mon)
  /\ LET fds == Head(mon)
         ask == fds.minute = 1 /\ ~coord.mining
         end == fds.minute = 9 /\ coord.mining
     IN  /\ coord' = CASE ask   -> [coord EXCEPT !.pc = "newopr", !.mining = TRUE, !.dbht = fds.dbht]
                       [] end   -> [coord EXCEPT !.mining = FALSE]
                       [] OTHER -> coord
         /\ out' = IF end THEN [entries |-> Append(out.entries, coord.opr),
                                stats   |-> Append(out.stats, fds.dbht)]
                   ELSE out
  /\ UNCHANGED <<now, faults, useAuth, secret, srv, link, listen, maker, factom, buckets, hist>>

(* NewOPR that takes an OPR of any height, for the mutation runs.          *)
NewOPRFirst(n, dbht) == [opr |-> Head(n), n |-> Tail(n)]

(* BlockingOPRMaker.NewOPR with an OPR in its channel: of another height,  *)
(* the rest is searched, and what is passed over is gone.                  *)
NewOPR(n, dbht) ==
  LET good(i) == n[i] # None /\ n[i].dbht = dbht
      at == IF Head(n) = None THEN 0
            ELSE IF \E i \in DOMAIN n : good(i) THEN CHOOSE i \in DOMAIN n : good(i) /\ \A j \in 1..(i - 1) : ~good(j)
            ELSE Len(n) + 1
  IN  CASE at = 0          -> [opr |-> None, n |-> Tail(n)]
        [] at = Len(n) + 1 -> [opr |-> None, n |-> <<>>]
        [] OTHER           -> [opr |-> n[at], n |-> SubSeq(n, at + 1, Len(n))]

(* NewOPR returns; it does not return while the channel is empty, not even *)
(* when the context is cancelled.                                          *)
TakeOPR ==
  /\ coord.pc = "newopr" /\ maker # <<>>
  /\ LET got == NewOPR(maker, coord.dbht)
     IN  /\ maker' = got.n
         /\ coord' = IF got.opr = None THEN [coord EXCEPT !.pc = "wait", !.mining = FALSE]
                     ELSE [coord EXCEPT !.pc = "wait", !.opr = got.opr]
         /\ hist' = IF got.opr = None THEN hist ELSE [hist EXCEPT !.mined = @ \cup {coord.dbht}]
  /\ UNCHANGED <<now, faults, useAuth, secret, srv, link, listen, mon, out, factom, buckets>>

(* Cancelled, the coordinator ends when it next waits for a minute.        *)
CoordinatorCancelled ==
  /\ listen = "ended" /\ coord.pc = "wait"
  /\ coord' = [coord EXCEPT !.pc = "ended"]
  /\ UNCHANGED <<now, faults, useAuth, secret, srv, link, listen, maker, mon, out, factom, buckets, hist>>

(* Forwarder: what cannot be sent is lost.                                 *)
ForwardEntry ==
  /\ out.entries # <<>>
  /\ out' = [out EXCEPT !.entries = Tail(@)]
  /\ link' = IF link.open THEN ToServer([cmd |-> "FactomEntry", opr |-> Head(out.entries)]) ELSE link
  /\ UNCHANGED <<now, faults, useAuth, secret, srv, listen, maker, mon, coord, factom, buckets, hist>>

ForwardStats ==
  /\ out.stats # <<>>
  /\ out' = [out EXCEPT !.stats = Tail(@)]
  /\ link' = IF link.open THEN ToServer([cmd |-> "MiningStatistics", height |-> Head(out.stats)]) ELSE link
  /\ UNCHANGED <<now, faults, useAuth, secret, srv, listen, maker, mon, coord, factom, buckets, hist>>

-----------------------------------------------------------------------------
Client ==
  \/ ListenFactomEvent \/ ListenConstructedOPR \/ ListenAnswer \/ ListenRejected
  \/ TakeEvent \/ TakeOPR \/ CoordinatorCancelled \/ ForwardEntry \/ ForwardStats \/ Reconnect

Server ==
  \/ ForwardEvent \/ ForwardOPR \/ DropWinners \/ OnNewClient
  \/ OnIgnored \/ OnFactomEntry \/ OnMiningStatistics \/ OnSecretChallenge

Next ==
  \/ NextMinute \/ Graded \/ ForwardUnfunded \/ Break \/ ListenUnanswered \/ OtherStatistics
  \/ Client \/ Server

Spec == Init /\ [][Next]_vars /\ WF_vars(Client) /\ WF_vars(Server)

-----------------------------------------------------------------------------
(* The OPR a client mines is of the height it was to mine, lists the       *)
(* winners graded at that height and pays the client, whatever was lost or *)
(* left over from other blocks (NewOPR, Drain, Listen).                    *)
MinedOPRIsCurrent ==
  coord.mining /\ coord.pc = "wait" =>
    coord.opr = [dbht |-> coord.dbht, graded |-> coord.dbht, id |-> "client"]

(* The statistics kept are those of the newest heights any accepted client *)
(* sent some of, each height once, newest first, and of a height kept they *)
(* are those of every client that sent some, in whatever order they came.  *)
(* A client without the secret takes no part when the server asks for it:  *)
(* it is sent no minutes and no OPRs, and nothing of it is written or      *)
(* counted (GlobalStatTracker.insert, onNewClient, onNewMessage).          *)
StatsKeepTheNewest ==
  LET heights == {c[1] : c \in hist.counted}
      newest == {h \in heights :
                   Cardinality({k \in heights : k > h}) < MaxGlobalStatsBuckets}
  IN  /\ {buckets[i].height : i \in DOMAIN buckets} = newest
      /\ \A i, j \in DOMAIN buckets : i < j => buckets[i].height > buckets[j].height
      /\ \A i \in DOMAIN buckets :
           buckets[i].groups = {c[2] : c \in {d \in hist.counted : d[1] = buckets[i].height}}
      /\ useAuth /\ secret = "wrong" =>
           /\ hist.events = {} /\ hist.oprs = {} /\ factom = {}
           /\ \A c \in hist.counted : c[2] = Other

Delivered == hist.events \cap hist.oprs

(* If no OPR was missed, a block whose minute 1 and OPR reached the client *)
(* is mined (Listen, NewOPR).                                              *)
DeliveredIsMined ==
  \A h \in 1..MaxHeight : h \in Delivered ~> (h \in hist.mined \/ hist.missed)

(* What the README of networkMiner says: "The network miner will listen    *)
(* for events to start and stop mining", of every block whose minute 1 and *)
(* OPR reach it.                                                           *)
StartsOnEverySignal ==
  \A h \in 1..MaxHeight : h \in Delivered ~> h \in hist.mined
=============================================================================
