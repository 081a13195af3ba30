------------------------- MODULE NetworkMinerProofs -------------------------
(***************************************************************************)
(* What a client mines over the network, for any number of blocks, faults  *)
(* and reconnections and any capacity of the channels.                     *)
(***************************************************************************)
EXTENDS NetworkMiner, CommonLemmas, FiniteSetTheorems, SequenceTheorems, TLAPS

(* An OPR pairs a height with the winners graded at it.                    *)
Events == [dbht : Nat, minute : {1, 9}]
OPRs(id) == {[dbht |-> h, graded |-> h, id |-> id] : h \in Nat}
MaybeOPR(id) == OPRs(id) \cup {None}

ClientMessage ==
  [cmd : {"Ping", "CoordinatorError", "RejectedConnection"}]
    \cup [cmd : {"SecretChallenge"}, challenge : Nat]
    \cup [cmd : {"FactomEvent"}, evt : Events]
    \cup [cmd : {"ConstructedOPR"}, opr : MaybeOPR("server")]
ServerMessage ==
  [cmd : {"AddTag", "Pong"}]
    \cup [cmd : {"SecretChallenge"}, challenge : Nat, response : {"right", "wrong"}]
    \cup [cmd : {"FactomEntry"}, opr : MaybeOPR("client")]
    \cup [cmd : {"MiningStatistics"}, height : Nat]

(* What travels between server and client, with every OPR on its way.      *)
Link == [open : BOOLEAN, greeted : BOOLEAN, id : Nat, accepted : BOOLEAN,
         toClient : Seq(ClientMessage), toServer : Seq(ServerMessage)]
TravelInv ==
  /\ secret \in {"right", "wrong"}
  /\ link \in Link
  /\ maker \in Seq(MaybeOPR("client"))
  /\ mon \in Seq(Events)
  /\ coord \in [pc : {"wait", "newopr", "ended"}, mining : BOOLEAN, dbht : Nat,
                opr : MaybeOPR("client")]
  /\ out \in [entries : Seq(MaybeOPR("client")), stats : Seq(Nat)]

(* The server works on one block at a time: what it has not handled is of  *)
(* the current block, and it stops mining with the last of its minutes.    *)
ServerInv ==
  /\ now \in Events
  /\ srv \in [alert : Seq(Events), gAlerts : Seq(Nat), mining : BOOLEAN, last : Nat]
  /\ \A i \in DOMAIN srv.alert : srv.alert[i].dbht = now.dbht
  /\ \A i \in DOMAIN srv.gAlerts : srv.gAlerts[i] = now.dbht
  /\ srv.mining => srv.last = now.dbht
  /\ now.minute = 9 => IF srv.alert = <<>> THEN ~srv.mining
                       ELSE srv.alert[Len(srv.alert)].minute = 9

NetworkInv == TravelInv /\ ServerInv /\ MinedOPRIsCurrent
-----------------------------------------------------------------------------
(* A message to the client carries what its kind says.                     *)
LEMMA ClientMessages ==
  ASSUME NEW m \in ClientMessage
  PROVE  /\ m.cmd = "FactomEvent" => m.evt \in Events
         /\ m.cmd = "ConstructedOPR" => m.opr \in MaybeOPR("server")
         /\ m.cmd = "SecretChallenge" => m.challenge \in Nat
BY DEF ClientMessage

(* The messages the server sends, and those the client sends.              *)
LEMMA MessagesSent ==
  /\ [cmd |-> "Ping"] \in ClientMessage
  /\ [cmd |-> "CoordinatorError"] \in ClientMessage
  /\ [cmd |-> "RejectedConnection"] \in ClientMessage
  /\ \A i \in Nat : [cmd |-> "SecretChallenge", challenge |-> i] \in ClientMessage
  /\ \A e \in Events : [cmd |-> "FactomEvent", evt |-> e] \in ClientMessage
  /\ \A o \in MaybeOPR("server") : [cmd |-> "ConstructedOPR", opr |-> o] \in ClientMessage
  /\ [cmd |-> "AddTag"] \in ServerMessage
  /\ [cmd |-> "Pong"] \in ServerMessage
  /\ \A i \in Nat, r \in {"right", "wrong"} :
        [cmd |-> "SecretChallenge", challenge |-> i, response |-> r] \in ServerMessage
  /\ \A o \in MaybeOPR("client") : [cmd |-> "FactomEntry", opr |-> o] \in ServerMessage
  /\ \A h \in Nat : [cmd |-> "MiningStatistics", height |-> h] \in ServerMessage
BY DEF ClientMessage, ServerMessage

(* What a send and a receive do to the connection.                         *)
LEMMA LinkFields ==
  ASSUME link \in Link
  PROVE  /\ link.toClient \in Seq(ClientMessage) /\ link.toServer \in Seq(ServerMessage)
         /\ link.id \in Nat /\ link.open \in BOOLEAN
BY DEF Link

LEMMA LinkSend ==
  ASSUME link \in Link
  PROVE  /\ \A m \in ClientMessage : ToClient(m) \in Link /\ SendToClients(m) \in Link
         /\ \A m \in ServerMessage : ToServer(m) \in Link
<1>1. \A m \in ClientMessage : Append(link.toClient, m) \in Seq(ClientMessage)
  BY LinkFields, AppendProperties
<1>2. \A m \in ServerMessage : Append(link.toServer, m) \in Seq(ServerMessage)
  BY LinkFields, AppendProperties
<1> QED
  BY <1>1, <1>2 DEF Link, ToClient, ToServer, SendToClients

LEMMA LinkTake ==
  ASSUME link \in Link
  PROVE  /\ link.toClient # <<>> => Read \in Link /\ Message \in ClientMessage
         /\ link.toServer # <<>> => Taken \in Link
<1>1. link.toClient # <<>> => Tail(link.toClient) \in Seq(ClientMessage)
                              /\ Head(link.toClient) \in ClientMessage
  BY LinkFields
<1>2. link.toServer # <<>> => Tail(link.toServer) \in Seq(ServerMessage)
  BY LinkFields
<1> QED
  BY <1>1, <1>2 DEF Link, Read, Taken, Message

(* A daemon and a client that have just started.                           *)
LEMMA InitNetwork == Init => NetworkInv
<1> SUFFICES ASSUME Init PROVE NetworkInv
  OBVIOUS
<1>1. NewConnection(1) \in Link
  <2>1. <<[cmd |-> "AddTag"]>> \in Seq(ServerMessage) /\ <<>> \in Seq(ClientMessage)
    BY MessagesSent
  <2> QED
    BY <2>1 DEF NewConnection, Link
<1>2. TravelInv
  <2>1. <<>> \in Seq(MaybeOPR("client")) /\ <<>> \in Seq(Events) /\ <<>> \in Seq(Nat)
        /\ None \in MaybeOPR("client")
    BY DEF MaybeOPR
  <2> QED
    BY <1>1, <2>1 DEF Init, TravelInv
<1>3. ServerInv
  BY DEF Init, ServerInv, Events
<1>4. MinedOPRIsCurrent
  BY DEF Init, MinedOPRIsCurrent
<1> QED
  BY <1>2, <1>3, <1>4 DEF NetworkInv

(* The fields of the server, and of the clock.                             *)
LEMMA ServerFields ==
  ASSUME ServerInv
  PROVE  /\ now.dbht \in Nat /\ now.minute \in {1, 9}
         /\ srv.alert \in Seq(Events) /\ srv.gAlerts \in Seq(Nat)
         /\ srv.mining \in BOOLEAN /\ srv.last \in Nat
         /\ srv = [alert |-> srv.alert, gAlerts |-> srv.gAlerts, mining |-> srv.mining,
                   last |-> srv.last]
BY DEF ServerInv, Events

(* A new minute comes when the last block is settled.                      *)
LEMMA NextMinuteInv ==
  ASSUME NetworkInv, NextMinute
  PROVE  NetworkInv'
<1> USE DEF NetworkInv
<1>1. /\ now.minute = 9 => srv.alert = <<>> /\ srv.gAlerts = <<>>
      /\ now' = IF now.minute = 9 THEN [dbht |-> now.dbht + 1, minute |-> 1]
                ELSE [now EXCEPT !.minute = 9]
      /\ srv' = [srv EXCEPT !.alert = Append(@, now')]
      /\ UNCHANGED <<secret, link, maker, mon, coord, out>>
  BY DEF NextMinute, Settled, client
<1>2. TravelInv' /\ MinedOPRIsCurrent'
  BY <1>1 DEF TravelInv, MinedOPRIsCurrent
<1>3. PICK e \in Events : /\ now' = e
                          /\ e.dbht = IF now.minute = 9 THEN now.dbht + 1 ELSE now.dbht
                          /\ e.minute = IF now.minute = 9 THEN 1 ELSE 9
  <2>1. CASE now.minute = 9
    <3>1. now' = [dbht |-> now.dbht + 1, minute |-> 1] /\ now.dbht + 1 \in Nat
      BY <1>1, <2>1, ServerFields
    <3> QED
      BY <2>1, <3>1 DEF Events
  <2>2. CASE now.minute = 1
    <3>1. now \in Events
      BY DEF ServerInv
    <3>2. now' = [dbht |-> now.dbht, minute |-> 9]
      BY <1>1, <2>2, <3>1 DEF Events
    <3> QED
      BY <2>2, <3>2, ServerFields DEF Events
  <2> QED
    BY <2>1, <2>2, ServerFields
<1>4. /\ srv'.alert = Append(srv.alert, e) /\ srv'.gAlerts = srv.gAlerts
      /\ srv'.mining = srv.mining /\ srv'.last = srv.last
      /\ srv'.alert \in Seq(Events)
      /\ srv' = [alert |-> srv'.alert, gAlerts |-> srv.gAlerts, mining |-> srv.mining, last |-> srv.last]
  <2>1. srv.alert \in Seq(Events)
    BY ServerFields
  <2>2. Append(srv.alert, e) \in Seq(Events)
    BY <2>1, AppendProperties
  <2>3. srv = [alert |-> srv.alert, gAlerts |-> srv.gAlerts, mining |-> srv.mining, last |-> srv.last]
    BY ServerFields
  <2>4. srv' = [srv EXCEPT !.alert = Append(srv.alert, e)]
    BY <1>1, <1>3
  <2>5. srv' = [alert |-> Append(srv.alert, e), gAlerts |-> srv.gAlerts, mining |-> srv.mining, last |-> srv.last]
    BY <2>3, <2>4
  <2> QED
    BY <2>2, <2>5
<1>5. CASE now.minute = 9
  <2>1. srv'.alert = <<e>> /\ srv'.gAlerts = <<>> /\ ~srv'.mining
    <3>1. srv.alert = <<>> /\ srv.gAlerts = <<>> /\ ~srv.mining
      BY <1>1, <1>5 DEF ServerInv
    <3>2. Append(<<>>, e) = <<e>>
      OBVIOUS
    <3> QED
      BY <1>4, <3>1, <3>2
  <2>2. /\ \A i \in DOMAIN srv'.alert : srv'.alert[i].dbht = now'.dbht
        /\ DOMAIN srv'.gAlerts = {} /\ now'.minute = 1 /\ now' \in Events
    BY <1>3, <1>5, <2>1
  <2>3. srv' \in [alert : Seq(Events), gAlerts : Seq(Nat), mining : BOOLEAN, last : Nat]
    BY <1>4, ServerFields
  <2> QED
    BY <1>2, <2>1, <2>2, <2>3 DEF ServerInv
<1>6. CASE now.minute = 1
  <2>1. e.dbht = now.dbht /\ e.minute = 9
    BY <1>3, <1>6
  <2>2. /\ \A i \in DOMAIN srv'.alert : srv'.alert[i].dbht = e.dbht
        /\ srv'.alert # <<>> /\ srv'.alert[Len(srv'.alert)] = e
    <3>1. \A i \in DOMAIN srv.alert : srv.alert[i].dbht = now.dbht
      BY DEF ServerInv
    <3> QED
      BY <1>4, <2>1, <3>1, ServerFields, AppendProperties
  <2> QED
    BY <1>2, <1>3, <1>4, <2>1, <2>2, ServerFields DEF ServerInv
<1> QED
  BY <1>5, <1>6, ServerFields

(* The grader announces the current block.                                 *)
LEMMA GradedInv ==
  ASSUME NetworkInv, Graded
  PROVE  NetworkInv'
<1> USE DEF NetworkInv
<1>1. /\ srv.gAlerts = <<>> /\ srv' = [srv EXCEPT !.gAlerts = Append(@, now.dbht)]
      /\ UNCHANGED <<now, secret, link, maker, mon, coord, out>>
  BY DEF Graded, client
<1>2. TravelInv' /\ MinedOPRIsCurrent'
  BY <1>1 DEF TravelInv, MinedOPRIsCurrent
<1>3. srv'.gAlerts = <<now.dbht>> /\ srv'.alert = srv.alert /\ srv'.mining = srv.mining
      /\ srv'.last = srv.last
      /\ srv' = [alert |-> srv.alert, gAlerts |-> <<now.dbht>>, mining |-> srv.mining, last |-> srv.last]
  BY <1>1, ServerFields
<1>4. /\ srv' \in [alert : Seq(Events), gAlerts : Seq(Nat), mining : BOOLEAN, last : Nat]
      /\ \A i \in DOMAIN srv'.gAlerts : srv'.gAlerts[i] = now.dbht
  <2>1. <<now.dbht>> \in Seq(Nat) /\ \A i \in DOMAIN <<now.dbht>> : <<now.dbht>>[i] = now.dbht
    BY ServerFields
  <2> QED
    BY <1>3, <2>1, ServerFields
<1> QED
  BY <1>1, <1>2, <1>3, <1>4 DEF ServerInv

(* The server takes a minute and forwards it, or only takes it.            *)
LEMMA TakesMinute ==
  ASSUME ServerInv, srv.alert # <<>>, now' = now,
         srv'.alert = Tail(srv.alert), srv'.gAlerts = srv.gAlerts,
         srv'.mining \in BOOLEAN, srv'.last \in Nat,
         srv' = [alert |-> srv'.alert, gAlerts |-> srv'.gAlerts, mining |-> srv'.mining,
                 last |-> srv'.last],
         \/ srv'.mining = (Head(srv.alert).minute = 1) /\ srv'.last = Head(srv.alert).dbht
         \/ Head(srv.alert).minute = 1 /\ srv'.mining = srv.mining /\ srv'.last = srv.last
  PROVE  ServerInv'
<1>1. /\ srv.alert \in Seq(Events) /\ Head(srv.alert) = srv.alert[1] /\ srv.alert[1].dbht = now.dbht
      /\ Tail(srv.alert) \in Seq(Events) /\ Len(Tail(srv.alert)) = Len(srv.alert) - 1
      /\ \A i \in DOMAIN Tail(srv.alert) : i + 1 \in DOMAIN srv.alert
                                           /\ Tail(srv.alert)[i] = srv.alert[i + 1]
  BY ServerFields DEF ServerInv
<1>2. srv'.mining => srv'.last = now.dbht
  BY <1>1 DEF ServerInv
<1>3. \A i \in DOMAIN srv'.alert : srv'.alert[i].dbht = now.dbht
  BY <1>1 DEF ServerInv
<1>4. ASSUME now.minute = 9
      PROVE  IF srv'.alert = <<>> THEN ~srv'.mining
             ELSE srv'.alert[Len(srv'.alert)].minute = 9
  <2>1. srv.alert[Len(srv.alert)].minute = 9
    BY <1>4 DEF ServerInv
  <2>2. CASE srv'.alert = <<>>
    <3>1. Len(srv.alert) = 1
      <4>1. Tail(srv.alert) = <<>>
        BY <2>2
      <4>2. Len(Tail(srv.alert)) = 0
        BY <4>1, Len(<<>>) = 0, Zenon
      <4>3. Len(srv.alert) \in Nat /\ Len(Tail(srv.alert)) = Len(srv.alert) - 1
        BY <1>1
      <4> QED
        BY <4>2, <4>3
    <3> QED
      BY <1>1, <2>1, <2>2, <3>1
  <2>3. CASE srv'.alert # <<>>
    <3>1. Len(srv'.alert) \in DOMAIN Tail(srv.alert) /\ Len(srv'.alert) + 1 = Len(srv.alert)
      BY <1>1, <2>3
    <3> QED
      BY <1>1, <2>1, <2>3, <3>1
  <2> QED
    BY <2>2, <2>3
<1> QED
  BY <1>1, <1>2, <1>3, <1>4, ServerFields DEF ServerInv

LEMMA ForwardEventInv ==
  ASSUME NetworkInv, ForwardEvent \/ ForwardUnfunded
  PROVE  NetworkInv'
<1> USE DEF NetworkInv
<1>1. /\ srv.alert # <<>> /\ UNCHANGED <<now, secret, maker, mon, coord, out>>
  BY DEF ForwardEvent, ForwardUnfunded, client
<1>2. Head(srv.alert) \in Events /\ Head(srv.alert).dbht \in Nat
  <2>1. srv.alert \in Seq(Events)
    BY ServerFields
  <2>2. Head(srv.alert) \in Events
    BY <1>1, <2>1
  <2> QED
    BY <2>2 DEF Events
<1>3. link' \in Link
  BY <1>2, LinkSend, MessagesSent DEF ForwardEvent, ForwardUnfunded, TravelInv
<1>4. TravelInv' /\ MinedOPRIsCurrent'
  BY <1>1, <1>3 DEF TravelInv, MinedOPRIsCurrent
<1>5. CASE ForwardEvent
  <2>1. srv' = [alert |-> Tail(srv.alert), gAlerts |-> srv.gAlerts,
                mining |-> (Head(srv.alert).minute = 1), last |-> Head(srv.alert).dbht]
    BY <1>5, ServerFields DEF ForwardEvent
  <2> QED
    BY <1>1, <1>2, <1>4, <2>1, TakesMinute
<1>6. CASE ForwardUnfunded
  <2>1. /\ Head(srv.alert).minute = 1
        /\ srv' = [alert |-> Tail(srv.alert), gAlerts |-> srv.gAlerts,
                   mining |-> srv.mining, last |-> srv.last]
    BY <1>6, ServerFields DEF ForwardUnfunded
  <2> QED
    BY <1>1, <1>2, <1>4, <2>1, TakesMinute, ServerFields
<1> QED
  BY <1>5, <1>6

(* The OPR made of the grader's winners pairs them with their own height.  *)
LEMMA WinnersInv ==
  ASSUME NetworkInv, ForwardOPR \/ DropWinners
  PROVE  NetworkInv'
<1> USE DEF NetworkInv
<1>1. /\ srv.gAlerts # <<>> /\ UNCHANGED <<now, secret, maker, mon, coord, out>>
      /\ srv' = [srv EXCEPT !.gAlerts = Tail(@)]
  BY DEF ForwardOPR, DropWinners, client
<1>2. link' \in Link
  <2>1. CASE ForwardOPR
    <3>1. Head(srv.gAlerts) = now.dbht /\ srv.last = now.dbht /\ now.dbht \in Nat
      BY <1>1, <2>1, ServerFields DEF ForwardOPR, ServerInv
    <3>2. [dbht |-> srv.last, graded |-> Head(srv.gAlerts), id |-> "server"] \in MaybeOPR("server")
          /\ None \in MaybeOPR("server")
      BY <3>1 DEF MaybeOPR, OPRs
    <3> QED
      BY <2>1, <3>2, LinkSend, MessagesSent DEF ForwardOPR, TravelInv
  <2>2. CASE DropWinners
    BY <2>2 DEF DropWinners, TravelInv
  <2> QED
    BY <2>1, <2>2
<1>3. TravelInv' /\ MinedOPRIsCurrent'
  BY <1>1, <1>2 DEF TravelInv, MinedOPRIsCurrent
<1>4. /\ srv' = [alert |-> srv.alert, gAlerts |-> Tail(srv.gAlerts), mining |-> srv.mining, last |-> srv.last]
      /\ Tail(srv.gAlerts) \in Seq(Nat)
      /\ \A i \in DOMAIN Tail(srv.gAlerts) : i + 1 \in DOMAIN srv.gAlerts
                                             /\ Tail(srv.gAlerts)[i] = srv.gAlerts[i + 1]
  <2>1. srv.gAlerts \in Seq(Nat)
    BY ServerFields
  <2>2. srv' = [alert |-> srv.alert, gAlerts |-> Tail(srv.gAlerts), mining |-> srv.mining, last |-> srv.last]
    BY <1>1, ServerFields
  <2>3. /\ Tail(srv.gAlerts) \in Seq(Nat)
        /\ \A i \in DOMAIN Tail(srv.gAlerts) : i + 1 \in DOMAIN srv.gAlerts
                                               /\ Tail(srv.gAlerts)[i] = srv.gAlerts[i + 1]
    BY <1>1, <2>1
  <2> QED
    BY <2>2, <2>3
<1> QED
  BY <1>1, <1>3, <1>4, ServerFields DEF ServerInv

(* Whoever else moves leaves the server's block alone.                     *)
LEMMA ServerKept ==
  ASSUME ServerInv, UNCHANGED <<now, srv>>
  PROVE  ServerInv'
BY DEF ServerInv

(* The server's side of the connection, and its loss.                      *)
LEMMA ConnectionInv ==
  ASSUME NetworkInv,
         \/ OnNewClient \/ OnIgnored \/ OnFactomEntry \/ OnMiningStatistics
         \/ OnSecretChallenge \/ Break \/ ListenUnanswered \/ Reconnect
  PROVE  NetworkInv'
<1> USE DEF NetworkInv
<1>1. UNCHANGED <<now, srv, secret, maker, mon, coord, out>>
  BY DEF OnNewClient, OnIgnored, OnFactomEntry, OnMiningStatistics, OnSecretChallenge, Break,
     ListenUnanswered, Reconnect, client
<1>2. link \in Link
  BY DEF TravelInv
<1>3. link' \in Link
  <2>1. CASE OnNewClient
    <3>1. PICK m \in ClientMessage :
             m = IF useAuth THEN [cmd |-> "SecretChallenge", challenge |-> link.id] ELSE [cmd |-> "Ping"]
      BY <1>2, LinkFields, MessagesSent
    <3>2. Append(link.toClient, m) \in Seq(ClientMessage)
      BY <1>2, LinkFields, AppendProperties
    <3>3. link' = [link EXCEPT !.greeted = TRUE, !.accepted = ~useAuth,
                               !.toClient = Append(link.toClient, m)]
      BY <2>1, <3>1 DEF OnNewClient, Greet
    <3> QED
      BY <1>2, <3>2, <3>3 DEF Link
  <2>2. CASE OnIgnored \/ OnFactomEntry \/ OnMiningStatistics
    BY <1>2, <2>2, LinkTake DEF OnIgnored, OnFactomEntry, OnMiningStatistics, Serving
  <2>3. CASE OnSecretChallenge
    <3>1. Taken \in Link
      BY <1>2, <2>3, LinkTake DEF OnSecretChallenge, Serving
    <3>2. Append(Taken.toClient, [cmd |-> "RejectedConnection"]) \in Seq(ClientMessage)
      BY <3>1, MessagesSent, AppendProperties DEF Link
    <3>3. \/ link' = [Taken EXCEPT !.accepted = TRUE]
          \/ link' = [Taken EXCEPT !.open = FALSE, !.toServer = <<>>,
                        !.toClient = Append(Taken.toClient, [cmd |-> "RejectedConnection"])]
      BY <2>3 DEF OnSecretChallenge
    <3> HIDE DEF Taken
    <3>4. [Taken EXCEPT !.accepted = TRUE] \in Link
      BY <3>1 DEF Link
    <3>5. [Taken EXCEPT !.open = FALSE, !.toServer = <<>>,
             !.toClient = Append(Taken.toClient, [cmd |-> "RejectedConnection"])] \in Link
      BY <3>1, <3>2, <<>> \in Seq(ServerMessage) DEF Link
    <3> QED
      BY <3>3, <3>4, <3>5
  <2>4. CASE Break \/ ListenUnanswered
    <3>1. link' = [link EXCEPT !.open = FALSE, !.accepted = FALSE, !.toClient = <<>>, !.toServer = <<>>]
      BY <2>4 DEF Break, ListenUnanswered, Broken
    <3> QED
      BY <1>2, <3>1, <<>> \in Seq(ServerMessage), <<>> \in Seq(ClientMessage) DEF Link
  <2>5. CASE Reconnect
    <3>1. link.id + 1 \in Nat /\ <<[cmd |-> "AddTag"]>> \in Seq(ServerMessage)
      BY <1>2, LinkFields, MessagesSent
    <3> QED
      BY <2>5, <3>1 DEF Reconnect, NewConnection, Link
  <2> QED
    BY <2>1, <2>2, <2>3, <2>4, <2>5
<1>4. TravelInv' /\ MinedOPRIsCurrent'
  BY <1>1, <1>3 DEF TravelInv, MinedOPRIsCurrent
<1> QED
  BY <1>1, <1>4, ServerKept

(* The client reads a message.                                             *)
LEMMA ListenInv ==
  ASSUME NetworkInv,
         ListenFactomEvent \/ ListenConstructedOPR \/ ListenAnswer \/ ListenRejected
  PROVE  NetworkInv'
<1> USE DEF NetworkInv
<1>1. link.toClient # <<>> /\ UNCHANGED <<now, srv, secret, coord, out>>
  BY DEF ListenFactomEvent, ListenConstructedOPR, ListenAnswer, ListenRejected, Listening, client
<1>2. link \in Link /\ Read \in Link /\ Message \in ClientMessage
  BY <1>1, LinkTake DEF TravelInv
<1>3. /\ maker \in Seq(MaybeOPR("client")) /\ mon \in Seq(Events)
      /\ secret \in {"right", "wrong"}
  BY DEF TravelInv
<1>4. link' \in Link /\ maker' \in Seq(MaybeOPR("client")) /\ mon' \in Seq(Events)
  <2>1. CASE ListenFactomEvent
    <3>1. Message.evt \in Events
      BY <1>2, <2>1, ClientMessages DEF ListenFactomEvent
    <3>2. mon' \in Seq(Events)
      BY <1>3, <2>1, <3>1, AppendProperties DEF ListenFactomEvent
    <3> QED
      BY <1>2, <1>3, <2>1, <3>2 DEF ListenFactomEvent, Drain
  <2>2. CASE ListenConstructedOPR
    <3>1. PICK o \in MaybeOPR("server") : o = Message.opr
      BY <1>2, <2>2, ClientMessages DEF ListenConstructedOPR
    <3>2. (IF o = None THEN None ELSE [o EXCEPT !.id = "client"]) \in MaybeOPR("client")
      <4>1. CASE o = None
        BY <4>1 DEF MaybeOPR
      <4>2. CASE o # None
        <5>1. PICK h \in Nat : o = [dbht |-> h, graded |-> h, id |-> "server"]
          BY <4>2 DEF MaybeOPR, OPRs
        <5>2. [o EXCEPT !.id = "client"] = [dbht |-> h, graded |-> h, id |-> "client"]
          BY <5>1
        <5> QED
          BY <4>2, <5>2 DEF MaybeOPR, OPRs
      <4> QED
        BY <4>1, <4>2
    <3>3. maker' \in Seq(MaybeOPR("client"))
      BY <1>3, <2>2, <3>1, <3>2, AppendProperties DEF ListenConstructedOPR
    <3> QED
      BY <1>2, <1>3, <2>2, <3>3 DEF ListenConstructedOPR
  <2>3. CASE ListenAnswer
    <3>1. PICK m \in ServerMessage : link' \in {Read, [Read EXCEPT !.toServer = Append(Read.toServer, m)]}
      <4>1. CASE link' = Read
        BY <4>1, MessagesSent
      <4>2. CASE link' # Read /\ Message.cmd = "Ping"
        <5>1. link' = [Read EXCEPT !.toServer = Append(Read.toServer, [cmd |-> "Pong"])]
          BY <2>3, <4>2 DEF ListenAnswer
        <5> QED
          BY <5>1, MessagesSent
      <4>3. CASE link' # Read /\ Message.cmd # "Ping"
        <5>1. Message.cmd = "SecretChallenge" /\ Message.challenge \in Nat
          BY <1>2, <2>3, <4>3, ClientMessages DEF ListenAnswer
        <5>2. link' = [Read EXCEPT !.toServer = Append(Read.toServer,
                         [cmd |-> "SecretChallenge", challenge |-> Message.challenge, response |-> secret])]
          BY <2>3, <4>3 DEF ListenAnswer
        <5> QED
          BY <1>3, <5>1, <5>2, MessagesSent
      <4> QED
        BY <4>1, <4>2, <4>3
    <3>2. Append(Read.toServer, m) \in Seq(ServerMessage)
      BY <1>2, AppendProperties DEF Link
    <3>3. [Read EXCEPT !.toServer = Append(Read.toServer, m)] \in Link
      <4> HIDE DEF Read
      <4> QED
        BY <1>2, <3>2 DEF Link
    <3> QED
      BY <1>2, <1>3, <2>3, <3>1, <3>3 DEF ListenAnswer, client
  <2>4. CASE ListenRejected
    BY <1>2, <1>3, <2>4 DEF ListenRejected
  <2> QED
    BY <2>1, <2>2, <2>3, <2>4
<1>5. TravelInv' /\ MinedOPRIsCurrent'
  BY <1>1, <1>4 DEF TravelInv, MinedOPRIsCurrent
<1> QED
  BY <1>1, <1>5, ServerKept

(* The fields of the client's coordinator.                                 *)
LEMMA CoordinatorFields ==
  ASSUME TravelInv
  PROVE  /\ coord.pc \in {"wait", "newopr", "ended"}
         /\ coord.mining \in BOOLEAN /\ coord.dbht \in Nat /\ coord.opr \in MaybeOPR("client")
         /\ coord = [pc |-> coord.pc, mining |-> coord.mining, dbht |-> coord.dbht, opr |-> coord.opr]
         /\ out.entries \in Seq(MaybeOPR("client")) /\ out.stats \in Seq(Nat)
         /\ out = [entries |-> out.entries, stats |-> out.stats]
BY DEF TravelInv

(* At minute 1 the coordinator asks for an OPR, at minute 9 it hands over. *)
LEMMA TakeEventInv ==
  ASSUME NetworkInv, TakeEvent
  PROVE  NetworkInv'
<1> USE DEF NetworkInv
<1>1. /\ coord.pc = "wait" /\ mon # <<>> /\ mon' = Tail(mon)
      /\ UNCHANGED <<now, srv, secret, link, maker>>
  BY DEF TakeEvent
<1>2. mon' \in Seq(Events) /\ Head(mon) \in Events
  <2>1. mon \in Seq(Events)
    BY DEF TravelInv
  <2> QED
    BY <1>1, <2>1
<1>3. Head(mon).dbht \in Nat
  BY <1>2 DEF Events
<1> DEFINE fds == Head(mon)
           ask == fds.minute = 1 /\ ~coord.mining
           end == fds.minute = 9 /\ coord.mining
<1>4. coord' = CASE ask   -> [coord EXCEPT !.pc = "newopr", !.mining = TRUE, !.dbht = fds.dbht]
                 [] end   -> [coord EXCEPT !.mining = FALSE]
                 [] OTHER -> coord
  BY DEF TakeEvent
<1>5. out' = IF end THEN [entries |-> Append(out.entries, coord.opr), stats |-> Append(out.stats, fds.dbht)]
             ELSE out
  BY DEF TakeEvent
<1>6. ~(ask /\ end)
  OBVIOUS
<1> HIDE DEF ask, end
<1>7. coord' \in {[pc |-> "newopr", mining |-> TRUE, dbht |-> fds.dbht, opr |-> coord.opr],
                  [pc |-> coord.pc, mining |-> FALSE, dbht |-> coord.dbht, opr |-> coord.opr],
                  coord}
  <2>1. CASE ask
    <3>1. coord' = [coord EXCEPT !.pc = "newopr", !.mining = TRUE, !.dbht = fds.dbht]
      BY <1>4, <1>6, <2>1
    <3> HIDE DEF fds
    <3> QED
      BY <3>1, CoordinatorFields
  <2>2. CASE end
    <3>1. coord' = [coord EXCEPT !.mining = FALSE]
      BY <1>4, <1>6, <2>2
    <3> QED
      BY <3>1, CoordinatorFields
  <2>3. CASE ~ask /\ ~end
    BY <1>4, <2>3
  <2> QED
    BY <2>1, <2>2, <2>3
<1>8. coord' \in [pc : {"wait", "newopr", "ended"}, mining : BOOLEAN, dbht : Nat,
                  opr : MaybeOPR("client")]
  <2>1. CASE coord' = coord
    BY <2>1 DEF TravelInv
  <2>2. CASE coord' = [pc |-> "newopr", mining |-> TRUE, dbht |-> fds.dbht, opr |-> coord.opr]
    BY <1>3, <2>2, CoordinatorFields
  <2>3. CASE coord' = [pc |-> coord.pc, mining |-> FALSE, dbht |-> coord.dbht, opr |-> coord.opr]
    BY <2>3, CoordinatorFields
  <2> QED
    BY <1>7, <2>1, <2>2, <2>3
<1>9. out' \in [entries : Seq(MaybeOPR("client")), stats : Seq(Nat)]
  <2>1. /\ Append(out.entries, coord.opr) \in Seq(MaybeOPR("client"))
        /\ Append(out.stats, fds.dbht) \in Seq(Nat)
    BY <1>3, CoordinatorFields, AppendProperties
  <2> QED
    BY <1>5, <2>1 DEF TravelInv
<1>10. TravelInv'
  BY <1>1, <1>2, <1>8, <1>9 DEF TravelInv
<1>11. MinedOPRIsCurrent'
  BY <1>7 DEF MinedOPRIsCurrent
<1> QED
  BY <1>1, <1>10, <1>11, ServerKept

(* NewOPR returns an OPR of the height it was asked for, or nil.           *)
LEMMA NewOPRIs ==
  ASSUME NEW n \in Seq(MaybeOPR("client")), n # <<>>, NEW d \in Nat
  PROVE  /\ NewOPR(n, d).n \in Seq(MaybeOPR("client"))
         /\ \/ NewOPR(n, d).opr = None
            \/ NewOPR(n, d).opr = [dbht |-> d, graded |-> d, id |-> "client"]
<1> DEFINE good(i) == n[i] # None /\ n[i].dbht = d
           first == CHOOSE i \in DOMAIN n : good(i) /\ \A j \in 1..(i - 1) : ~good(j)
           at == IF Head(n) = None THEN 0
                 ELSE IF \E i \in DOMAIN n : good(i) THEN first
                 ELSE Len(n) + 1
<1>1. NewOPR(n, d) = CASE at = 0          -> [opr |-> None, n |-> Tail(n)]
                       [] at = Len(n) + 1 -> [opr |-> None, n |-> <<>>]
                       [] OTHER           -> [opr |-> n[at], n |-> SubSeq(n, at + 1, Len(n))]
  BY DEF NewOPR
<1>2. Len(n) \in Nat /\ DOMAIN n = 1..Len(n) /\ \A i \in DOMAIN n : n[i] \in MaybeOPR("client")
  OBVIOUS
<1>3. CASE Head(n) = None
  <2>1. NewOPR(n, d) = [opr |-> None, n |-> Tail(n)]
    <3>1. at = 0 /\ Len(n) + 1 # 0
      BY <1>2, <1>3
    <3> HIDE DEF at
    <3> QED
      BY <1>1, <3>1
  <2>2. Tail(n) \in Seq(MaybeOPR("client"))
    OBVIOUS
  <2> QED
    BY <2>1, <2>2
<1>4. CASE Head(n) # None /\ ~(\E i \in DOMAIN n : good(i))
  <2>1. at = Len(n) + 1 /\ Len(n) + 1 # 0
    BY <1>2, <1>4
  <2> HIDE DEF at
  <2>2. NewOPR(n, d) = [opr |-> None, n |-> <<>>]
    BY <1>1, <2>1
  <2> QED
    BY <2>2
<1>5. CASE Head(n) # None /\ \E i \in DOMAIN n : good(i)
  <2>1. \E i \in DOMAIN n : good(i) /\ \A j \in 1..(i - 1) : ~good(j)
    <3> DEFINE S == {i \in DOMAIN n : good(i)}
    <3>1. S \subseteq Nat /\ S # {}
      BY <1>2, <1>5
    <3>2. PICK i \in S : \A j \in S : i <= j
      <4> HIDE DEF S
      <4> QED
        BY <3>1, LeastNat
    <3>3. \A j \in 1..(i - 1) : j \in DOMAIN n /\ ~(i <= j)
      BY <1>2, <3>2
    <3> QED
      BY <3>2, <3>3
  <2>2. first \in DOMAIN n /\ good(first)
    BY <2>1
  <2>3. at = first
    BY <1>5
  <2>4. at \in 1..Len(n) /\ at # 0 /\ at # Len(n) + 1 /\ n[at] # None /\ n[at].dbht = d
    <3> HIDE DEF first, at
    <3>1. first \in 1..Len(n) /\ n[first] # None /\ n[first].dbht = d
      BY <1>2, <2>2
    <3> QED
      BY <1>2, <2>3, <3>1
  <2> HIDE DEF at
  <2>5. NewOPR(n, d) = [opr |-> n[at], n |-> SubSeq(n, at + 1, Len(n))]
    BY <1>1, <2>4
  <2>6. n[at] = [dbht |-> d, graded |-> d, id |-> "client"]
    BY <1>2, <2>4 DEF MaybeOPR, OPRs
  <2>7. SubSeq(n, at + 1, Len(n)) \in Seq(MaybeOPR("client"))
    <3>1. \A i \in (at + 1)..Len(n) : n[i] \in MaybeOPR("client")
      BY <1>2, <2>4
    <3> QED
      BY <1>2, <2>4, <3>1, SubSeqProperties
  <2> QED
    BY <2>5, <2>6, <2>7
<1> QED
  BY <1>3, <1>4, <1>5

LEMMA TakeOPRInv ==
  ASSUME NetworkInv, TakeOPR
  PROVE  NetworkInv'
<1> USE DEF NetworkInv
<1>1. /\ maker \in Seq(MaybeOPR("client")) /\ maker # <<>> /\ coord.dbht \in Nat
      /\ UNCHANGED <<now, srv, secret, link, mon, out>>
  BY CoordinatorFields DEF TakeOPR, TravelInv
<1>2. PICK got : got = NewOPR(maker, coord.dbht)
  OBVIOUS
<1>3. /\ maker' = got.n
      /\ coord' = IF got.opr = None THEN [coord EXCEPT !.pc = "wait", !.mining = FALSE]
                  ELSE [coord EXCEPT !.pc = "wait", !.opr = got.opr]
  BY <1>2 DEF TakeOPR
<1>4. /\ got.n \in Seq(MaybeOPR("client"))
      /\ got.opr = None \/ got.opr = [dbht |-> coord.dbht, graded |-> coord.dbht, id |-> "client"]
  BY <1>1, <1>2, NewOPRIs
<1>5. CASE got.opr = None
  <2>1. coord' = [pc |-> "wait", mining |-> FALSE, dbht |-> coord.dbht, opr |-> coord.opr]
    BY <1>3, <1>5, CoordinatorFields
  <2>2. TravelInv'
    <3>1. coord' \in [pc : {"wait", "newopr", "ended"}, mining : BOOLEAN, dbht : Nat,
                      opr : MaybeOPR("client")]
      BY <2>1, CoordinatorFields
    <3> QED
      BY <1>1, <1>3, <1>4, <3>1 DEF TravelInv
  <2>3. MinedOPRIsCurrent'
    BY <2>1 DEF MinedOPRIsCurrent
  <2> QED
    BY <1>1, <2>2, <2>3, ServerKept
<1>6. CASE got.opr # None
  <2>1. coord' = [pc |-> "wait", mining |-> coord.mining, dbht |-> coord.dbht, opr |-> got.opr]
    BY <1>3, <1>6, CoordinatorFields
  <2>2. got.opr \in MaybeOPR("client")
    BY <1>1, <1>4, <1>6 DEF MaybeOPR, OPRs
  <2>3. TravelInv'
    BY <1>1, <1>3, <1>4, <2>1, <2>2, CoordinatorFields DEF TravelInv
  <2>4. MinedOPRIsCurrent'
    BY <1>4, <1>6, <2>1 DEF MinedOPRIsCurrent
  <2> QED
    BY <1>1, <2>3, <2>4, ServerKept
<1> QED
  BY <1>5, <1>6

(* The coordinator ends, and what it handed over is sent.                  *)
LEMMA ForwardInv ==
  ASSUME NetworkInv, CoordinatorCancelled \/ ForwardEntry \/ ForwardStats
  PROVE  NetworkInv'
<1> USE DEF NetworkInv
<1>1. UNCHANGED <<now, srv, secret, maker, mon>>
  BY DEF CoordinatorCancelled, ForwardEntry, ForwardStats
<1>2. CASE CoordinatorCancelled
  <2>1. UNCHANGED <<link, out>> /\ coord' = [coord EXCEPT !.pc = "ended"]
    BY <1>2 DEF CoordinatorCancelled
  <2>2. coord' = [pc |-> "ended", mining |-> coord.mining, dbht |-> coord.dbht, opr |-> coord.opr]
    BY <2>1, CoordinatorFields
  <2>3. TravelInv' /\ MinedOPRIsCurrent'
    BY <1>1, <2>1, <2>2, CoordinatorFields DEF TravelInv, MinedOPRIsCurrent
  <2> QED
    BY <1>1, <2>3, ServerKept
<1>3. CASE ForwardEntry
  <2>1. Head(out.entries) \in MaybeOPR("client") /\ Tail(out.entries) \in Seq(MaybeOPR("client"))
    BY <1>3, CoordinatorFields DEF ForwardEntry
  <2>2. link' \in Link
    BY <1>3, <2>1, LinkSend, MessagesSent DEF ForwardEntry, TravelInv
  <2>3. out' \in [entries : Seq(MaybeOPR("client")), stats : Seq(Nat)] /\ coord' = coord
    BY <1>3, <2>1, CoordinatorFields DEF ForwardEntry
  <2>4. TravelInv' /\ MinedOPRIsCurrent'
    BY <1>1, <2>2, <2>3 DEF TravelInv, MinedOPRIsCurrent
  <2> QED
    BY <1>1, <2>4, ServerKept
<1>4. CASE ForwardStats
  <2>1. Head(out.stats) \in Nat /\ Tail(out.stats) \in Seq(Nat)
    BY <1>4, CoordinatorFields DEF ForwardStats
  <2>2. link' \in Link
    BY <1>4, <2>1, LinkSend, MessagesSent DEF ForwardStats, TravelInv
  <2>3. out' \in [entries : Seq(MaybeOPR("client")), stats : Seq(Nat)] /\ coord' = coord
    BY <1>4, <2>1, CoordinatorFields DEF ForwardStats
  <2>4. TravelInv' /\ MinedOPRIsCurrent'
    BY <1>1, <2>2, <2>3 DEF TravelInv, MinedOPRIsCurrent
  <2> QED
    BY <1>1, <2>4, ServerKept
<1> QED
  BY <1>2, <1>3, <1>4

(* Every OPR on its way, with the maker or being mined pairs the winners   *)
(* with their own height, and the server handles one block at a time       *)
(* (ForwardMonitorEvents, Listen, BlockingOPRMaker).                       *)
THEOREM NetworkInvariant == Spec => []NetworkInv
<1>1. ASSUME NetworkInv, [Next]_vars PROVE NetworkInv'
  <2>1. CASE UNCHANGED vars
    <3>1. UNCHANGED <<now, srv, secret, link, maker, mon, coord, out>>
      BY <2>1 DEF vars
    <3> QED
      BY <1>1, <3>1, ServerKept DEF NetworkInv, TravelInv, MinedOPRIsCurrent
  <2>2. CASE OtherStatistics
    <3>1. UNCHANGED <<now, srv, secret, link, maker, mon, coord, out>>
      BY <2>2 DEF OtherStatistics, client
    <3> QED
      BY <1>1, <3>1, ServerKept DEF NetworkInv, TravelInv, MinedOPRIsCurrent
  <2> QED
    BY <1>1, <2>1, <2>2, NextMinuteInv, GradedInv, ForwardEventInv, WinnersInv, ConnectionInv,
       ListenInv, TakeEventInv, TakeOPRInv, ForwardInv DEF Next, Client, Server
<1> QED
  BY <1>1, InitNetwork, PTL DEF Spec

(* The OPR a network miner works on is of the height it was to mine, lists *)
(* the winners graded at that height and pays the client, whatever was     *)
(* lost, left over or reconnected (NewOPR, Drain, Listen).                 *)
THEOREM MinedCorrect == Spec => []MinedOPRIsCurrent
<1>1. NetworkInv => MinedOPRIsCurrent
  BY DEF NetworkInv
<1> QED
  BY <1>1, NetworkInvariant, PTL
-----------------------------------------------------------------------------
(***************************************************************************)
(* Statistics. A list keeps the newest of a set of heights: newest first,  *)
(* with every height above one it has, and full or with all of them.       *)
(***************************************************************************)
Bucket == [height : Nat, groups : SUBSET Nat]
Has(list, h) == \E i \in DOMAIN list : list[i].height = h
Kept(list, K) ==
  /\ list \in Seq(Bucket) /\ Len(list) <= MaxGlobalStatsBuckets
  /\ IsFiniteSet(K) /\ K \subseteq Nat
  /\ \A i, j \in DOMAIN list : i < j => list[i].height > list[j].height
  /\ \A i \in DOMAIN list : list[i].height \in K
  /\ \A i \in DOMAIN list, h \in K : h > list[i].height => Has(list, h)
  /\ Len(list) = MaxGlobalStatsBuckets \/ \A h \in K : Has(list, h)

(* Of what clients sent, pairs of a height and a client: the heights, the  *)
(* clients of a height, and the list that has them all.                    *)
Heights(C) == {c[1] : c \in C}
Clients(C, h) == {c[2] : c \in {d \in C : d[1] = h}}
Collected(list, C) ==
  /\ Kept(list, Heights(C)) /\ C \subseteq Nat \X Nat
  /\ \A i \in DOMAIN list : list[i].groups = Clients(C, list[i].height)

(* Such a list has the heights with fewer than MaxGlobalStatsBuckets above *)
(* them.                                                                   *)
LEMMA KeptIsNewest ==
  ASSUME NEW list, NEW K, Kept(list, K)
  PROVE  {list[i].height : i \in DOMAIN list}
           = {h \in K : Cardinality({k \in K : k > h}) < MaxGlobalStatsBuckets}
<1> DEFINE D == 1..Len(list)
           H == {list[i].height : i \in D}
           above(h) == {k \in K : k > h}
<1>1. /\ list \in Seq(Bucket) /\ Len(list) \in Nat /\ DOMAIN list = D /\ Len(list) <= MaxGlobalStatsBuckets
      /\ IsFiniteSet(K) /\ K \subseteq Nat /\ MaxGlobalStatsBuckets \in Nat
  BY NetworkAssumption DEF Kept
<1>2. /\ \A i, j \in D : i < j => list[i].height > list[j].height
      /\ \A i \in D : list[i].height \in K /\ list[i].height \in Nat
      /\ \A i \in D, h \in K : h > list[i].height => h \in H
      /\ Len(list) = MaxGlobalStatsBuckets \/ \A h \in K : h \in H
  <2>1. /\ \A i, j \in D : i < j => list[i].height > list[j].height
        /\ \A i \in D : list[i].height \in K
        /\ \A i \in D, h \in K : h > list[i].height => Has(list, h)
        /\ Len(list) = MaxGlobalStatsBuckets \/ \A h \in K : Has(list, h)
    BY <1>1, Zenon DEF Kept
  <2>2. \A h : Has(list, h) => h \in H
    BY <1>1, Zenon DEF Has
  <2>3. \A i \in D : list[i].height \in K /\ list[i].height \in Nat
    BY <2>1, <1>1, Zenon
  <2> HIDE DEF H
  <2> QED
    BY <2>1, <2>2, <2>3, Zenon
<1>3. IsFiniteSet(H) /\ Cardinality(H) = Len(list) /\ H \subseteq K
  <2> DEFINE f == [i \in D |-> list[i].height]
  <2>1. f \in [D -> H] /\ \A x \in H : \E i \in D : f[i] = x
    OBVIOUS
  <2>2. \A i, j \in D : f[i] = f[j] => i = j
    <3> SUFFICES ASSUME NEW i \in D, NEW j \in D, i # j PROVE f[i] # f[j]
      OBVIOUS
    <3>1. (i < j \/ j < i) /\ f[i] = list[i].height /\ f[j] = list[j].height
      BY <1>1
    <3> QED
      BY <3>1, <1>2
  <2>3. IsFiniteSet(D) /\ Cardinality(D) = Len(list)
    <3>1. \A n \in Nat : IsFiniteSet(1..n) /\ Cardinality(1..n) = n
      BY FS_Interval
    <3> QED
      BY <3>1, <1>1
  <2> HIDE DEF f, D, H
  <2>4. f \in Bijection(D, H)
    BY <2>1, <2>2 DEF Bijection, Injection, Surjection, IsInjective
  <2>5. Cardinality(H) = Cardinality(D) /\ IsFiniteSet(H)
    BY <2>3, <2>4, FS_Bijection DEF ExistsBijection
  <2> QED
    BY <2>3, <2>5, <1>2 DEF H
<1>4. ASSUME NEW h \in H PROVE Cardinality(above(h)) < MaxGlobalStatsBuckets
  <2>1. PICK i \in D : list[i].height = h
    OBVIOUS
  <2>2. above(h) \subseteq H \ {h}
    <3>1. ASSUME NEW k \in K, k > h PROVE k \in H /\ k # h
      <4>1. k > list[i].height /\ k \in Nat /\ h \in Nat
        BY <3>1, <2>1, <1>1, <1>2, Zenon
      <4>2. k \in H
        BY <4>1, <1>2, Zenon
      <4> QED
        BY <4>1, <4>2, <3>1
    <3> HIDE DEF H
    <3> QED
      BY <3>1, Zenon
  <2> HIDE DEF above, H
  <2>3. IsFiniteSet(H \ {h}) /\ Cardinality(H \ {h}) = Len(list) - 1
    BY <1>3, <1>4, FS_RemoveElement
  <2>4. Cardinality(above(h)) \in Nat /\ Cardinality(above(h)) <= Len(list) - 1
    BY <2>2, <2>3, FS_Subset, FS_CardinalityType
  <2> QED
    BY <2>4, <1>1
<1>5. ASSUME NEW h \in K, h \notin H PROVE ~(Cardinality(above(h)) < MaxGlobalStatsBuckets)
  <2>1. Len(list) = MaxGlobalStatsBuckets
    BY <1>2, <1>5
  <2>2. ASSUME NEW i \in D PROVE list[i].height > h
    <3>1. ~(h > list[i].height) /\ list[i].height # h /\ list[i].height \in Nat /\ h \in Nat
      BY <1>1, <1>2, <1>5, Zenon
    <3> QED
      BY <3>1
  <2>3. H \subseteq above(h) /\ above(h) \subseteq K
    BY <2>2, <1>2
  <2> HIDE DEF above, H
  <2>4. IsFiniteSet(above(h))
    BY <2>3, <1>1, FS_Subset
  <2>5. Cardinality(H) <= Cardinality(above(h)) /\ Cardinality(above(h)) \in Nat
    BY <2>3, <2>4, FS_Subset, FS_CardinalityType
  <2> QED
    BY <2>1, <2>5, <1>1, <1>3
<1>6. H = {h \in K : Cardinality(above(h)) < MaxGlobalStatsBuckets}
  <2> HIDE DEF H, above
  <2> QED
    BY <1>3, <1>4, <1>5
<1> QED
  BY <1>1, <1>6, Zenon

(* Sorting buckets puts the newest first.                                  *)
LEMMA BucketsSorted ==
  ASSUME NEW s \in Seq(Bucket)
  PROVE  \E o \in [1..Len(s) -> 1..Len(s)] :
           /\ StableSort(s, Newer) = [k \in 1..Len(s) |-> s[o[k]]]
           /\ \A i \in 1..Len(s) : \E k \in 1..Len(s) : o[k] = i
           /\ \A j, k \in 1..Len(s) : j < k => o[j] # o[k] /\ s[o[j]].height >= s[o[k]].height
<1> DEFINE n == Len(s)
           D == 1..n
           R == {p \in D \X D :
                   \/ Newer(s[p[1]], s[p[2]])
                   \/ p[1] < p[2] /\ ~Newer(s[p[2]], s[p[1]])}
           o == InOrder(n, R)
           key == [i \in D |-> 0 - s[i].height]
<1>1. n \in Nat /\ \A i \in D : s[i] \in Bucket /\ s[i].height \in Nat /\ key[i] = 0 - s[i].height
  <2>1. n \in Nat /\ \A i \in D : s[i] \in Bucket
    OBVIOUS
  <2>2. \A b \in Bucket : b.height \in Nat
    BY DEF Bucket
  <2> QED
    BY <2>1, <2>2
<1>2. StableSort(s, Newer) = [k \in D |-> s[o[k]]]
  BY DEF StableSort
<1> HIDE DEF n
<1>3. key \in [D -> Int]
  BY <1>1
<1> HIDE DEF key
<1>4. \A i, j \in D : (s[i].height > s[j].height <=> key[i] < key[j]) /\ (Newer(s[i], s[j]) <=> key[i] < key[j])
  BY <1>1 DEF Newer
<1>5. \A i, j \in D : <<i, j>> \in R <=> key[i] < key[j] \/ (i < j /\ ~(key[j] < key[i]))
  BY <1>4
<1>6. StrictOrder(n, R)
  <2> HIDE DEF R
  <2> QED
    BY <1>1, <1>3, <1>5, KeyOrder
<1> HIDE DEF R
<1>7. /\ o \in [D -> D] /\ \A i \in D : \E k \in D : o[k] = i
      /\ \A j, k \in D : j < k => <<o[j], o[k]>> \in R
      /\ \A j, k \in D : o[j] = o[k] => j = k
  BY <1>1, <1>6, InOrderSorts
<1> HIDE DEF o
<1>8. ASSUME NEW j \in D, NEW k \in D, j < k PROVE o[j] # o[k] /\ s[o[j]].height >= s[o[k]].height
  <2>1. o[j] \in D /\ o[k] \in D /\ <<o[j], o[k]>> \in R /\ j # k
    BY <1>1, <1>7, <1>8
  <2>2. ~(key[o[k]] < key[o[j]])
    <3>1. key[o[j]] \in Int /\ key[o[k]] \in Int
      BY <2>1, <1>3
    <3> QED
      BY <3>1, <2>1, <1>5
  <2>3. ~(s[o[k]].height > s[o[j]].height) /\ s[o[k]].height \in Nat /\ s[o[j]].height \in Nat
    BY <2>1, <2>2, <1>1, <1>4
  <2>4. s[o[j]].height >= s[o[k]].height
    BY <2>3
  <2> QED
    BY <2>1, <2>4, <1>7
<1> QED
  BY <1>2, <1>7, <1>8 DEF n

(* A height the list does not have goes to its place; of a list beyond its *)
(* limit the oldest is dropped.                                            *)
LEMMA NewHeight ==
  ASSUME NEW list, NEW K, Kept(list, K), NEW g, g.height \in Nat, g.id \in Nat, ~Has(list, g.height)
  PROVE  \A cut :
           cut = SubSeq(NewBucket(list, g), 1, Min({Len(NewBucket(list, g)), MaxGlobalStatsBuckets}))
             => /\ Kept(cut, K \cup {g.height})
                /\ \A i \in DOMAIN cut : \/ \E j \in DOMAIN list : cut[i] = list[j]
                                       \/ /\ cut[i] = [height |-> g.height, groups |-> {g.id}]
                                          /\ g.height \notin K
<1> DEFINE N == MaxGlobalStatsBuckets
           h == g.height
           K2 == K \cup {h}
           b == [height |-> h, groups |-> {g.id}]
           s == Append(list, b)
           m == Len(list) + 1
           A == 1..m
           t == NewBucket(list, g)
<1>1. /\ list \in Seq(Bucket) /\ Len(list) \in Nat /\ Len(list) <= N /\ DOMAIN list = 1..Len(list)
      /\ IsFiniteSet(K) /\ K \subseteq Nat /\ N \in Nat \ {0} /\ h \in Nat /\ m \in Nat
      /\ \A i \in 1..Len(list) : list[i].height \in Nat
  <2>1. /\ list \in Seq(Bucket) /\ Len(list) <= N /\ IsFiniteSet(K) /\ K \subseteq Nat
        /\ N \in Nat \ {0} /\ h \in Nat
    BY NetworkAssumption DEF Kept
  <2>2. Len(list) \in Nat /\ DOMAIN list = 1..Len(list) /\ \A i \in 1..Len(list) : list[i] \in Bucket
    BY <2>1
  <2>3. \A x \in Bucket : x.height \in Nat
    BY DEF Bucket
  <2>4. Len(list) + 1 \in Nat
    BY <2>2
  <2> QED
    BY <2>1, <2>2, <2>3, <2>4
<1>2. b \in Bucket
  BY DEF Bucket
<1>3. /\ s \in Seq(Bucket) /\ Len(s) = m /\ s[m] = b /\ \A i \in 1..Len(list) : s[i] = list[i]
  <2> HIDE DEF b
  <2> QED
    BY <1>1, <1>2, AppendProperties
<1>4. PICK o \in [A -> A] :
        /\ t = [k \in A |-> s[o[k]]]
        /\ \A i \in A : \E k \in A : o[k] = i
        /\ \A j, k \in A : j < k => o[j] # o[k] /\ s[o[j]].height >= s[o[k]].height
  <2>1. t = StableSort(s, Newer)
    BY DEF NewBucket
  <2> HIDE DEF s, t, b, m
  <2>2. s \in Seq(Bucket) /\ Len(s) = m
    BY <1>3
  <2>3. \E p \in [1..Len(s) -> 1..Len(s)] :
          /\ StableSort(s, Newer) = [k \in 1..Len(s) |-> s[p[k]]]
          /\ \A i \in 1..Len(s) : \E k \in 1..Len(s) : p[k] = i
          /\ \A j, k \in 1..Len(s) : j < k => p[j] # p[k] /\ s[p[j]].height >= s[p[k]].height
    BY <2>2, BucketsSorted
  <2> QED
    BY <2>1, <2>2, <2>3
<1>5. b.height = h
  OBVIOUS
<1> HIDE DEF s, t, b
<1>6. /\ \A i \in A : s[i].height \in Nat /\ s[i] \in Bucket
      /\ \A i \in A : i # m => i \in 1..Len(list) /\ s[i].height = list[i].height
      /\ s[m].height = h
  <2>1. \A i \in A : s[i] \in Bucket
    BY <1>1, <1>3
  <2>2. \A i \in A : i # m => i \in 1..Len(list) /\ s[i] = list[i]
    BY <1>1, <1>3
  <2> QED
    BY <2>1, <2>2, <1>3, <1>5 DEF Bucket
<1>7. \A i, j \in A : i # j => s[i].height # s[j].height
  <2> SUFFICES ASSUME NEW i \in A, NEW j \in A, i < j PROVE s[i].height # s[j].height
    BY <1>1
  <2>1. i \in 1..Len(list)
    BY <1>1
  <2>2. CASE j = m
    <3>1. s[j].height = h /\ s[i].height = list[i].height
      BY <2>1, <2>2, <1>3, <1>6, Zenon
    <3>2. list[i].height # h
      BY <2>1, <1>1, Zenon DEF Has
    <3> QED
      BY <3>1, <3>2
  <2>3. CASE j # m
    <3>1. list[i].height > list[j].height /\ j \in 1..Len(list)
      BY <2>1, <2>3, <1>1, <1>6, Zenon DEF Kept
    <3> QED
      BY <2>1, <3>1, <1>1, <1>3
  <2> QED
    BY <2>2, <2>3
<1>8. /\ t \in [A -> Bucket] /\ \A k \in A : t[k] = s[o[k]] /\ t[k].height \in Nat
      /\ \A j, k \in A : j < k => t[j].height > t[k].height
  <2>1. t \in [A -> Bucket] /\ \A k \in A : t[k] = s[o[k]] /\ t[k].height \in Nat
    BY <1>4, <1>6
  <2>2. ASSUME NEW j \in A, NEW k \in A, j < k PROVE t[j].height > t[k].height
    <3>1. /\ t[j] = s[o[j]] /\ t[k] = s[o[k]] /\ o[j] # o[k] /\ s[o[j]].height >= s[o[k]].height
          /\ o[j] \in A /\ o[k] \in A
      BY <2>1, <2>2, <1>4
    <3>2. s[o[j]].height # s[o[k]].height /\ s[o[j]].height \in Nat /\ s[o[k]].height \in Nat
      BY <3>1, <1>6, <1>7
    <3> QED
      BY <3>1, <3>2
  <2> QED
    BY <2>1, <2>2
<1>9. /\ \A k \in A : t[k].height = h \/ (t[k].height \in K /\ Has(list, t[k].height))
      /\ \A x : x = h \/ Has(list, x) => \E k \in A : t[k].height = x
  <2>1. ASSUME NEW k \in A PROVE t[k].height = h \/ (t[k].height \in K /\ Has(list, t[k].height))
    <3>1. t[k] = s[o[k]] /\ o[k] \in A
      BY <1>4, <1>8
    <3>2. CASE o[k] = m
      BY <3>1, <3>2, <1>6
    <3>3. CASE o[k] # m
      <4>1. o[k] \in 1..Len(list) /\ t[k].height = list[o[k]].height
        BY <3>1, <3>3, <1>6
      <4> QED
        BY <4>1, <1>1, Zenon DEF Kept, Has
    <3> QED
      BY <3>2, <3>3
  <2>2. ASSUME NEW x, x = h \/ Has(list, x) PROVE \E k \in A : t[k].height = x
    <3>1. PICK i \in A : s[i].height = x
      <4>1. CASE x = h
        BY <4>1, <1>1, <1>6
      <4>2. CASE Has(list, x)
        <5>1. PICK i \in 1..Len(list) : list[i].height = x
          BY <4>2, <1>1 DEF Has
        <5>2. i \in A /\ s[i].height = x
          BY <5>1, <1>1, <1>3
        <5> QED
          BY <5>2
      <4> QED
        BY <2>2, <4>1, <4>2
    <3>2. PICK k \in A : o[k] = i
      BY <1>4
    <3> QED
      BY <3>1, <3>2, <1>8
  <2> QED
    BY <2>1, <2>2
<1>10. Len(t) = m /\ t \in Seq(Bucket)
  BY <1>1, <1>8, LenProperties, SeqDef
<1> DEFINE c == Min({Len(t), N})
           q == SubSeq(t, 1, c)
<1>11. c \in Nat /\ c <= m /\ c <= N /\ (m <= N => c = m) /\ (m > N => c = N /\ m = N + 1)
  <2>1. Len(t) = m /\ m \in Nat /\ N \in Nat
    BY <1>1, <1>10
  <2>2. Min({m, N}) \in {m, N} /\ \A y \in {m, N} : Min({m, N}) =< y
    <3>1. \E x \in {m, N} : \A y \in {m, N} : x =< y
      BY <2>1
    <3> QED
      BY <3>1 DEF Min
  <2>3. c = Min({m, N})
    BY <2>1
  <2>4. (c = m \/ c = N) /\ c <= m /\ c <= N
    BY <2>2, <2>3
  <2> HIDE DEF c
  <2>5. c \in Nat /\ (m <= N => c = m) /\ (m > N => c = N)
    BY <2>1, <2>4
  <2>6. m > N => m = N + 1
    BY <1>1
  <2> QED
    BY <2>4, <2>5, <2>6
<1> HIDE DEF c
<1>12. /\ q \in Seq(Bucket) /\ Len(q) = c /\ DOMAIN q = 1..c
       /\ \A i \in 1..c : i \in A /\ q[i] = t[i]
  <2>1. \A i \in 1..c : i \in A /\ t[i] \in Bucket
    <3>1. m \in Nat /\ c \in Nat /\ c <= m
      BY <1>1, <1>11
    <3> HIDE DEF m
    <3>2. \A i \in 1..c : i \in A
      BY <3>1
    <3> QED
      BY <3>2, <1>8
  <2>2. q = [i \in 1..c |-> t[i]]
    <3>1. q = [i \in 1..(c - 1 + 1) |-> t[i + 1 - 1]]
      BY <1>10, <1>11
    <3>2. c - 1 + 1 = c /\ \A i \in 1..c : i + 1 - 1 = i
      BY <1>11
    <3> QED
      BY <3>1, <3>2
  <2> HIDE DEF q
  <2>3. q \in [1..c -> Bucket] /\ DOMAIN q = 1..c /\ \A i \in 1..c : q[i] = t[i]
    BY <2>1, <2>2
  <2> QED
    BY <2>1, <2>3, <1>11, LenProperties, SeqDef
<1> HIDE DEF q
<1>13. IsFiniteSet(K2) /\ K2 \subseteq Nat
  BY <1>1, FS_AddElement
<1>14. \A i, j \in DOMAIN q : i < j => q[i].height > q[j].height
  BY <1>8, <1>12
<1>15. \A i \in DOMAIN q : q[i].height \in K2
  BY <1>9, <1>12
<1>16. (Len(q) = N \/ \A x \in K2 : Has(q, x)) /\ \A i \in DOMAIN q, x \in K2 : x > q[i].height => Has(q, x)
  <2>1. CASE m <= N
    <3>1. c = m /\ Len(list) # N
      <4>1. Len(list) \in Nat /\ N \in Nat /\ Len(list) + 1 <= N
        BY <2>1, <1>1
      <4>2. Len(list) # N
        BY <4>1
      <4> QED
        BY <4>2, <2>1, <1>11
    <3>2. \A x \in K2 : x = h \/ Has(list, x)
      BY <3>1 DEF Kept
    <3>3. \A x \in K2 : Has(q, x)
      BY <3>1, <3>2, <1>9, <1>12 DEF Has
    <3> QED
      BY <3>3
  <2>2. CASE m > N
    <3>1. c = N /\ m = N + 1 /\ Len(list) = N
      <4>1. Len(list) \in Nat /\ N \in Nat /\ c = N /\ Len(list) + 1 = N + 1
        BY <2>2, <1>1, <1>11
      <4>2. Len(list) = N
        BY <4>1
      <4> QED
        BY <4>1, <4>2
    <3>2. ASSUME NEW i \in DOMAIN q, NEW x \in K2, x > q[i].height PROVE Has(q, x)
      <4>1. i \in 1..c /\ i \in A /\ q[i] = t[i] /\ t[i].height \in Nat /\ x \in Nat
        BY <3>2, <1>8, <1>12, <1>13
      <4>2. ASSUME NEW k \in A, t[k].height = x PROVE Has(q, x)
        <5>1. k < i
          <6>1. ~(i < k) /\ i # k
            <7>1. i < k => t[i].height > t[k].height
              BY <4>1, <1>8
            <7> QED
              BY <7>1, <4>1, <4>2, <3>2
          <6> QED
            BY <6>1, <4>1, <1>1
        <5>2. k \in 1..c
          BY <5>1, <4>1, <1>11
        <5> QED
          BY <5>2, <4>2, <1>12 DEF Has
      <4>3. CASE x = h \/ Has(list, x)
        BY <4>2, <4>3, <1>9
      <4>4. CASE ~(x = h \/ Has(list, x))
        <5>1. x \in K
          BY <4>4
        <5>2. \A j \in 1..Len(list) : list[j].height > x
          <6> SUFFICES ASSUME NEW j \in 1..Len(list) PROVE list[j].height > x
            OBVIOUS
          <6>1. ~(x > list[j].height) /\ list[j].height # x
            BY <4>4, <5>1, <1>1, Zenon DEF Kept, Has
          <6>2. list[j].height \in Nat /\ x \in Nat
            BY <4>1, <1>1, Zenon
          <6> QED
            BY <6>1, <6>2
        <5>3. \A y : Has(list, y) => y > x
          BY <5>2, <1>1 DEF Has
        <5>4. ~Has(list, t[i].height) /\ t[i].height = h
          <6>1. ~(t[i].height > x)
            BY <4>1, <3>2
          <6> QED
            BY <6>1, <5>3, <4>1, <1>9
        <5>5. m \in A /\ i < m
          BY <4>1, <3>1, <1>1
        <5>6. t[i].height > t[m].height /\ t[m].height \in Nat
          BY <5>5, <4>1, <1>8
        <5>7. Has(list, t[m].height)
          BY <5>4, <5>5, <5>6, <1>1, <1>9
        <5>8. t[m].height > x
          BY <5>3, <5>7
        <5> QED
          BY <5>6, <5>8, <4>1, <3>2
      <4> QED
        BY <4>3, <4>4
    <3> QED
      BY <3>1, <3>2, <1>12
  <2> QED
    BY <2>1, <2>2, <1>1
<1>17. Kept(q, K2)
  <2> HIDE DEF K2
  <2> QED
    BY <1>11, <1>12, <1>13, <1>14, <1>15, <1>16 DEF Kept
<1>18. ASSUME NEW i \in DOMAIN q
       PROVE  (\E j \in DOMAIN list : q[i] = list[j]) \/ (q[i] = b /\ h \notin K)
  <2>1. i \in 1..c /\ i \in A /\ q[i] = t[i] /\ t[i] = s[o[i]] /\ o[i] \in A
    BY <1>8, <1>12, <1>4
  <2>2. CASE o[i] # m
    BY <2>1, <2>2, <1>1, <1>3, <1>6
  <2>3. CASE o[i] = m
    <3>1. q[i] = b /\ t[i].height = h
      BY <2>1, <2>3, <1>3, <1>5
    <3>2. ASSUME h \in K PROVE FALSE
      <4>1. \A j \in 1..Len(list) : list[j].height > h
        <5> SUFFICES ASSUME NEW j \in 1..Len(list) PROVE list[j].height > h
          OBVIOUS
        <5>1. ~(h > list[j].height) /\ list[j].height # h
          BY <3>2, <1>1, Zenon DEF Kept, Has
        <5> QED
          BY <5>1, <1>1
      <4>2. Len(list) = N
        BY <3>2 DEF Kept
      <4>3. c = N /\ m = N + 1 /\ m \in A /\ i < m
        BY <4>2, <2>1, <1>1, <1>11
      <4>4. t[i].height > t[m].height /\ t[m].height \in Nat
        BY <4>3, <2>1, <1>8
      <4>5. Has(list, t[m].height)
        BY <4>3, <4>4, <3>1, <1>1, <1>9
      <4>6. t[m].height > h
        BY <4>1, <4>5, <1>1 DEF Has
      <4> QED
        BY <4>4, <4>6, <3>1, <1>1
    <3> QED
      BY <3>1, <3>2
  <2> QED
    BY <2>2, <2>3
<1> QED
  BY <1>17, <1>18 DEF q, c, t, b

(* One more of a client's statistics.                                      *)
LEMMA OneMoreClient ==
  ASSUME NEW C \in SUBSET (Nat \X Nat), NEW h \in Nat, NEW id \in Nat,
         NEW C2, C2 = C \cup {<<h, id>>}
  PROVE  /\ Heights(C2) = Heights(C) \cup {h} /\ C2 \subseteq Nat \X Nat
         /\ Clients(C2, h) = Clients(C, h) \cup {id}
         /\ \A x : x # h => Clients(C2, x) = Clients(C, x)
         /\ h \notin Heights(C) => Clients(C, h) = {}
<1>1. PICK p : p = <<h, id>>
  OBVIOUS
<1>2. p[1] = h /\ p[2] = id /\ C2 = C \cup {p} /\ C2 \subseteq Nat \X Nat
  BY <1>1
<1>3. Heights(C2) = Heights(C) \cup {h}
  BY <1>2 DEF Heights
<1>4. Clients(C2, h) = Clients(C, h) \cup {id}
  BY <1>2 DEF Clients
<1>5. \A x : x # h => Clients(C2, x) = Clients(C, x)
  BY <1>2 DEF Clients
<1>6. h \notin Heights(C) => Clients(C, h) = {}
  BY DEF Clients, Heights
<1> QED
  BY <1>2, <1>3, <1>4, <1>5, <1>6

(* Statistics of a height are put with those of the height, or begin it.   *)
LEMMA InsertKeeps ==
  ASSUME NEW list, NEW C, Collected(list, C), NEW g, g.height \in Nat, g.id \in Nat
  PROVE  Collected(InsertStats(list, g), C \cup {<<g.height, g.id>>})
<1> DEFINE C2 == C \cup {<<g.height, g.id>>}
           K == Heights(C)
<1>0. /\ Kept(list, K) /\ C \subseteq Nat \X Nat
      /\ \A j \in DOMAIN list : list[j].groups = Clients(C, list[j].height)
      /\ Heights(C2) = K \cup {g.height} /\ C2 \subseteq Nat \X Nat
      /\ Clients(C2, g.height) = Clients(C, g.height) \cup {g.id}
      /\ \A x : x # g.height => Clients(C2, x) = Clients(C, x)
      /\ g.height \notin K => Clients(C, g.height) = {}
  <2>1. PICK h \in Nat, id \in Nat : h = g.height /\ id = g.id
    OBVIOUS
  <2> HIDE DEF K
  <2>2. C2 = C \cup {<<h, id>>} /\ C \subseteq Nat \X Nat
    BY <2>1 DEF Collected
  <2>3. /\ Kept(list, K) /\ \A j \in DOMAIN list : list[j].groups = Clients(C, list[j].height)
    BY DEF Collected, K
  <2> HIDE DEF C2
  <2>4. /\ Heights(C2) = Heights(C) \cup {h} /\ C2 \subseteq Nat \X Nat
        /\ Clients(C2, h) = Clients(C, h) \cup {id}
        /\ \A x : x # h => Clients(C2, x) = Clients(C, x)
        /\ h \notin Heights(C) => Clients(C, h) = {}
    <3>1. C \in SUBSET (Nat \X Nat)
      BY <2>2
    <3> QED
      BY <3>1, <2>2, OneMoreClient
  <2> QED
    BY <2>1, <2>2, <2>3, <2>4 DEF K
<1> HIDE DEF K, C2
<1>1. CASE fetch(list, g.height) = {}
  <2>1. ~Has(list, g.height)
    BY <1>1 DEF fetch, Has
  <2>2. InsertStats(list, g)
          = SubSeq(NewBucket(list, g), 1, Min({Len(NewBucket(list, g)), MaxGlobalStatsBuckets}))
    BY <1>1 DEF InsertStats
  <2>3. PICK q : q = InsertStats(list, g)
    OBVIOUS
  <2>4. /\ Kept(q, K \cup {g.height})
        /\ \A i \in DOMAIN q : \/ \E j \in DOMAIN list : q[i] = list[j]
                             \/ /\ q[i] = [height |-> g.height, groups |-> {g.id}]
                                /\ g.height \notin K
    <3>1. Kept(list, K)
      BY <1>0
    <3>2. q = SubSeq(NewBucket(list, g), 1, Min({Len(NewBucket(list, g)), MaxGlobalStatsBuckets}))
      BY <2>2, <2>3
    <3>3. \A cut :
             cut = SubSeq(NewBucket(list, g), 1, Min({Len(NewBucket(list, g)), MaxGlobalStatsBuckets}))
               => /\ Kept(cut, K \cup {g.height})
                  /\ \A i \in DOMAIN cut : \/ \E j \in DOMAIN list : cut[i] = list[j]
                                         \/ /\ cut[i] = [height |-> g.height, groups |-> {g.id}]
                                            /\ g.height \notin K
      BY <3>1, <2>1, NewHeight
    <3> QED
      BY <3>2, <3>3
  <2>5. ASSUME NEW i \in DOMAIN q PROVE q[i].groups = Clients(C2, q[i].height)
    <3>1. ASSUME NEW j \in DOMAIN list, q[i] = list[j] PROVE q[i].groups = Clients(C2, q[i].height)
      <4>1. list[j].height # g.height
        BY <2>1 DEF Has
      <4> QED
        BY <3>1, <4>1, <1>0
    <3>2. CASE q[i] = [height |-> g.height, groups |-> {g.id}] /\ g.height \notin K
      <4>1. q[i].height = g.height /\ q[i].groups = {g.id} /\ Clients(C2, g.height) = {g.id}
        BY <3>2, <1>0
      <4> QED
        BY <4>1
    <3> QED
      BY <3>1, <3>2, <2>4
  <2> QED
    BY <2>3, <2>4, <2>5, <1>0 DEF Collected, C2
<1>2. CASE fetch(list, g.height) # {}
  <2> DEFINE F == fetch(list, g.height)
             i == Min(F)
             q == InsertStats(list, g)
  <2>1. list \in Seq(Bucket) /\ DOMAIN list = 1..Len(list) /\ Len(list) \in Nat
    BY <1>0 DEF Kept
  <2>2. F \subseteq DOMAIN list /\ \A j \in F : list[j].height = g.height
    BY DEF fetch
  <2>3. i \in F
    <3>1. F \subseteq Nat /\ F # {}
      BY <2>1, <2>2, <1>2
    <3> HIDE DEF F
    <3>2. \E x \in F : \A y \in F : x =< y
      BY <3>1, LeastNat
    <3> QED
      BY <3>2 DEF Min
  <2>4. q = [list EXCEPT ![i].groups = @ \cup {g.id}]
    BY <1>2 DEF InsertStats
  <2>5. i \in DOMAIN list /\ list[i].height = g.height /\ list[i] \in Bucket
    BY <2>1, <2>2, <2>3
  <2> HIDE DEF i, F, q
  <2>6. /\ DOMAIN q = DOMAIN list
        /\ q[i] = [height |-> list[i].height, groups |-> list[i].groups \cup {g.id}]
        /\ \A j \in DOMAIN list \ {i} : q[j] = list[j]
    BY <2>4, <2>5 DEF Bucket
  <2>7. q[i] \in Bucket /\ q[i].height = list[i].height
    BY <2>5, <2>6 DEF Bucket
  <2>8. \A j \in DOMAIN list : q[j] \in Bucket /\ q[j].height = list[j].height
    BY <2>1, <2>6, <2>7
  <2>9. q \in Seq(Bucket) /\ Len(q) = Len(list)
    <3>1. q \in [1..Len(list) -> Bucket]
      <4>1. q = [j \in DOMAIN q |-> q[j]]
        BY <2>4
      <4> QED
        BY <4>1, <2>1, <2>6, <2>8
    <3> QED
      BY <3>1, <2>1, LenProperties, SeqDef
  <2>10. K \cup {g.height} = K
    BY <2>5, <1>0 DEF Kept
  <2>11. \A x : Has(list, x) <=> Has(q, x)
    BY <2>6, <2>8 DEF Has
  <2>12. Kept(q, K)
    BY <2>6, <2>8, <2>9, <2>11, <1>0 DEF Kept
  <2>13. ASSUME NEW j \in DOMAIN q PROVE q[j].groups = Clients(C2, q[j].height)
    <3>1. CASE j = i
      BY <3>1, <2>5, <2>6, <1>0
    <3>2. CASE j # i
      <4>1. list[j].height # g.height
        <5>1. /\ j < i => list[j].height > list[i].height
              /\ i < j => list[i].height > list[j].height
          BY <2>5, <2>6, <1>0 DEF Kept
        <5>2. j < i \/ i < j
          BY <3>2, <2>1, <2>5, <2>6
        <5>3. list[j].height \in Nat /\ list[i].height \in Nat
          <6>1. list[j] \in Bucket /\ list[i] \in Bucket
            BY <2>1, <2>5, <2>6
          <6> QED
            BY <6>1 DEF Bucket
        <5> QED
          BY <5>1, <5>2, <5>3, <2>5
      <4> QED
        BY <3>2, <4>1, <2>6, <1>0
    <3> QED
      BY <3>1, <3>2
  <2> QED
    BY <2>10, <2>12, <2>13, <1>0 DEF q, Collected, C2
<1> QED
  BY <1>1, <1>2

(* A client without the secret, where the server asks for it: it is not    *)
(* accepted, no minute and no OPR is on its way to it, and the answers it  *)
(* gives are wrong.                                                        *)
QuietClient == {m \in ClientMessage : m.cmd \notin {"FactomEvent", "ConstructedOPR"}}
QuietServer == {m \in ServerMessage : m.cmd = "SecretChallenge" => m.response = "wrong"}
Quiet ==
  /\ ~link.accepted /\ link.toClient \in Seq(QuietClient) /\ link.toServer \in Seq(QuietServer)
  /\ hist.events = {} /\ hist.oprs = {} /\ factom = {}
  /\ \A c \in hist.counted : c[2] = Other

StatsInv ==
  /\ {"events", "oprs", "mined", "missed", "graded", "counted"} = DOMAIN hist
  /\ Collected(buckets, hist.counted)
  /\ useAuth \in BOOLEAN
  /\ useAuth /\ secret = "wrong" => Quiet

(* A step that only forwards, or only reads.                               *)
LEMMA StatsKept ==
  ASSUME StatsInv, UNCHANGED <<useAuth, secret, factom, buckets>>,
         DOMAIN hist' = DOMAIN hist, hist'.counted = hist.counted,
         useAuth /\ secret = "wrong" /\ Quiet =>
           /\ hist'.events = {} /\ hist'.oprs = {} /\ ~link'.accepted
           /\ link'.toClient \in Seq(QuietClient) /\ link'.toServer \in Seq(QuietServer)
  PROVE  StatsInv'
BY DEF StatsInv, Quiet

(* The clock, the grader, the server's events and the coordinator: nothing *)
(* is sent to a client that is not accepted.                               *)
LEMMA StatsForwarded ==
  ASSUME StatsInv,
         \/ NextMinute \/ Graded \/ ForwardEvent \/ ForwardUnfunded \/ ForwardOPR \/ DropWinners
         \/ TakeEvent \/ TakeOPR \/ CoordinatorCancelled
  PROVE  StatsInv'
<1>1. /\ UNCHANGED <<useAuth, secret, factom, buckets>>
      /\ \/ hist' = hist
         \/ \E v : hist' = [hist EXCEPT !.missed = v]
         \/ \E v : hist' = [hist EXCEPT !.graded = v]
         \/ \E v : hist' = [hist EXCEPT !.mined = v]
      /\ link' = link \/ \E m : link' = SendToClients(m)
  <2>1. CASE NextMinute \/ Graded \/ DropWinners
    BY <2>1 DEF NextMinute, Graded, DropWinners
  <2>2. CASE ForwardEvent \/ ForwardUnfunded \/ ForwardOPR
    BY <2>2 DEF ForwardEvent, ForwardUnfunded, ForwardOPR
  <2>3. CASE TakeEvent \/ TakeOPR \/ CoordinatorCancelled
    <3>1. CASE TakeOPR
      <4>1. \/ hist' = hist
            \/ hist' = [hist EXCEPT !.mined = hist.mined \cup {coord.dbht}]
        BY <3>1 DEF TakeOPR
      <4> QED
        BY <3>1, <4>1 DEF TakeOPR
    <3>2. CASE TakeEvent \/ CoordinatorCancelled
      BY <3>2 DEF TakeEvent, CoordinatorCancelled
    <3> QED
      BY <2>3, <3>1, <3>2
  <2> QED
    BY <2>1, <2>2, <2>3
<1>2. /\ DOMAIN hist' = DOMAIN hist /\ hist'.counted = hist.counted
      /\ hist'.events = hist.events /\ hist'.oprs = hist.oprs
  BY <1>1 DEF StatsInv
<1>3. Quiet => link' = link
  BY <1>1 DEF Quiet, SendToClients
<1> QED
  BY <1>1, <1>2, <1>3, StatsKept DEF Quiet

(* The quiet messages.                                                     *)
LEMMA QuietMessages ==
  /\ [cmd |-> "Ping"] \in QuietClient /\ [cmd |-> "RejectedConnection"] \in QuietClient
  /\ \A i \in Nat : [cmd |-> "SecretChallenge", challenge |-> i] \in QuietClient
  /\ [cmd |-> "AddTag"] \in QuietServer /\ [cmd |-> "Pong"] \in QuietServer
  /\ \A i \in Nat : [cmd |-> "SecretChallenge", challenge |-> i, response |-> "wrong"] \in QuietServer
  /\ \A o \in MaybeOPR("client") : [cmd |-> "FactomEntry", opr |-> o] \in QuietServer
  /\ \A h \in Nat : [cmd |-> "MiningStatistics", height |-> h] \in QuietServer
BY MessagesSent DEF QuietClient, QuietServer

(* What the lists of messages are when one is taken or sent.               *)
LEMMA QuietTaken ==
  ASSUME Quiet
  PROVE  /\ link.toClient # <<>> => /\ Tail(link.toClient) \in Seq(QuietClient)
                                    /\ Message.cmd \notin {"FactomEvent", "ConstructedOPR"}
         /\ link.toServer # <<>> => /\ Tail(link.toServer) \in Seq(QuietServer)
                                    /\ Received.cmd = "SecretChallenge" => Received.response = "wrong"
         /\ \A m \in QuietClient : Append(link.toClient, m) \in Seq(QuietClient)
         /\ \A m \in QuietServer : Append(link.toServer, m) \in Seq(QuietServer)
<1>1. link.toClient \in Seq(QuietClient) /\ link.toServer \in Seq(QuietServer)
  BY DEF Quiet
<1>2. /\ \A m \in QuietClient : Append(link.toClient, m) \in Seq(QuietClient)
      /\ \A m \in QuietServer : Append(link.toServer, m) \in Seq(QuietServer)
  BY <1>1, AppendProperties
<1>3. link.toClient # <<>> => Tail(link.toClient) \in Seq(QuietClient) /\ Head(link.toClient) \in QuietClient
  BY <1>1
<1>4. link.toServer # <<>> => Tail(link.toServer) \in Seq(QuietServer) /\ Head(link.toServer) \in QuietServer
  BY <1>1
<1> QED
  BY <1>2, <1>3, <1>4 DEF Message, Received, QuietClient, QuietServer

(* The connection is greeted, answered, lost and made again.               *)
LEMMA StatsConnection ==
  ASSUME NetworkInv, StatsInv, OnNewClient \/ OnIgnored \/ OnSecretChallenge \/ Break
                               \/ ListenUnanswered \/ Reconnect
  PROVE  StatsInv'
<1>1. /\ UNCHANGED <<useAuth, secret, factom, buckets>>
      /\ hist' = hist \/ \E v : hist' = [hist EXCEPT !.missed = v]
  BY DEF OnNewClient, OnIgnored, OnSecretChallenge, Break, ListenUnanswered, Reconnect
<1>2. /\ DOMAIN hist' = DOMAIN hist /\ hist'.counted = hist.counted
      /\ hist'.events = hist.events /\ hist'.oprs = hist.oprs
  BY <1>1 DEF StatsInv
<1>3. link \in Link /\ link.id \in Nat
  BY LinkFields DEF NetworkInv, TravelInv
<1>4. ASSUME useAuth, secret = "wrong", Quiet
      PROVE  ~link'.accepted /\ link'.toClient \in Seq(QuietClient) /\ link'.toServer \in Seq(QuietServer)
  <2>1. ~link.accepted /\ link.toClient \in Seq(QuietClient) /\ link.toServer \in Seq(QuietServer)
    BY <1>4 DEF Quiet
  <2>2. CASE OnNewClient
    <3>1. PICK m \in QuietClient : m = [cmd |-> "SecretChallenge", challenge |-> link.id]
      BY <1>3, QuietMessages
    <3>2. link' = [link EXCEPT !.greeted = TRUE, !.accepted = FALSE, !.toClient = Append(link.toClient, m)]
      BY <2>2, <1>4, <3>1 DEF OnNewClient, Greet
    <3>3. ~link'.accepted /\ link'.toClient = Append(link.toClient, m) /\ link'.toServer = link.toServer
      BY <3>2, <1>3 DEF Link
    <3> QED
      BY <3>3, <2>1, <1>4, QuietTaken
  <2>3. CASE OnIgnored
    <3>1. link.toServer # <<>> /\ link' = [link EXCEPT !.toServer = Tail(link.toServer)]
      BY <2>3 DEF OnIgnored, Serving, Taken
    <3>2. link'.accepted = link.accepted /\ link'.toClient = link.toClient /\ link'.toServer = Tail(link.toServer)
      BY <3>1, <1>3 DEF Link
    <3> QED
      BY <3>1, <3>2, <2>1, <1>4, QuietTaken
  <2>4. CASE OnSecretChallenge
    <3>1. link.toServer # <<>> /\ Received.response # "right"
      BY <2>4, <1>4, QuietTaken DEF OnSecretChallenge, Serving
    <3>2. link' = [Taken EXCEPT !.open = FALSE, !.toServer = <<>>,
                                !.toClient = Append(@, [cmd |-> "RejectedConnection"])]
      BY <2>4, <3>1 DEF OnSecretChallenge
    <3>3. link'.accepted = link.accepted /\ link'.toServer = <<>>
          /\ link'.toClient = Append(link.toClient, [cmd |-> "RejectedConnection"])
      BY <3>2, <1>3 DEF Link, Taken
    <3> QED
      BY <3>3, <2>1, <1>4, QuietTaken, QuietMessages
  <2>5. CASE Break \/ ListenUnanswered
    <3>1. ~link'.accepted /\ link'.toServer = <<>> /\ link'.toClient = <<>>
      BY <2>5, <1>3 DEF Break, ListenUnanswered, Broken, Link
    <3> QED
      BY <3>1
  <2>6. CASE Reconnect
    <3>1. ~link'.accepted /\ link'.toServer = <<[cmd |-> "AddTag"]>> /\ link'.toClient = <<>>
      BY <2>6 DEF Reconnect, NewConnection
    <3> QED
      BY <3>1, QuietMessages
  <2> QED
    BY <2>2, <2>3, <2>4, <2>5, <2>6
<1> QED
  BY <1>1, <1>2, <1>4, StatsKept DEF Quiet

(* The client reads a message, or sends one.                               *)
LEMMA StatsListen ==
  ASSUME NetworkInv, StatsInv,
         \/ ListenFactomEvent \/ ListenConstructedOPR \/ ListenAnswer \/ ListenRejected
         \/ ForwardEntry \/ ForwardStats
  PROVE  StatsInv'
<1>1. UNCHANGED <<useAuth, secret, factom, buckets>>
  BY DEF ListenFactomEvent, ListenConstructedOPR, ListenAnswer, ListenRejected, ForwardEntry, ForwardStats
<1>2. DOMAIN hist' = DOMAIN hist /\ hist'.counted = hist.counted
  BY DEF StatsInv, ListenFactomEvent, ListenConstructedOPR, ListenAnswer, ListenRejected,
     ForwardEntry, ForwardStats
<1>3. link \in Link
  BY DEF NetworkInv, TravelInv
<1>4. ASSUME useAuth, secret = "wrong", Quiet
      PROVE  /\ hist' = hist /\ ~link'.accepted
             /\ link'.toClient \in Seq(QuietClient) /\ link'.toServer \in Seq(QuietServer)
  <2>1. ~link.accepted /\ link.toClient \in Seq(QuietClient) /\ link.toServer \in Seq(QuietServer)
    BY <1>4 DEF Quiet
  <2>2. ~ListenFactomEvent /\ ~ListenConstructedOPR
    BY <1>4, QuietTaken DEF ListenFactomEvent, ListenConstructedOPR, Listening
  <2>3. CASE ListenRejected
    <3>1. link.toClient # <<>> /\ hist' = hist /\ link' = Read
      BY <2>3 DEF ListenRejected, Listening
    <3>2. link'.accepted = link.accepted /\ link'.toServer = link.toServer /\ link'.toClient = Tail(link.toClient)
      BY <3>1, <1>3 DEF Link, Read
    <3> QED
      BY <3>1, <3>2, <2>1, <1>4, QuietTaken
  <2>4. CASE ListenAnswer
    <3>1. link.toClient # <<>> /\ hist' = hist
      BY <2>4 DEF ListenAnswer, Listening
    <3>2. Message \in ClientMessage
      BY <3>1, <1>3, LinkTake
    <3>3. Read.accepted = link.accepted /\ Read.toServer = link.toServer /\ Read.toClient = Tail(link.toClient)
          /\ {"accepted", "toServer", "toClient"} \subseteq DOMAIN Read
      BY <1>3 DEF Link, Read
    <3>4. link' = Read \/ \E m \in QuietServer : link' = [Read EXCEPT !.toServer = Append(link.toServer, m)]
      <4>1. CASE link' = Read
        BY <4>1
      <4>2. CASE link' # Read /\ Message.cmd = "Ping"
        <5>1. link' = [Read EXCEPT !.toServer = Append(Read.toServer, [cmd |-> "Pong"])]
          BY <2>4, <4>2 DEF ListenAnswer
        <5> QED
          BY <5>1, <3>3, QuietMessages
      <4>3. CASE link' # Read /\ Message.cmd # "Ping"
        <5>1. Message.cmd = "SecretChallenge" /\ Message.challenge \in Nat
          BY <2>4, <4>3, <3>2, ClientMessages DEF ListenAnswer
        <5>2. link' = [Read EXCEPT !.toServer = Append(Read.toServer,
                         [cmd |-> "SecretChallenge", challenge |-> Message.challenge, response |-> "wrong"])]
          BY <2>4, <4>3, <1>4 DEF ListenAnswer
        <5> QED
          BY <5>1, <5>2, <3>3, QuietMessages
      <4> QED
        BY <4>1, <4>2, <4>3
    <3> HIDE DEF Read
    <3>5. CASE link' = Read
      BY <3>1, <3>3, <3>5, <2>1, <1>4, QuietTaken
    <3>6. ASSUME NEW m \in QuietServer, link' = [Read EXCEPT !.toServer = Append(link.toServer, m)]
          PROVE  ~link'.accepted /\ link'.toClient \in Seq(QuietClient) /\ link'.toServer \in Seq(QuietServer)
      <4>1. link'.accepted = link.accepted /\ link'.toServer = Append(link.toServer, m)
            /\ link'.toClient = Tail(link.toClient)
        BY <3>3, <3>6
      <4> QED
        BY <4>1, <3>1, <2>1, <1>4, QuietTaken
    <3> QED
      BY <3>1, <3>4, <3>5, <3>6
  <2>5. CASE ForwardEntry \/ ForwardStats
    <3>1. hist' = hist
      BY <2>5 DEF ForwardEntry, ForwardStats
    <3>2. link' = link \/ \E m \in QuietServer : link' = [link EXCEPT !.toServer = Append(link.toServer, m)]
      <4>1. CASE ForwardEntry
        <5>1. Head(out.entries) \in MaybeOPR("client")
          BY <4>1, CoordinatorFields DEF ForwardEntry, NetworkInv
        <5> QED
          BY <4>1, <5>1, QuietMessages DEF ForwardEntry, ToServer
      <4>2. CASE ForwardStats
        <5>1. Head(out.stats) \in Nat
          BY <4>2, CoordinatorFields DEF ForwardStats, NetworkInv
        <5> QED
          BY <4>2, <5>1, QuietMessages DEF ForwardStats, ToServer
      <4> QED
        BY <2>5, <4>1, <4>2
    <3>3. CASE link' = link
      BY <3>1, <3>3, <2>1
    <3>4. ASSUME NEW m \in QuietServer, link' = [link EXCEPT !.toServer = Append(link.toServer, m)]
          PROVE  ~link'.accepted /\ link'.toClient \in Seq(QuietClient) /\ link'.toServer \in Seq(QuietServer)
      <4>1. link'.accepted = link.accepted /\ link'.toServer = Append(link.toServer, m)
            /\ link'.toClient = link.toClient
        BY <3>4, <1>3 DEF Link
      <4> QED
        BY <4>1, <2>1, <1>4, QuietTaken
    <3> QED
      BY <3>1, <3>2, <3>3, <3>4
  <2> QED
    BY <2>2, <2>3, <2>4, <2>5
<1> QED
  BY <1>1, <1>2, <1>4, StatsKept DEF Quiet

(* What is counted is collected, under the name of the client.             *)
LEMMA CountedOnce ==
  ASSUME StatsInv, NEW h \in Nat, NEW id \in Nat,
         buckets' = InsertStats(buckets, [height |-> h, id |-> id]),
         hist' = [hist EXCEPT !.counted = @ \cup {<<h, id>>}]
  PROVE  Collected(buckets, hist.counted)' /\ DOMAIN hist' = DOMAIN hist
<1>1. DOMAIN hist' = DOMAIN hist /\ hist'.counted = hist.counted \cup {<<h, id>>}
  BY DEF StatsInv
<1>2. PICK g : g = [height |-> h, id |-> id]
  OBVIOUS
<1>3. g.height = h /\ g.id = id
  BY <1>2
<1>4. Collected(InsertStats(buckets, g), hist.counted \cup {<<g.height, g.id>>})
  BY <1>3, InsertKeeps DEF StatsInv
<1> QED
  BY <1>1, <1>2, <1>3, <1>4

(* What an accepted client sends is written or counted.                    *)
LEMMA StatsReceived ==
  ASSUME NetworkInv, StatsInv, OnFactomEntry \/ OnMiningStatistics
  PROVE  StatsInv'
<1>1. link.accepted /\ link.toServer # <<>> /\ UNCHANGED <<useAuth, secret>>
  BY DEF OnFactomEntry, OnMiningStatistics, Serving
<1>2. ~(useAuth /\ secret = "wrong")
  BY <1>1 DEF StatsInv, Quiet
<1>3. CASE OnFactomEntry
  <2>1. UNCHANGED <<buckets, hist>>
    BY <1>3 DEF OnFactomEntry
  <2> QED
    BY <2>1, <1>1, <1>2 DEF StatsInv
<1>4. CASE OnMiningStatistics
  <2>1. PICK h, id : h = Received.height /\ id = link.id
    OBVIOUS
  <2>2. h \in Nat /\ id \in Nat
    <3>1. link.toServer \in Seq(ServerMessage) /\ link.id \in Nat
      BY LinkFields DEF NetworkInv, TravelInv
    <3>2. Received \in ServerMessage
      BY <3>1, <1>1 DEF Received
    <3> QED
      BY <1>4, <2>1, <3>1, <3>2 DEF OnMiningStatistics, ServerMessage
  <2>3. /\ buckets' = InsertStats(buckets, [height |-> h, id |-> id])
        /\ hist' = [hist EXCEPT !.counted = @ \cup {<<h, id>>}]
    BY <1>4, <2>1 DEF OnMiningStatistics
  <2>4. Collected(buckets, hist.counted)' /\ DOMAIN hist' = DOMAIN hist
    BY <2>2, <2>3, CountedOnce
  <2> QED
    BY <2>4, <1>1, <1>2 DEF StatsInv
<1> QED
  BY <1>3, <1>4

(* Another client's are counted under its own name.                        *)
LEMMA StatsOther ==
  ASSUME NetworkInv, StatsInv, OtherStatistics
  PROVE  StatsInv'
<1>1. PICK h \in 1..now.dbht :
        /\ buckets' = InsertStats(buckets, [height |-> h, id |-> 0])
        /\ hist' = [hist EXCEPT !.counted = @ \cup {<<h, 0>>}]
  BY DEF OtherStatistics, Other
<1>2. h \in Nat /\ 0 \in Nat
  BY ServerFields DEF NetworkInv
<1>3. /\ Collected(buckets, hist.counted)' /\ DOMAIN hist' = DOMAIN hist
      /\ hist'.counted = hist.counted \cup {<<h, 0>>}
      /\ hist'.events = hist.events /\ hist'.oprs = hist.oprs
  BY <1>1, <1>2, CountedOnce DEF StatsInv
<1>4. UNCHANGED <<useAuth, secret, link, factom>>
  BY DEF OtherStatistics
<1>5. Quiet => Quiet'
  BY <1>3, <1>4 DEF Quiet, Other
<1> QED
  BY <1>3, <1>4, <1>5 DEF StatsInv

(* The statistics kept are those of the newest heights sent, newest first, *)
(* of every client that sent some of the height, in whatever order they    *)
(* came, and a client without the secret gets nothing and leaves nothing   *)
(* (GlobalStatTracker.insert, onNewClient, onNewMessage).                  *)
THEOREM StatsCorrect == Spec => []StatsKeepTheNewest
<1>1. Init => StatsInv
  <2> SUFFICES ASSUME Init PROVE StatsInv
    OBVIOUS
  <2>1. /\ buckets = <<>> /\ factom = {} /\ useAuth \in BOOLEAN
        /\ hist = [events |-> {}, oprs |-> {}, mined |-> {}, missed |-> FALSE, graded |-> {}, counted |-> {}]
        /\ ~link.accepted /\ link.toClient = <<>> /\ link.toServer = <<[cmd |-> "AddTag"]>>
    BY DEF Init, NewConnection
  <2>2. Collected(buckets, hist.counted)
    <3>1. IsFiniteSet({}) /\ Heights({}) = {} /\ hist.counted = {}
      BY <2>1, FS_EmptySet DEF Heights
    <3>2. Kept(<<>>, {})
      BY <3>1, NetworkAssumption DEF Kept
    <3> QED
      BY <2>1, <3>1, <3>2 DEF Collected
  <2>3. Quiet
    BY <2>1, QuietMessages DEF Quiet
  <2> QED
    BY <2>1, <2>2, <2>3 DEF StatsInv
<1>2. ASSUME NetworkInv, StatsInv, [Next]_vars PROVE StatsInv'
  <2>1. CASE UNCHANGED vars
    BY <1>2, <2>1 DEF vars, StatsInv, Quiet
  <2> QED
    BY <1>2, <2>1, StatsForwarded, StatsConnection, StatsListen, StatsReceived, StatsOther
       DEF Next, Client, Server
<1>3. StatsInv => StatsKeepTheNewest
  <2> SUFFICES ASSUME StatsInv PROVE StatsKeepTheNewest
    OBVIOUS
  <2>1. Collected(buckets, hist.counted) /\ (useAuth /\ secret = "wrong" => Quiet)
    BY DEF StatsInv
  <2>2. Kept(buckets, Heights(hist.counted))
    BY <2>1 DEF Collected
  <2>3. {buckets[i].height : i \in DOMAIN buckets}
          = {h \in Heights(hist.counted) :
               Cardinality({k \in Heights(hist.counted) : k > h}) < MaxGlobalStatsBuckets}
    BY <2>2, KeptIsNewest
  <2>4. \A i, j \in DOMAIN buckets : i < j => buckets[i].height > buckets[j].height
    BY <2>2 DEF Kept
  <2>5. \A i \in DOMAIN buckets :
           buckets[i].groups = {c[2] : c \in {d \in hist.counted : d[1] = buckets[i].height}}
    BY <2>1 DEF Collected, Clients
  <2> QED
    BY <2>1, <2>3, <2>4, <2>5 DEF StatsKeepTheNewest, Quiet, Heights
<1> QED
  BY <1>1, <1>2, <1>3, NetworkInvariant, PTL DEF Spec
=============================================================================
