---------------------------- MODULE MqttDelivery ----------------------------
(***************************************************************************)
(* The MQTT client of the page with its application, its network and a     *)
(* broker.  The network loses connections with whatever they carry, the    *)
(* page may be reloaded at any time, and the broker keeps a session for    *)
(* the client and may refuse it.  The broker's protocol is that of MQTT    *)
(* 3.1; it is no part of the repository.                                   *)
(***************************************************************************)
EXTENDS MqttClientImpl

CONSTANTS Outbound,        \* the messages the application sends, in order
          ReactionChoices, \* the callbacks an application may have
          CleanChoices,    \* values of cleanSession it uses
          HostChoices,     \* numbers of hosts it lists
          MaxRequests,     \* bound: subscriptions made and ended
          MaxFaults        \* bound: lost connections, refusals, timeouts,
                           \* reloads and disconnects together

Inbound == Messages \ Range(Outbound)

ASSUME SystemAssumption == /\ Outbound \in Seq(Messages)
                           /\ ReactionChoices \subseteq Reactions
                           /\ CleanChoices \subseteq BOOLEAN
                           /\ HostChoices \subseteq Nat
                           /\ MaxRequests \in Nat
                           /\ MaxFaults \in Nat

VARIABLES client,      \* see MqttClientImpl
          net,         \* the client's current socket, and what old ones carry
          session,     \* what the broker remembers of the client: messages
                       \* of quality 2 held, messages of its own in flight
          faults,
          requested, handed, settled,   \* see ReliableDelivery
          results      \* per connect(): how often each callback was called

history == <<requested, handed, settled, results>>
vars == <<client, net, session, faults, history>>

NoSession == [held |-> {}, inflight |-> EmptyMap]

(* early: disconnect() was called before the connection was acknowledged;  *)
(* reloaded: the page was left before the connection had ended.            *)
NoResult == [onSuccess |-> 0, onFailure |-> 0, onConnectionLost |-> 0,
             early |-> 0, reloaded |-> 0]

Init == /\ \E reaction \in ReactionChoices :
               client = ClientImpl([sent |-> EmptyMap, received |-> EmptyMap],
                                   0, reaction)
        /\ net = [state |-> "down", toBroker |-> <<>>, toClient |-> <<>>,
                  residual |-> <<>>, closed |-> FALSE, accepted |-> FALSE]
        /\ session = NoSession
        /\ faults = 0
        /\ requested = {}
        /\ handed = [m \in Messages |-> 0]
        /\ settled = [m \in Messages |-> 0]
        /\ results = [a \in 1 .. MaxAttempts |-> NoResult]

Fault == faults < MaxFaults /\ faults' = faults + 1

-----------------------------------------------------------------------------
(* What the client does to its sockets.  What a closed socket still        *)
(* carries may reach the broker.                                           *)
Hangup(n) == [n EXCEPT !.state = "down", !.closed = FALSE, !.accepted = FALSE,
                       !.residual = @ \o n.toBroker,
                       !.toBroker = <<>>, !.toClient = <<>>]

SocketStep(n, step) ==
    CASE step.type = "dial" -> [Hangup(n) EXCEPT !.state = "dialing"]
      [] step.type = "close" -> Hangup(n)
      [] OTHER -> [n EXCEPT !.toBroker = Append(@, step)]

(* How often a callback was called with this argument.                     *)
Count(calls, callback, arg) ==
    Cardinality({i \in DOMAIN calls : calls[i] = <<callback, arg>>})

(* A run of the client to the end of its turn, on network n.  Messages of  *)
(* quality 0 are reported without being known to have arrived.             *)
Turn(after, n) ==
    \E c \in {after} :
        /\ client' = [c EXCEPT !.out = <<>>, !.calls = <<>>, !.threw = FALSE,
                               !.wireMessage = Ack(None, 0)]
        /\ net' = FoldLeft(SocketStep, n, c.out)
        /\ UNCHANGED session
        /\ IF c.calls = <<>>
           THEN UNCHANGED <<handed, settled, results>>
           ELSE /\ results' = [a \in 1 .. MaxAttempts |->
                                  [cb \in DOMAIN NoResult |->
                                      results[a][cb] + Count(c.calls, cb, a)]]
                /\ handed' = [m \in Messages |->
                                 handed[m]
                                     + Count(c.calls, "onMessageArrived", m)]
                /\ settled' = [m \in Messages |->
                                  IF QoS[m] = 0 THEN settled[m] ELSE settled[m]
                                      + Count(c.calls, "onMessageDelivered", m)]

-----------------------------------------------------------------------------
(* The application                                                         *)
MayConnect == client.socket = "none" /\ client.attempt < MaxAttempts

AppConnect == /\ MayConnect
              /\ \E clean \in CleanChoices, hosts \in HostChoices :
                     Turn(connect(client, clean, hosts), net)
              /\ UNCHANGED <<faults, requested>>

AppSend == /\ client.connected
           /\ \E i \in DOMAIN Outbound :
                  /\ Outbound[i] \notin requested
                  /\ \A j \in 1 .. i - 1 : Outbound[j] \in requested
                  /\ Turn(send(client, Outbound[i]), net)
                  /\ requested' = requested \cup {Outbound[i]}
           /\ UNCHANGED faults

AppRequest == /\ client.connected
              /\ client.requests < MaxRequests
              /\ \E type \in {"SUBSCRIBE", "UNSUBSCRIBE"} :
                     Turn(Request(client, type), net)
              /\ UNCHANGED <<faults, requested>>

AppDisconnect ==
    /\ client.socket # "none"
    /\ ~ client.notify
    /\ Fault
    /\ LET early == Call(client, "early", client.attempt)
       IN  Turn(disconnect(IF client.connected THEN client ELSE early), net)
    /\ UNCHANGED requested

(* The page is left and loaded again; the browser closes the sockets.      *)
Reload == /\ Fault
          /\ client' = ClientImpl(client.stored, client.attempt, client.reaction)
          /\ net' = Hangup(net)
          /\ results' = IF client.socket = "none" THEN results
                        ELSE [results EXCEPT ![client.attempt].reloaded = @ + 1]
          /\ UNCHANGED <<session, requested, handed, settled>>

Application == AppConnect \/ AppSend \/ AppRequest \/ AppDisconnect \/ Reload

-----------------------------------------------------------------------------
(* The network and the timers                                              *)
Dialing == net.state = "dialing" /\ client.socket = "connecting"

Open == /\ Dialing
        /\ Turn(on_socket_open(client), [net EXCEPT !.state = "up"])
        /\ UNCHANGED <<faults, requested>>

DialFails == /\ Dialing
             /\ Fault
             /\ Turn(on_socket_error(client), [net EXCEPT !.state = "down"])
             /\ UNCHANGED requested

Arriving == client.socket = "open" /\ net.toClient # <<>>

Deliver == /\ Arriving
           /\ Turn(on_socket_message(client, Head(net.toClient)),
                   [net EXCEPT !.toClient = Tail(@)])
           /\ UNCHANGED <<faults, requested>>

Break == /\ client.socket = "open"
         /\ Fault
         /\ Turn(on_socket_close(client), Hangup(net))
         /\ UNCHANGED requested

(* The broker closed the connection, and the client learns of it.          *)
Closing == client.socket = "open" /\ net.closed /\ net.toClient = <<>>

Closed == /\ Closing
          /\ Turn(on_socket_close(client), Hangup(net))
          /\ UNCHANGED <<faults, requested>>

ConnectTimerFires == /\ client.connectTimer
                     /\ Fault
                     /\ Turn(ConnectTimeout(client), net)
                     /\ UNCHANGED requested

RequestTimerFires == /\ \E n \in client.requestTimers :
                            Turn(RequestTimesOut(client, n), net)
                     /\ UNCHANGED <<faults, requested>>

PingerFires == /\ \E which \in {"sendPinger", "receivePinger"} :
                      /\ client[which].armed
                      /\ Turn(doPing(client, which), net)
               /\ Fault
               /\ UNCHANGED requested

Environment == \/ Open \/ DialFails \/ Deliver \/ Break \/ Closed
               \/ ConnectTimerFires \/ RequestTimerFires \/ PingerFires

-----------------------------------------------------------------------------
(* The broker                                                              *)
Answer(n, live, packets) ==
    IF live THEN [n EXCEPT !.toClient = @ \o packets] ELSE n

InflightPacket(s, id) ==
    IF s.inflight[id].released THEN Ack("PUBREL", id)
                               ELSE WireMessage("PUBLISH", id, s.inflight[id].body)

Unacknowledged(s) ==
    LET ids == Ascending(DOMAIN s.inflight)
    IN  [i \in DOMAIN ids |-> InflightPacket(s, ids[i])]

Accept(n, live, clean) ==
    LET s == IF clean THEN NoSession ELSE session
    IN  /\ session' = s
        /\ net' = [Answer(n, live, <<WireMessage("CONNACK", 0, 0)>>
                                       \o Unacknowledged(s))
                      EXCEPT !.accepted = live]
        /\ UNCHANGED <<faults, handed, settled>>

Refuse(n, live) == /\ live
                   /\ Fault
                   /\ net' = [Answer(n, live, <<WireMessage("CONNACK", 0, 3)>>)
                                 EXCEPT !.closed = TRUE]
                   /\ UNCHANGED <<session, handed, settled>>

TakePublish(n, live, packet) ==
    LET held == packet.id \in session.held
        m == packet.body
    IN  /\ handed' = IF QoS[m] = 2 /\ held THEN handed
                                           ELSE [handed EXCEPT ![m] = @ + 1]
        /\ session' = IF QoS[m] = 2
                      THEN [session EXCEPT !.held = @ \cup {packet.id}]
                      ELSE session
        /\ net' = CASE QoS[m] = 0 -> n
                    [] QoS[m] = 1 -> Answer(n, live, <<Ack("PUBACK", packet.id)>>)
                    [] OTHER -> Answer(n, live, <<Ack("PUBREC", packet.id)>>)
        /\ UNCHANGED <<faults, settled>>

(* PUBACK of quality 1, PUBCOMP of quality 2                               *)
TakeConfirmation(n, packet) ==
    LET known == packet.id \in DOMAIN session.inflight
    IN  /\ session' = [session EXCEPT !.inflight = Delete(@, packet.id)]
        /\ settled' = IF known
                      THEN [settled EXCEPT ![session.inflight[packet.id].body]
                                               = @ + 1]
                      ELSE settled
        /\ net' = n
        /\ UNCHANGED <<faults, handed>>

TakePubRec(n, live, packet) ==
    /\ session' = IF packet.id \in DOMAIN session.inflight
                  THEN [session EXCEPT !.inflight[packet.id].released = TRUE]
                  ELSE session
    /\ net' = Answer(n, live, <<Ack("PUBREL", packet.id)>>)
    /\ UNCHANGED <<faults, handed, settled>>

TakeDisconnect(n, live) ==
    /\ net' = IF live THEN [n EXCEPT !.closed = TRUE] ELSE n
    /\ UNCHANGED <<session, faults, handed, settled>>

Reply(n, live, session1, packet) ==
    /\ session' = session1
    /\ net' = Answer(n, live, <<packet>>)
    /\ UNCHANGED <<faults, handed, settled>>

(* live: the packet came over the current connection.                      *)
Take(n, live, packet) ==
    CASE packet.type = "CONNECT" -> \/ Accept(n, live, packet.body)
                                    \/ Refuse(n, live)
      [] packet.type = "PUBLISH" -> TakePublish(n, live, packet)
      [] packet.type \in {"PUBACK", "PUBCOMP"} -> TakeConfirmation(n, packet)
      [] packet.type = "PUBREC" -> TakePubRec(n, live, packet)
      [] packet.type = "PUBREL" ->
             Reply(n, live, [session EXCEPT !.held = @ \ {packet.id}],
                   Ack("PUBCOMP", packet.id))
      [] packet.type = "SUBSCRIBE" ->
             Reply(n, live, session, Ack("SUBACK", packet.id))
      [] packet.type = "UNSUBSCRIBE" ->
             Reply(n, live, session, Ack("UNSUBACK", packet.id))
      [] packet.type = "PINGREQ" -> Reply(n, live, session, Ack("PINGRESP", 0))
      [] OTHER -> TakeDisconnect(n, live)

(* A new connection ends what old ones carry.                              *)
Unread == net.toBroker # <<>> /\ ~ net.closed

BrokerReads == /\ Unread
               /\ LET packet == Head(net.toBroker)
                      n == [net EXCEPT !.toBroker = Tail(@),
                                       !.residual = IF packet.type = "CONNECT"
                                                    THEN <<>> ELSE @]
                  IN  Take(n, TRUE, packet)
               /\ UNCHANGED <<client, requested, results>>

BrokerReadsOld == /\ net.residual # <<>>
                  /\ Take([net EXCEPT !.residual = Tail(@)], FALSE,
                          Head(net.residual))
                  /\ UNCHANGED <<client, requested, results>>

LoseOld == /\ net.residual # <<>>
           /\ net' = [net EXCEPT !.residual = <<>>]
           /\ UNCHANGED <<client, session, faults, history>>

(* To a client that is away it sends a message when the client is back.    *)
BrokerPublishes ==
    /\ \E m \in Inbound \ requested :
           LET used == DOMAIN session.inflight
               id == CHOOSE i \in 1 .. Cardinality(used) + 1 : i \notin used
               live == net.accepted /\ ~ net.closed
           IN  /\ live \/ QoS[m] > 0
               /\ session' = IF QoS[m] = 0 THEN session
                             ELSE [session EXCEPT !.inflight =
                                      Put(@, id, [body |-> m, released |-> FALSE])]
               /\ net' = Answer(net, live,
                                <<WireMessage("PUBLISH",
                                              IF QoS[m] = 0 THEN 0 ELSE id, m)>>)
               /\ requested' = requested \cup {m}
    /\ UNCHANGED <<client, faults, handed, settled, results>>

(* It sends what decodeMessage cannot read, or what no broker may send.    *)
BrokerErrs == /\ net.accepted /\ ~ net.closed
              /\ Fault
              /\ \E type \in {"malformed", "DISCONNECT"} :
                     net' = Answer(net, TRUE, <<Ack(type, 0)>>)
              /\ UNCHANGED <<client, session, history>>

Broker == \/ BrokerReads \/ BrokerReadsOld \/ LoseOld
          \/ BrokerPublishes \/ BrokerErrs

Next == Application \/ Environment \/ Broker

Spec == Init /\ [][Next]_vars

(* An application that connects again whenever it can, and a network and a *)
(* broker that do their work between the faults: weak fairness of each of  *)
(* these actions.  Written out, WF_vars(A) is []<>(~ ENABLED A) \/          *)
(* []<><<A>>_vars; the guards stand for ENABLED, which TLC would have to   *)
(* find out from a whole turn of the client.                               *)
FairSpec == /\ Spec
            /\ ([]<>(~ MayConnect) \/ []<><<AppConnect>>_vars)
            /\ ([]<>(~ Dialing) \/ []<><<Open>>_vars)
            /\ ([]<>(~ Arriving) \/ []<><<Deliver>>_vars)
            /\ ([]<>(~ Closing) \/ []<><<Closed>>_vars)
            /\ ([]<>(~ Unread) \/ []<><<BrokerReads>>_vars)

-----------------------------------------------------------------------------
(* Between two turns the browser's storage holds the messages that are in  *)
(* memory, with what is known of them, and no others, so a reload forgets  *)
(* none and brings none back.                                              *)
StorageMirrorsMemory ==
    LET publications == {id \in DOMAIN client.sent :
                             client.sent[id].type = "PUBLISH"}
    IN  /\ client.stored.sent = [id \in publications |-> client.sent[id]]
        /\ client.stored.received = client.received

(* Whatever connections, pages and acknowledgements are lost, in both      *)
(* directions a message of quality 2 is handed over at most once, and the  *)
(* sender counts a message as delivered once and only when it was.         *)
Delivery == INSTANCE ReliableDelivery

ImplementsDelivery == Delivery!Spec

(* A message of quality 1 or 2 that was sent is at last known to have been *)
(* delivered, if the application keeps connecting.                         *)
EveryMessageDelivered ==
    \A m \in Messages :
        QoS[m] > 0 => (m \in requested ~> settled[m] = 1)

(* Once connected, nothing that the client has to send is left waiting in  *)
(* its queue when a turn ends: neither what was scheduled before the       *)
(* connection was acknowledged, nor what a callback scheduled meanwhile.   *)
NothingWaitsWhileConnected ==
    client.connected => client.queue = <<>>

(* No timer outlives the connection that set it, so none can bring down a  *)
(* later connection, or one that has been acknowledged in time.            *)
NoStaleTimer ==
    /\ client.socket = "none" => /\ ~ client.connectTimer
                                 /\ ~ client.sendPinger.armed
                                 /\ ~ client.receivePinger.armed
    /\ client.connectTimer => ~ client.connected

(* An application with the three callbacks hears of each call of connect   *)
(* exactly once whether it succeeded, and of each success exactly once     *)
(* that the connection was lost: nothing while it is connecting, when the  *)
(* timer that ends it runs; the success as soon as it is connected; the    *)
(* failure or the loss as soon as the connection has ended.  Excepted are  *)
(* a page that was left meanwhile, and what follows a disconnect() while   *)
(* it was connecting.                                                      *)
Listening == \A callback \in {"onSuccess", "onFailure", "onConnectionLost"} :
                 client.reaction[callback] # "absent"

ConnectAnsweredOnce ==
    Listening =>
        \A a \in 1 .. MaxAttempts :
            /\ results[a].reloaded = 0
            /\ \A b \in 1 .. a : results[b].early = 0
            => LET heard == results[a]
                   ended == a < client.attempt \/ client.socket = "none"
                   up == a = client.attempt /\ client.connected
               IN  IF a <= client.attempt /\ ended
                   THEN /\ heard.onSuccess + heard.onFailure = 1
                        /\ heard.onConnectionLost = heard.onSuccess
                   ELSE /\ heard.onSuccess = IF up THEN 1 ELSE 0
                        /\ heard.onFailure = 0
                        /\ heard.onConnectionLost = 0
                        /\ a = client.attempt /\ ~ up => client.connectTimer

(* A connection that was not successful leaves alone what is stored.  The  *)
(* documentation of cleanSession says "the client and server persistent    *)
(* state is deleted on successful connect".                                *)
RefusalKeepsState ==
    [][client.socket = "open" /\ ~ client.connected /\ ~ client'.connected
           => client'.stored = client.stored]_vars
=============================================================================
