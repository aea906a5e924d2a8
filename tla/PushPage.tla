------------------------------ MODULE PushPage ------------------------------
(***************************************************************************)
(* The web page of ws-one: Sock, StompPush and MqttPush with the text      *)
(* areas of App, on the two client libraries, with the web socket server   *)
(* that publishes a notification before it answers a request, and a broker *)
(* that passes notifications on.  The STOMP client is also driven by an    *)
(* application of another kind, which calls all of its methods.            *)
(***************************************************************************)
EXTENDS StompClient

CONSTANTS Configurations,   \* who uses the STOMP client, on which server, and
                            \* how often another application subscribes
          Topics,           \* destinations
          PageTopic,        \* the one the page subscribes to
          MaxPublished,     \* bound: notifications per topic
          MaxRequests,      \* bound: requests of the page
          MaxDelay,         \* bound: time a frame takes
          MaxFaults         \* bound: connections lost or refused

ASSUME PageAssumption ==
    /\ PageTopic \in Topics
    /\ \A n \in {MaxPublished, MaxRequests, MaxDelay, MaxFaults} :
           n \in Nat
    /\ Configurations \subseteq
           [user : {"page", "other"}, version : {"1.0"} \cup BeatingVersions,
            beat : {<<>>} \cup (Nat \X Nat), punctual : BOOLEAN,
            subscriptions : Nat]

(* A server is called punctual when the network leaves it a chance: what   *)
(* it sends at the end of an interval arrives before the client, which     *)
(* waits for two of its own, has lost patience.                            *)
ASSUME DelayAssumption ==
    \A c \in Configurations :
        c.punctual /\ c.beat # <<>> /\ Incoming # 0
            => c.beat[1] + MaxDelay <= 2 * Max2(Incoming, c.beat[1])

(* Different numbers have different numerals: identifiers that end in one  *)
(* differ.                                                                 *)
ASSUME NumeralAssumption ==
    \A c \in Configurations :
        \A m, n \in 0 .. c.subscriptions : ToString(m) = ToString(n) => m = n

Notifications == 1 .. MaxPublished

Mqtt == INSTANCE MqttClientImpl
            WITH Messages <- Notifications, QoS <- [n \in Notifications |-> 0],
                 Unencodable <- {}, Oversized <- {},
                 MaxMessageIdentifier <- 65536, IdSpace <- 65536,
                 KeepAlive <- TRUE, RequestTimeout <- FALSE, MaxAttempts <- 1

VARIABLES config,     \* see Configurations; never changes
          sock,       \* the web socket of Sock, with both directions
          stomp,      \* see StompClient
          wire,       \* its socket, and what the broker knows of it;
                      \* errorFrames: ERROR frames that came out of it
          mqtt,       \* see MqttClientImpl
          link,       \* its socket, and what the broker knows of it
          areas,      \* text areas, newest line first; debug: lines of a kind
          published,  \* notifications per topic so far
          heard,      \* what the STOMP client's application did and heard
          faults

page == <<sock, mqtt, link, areas>>
vars == <<config, sock, stomp, wire, mqtt, link, areas, published, heard, faults>>

IsPage == config.user = "page"

Reaction == [onSuccess |-> "subscribe", onConnectionLost |-> "return",
             onFailure |-> "return", onMessageArrived |-> "return",
             onMessageDelivered |-> "absent"]

NewMqtt == Mqtt!connect(Mqtt!ClientImpl([sent |-> Mqtt!EmptyMap,
                                         received |-> Mqtt!EmptyMap], 0, Reaction),
                        TRUE, 0)

DebugLines == {"WS closed", "WS error", "STOMP connected", "MQTT connected",
               "MQTT lost", "MQTT failure"}

(* new App(): all three connections are being made.                        *)
Init ==
    /\ config \in Configurations
    /\ sock = [state |-> "connecting", asked |-> 0, toServer |-> <<>>,
               toPage |-> <<>>]
    /\ stomp = Client
    /\ wire = [state |-> "connecting", toServer |-> <<>>, toClient |-> <<>>,
               age |-> 0, accepted |-> FALSE, sinceServer |-> 0, unsent |-> 0,
               errorFrames |-> 0,
               subs |-> [id \in {} |-> <<>>], since |-> [id \in {} |-> 0]]
    /\ mqtt = [NewMqtt EXCEPT !.out = <<>>]
    /\ link = [state |-> "connecting", toBroker |-> <<>>, toClient |-> <<>>,
               subscribed |-> FALSE, since |-> 0]
    /\ areas = [responseText |-> <<>>, stompNotification |-> <<>>,
                mqttNotification |-> <<>>,
                debug |-> [line \in DebugLines |-> 0]]
    /\ published = [t \in Topics |-> 0]
    /\ heard = [errors |-> 0, left |-> FALSE, subscriptions |-> 0,
                bodies |-> [t \in Topics |-> <<>>]]
    /\ faults = 0

Fault == faults < MaxFaults /\ faults' = faults + 1

(* Mutant: the line is added at the end.                                   *)
appendTextAreaBelow(area, line) == Append(area, line)

(* A line comes on top.                                                    *)
appendTextArea(area, line) == <<line>> \o area

-----------------------------------------------------------------------------
(* Sock                                                                    *)
Log(a, line) == [a EXCEPT !.debug[line] = @ + 1]

(* Unless the socket is open, the user is told to wait.                    *)
Submit == /\ IsPage
          /\ sock.asked < MaxRequests
          /\ sock.state = "open"
          /\ sock' = [sock EXCEPT !.asked = @ + 1,
                                  !.toServer = Append(@, sock.asked + 1)]
          /\ UNCHANGED <<config, stomp, wire, mqtt, link, areas, published,
                         heard, faults>>

SockOpens == /\ IsPage
             /\ sock.state = "connecting"
             /\ sock' = [sock EXCEPT !.state = "open"]
             /\ UNCHANGED <<config, stomp, wire, mqtt, link, areas, published,
                            heard, faults>>

SockReceives == /\ sock.state = "open"
                /\ sock.toPage # <<>>
                /\ sock' = [sock EXCEPT !.toPage = Tail(@)]
                /\ areas' = [areas EXCEPT !.responseText =
                                appendTextArea(@, Head(sock.toPage))]
                /\ UNCHANGED <<config, stomp, wire, mqtt, link, published, heard,
                               faults>>

(* A connection that fails is an error first; every one that ends closes.  *)
SockFails == /\ IsPage
             /\ sock.state \in {"connecting", "open"}
             /\ Fault
             /\ sock' = [sock EXCEPT !.state = "closed", !.toServer = <<>>,
                                     !.toPage = <<>>]
             /\ areas' = Log(IF sock.state = "open" THEN areas
                             ELSE Log(areas, "WS error"), "WS closed")
             /\ UNCHANGED <<config, stomp, wire, mqtt, link, published, heard>>

-----------------------------------------------------------------------------
(* The STOMP client and its application                                    *)
(* A heart-beat needs no answer.  A socket that is not open discards.      *)
Emit(w, step) ==
    IF w.state \notin {"connecting", "open"} THEN w
    ELSE CASE step.command = "close" ->
                  [w EXCEPT !.state = "closing", !.toServer = <<>>, !.toClient = <<>>]
           [] step.command = "beat" -> [w EXCEPT !.unsent = 0]
           [] OTHER -> [w EXCEPT !.toServer = Append(@, step), !.unsent = 0]

(* StompPush subscribes when it is connected, and shows what it is told;   *)
(* it gives no callback for errors.                                        *)
OnConnected(c) ==
    IF IsPage /\ \E i \in DOMAIN c.calls : c.calls[i][1] = "connected"
    THEN subscribe(c, PageTopic, <<>>) ELSE c

BodiesFor(c, topic) ==
    FoldLeft(LAMBDA told, call :
                 IF call[1] = "message" /\ call[2] = topic
                 THEN Append(told, call[3]) ELSE told,
             <<>>, c.calls)

Count(c, callback) == Cardinality({i \in DOMAIN c.calls :
                                      c.calls[i][1] = callback})

(* The client after one of its calls or events, on socket w.               *)
StompTurn(after, w) ==
    \E c \in {OnConnected(after)} :
        /\ stomp' = [c EXCEPT !.out = <<>>, !.calls = <<>>, !.threw = FALSE]
        /\ wire' = FoldLeft(Emit, w, c.out)
        /\ heard' = [heard EXCEPT !.errors = IF IsPage THEN @
                                             ELSE @ + Count(c, "error"),
                                  !.bodies = [t \in Topics |->
                                                 @[t] \o BodiesFor(c, t)]]
        /\ areas' = IF ~ IsPage THEN areas
                    ELSE [areas EXCEPT
                             !.stompNotification =
                                 FoldLeft(appendTextArea, @, BodiesFor(c, PageTopic)),
                             !.debug["STOMP connected"] =
                                 @ + Count(c, "connected")]

NotStomp == <<config, sock, mqtt, link, published>>

StompOpens == /\ wire.state = "connecting"
              /\ StompTurn(onopen(stomp), [wire EXCEPT !.state = "open"])
              /\ UNCHANGED <<NotStomp, faults>>

Errors(data) == Cardinality({i \in DOMAIN data : data[i].command = "ERROR"})

StompReceives ==
    /\ wire.state = "open"
    /\ wire.toClient # <<>>
    /\ StompTurn(onmessage(stomp, Head(wire.toClient)),
                 [wire EXCEPT !.toClient = Tail(@), !.age = 0,
                              !.errorFrames = @ + Errors(Head(wire.toClient))])
    /\ UNCHANGED <<NotStomp, faults>>

StompBreaks == /\ wire.state \in {"connecting", "open"}
               /\ Fault
               /\ wire' = Emit(wire, Close)
               /\ UNCHANGED <<NotStomp, stomp, areas, heard>>

StompCloses == /\ wire.state = "closing"
               /\ StompTurn(onsocketclose(stomp), [wire EXCEPT !.state = "closed"])
               /\ UNCHANGED <<NotStomp, faults>>

StompTimer == /\ \/ stomp.pinger = 0 /\ StompTurn(PingerFires(stomp), wire)
                 \/ stomp.ponger = 0 /\ StompTurn(PongerFires(stomp), wire)
              /\ UNCHANGED <<NotStomp, faults>>

(* Another application may name its subscriptions itself, each differently.*)
OwnId == <<"own", ToString(heard.subscriptions)>>

OtherSubscribes ==
    /\ ~ IsPage /\ stomp.connected
    /\ heard.subscriptions < config.subscriptions
    /\ \E t \in Topics \ Range(stomp.subscriptions),
          headers \in {<<>>, <<<<"id", OwnId>>>>} :
           \E c \in {subscribe(stomp, t, headers)} :
               /\ stomp' = [c EXCEPT !.out = <<>>]
               /\ wire' = FoldLeft(Emit, wire, c.out)
    /\ heard' = [heard EXCEPT !.subscriptions = @ + 1]
    /\ UNCHANGED <<NotStomp, areas, faults>>

OtherUnsubscribes ==
    /\ ~ IsPage /\ stomp.connected
    /\ \E id \in DOMAIN stomp.subscriptions :
           StompTurn(unsubscribe(stomp, id), wire)
    /\ UNCHANGED <<NotStomp, faults>>

(* disconnect() does not ask whether there is a connection; this           *)
(* application does.                                                       *)
OtherDisconnects ==
    /\ ~ IsPage /\ stomp.connected /\ ~ heard.left
    /\ Fault
    /\ \E c \in {disconnect(stomp)} :
           /\ stomp' = [c EXCEPT !.out = <<>>]
           /\ wire' = FoldLeft(Emit, wire, c.out)
           /\ heard' = [heard EXCEPT !.left = wire.state # "closed"]
    /\ UNCHANGED <<NotStomp, areas>>

-----------------------------------------------------------------------------
(* The broker's side of STOMP.  It accepts the client or answers with an   *)
(* error; it takes what the client sends, and may send heart-beats.        *)
Data(command, subscription, body) ==
    [command |-> command, version |-> config.version, beat |-> config.beat,
     subscription |-> subscription, body |-> body]

ToClient(w, datas) == IF datas = <<>> THEN w
                      ELSE [w EXCEPT !.toClient = @ \o datas, !.sinceServer = 0]

Served(w, frame) ==
    LET id == Header(frame.headers, "id")
    IN  CASE frame.command = "CONNECT" ->
                 ToClient([w EXCEPT !.accepted = TRUE],
                          <<<<Data("CONNECTED", <<>>, <<>>)>>>>)
          [] frame.command = "SUBSCRIBE" ->
                 LET topic == Header(frame.headers, "destination")
                 IN  [w EXCEPT !.subs = [i \in DOMAIN @ \cup {id} |->
                                            IF i = id THEN topic ELSE @[i]],
                               !.since = [i \in DOMAIN @ \cup {id} |->
                                            IF i = id THEN published[topic]
                                                      ELSE @[i]]]
          [] frame.command = "UNSUBSCRIBE" ->
                 [w EXCEPT !.subs = [i \in DOMAIN @ \ {id} |-> @[i]]]

StompServes ==
    /\ wire.state = "open"
    /\ wire.toServer # <<>>
    /\ wire' = Served([wire EXCEPT !.toServer = Tail(@)], Head(wire.toServer))
    /\ UNCHANGED <<NotStomp, stomp, areas, heard, faults>>

StompRefuses ==
    /\ wire.state = "open"
    /\ wire.toServer # <<>> /\ Head(wire.toServer).command = "CONNECT"
    /\ Fault
    /\ wire' = ToClient([wire EXCEPT !.toServer = Tail(@)],
                        <<<<Data("ERROR", <<>>, <<>>)>>>>)
    /\ UNCHANGED <<NotStomp, stomp, areas, heard>>

ServerBeating == /\ config.version \in BeatingVersions
                 /\ config.beat # <<>> /\ config.beat[1] # 0

ServerBeats ==
    /\ wire.state = "open" /\ wire.accepted /\ ServerBeating
    /\ wire.toClient = <<>>
    /\ wire' = ToClient(wire, <<<<>>>>)
    /\ UNCHANGED <<NotStomp, stomp, areas, heard, faults>>

(* Time passes when no timer is due.  A punctual server keeps the interval *)
(* that it announced, and its network the delay.                           *)
Oldest == 3 * Max({Outgoing, Incoming}
                     \cup UNION {Range(c.beat) : c \in Configurations}) + 1

Punctual == config.punctual /\ wire.accepted /\ wire.state = "open"
                            /\ ServerBeating

Tick ==
    /\ stomp.pinger # 0 /\ stomp.ponger # 0
    /\ stomp.pinger # Off \/ stomp.ponger # Off
    /\ Punctual => wire.sinceServer < config.beat[1]
    /\ wire.toClient # <<>> => wire.age < MaxDelay
    /\ stomp' = Elapse(stomp, Oldest)
    /\ wire' = [wire EXCEPT
                   !.age = IF wire.toClient # <<>> THEN @ + 1 ELSE @,
                   !.sinceServer = IF Punctual THEN @ + 1 ELSE 0,
                   !.unsent = IF stomp.connected /\ @ < Oldest THEN @ + 1 ELSE @]
    /\ UNCHANGED <<NotStomp, areas, heard, faults>>

-----------------------------------------------------------------------------
(* MqttPush, its client and the broker                                     *)
LinkStep(l, step) ==
    IF step.type = "close"
    THEN [l EXCEPT !.state = "closed", !.toBroker = <<>>, !.toClient = <<>>,
                   !.subscribed = FALSE]
    ELSE [l EXCEPT !.toBroker = Append(@, step)]

(* A message is shown above the others; the rest goes to the log, where    *)
(* a lost connection without an error code is an "Unknown Error".          *)
Show(a, call) ==
    CASE call[1] = "onMessageArrived" ->
             [a EXCEPT !.mqttNotification = appendTextArea(@, call[2])]
      [] call[1] = "onSuccess" -> Log(a, "MQTT connected")
      [] call[1] = "onConnectionLost" -> Log(a, "MQTT lost")
      [] call[1] = "onFailure" -> Log(a, "MQTT failure")
      [] OTHER -> a

NotMqtt == <<config, sock, stomp, wire, published, heard>>

MqttTurn(after, l) ==
    \E c \in {after} :
        /\ mqtt' = [c EXCEPT !.out = <<>>, !.calls = <<>>, !.threw = FALSE,
                             !.wireMessage = Mqtt!Ack(Mqtt!None, 0)]
        /\ link' = FoldLeft(LinkStep, l, c.out)
        /\ areas' = FoldLeft(Show, areas, c.calls)
        /\ UNCHANGED NotMqtt

MqttOpens == /\ IsPage
             /\ mqtt.socket = "connecting"
             /\ MqttTurn(Mqtt!on_socket_open(mqtt), [link EXCEPT !.state = "open"])
             /\ UNCHANGED faults

MqttReceives == /\ mqtt.socket = "open" /\ link.toClient # <<>>
                /\ MqttTurn(Mqtt!on_socket_message(mqtt, Head(link.toClient)),
                            [link EXCEPT !.toClient = Tail(@)])
                /\ UNCHANGED faults

MqttBreaks ==
    /\ IsPage
    /\ Fault
    /\ \E broken \in {LinkStep(link, Mqtt!Ack("close", 0))} :
           \/ /\ mqtt.socket = "connecting"
              /\ MqttTurn(Mqtt!on_socket_error(mqtt), broken)
           \/ /\ mqtt.socket = "open"
              /\ MqttTurn(Mqtt!on_socket_close(mqtt), broken)

MqttTimer ==
    /\ IsPage
    /\ Fault
    /\ \/ mqtt.connectTimer /\ MqttTurn(Mqtt!ConnectTimeout(mqtt), link)
       \/ \E which \in {"sendPinger", "receivePinger"} :
              mqtt[which].armed /\ MqttTurn(Mqtt!doPing(mqtt, which), link)

BrokerAnswers(l, packet) == [l EXCEPT !.toBroker = Tail(@),
                                      !.toClient = Append(@, packet)]

MqttServes ==
    /\ link.state = "open" /\ link.toBroker # <<>>
    /\ LET packet == Head(link.toBroker)
       IN  \/ /\ packet.type = "CONNECT"
              /\ \/ /\ link' = BrokerAnswers(link, Mqtt!WireMessage("CONNACK", 0, 0))
                    /\ UNCHANGED faults
                 \/ /\ Fault
                    /\ link' = BrokerAnswers(link, Mqtt!WireMessage("CONNACK", 0, 3))
           \/ /\ packet.type = "SUBSCRIBE"
              /\ link' = [BrokerAnswers(link, Mqtt!Ack("SUBACK", packet.id))
                             EXCEPT !.subscribed = TRUE,
                                    !.since = published[PageTopic]]
              /\ UNCHANGED faults
           \/ /\ packet.type = "PINGREQ"
              /\ link' = BrokerAnswers(link, Mqtt!Ack("PINGRESP", 0))
              /\ UNCHANGED faults
    /\ UNCHANGED <<NotMqtt, mqtt, areas>>

-----------------------------------------------------------------------------
(* The web socket server notifies whoever subscribed, over both protocols, *)
(* before it answers.                                                      *)
Publish(topic) ==
    LET n == published[topic] + 1
        ids == SetToSeq({id \in DOMAIN wire.subs : wire.subs[id] = topic})
    IN  /\ n \in Notifications
        /\ published' = [published EXCEPT ![topic] = n]
        /\ wire' = ToClient(wire, [i \in DOMAIN ids |->
                                      <<Data("MESSAGE", ids[i], n)>>])
        /\ link' = IF link.subscribed /\ topic = PageTopic
                   THEN [link EXCEPT !.toClient =
                            Append(@, Mqtt!WireMessage("PUBLISH", 0, n))]
                   ELSE link
        /\ UNCHANGED <<config, stomp, mqtt, areas, heard, faults>>

ServerHandles ==
    /\ sock.toServer # <<>>
    /\ Publish(PageTopic)
    /\ sock' = [sock EXCEPT !.toServer = Tail(@),
                            !.toPage = Append(@, Head(sock.toServer))]

(* for another client of the server; what nobody can subscribe to is left  *)
(* out                                                                     *)
ServerHandlesOther == /\ \E t \in IF IsPage THEN {PageTopic} ELSE Topics :
                             Publish(t)
                      /\ IsPage \/ config.subscriptions > 0
                      /\ UNCHANGED sock

Page == Submit \/ SockOpens \/ SockReceives \/ SockFails

StompSide == \/ StompOpens \/ StompReceives \/ StompBreaks \/ StompCloses
             \/ StompTimer \/ StompServes \/ StompRefuses \/ ServerBeats \/ Tick

OtherUser == OtherSubscribes \/ OtherUnsubscribes \/ OtherDisconnects

MqttSide == MqttOpens \/ MqttReceives \/ MqttBreaks \/ MqttTimer \/ MqttServes

Next == Page \/ StompSide \/ OtherUser \/ MqttSide
             \/ ServerHandles \/ ServerHandlesOther

Spec == Init /\ [][Next]_vars

-----------------------------------------------------------------------------
(* A server that sends in time what it announced is not taken for dead by  *)
(* the client: no step cleans up a connection over which it does.          *)
LiveServerKept ==
    [][config.punctual /\ wire.state = "open" /\ wire'.state = "closing"
           => faults' # faults]_vars

(* The heart-beats are those agreed on.  Of a server that has become       *)
(* silent the client notices within three periods of the longer of the two *)
(* intervals, also when the browser does not tell it that the socket is    *)
(* gone; and it leaves its server no longer without a sign of life than    *)
(* the longer of what it offered and what the server asked for.            *)
SilenceNoticed ==
    stomp.connected /\ ServerBeating /\ Incoming # 0
        => stomp.activity <= 3 * Max2(Incoming, config.beat[1])

PingsOnTime ==
    /\ stomp.connected /\ wire.state = "open"
    /\ config.version \in BeatingVersions /\ config.beat # <<>>
    /\ Outgoing # 0 /\ config.beat[2] # 0
    => wire.unsent <= Max2(Outgoing, config.beat[2])

HeartbeatsKept == SilenceNoticed /\ PingsOnTime

(* The callback of a subscription is told of every notification of its     *)
(* topic since the broker took the subscription, once, in order, and of no *)
(* other topic's, whatever the application subscribes to and unsubscribes  *)
(* from meanwhile.                                                         *)
EachMessageOnce ==
    \A t \in Topics :
        LET told == heard.bodies[t]
            ids == {id \in DOMAIN wire.subs \cap DOMAIN stomp.subscriptions :
                       stomp.subscriptions[id] = t}
            coming(id) == {wire.toClient[i][1].body : i \in
                              {j \in DOMAIN wire.toClient :
                                  /\ wire.toClient[j] # <<>>
                                  /\ wire.toClient[j][1].command = "MESSAGE"
                                  /\ wire.toClient[j][1].subscription = id}}
        IN  /\ \A i, j \in DOMAIN told : i < j => told[i] < told[j]
            /\ wire.state = "open" =>
                   \A id \in ids :
                       wire.since[id] + 1 .. published[t]
                           \subseteq Range(told) \cup coming(id)

(* An application that gives an error callback is called once for every    *)
(* ERROR frame that came out of the socket, and once more when the         *)
(* connection has ended, however it ended, unless the application had      *)
(* disconnected before: no sooner, and no more often.                      *)
LossReportedOnce ==
    ~ IsPage => heard.errors = wire.errorFrames
                    + IF wire.state = "closed" /\ ~ heard.left THEN 1 ELSE 0

(* Each text area of the page shows what arrived over its connection with  *)
(* nothing left out, nothing twice and the newest on top.                  *)
Run(lines, since) == \A i \in DOMAIN lines : lines[i] = since + Len(lines) + 1 - i

PanelsInOrder ==
    IsPage =>
        /\ Run(areas.responseText, 0)
        /\ Run(areas.mqttNotification, link.since)
        /\ \A id \in DOMAIN wire.since :
               Run(areas.stompNotification, wire.since[id])

(* When the web socket or the MQTT connection is gone the page has said so *)
(* once, and it says so only then.                                         *)
LossShown ==
    IsPage =>
        /\ areas.debug["WS closed"] = IF sock.state = "closed" THEN 1 ELSE 0
        /\ areas.debug["MQTT lost"] + areas.debug["MQTT failure"]
               = IF mqtt.socket = "none" THEN 1 ELSE 0
        /\ areas.debug["MQTT lost"] <= areas.debug["MQTT connected"]
=============================================================================
