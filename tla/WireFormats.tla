---------------------------- MODULE WireFormats ----------------------------
(***************************************************************************)
(* An application builds a message and makes calls on a connected client   *)
(* of mqttws31.js; the broker sends packets; the page is reloaded, so that *)
(* a message that waits for its acknowledgement comes back from            *)
(* localStorage.  Another application makes calls of stomp.js.  What goes  *)
(* over the wire is compared with MQTT 3.1 and with STOMP 1.0 and 1.1,     *)
(* written down here from their specifications.  In three places the code *)
(* departs from them, and the properties name these as exceptions: the     *)
(* first byte of PUBREL, the escapes in STOMP 1.1 headers (EscapeNeeded)   *)
(* and the content-length of a body with characters of several bytes       *)
(* (WideSent).                                                             *)
(***************************************************************************)
EXTENDS MqttApi

CONSTANTS Texts,         \* strings that have a UTF-8 form, as code points
          ClientId,      \* one of them
          Payloads,      \* what messages are made of
          Assignments,   \* <<property, value>>: assigned to a message
          ClientCases,   \* arguments of new Client, whether they are legal
          Properties,    \* assigned to a client, and whether they may be
          ConnectCases,  \* options, whether they are legal, and what they
                         \* mean, if that can be encoded
          RequestCases,  \* the same for subscribe and unsubscribe
          Identifiers,   \* message identifiers
          Packets,       \* what the broker sends
          StompCalls,    \* frames of calls of stomp.js, and what they mean
          StompData,     \* sequences of frames that a STOMP broker sends
          Wide           \* the characters in them that take two bytes

Stomp == INSTANCE StompFrame

(* The UTF-16 units and the UTF-8 bytes of a text                          *)
Utf16(text) ==
    Concat([i \in DOMAIN text |->
               IF text[i] < 65536
               THEN <<text[i]>>
               ELSE <<55232 + (text[i] \div 1024), 56320 + (text[i] % 1024)>>])

Utf8(text) ==
    LET tail(c, k) == 128 + ((c \div (64 ^ k)) % 64)
    IN  Concat([i \in DOMAIN text |->
                   LET c == text[i]
                   IN  CASE c < 128 -> <<c>>
                         [] c \in 128 .. 2047 -> <<192 + (c \div 64), tail(c, 0)>>
                         [] c \in 2048 .. 65535 ->
                                <<224 + (c \div 4096), tail(c, 1), tail(c, 0)>>
                         [] OTHER -> <<240 + (c \div 262144), tail(c, 2),
                                       tail(c, 1), tail(c, 0)>>])

ASSUME CodecAssumption == /\ \A text \in Texts : \A i \in DOMAIN text :
                                 text[i] \in 0 .. 55295 \/ text[i] \in 57344 .. 1114111
                          /\ ClientId \in Texts
                          /\ Identifiers \subseteq Nat

VARIABLES message,   \* the message that the application works with
          last       \* the last call, and what came of it

vars == <<message, last>>

Nothing == [op |-> "none"]
Ready == last.op = "none"

(* The application goes on; a call does not depend on the one before.      *)
GoOn == /\ ~ Ready
        /\ last' = Nothing
        /\ UNCHANGED message

Init == /\ \E i \in DOMAIN Payloads : message = Message(Payloads[i])
        /\ last = Nothing

Assign == /\ Ready
          /\ \E i \in DOMAIN Assignments :
                 message' = set(message, Assignments[i][1], Assignments[i][2])
          /\ UNCHANGED last

Send == /\ Ready
        /\ \E id \in Identifiers :
               last' = [op |-> "send", id |-> id,
                        bytes |-> transmitted(send(message, id))]
        /\ UNCHANGED message

Construct == /\ Ready
             /\ \E i \in DOMAIN ClientCases :
                    LET c == ClientCases[i]
                    IN  last' = [op |-> "construct", case |-> i,
                                 accepted |-> Client(c.host, c.port, c.clientId)]
             /\ UNCHANGED message

Configure == /\ Ready
             /\ \E i \in DOMAIN Properties :
                    last' = [op |-> "configure", case |-> i,
                             accepted |-> configure(Properties[i].key,
                                                    Properties[i].value)]
             /\ UNCHANGED message

Connect == /\ Ready
           /\ \E i \in DOMAIN ConnectCases :
                  last' = [op |-> "connect", case |-> i,
                           outcome |-> connect(ConnectCases[i].options)]
           /\ UNCHANGED message

(* The socket that an accepted call asked for is open.                     *)
Open == /\ last.op = "connect"
        /\ last.outcome # Thrown
        /\ last' = [op |-> "open", case |-> last.case,
                    bytes |-> transmitted(on_socket_open(Utf16(ClientId),
                                                         last.outcome))]
        /\ UNCHANGED message

Request == /\ Ready
           /\ \E i \in DOMAIN RequestCases, id \in Identifiers :
                  LET c == RequestCases[i]
                  IN  \/ last' = [op |-> "subscribe", case |-> i, id |-> id,
                                  bytes |-> transmitted(subscribe(c.filter,
                                                            c.options, id))]
                      \/ last' = [op |-> "unsubscribe", case |-> i, id |-> id,
                                  bytes |-> transmitted(unsubscribe(c.filter,
                                                            c.options, id))]
           /\ UNCHANGED message

Acknowledge == /\ Ready
               /\ \E id \in Identifiers,
                     type \in {"PUBACK", "PUBREC", "PUBREL", "PUBCOMP"} :
                      last' = [op |-> "acknowledge", type |-> type, id |-> id,
                               bytes |-> transmitted(acknowledgement(type, <<id>>))]
               /\ UNCHANGED message

(* A message that was sent with an identifier was stored before.           *)
Reload == /\ last.op = "send"
          /\ last.bytes # <<Threw>>
          /\ message.qos > 0
          /\ message' = [restore(store(publication(message, last.id))).message
                            EXCEPT !.destinationName = <<@>>]
          /\ last' = [last EXCEPT !.op = "reload"]

-----------------------------------------------------------------------------
(* MQTT 3.1                                                                *)
U16(n) == <<n \div 256, n % 256>>
Field(bytes) == U16(Len(bytes)) \o bytes

RemainingLength(n) ==
    IF n < 128 THEN <<n>>
    ELSE IF n < 16384 THEN <<128 + (n % 128), n \div 128>>
    ELSE <<128 + (n % 128), 128 + ((n \div 128) % 128), n \div 16384>>

Packet(first, body) == <<first>> \o RemainingLength(Len(body)) \o body

Type(name) == 16 * (CHOOSE k \in 1 .. 14 :
    <<"CONNECT", "CONNACK", "PUBLISH", "PUBACK", "PUBREC", "PUBREL", "PUBCOMP",
      "SUBSCRIBE", "SUBACK", "UNSUBSCRIBE", "UNSUBACK", "PINGREQ", "PINGRESP",
      "DISCONNECT">>[k] = name)

(* Three types are sent with quality of service 1.                         *)
First(name) ==
    Type(name) + IF name \in {"PUBREL", "SUBSCRIBE", "UNSUBSCRIBE"} THEN 2 ELSE 0

IsText(units) == \E text \in Texts : Utf16(text) = units
TextOf(units) == CHOOSE text \in Texts : Utf16(text) = units

BytesOf(content) ==
    IF content.kind = "string" THEN Utf8(TextOf(content.content))
                               ELSE content.content

PublishPacket(m, id) ==
    Packet(Type("PUBLISH") + 2 * m.qos + (IF m.retained THEN 1 ELSE 0)
               + (IF m.duplicate THEN 8 ELSE 0),
           Field(Utf8(TextOf(m.destinationName[1])))
               \o (IF m.qos = 0 THEN <<>> ELSE U16(id % 65536))
               \o BytesOf(m.payload))

ConnectPacket(means) ==
    LET will == means.will
        present(optional) == IF optional = <<>> THEN 0 ELSE 1
        flags == 128 * present(means.userName) + 64 * present(means.password)
                     + 4 * present(will)
                     + (IF will = <<>> THEN 0
                        ELSE 8 * will[1].qos + (IF will[1].retained THEN 32 ELSE 0))
                     + (IF means.cleanSession THEN 2 ELSE 0)
    IN  Packet(Type("CONNECT"),
               Field(<<77, 81, 73, 115, 100, 112>>) \o <<3, flags>>
                   \o U16(means.keepAlive)
                   \o Field(Utf8(ClientId))
                   \o (IF will = <<>> THEN <<>>
                       ELSE Field(Utf8(TextOf(will[1].destinationName[1])))
                                \o Field(BytesOf(will[1].payload)))
                   \o Concat([i \in DOMAIN means.userName |->
                                 Field(Utf8(means.userName[i]))])
                   \o Concat([i \in DOMAIN means.password |->
                                 Field(Utf8(means.password[i]))]))

AnswerPacket(p) ==
    CASE p.type = "CONNACK" -> Packet(Type("CONNACK"), <<0, p.returnCode>>)
      [] p.type = "SUBACK" -> Packet(Type("SUBACK"),
                                     U16(p.messageIdentifier[1]) \o p.grantedQos)
      [] p.type = "PINGRESP" -> Packet(Type("PINGRESP"), <<>>)
      [] OTHER -> Packet(First(p.type), U16(p.messageIdentifier[1]))

PacketOf(p) ==
    IF p.type = "PUBLISH"
    THEN PublishPacket([p.message EXCEPT !.destinationName = <<Utf16(@)>>],
                       IF p.message.qos = 0 THEN 0 ELSE p.messageIdentifier[1])
    ELSE AnswerPacket(p)

(* The application may pass on a message that it received.                 *)
Receive == /\ Ready
           /\ \E i \in DOMAIN Packets :
                  LET decoded == decodeMessage(PacketOf(Packets[i]))
                  IN  /\ last' = [op |-> "receive", case |-> i,
                                  decoded |-> decoded]
                      /\ message' = IF decoded.type = "PUBLISH"
                                    THEN [decoded.message EXCEPT
                                             !.destinationName = <<@>>]
                                    ELSE message

-----------------------------------------------------------------------------
(* STOMP 1.0 and 1.1, both of which the client offers.  In 1.1 what would  *)
(* end a header's value is written with a backslash before it, but not     *)
(* when connecting, where the version is not agreed on yet.                *)
Versions == {"1.0", "1.1"}
Special == {":", Stomp!LF, "\\"}

Escaped(value) ==
    Concat([i \in DOMAIN value |->
               CASE value[i] = ":" -> <<"\\", "c">>
                 [] value[i] = Stomp!LF -> <<"\\", "n">>
                 [] value[i] = "\\" -> <<"\\", "\\">>
                 [] OTHER -> <<value[i]>>])

Escapes(frame, version) ==
    version = "1.1" /\ frame.command \notin {"CONNECT", "CONNECTED"}

StompText(frame, version) ==
    <<frame.command, Stomp!LF>>
        \o Concat([i \in DOMAIN frame.headers |->
                      LET value == frame.headers[i][2]
                      IN  <<frame.headers[i][1], ":">>
                              \o (IF Escapes(frame, version) THEN Escaped(value)
                                                            ELSE value)
                              \o <<Stomp!LF>>])
        \o <<Stomp!LF>> \o frame.body \o <<Stomp!NULL>>

Octets(body) == Sum([i \in DOMAIN body |-> IF body[i] \in Wide THEN 2 ELSE 1])

Measured(frame) ==
    IF frame.body = <<>> THEN frame
    ELSE [frame EXCEPT !.headers =
             Append(@, <<"content-length", <<ToString(Octets(frame.body))>>>>)]

StompCall == /\ Ready
             /\ \E i \in DOMAIN StompCalls, version \in Versions :
                    last' = [op |-> "frame", case |-> i, version |-> version,
                             data |-> Stomp!marshall(StompCalls[i].frame)]
             /\ UNCHANGED message

(* The broker may end a frame with line feeds.                             *)
StompReceive ==
    /\ Ready
    /\ \E i \in DOMAIN StompData, feeds \in 0 .. 2, version \in Versions :
           LET text == [j \in DOMAIN StompData[i] |->
                           StompText(StompData[i][j], version)
                               \o [k \in 1 .. feeds |-> Stomp!LF]]
           IN  last' = [op |-> "frames", case |-> i, version |-> version,
                        frames |-> Stomp!unmarshall(Concat(text))]
    /\ UNCHANGED message

Next == \/ Assign \/ Send \/ Construct \/ Configure \/ Connect \/ Open
        \/ Request \/ Acknowledge \/ Reload \/ Receive \/ GoOn
        \/ StompCall \/ StompReceive

Spec == Init /\ [][Next]_vars

-----------------------------------------------------------------------------
Legal(m) == /\ m.destinationName # <<>> /\ IsText(m.destinationName[1])
            /\ m.payload.kind = "string" => IsText(m.payload.content)
            /\ m.qos \in 0 .. 2

(* A call throws if and only if its arguments are not legal; otherwise the *)
(* socket is given the packet that MQTT 3.1 specifies for what they mean,  *)
(* with the defaults that the documentation of the call promises and with  *)
(* the length of every string counted in bytes.  Options of connect that   *)
(* cannot be encoded are found out only when the socket has opened.  An    *)
(* exception is the first byte of PUBREL: it should be First("PUBREL"),    *)
(* and encode leaves the quality of service out.                           *)
CallsEncodedAsSpecified ==
    CASE last.op = "construct" ->
                 last.accepted = ClientCases[last.case].legal
          [] last.op = "configure" ->
                 last.accepted = Properties[last.case].legal
          [] last.op = "send" ->
                 IF Legal(message)
                 THEN last.bytes = PublishPacket(message, last.id)
                 ELSE last.bytes = <<Threw>>
          [] last.op = "connect" ->
                 (last.outcome # Thrown) = ConnectCases[last.case].legal
          [] last.op = "open" ->
                 IF ConnectCases[last.case].means # <<>>
                 THEN last.bytes = ConnectPacket(ConnectCases[last.case].means[1])
                 ELSE last.bytes = <<Threw>>
          [] last.op = "subscribe" ->
                 IF RequestCases[last.case].subscribes
                 THEN last.bytes =
                          Packet(First("SUBSCRIBE"),
                                 U16(last.id % 65536)
                                     \o Field(Utf8(RequestCases[last.case].topic))
                                     \o <<RequestCases[last.case].qos>>)
                 ELSE last.bytes = <<Threw>>
          [] last.op = "unsubscribe" ->
                 IF RequestCases[last.case].unsubscribes
                 THEN last.bytes =
                          Packet(First("UNSUBSCRIBE"),
                                 U16(last.id % 65536)
                                     \o Field(Utf8(RequestCases[last.case].topic)))
                 ELSE last.bytes = <<Threw>>
          [] last.op = "acknowledge" ->
                 LET packet == Packet(First(last.type), U16(last.id % 65536))
                 IN  /\ Tail(last.bytes) = Tail(packet)
                     /\ last.type # "PUBREL" => Head(last.bytes) = Head(packet)
          [] OTHER -> TRUE

(* What the client makes of a packet is what the broker put into it: the   *)
(* topic character by character, the payload, the identifier, the flags;   *)
(* and a payload that is text reads as that text.                          *)
DecodedAsSent ==
    last.op = "receive" =>
        LET p == Packets[last.case]
            d == last.decoded
        IN  /\ d.type = p.type
            /\ "messageIdentifier" \in DOMAIN p
                   => d.messageIdentifier = p.messageIdentifier
            /\ p.type = "CONNACK" => d.returnCode = p.returnCode
            /\ p.type = "SUBACK" => d.grantedQos = p.grantedQos
            /\ p.type = "PUBLISH" =>
                   /\ d.message.destinationName
                          = Utf16(p.message.destinationName)
                   /\ d.message.payload.content = BytesOf(p.message.payload)
                   /\ p.message.payload.kind = "string"
                          => payloadString(d.message) = p.message.payload.content
                   /\ d.message.qos = p.message.qos
                   /\ d.message.retained = p.message.retained
                   /\ d.message.duplicate = p.message.duplicate

(* A message that a reload takes out of memory is sent again, byte for     *)
(* byte, as it was sent before.  (Not so if its payload is an ArrayBuffer.) *)
RestoredAsSent ==
    last.op = "reload" => transmitted(publication(message, last.id)) = last.bytes

(* What the agreed version makes of a call's frame and of broker's data    *)
Survives ==
    CASE last.op = "frame" ->
             last.data = StompText(Measured(StompCalls[last.case].means),
                                   last.version)
      [] last.op = "frames" -> last.frames = StompData[last.case]
      [] OTHER -> TRUE

Frames == CASE last.op = "frame" -> <<StompCalls[last.case].means>>
            [] last.op = "frames" -> StompData[last.case]
            [] OTHER -> <<>>

EscapeNeeded ==
    \E i \in DOMAIN Frames :
        /\ Escapes(Frames[i], last.version)
        /\ \E j \in DOMAIN Frames[i].headers :
               Special \cap Range(Frames[i].headers[j][2]) # {}

WideSent == last.op = "frame" /\ Wide \cap Range(Frames[1].body) # {}

(* A call of the STOMP client reaches the broker as one frame with the     *)
(* destination, identifier, headers and body that were meant, and each     *)
(* frame of a transmission reaches the client with its command, headers    *)
(* and body: in STOMP 1.0 whatever colons are in the headers, in 1.1       *)
(* unless a header needs an escape, of which the client knows nothing;     *)
(* with line feeds, colons and wide characters in a body, but for a wide   *)
(* one in a body that is sent, whose length it does not count in bytes.    *)
FramesSurvive == ~ EscapeNeeded /\ ~ WideSent => Survives
=============================================================================
