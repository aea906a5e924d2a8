------------------------------ MODULE MqttApi ------------------------------
(***************************************************************************)
(* What an application calls in mqttws31.js: Messaging.Message and         *)
(* Messaging.Client, down to the messages that the calls send.             *)
(*                                                                         *)
(* A JavaScript value is a record: what typeof says, what instanceof says  *)
(* (kind), and its content as a string, a number or an array.  An object   *)
(* literal is a function from its keys.  A call that throws yields Thrown. *)
(***************************************************************************)
EXTENDS MqttWire

Value(typeof, kind, units, number, items) ==
    [typeof |-> typeof, kind |-> kind, units |-> units, number |-> number,
     items |-> items]

String(units) == Value("string", "", units, 0, <<>>)
Number(n) == Value("number", "", <<>>, n, <<>>)
Boolean(b) == Value("boolean", "", <<>>, Bit(b, 1), <<>>)
UndefinedValue == Value("undefined", "", <<>>, 0, <<>>)

Property(obj, key) == IF key \in DOMAIN obj THEN obj[key] ELSE UndefinedValue

Truthy(v) == CASE v.typeof = "undefined" -> FALSE
               [] v.typeof = "string" -> v.units # <<>>
               [] v.typeof \in {"number", "boolean"} -> v.number # 0
               [] OTHER -> v.kind # "null"

Thrown == [type |-> "thrown"]

validate(obj, keys) ==
    \A key \in DOMAIN obj : key \in DOMAIN keys /\ obj[key].typeof = keys[key]

-----------------------------------------------------------------------------
(* Messaging.Message.  The destination is optional.                        *)
Message(newPayload) ==
    [payload |-> newPayload, destinationName |-> <<>>, qos |-> 0,
     retained |-> FALSE, duplicate |-> FALSE]

(* The setters: each refuses with an exception what it does not expect,    *)
(* except that of duplicate.  The others of the prototype have no setter.  *)
set(message, key, v) ==
    CASE key = "destinationName" /\ v.typeof = "string" ->
             [message EXCEPT !.destinationName = <<v.units>>]
      [] key = "qos" /\ v.typeof = "number" /\ v.number \in 0 .. 2 ->
             [message EXCEPT !.qos = v.number]
      [] key = "retained" /\ v.typeof = "boolean" ->
             [message EXCEPT !.retained = (v.number = 1)]
      [] key = "duplicate" -> [message EXCEPT !.duplicate = Truthy(v)]
      [] OTHER -> message

(* What encode reads of a message that has a destination.                  *)
Addressed(message) ==
    [message EXCEPT !.destinationName = Head(@)]

payloadString(message) ==
    CASE message.payload.kind = "string" -> message.payload.content
      [] message.payload.kind = "ArrayBuffer" -> <<>>
      [] OTHER -> parseUTF8(message.payload.content, 0,
                            Len(message.payload.content))

-----------------------------------------------------------------------------
(* new Messaging.Client(host, port, clientId): a pair of surrogates counts *)
(* for one of the 1 to 23 characters.                                      *)
characters(units) ==
    LET from[i \in 1 .. Len(units) + 2] ==
            IF i > Len(units) THEN 0
            ELSE IF Leads(units[i]) THEN 1 + from[i + 2]
            ELSE 1 + from[i + 1]
    IN  from[1]

Client(host, port, clientId) ==
    /\ host.typeof = "string"
    /\ port.typeof = "number" /\ port.number >= 0
    /\ clientId.typeof = "string" /\ characters(clientId.units) \in 1 .. 23

(* Assigning to a property of a client: some are read only, the callbacks  *)
(* must be functions, and any other name is just another property.         *)
Callbacks == {"onConnectionLost", "onMessageDelivered", "onMessageArrived"}

configure(key, v) ==
    /\ key \notin {"host", "port", "clientId"}
    /\ key \in Callbacks => v.typeof = "function"

ConnectKeys ==
    [timeout |-> "number", userName |-> "string", password |-> "string",
     willMessage |-> "object", keepAliveInterval |-> "number",
     cleanSession |-> "boolean", useSSL |-> "boolean",
     invocationContext |-> "object", onSuccess |-> "function",
     onFailure |-> "function", hosts |-> "object", ports |-> "object"]

WillAccepted(will) ==
    Truthy(will) => /\ will.kind = "Message"
                    /\ will.items[1].destinationName # <<>>

HostsAccepted(hosts, ports) ==
    Truthy(hosts) =>
        /\ Truthy(ports)
        /\ hosts.kind = "Array" /\ ports.kind = "Array"
        /\ Len(hosts.items) >= 1
        /\ Len(hosts.items) = Len(ports.items)
        /\ \A i \in DOMAIN hosts.items :
               /\ hosts.items[i].typeof = "string"
               /\ ports.items[i].typeof = "number" /\ ports.items[i].number >= 0

Given(v) == IF v.typeof = "undefined" THEN <<>> ELSE <<v.units>>

(* connect: the options as they are kept, with their defaults.  What reads *)
(* stringPayload of the will reads a property that no message has, so the  *)
(* payload is not looked at.                                               *)
connect(options) ==
    LET option(key) == Property(options, key)
        will == option("willMessage")
    IN  IF /\ validate(options, ConnectKeys)
           /\ WillAccepted(will)
           /\ HostsAccepted(option("hosts"), option("ports"))
        THEN [type |-> "connectOptions",
              cleanSession |-> option("cleanSession").typeof = "undefined"
                                   \/ Truthy(option("cleanSession")),
              keepAliveInterval |->
                  IF option("keepAliveInterval").typeof = "undefined"
                  THEN 60 ELSE option("keepAliveInterval").number,
              userName |-> Given(option("userName")),
              password |-> Given(option("password")),
              willMessage |-> IF Truthy(will) THEN <<Addressed(will.items[1])>>
                                              ELSE <<>>]
        ELSE Thrown

(* The CONNECT message that goes out once the socket is open.              *)
on_socket_open(clientId, connectOptions) ==
    [type |-> "CONNECT", messageIdentifier |-> <<>>, clientId |-> clientId]
        @@ connectOptions

-----------------------------------------------------------------------------
(* The calls that need a connection; id is the next unused identifier.     *)
RequestKeys == [invocationContext |-> "object", onSuccess |-> "function",
                onFailure |-> "function", timeout |-> "number"]

RequestAccepted(filter, options, keys) ==
    /\ filter.typeof = "string"
    /\ validate(options, keys)
    /\ Truthy(Property(options, "timeout"))
           => Truthy(Property(options, "onFailure"))

subscribe(filter, options, id) ==
    LET qos == Property(options, "qos")
    IN  IF /\ RequestAccepted(filter, options,
                              [key \in DOMAIN RequestKeys \cup {"qos"} |->
                                  IF key = "qos" THEN "number"
                                                 ELSE RequestKeys[key]])
           /\ qos.typeof = "undefined" \/ qos.number \in 0 .. 2
        THEN [type |-> "SUBSCRIBE", messageIdentifier |-> <<id>>,
              topics |-> <<filter.units>>, requestedQos |-> <<qos.number>>]
        ELSE Thrown

unsubscribe(filter, options, id) ==
    IF RequestAccepted(filter, options, RequestKeys)
    THEN [type |-> "UNSUBSCRIBE", messageIdentifier |-> <<id>>,
          topics |-> <<filter.units>>]
    ELSE Thrown

publication(message, id) ==
    [type |-> "PUBLISH", message |-> Addressed(message),
     messageIdentifier |-> IF message.qos > 0 THEN <<id>> ELSE <<>>]

send(message, id) ==
    IF message.destinationName = <<>> THEN Thrown ELSE publication(message, id)

(* A packet with an identifier or without: what the client answers and the *)
(* pings.                                                                  *)
acknowledgement(type, ids) == [type |-> type, messageIdentifier |-> ids]

(* What the socket is given.                                               *)
transmitted(m) == IF m.type = "thrown" THEN <<Threw>> ELSE encode(m)
=============================================================================
