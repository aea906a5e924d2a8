---------------------------- MODULE MqttClientImpl ----------------------------
(***************************************************************************)
(* ClientImpl of mqttws31.js, the MQTT client that the web page embeds.    *)
(*                                                                         *)
(* JavaScript runs a call, an event handler or a timer to its end before   *)
(* anything else happens.  So every method is an operator that takes the   *)
(* client before the call and yields the client after it, together with    *)
(* what it did to its sockets (out) and the callbacks it made (calls).     *)
(* An exception (threw) skips the rest of the call.                        *)
(***************************************************************************)
EXTENDS Integers, Sequences, FiniteSets, Folds, SequencesExt

CONSTANTS Messages,              \* application messages, either way
          QoS,                   \* their quality of service
          Unencodable,           \* those whose topic stringToUTF8 refuses
          Oversized,             \* those localStorage has no room for
          MaxMessageIdentifier,  \* maxMessageIdentifier
          IdSpace,               \* identifiers that two bytes can tell apart
          KeepAlive,             \* is keepAliveInterval positive?
          RequestTimeout,        \* do subscriptions have a timeout?
          MaxAttempts            \* bound: calls of connect

(* What the application's callbacks may do: not exist, return, or call the *)
(* client.                                                                 *)
Reactions ==
    [onSuccess          : {"absent", "return", "subscribe"},
     onConnectionLost   : {"absent", "return", "reconnect"},
     onFailure          : {"absent", "return", "reconnect"},
     onMessageArrived   : {"absent", "return", "disconnect"},
     onMessageDelivered : {"absent", "return", "disconnect"}]

ASSUME ClientAssumption == /\ QoS \in [Messages -> 0 .. 2]
                           /\ Unencodable \subseteq Messages
                           /\ Oversized \subseteq Messages
                           /\ MaxMessageIdentifier \in Nat
                           /\ IdSpace \in Nat \ {0}
                           /\ KeepAlive \in BOOLEAN
                           /\ RequestTimeout \in BOOLEAN
                           /\ MaxAttempts \in Nat

None == "none"

(* pubRec and seq are pubRecReceived and sequence, 0 being undefined.      *)
WireMessage(type, id, body) ==
    [type |-> type, id |-> id, body |-> body, pubRec |-> FALSE, seq |-> 0]

Ack(type, id) == WireMessage(type, id, None)

(* A JavaScript object as a map from identifiers.                          *)
EmptyMap == [id \in {} |-> None]

Put(map, id, value) ==
    [i \in DOMAIN map \cup {id} |-> IF i = id THEN value ELSE map[i]]

Delete(map, id) == [i \in DOMAIN map \ {id} |-> map[i]]

(* In ascending order: the n-th identifier has n - 1 smaller ones.         *)
Ascending(ids) ==
    [n \in 1 .. Cardinality(ids) |->
        CHOOSE id \in ids : Cardinality({i \in ids : i < id}) = n - 1]

Throw(c) == [c EXCEPT !.threw = TRUE]

Call(c, callback, arg) == [c EXCEPT !.calls = Append(@, <<callback, arg>>)]

-----------------------------------------------------------------------------
(* Pinger                                                                  *)
NewPinger == [isReset |-> FALSE, armed |-> FALSE]
reset(pinger) == [isReset |-> TRUE, armed |-> KeepAlive]
cancel(pinger) == [pinger EXCEPT !.armed = FALSE]

(* new ClientImpl(...).  Restored is what was stored; everything else      *)
(* starts anew, the two counters included.                                 *)
ClientImpl(stored, attempt, reaction) ==
    [reaction |-> reaction, connected |-> FALSE, socket |-> "none",
     attempt |-> attempt,
     clean |-> FALSE, hosts |-> 0, hostIndex |-> 0,
     queue |-> <<>>, draining |-> FALSE, notify |-> FALSE,
     wireMessage |-> Ack(None, 0),
     sent |-> stored.sent, received |-> stored.received,
     messageIdentifier |-> 1, sequence |-> 0, requests |-> 0,
     connectTimer |-> FALSE, requestTimers |-> {},
     sendPinger |-> NewPinger, receivePinger |-> NewPinger,
     stored |-> stored, out |-> <<>>, calls |-> <<>>, threw |-> FALSE]

-----------------------------------------------------------------------------
(* store("Sent:", ...): the message gets its place in the order of sending *)
(* the first time, and keeps it.                                           *)
StoreSent(c, id) ==
    LET first == c.sent[id].seq = 0
        number == IF first THEN c.sequence + 1 ELSE c.sent[id].seq
        message == [c.sent[id] EXCEPT !.seq = number]
        numbered == [c EXCEPT !.sent = Put(@, id, message),
                              !.sequence = IF first THEN number ELSE @]
    IN  IF message.body \in Oversized
        THEN Throw(numbered)
        ELSE [numbered EXCEPT !.stored.sent = Put(@, id, message)]

(* store("Received:", ...)                                                 *)
StoreReceived(c, message) ==
    IF message.body \in Oversized
    THEN Throw(c)
    ELSE [c EXCEPT !.stored.received = Put(@, message.id, message)]

(* The first unused identifier from the last one on.                       *)
UnusedIdentifier(c) ==
    LET last == c.messageIdentifier
        free == (last .. last + Cardinality(DOMAIN c.sent)) \ DOMAIN c.sent
    IN  CHOOSE id \in free : \A i \in free : id <= i

(* The test that should start the identifiers over reads a property that   *)
(* does not exist (maxMessagIdentifier), so they never do.                 *)
requires_ack(c, type, body) ==
    IF Cardinality(DOMAIN c.sent) > MaxMessageIdentifier
    THEN Throw(c)
    ELSE LET id == UnusedIdentifier(c)
             message == WireMessage(type, id, body)
             kept == [c EXCEPT !.messageIdentifier = id,
                               !.sent = Put(@, id, message)]
             done == IF type = "PUBLISH" THEN StoreSent(kept, id) ELSE kept
         IN  [done EXCEPT !.wireMessage = done.sent[id]]

-----------------------------------------------------------------------------
doConnect(c) ==
    [c EXCEPT !.connected = FALSE, !.socket = "connecting",
              !.sendPinger = NewPinger, !.receivePinger = NewPinger,
              !.connectTimer = TRUE,
              !.out = Append(@, Ack("dial", 0))]

(* Its options: cleanSession, and how many hosts are listed (0: no list).  *)
connect(c, clean, hosts) ==
    IF c.connected \/ c.socket # "none"
    THEN Throw(c)
    ELSE doConnect([c EXCEPT !.clean = clean, !.hosts = hosts, !.hostIndex = 0,
                             !.attempt = @ + 1])

(* onConnectionLost and onFailure of the application, which may connect    *)
(* again from within.                                                      *)
Notify(c, callback) ==
    LET told == Call(c, callback, c.attempt)
    IN  CASE c.reaction[callback] = "absent" -> c
          [] c.reaction[callback] = "reconnect" /\ c.attempt < MaxAttempts ->
                 connect(told, c.clean, c.hosts)
          [] OTHER -> told

(* Mutant: the timer of the connect call is left running.                  *)
disconnectedKeepingTimer(c) ==
    LET left == [c EXCEPT !.sendPinger = cancel(@), !.receivePinger = cancel(@),
                          !.queue = <<>>, !.draining = FALSE, !.notify = FALSE,
                          !.socket = "none",
                          !.out = IF c.socket = "open"
                                  THEN Append(@, Ack("close", 0)) ELSE @]
    IN  IF c.connected
        THEN Notify([left EXCEPT !.connected = FALSE], "onConnectionLost")
        ELSE Notify(left, "onFailure")

disconnected(c) ==
    LET left == [c EXCEPT !.sendPinger = cancel(@), !.receivePinger = cancel(@),
                          !.connectTimer = FALSE,
                          !.queue = <<>>, !.draining = FALSE, !.notify = FALSE,
                          !.socket = "none",
                          !.out = IF c.socket = "open"
                                  THEN Append(@, Ack("close", 0)) ELSE @]
    IN  IF c.hosts > 0 /\ c.hostIndex < c.hosts - 1
        THEN doConnect([left EXCEPT !.hostIndex = @ + 1])
        ELSE IF c.connected
        THEN Notify([left EXCEPT !.connected = FALSE], "onConnectionLost")
        ELSE Notify(left, "onFailure")

(* A message that cannot be encoded throws, and so do a socket that is     *)
(* gone and one that is not open yet.                                      *)
Encodable(message) == message.type = "PUBLISH" => message.body \notin Unencodable

socket_send(c, message) ==
    IF ~ Encodable(message) \/ c.socket \in {"none", "connecting"}
    THEN Throw(c)
    ELSE [c EXCEPT !.out = Append(@, [message EXCEPT !.id = @ % IdSpace]),
                   !.sendPinger = reset(@)]

(* One round of the loop that drains the queue.  The array was reversed in *)
(* place: if a round throws, the rest stays behind in reverse order,       *)
(* unless disconnected() gave the client a new array.  notify is           *)
(* _notify_msg_sent: every message has the same key, "[object Object]", so *)
(* the first one sent runs the callback that disconnect() left.            *)
SendNext(c, message) ==
    IF c.threw
    THEN [c EXCEPT !.queue = IF c.draining THEN <<message>> \o @ ELSE @]
    ELSE LET after == socket_send(c, message)
         IN  IF after.threw \/ ~ after.notify
             THEN after
             ELSE disconnected([after EXCEPT !.notify = FALSE])

process_queue(c) ==
    [FoldLeft(SendNext, [c EXCEPT !.queue = <<>>, !.draining = TRUE], c.queue)
        EXCEPT !.draining = FALSE]

schedule_message(c, message) ==
    LET queued == [c EXCEPT !.queue = Append(@, message)]
    IN  IF c.connected THEN process_queue(queued) ELSE queued

-----------------------------------------------------------------------------
(* subscribe and unsubscribe.  The n-th request of a client is numbered n; *)
(* its timeout starts before it has an identifier.                         *)
Request(c, type) ==
    IF ~ c.connected
    THEN Throw(c)
    ELSE LET n == c.requests + 1
             timed == [c EXCEPT !.requests = n,
                                !.requestTimers = IF RequestTimeout
                                                  THEN @ \cup {n} ELSE @]
             kept == requires_ack(timed, type, n)
         IN  IF kept.threw THEN kept ELSE schedule_message(kept, kept.wireMessage)

disconnect(c) ==
    IF c.socket = "none"
    THEN Throw(c)
    ELSE schedule_message([c EXCEPT !.wireMessage = Ack("DISCONNECT", 0),
                                    !.notify = TRUE],
                          Ack("DISCONNECT", 0))

onSuccess(c) ==
    LET told == Call(c, "onSuccess", c.attempt)
    IN  CASE c.reaction.onSuccess = "absent" -> c
          [] c.reaction.onSuccess = "subscribe" -> Request(told, "SUBSCRIBE")
          [] OTHER -> told

(* onMessageArrived and onMessageDelivered                                 *)
Report(c, callback, body) ==
    LET told == Call(c, callback, body)
    IN  CASE c.reaction[callback] = "absent" -> c
          [] c.reaction[callback] = "disconnect" -> disconnect(told)
          [] OTHER -> told

(* wireMessage is a global variable: if onMessageDelivered, called here    *)
(* for a message of quality 0, disconnects, what is scheduled afterwards   *)
(* is the DISCONNECT.  What that callback returns replaces the one that an *)
(* earlier disconnect() left.                                              *)
send(c, body) ==
    IF ~ c.connected
    THEN Throw(c)
    ELSE LET message == [c EXCEPT !.wireMessage = WireMessage("PUBLISH", 0, body)]
             ready == IF QoS[body] > 0 THEN requires_ack(c, "PUBLISH", body)
                      ELSE IF c.reaction.onMessageDelivered = "absent" THEN message
                      ELSE [Report(message, "onMessageDelivered", body)
                               EXCEPT !.notify = FALSE]
         IN  IF ready.threw THEN ready
                            ELSE schedule_message(ready, ready.wireMessage)

-----------------------------------------------------------------------------
(* The socket's events                                                     *)
on_socket_open(c) ==
    socket_send([c EXCEPT !.socket = "open"],
                WireMessage("CONNECT", 0, c.clean))

on_socket_error(c) == disconnected([c EXCEPT !.socket = "closed"])

on_socket_close(c) == disconnected([c EXCEPT !.socket = "closed"])

ClearState(c) ==
    [c EXCEPT !.sent = EmptyMap, !.received = EmptyMap,
              !.stored = [sent |-> [id \in DOMAIN c.stored.sent \ DOMAIN c.sent
                                       |-> c.stored.sent[id]],
                          received |-> [id \in DOMAIN c.stored.received
                                                  \ DOMAIN c.received
                                           |-> c.stored.received[id]]]]

(* The messages to be sent again: taken in the order of their identifiers, *)
(* each is moved before those with a larger sequence number.  Requests     *)
(* have no number, so nothing moves past them.                             *)
MoveBack(sorted, message) ==
    LET larger(i) == /\ sorted[i].seq > message.seq
                     /\ message.seq # 0
        places == {k \in 0 .. Len(sorted) :
                       /\ \A i \in k + 1 .. Len(sorted) : larger(i)
                       /\ k > 0 => ~ larger(k)}
        at == CHOOSE k \in places : TRUE
    IN  SubSeq(sorted, 1, at) \o <<message>>
                              \o SubSeq(sorted, at + 1, Len(sorted))

SequencedMessages(sent) ==
    LET ids == Ascending(DOMAIN sent)
    IN  FoldLeft(MoveBack, <<>>, [i \in DOMAIN ids |-> sent[ids[i]]])

Resend(c, message) ==
    IF c.threw THEN c
    ELSE IF message.type = "PUBLISH" /\ message.pubRec
    THEN schedule_message(c, Ack("PUBREL", message.id))
    ELSE schedule_message(c, message)

(* Mutant: messages are not sent again.                                    *)
ConnAckWithoutResend(c, returnCode) ==
    LET up == [c EXCEPT !.connectTimer = FALSE, !.connected = TRUE]
    IN  IF returnCode # 0
        THEN disconnected(c)
        ELSE process_queue(onSuccess(up))

(* Mutant: what was scheduled before stays in the queue.                   *)
ConnAckWithoutDraining(c, returnCode) ==
    LET up == [c EXCEPT !.connectTimer = FALSE, !.connected = TRUE]
    IN  IF returnCode # 0
        THEN disconnected(c)
        ELSE onSuccess(FoldLeft(Resend, up, SequencedMessages(up.sent)))

(* Mutant: a refused connection is left as it is, without its timer.       *)
ConnAckWithoutFailure(c, returnCode) ==
    LET timed == [c EXCEPT !.connectTimer = FALSE]
        up == [timed EXCEPT !.connected = TRUE]
        resent == FoldLeft(Resend, up, SequencedMessages(up.sent))
    IN  IF returnCode # 0
        THEN timed
        ELSE process_queue(onSuccess(resent))

(* The CONNACK handler.  The local state is cleared before the return code *)
(* is looked at.                                                           *)
ConnAck(c, returnCode) ==
    LET timed == [c EXCEPT !.connectTimer = FALSE]
        ready == IF c.clean THEN ClearState(timed) ELSE timed
        up == [ready EXCEPT !.connected = TRUE,
                            !.hostIndex = IF c.hosts > 0 THEN c.hosts ELSE @]
        resent == FoldLeft(Resend, up, SequencedMessages(up.sent))
        told == IF resent.threw THEN resent ELSE onSuccess(resent)
    IN  IF returnCode # 0
        THEN disconnected(ready)
        ELSE IF told.threw THEN told ELSE process_queue(told)

receivePublish(c, message) ==
    CASE QoS[message.body] = 0 -> Report(c, "onMessageArrived", message.body)
      [] QoS[message.body] = 1 ->
             LET acked == schedule_message(c, Ack("PUBACK", message.id))
             IN  IF acked.threw THEN acked
                 ELSE Report(acked, "onMessageArrived", message.body)
      [] OTHER ->
             LET kept == StoreReceived(
                             [c EXCEPT !.received = Put(@, message.id, message)],
                             message)
             IN  IF kept.threw THEN kept
                 ELSE schedule_message(kept, Ack("PUBREC", message.id))

(* Mutant: the stored copy stays.                                          *)
ForgetInMemory(c, id) == [c EXCEPT !.sent = Delete(@, id)]

Forget(c, id) == [c EXCEPT !.sent = Delete(@, id),
                           !.stored.sent = Delete(@, id)]

PubAck(c, id) ==
    IF id \notin DOMAIN c.sent
    THEN c
    ELSE Report(Forget(c, id), "onMessageDelivered", c.sent[id].body)

PubRec(c, id) ==
    IF id \notin DOMAIN c.sent
    THEN c
    ELSE LET marked == [c EXCEPT !.sent[id].pubRec = TRUE]
             kept == IF c.sent[id].type = "PUBLISH"
                     THEN StoreSent(marked, id) ELSE Throw(marked)
         IN  IF kept.threw THEN kept ELSE schedule_message(kept, Ack("PUBREL", id))

(* Mutant: the copy in memory stays.                                       *)
PubRelKeepsCopy(c, id) ==
    LET removed == [c EXCEPT !.stored.received = Delete(@, id)]
        told == IF id \in DOMAIN c.received
                THEN Report(removed, "onMessageArrived", c.received[id].body)
                ELSE removed
    IN  schedule_message(told, Ack("PUBCOMP", id))

(* The stored copy goes first, the one in memory after the callback.       *)
PubRel(c, id) ==
    LET removed == [c EXCEPT !.stored.received = Delete(@, id)]
        told == IF id \in DOMAIN c.received
                THEN Report(removed, "onMessageArrived", c.received[id].body)
                ELSE removed
    IN  IF told.threw THEN told
        ELSE schedule_message([told EXCEPT !.received = Delete(@, id)],
                              Ack("PUBCOMP", id))

(* For a message it does not know it reads a property of undefined.        *)
PubComp(c, id) ==
    IF id \in DOMAIN c.sent
    THEN Report(Forget(c, id), "onMessageDelivered", c.sent[id].body)
    ELSE IF c.reaction.onMessageDelivered = "absent"
         THEN Forget(c, id)
         ELSE Throw(Forget(c, id))

(* SUBACK and UNSUBACK                                                     *)
RequestAck(c, id) ==
    IF id \notin DOMAIN c.sent
    THEN c
    ELSE LET n == c.sent[id].body
         IN  Call([c EXCEPT !.requestTimers = @ \ {n}, !.sent = Delete(@, id)],
                  "requestSuccess", n)

on_socket_message(client, packet) ==
    LET c == [client EXCEPT !.receivePinger = reset(@)]
    IN  CASE packet.type = "CONNACK" -> ConnAck(c, packet.body)
          [] packet.type = "PUBLISH" -> receivePublish(c, packet)
          [] packet.type = "PUBACK" -> PubAck(c, packet.id)
          [] packet.type = "PUBREC" -> PubRec(c, packet.id)
          [] packet.type = "PUBREL" -> PubRel(c, packet.id)
          [] packet.type = "PUBCOMP" -> PubComp(c, packet.id)
          [] packet.type \in {"SUBACK", "UNSUBACK"} -> RequestAck(c, packet.id)
          [] packet.type = "PINGRESP" ->
                 [c EXCEPT !.sendPinger = reset(@)]
          [] packet.type = "malformed" -> disconnected(c)
          [] OTHER -> disconnected(c)

-----------------------------------------------------------------------------
(* The timers                                                              *)
ConnectTimeout(c) ==
    disconnected([c EXCEPT !.connectTimer = FALSE])

RequestTimesOut(c, n) ==
    Call([c EXCEPT !.requestTimers = @ \ {n}], "requestFailure", n)

(* which is "sendPinger" or "receivePinger".  The request goes out without *)
(* socket_send, so the other pinger does not learn of it.                  *)
doPing(c, which) ==
    IF c[which].isReset
    THEN [c EXCEPT ![which] = [isReset |-> FALSE, armed |-> TRUE],
                   !.out = Append(@, Ack("PINGREQ", 0))]
    ELSE disconnected([c EXCEPT ![which] = cancel(@)])
=============================================================================
