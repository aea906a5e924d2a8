---------------------------- MODULE StompClient ----------------------------
(***************************************************************************)
(* Client of stomp.js, the STOMP client that the web page embeds.  As in   *)
(* MqttClientImpl every method and event handler is an operator on the     *)
(* client; out is what it does to its socket, calls the callbacks it makes.*)
(* Time counts down: a timer is the time left until it fires.              *)
(***************************************************************************)
EXTENDS StompFrame

CONSTANTS Outgoing, Incoming   \* heartbeat.outgoing, heartbeat.incoming

ASSUME StompAssumption == Outgoing \in Nat /\ Incoming \in Nat

(* Stomp.VERSIONS: those with heart-beats, and what the client offers.     *)
BeatingVersions == {"1.1", "1.2"}
supportedVersions == <<"1.1", ",", "1.0">>

Off == -1   \* of a timer

(* subscriptions maps an identifier to the callback, which is known by the *)
(* destination that it was given for.  activity is the time since          *)
(* serverActivity, kept up to the age from which on nothing changes.       *)
Client ==
    [connected |-> FALSE, counter |-> 0,
     subscriptions |-> [id \in {} |-> <<>>],
     pinger |-> Off, pingerPeriod |-> 0, ponger |-> Off, pongerPeriod |-> 0,
     activity |-> 0, onclose |-> TRUE, out |-> <<>>, calls |-> <<>>,
     threw |-> FALSE]

(* callback is "connected", "error" or "message".                          *)
Call(c, callback, destination, body) ==
    [c EXCEPT !.calls = Append(@, <<callback, destination, body>>)]

Close == Frame("close", <<>>, <<>>)
Beat == Frame("beat", <<>>, <<>>)

transmit(c, frame) == [c EXCEPT !.out = Append(@, frame)]

Max2(a, b) == IF a > b THEN a ELSE b

(* Mutant: the two numbers of the server are taken the wrong way round.    *)
setupHeartbeatSwapped(c, version, beat) ==
    IF version \notin BeatingVersions THEN c
    ELSE IF beat = <<>> THEN [c EXCEPT !.threw = TRUE]
    ELSE LET ping == Max2(Outgoing, beat[1])
             pong == Max2(Incoming, beat[2])
             pinging == IF Outgoing = 0 \/ beat[1] = 0 THEN c
                        ELSE [c EXCEPT !.pinger = ping, !.pingerPeriod = ping]
         IN  IF Incoming = 0 \/ beat[2] = 0 THEN pinging
             ELSE [pinging EXCEPT !.ponger = pong, !.pongerPeriod = pong]

(* beat is what the server can do and what it wants; a CONNECTED frame     *)
(* that does not say so is read like a text that is not there.             *)
setupHeartbeat(c, version, beat) ==
    IF version \notin BeatingVersions THEN c
    ELSE IF beat = <<>> THEN [c EXCEPT !.threw = TRUE]
    ELSE LET ping == Max2(Outgoing, beat[2])
             pong == Max2(Incoming, beat[1])
             pinging == IF Outgoing = 0 \/ beat[2] = 0 THEN c
                        ELSE [c EXCEPT !.pinger = ping, !.pingerPeriod = ping]
         IN  IF Incoming = 0 \/ beat[1] = 0 THEN pinging
             ELSE [pinging EXCEPT !.ponger = pong, !.pongerPeriod = pong]

(* Mutant: the callback of an earlier subscription is replaced.            *)
subscribeReusingId(c, destination, headers) ==
    LET frame == subscribeFrame(destination, headers, 0)
        id == Header(frame.headers, "id")
    IN  transmit([c EXCEPT !.subscriptions =
                     [i \in DOMAIN @ \cup {id} |-> IF i = id THEN destination
                                                             ELSE @[i]]],
                 frame)

subscribe(c, destination, headers) ==
    LET frame == subscribeFrame(destination, headers, c.counter)
        id == Header(frame.headers, "id")
    IN  transmit([c EXCEPT !.counter = IF Header(headers, "id") = <<>>
                                       THEN @ + 1 ELSE @,
                           !.subscriptions =
                     [i \in DOMAIN @ \cup {id} |-> IF i = id THEN destination
                                                             ELSE @[i]]],
                 frame)

unsubscribe(c, id) ==
    transmit([c EXCEPT !.subscriptions = [i \in DOMAIN @ \ {id} |-> @[i]]],
             unsubscribeFrame(id))

(* Mutant: the handler of the close event is removed, as by disconnect().  *)
cleanUpSilently(c) ==
    [c EXCEPT !.connected = FALSE, !.pinger = Off, !.ponger = Off,
              !.onclose = FALSE, !.out = Append(@, Close)]

(* The interval timers are cleared, connected too; onclose stays.          *)
cleanUp(c) ==
    [c EXCEPT !.connected = FALSE, !.pinger = Off, !.ponger = Off,
              !.out = Append(@, Close)]

disconnect(c) ==
    cleanUp([transmit(c, Frame("DISCONNECT", <<>>, <<>>))
                EXCEPT !.onclose = FALSE])

-----------------------------------------------------------------------------
(* The socket's events.  The callback of connect is called with the client *)
(* connected, that of a subscription with the body.                        *)
onopen(c) ==
    transmit(c, Frame("CONNECT",
                      <<<<"accept-version", supportedVersions>>,
                        <<"heart-beat", <<ToString(Outgoing), ",",
                                          ToString(Incoming)>>>>>>, <<>>))

receive(c, frame) ==
    IF c.threw THEN c
    ELSE CASE frame.command = "CONNECTED" ->
                  LET beating == setupHeartbeat([c EXCEPT !.connected = TRUE],
                                                frame.version, frame.beat)
                  IN  IF beating.threw THEN beating
                      ELSE Call(beating, "connected", <<>>, <<>>)
           [] frame.command = "MESSAGE" ->
                  IF frame.subscription \in DOMAIN c.subscriptions
                  THEN Call(c, "message", c.subscriptions[frame.subscription],
                            frame.body)
                  ELSE c
           [] frame.command = "ERROR" -> Call(c, "error", <<>>, <<>>)

(* data is a heart-beat, which is a line feed, or frames.                  *)
onmessage(c, data) ==
    FoldLeft(receive, [c EXCEPT !.activity = 0], data)

(* The client is not cleaned up: it stays connected, and its timers run,   *)
(* until the ponger notices.                                               *)
onsocketclose(c) == IF c.onclose THEN Call(c, "error", <<>>, <<>>) ELSE c

-----------------------------------------------------------------------------
(* The timers                                                              *)
PingerFires(c) == [transmit(c, Beat) EXCEPT !.pinger = c.pingerPeriod]

(* Mutant: the connection is given up after one period.                    *)
PongerFiresEarly(c) ==
    IF c.activity > c.pongerPeriod
    THEN cleanUp(c)
    ELSE [c EXCEPT !.ponger = c.pongerPeriod]

PongerFires(c) ==
    IF c.activity > 2 * c.pongerPeriod
    THEN cleanUp(c)
    ELSE [c EXCEPT !.ponger = c.pongerPeriod]

Elapse(c, oldest) ==
    [c EXCEPT !.pinger = IF @ > 0 THEN @ - 1 ELSE @,
              !.ponger = IF @ > 0 THEN @ - 1 ELSE @,
              !.activity = IF @ < oldest THEN @ + 1 ELSE @]
=============================================================================
