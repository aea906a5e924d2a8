--------------------------- MODULE PushPageProofs ---------------------------
(***************************************************************************)
(* Theorems on PushPage, for every browser, server, agreement on           *)
(* heart-beats and delay of the network.                                   *)
(*   IInv      of the STOMP client: the phase of its connection and what   *)
(*             the two queues hold then, each timer and what it watches,   *)
(*             each sign of life of a punctual server and the patience of  *)
(*             the client;                                                 *)
(*   Notified  of its subscriptions: asked for, or up to date with what    *)
(*             was published since;                                        *)
(*   PageRight of the page: what came over its web socket and over MQTT,   *)
(*             and what its text areas show of it.                         *)
(* Notified holds on with IInv, and PageRight with the notification        *)
(* counters of Notified; each is kept by every step of every actor.        *)
(***************************************************************************)
EXTENDS PushPage, FiniteSetTheorems, SequenceTheorems, TLAPS

-----------------------------------------------------------------------------
(* The inductive invariant                                                 *)
IsSequence(s) == s \in Seq(Range(s))

Timers == Nat \cup {Off}

ClientType(c) ==
    c \in [connected : BOOLEAN, counter : {c.counter},
           subscriptions : {c.subscriptions}, pinger : Timers,
           pingerPeriod : Nat, ponger : Timers, pongerPeriod : Nat,
           activity : Nat, onclose : BOOLEAN, out : {c.out}, calls : {c.calls},
           threw : BOOLEAN]

WireType(w) ==
    w \in [state : {"connecting", "open", "closing", "closed"},
           toServer : {w.toServer}, toClient : {w.toClient}, age : Nat,
           accepted : BOOLEAN, sinceServer : Nat, unsent : Nat, errorFrames : Nat,
           subs : {w.subs}, since : {w.since}]

HeardType(h) ==
    h \in [errors : Nat, left : BOOLEAN,
           subscriptions : {h.subscriptions}, bodies : {h.bodies}]

TypeOK == /\ config \in Configurations
          /\ ClientType(stomp) /\ WireType(wire) /\ HeardType(heard)
          /\ IsFiniteSet(DOMAIN wire.subs)
          /\ faults \in Nat

(* Between two steps nothing is left of what the client did in the last.   *)
Settled == stomp.out = <<>> /\ stomp.calls = <<>> /\ ~ stomp.threw

(* The handshake: before the client is connected no time passes for it,    *)
(* nobody is told of a notification, and the two queues hold no more than  *)
(* CONNECT or the answer.                                                  *)
Quiet == /\ ~ stomp.connected /\ stomp.activity = 0
         /\ wire.unsent = 0 /\ wire.age = 0 /\ DOMAIN wire.subs = {}

Connecting == /\ wire.state = "connecting" /\ ~ wire.accepted
              /\ wire.toServer = <<>> /\ wire.toClient = <<>>
              /\ Quiet

Asking == /\ wire.state = "open" /\ ~ wire.accepted
          /\ \E f \in Range(wire.toServer) :
                 f.command = "CONNECT" /\ wire.toServer = <<f>>
          /\ wire.toClient = <<>>
          /\ Quiet

Refused == /\ wire.state = "open" /\ ~ wire.accepted
           /\ wire.toServer = <<>>
           /\ \/ wire.toClient = <<<<Data("ERROR", <<>>, <<>>)>>>>
              \/ wire.toClient = <<>>
           /\ Quiet

Accepted == /\ wire.state = "open" /\ wire.accepted
            /\ wire.toServer = <<>>
            /\ wire.toClient = <<<<Data("CONNECTED", <<>>, <<>>)>>>>
            /\ Quiet

AboutSubscription(frame) == frame.command \in {"SUBSCRIBE", "UNSUBSCRIBE"}

Delivered(data) ==
    \/ data = <<>>
    \/ \E f \in Range(data) : f.command = "MESSAGE" /\ data = <<f>>

Serving == /\ wire.state = "open" /\ wire.accepted /\ stomp.connected
           /\ IsSequence(wire.toServer)
           /\ \A i \in DOMAIN wire.toServer : AboutSubscription(wire.toServer[i])
           /\ IsSequence(wire.toClient)
           /\ \A i \in DOMAIN wire.toClient : Delivered(wire.toClient[i])

Phases == \/ Connecting \/ Asking \/ Refused \/ Accepted \/ Serving
          \/ wire.state \in {"closing", "closed"}

(* The timers are those agreed on, and run for a client that is connected. *)
Beating == config.version \in BeatingVersions /\ config.beat # <<>>
Ponging == ServerBeating /\ Incoming # 0
Pinging == Beating /\ Outgoing # 0 /\ config.beat[2] # 0
PongPeriod == Max2(Incoming, config.beat[1])
PingPeriod == Max2(Outgoing, config.beat[2])

PongerRight ==
    IF stomp.connected /\ Ponging
    THEN /\ stomp.pongerPeriod = PongPeriod
         /\ stomp.ponger \in 0 .. PongPeriod
         /\ stomp.activity <= 3 * PongPeriod - stomp.ponger
    ELSE stomp.ponger = Off

PingerRight ==
    IF stomp.connected /\ Pinging
    THEN /\ stomp.pingerPeriod = PingPeriod
         /\ stomp.pinger \in 0 .. PingPeriod
         /\ wire.state = "open" => wire.unsent <= PingPeriod - stomp.pinger
    ELSE stomp.pinger = Off

(* A sign of life of a punctual server is under way no longer than the     *)
(* delay, and was sent no longer than the interval after the last.         *)
InTime ==
    Punctual =>
        /\ wire.sinceServer <= config.beat[1]
        /\ wire.age <= MaxDelay
        /\ IF wire.toClient = <<>>
           THEN wire.age = 0 /\ stomp.activity <= wire.sinceServer
           ELSE stomp.activity <= config.beat[1] + wire.age

(* Errors that were reported                                               *)
Reports ==
    /\ ~ IsPage =>
           /\ wire.state \in {"connecting", "open"} => stomp.onclose /\ ~ heard.left
           /\ wire.state = "closing" => (stomp.onclose <=> ~ heard.left)
    /\ LossReportedOnce

IInv == /\ TypeOK /\ Settled /\ Phases /\ PongerRight /\ PingerRight
        /\ InTime /\ Reports
-----------------------------------------------------------------------------
(* The folds of the model, over what there is of steps and frames         *)

(* A turn that does nothing to its socket leaves the wire alone; one or    *)
(* two things are done one after the other.                                *)
LEMMA EmitNone == ASSUME NEW w PROVE FoldLeft(Emit, w, <<>>) = w
<1>1. DOMAIN <<>> = {}  OBVIOUS
<1> QED BY <1>1 DEF FoldLeft, MapThenFoldSet

(* One.                                                                    *)
LEMMA EmitOne == ASSUME NEW w, NEW step PROVE FoldLeft(Emit, w, <<step>>) = Emit(w, step)
<1> DEFINE F(it) == [s \in SUBSET {1} |-> IF s = {} THEN w
                         ELSE LET x == Max(s) IN Emit(it[s \ {x}], <<step>>[x])]
           it == CHOOSE it : it = F(it)
<1>1. DOMAIN <<step>> = {1}  OBVIOUS
<1>2. FoldLeft(Emit, w, <<step>>) = it[{1}]
      BY <1>1 DEF FoldLeft, MapThenFoldSet
<1>3. Max({1}) = 1  BY DEF Max
<1>4. \E f : f = F(f)
  <2> DEFINE f == [s \in SUBSET {1} |-> IF s = {} THEN w ELSE Emit(w, step)]
  <2>1. F(f)[{}] = w  OBVIOUS
  <2>2. f[{1} \ {1}] = w  OBVIOUS
  <2>3. F(f)[{1}] = Emit(w, step)  
    <3> HIDE DEF f
    <3> QED BY <1>3, <2>2
  <2>4. f[{}] = w /\ f[{1}] = Emit(w, step)  OBVIOUS
  <2>5. \A s \in SUBSET {1} : s = {} \/ s = {1} OBVIOUS
  <2>6. ASSUME NEW s \in SUBSET {1} PROVE f[s] = F(f)[s]
    <3> HIDE DEF f, F
    <3> QED BY <2>1, <2>3, <2>4, <2>5
  <2>7. f = F(f) BY <2>6
  <2> QED BY <2>7
<1>5. it = F(it)  BY <1>4
<1>6. it[{1}] = Emit(it[{1} \ {1}], step)
  <2> HIDE DEF it
  <2>1. it[{1}] = F(it)[{1}]  BY <1>5
  <2>2. F(it)[{1}] = Emit(it[{1} \ {Max({1})}], <<step>>[Max({1})])  OBVIOUS
  <2> HIDE DEF F
  <2> QED BY <1>3, <2>1, <2>2
<1>7. it[{}] = w
  <2> HIDE DEF it
  <2> QED BY <1>5
<1>8. {1} \ {1} = {} OBVIOUS
<1> QED BY <1>2, <1>6, <1>7, <1>8

(* Two.                                                                    *)
LEMMA EmitTwo ==
    ASSUME NEW w, NEW a, NEW b
    PROVE  FoldLeft(Emit, w, <<a, b>>)
               = FoldLeft(Emit, FoldLeft(Emit, w, <<a>>), <<b>>)
<1> DEFINE F(it) == [s \in SUBSET {1, 2} |-> IF s = {} THEN w
                         ELSE LET x == Max(s) IN Emit(it[s \ {x}], <<a, b>>[x])]
           it == CHOOSE it : it = F(it)
<1>1. DOMAIN <<a, b>> = {1, 2}  OBVIOUS
<1>2. FoldLeft(Emit, w, <<a, b>>) = it[{1, 2}]
      BY <1>1 DEF FoldLeft, MapThenFoldSet
<1>3. Max({1}) = 1 /\ Max({2}) = 2 /\ Max({1, 2}) = 2  BY DEF Max
<1>9. {1} \ {1} = {} /\ {2} \ {2} = {} /\ {1, 2} \ {2} = {1} OBVIOUS
<1>4. \E f : f = F(f)
  <2> DEFINE f == [s \in SUBSET {1, 2} |->
                     IF s = {} THEN w ELSE IF s = {1} THEN Emit(w, a)
                     ELSE IF s = {2} THEN Emit(w, b) ELSE Emit(Emit(w, a), b)]
  <2>4. /\ f[{}] = w /\ f[{1}] = Emit(w, a) /\ f[{2}] = Emit(w, b)
        /\ f[{1, 2}] = Emit(Emit(w, a), b)
        BY {1} # {2}, {1, 2} # {1}, {1, 2} # {2}, {1, 2} # {}
  <2>1. F(f)[{}] = w  OBVIOUS
  <2>3. /\ F(f)[{1}] = Emit(w, a) /\ F(f)[{2}] = Emit(w, b)
        /\ F(f)[{1, 2}] = Emit(Emit(w, a), b)
    <3> HIDE DEF f
    <3> QED BY <1>3, <2>4, <1>9
  <2>5. \A s \in SUBSET {1, 2} : s = {} \/ s = {1} \/ s = {2} \/ s = {1, 2} OBVIOUS
  <2>6. ASSUME NEW s \in SUBSET {1, 2} PROVE f[s] = F(f)[s]
    <3> HIDE DEF f, F
    <3>1. s = {} \/ s = {1} \/ s = {2} \/ s = {1, 2}  BY <2>5
    <3> QED BY <3>1, <2>1, <2>3, <2>4
  <2>7. f = F(f) BY <2>6
  <2> QED BY <2>7
<1>5. it = F(it)  BY <1>4
<1>6. it[{}] = w
  <2> HIDE DEF it
  <2> QED BY <1>5
<1>7. it[{1}] = Emit(it[{}], a)
  <2> HIDE DEF it
  <2>1. it[{1}] = F(it)[{1}]  BY <1>5
  <2>2. Max({1}) = 1 /\ {1} \ {1} = {} /\ <<a, b>>[1] = a  BY <1>3
  <2>3. F(it)[{1}] = LET x == Max({1}) IN Emit(it[{1} \ {x}], <<a, b>>[x])
        OBVIOUS
  <2> HIDE DEF F
  <2> QED BY <2>1, <2>2, <2>3
<1>8. it[{1, 2}] = Emit(it[{1}], b)
  <2> HIDE DEF it
  <2> QED BY <1>5, <1>3, <1>9, {1, 2} # {}, {1, 2} \in SUBSET {1, 2}
<1>10. FoldLeft(Emit, w, <<a, b>>) = Emit(Emit(w, a), b)
  BY <1>2, <1>6, <1>7, <1>8
<1> DEFINE v == Emit(w, a)
<1>11. FoldLeft(Emit, w, <<a>>) = v  BY EmitOne
<1> HIDE DEF v
<1>12. FoldLeft(Emit, v, <<b>>) = Emit(v, b)  BY EmitOne
<1> QED BY <1>10, <1>11, <1>12 DEF v

(* A message without frames changes nothing; one frame is received.        *)
LEMMA ReceiveNone == ASSUME NEW c PROVE FoldLeft(receive, c, <<>>) = c
<1>1. DOMAIN <<>> = {}  OBVIOUS
<1> QED BY <1>1 DEF FoldLeft, MapThenFoldSet

(* One frame.                                                              *)
LEMMA ReceiveOne == ASSUME NEW c, NEW frame PROVE FoldLeft(receive, c, <<frame>>) = receive(c, frame)
<1> DEFINE F(it) == [s \in SUBSET {1} |-> IF s = {} THEN c
                         ELSE LET x == Max(s) IN receive(it[s \ {x}], <<frame>>[x])]
           it == CHOOSE it : it = F(it)
<1>1. DOMAIN <<frame>> = {1}  OBVIOUS
<1>2. FoldLeft(receive, c, <<frame>>) = it[{1}]
      BY <1>1 DEF FoldLeft, MapThenFoldSet
<1>3. Max({1}) = 1  BY DEF Max
<1>4. \E f : f = F(f)
  <2> DEFINE f == [s \in SUBSET {1} |-> IF s = {} THEN c ELSE receive(c, frame)]
  <2>1. F(f)[{}] = c  OBVIOUS
  <2>2. f[{1} \ {1}] = c  OBVIOUS
  <2>3. F(f)[{1}] = receive(c, frame)  
    <3> HIDE DEF f
    <3> QED BY <1>3, <2>2
  <2>4. f[{}] = c /\ f[{1}] = receive(c, frame)  OBVIOUS
  <2>5. \A s \in SUBSET {1} : s = {} \/ s = {1} OBVIOUS
  <2>6. ASSUME NEW s \in SUBSET {1} PROVE f[s] = F(f)[s]
    <3> HIDE DEF f, F
    <3> QED BY <2>1, <2>3, <2>4, <2>5
  <2>7. f = F(f) BY <2>6
  <2> QED BY <2>7
<1>5. it = F(it)  BY <1>4
<1>6. it[{1}] = receive(it[{1} \ {1}], frame)
  <2> HIDE DEF it
  <2>1. it[{1}] = F(it)[{1}]  BY <1>5
  <2>2. F(it)[{1}] = receive(it[{1} \ {Max({1})}], <<frame>>[Max({1})])  OBVIOUS
  <2> HIDE DEF F
  <2> QED BY <1>3, <2>1, <2>2
<1>7. it[{}] = c
  <2> HIDE DEF it
  <2> QED BY <1>5
<1>8. {1} \ {1} = {} OBVIOUS
<1> QED BY <1>2, <1>6, <1>7, <1>8

-----------------------------------------------------------------------------
(* What the operators do to the client                                     *)
SameTimers(d, c) ==
    /\ d.connected = c.connected /\ d.onclose = c.onclose
    /\ d.activity = c.activity
    /\ d.pinger = c.pinger /\ d.pingerPeriod = c.pingerPeriod
    /\ d.ponger = c.ponger /\ d.pongerPeriod = c.pongerPeriod

(* subscribe() sends a SUBSCRIBE frame,                                    *)
LEMMA SubscribeFrame ==
    ASSUME NEW destination, NEW headers, NEW counter
    PROVE  subscribeFrame(destination, headers, counter).command = "SUBSCRIBE"
BY DEF subscribeFrame, Frame

(* and leaves timers and callbacks alone.                                  *)
LEMMA Subscribed ==
    ASSUME NEW c, ClientType(c), NEW destination, NEW headers
    PROVE  LET d == subscribe(c, destination, headers)
               f == subscribeFrame(destination, headers, c.counter)
           IN  /\ ClientType(d) /\ SameTimers(d, c) /\ d.threw = c.threw
               /\ d.calls = c.calls
               /\ d.out = Append(c.out, f)
<1> DEFINE f == subscribeFrame(destination, headers, c.counter)
           id == Header(f.headers, "id")
           s == [i \in DOMAIN c.subscriptions \cup {id} |->
                   IF i = id THEN destination ELSE c.subscriptions[i]]
           n == IF Header(headers, "id") = <<>> THEN c.counter + 1 ELSE c.counter
           d == [c EXCEPT !.counter = n, !.subscriptions = s, !.out = Append(c.out, f)]
<1>1. subscribe(c, destination, headers) = d
  BY DEF subscribe, transmit, ClientType
<1> HIDE DEF f, s, n
<1>2. d.counter = n /\ d.subscriptions = s /\ d.out = Append(c.out, f)
      /\ d.calls = c.calls /\ d.threw = c.threw
  BY DEF ClientType
<1>3. SameTimers(d, c)  BY DEF ClientType, SameTimers
<1>4. ClientType(d)  BY <1>2 DEF ClientType
<1> QED BY <1>1, <1>2, <1>3, <1>4 DEF f

(* So does the callback of connect(), which may subscribe.                 *)
LEMMA OnConnectedFacts ==
    ASSUME NEW c, ClientType(c)
    PROVE  LET d == OnConnected(c)
           IN  /\ ClientType(d) /\ SameTimers(d, c) /\ d.threw = c.threw
               /\ d.calls = c.calls
               /\ \/ d.out = c.out
                  \/ /\ \E i \in DOMAIN c.calls : c.calls[i][1] = "connected"
                     /\ \E f : f.command = "SUBSCRIBE" /\ d.out = Append(c.out, f)
<1>1. SameTimers(c, c)  BY DEF SameTimers
<1>2. CASE IsPage /\ \E i \in DOMAIN c.calls : c.calls[i][1] = "connected"
  <2>1. OnConnected(c) = subscribe(c, PageTopic, <<>>)  BY <1>2 DEF OnConnected
  <2> QED BY <1>2, <2>1, Subscribed, SubscribeFrame
<1>3. CASE ~ (IsPage /\ \E i \in DOMAIN c.calls : c.calls[i][1] = "connected")
  <2>1. OnConnected(c) = c  BY <1>3 DEF OnConnected
  <2> QED BY <1>1, <2>1
<1> QED BY <1>2, <1>3

(* The callbacks of a turn, counted: none,                                 *)
LEMMA CountNone ==
    ASSUME NEW c, c.calls = <<>>, NEW callback PROVE Count(c, callback) = 0
<1>1. {i \in DOMAIN c.calls : c.calls[i][1] = callback} = {}  OBVIOUS
<1> QED BY <1>1, FS_EmptySet DEF Count

(* or one.                                                                 *)
LEMMA CountOne ==
    ASSUME NEW c, NEW call, c.calls = <<call>>, NEW callback
    PROVE  Count(c, callback) = IF call[1] = callback THEN 1 ELSE 0
<1>1. {i \in DOMAIN c.calls : c.calls[i][1] = callback}
         = IF call[1] = callback THEN {1} ELSE {}
  OBVIOUS
<1> QED BY <1>1, FS_EmptySet, FS_Singleton DEF Count

(* A turn of the client: only what it does to the socket and the reports   *)
(* leave it.                                                               *)
LEMMA Turn ==
    ASSUME NEW after, ClientType(after), NEW w, HeardType(heard),
           StompTurn(after, w), Count(after, "error") \in Nat
    PROVE  /\ ClientType(stomp') /\ SameTimers(stomp', after)
           /\ Settled'
           /\ \/ wire' = FoldLeft(Emit, w, after.out)
              \/ /\ \E i \in DOMAIN after.calls : after.calls[i][1] = "connected"
                 /\ \E f : /\ f.command = "SUBSCRIBE"
                           /\ wire' = FoldLeft(Emit, w, Append(after.out, f))
           /\ HeardType(heard')
           /\ heard'.left = heard.left
           /\ heard'.errors = IF IsPage THEN heard.errors
                              ELSE heard.errors + Count(after, "error")
<1> DEFINE c == OnConnected(after)
           b == [t \in Topics |-> heard.bodies[t] \o BodiesFor(c, t)]
           e == IF IsPage THEN heard.errors ELSE heard.errors + Count(c, "error")
<1>1. /\ stomp' = [c EXCEPT !.out = <<>>, !.calls = <<>>, !.threw = FALSE]
      /\ wire' = FoldLeft(Emit, w, c.out)
      /\ heard' = [heard EXCEPT !.errors = e, !.bodies = b]
  BY DEF StompTurn, HeardType
<1>2. /\ ClientType(c) /\ SameTimers(c, after) /\ c.calls = after.calls
      /\ \/ c.out = after.out
         \/ /\ \E i \in DOMAIN after.calls : after.calls[i][1] = "connected"
            /\ \E f : f.command = "SUBSCRIBE" /\ c.out = Append(after.out, f)
  BY OnConnectedFacts
<1>3. Count(c, "error") = Count(after, "error")  BY <1>2 DEF Count
<1> HIDE DEF c, b
<1>4. ClientType(stomp')  BY <1>1, <1>2 DEF ClientType
<1>5. SameTimers(stomp', c)  BY <1>1, <1>2 DEF ClientType, SameTimers
<1>6. SameTimers(stomp', after)  BY <1>2, <1>5 DEF SameTimers
<1>7. Settled'  BY <1>1, <1>2 DEF ClientType, Settled
<1>8. e \in Nat  BY <1>3 DEF HeardType
<1>9. HeardType(heard')  BY <1>1, <1>8 DEF HeardType
<1>10. /\ heard'.left = heard.left
       /\ heard'.errors = e
  BY <1>1 DEF HeardType
<1> QED BY <1>1, <1>2, <1>3, <1>4, <1>6, <1>7, <1>9, <1>10

(* What arrives                                                            *)
LEMMA HeartbeatSetUp ==
    ASSUME NEW c, ClientType(c), c.pinger = Off, c.ponger = Off, ~ c.threw,
           NEW version, NEW beat \in {<<>>} \cup (Nat \X Nat)
    PROVE  LET d == setupHeartbeat(c, version, beat)
               beating == version \in BeatingVersions /\ beat # <<>>
           IN  /\ ClientType(d)
               /\ d.connected = c.connected /\ d.onclose = c.onclose
               /\ d.activity = c.activity /\ d.out = c.out /\ d.calls = c.calls
               /\ IF beating /\ Outgoing # 0 /\ beat[2] # 0
                  THEN d.pinger = Max2(Outgoing, beat[2]) /\ d.pingerPeriod = d.pinger
                  ELSE d.pinger = Off
               /\ IF beating /\ Incoming # 0 /\ beat[1] # 0
                  THEN d.ponger = Max2(Incoming, beat[1]) /\ d.pongerPeriod = d.ponger
                  ELSE d.ponger = Off
<1> DEFINE ping == Max2(Outgoing, beat[2])
           pong == Max2(Incoming, beat[1])
           pinging == IF Outgoing = 0 \/ beat[2] = 0 THEN c
                      ELSE [c EXCEPT !.pinger = ping, !.pingerPeriod = ping]
           ponging == IF Incoming = 0 \/ beat[1] = 0 THEN pinging
                      ELSE [pinging EXCEPT !.ponger = pong, !.pongerPeriod = pong]
<1>1. CASE version \notin BeatingVersions
  BY <1>1 DEF setupHeartbeat
<1>2. CASE version \in BeatingVersions /\ beat = <<>>
  <2>1. setupHeartbeat(c, version, beat) = [c EXCEPT !.threw = TRUE]
    BY <1>2 DEF setupHeartbeat
  <2> QED BY <1>2, <2>1 DEF ClientType
<1>3. CASE version \in BeatingVersions /\ beat # <<>>
  <2>1. setupHeartbeat(c, version, beat) = ponging  BY <1>3 DEF setupHeartbeat
  <2>2. beat[1] \in Nat /\ beat[2] \in Nat  BY <1>3
  <2>3. ping \in Nat /\ pong \in Nat  BY <2>2, StompAssumption DEF Max2
  <2> HIDE DEF ping, pong
  <2>4. /\ ClientType(pinging)
        /\ pinging.connected = c.connected /\ pinging.onclose = c.onclose
        /\ pinging.activity = c.activity /\ pinging.out = c.out
        /\ pinging.calls = c.calls /\ pinging.ponger = Off
        /\ IF Outgoing # 0 /\ beat[2] # 0
           THEN pinging.pinger = ping /\ pinging.pingerPeriod = ping
           ELSE pinging.pinger = Off
    BY <2>3 DEF ClientType, Timers
  <2> HIDE DEF pinging
  <2>5. /\ ClientType(ponging)
        /\ ponging.connected = c.connected /\ ponging.onclose = c.onclose
        /\ ponging.activity = c.activity /\ ponging.out = c.out
        /\ ponging.calls = c.calls
        /\ ponging.pinger = pinging.pinger /\ ponging.pingerPeriod = pinging.pingerPeriod
        /\ IF Incoming # 0 /\ beat[1] # 0
           THEN ponging.ponger = pong /\ ponging.pongerPeriod = pong
           ELSE ponging.ponger = Off
    BY <2>3, <2>4 DEF ClientType, Timers
  <2> HIDE DEF ponging
  <2> QED BY <1>3, <2>1, <2>4, <2>5 DEF ping, pong
<1> QED BY <1>1, <1>2, <1>3

(* A heart-beat is a sign of life and nothing else.                        *)
LEMMA ReceivedNothing ==
    ASSUME NEW c, ClientType(c)
    PROVE  LET d == onmessage(c, <<>>)
           IN  /\ ClientType(d) /\ d.activity = 0
               /\ d.connected = c.connected /\ d.onclose = c.onclose
               /\ d.pinger = c.pinger /\ d.pingerPeriod = c.pingerPeriod
               /\ d.ponger = c.ponger /\ d.pongerPeriod = c.pongerPeriod
               /\ d.out = c.out /\ d.calls = c.calls /\ d.threw = c.threw
<1>1. onmessage(c, <<>>) = [c EXCEPT !.activity = 0]
  BY ReceiveNone DEF onmessage
<1> QED BY <1>1 DEF ClientType

(* Any message is a sign of life; then its frame is received.              *)
LEMMA ReceivedFrame ==
    ASSUME NEW c, ClientType(c), NEW frame
    PROVE  onmessage(c, <<frame>>) = receive([c EXCEPT !.activity = 0], frame)
BY ReceiveOne DEF onmessage

(* A callback is all that is added.                                        *)
LEMMA Called ==
    ASSUME NEW c, ClientType(c), c.calls = <<>>,
           NEW callback, NEW destination, NEW body
    PROVE  LET d == Call(c, callback, destination, body)
           IN  /\ ClientType(d) /\ SameTimers(d, c)
               /\ d.out = c.out /\ d.threw = c.threw
               /\ d.calls = <<<<callback, destination, body>>>>
BY DEF Call, ClientType, SameTimers

(* MESSAGE reaches the callback of its subscription, if it still has one.  *)
LEMMA ReceivedMessage ==
    ASSUME NEW c, ClientType(c), c.calls = <<>>, ~ c.threw,
           NEW frame, frame.command = "MESSAGE"
    PROVE  LET d == onmessage(c, <<frame>>)
           IN  /\ ClientType(d) /\ d.activity = 0
               /\ d.connected = c.connected /\ d.onclose = c.onclose
               /\ d.pinger = c.pinger /\ d.pingerPeriod = c.pingerPeriod
               /\ d.ponger = c.ponger /\ d.pongerPeriod = c.pongerPeriod
               /\ d.out = c.out
               /\ \/ d.calls = <<>>
                  \/ \E t, b : d.calls = <<<<"message", t, b>>>>
<1> DEFINE e == [c EXCEPT !.activity = 0]
<1>1. /\ ClientType(e) /\ e.calls = <<>> /\ ~ e.threw /\ e.activity = 0
      /\ e.connected = c.connected /\ e.onclose = c.onclose
      /\ e.pinger = c.pinger /\ e.pingerPeriod = c.pingerPeriod
      /\ e.ponger = c.ponger /\ e.pongerPeriod = c.pongerPeriod
      /\ e.out = c.out
  BY DEF ClientType
<1>2. onmessage(c, <<frame>>) = receive(e, frame)  BY ReceivedFrame
<1> HIDE DEF e
<1>3. receive(e, frame) =
          IF frame.subscription \in DOMAIN e.subscriptions
          THEN Call(e, "message", e.subscriptions[frame.subscription], frame.body)
          ELSE e
  BY <1>1 DEF receive
<1>4. CASE frame.subscription \in DOMAIN e.subscriptions
  <2> DEFINE d == Call(e, "message", e.subscriptions[frame.subscription], frame.body)
  <2>1. /\ ClientType(d) /\ SameTimers(d, e) /\ d.out = e.out
        /\ d.calls = <<<<"message", e.subscriptions[frame.subscription], frame.body>>>>
    BY <1>1, Called
  <2> HIDE DEF d
  <2>2. onmessage(c, <<frame>>) = d  BY <1>2, <1>3, <1>4 DEF d
  <2> QED BY <1>1, <2>1, <2>2 DEF SameTimers
<1>5. CASE frame.subscription \notin DOMAIN e.subscriptions
  BY <1>1, <1>2, <1>3, <1>5
<1> QED BY <1>4, <1>5

(* ERROR reaches the application; the connection stays.                    *)
LEMMA ReceivedError ==
    ASSUME NEW c, ClientType(c), c.calls = <<>>, ~ c.threw,
           NEW frame, frame.command = "ERROR"
    PROVE  LET d == onmessage(c, <<frame>>)
           IN  /\ ClientType(d) /\ d.activity = 0
               /\ d.connected = c.connected /\ d.onclose = c.onclose
               /\ d.pinger = c.pinger /\ d.ponger = c.ponger
               /\ d.out = c.out /\ d.calls = <<<<"error", <<>>, <<>>>>>>
<1> DEFINE e == [c EXCEPT !.activity = 0]
<1>1. /\ ClientType(e) /\ e.calls = <<>> /\ ~ e.threw /\ e.activity = 0
      /\ e.connected = c.connected /\ e.onclose = c.onclose
      /\ e.pinger = c.pinger /\ e.ponger = c.ponger /\ e.out = c.out
  BY DEF ClientType
<1>2. onmessage(c, <<frame>>) = receive(e, frame)  BY ReceivedFrame
<1> HIDE DEF e
<1>3. receive(e, frame) = Call(e, "error", <<>>, <<>>)  BY <1>1 DEF receive
<1> DEFINE d == Call(e, "error", <<>>, <<>>)
<1>4. /\ ClientType(d) /\ SameTimers(d, e) /\ d.out = e.out
      /\ d.calls = <<<<"error", <<>>, <<>>>>>>
  BY <1>1, Called
<1> HIDE DEF d
<1>5. onmessage(c, <<frame>>) = d  BY <1>2, <1>3 DEF d
<1> QED BY <1>1, <1>4, <1>5 DEF SameTimers

(* CONNECTED starts the heart-beat timers, with periods of the two pairs   *)
(* of intervals.                                                           *)
LEMMA ReceivedConnected ==
    ASSUME NEW c, ClientType(c), c.calls = <<>>, ~ c.threw,
           c.pinger = Off, c.ponger = Off,
           NEW frame, frame.command = "CONNECTED",
           frame.beat \in {<<>>} \cup (Nat \X Nat)
    PROVE  LET d == onmessage(c, <<frame>>)
               beat == frame.beat
               beating == frame.version \in BeatingVersions /\ beat # <<>>
           IN  /\ ClientType(d) /\ d.activity = 0
               /\ d.connected /\ d.onclose = c.onclose
               /\ d.out = c.out
               /\ d.calls = <<>> \/ d.calls = <<<<"connected", <<>>, <<>>>>>>
               /\ IF beating /\ Outgoing # 0 /\ beat[2] # 0
                  THEN d.pinger = Max2(Outgoing, beat[2]) /\ d.pingerPeriod = d.pinger
                  ELSE d.pinger = Off
               /\ IF beating /\ Incoming # 0 /\ beat[1] # 0
                  THEN d.ponger = Max2(Incoming, beat[1]) /\ d.pongerPeriod = d.ponger
                  ELSE d.ponger = Off
<1> DEFINE e == [[c EXCEPT !.activity = 0] EXCEPT !.connected = TRUE]
           g == setupHeartbeat(e, frame.version, frame.beat)
           k == Call(g, "connected", <<>>, <<>>)
<1>1. /\ ClientType(e) /\ e.calls = <<>> /\ ~ e.threw /\ e.activity = 0
      /\ e.connected /\ e.onclose = c.onclose
      /\ e.pinger = Off /\ e.ponger = Off /\ e.out = c.out
  BY DEF ClientType
<1>2. onmessage(c, <<frame>>) = IF g.threw THEN g ELSE k
  <2>1. onmessage(c, <<frame>>) = receive([c EXCEPT !.activity = 0], frame)
    BY ReceivedFrame
  <2>2. [c EXCEPT !.activity = 0].threw = FALSE  BY DEF ClientType
  <2> QED BY <2>1, <2>2 DEF receive
<1> HIDE DEF e
<1>3. /\ ClientType(g) /\ g.connected /\ g.onclose = c.onclose
      /\ g.activity = 0 /\ g.out = c.out /\ g.calls = <<>>
      /\ LET beat == frame.beat
             beating == frame.version \in BeatingVersions /\ beat # <<>>
         IN  /\ IF beating /\ Outgoing # 0 /\ beat[2] # 0
                THEN g.pinger = Max2(Outgoing, beat[2]) /\ g.pingerPeriod = g.pinger
                ELSE g.pinger = Off
             /\ IF beating /\ Incoming # 0 /\ beat[1] # 0
                THEN g.ponger = Max2(Incoming, beat[1]) /\ g.pongerPeriod = g.ponger
                ELSE g.ponger = Off
  BY <1>1, HeartbeatSetUp
<1> HIDE DEF g
<1>4. /\ ClientType(k) /\ SameTimers(k, g) /\ k.out = g.out
      /\ k.calls = <<<<"connected", <<>>, <<>>>>>>
  BY <1>3, Called
<1> HIDE DEF k
<1>5. CASE g.threw  BY <1>2, <1>3, <1>5
<1>6. CASE ~ g.threw
  BY <1>2, <1>3, <1>4, <1>6 DEF SameTimers
<1> QED BY <1>5, <1>6

(* The timers, and giving up                                               *)
LEMMA CleanedUp ==
    ASSUME NEW c, ClientType(c)
    PROVE  LET d == cleanUp(c)
           IN  /\ ClientType(d) /\ ~ d.connected /\ d.onclose = c.onclose
               /\ d.pinger = Off /\ d.ponger = Off
               /\ d.out = Append(c.out, Close) /\ d.calls = c.calls
               /\ d.threw = c.threw
BY DEF cleanUp, ClientType, Timers, Off

(* The pinger sends a heart-beat and starts again.                         *)
LEMMA Pinged ==
    ASSUME NEW c, ClientType(c)
    PROVE  LET d == PingerFires(c)
           IN  /\ ClientType(d) /\ d.connected = c.connected
               /\ d.onclose = c.onclose /\ d.activity = c.activity
               /\ d.pinger = c.pingerPeriod /\ d.pingerPeriod = c.pingerPeriod
               /\ d.ponger = c.ponger /\ d.pongerPeriod = c.pongerPeriod
               /\ d.out = Append(c.out, Beat) /\ d.calls = c.calls
BY DEF PingerFires, transmit, ClientType, Timers

(* The ponger starts again when it has seen a sign of life.                *)
LEMMA Waited ==
    ASSUME NEW c, ClientType(c)
    PROVE  LET d == [c EXCEPT !.ponger = c.pongerPeriod]
           IN  /\ ClientType(d) /\ d.connected = c.connected
               /\ d.onclose = c.onclose /\ d.activity = c.activity
               /\ d.pinger = c.pinger /\ d.pingerPeriod = c.pingerPeriod
               /\ d.ponger = c.pongerPeriod /\ d.pongerPeriod = c.pongerPeriod
               /\ d.out = c.out /\ d.calls = c.calls
BY DEF ClientType, Timers

(* Two things sent in a turn.                                              *)
LEMMA TwoOf ==
    ASSUME NEW S, NEW a \in S, NEW b \in S
    PROVE  Append(<<a>>, b) = <<a, b>>
<1> DEFINE s == Append(<<a>>, b)
           t == <<a, b>>
<1>1. <<a>> \in Seq(S) /\ Len(<<a>>) = 1 /\ <<a>>[1] = a  OBVIOUS
<1>2. s \in Seq(S) /\ Len(s) = 2 /\ s[1] = a /\ s[2] = b
  BY <1>1, AppendProperties
<1>3. t \in Seq(S) /\ Len(t) = 2 /\ t[1] = a /\ t[2] = b  OBVIOUS
<1> HIDE DEF s, t
<1>4. \A i \in 1..Len(s) : s[i] = t[i]  BY <1>2, <1>3
<1>5. s = t  BY <1>2, <1>3, <1>4, SeqEqual
<1> QED BY <1>5 DEF s, t

(* The same, from the empty outbox.                                        *)
LEMMA TwoAppended ==
    ASSUME NEW a, NEW b PROVE Append(Append(<<>>, a), b) = <<a, b>>
<1>1. Append(<<>>, a) = <<a>>  OBVIOUS
<1>2. Append(<<a>>, b) = <<a, b>>
  <2> DEFINE S == {a, b}
  <2>1. a \in S /\ b \in S  OBVIOUS
  <2> HIDE DEF S
  <2> QED BY <2>1, TwoOf
<1> QED BY <1>1, <1>2

(* disconnect() stops the timers and says DISCONNECT.                      *)
LEMMA Disconnected ==
    ASSUME NEW c, ClientType(c), c.out = <<>>
    PROVE  LET d == disconnect(c)
           IN  /\ ClientType(d) /\ ~ d.connected /\ ~ d.onclose
               /\ d.pinger = Off /\ d.ponger = Off
               /\ d.out = <<Frame("DISCONNECT", <<>>, <<>>), Close>>
               /\ d.calls = c.calls /\ d.threw = c.threw
<1> DEFINE f == Frame("DISCONNECT", <<>>, <<>>)
           e == [transmit(c, f) EXCEPT !.onclose = FALSE]
<1>1. ClientType(e) /\ ~ e.onclose /\ e.out = Append(c.out, f)
      /\ e.calls = c.calls /\ e.threw = c.threw
  <2> HIDE DEF f
  <2> QED BY DEF transmit, ClientType
<1>2. disconnect(c) = cleanUp(e)  BY DEF disconnect
<1> HIDE DEF e, f
<1>3. LET d == cleanUp(e)
      IN  /\ ClientType(d) /\ ~ d.connected /\ ~ d.onclose
          /\ d.pinger = Off /\ d.ponger = Off
          /\ d.out = Append(Append(c.out, f), Close)
          /\ d.calls = c.calls /\ d.threw = c.threw
  BY <1>1, CleanedUp
<1>4. Append(Append(<<>>, f), Close) = <<f, Close>>  BY TwoAppended
<1> QED BY <1>2, <1>3, <1>4 DEF f

(* unsubscribe() sends its frame only.                                     *)
LEMMA Unsubscribed ==
    ASSUME NEW c, ClientType(c), NEW id
    PROVE  LET d == unsubscribe(c, id)
           IN  /\ ClientType(d) /\ SameTimers(d, c)
               /\ d.out = Append(c.out, unsubscribeFrame(id)) /\ d.calls = c.calls
<1> DEFINE s == [i \in DOMAIN c.subscriptions \ {id} |-> c.subscriptions[i]]
<1>1. unsubscribe(c, id) = [c EXCEPT !.subscriptions = s,
                                     !.out = Append(c.out, unsubscribeFrame(id))]
  BY DEF unsubscribe, transmit, ClientType
<1> HIDE DEF s
<1> QED BY <1>1 DEF ClientType, SameTimers

(* A unit of time brings the timers one nearer to firing.                  *)
LEMMA Elapsed ==
    ASSUME NEW c, ClientType(c), NEW oldest
    PROVE  LET d == Elapse(c, oldest)
           IN  /\ ClientType(d) /\ d.connected = c.connected
               /\ d.onclose = c.onclose
               /\ d.pingerPeriod = c.pingerPeriod /\ d.pongerPeriod = c.pongerPeriod
               /\ d.pinger = IF c.pinger > 0 THEN c.pinger - 1 ELSE c.pinger
               /\ d.ponger = IF c.ponger > 0 THEN c.ponger - 1 ELSE c.ponger
               /\ d.activity \in {c.activity, c.activity + 1}
               /\ d.out = c.out /\ d.calls = c.calls /\ d.threw = c.threw
<1> DEFINE p == IF c.pinger > 0 THEN c.pinger - 1 ELSE c.pinger
           q == IF c.ponger > 0 THEN c.ponger - 1 ELSE c.ponger
           a == IF c.activity < oldest THEN c.activity + 1 ELSE c.activity
<1>1. Elapse(c, oldest) = [c EXCEPT !.pinger = p, !.ponger = q, !.activity = a]
  BY DEF Elapse, ClientType
<1>2. p \in Timers /\ q \in Timers /\ a \in Nat /\ a \in {c.activity, c.activity + 1}
  BY DEF ClientType, Timers, Off
<1> HIDE DEF a
<1>3. p = IF c.pinger > 0 THEN c.pinger - 1 ELSE c.pinger  OBVIOUS
<1>4. q = IF c.ponger > 0 THEN c.ponger - 1 ELSE c.ponger  OBVIOUS
<1> HIDE DEF p, q
<1> QED BY <1>1, <1>2, <1>3, <1>4 DEF ClientType

(* What a step of the client does to its socket                            *)
LEMMA Sent ==
    ASSUME NEW w, WireType(w), NEW f, f.command \notin {"close", "beat"}
    PROVE  LET v == Emit(w, f)
           IN  /\ WireType(v) /\ v.state = w.state /\ v.toClient = w.toClient
               /\ v.age = w.age /\ v.accepted = w.accepted
               /\ v.sinceServer = w.sinceServer /\ v.subs = w.subs
               /\ v.errorFrames = w.errorFrames
               /\ IF w.state \in {"connecting", "open"}
                  THEN v.toServer = Append(w.toServer, f) /\ v.unsent = 0
                  ELSE v = w
BY DEF Emit, WireType

(* A heart-beat resets the time since the client sent anything.            *)
LEMMA SentBeat ==
    ASSUME NEW w, WireType(w)
    PROVE  LET v == Emit(w, Beat)
           IN  /\ WireType(v) /\ v.state = w.state /\ v.toClient = w.toClient
               /\ v.age = w.age /\ v.accepted = w.accepted
               /\ v.sinceServer = w.sinceServer /\ v.subs = w.subs
               /\ v.errorFrames = w.errorFrames
               /\ v.toServer = w.toServer
               /\ w.state = "open" => v.unsent = 0
<1>1. Beat.command = "beat"  BY DEF Beat, Frame
<1> QED BY <1>1 DEF Emit, WireType

(* Closing an open socket is under way until the socket is closed.         *)
LEMMA Closed ==
    ASSUME NEW w, WireType(w)
    PROVE  LET v == Emit(w, Close)
           IN  /\ WireType(v) /\ v.subs = w.subs
               /\ v.errorFrames = w.errorFrames
               /\ v.state = IF w.state \in {"connecting", "open"} THEN "closing"
                            ELSE w.state
<1>1. Close.command = "close"  BY DEF Close, Frame
<1>2. CASE w.state \in {"connecting", "open"}
  <2>1. Emit(w, Close) = [w EXCEPT !.state = "closing", !.toServer = <<>>,
                                   !.toClient = <<>>]
    BY <1>1, <1>2 DEF Emit
  <2> QED BY <1>2, <2>1 DEF WireType
<1>3. CASE w.state \notin {"connecting", "open"}
  <2>1. Emit(w, Close) = w  BY <1>3 DEF Emit
  <2> QED BY <1>3, <2>1
<1> QED BY <1>2, <1>3

-----------------------------------------------------------------------------
(* Each step preserves the invariant                                       *)
LEMMA ConfigType ==
    ASSUME config \in Configurations
    PROVE  /\ config.user \in {"page", "other"}
           /\ config.beat \in {<<>>} \cup (Nat \X Nat)
           /\ config.beat # <<>> => config.beat[1] \in Nat /\ config.beat[2] \in Nat
BY PageAssumption

(* The periods are positive where the two sides have agreed on beats.      *)
LEMMA Periods ==
    ASSUME config \in Configurations
    PROVE  /\ Ponging => PongPeriod \in Nat /\ PongPeriod # 0
                         /\ config.beat[1] \in Nat
           /\ Pinging => PingPeriod \in Nat /\ PingPeriod # 0
<1>1. config.beat # <<>> => config.beat[1] \in Nat /\ config.beat[2] \in Nat
  BY ConfigType
<1> QED BY <1>1, StompAssumption
        DEF Ponging, Pinging, Beating, ServerBeating, PongPeriod, PingPeriod, Max2

(* The invariant holds at first,                                           *)
LEMMA InitInvariant == ASSUME Init PROVE IInv
<1>1. ClientType(stomp) /\ stomp.connected = FALSE /\ stomp.activity = 0
      /\ stomp.pinger = Off /\ stomp.ponger = Off /\ stomp.onclose = TRUE
  BY DEF Init, Client, ClientType, Timers, Off
<1>2. Settled  BY DEF Init, Client, Settled
<1>3. WireType(wire) /\ wire.state = "connecting" /\ wire.accepted = FALSE
      /\ wire.toServer = <<>> /\ wire.toClient = <<>> /\ wire.unsent = 0
      /\ wire.age = 0 /\ DOMAIN wire.subs = {} /\ wire.errorFrames = 0
  BY DEF Init, WireType
<1>4. HeardType(heard) /\ heard.errors = 0 /\ heard.left = FALSE
  BY DEF Init, HeardType
<1>5. TypeOK  BY <1>1, <1>3, <1>4, FS_EmptySet DEF Init, TypeOK
<1>6. Phases  BY <1>1, <1>3, <1>4 DEF Phases, Connecting, Quiet
<1>7. PongerRight /\ PingerRight  BY <1>1 DEF PongerRight, PingerRight
<1>8. InTime  BY <1>3 DEF InTime, Punctual
<1>9. Reports  BY <1>1, <1>3, <1>4 DEF Reports, LossReportedOnce
<1> QED BY <1>2, <1>5, <1>6, <1>7, <1>8, <1>9 DEF IInv

(* The page's other two connections, and its server                        *)
LEMMA ElsewhereInvariant ==
    ASSUME IInv, UNCHANGED <<config, stomp, wire, heard>>, faults' \in Nat
    PROVE  IInv'
<1>1. config' = config /\ stomp' = stomp /\ wire' = wire /\ heard' = heard  OBVIOUS
<1>2. TypeOK' /\ Settled'  BY <1>1 DEF IInv, TypeOK, Settled
<1>3. Phases'
  BY <1>1 DEF IInv, Phases, Connecting, Asking, Refused, Accepted, Serving, Quiet,
              Data
<1>4. PongerRight' /\ PingerRight' /\ InTime'
  BY <1>1 DEF IInv, PongerRight, PingerRight, InTime, Ponging, Pinging, Beating,
              ServerBeating, PongPeriod, PingPeriod, Punctual
<1>5. Reports'  BY <1>1 DEF IInv, Reports, LossReportedOnce, IsPage
<1> QED BY <1>2, <1>3, <1>4, <1>5 DEF IInv

(* A fault is counted.                                                     *)
LEMMA FaultType == ASSUME faults \in Nat, Fault PROVE faults' \in Nat /\ faults' # faults
BY DEF Fault

(* and every step keeps it: the socket opens,                              *)
LEMMA OpensInvariant == ASSUME IInv, StompOpens PROVE IInv'
<1> DEFINE after == onopen(stomp)
           w == [wire EXCEPT !.state = "open"]
<1>1. /\ TypeOK /\ Settled /\ ClientType(stomp) /\ WireType(wire) /\ HeardType(heard)
  BY DEF IInv, TypeOK
<1>2. Connecting /\ wire.state = "connecting"
  BY DEF IInv, Phases, Asking, Refused, Accepted, Serving, StompOpens
<1>3. StompTurn(after, w) /\ config' = config /\ faults' = faults
  BY DEF StompOpens, NotStomp
<1>4. PICK f : f.command = "CONNECT" /\ after = transmit(stomp, f)
  BY DEF onopen, Frame
<1>5. /\ ClientType(after) /\ SameTimers(after, stomp)
      /\ after.out = <<f>> /\ after.calls = <<>>
  <2>1. ClientType(after) /\ SameTimers(after, stomp)
        /\ after.out = Append(stomp.out, f) /\ after.calls = stomp.calls
    BY <1>1, <1>4 DEF transmit, ClientType, SameTimers
  <2> QED BY <1>1, <2>1 DEF Settled
<1>6. /\ WireType(w) /\ w.state = "open" /\ w.toClient = <<>> /\ w.toServer = <<>>
      /\ w.age = 0 /\ ~ w.accepted /\ w.unsent = 0 /\ w.subs = wire.subs
      /\ w.errorFrames = wire.errorFrames
  BY <1>1, <1>2 DEF WireType, Connecting, Quiet
<1> HIDE DEF after, w
<1>7. Count(after, "error") = 0  BY <1>5, CountNone
<1>8. /\ ClientType(stomp') /\ SameTimers(stomp', after) /\ Settled'
      /\ wire' = FoldLeft(Emit, w, <<f>>)
      /\ HeardType(heard')
      /\ heard'.left = heard.left
      /\ heard'.errors = heard.errors
  BY <1>1, <1>3, <1>5, <1>7, Turn DEF HeardType
<1>9. wire' = Emit(w, f)  BY <1>8, EmitOne
<1>10. /\ WireType(wire') /\ wire'.state = "open" /\ wire'.toClient = <<>>
       /\ wire'.age = 0 /\ ~ wire'.accepted /\ wire'.subs = wire.subs
       /\ wire'.errorFrames = wire.errorFrames
       /\ wire'.toServer = <<f>> /\ wire'.unsent = 0
  BY <1>4, <1>6, <1>9, Sent
<1>11. SameTimers(stomp', stomp)  BY <1>5, <1>8 DEF SameTimers
<1>12. TypeOK'  BY <1>1, <1>3, <1>8, <1>10 DEF TypeOK
<1>13. Phases'
  <2>1. f \in Range(wire'.toServer)  BY <1>10 DEF Range
  <2>2. Asking'
    BY <1>2, <1>3, <1>4, <1>8, <1>10, <1>11, <2>1
       DEF Asking, Connecting, Quiet, SameTimers
  <2> QED BY <2>2 DEF Phases
<1>14. PongerRight' /\ PingerRight'
  BY <1>2, <1>11 DEF IInv, Connecting, Quiet, PongerRight, PingerRight, SameTimers
<1>15. InTime'  BY <1>10 DEF InTime, Punctual
<1>16. Reports'
  BY <1>1, <1>2, <1>3, <1>8, <1>10, <1>11
     DEF IInv, Reports, LossReportedOnce, IsPage, SameTimers
<1> QED BY <1>8, <1>12, <1>13, <1>14, <1>15, <1>16 DEF IInv

(* the connection breaks,                                                  *)
LEMMA BreaksInvariant == ASSUME IInv, StompBreaks PROVE IInv'
<1>1. /\ TypeOK /\ Settled /\ ClientType(stomp) /\ WireType(wire) /\ HeardType(heard)
  BY DEF IInv, TypeOK
<1>2. /\ wire.state \in {"connecting", "open"} /\ wire' = Emit(wire, Close)
      /\ config' = config /\ stomp' = stomp /\ heard' = heard
  BY DEF StompBreaks, NotStomp
<1>3. faults' \in Nat  BY FaultType DEF StompBreaks, IInv, TypeOK
<1>4. WireType(wire') /\ wire'.state = "closing" /\ wire'.subs = wire.subs
      /\ wire'.errorFrames = wire.errorFrames
  BY <1>1, <1>2, Closed
<1>5. TypeOK' /\ Settled'
  BY <1>1, <1>2, <1>3, <1>4 DEF TypeOK, Settled
<1>6. Phases'  BY <1>4 DEF Phases
<1>7. PongerRight' /\ PingerRight'
  BY <1>2, <1>4 DEF IInv, PongerRight, PingerRight, Ponging, Pinging, Beating,
                    ServerBeating, PongPeriod, PingPeriod
<1>8. InTime'  BY <1>4 DEF InTime, Punctual
<1>9. Reports'
  BY <1>1, <1>2, <1>4 DEF IInv, Reports, LossReportedOnce, IsPage, HeardType
<1> QED BY <1>5, <1>6, <1>7, <1>8, <1>9 DEF IInv

(* or is closed.                                                           *)
LEMMA ClosesInvariant == ASSUME IInv, StompCloses PROVE IInv'
<1> DEFINE after == onsocketclose(stomp)
           w == [wire EXCEPT !.state = "closed"]
<1>1. /\ TypeOK /\ Settled /\ ClientType(stomp) /\ WireType(wire) /\ HeardType(heard)
  BY DEF IInv, TypeOK
<1>2. wire.state = "closing" /\ StompTurn(after, w) /\ config' = config
      /\ faults' = faults
  BY DEF StompCloses, NotStomp
<1>3. /\ ClientType(after) /\ SameTimers(after, stomp) /\ after.out = <<>>
      /\ after.calls = IF stomp.onclose THEN <<<<"error", <<>>, <<>>>>>> ELSE <<>>
  BY <1>1, Called DEF onsocketclose, Settled, SameTimers
<1>4. WireType(w) /\ w.state = "closed" /\ w.subs = wire.subs
      /\ w.errorFrames = wire.errorFrames
  BY <1>1 DEF WireType
<1> HIDE DEF after, w
<1>5. Count(after, "error") = IF stomp.onclose THEN 1 ELSE 0
  BY <1>3, CountNone, CountOne
<1>6. /\ ClientType(stomp') /\ SameTimers(stomp', after) /\ Settled'
      /\ wire' = FoldLeft(Emit, w, <<>>)
      /\ HeardType(heard')
      /\ heard'.left = heard.left
      /\ heard'.errors = IF IsPage THEN heard.errors
                         ELSE heard.errors + Count(after, "error")
  <2>1. \A i \in DOMAIN after.calls : after.calls[i][1] # "connected"
    BY <1>3
  <2> QED BY <1>1, <1>2, <1>3, <1>5, <2>1, Turn
<1>7. wire' = w  BY <1>6, EmitNone
<1>8. SameTimers(stomp', stomp)  BY <1>3, <1>6 DEF SameTimers
<1>9. TypeOK'  BY <1>1, <1>2, <1>4, <1>6, <1>7 DEF TypeOK
<1>10. Phases'  BY <1>4, <1>7 DEF Phases
<1>11. PongerRight' /\ PingerRight'
  BY <1>2, <1>4, <1>7, <1>8 DEF IInv, PongerRight, PingerRight, Ponging, Pinging,
         Beating, ServerBeating, PongPeriod, PingPeriod, SameTimers
<1>12. InTime'  BY <1>4, <1>7 DEF InTime, Punctual
<1>13. Reports'
  <2>1. IsPage' = IsPage  BY <1>2 DEF IsPage
  <2>2. CASE IsPage  BY <2>1, <2>2 DEF Reports, LossReportedOnce
  <2>3. CASE ~ IsPage
    <3>1. /\ heard.errors = wire.errorFrames /\ heard.errors \in Nat
          /\ stomp.onclose <=> ~ heard.left
      BY <1>1, <1>2, <2>3
         DEF IInv, Reports, LossReportedOnce, WireType, HeardType
    <3>2. /\ heard'.errors = heard.errors + IF stomp.onclose THEN 1 ELSE 0
          /\ wire'.errorFrames = wire.errorFrames /\ wire'.state = "closed"
          /\ heard'.left = heard.left
      BY <1>4, <1>5, <1>6, <1>7, <2>3
    <3>3. CASE heard.left
      BY <2>1, <2>3, <3>1, <3>2, <3>3 DEF Reports, LossReportedOnce
    <3>4. CASE ~ heard.left
      BY <2>1, <2>3, <3>1, <3>2, <3>4 DEF Reports, LossReportedOnce
    <3> QED BY <3>3, <3>4
  <2> QED BY <2>2, <2>3
<1> QED BY <1>6, <1>9, <1>10, <1>11, <1>12, <1>13 DEF IInv

(* What the client has read is out of the way.                             *)
LEMMA Read ==
    ASSUME WireType(wire), NEW n \in Nat
    PROVE  LET w == [wire EXCEPT !.toClient = Tail(@), !.age = 0,
                                 !.errorFrames = @ + n]
           IN  /\ WireType(w) /\ w.state = wire.state /\ w.age = 0
               /\ w.toClient = Tail(wire.toClient) /\ w.toServer = wire.toServer
               /\ w.accepted = wire.accepted /\ w.sinceServer = wire.sinceServer
               /\ w.unsent = wire.unsent /\ w.subs = wire.subs
               /\ w.since = wire.since /\ w.errorFrames = wire.errorFrames + n
<1> DEFINE t == Tail(wire.toClient)
           e == wire.errorFrames + n
<1>1. [wire EXCEPT !.toClient = Tail(@), !.age = 0, !.errorFrames = @ + n]
          = [wire EXCEPT !.toClient = t, !.age = 0, !.errorFrames = e]
  BY DEF WireType
<1>2. e \in Nat  BY DEF WireType
<1> HIDE DEF t, e
<1>3. LET w == [wire EXCEPT !.toClient = t, !.age = 0, !.errorFrames = e]
      IN  /\ WireType(w) /\ w.state = wire.state /\ w.age = 0
          /\ w.toClient = t /\ w.toServer = wire.toServer
          /\ w.accepted = wire.accepted /\ w.sinceServer = wire.sinceServer
          /\ w.unsent = wire.unsent /\ w.subs = wire.subs
          /\ w.since = wire.since /\ w.errorFrames = e
  BY <1>2 DEF WireType
<1> QED BY <1>1, <1>3 DEF t, e

(* Of what reaches the client in one message at most one frame is an ERROR.*)
LEMMA ErrorsOfNone == Errors(<<>>) = 0
<1>1. {i \in DOMAIN <<>> : <<>>[i].command = "ERROR"} = {}  OBVIOUS
<1> QED BY <1>1, FS_EmptySet DEF Errors

(* One frame.                                                              *)
LEMMA ErrorsOfOne ==
    ASSUME NEW frame
    PROVE  Errors(<<frame>>) = IF frame.command = "ERROR" THEN 1 ELSE 0
<1>1. {i \in DOMAIN <<frame>> : <<frame>>[i].command = "ERROR"}
         = IF frame.command = "ERROR" THEN {1} ELSE {}
  OBVIOUS
<1> QED BY <1>1, FS_EmptySet, FS_Singleton DEF Errors

(* A sequence over any set is a sequence.                                  *)
LEMMA Ranged == ASSUME NEW S, NEW s \in Seq(S) PROVE IsSequence(s)
<1> DEFINE T == Range(s)
<1>1. Len(s) \in Nat /\ DOMAIN s = 1 .. Len(s) /\ s = [i \in 1 .. Len(s) |-> s[i]]
  OBVIOUS
<1>2. \A i \in 1 .. Len(s) : s[i] \in T  BY <1>1 DEF Range
<1> HIDE DEF T
<1>3. s \in [1 .. Len(s) -> T]  BY <1>1, <1>2
<1>4. s \in Seq(T)  BY <1>1, <1>3
<1> QED BY <1>4 DEF IsSequence, T

(* A sequence without its first element.                                   *)
LEMMA HeadRead ==
    ASSUME NEW s, IsSequence(s), s # <<>>
    PROVE  /\ IsSequence(Tail(s)) /\ Head(s) = s[1] /\ 1 \in DOMAIN s
           /\ \A i \in DOMAIN Tail(s) : i + 1 \in DOMAIN s /\ Tail(s)[i] = s[i + 1]
<1> DEFINE S == Range(s)
<1>1. s \in Seq(S)  BY DEF IsSequence
<1> HIDE DEF S
<1>2. /\ Tail(s) \in Seq(S) /\ Head(s) = s[1] /\ 1 \in DOMAIN s
      /\ \A i \in DOMAIN Tail(s) : i + 1 \in DOMAIN s /\ Tail(s)[i] = s[i + 1]
  BY <1>1
<1> QED BY <1>2, Ranged

(* One sequence behind another.                                            *)
LEMMA SequenceGrows ==
    ASSUME NEW s, IsSequence(s), NEW t, IsSequence(t)
    PROVE  /\ IsSequence(s \o t)
           /\ \A i \in DOMAIN (s \o t) : \/ \E j \in DOMAIN s : (s \o t)[i] = s[j]
                                         \/ \E j \in DOMAIN t : (s \o t)[i] = t[j]
           /\ s \o t = <<>> => s = <<>> /\ t = <<>>
<1> DEFINE S == Range(s) \cup Range(t)
           u == s \o t
<1>1. s \in Seq(S) /\ t \in Seq(S)
  <2>1. s \in Seq(Range(s)) /\ t \in Seq(Range(t))  BY DEF IsSequence
  <2>2. Range(s) \subseteq S /\ Range(t) \subseteq S  OBVIOUS
  <2> HIDE DEF S
  <2> QED BY <2>1, <2>2, SeqMonotonic
<1> HIDE DEF S
<1>2. u \in Seq(S)  BY <1>1
<1>3. \A i \in DOMAIN u : \/ \E j \in DOMAIN s : u[i] = s[j]
                          \/ \E j \in DOMAIN t : u[i] = t[j]
  <2> TAKE i \in DOMAIN u
  <2>1. i \in 1 .. Len(s) + Len(t)  BY <1>1
  <2>2. CASE i <= Len(s)
    <3>1. u[i] = s[i] /\ i \in DOMAIN s  BY <1>1, <2>1, <2>2
    <3> QED BY <3>1
  <2>3. CASE i > Len(s)
    <3>1. u[i] = t[i - Len(s)] /\ i - Len(s) \in DOMAIN t  BY <1>1, <2>1, <2>3
    <3> QED BY <3>1
  <2> QED BY <1>1, <2>1, <2>2, <2>3
<1>4. u = <<>> => s = <<>> /\ t = <<>>  BY <1>1
<1>5. IsSequence(u)
  <2> HIDE DEF u
  <2> QED BY <1>2, Ranged
<1> QED BY <1>3, <1>4, <1>5

(* The two together.                                                       *)
LEMMA ErrorsCounted ==
    ASSUME wire.toClient # <<>>, Refused \/ Accepted \/ Serving
    PROVE  Errors(Head(wire.toClient)) \in Nat
<1>1. CASE Refused \/ Accepted
  <2>1. PICK f : wire.toClient = <<<<f>>>>  BY <1>1 DEF Refused, Accepted
  <2>2. Head(wire.toClient) = <<f>>  BY <2>1
  <2>3. Errors(<<f>>) \in {0, 1}  BY ErrorsOfOne
  <2> QED BY <2>2, <2>3
<1>2. CASE Serving
  <2>1. Delivered(Head(wire.toClient))  BY <1>2, HeadRead DEF Serving
  <2> DEFINE data == Head(wire.toClient)
  <2> HIDE DEF data
  <2>2. CASE data = <<>>  BY <2>2, ErrorsOfNone DEF data
  <2>3. ASSUME NEW f, data = <<f>> PROVE Errors(data) \in Nat
    <3>1. Errors(<<f>>) \in {0, 1}  BY ErrorsOfOne
    <3> QED BY <2>3, <3>1
  <2> QED BY <2>1, <2>2, <2>3 DEF Delivered, data
<1> QED BY <1>1, <1>2

(* The client receives.                                                    *)
LEMMA ReceivesInvariant ==
    ASSUME IInv, StompReceives PROVE IInv' /\ wire'.state = "open"
<1> DEFINE data == Head(wire.toClient)
           after == onmessage(stomp, data)
           w == [wire EXCEPT !.toClient = Tail(@), !.age = 0,
                             !.errorFrames = @ + Errors(data)]
           Reads(n) ==
               /\ WireType(w) /\ w.state = "open" /\ w.age = 0
               /\ w.toClient = Tail(wire.toClient) /\ w.toServer = wire.toServer
               /\ w.accepted = wire.accepted /\ w.sinceServer = wire.sinceServer
               /\ w.unsent = wire.unsent /\ w.subs = wire.subs
               /\ w.errorFrames = wire.errorFrames + n
<1>1. /\ TypeOK /\ Settled /\ ClientType(stomp) /\ WireType(wire) /\ HeardType(heard)
      /\ config \in Configurations
  BY DEF IInv, TypeOK
<1>2. /\ wire.state = "open" /\ wire.toClient # <<>> /\ StompTurn(after, w)
      /\ config' = config /\ faults' = faults
  BY DEF StompReceives, NotStomp
<1>3. ASSUME NEW n \in Nat, Errors(data) = n PROVE Reads(n)
  BY <1>1, <1>2, <1>3, Read
<1> HIDE DEF w
<1>4. /\ config.user \in {"page", "other"}
      /\ config.beat \in {<<>>} \cup (Nat \X Nat)
      /\ config.beat # <<>> => config.beat[1] \in Nat /\ config.beat[2] \in Nat
  BY <1>1, ConfigType
<1>5. CASE Refused
  <2>1. /\ wire.toClient = <<<<Data("ERROR", <<>>, <<>>)>>>>
        /\ ~ wire.accepted /\ Quiet /\ wire.toServer = <<>>
    BY <1>2, <1>5 DEF Refused
  <2>2. PICK f : f.command = "ERROR" /\ wire.toClient = <<<<f>>>>
    BY <2>1 DEF Data
  <2>19. data = <<f>> /\ Errors(<<f>>) = 1  BY <2>2, ErrorsOfOne
  <2>20. Reads(1)
    <3> HIDE DEF data, Reads
    <3> QED BY <1>3, <2>19
  <2>3. data = <<f>> /\ w.toClient = <<>>  BY <2>19, <2>20, <2>2
  <2>4. /\ ClientType(after) /\ after.activity = 0
        /\ after.connected = stomp.connected /\ after.onclose = stomp.onclose
        /\ after.pinger = stomp.pinger /\ after.ponger = stomp.ponger
        /\ after.out = <<>> /\ after.calls = <<<<"error", <<>>, <<>>>>>>
    BY <1>1, <2>2, <2>3, ReceivedError DEF Settled
  <2> HIDE DEF data, after
  <2>5. Count(after, "error") = 1  BY <2>4, CountOne
  <2>6. \A i \in DOMAIN after.calls : after.calls[i][1] # "connected"  BY <2>4
  <2>7. /\ ClientType(stomp') /\ SameTimers(stomp', after) /\ Settled'
        /\ wire' = FoldLeft(Emit, w, <<>>)
        /\ HeardType(heard')
        /\ heard'.left = heard.left
        /\ heard'.errors = IF IsPage THEN heard.errors ELSE heard.errors + 1
    BY <1>1, <1>2, <2>4, <2>5, <2>6, Turn
  <2>8. wire' = w  BY <2>7, EmitNone
  <2>9. ~ stomp'.connected /\ stomp'.activity = 0 /\ stomp'.onclose = stomp.onclose
        /\ stomp'.pinger = Off /\ stomp'.ponger = Off
    BY <2>1, <2>4, <2>7 DEF IInv, PongerRight, PingerRight, SameTimers, Quiet
  <2>10. TypeOK'  BY <1>1, <1>2, <2>20, <2>7, <2>8 DEF TypeOK
  <2>11. Refused'
    BY <1>2, <2>20, <2>1, <2>3, <2>7, <2>8, <2>9
       DEF Refused, Quiet, HeardType
  <2>12. PongerRight' /\ PingerRight'  BY <2>9 DEF PongerRight, PingerRight
  <2>13. InTime'  BY <2>20, <2>1, <2>8 DEF InTime, Punctual
  <2>14. Reports'
    BY <1>1, <1>2, <2>20, <2>7, <2>8, <2>9
       DEF IInv, Reports, LossReportedOnce, IsPage, WireType, HeardType
  <2> QED BY <2>7, <2>10, <2>11, <2>12, <2>13, <2>14
          DEF IInv, Phases, Refused, Serving
<1>6. CASE Accepted
  <2>1. /\ wire.toClient = <<<<Data("CONNECTED", <<>>, <<>>)>>>>
        /\ wire.accepted /\ Quiet /\ wire.toServer = <<>>
    BY <1>6 DEF Accepted
  <2> DEFINE f == Data("CONNECTED", <<>>, <<>>)
  <2>2. /\ f.command = "CONNECTED" /\ f.version = config.version
        /\ f.beat = config.beat
    BY DEF Data
  <2>19. data = <<f>> /\ Errors(<<f>>) = 0  BY <2>1, <2>2, ErrorsOfOne
  <2>20. Reads(0) /\ w.errorFrames = wire.errorFrames
    <3>1. Reads(0)
      <4> HIDE DEF data, Reads
      <4> QED BY <1>3, <2>19
    <3> QED BY <1>1, <3>1 DEF WireType
  <2>3. data = <<f>> /\ w.toClient = <<>>  BY <2>19, <2>20, <2>1
  <2>4. stomp.pinger = Off /\ stomp.ponger = Off /\ stomp.onclose = stomp.onclose
    BY <2>1 DEF IInv, PongerRight, PingerRight, Quiet
  <2> HIDE DEF f
  <2>5. /\ ClientType(after) /\ after.activity = 0
        /\ after.connected /\ after.onclose = stomp.onclose
        /\ after.out = <<>>
        /\ after.calls = <<>> \/ after.calls = <<<<"connected", <<>>, <<>>>>>>
        /\ IF Pinging
           THEN after.pinger = PingPeriod /\ after.pingerPeriod = PingPeriod
           ELSE after.pinger = Off
        /\ IF Ponging
           THEN after.ponger = PongPeriod /\ after.pongerPeriod = PongPeriod
           ELSE after.ponger = Off
    <3> HIDE DEF data
    <3>1. stomp.calls = <<>> /\ ~ stomp.threw /\ stomp.out = <<>>  BY <1>1 DEF Settled
    <3>2. f.beat \in {<<>>} \cup (Nat \X Nat)  BY <1>4, <2>2
    <3> DEFINE d == onmessage(stomp, <<f>>)
    <3>3. /\ ClientType(d) /\ d.activity = 0
          /\ d.connected /\ d.onclose = stomp.onclose
          /\ d.out = <<>>
          /\ d.calls = <<>> \/ d.calls = <<<<"connected", <<>>, <<>>>>>>
          /\ IF (f.version \in BeatingVersions /\ f.beat # <<>>)
                /\ Outgoing # 0 /\ f.beat[2] # 0
             THEN d.pinger = Max2(Outgoing, f.beat[2]) /\ d.pingerPeriod = d.pinger
             ELSE d.pinger = Off
          /\ IF (f.version \in BeatingVersions /\ f.beat # <<>>)
                /\ Incoming # 0 /\ f.beat[1] # 0
             THEN d.ponger = Max2(Incoming, f.beat[1]) /\ d.pongerPeriod = d.ponger
             ELSE d.ponger = Off
      BY <1>1, <2>2, <2>4, <3>1, <3>2, ReceivedConnected
    <3> HIDE DEF d
    <3>4. /\ Pinging <=> (f.version \in BeatingVersions /\ f.beat # <<>>)
                         /\ Outgoing # 0 /\ f.beat[2] # 0
          /\ Ponging <=> (f.version \in BeatingVersions /\ f.beat # <<>>)
                         /\ Incoming # 0 /\ f.beat[1] # 0
          /\ PingPeriod = Max2(Outgoing, f.beat[2])
          /\ PongPeriod = Max2(Incoming, f.beat[1])
      BY <2>2 DEF Pinging, Ponging, Beating, ServerBeating, PingPeriod, PongPeriod
    <3>5. after = d  BY <2>3 DEF d
    <3> HIDE DEF after
    <3> QED BY <3>3, <3>4, <3>5
  <2> HIDE DEF data, after
  <2>6. Count(after, "error") = 0  BY <2>5, CountNone, CountOne
  <2>7. /\ ClientType(stomp') /\ SameTimers(stomp', after) /\ Settled'
        /\ \/ wire' = FoldLeft(Emit, w, after.out)
           \/ \E g : /\ g.command = "SUBSCRIBE"
                     /\ wire' = FoldLeft(Emit, w, Append(after.out, g))
        /\ HeardType(heard')
        /\ heard'.left = heard.left
        /\ heard'.errors = IF IsPage THEN heard.errors ELSE heard.errors + 0
    <3>1. Count(after, "error") \in Nat  BY <2>6
    <3>2. /\ ClientType(stomp') /\ SameTimers(stomp', after) /\ Settled'
          /\ \/ wire' = FoldLeft(Emit, w, after.out)
             \/ /\ \E i \in DOMAIN after.calls : after.calls[i][1] = "connected"
                /\ \E g : /\ g.command = "SUBSCRIBE"
                          /\ wire' = FoldLeft(Emit, w, Append(after.out, g))
          /\ HeardType(heard')
          /\ heard'.left = heard.left
          /\ heard'.errors = IF IsPage THEN heard.errors
                             ELSE heard.errors + Count(after, "error")
      BY <1>1, <1>2, <2>5, <3>1, Turn
    <3> QED BY <2>6, <3>2
  <2>8. heard'.errors = heard.errors  BY <1>1, <2>7 DEF HeardType
  <2>9. /\ WireType(wire') /\ wire'.state = "open" /\ wire'.toClient = <<>>
        /\ wire'.age = 0 /\ wire'.accepted /\ wire'.sinceServer = wire.sinceServer
        /\ wire'.subs = wire.subs /\ wire'.unsent = 0
        /\ wire'.errorFrames = wire.errorFrames
        /\ \/ wire'.toServer = <<>>
           \/ \E g : g.command = "SUBSCRIBE" /\ wire'.toServer = <<g>>
    <3>1. CASE wire' = FoldLeft(Emit, w, after.out)
      <4>1. wire' = w  BY <2>5, <3>1, EmitNone
      <4> QED BY <2>20, <2>1, <2>3, <4>1 DEF Quiet, WireType
    <3>2. ASSUME NEW g, g.command = "SUBSCRIBE",
                 wire' = FoldLeft(Emit, w, Append(after.out, g))
          PROVE  /\ WireType(wire') /\ wire'.state = "open" /\ wire'.toClient = <<>>
                 /\ wire'.age = 0 /\ wire'.accepted
                 /\ wire'.sinceServer = wire.sinceServer
                 /\ wire'.subs = wire.subs /\ wire'.unsent = 0
                 /\ wire'.errorFrames = wire.errorFrames
                 /\ wire'.toServer = <<g>>
      <4>1. Append(after.out, g) = <<g>>  BY <2>5
      <4>2. wire' = Emit(w, g)  BY <3>2, <4>1, EmitOne
      <4>3. g.command \notin {"close", "beat"}  BY <3>2
      <4>4. /\ WireType(wire') /\ wire'.state = w.state
            /\ wire'.toClient = w.toClient
            /\ wire'.age = w.age /\ wire'.accepted = w.accepted
            /\ wire'.sinceServer = w.sinceServer
            /\ wire'.subs = w.subs /\ wire'.errorFrames = w.errorFrames
            /\ wire'.unsent = 0 /\ wire'.toServer = Append(w.toServer, g)
        BY <2>20, <4>2, <4>3, Sent
      <4>5. Append(w.toServer, g) = <<g>>  BY <2>20, <2>1
      <4> QED BY <2>20, <2>1, <2>3, <4>4, <4>5
    <3> QED BY <2>7, <3>1, <3>2
  <2>10. TypeOK'  BY <1>1, <1>2, <2>7, <2>9 DEF TypeOK
  <2>11. Serving'
    <3>1. IsSequence(wire'.toServer)
          /\ \A i \in DOMAIN wire'.toServer : AboutSubscription(wire'.toServer[i])
      <4>1. CASE wire'.toServer = <<>>  BY <4>1 DEF IsSequence
      <4>2. ASSUME NEW g, g.command = "SUBSCRIBE", wire'.toServer = <<g>>
            PROVE  <3>1
        <5>1. Range(<<g>>) = {g}  BY DEF Range
        <5> QED BY <4>2, <5>1 DEF IsSequence, AboutSubscription
      <4> QED BY <2>9, <4>1, <4>2
    <3>2. IsSequence(wire'.toClient)  BY <2>9 DEF IsSequence
    <3>3. stomp'.connected  BY <2>5, <2>7 DEF SameTimers
    <3> QED BY <2>9, <3>1, <3>2, <3>3 DEF Serving
  <2>12. PongerRight' /\ PingerRight'
    <3>1. /\ (Ponging <=> Ponging') /\ (Pinging <=> Pinging')
          /\ PongPeriod' = PongPeriod /\ PingPeriod' = PingPeriod
      BY <1>2 DEF Ponging, Pinging, Beating, ServerBeating, PongPeriod, PingPeriod
    <3>2. /\ Ponging => PongPeriod \in Nat
          /\ Pinging => PingPeriod \in Nat
      BY <1>1, Periods
    <3> QED BY <2>5, <2>7, <2>9, <3>1, <3>2
            DEF PongerRight, PingerRight, SameTimers
  <2>13. InTime'
    <3>1. stomp'.activity = 0  BY <2>5, <2>7 DEF SameTimers
    <3>2. Punctual' => Punctual  BY <1>2, <2>1 DEF Punctual, ServerBeating
    <3>3. wire'.sinceServer \in Nat /\ MaxDelay \in Nat
      BY <2>9, PageAssumption DEF WireType
    <3> QED BY <1>2, <2>9, <3>1, <3>2, <3>3 DEF IInv, InTime
  <2>14. Reports'
    BY <1>1, <1>2, <2>5, <2>7, <2>8, <2>9
       DEF IInv, Reports, LossReportedOnce, IsPage, SameTimers, WireType, HeardType
  <2> QED BY <2>7, <2>10, <2>11, <2>12, <2>13, <2>14
          DEF IInv, Phases, Refused, Serving
<1>7. CASE Serving
  <2>1. /\ wire.accepted /\ stomp.connected
        /\ IsSequence(wire.toServer)
        /\ \A i \in DOMAIN wire.toServer : AboutSubscription(wire.toServer[i])
        /\ IsSequence(wire.toClient)
        /\ \A i \in DOMAIN wire.toClient : Delivered(wire.toClient[i])
    BY <1>7 DEF Serving
  <2>18. Delivered(data)  BY <1>2, <2>1, HeadRead
  <2>19. Errors(data) = 0
    <3> HIDE DEF data
    <3>1. CASE data = <<>>  BY <3>1, ErrorsOfNone
    <3>2. ASSUME NEW f, f.command = "MESSAGE", data = <<f>> PROVE <2>19
      BY <3>2, ErrorsOfOne
    <3> QED BY <2>18, <3>1, <3>2 DEF Delivered
  <2>20. Reads(0) /\ w.errorFrames = wire.errorFrames
    <3>1. Reads(0)
      <4> HIDE DEF data, Reads
      <4> QED BY <1>3, <2>19
    <3> QED BY <1>1, <3>1 DEF WireType
  <2>2. /\ IsSequence(w.toClient)
        /\ \A i \in DOMAIN w.toClient : Delivered(w.toClient[i])
        /\ Delivered(data)
    BY <1>2, <2>20, <2>1, HeadRead
  <2>3. /\ ClientType(after) /\ after.activity = 0
        /\ after.connected /\ after.onclose = stomp.onclose
        /\ after.pinger = stomp.pinger /\ after.pingerPeriod = stomp.pingerPeriod
        /\ after.ponger = stomp.ponger /\ after.pongerPeriod = stomp.pongerPeriod
        /\ after.out = <<>>
        /\ after.calls = <<>> \/ \E t, b : after.calls = <<<<"message", t, b>>>>
    <3> HIDE DEF data
    <3>1. CASE data = <<>>
      BY <1>1, <2>1, <3>1, ReceivedNothing DEF Settled
    <3>2. ASSUME NEW f, f.command = "MESSAGE", data = <<f>> PROVE <2>3
      BY <1>1, <2>1, <3>2, ReceivedMessage DEF Settled
    <3> QED BY <2>2, <3>1, <3>2 DEF Delivered
  <2> HIDE DEF data, after
  <2>4. Count(after, "error") = 0  BY <2>3, CountNone, CountOne
  <2>5. \A i \in DOMAIN after.calls : after.calls[i][1] # "connected"  BY <2>3
  <2>6. /\ ClientType(stomp') /\ SameTimers(stomp', after) /\ Settled'
        /\ wire' = FoldLeft(Emit, w, <<>>)
        /\ HeardType(heard')
        /\ heard'.left = heard.left
        /\ heard'.errors = IF IsPage THEN heard.errors ELSE heard.errors + 0
    BY <1>1, <1>2, <2>3, <2>4, <2>5, Turn
  <2>7. heard'.errors = heard.errors  BY <1>1, <2>6 DEF HeardType
  <2>8. wire' = w  BY <2>6, EmitNone
  <2>9. /\ stomp'.connected /\ stomp'.activity = 0 /\ stomp'.onclose = stomp.onclose
        /\ stomp'.pinger = stomp.pinger /\ stomp'.pingerPeriod = stomp.pingerPeriod
        /\ stomp'.ponger = stomp.ponger /\ stomp'.pongerPeriod = stomp.pongerPeriod
    BY <2>3, <2>6 DEF SameTimers
  <2>10. TypeOK'  BY <1>1, <1>2, <2>20, <2>6, <2>8 DEF TypeOK
  <2>11. Serving'
    BY <1>2, <2>20, <2>1, <2>2, <2>6, <2>7, <2>8, <2>9 DEF Serving
  <2>12. PongerRight' /\ PingerRight'
    <3>1. /\ (Ponging <=> Ponging') /\ (Pinging <=> Pinging')
          /\ PongPeriod' = PongPeriod /\ PingPeriod' = PingPeriod
      BY <1>2 DEF Ponging, Pinging, Beating, ServerBeating, PongPeriod, PingPeriod
    <3>2. Ponging => PongPeriod \in Nat  BY <1>1, Periods
    <3>3. PongerRight'  BY <2>1, <2>9, <3>1, <3>2 DEF IInv, PongerRight
    <3>4. PingerRight'
      BY <1>2, <2>20, <2>1, <2>8, <2>9, <3>1 DEF IInv, PingerRight
    <3> QED BY <3>3, <3>4
  <2>13. InTime'
    <3>2. Punctual' => Punctual /\ config.beat[1] \in Nat
      BY <1>2, <2>20, <1>4, <2>1, <2>8 DEF Punctual, ServerBeating
    <3>3. wire'.sinceServer \in Nat /\ MaxDelay \in Nat
      BY <2>20, <2>8, PageAssumption DEF WireType
    <3> QED BY <1>2, <2>20, <2>8, <2>9, <3>2, <3>3 DEF IInv, InTime
  <2>14. Reports'
    BY <1>1, <1>2, <2>20, <2>6, <2>8, <2>9
       DEF IInv, Reports, LossReportedOnce, IsPage
  <2> QED BY <2>6, <2>10, <2>11, <2>12, <2>13, <2>14
          DEF IInv, Phases, Refused, Serving
<1> QED BY <1>2, <1>5, <1>6, <1>7 DEF IInv, Phases, Connecting, Asking

(* What was negotiated depends on the configuration only.                  *)
LEMMA SamePeriods ==
    ASSUME config' = config
    PROVE  /\ (Ponging <=> Ponging') /\ (Pinging <=> Pinging')
           /\ PongPeriod' = PongPeriod /\ PingPeriod' = PingPeriod
           /\ IsPage' = IsPage
BY DEF Ponging, Pinging, Beating, ServerBeating, PongPeriod, PingPeriod, IsPage

(* Only a client that the broker serves, or whose socket is gone, is       *)
(* connected.                                                              *)
LEMMA ConnectedPhase ==
    ASSUME IInv, stomp.connected
    PROVE  Serving \/ wire.state \in {"closing", "closed"}
BY DEF IInv, Phases, Connecting, Asking, Refused, Accepted, Quiet

(* A frame about a subscription goes out,                                  *)
LEMMA ClientSends ==
    ASSUME IInv, stomp.connected, NEW f, AboutSubscription(f), wire' = Emit(wire, f),
           ClientType(stomp'), SameTimers(stomp', stomp), Settled',
           HeardType(heard'), heard'.errors = heard.errors,
           heard'.left = heard.left,
           config' = config, faults' = faults
    PROVE  IInv' /\ wire'.state = wire.state
<1>1. TypeOK /\ ClientType(stomp) /\ WireType(wire)  BY DEF IInv, TypeOK
<1>2. f.command \notin {"close", "beat"}  BY DEF AboutSubscription
<1>3. /\ WireType(wire') /\ wire'.state = wire.state
      /\ wire'.toClient = wire.toClient
      /\ wire'.age = wire.age /\ wire'.accepted = wire.accepted
      /\ wire'.sinceServer = wire.sinceServer /\ wire'.subs = wire.subs
      /\ wire'.errorFrames = wire.errorFrames
      /\ IF wire.state \in {"connecting", "open"}
         THEN wire'.toServer = Append(wire.toServer, f) /\ wire'.unsent = 0
         ELSE wire' = wire
  BY <1>1, <1>2, Sent
<1>4. TypeOK'  BY <1>1, <1>3 DEF TypeOK
<1>5. Phases'
  <2>1. CASE Serving
    <3>1. /\ wire.state = "open" /\ IsSequence(wire.toServer)
          /\ \A i \in DOMAIN wire.toServer : AboutSubscription(wire.toServer[i])
      BY <2>1 DEF Serving
    <3>2. IsSequence(<<f>>) /\ \A i \in DOMAIN <<f>> : <<f>>[i] = f
      <4>1. <<f>> \in Seq({f})  OBVIOUS
      <4>2. IsSequence(<<f>>)  BY <4>1, Ranged
      <4> QED BY <4>2
    <3>3. wire'.toServer = wire.toServer \o <<f>>
      <4>1. wire.toServer \in Seq(Range(wire.toServer) \cup {f})
        <5> DEFINE S == Range(wire.toServer)
        <5>1. wire.toServer \in Seq(S)  BY <3>1 DEF IsSequence
        <5> HIDE DEF S
        <5>2. wire.toServer \in Seq(S \cup {f})  BY <5>1, SeqMonotonic
        <5> QED BY <5>2 DEF S
      <4> DEFINE T == Range(wire.toServer) \cup {f}
      <4>2. f \in T  OBVIOUS
      <4> HIDE DEF T
      <4>3. Append(wire.toServer, f) = wire.toServer \o <<f>>
        BY <4>1, <4>2 DEF T
      <4> QED BY <1>3, <3>1, <4>3
    <3>4. /\ IsSequence(wire'.toServer)
          /\ \A i \in DOMAIN wire'.toServer :
                 \/ \E j \in DOMAIN wire.toServer : wire'.toServer[i] = wire.toServer[j]
                 \/ wire'.toServer[i] = f
      BY <3>1, <3>2, <3>3, SequenceGrows
    <3>5. \A i \in DOMAIN wire'.toServer : AboutSubscription(wire'.toServer[i])
      BY <3>1, <3>4
    <3>6. Serving'
      BY <1>3, <2>1, <3>4, <3>5 DEF Serving, SameTimers
    <3> QED BY <3>6 DEF Phases
  <2>2. CASE wire.state \in {"closing", "closed"}
    BY <1>3, <2>2 DEF Phases
  <2> QED BY <2>1, <2>2, ConnectedPhase
<1>6. PongerRight'  BY SamePeriods DEF IInv, PongerRight, SameTimers
<1>7. PingerRight'
  <2>1. CASE Pinging
    <3>1. /\ stomp.pingerPeriod = PingPeriod /\ stomp.pinger \in 0 .. PingPeriod
          /\ wire.state = "open" => wire.unsent <= PingPeriod - stomp.pinger
      BY <2>1 DEF IInv, PingerRight
    <3>2. PingPeriod \in Nat  BY <1>1, <2>1, Periods DEF TypeOK
    <3>3. wire'.state = "open" => wire'.unsent <= PingPeriod - stomp'.pinger
      BY <1>3, <3>1, <3>2 DEF SameTimers
    <3> QED BY <2>1, <3>1, <3>3, SamePeriods DEF PingerRight, SameTimers
  <2>2. CASE ~ Pinging
    BY <2>2, SamePeriods DEF IInv, PingerRight, SameTimers
  <2> QED BY <2>1, <2>2
<1>8. InTime'
  BY <1>3 DEF IInv, InTime, Punctual, ServerBeating, SameTimers
<1>9. Reports'
  BY <1>3, SamePeriods DEF IInv, Reports, LossReportedOnce, SameTimers
<1> QED BY <1>3, <1>4, <1>5, <1>6, <1>7, <1>8, <1>9 DEF IInv

(* of subscribe(),                                                         *)
LEMMA SubscribesInvariant ==
    ASSUME IInv, OtherSubscribes PROVE IInv' /\ wire'.state = wire.state
<1>1. /\ ClientType(stomp) /\ stomp.out = <<>> /\ stomp.calls = <<>> /\ ~ stomp.threw
      /\ HeardType(heard)
  BY DEF IInv, TypeOK, Settled
<1>2. /\ stomp.connected /\ heard' = [heard EXCEPT !.subscriptions = @ + 1]
      /\ config' = config /\ faults' = faults
  BY DEF OtherSubscribes, NotStomp
<1>3. PICK t, headers :
          LET c == subscribe(stomp, t, headers)
          IN  stomp' = [c EXCEPT !.out = <<>>] /\ wire' = FoldLeft(Emit, wire, c.out)
  BY DEF OtherSubscribes
<1> DEFINE c == subscribe(stomp, t, headers)
           f == subscribeFrame(t, headers, stomp.counter)
<1>4. /\ ClientType(c) /\ SameTimers(c, stomp) /\ ~ c.threw /\ c.calls = <<>>
      /\ c.out = <<f>>
  BY <1>1, Subscribed
<1>5. AboutSubscription(f)  BY SubscribeFrame DEF AboutSubscription
<1>6. stomp' = [c EXCEPT !.out = <<>>] /\ wire' = FoldLeft(Emit, wire, c.out)
  BY <1>3
<1> HIDE DEF c, f
<1>7. wire' = Emit(wire, f)  BY <1>4, <1>6, EmitOne
<1>8. ClientType(stomp') /\ SameTimers(stomp', stomp) /\ Settled'
  BY <1>4, <1>6 DEF ClientType, SameTimers, Settled
<1>9. /\ HeardType(heard') /\ heard'.errors = heard.errors
      /\ heard'.left = heard.left
  BY <1>1, <1>2 DEF HeardType
<1> QED BY <1>2, <1>5, <1>7, <1>8, <1>9, ClientSends

(* of unsubscribe().                                                       *)
LEMMA UnsubscribesInvariant ==
    ASSUME IInv, OtherUnsubscribes PROVE IInv' /\ wire'.state = wire.state
<1>1. /\ ClientType(stomp) /\ stomp.out = <<>> /\ stomp.calls = <<>>
      /\ HeardType(heard)
  BY DEF IInv, TypeOK, Settled
<1>2. /\ stomp.connected /\ config' = config /\ faults' = faults
  BY DEF OtherUnsubscribes, NotStomp
<1>3. PICK id : StompTurn(unsubscribe(stomp, id), wire)  BY DEF OtherUnsubscribes
<1> DEFINE c == unsubscribe(stomp, id)
           f == unsubscribeFrame(id)
<1>4. /\ ClientType(c) /\ SameTimers(c, stomp) /\ c.calls = <<>> /\ c.out = <<f>>
  BY <1>1, Unsubscribed
<1>5. AboutSubscription(f)  BY DEF AboutSubscription, unsubscribeFrame, Frame
<1>6. StompTurn(c, wire)  BY <1>3
<1> HIDE DEF c, f
<1>7. Count(c, "error") = 0  BY <1>4, CountNone
<1>8. \A i \in DOMAIN c.calls : c.calls[i][1] # "connected"  BY <1>4
<1>9. /\ ClientType(stomp') /\ SameTimers(stomp', c) /\ Settled'
      /\ wire' = FoldLeft(Emit, wire, <<f>>)
      /\ HeardType(heard')
      /\ heard'.left = heard.left
      /\ heard'.errors = IF IsPage THEN heard.errors ELSE heard.errors + 0
  BY <1>1, <1>4, <1>6, <1>7, <1>8, Turn
<1>10. heard'.errors = heard.errors  BY <1>1, <1>9 DEF HeardType
<1>11. wire' = Emit(wire, f)  BY <1>9, EmitOne
<1>12. SameTimers(stomp', stomp)  BY <1>4, <1>9 DEF SameTimers
<1> QED BY <1>2, <1>5, <1>9, <1>10, <1>11, <1>12, ClientSends

(* The client ends the connection with its timers off.                     *)
LEMMA EndsInvariant ==
    ASSUME IInv, ClientType(stomp'), ~ stomp'.connected,
           stomp'.pinger = Off, stomp'.ponger = Off, Settled',
           WireType(wire'), wire'.subs = wire.subs,
           wire'.state \in {"closing", "closed"},
           HeardType(heard'), config' = config, faults' \in Nat, Reports'
    PROVE  IInv'
<1>1. TypeOK'  BY DEF IInv, TypeOK
<1>2. Phases' /\ PongerRight' /\ PingerRight' /\ InTime'
  BY DEF Phases, PongerRight, PingerRight, InTime, Punctual
<1> QED BY <1>1, <1>2 DEF IInv

(* When the client is connected and the ponger fires, it gives up only     *)
(* after two periods without a sign of life, which no punctual server      *)
(* leaves it.                                                              *)
LEMMA Patient ==
    ASSUME IInv, config.punctual, wire.state = "open", Ponging, stomp.connected
    PROVE  ~ (stomp.activity > 2 * stomp.pongerPeriod)
<1>1. Serving  BY ConnectedPhase
<1>2. Punctual  BY <1>1 DEF Serving, Punctual, Ponging
<1>3. /\ wire.sinceServer <= config.beat[1] /\ wire.age <= MaxDelay
      /\ IF wire.toClient = <<>>
         THEN wire.age = 0 /\ stomp.activity <= wire.sinceServer
         ELSE stomp.activity <= config.beat[1] + wire.age
  BY <1>2 DEF IInv, InTime
<1>4. /\ config \in Configurations /\ config.beat # <<>> /\ Incoming # 0
  BY DEF IInv, TypeOK, Ponging, ServerBeating
<1>5. config.beat[1] + MaxDelay <= 2 * PongPeriod
  BY <1>4, DelayAssumption DEF PongPeriod
<1>6. stomp.pongerPeriod = PongPeriod  BY DEF IInv, PongerRight
<1>7. /\ config.beat[1] \in Nat /\ PongPeriod \in Nat /\ MaxDelay \in Nat
      /\ wire.sinceServer \in Nat /\ wire.age \in Nat /\ stomp.activity \in Nat
  BY <1>4, Periods, PageAssumption DEF IInv, TypeOK, WireType, ClientType
<1> HIDE DEF PongPeriod
<1> QED BY <1>3, <1>5, <1>6, <1>7

(* The timers fire; a punctual server is not given up.                     *)
LEMMA TimerInvariant ==
    ASSUME IInv, StompTimer
    PROVE  /\ IInv'
           /\ config.punctual /\ wire.state = "open" => wire'.state = "open"
<1>1. /\ TypeOK /\ ClientType(stomp) /\ WireType(wire) /\ HeardType(heard)
      /\ stomp.out = <<>> /\ stomp.calls = <<>> /\ config \in Configurations
  BY DEF IInv, TypeOK, Settled
<1>2. config' = config /\ faults' = faults  BY DEF StompTimer, NotStomp
<1>3. CASE stomp.pinger = 0 /\ StompTurn(PingerFires(stomp), wire)
  <2> DEFINE c == PingerFires(stomp)
  <2>1. /\ ClientType(c) /\ c.connected = stomp.connected
        /\ c.onclose = stomp.onclose /\ c.activity = stomp.activity
        /\ c.pinger = stomp.pingerPeriod /\ c.pingerPeriod = stomp.pingerPeriod
        /\ c.ponger = stomp.ponger /\ c.pongerPeriod = stomp.pongerPeriod
        /\ c.out = <<Beat>> /\ c.calls = <<>>
    <3>1. Append(<<>>, Beat) = <<Beat>>  OBVIOUS
    <3> QED BY <1>1, <3>1, Pinged
  <2>2. StompTurn(c, wire)  BY <1>3
  <2> HIDE DEF c
  <2>3. Count(c, "error") = 0  BY <2>1, CountNone
  <2>4. \A i \in DOMAIN c.calls : c.calls[i][1] # "connected"  BY <2>1
  <2>5. /\ ClientType(stomp') /\ SameTimers(stomp', c) /\ Settled'
        /\ wire' = FoldLeft(Emit, wire, <<Beat>>)
        /\ HeardType(heard')
        /\ heard'.left = heard.left
        /\ heard'.errors = IF IsPage THEN heard.errors ELSE heard.errors + 0
    BY <1>1, <2>1, <2>2, <2>3, <2>4, Turn
  <2>6. heard'.errors = heard.errors  BY <1>1, <2>5 DEF HeardType
  <2>7. /\ WireType(wire') /\ wire'.state = wire.state
        /\ wire'.toClient = wire.toClient
        /\ wire'.age = wire.age /\ wire'.accepted = wire.accepted
        /\ wire'.sinceServer = wire.sinceServer /\ wire'.subs = wire.subs
        /\ wire'.errorFrames = wire.errorFrames
        /\ wire'.toServer = wire.toServer
        /\ wire.state = "open" => wire'.unsent = 0
    <3>1. wire' = Emit(wire, Beat)  BY <2>5, EmitOne
    <3> QED BY <1>1, <3>1, SentBeat
  <2>8. stomp.connected /\ Pinging
    BY <1>3 DEF IInv, PingerRight, Off
  <2>9. /\ stomp'.connected /\ stomp'.onclose = stomp.onclose
        /\ stomp'.activity = stomp.activity
        /\ stomp'.pinger = PingPeriod /\ stomp'.pingerPeriod = PingPeriod
        /\ stomp'.ponger = stomp.ponger /\ stomp'.pongerPeriod = stomp.pongerPeriod
    BY <2>1, <2>5, <2>8 DEF IInv, PingerRight, SameTimers
  <2>10. TypeOK'  BY <1>1, <1>2, <2>5, <2>7 DEF TypeOK
  <2>11. Phases'
    <3>1. CASE Serving
      <4>1. Serving'
        BY <1>2, <2>5, <2>6, <2>7, <2>9, <3>1 DEF Serving
      <4> QED BY <4>1 DEF Phases
    <3>2. CASE wire.state \in {"closing", "closed"}
      BY <2>7, <3>2 DEF Phases
    <3> QED BY <2>8, <3>1, <3>2, ConnectedPhase
  <2>12. PongerRight'
    BY <1>2, <2>8, <2>9, SamePeriods DEF IInv, PongerRight
  <2>13. PingerRight'
    <3>1. PingPeriod \in Nat  BY <1>1, <2>8, Periods
    <3>2. wire'.state = "open" => wire'.unsent <= PingPeriod - stomp'.pinger
      BY <2>7, <2>9, <3>1
    <3>3. stomp'.pinger \in 0 .. PingPeriod  BY <2>9, <3>1
    <3>4. PingPeriod' = PingPeriod /\ Pinging'  BY <1>2, <2>8, SamePeriods
    <3> HIDE DEF PingPeriod, Pinging
    <3> QED BY <2>9, <3>2, <3>3, <3>4 DEF PingerRight
  <2>14. InTime'
    BY <1>2, <2>7, <2>9 DEF IInv, InTime, Punctual, ServerBeating
  <2>15. Reports'
    BY <1>2, <2>5, <2>6, <2>7, <2>9, SamePeriods DEF IInv, Reports, LossReportedOnce
  <2> QED BY <2>5, <2>7, <2>10, <2>11, <2>12, <2>13, <2>14, <2>15 DEF IInv
<1>4. CASE stomp.ponger = 0 /\ StompTurn(PongerFires(stomp), wire)
  <2>1. stomp.connected /\ Ponging  BY <1>4 DEF IInv, PongerRight, Off
  <2>2. /\ stomp.pongerPeriod = PongPeriod /\ PongPeriod \in Nat
        /\ stomp.activity \in Nat
    BY <1>1, <2>1, Periods DEF IInv, PongerRight, ClientType
  <2>3. CASE stomp.activity > 2 * stomp.pongerPeriod
    <3> DEFINE c == cleanUp(stomp)
    <3>1. StompTurn(c, wire)  BY <1>4, <2>3 DEF PongerFires
    <3>2. /\ ClientType(c) /\ ~ c.connected /\ c.onclose = stomp.onclose
          /\ c.pinger = Off /\ c.ponger = Off
          /\ c.out = <<Close>> /\ c.calls = <<>>
      <4>1. Append(<<>>, Close) = <<Close>>  OBVIOUS
      <4> QED BY <1>1, <4>1, CleanedUp
    <3> HIDE DEF c
    <3>3. Count(c, "error") = 0  BY <3>2, CountNone
    <3>4. \A i \in DOMAIN c.calls : c.calls[i][1] # "connected"  BY <3>2
    <3>5. /\ ClientType(stomp') /\ SameTimers(stomp', c) /\ Settled'
          /\ wire' = FoldLeft(Emit, wire, <<Close>>)
          /\ HeardType(heard')
          /\ heard'.left = heard.left
          /\ heard'.errors = IF IsPage THEN heard.errors ELSE heard.errors + 0
      BY <1>1, <3>1, <3>2, <3>3, <3>4, Turn
    <3>6. heard'.errors = heard.errors  BY <1>1, <3>5 DEF HeardType
    <3>7. /\ WireType(wire') /\ wire'.subs = wire.subs
          /\ wire'.errorFrames = wire.errorFrames
          /\ wire'.state = IF wire.state \in {"connecting", "open"} THEN "closing"
                           ELSE wire.state
      BY <1>1, <3>5, EmitOne, Closed
    <3>8. wire'.state \in {"closing", "closed"}
      BY <1>1, <3>7 DEF WireType
    <3>9. Reports'
      <4>1. IsPage' = IsPage  BY <1>2, SamePeriods
      <4>2. /\ heard'.errors = heard.errors
            /\ heard'.left = heard.left
            /\ stomp'.onclose = stomp.onclose
        BY <3>2, <3>5, <3>6 DEF SameTimers
      <4>4. wire.state # "connecting"
        BY <2>1, ConnectedPhase DEF Serving
      <4> QED BY <1>1, <3>7, <3>8, <4>1, <4>2, <4>4
              DEF IInv, Reports, LossReportedOnce, HeardType, ClientType
    <3>10. ~ stomp'.connected /\ stomp'.pinger = Off /\ stomp'.ponger = Off
      BY <3>2, <3>5 DEF SameTimers
    <3>11. IInv'
      BY <1>1, <1>2, <3>5, <3>7, <3>8, <3>9, <3>10, EndsInvariant DEF TypeOK
    <3>12. ~ (config.punctual /\ wire.state = "open")
      BY <2>1, <2>3, Patient
    <3> QED BY <3>11, <3>12
  <2>4. CASE ~ (stomp.activity > 2 * stomp.pongerPeriod)
    <3> DEFINE c == [stomp EXCEPT !.ponger = stomp.pongerPeriod]
    <3>1. StompTurn(c, wire)  BY <1>4, <2>4 DEF PongerFires
    <3>2. /\ ClientType(c) /\ c.connected = stomp.connected
          /\ c.onclose = stomp.onclose /\ c.activity = stomp.activity
          /\ c.pinger = stomp.pinger /\ c.pingerPeriod = stomp.pingerPeriod
          /\ c.ponger = stomp.pongerPeriod /\ c.pongerPeriod = stomp.pongerPeriod
          /\ c.out = <<>> /\ c.calls = <<>>
      BY <1>1, Waited
    <3> HIDE DEF c
    <3>3. Count(c, "error") = 0  BY <3>2, CountNone
    <3>4. \A i \in DOMAIN c.calls : c.calls[i][1] # "connected"  BY <3>2
    <3>5. /\ ClientType(stomp') /\ SameTimers(stomp', c) /\ Settled'
          /\ wire' = FoldLeft(Emit, wire, <<>>)
          /\ HeardType(heard')
          /\ heard'.left = heard.left
          /\ heard'.errors = IF IsPage THEN heard.errors ELSE heard.errors + 0
      BY <1>1, <3>1, <3>2, <3>3, <3>4, Turn
    <3>6. heard'.errors = heard.errors  BY <1>1, <3>5 DEF HeardType
    <3>7. wire' = wire  BY <3>5, EmitNone
    <3>8. /\ stomp'.connected /\ stomp'.onclose = stomp.onclose
          /\ stomp'.activity = stomp.activity
          /\ stomp'.pinger = stomp.pinger /\ stomp'.pingerPeriod = stomp.pingerPeriod
          /\ stomp'.ponger = PongPeriod /\ stomp'.pongerPeriod = PongPeriod
      BY <2>1, <2>2, <3>2, <3>5 DEF SameTimers
    <3>9. TypeOK'  BY <1>1, <1>2, <3>5, <3>7 DEF TypeOK
    <3>10. Phases'
      <4>1. CASE Serving
        <5>1. Serving'
          BY <1>2, <3>5, <3>6, <3>7, <3>8, <4>1 DEF Serving
        <5> QED BY <5>1 DEF Phases
      <4>2. CASE wire.state \in {"closing", "closed"}
        BY <3>7, <4>2 DEF Phases
      <4> QED BY <2>1, <4>1, <4>2, ConnectedPhase
    <3>11. PongerRight'
      <4>1. PongPeriod' = PongPeriod /\ Ponging'  BY <1>2, <2>1, SamePeriods
      <4> HIDE DEF PongPeriod, Ponging
      <4>2. stomp'.activity <= 3 * PongPeriod - stomp'.ponger
        BY <2>2, <2>4, <3>8
      <4>3. stomp'.ponger \in 0 .. PongPeriod  BY <2>2, <3>8
      <4> QED BY <3>8, <4>1, <4>2, <4>3 DEF PongerRight
    <3>12. PingerRight'
      BY <1>2, <2>1, <3>7, <3>8, SamePeriods DEF IInv, PingerRight
    <3>13. InTime'
      BY <1>2, <3>7, <3>8 DEF IInv, InTime, Punctual, ServerBeating
    <3>14. Reports'
      BY <1>2, <3>5, <3>6, <3>7, <3>8, SamePeriods
         DEF IInv, Reports, LossReportedOnce
    <3> QED BY <3>5, <3>7, <3>9, <3>10, <3>11, <3>12, <3>13, <3>14 DEF IInv
  <2> QED BY <2>3, <2>4
<1> QED BY <1>3, <1>4 DEF StompTimer

(* The application disconnects.                                            *)
LEMMA DisconnectsInvariant ==
    ASSUME IInv, OtherDisconnects PROVE IInv' /\ faults' # faults
<1>1. /\ TypeOK /\ ClientType(stomp) /\ WireType(wire) /\ HeardType(heard)
      /\ stomp.out = <<>> /\ stomp.calls = <<>> /\ ~ stomp.threw
  BY DEF IInv, TypeOK, Settled
<1>2. /\ ~ IsPage /\ stomp.connected /\ ~ heard.left /\ config' = config
      /\ heard' = [heard EXCEPT !.left = wire.state # "closed"]
  BY DEF OtherDisconnects, NotStomp
<1>3. faults' \in Nat /\ faults' # faults
  BY <1>1, FaultType DEF TypeOK, OtherDisconnects
<1> DEFINE c == disconnect(stomp)
           f == Frame("DISCONNECT", <<>>, <<>>)
<1>4. stomp' = [c EXCEPT !.out = <<>>] /\ wire' = FoldLeft(Emit, wire, c.out)
  BY DEF OtherDisconnects
<1>5. /\ ClientType(c) /\ ~ c.connected /\ ~ c.onclose
      /\ c.pinger = Off /\ c.ponger = Off
      /\ c.out = <<f, Close>> /\ c.calls = <<>> /\ ~ c.threw
  BY <1>1, Disconnected
<1>6. f.command \notin {"close", "beat"}  BY DEF Frame
<1> HIDE DEF c, f
<1>7. wire' = Emit(Emit(wire, f), Close)
  <2> DEFINE v == FoldLeft(Emit, wire, <<f>>)
  <2>1. wire' = FoldLeft(Emit, wire, <<f, Close>>)  BY <1>4, <1>5
  <2>2. wire' = FoldLeft(Emit, v, <<Close>>)  BY <2>1, EmitTwo
  <2>3. v = Emit(wire, f)  BY EmitOne
  <2> HIDE DEF v
  <2>4. wire' = Emit(v, Close)  BY <2>2, EmitOne
  <2> QED BY <2>3, <2>4
<1>8. /\ WireType(wire') /\ wire'.subs = wire.subs
      /\ wire'.errorFrames = wire.errorFrames
      /\ wire'.state = IF wire.state \in {"connecting", "open"} THEN "closing"
                       ELSE wire.state
  <2> DEFINE v == Emit(wire, f)
  <2>1. WireType(v) /\ v.state = wire.state /\ v.subs = wire.subs
        /\ v.errorFrames = wire.errorFrames
    BY <1>1, <1>6, Sent
  <2> HIDE DEF v
  <2>2. wire' = Emit(v, Close)  BY <1>7 DEF v
  <2> QED BY <2>1, <2>2, Closed
<1>9. wire'.state \in {"closing", "closed"}  BY <1>1, <1>8 DEF WireType
<1>10. /\ ClientType(stomp') /\ ~ stomp'.connected /\ ~ stomp'.onclose
       /\ stomp'.pinger = Off /\ stomp'.ponger = Off /\ Settled'
  BY <1>4, <1>5 DEF ClientType, Settled
<1>11. /\ HeardType(heard') /\ heard'.errors = heard.errors
       /\ heard'.left = (wire.state # "closed")
  BY <1>1, <1>2 DEF HeardType
<1>12. Reports'
  <2>2. wire.state # "connecting"  BY <1>2, ConnectedPhase DEF Serving
  <2> QED BY <1>1, <1>2, <1>8, <1>9, <1>10, <1>11, <2>2, SamePeriods
          DEF IInv, Reports, LossReportedOnce, HeardType, ClientType
<1> QED BY <1>2, <1>3, <1>8, <1>9, <1>10, <1>11, <1>12, EndsInvariant

(* Time                                                                    *)
LEMMA TickInvariant == ASSUME IInv, Tick PROVE IInv' /\ wire'.state = wire.state
<1> DEFINE age == IF wire.toClient # <<>> THEN wire.age + 1 ELSE wire.age
           sinceServer == IF Punctual THEN wire.sinceServer + 1 ELSE 0
           unsent == IF stomp.connected /\ wire.unsent < Oldest
                     THEN wire.unsent + 1 ELSE wire.unsent
<1>1. /\ TypeOK /\ ClientType(stomp) /\ WireType(wire) /\ HeardType(heard)
      /\ stomp.out = <<>> /\ stomp.calls = <<>> /\ ~ stomp.threw
      /\ config \in Configurations
  BY DEF IInv, TypeOK, Settled
<1>2. /\ stomp.pinger # 0 /\ stomp.ponger # 0
      /\ stomp.pinger # Off \/ stomp.ponger # Off
      /\ Punctual => wire.sinceServer < config.beat[1]
      /\ wire.toClient # <<>> => wire.age < MaxDelay
      /\ stomp' = Elapse(stomp, Oldest)
      /\ config' = config /\ heard' = heard /\ faults' = faults
  BY DEF Tick, NotStomp
<1>3. wire' = [wire EXCEPT !.age = age, !.sinceServer = sinceServer, !.unsent = unsent]
  BY <1>1 DEF Tick, WireType
<1>4. stomp.connected
  BY <1>2 DEF IInv, PongerRight, PingerRight
<1>5. age \in Nat /\ sinceServer \in Nat /\ unsent \in Nat
      /\ unsent <= wire.unsent + 1
  BY <1>1 DEF WireType
<1>6. /\ WireType(wire') /\ wire'.state = wire.state
      /\ wire'.toServer = wire.toServer /\ wire'.toClient = wire.toClient
      /\ wire'.accepted = wire.accepted /\ wire'.subs = wire.subs
      /\ wire'.errorFrames = wire.errorFrames
      /\ wire'.age = age /\ wire'.sinceServer = sinceServer
      /\ wire'.unsent <= wire.unsent + 1
  <2> HIDE DEF age, sinceServer, unsent
  <2> QED BY <1>1, <1>3, <1>5 DEF WireType
<1>7. /\ ClientType(stomp') /\ stomp'.connected /\ stomp'.onclose = stomp.onclose
      /\ stomp'.pingerPeriod = stomp.pingerPeriod
      /\ stomp'.pongerPeriod = stomp.pongerPeriod
      /\ stomp'.pinger = IF stomp.pinger > 0 THEN stomp.pinger - 1 ELSE stomp.pinger
      /\ stomp'.ponger = IF stomp.ponger > 0 THEN stomp.ponger - 1 ELSE stomp.ponger
      /\ stomp'.activity \in {stomp.activity, stomp.activity + 1}
      /\ stomp'.out = <<>> /\ stomp'.calls = <<>> /\ ~ stomp'.threw
  BY <1>1, <1>2, <1>4, Elapsed
<1>8. TypeOK' /\ Settled'
  BY <1>1, <1>2, <1>6, <1>7 DEF TypeOK, Settled
<1>9. Phases'
  <2>1. CASE Serving
    <3>1. Serving'
      BY <1>2, <1>6, <1>7, <2>1 DEF Serving
    <3> QED BY <3>1 DEF Phases
  <2>2. CASE wire.state \in {"closing", "closed"}
    BY <1>6, <2>2 DEF Phases
  <2> QED BY <1>4, <2>1, <2>2, ConnectedPhase
<1>10. PongerRight'
  <2>1. CASE Ponging
    <3>1. /\ stomp.pongerPeriod = PongPeriod /\ stomp.ponger \in 0 .. PongPeriod
          /\ stomp.activity <= 3 * PongPeriod - stomp.ponger
          /\ PongPeriod \in Nat /\ stomp.activity \in Nat
      BY <1>1, <1>4, <2>1, Periods DEF IInv, PongerRight, ClientType
    <3>2. PongPeriod' = PongPeriod /\ Ponging'  BY <1>2, <2>1, SamePeriods
    <3> HIDE DEF PongPeriod, Ponging
    <3>3. stomp'.ponger = stomp.ponger - 1 /\ stomp'.ponger \in 0 .. PongPeriod
      BY <1>2, <1>7, <3>1
    <3>4. stomp'.activity <= 3 * PongPeriod - stomp'.ponger
      BY <1>7, <3>1, <3>3
    <3> QED BY <1>7, <3>1, <3>2, <3>3, <3>4 DEF PongerRight
  <2>2. CASE ~ Ponging
    <3>1. stomp.ponger = Off  BY <2>2 DEF IInv, PongerRight
    <3> QED BY <1>2, <1>7, <2>2, <3>1, SamePeriods DEF PongerRight, Off
  <2> QED BY <2>1, <2>2
<1>11. PingerRight'
  <2>1. CASE Pinging
    <3>1. /\ stomp.pingerPeriod = PingPeriod /\ stomp.pinger \in 0 .. PingPeriod
          /\ wire.state = "open" => wire.unsent <= PingPeriod - stomp.pinger
          /\ PingPeriod \in Nat /\ wire.unsent \in Nat /\ wire'.unsent \in Nat
      BY <1>1, <1>4, <1>6, <2>1, Periods DEF IInv, PingerRight, WireType
    <3>2. PingPeriod' = PingPeriod /\ Pinging'  BY <1>2, <2>1, SamePeriods
    <3> HIDE DEF PingPeriod, Pinging
    <3>3. stomp'.pinger = stomp.pinger - 1 /\ stomp'.pinger \in 0 .. PingPeriod
      BY <1>2, <1>7, <3>1
    <3>4. wire'.state = "open" => wire'.unsent <= PingPeriod - stomp'.pinger
      BY <1>6, <3>1, <3>3
    <3> QED BY <1>7, <3>1, <3>2, <3>3, <3>4 DEF PingerRight
  <2>2. CASE ~ Pinging
    <3>1. stomp.pinger = Off  BY <2>2 DEF IInv, PingerRight
    <3> QED BY <1>2, <1>7, <2>2, <3>1, SamePeriods DEF PingerRight, Off
  <2> QED BY <2>1, <2>2
<1>12. InTime'
  <2>1. SUFFICES ASSUME Punctual'
                 PROVE  /\ wire'.sinceServer <= config.beat[1]
                        /\ wire'.age <= MaxDelay
                        /\ IF wire'.toClient = <<>>
                           THEN wire'.age = 0 /\ stomp'.activity <= wire'.sinceServer
                           ELSE stomp'.activity <= config.beat[1] + wire'.age
    BY <1>2 DEF InTime
  <2>2. Punctual  BY <1>2, <1>6, <2>1 DEF Punctual, ServerBeating
  <2>3. /\ wire.sinceServer <= config.beat[1] /\ wire.age <= MaxDelay
        /\ IF wire.toClient = <<>>
           THEN wire.age = 0 /\ stomp.activity <= wire.sinceServer
           ELSE stomp.activity <= config.beat[1] + wire.age
    BY <2>2 DEF IInv, InTime
  <2>4. /\ config.beat[1] \in Nat /\ MaxDelay \in Nat /\ wire.sinceServer \in Nat
        /\ wire.age \in Nat /\ stomp.activity \in Nat
    BY <1>1, <2>2, ConfigType, PageAssumption
       DEF Punctual, ServerBeating, WireType, ClientType
  <2>5. sinceServer = wire.sinceServer + 1  BY <2>2
  <2>6. CASE wire.toClient = <<>>
    <3>1. age = wire.age  BY <2>6
    <3> HIDE DEF age, sinceServer
    <3> QED BY <1>2, <1>6, <1>7, <2>2, <2>3, <2>4, <2>5, <2>6, <3>1
  <2>7. CASE wire.toClient # <<>>
    <3>1. age = wire.age + 1  BY <2>7
    <3> HIDE DEF age, sinceServer
    <3>2. wire'.age <= MaxDelay /\ wire'.sinceServer <= config.beat[1]
      BY <1>2, <1>6, <2>2, <2>4, <2>5, <2>7, <3>1
    <3>3. stomp'.activity <= config.beat[1] + wire'.age
      <4>1. stomp.activity <= config.beat[1] + wire.age  BY <2>3, <2>7
      <4>2. stomp'.activity \in Nat /\ stomp'.activity <= stomp.activity + 1
        BY <1>7, <2>4
      <4>3. wire'.age = wire.age + 1  BY <1>6, <3>1
      <4> QED BY <2>4, <4>1, <4>2, <4>3
    <3> QED BY <1>6, <2>7, <3>2, <3>3
  <2> QED BY <2>6, <2>7
<1>13. Reports'
  BY <1>2, <1>6, <1>7, SamePeriods DEF IInv, Reports, LossReportedOnce
<1> QED BY <1>6, <1>8, <1>9, <1>10, <1>11, <1>12, <1>13 DEF IInv

(* What the broker and the server do leaves the client alone.              *)
LEMMA ServerInvariant ==
    ASSUME IInv, stomp' = stomp, config' = config, HeardType(heard'),
           heard'.errors = heard.errors, heard'.left = heard.left,
           wire'.errorFrames = wire.errorFrames,
           WireType(wire'), wire'.state = wire.state,
           IsFiniteSet(DOMAIN wire'.subs), faults' \in Nat,
           wire'.unsent = wire.unsent, wire'.age = wire.age,
           \/ /\ wire'.toClient = wire.toClient
              /\ wire'.sinceServer = wire.sinceServer
              /\ wire'.accepted = wire.accepted
           \/ wire'.sinceServer = 0 /\ wire'.toClient # <<>> /\ wire'.accepted
              /\ wire.accepted
           \/ stomp.activity = 0 /\ wire'.sinceServer = 0 /\ wire'.age = 0
              /\ wire'.toClient # <<>>,
           Phases'
    PROVE  IInv'
<1>1. TypeOK /\ WireType(wire) /\ HeardType(heard) /\ ClientType(stomp)
  BY DEF IInv, TypeOK
<1>2. TypeOK' /\ Settled'  BY DEF IInv, TypeOK, Settled
<1>3. PongerRight'  BY SamePeriods DEF IInv, PongerRight
<1>4. PingerRight'  BY SamePeriods DEF IInv, PingerRight
<1>5. InTime'
  <2>1. SUFFICES ASSUME Punctual'
                 PROVE  /\ wire'.sinceServer <= config.beat[1]
                        /\ wire'.age <= MaxDelay
                        /\ IF wire'.toClient = <<>>
                           THEN wire'.age = 0 /\ stomp.activity <= wire'.sinceServer
                           ELSE stomp.activity <= config.beat[1] + wire'.age
    BY DEF InTime
  <2>2. config.beat[1] \in Nat /\ MaxDelay \in Nat
    BY <1>1, <2>1, ConfigType, PageAssumption DEF TypeOK, Punctual, ServerBeating
  <2>3. wire.sinceServer \in Nat /\ wire.age \in Nat /\ stomp.activity \in Nat
    BY <1>1 DEF WireType, ClientType
  <2>4. CASE stomp.activity = 0 /\ wire'.sinceServer = 0 /\ wire'.age = 0
             /\ wire'.toClient # <<>>
    BY <2>2, <2>3, <2>4
  <2>5. CASE wire.accepted /\ wire'.accepted
    <3>1. Punctual  BY <2>1, <2>5 DEF Punctual, ServerBeating
    <3>2. /\ wire.sinceServer <= config.beat[1] /\ wire.age <= MaxDelay
          /\ IF wire.toClient = <<>>
             THEN wire.age = 0 /\ stomp.activity <= wire.sinceServer
             ELSE stomp.activity <= config.beat[1] + wire.age
      BY <3>1 DEF IInv, InTime
    <3> QED BY <2>2, <2>3, <2>4, <3>2
  <2> QED BY <2>1, <2>4, <2>5 DEF Punctual
<1>6. Reports'
  BY <1>1, SamePeriods DEF IInv, Reports, LossReportedOnce, HeardType
<1> QED BY <1>2, <1>3, <1>4, <1>5, <1>6 DEF IInv

(* The server takes the first frame from the wire.                         *)
LEMMA FrameTaken ==
    ASSUME WireType(wire)
    PROVE  LET w == [wire EXCEPT !.toServer = Tail(@)]
           IN  w = [wire EXCEPT !.toServer = Tail(wire.toServer)]
BY DEF WireType

(* The server serves a frame,                                              *)
LEMMA ServesInvariant ==
    ASSUME IInv, StompServes PROVE IInv' /\ wire'.state = wire.state
<1> DEFINE rest == Tail(wire.toServer)
           w == [wire EXCEPT !.toServer = rest]
           frame == Head(wire.toServer)
           id == Header(frame.headers, "id")
<1>1. /\ TypeOK /\ ClientType(stomp) /\ WireType(wire) /\ HeardType(heard)
      /\ faults \in Nat /\ IsFiniteSet(DOMAIN wire.subs)
  BY DEF IInv, TypeOK
<1>2. /\ wire.state = "open" /\ wire.toServer # <<>>
      /\ wire' = Served([wire EXCEPT !.toServer = Tail(@)], frame)
      /\ config' = config /\ stomp' = stomp /\ heard' = heard /\ faults' = faults
  BY DEF StompServes, NotStomp
<1>3. wire' = Served(w, frame)  BY <1>1, <1>2, FrameTaken
<1>4. CASE Asking
  <2>1. /\ wire.toClient = <<>> /\ ~ wire.accepted /\ Quiet
    BY <1>4 DEF Asking
  <2>2. PICK f : f.command = "CONNECT" /\ wire.toServer = <<f>>
    BY <1>4 DEF Asking
  <2>3. frame.command = "CONNECT" /\ rest = <<>>  BY <2>2
  <2> DEFINE d == Data("CONNECTED", <<>>, <<>>)
             v == [w EXCEPT !.accepted = TRUE]
  <2>4. wire' = ToClient(v, <<<<d>>>>)
    BY <1>3, <2>3 DEF Served
  <2> HIDE DEF rest, d
  <2>5. /\ WireType(v) /\ v.state = "open" /\ v.toServer = rest /\ v.accepted = TRUE
        /\ v.toClient = <<>> /\ v.age = wire.age /\ v.unsent = wire.unsent
        /\ v.subs = wire.subs
        /\ v.errorFrames = wire.errorFrames
    BY <1>1, <1>2, <2>1 DEF WireType
  <2> HIDE DEF v
  <2>6. wire' = [v EXCEPT !.toClient = <<<<d>>>>, !.sinceServer = 0]
    BY <2>4, <2>5 DEF ToClient, WireType
  <2>7. /\ WireType(wire') /\ wire'.state = "open" /\ wire'.toServer = <<>>
        /\ wire'.accepted /\ wire'.toClient = <<<<d>>>> /\ wire'.sinceServer = 0
        /\ wire'.age = wire.age /\ wire'.unsent = wire.unsent
        /\ wire'.subs = wire.subs
        /\ wire'.errorFrames = wire.errorFrames
    BY <2>3, <2>5, <2>6 DEF WireType
  <2>8. d = Data("CONNECTED", <<>>, <<>>)' /\ Quiet'
    BY <1>2, <2>1, <2>7 DEF d, Data, Quiet
  <2>9. Accepted'  BY <2>7, <2>8 DEF Accepted
  <2>10. stomp.activity = 0 /\ wire.age = 0  BY <2>1 DEF Quiet
  <2>11. wire'.toClient # <<>>  BY <2>7
  <2> QED BY <1>1, <1>2, <2>7, <2>9, <2>10, <2>11, ServerInvariant DEF Phases
<1>5. CASE Serving
  <2>1. /\ wire.accepted /\ stomp.connected
        /\ IsSequence(wire.toServer)
        /\ \A i \in DOMAIN wire.toServer : AboutSubscription(wire.toServer[i])
    BY <1>5 DEF Serving
  <2>2. /\ IsSequence(rest) /\ \A i \in DOMAIN rest : AboutSubscription(rest[i])
        /\ AboutSubscription(frame)
    BY <1>2, <2>1, HeadRead
  <2> HIDE DEF rest
  <2>3. WireType(w) /\ w.toServer = rest /\ w.subs = wire.subs
        /\ w.errorFrames = wire.errorFrames
        /\ w.state = wire.state /\ w.toClient = wire.toClient
        /\ w.accepted = wire.accepted /\ w.age = wire.age
        /\ w.unsent = wire.unsent /\ w.sinceServer = wire.sinceServer
    BY <1>1 DEF WireType
  <2> HIDE DEF w, frame
  <2>4. PICK S, since : /\ IsFiniteSet(DOMAIN S)
                        /\ wire' \in {[w EXCEPT !.subs = S, !.since = since],
                                      [w EXCEPT !.subs = S]}
    <3>1. CASE frame.command = "SUBSCRIBE"
      <4> DEFINE topic == Header(frame.headers, "destination")
                 S == [i \in DOMAIN w.subs \cup {id} |->
                         IF i = id THEN topic ELSE w.subs[i]]
                 since == [i \in DOMAIN w.since \cup {id} |->
                             IF i = id THEN published[topic] ELSE w.since[i]]
      <4> HIDE DEF id
      <4>1. wire' = [w EXCEPT !.subs = S, !.since = since]
        BY <1>3, <2>3, <3>1 DEF Served, WireType, id
      <4>2. DOMAIN S = DOMAIN w.subs \cup {id}  OBVIOUS
      <4>3. IsFiniteSet(DOMAIN S)
        <5> HIDE DEF S
        <5> QED BY <1>1, <2>3, <4>2, FS_AddElement
      <4> QED BY <4>1, <4>3
    <3>2. CASE frame.command = "UNSUBSCRIBE"
      <4> DEFINE S == [i \in DOMAIN w.subs \ {id} |-> w.subs[i]]
      <4> HIDE DEF id
      <4>1. wire' = [w EXCEPT !.subs = S]
        BY <1>3, <2>3, <3>2 DEF Served, WireType, id
      <4>2. DOMAIN S = DOMAIN w.subs \ {id}  OBVIOUS
      <4>3. IsFiniteSet(DOMAIN S)
        <5> HIDE DEF S
        <5> QED BY <1>1, <2>3, <4>2, FS_RemoveElement
      <4> QED BY <4>1, <4>3
    <3> QED BY <2>2, <3>1, <3>2 DEF AboutSubscription
  <2>5. /\ WireType(wire') /\ wire'.state = wire.state
        /\ wire'.toServer = rest /\ wire'.toClient = wire.toClient
        /\ wire'.accepted = wire.accepted /\ wire'.age = wire.age
        /\ wire'.unsent = wire.unsent /\ wire'.sinceServer = wire.sinceServer
        /\ wire'.subs = S /\ wire'.errorFrames = wire.errorFrames
    BY <2>3, <2>4 DEF WireType
  <2>6. Serving'
    BY <1>2, <1>5, <2>2, <2>5 DEF Serving
  <2>7. IsFiniteSet(DOMAIN wire'.subs)  BY <2>4, <2>5
  <2> QED BY <1>1, <1>2, <2>5, <2>6, <2>7, ServerInvariant DEF Phases
<1> QED BY <1>2, <1>4, <1>5 DEF IInv, Phases, Connecting, Refused, Accepted

(* refuses,                                                                *)
LEMMA RefusesInvariant ==
    ASSUME IInv, StompRefuses PROVE IInv' /\ wire'.state = wire.state
<1> DEFINE rest == Tail(wire.toServer)
           w == [wire EXCEPT !.toServer = rest]
           frame == Head(wire.toServer)
           d == Data("ERROR", <<>>, <<>>)
<1>1. /\ TypeOK /\ ClientType(stomp) /\ WireType(wire) /\ HeardType(heard)
      /\ faults \in Nat /\ IsFiniteSet(DOMAIN wire.subs)
  BY DEF IInv, TypeOK
<1>2. /\ wire.state = "open" /\ wire.toServer # <<>> /\ frame.command = "CONNECT"
      /\ wire' = ToClient([wire EXCEPT !.toServer = Tail(@)], <<<<d>>>>)
      /\ config' = config /\ stomp' = stomp /\ heard' = heard
  BY DEF StompRefuses, NotStomp
<1>3. faults' \in Nat  BY <1>1, FaultType DEF StompRefuses
<1>4. wire' = ToClient(w, <<<<d>>>>)  BY <1>1, <1>2, FrameTaken
<1>5. Asking
  <2>1. CASE Serving
    <3>1. AboutSubscription(frame)  BY <1>2, <2>1, HeadRead DEF Serving
    <3> QED BY <1>2, <3>1 DEF AboutSubscription
  <2> QED BY <1>2, <2>1 DEF IInv, Phases, Connecting, Refused, Accepted
<1>6. /\ wire.toClient = <<>> /\ ~ wire.accepted /\ Quiet
  BY <1>5 DEF Asking
<1>7. rest = <<>>  BY <1>5 DEF Asking
<1> HIDE DEF rest, d
<1>8. /\ WireType(w) /\ w.state = "open" /\ w.toServer = rest /\ ~ w.accepted
      /\ w.toClient = <<>> /\ w.age = wire.age /\ w.unsent = wire.unsent
      /\ w.subs = wire.subs
      /\ w.errorFrames = wire.errorFrames
  BY <1>1, <1>2, <1>6 DEF WireType
<1> HIDE DEF w
<1>9. wire' = [w EXCEPT !.toClient = <<<<d>>>>, !.sinceServer = 0]
  BY <1>4, <1>8 DEF ToClient, WireType
<1>10. /\ WireType(wire') /\ wire'.state = "open" /\ wire'.toServer = <<>>
       /\ ~ wire'.accepted /\ wire'.toClient = <<<<d>>>> /\ wire'.sinceServer = 0
       /\ wire'.age = wire.age /\ wire'.unsent = wire.unsent
       /\ wire'.subs = wire.subs
       /\ wire'.errorFrames = wire.errorFrames
  BY <1>7, <1>8, <1>9 DEF WireType
<1>11. /\ HeardType(heard') /\ heard'.errors = heard.errors
       /\ heard'.left = heard.left
  BY <1>1, <1>2 DEF HeardType
<1>12. d = Data("ERROR", <<>>, <<>>)' /\ Quiet'
  <2>1. d = Data("ERROR", <<>>, <<>>)'  BY <1>2 DEF d, Data
  <2>2. Quiet'  BY <1>2, <1>6, <1>10 DEF Quiet
  <2> QED BY <2>1, <2>2
<1>13. Refused'  BY <1>10, <1>12 DEF Refused
<1>14. stomp.activity = 0 /\ wire.age = 0  BY <1>6 DEF Quiet
<1>15. wire'.toClient # <<>>  BY <1>10
<1> QED BY <1>1, <1>2, <1>3, <1>10, <1>11, <1>13, <1>14, <1>15, ServerInvariant
        DEF Phases

(* More for the client, when it is served                                  *)
LEMMA SendsToClient ==
    ASSUME IInv, NEW datas, datas # <<>>, IsSequence(datas),
           \A i \in DOMAIN datas : Delivered(datas[i]),
           wire' = ToClient(wire, datas), UNCHANGED <<config, stomp, heard, faults>>,
           Serving \/ wire.state \in {"closing", "closed"}
    PROVE  IInv' /\ wire'.state = wire.state
<1> DEFINE more == wire.toClient \o datas
<1>1. /\ TypeOK /\ ClientType(stomp) /\ WireType(wire) /\ HeardType(heard)
      /\ faults \in Nat /\ IsFiniteSet(DOMAIN wire.subs)
  BY DEF IInv, TypeOK
<1>2. wire' = [wire EXCEPT !.toClient = more, !.sinceServer = 0]
  BY <1>1 DEF ToClient, WireType
<1> HIDE DEF more
<1>3. /\ WireType(wire') /\ wire'.state = wire.state
      /\ wire'.toServer = wire.toServer /\ wire'.toClient = more
      /\ wire'.accepted = wire.accepted /\ wire'.age = wire.age
      /\ wire'.unsent = wire.unsent /\ wire'.sinceServer = 0
      /\ wire'.subs = wire.subs
      /\ wire'.errorFrames = wire.errorFrames
  <2> DEFINE v == [wire EXCEPT !.toClient = more, !.sinceServer = 0]
  <2>1. /\ v.state = wire.state
        /\ v.toServer = wire.toServer /\ v.toClient = more
        /\ v.accepted = wire.accepted /\ v.age = wire.age
        /\ v.unsent = wire.unsent /\ v.sinceServer = 0
        /\ v.subs = wire.subs
        /\ v.errorFrames = wire.errorFrames
    BY <1>1 DEF WireType
  <2>2. WireType(v)  BY <1>1 DEF WireType
  <2> HIDE DEF v
  <2>3. wire' = v  BY <1>2 DEF v
  <2> QED BY <2>1, <2>2, <2>3
<1>4. CASE Serving
  <2>1. /\ wire.accepted /\ IsSequence(wire.toClient)
        /\ \A i \in DOMAIN wire.toClient : Delivered(wire.toClient[i])
    BY <1>4 DEF Serving
  <2>2. /\ IsSequence(more) /\ more # <<>>
        /\ \A i \in DOMAIN more : \/ \E j \in DOMAIN wire.toClient :
                                         more[i] = wire.toClient[j]
                                  \/ \E j \in DOMAIN datas : more[i] = datas[j]
    BY <2>1, SequenceGrows DEF more
  <2>3. \A i \in DOMAIN more : Delivered(more[i])
    BY <2>1, <2>2
  <2>4. Serving'
    BY <1>3, <1>4, <2>2, <2>3 DEF Serving
  <2> QED BY <1>1, <1>3, <2>1, <2>2, <2>4, ServerInvariant DEF Phases
<1>5. CASE wire.state \in {"closing", "closed"}
  <2>1. Phases'  BY <1>3, <1>5 DEF Phases
  <2>2. TypeOK' /\ Settled'  BY <1>1, <1>3 DEF IInv, TypeOK, Settled
  <2>3. PongerRight' /\ PingerRight'
    BY <1>3, <1>5, SamePeriods DEF IInv, PongerRight, PingerRight
  <2>4. InTime'  BY <1>3, <1>5 DEF InTime, Punctual
  <2>5. Reports'
    BY <1>3, SamePeriods DEF IInv, Reports, LossReportedOnce
  <2> QED BY <1>3, <2>1, <2>2, <2>3, <2>4, <2>5 DEF IInv
<1> QED BY <1>4, <1>5

(* sends its heart-beat,                                                   *)
LEMMA BeatsInvariant ==
    ASSUME IInv, ServerBeats PROVE IInv' /\ wire'.state = wire.state
<1>1. /\ wire.state = "open" /\ wire.accepted /\ wire.toClient = <<>>
      /\ wire' = ToClient(wire, <<<<>>>>)
      /\ UNCHANGED <<config, stomp, heard, faults>>
  BY DEF ServerBeats, NotStomp
<1>2. Serving
  BY <1>1 DEF IInv, Phases, Connecting, Asking, Refused, Accepted
<1>3. <<<<>>>> \in Seq({<<>>})  OBVIOUS
<1>4. IsSequence(<<<<>>>>)  BY <1>3, Ranged
<1>5. \A i \in DOMAIN <<<<>>>> : Delivered(<<<<>>>>[i])  BY DEF Delivered
<1>6. <<<<>>>> # <<>>  OBVIOUS
<1> QED BY <1>1, <1>2, <1>4, <1>5, <1>6, SendsToClient

(* A finite set in some order.                                             *)
LEMMA AllInSequence ==
    ASSUME NEW S, IsFiniteSet(S)
    PROVE  Cardinality(S) \in Nat /\ SetToSeq(S) \in [1 .. Cardinality(S) -> S]
<1>1. Cardinality(S) \in Nat /\ ExistsBijection(1 .. Cardinality(S), S)
  BY FS_CardinalityType
<1>2. \E f \in [1 .. Cardinality(S) -> S] : IsInjective(f)
  BY <1>1 DEF ExistsBijection, Bijection, Injection
<1> QED BY <1>1, <1>2 DEF SetToSeq

(* or publishes.                                                           *)
LEMMA PublishInvariant ==
    ASSUME IInv, NEW topic, Publish(topic)
    PROVE  IInv' /\ wire'.state = wire.state
<1> DEFINE n == published[topic] + 1
           S == {id \in DOMAIN wire.subs : wire.subs[id] = topic}
           ids == SetToSeq(S)
           datas == [i \in DOMAIN ids |-> <<Data("MESSAGE", ids[i], n)>>]
<1>1. /\ TypeOK /\ ClientType(stomp) /\ WireType(wire) /\ HeardType(heard)
      /\ faults \in Nat /\ IsFiniteSet(DOMAIN wire.subs)
  BY DEF IInv, TypeOK
<1>2. wire' = ToClient(wire, datas) /\ UNCHANGED <<config, stomp, heard, faults>>
  BY DEF Publish
<1>3. IsFiniteSet(S)  BY <1>1, FS_Subset
<1>4. Cardinality(S) \in Nat /\ ids \in [1 .. Cardinality(S) -> S]
  <2> HIDE DEF S
  <2> QED BY <1>3, AllInSequence
<1>5. DOMAIN datas = 1 .. Cardinality(S)
  <2> HIDE DEF S, ids
  <2> QED BY <1>4
<1>6. CASE datas = <<>>
  <2>1. wire' = wire  BY <1>2, <1>6 DEF ToClient
  <2> QED BY <1>1, <1>2, <2>1, ElsewhereInvariant
<1>7. CASE datas # <<>>
  <2>1. Serving \/ wire.state \in {"closing", "closed"}
    <3>1. ASSUME DOMAIN wire.subs = {} PROVE FALSE
      <4>1. S = {}  BY <3>1
      <4>2. Cardinality(S) = 0  BY <4>1, FS_EmptySet
      <4>3. DOMAIN datas = {}  BY <1>5, <4>2
      <4>4. datas = [i \in {} |-> datas[i]]  BY <4>3
      <4> HIDE DEF datas
      <4>5. datas = <<>>  BY <4>4
      <4> QED BY <1>7, <4>5
    <3> QED BY <3>1 DEF IInv, Phases, Connecting, Asking, Refused, Accepted, Quiet
  <2>2. \A i \in DOMAIN datas : Delivered(datas[i])
    <3> TAKE i \in DOMAIN datas
    <3> DEFINE d == Data("MESSAGE", ids[i], n)
    <3>1. datas[i] = <<d>> /\ d.command = "MESSAGE"  BY DEF Data
    <3> HIDE DEF d, datas
    <3>2. d \in Range(<<d>>)  BY DEF Range
    <3> QED BY <3>1, <3>2 DEF Delivered
  <2>3. IsSequence(datas)
    <3> DEFINE T == Range(datas)
    <3>1. \A i \in 1 .. Cardinality(S) : datas[i] \in T  BY <1>5 DEF Range
    <3>2. datas = [i \in 1 .. Cardinality(S) |-> datas[i]]  BY <1>5
    <3> HIDE DEF T, datas, S
    <3>3. datas \in [1 .. Cardinality(S) -> T]  BY <3>1, <3>2
    <3>4. datas \in Seq(T)  BY <1>4, <3>3
    <3> QED BY <3>4 DEF T, IsSequence
  <2> HIDE DEF datas
  <2> QED BY <1>2, <1>7, <2>1, <2>2, <2>3, SendsToClient
<1> QED BY <1>6, <1>7

-----------------------------------------------------------------------------
(* The theorems                                                            *)
LEMMA NextInvariant ==
    ASSUME IInv, Next
    PROVE  /\ IInv'
           /\ config.punctual /\ wire.state = "open" /\ wire'.state = "closing"
                  => faults' # faults
<1>1. faults \in Nat /\ WireType(wire)  BY DEF IInv, TypeOK
<1>2. CASE Page
  <2>1. UNCHANGED <<config, stomp, wire, heard>>
    BY <1>2 DEF Page, Submit, SockOpens, SockReceives, SockFails
  <2>2. faults' \in Nat
    BY <1>1, <1>2, FaultType DEF Page, Submit, SockOpens, SockReceives, SockFails
  <2> QED BY <2>1, <2>2, ElsewhereInvariant
<1>3. CASE StompOpens
  BY <1>3, OpensInvariant DEF StompOpens
<1>4. CASE StompReceives
  BY <1>4, ReceivesInvariant
<1>5. CASE StompBreaks
  <2>1. faults' # faults  BY <1>1, <1>5, FaultType DEF StompBreaks
  <2> QED BY <1>5, <2>1, BreaksInvariant
<1>6. CASE StompCloses
  BY <1>6, ClosesInvariant DEF StompCloses
<1>7. CASE StompTimer
  BY <1>7, TimerInvariant
<1>8. CASE StompServes
  BY <1>8, ServesInvariant
<1>9. CASE StompRefuses
  BY <1>9, RefusesInvariant
<1>10. CASE ServerBeats
  BY <1>10, BeatsInvariant
<1>11. CASE Tick
  BY <1>11, TickInvariant
<1>12. CASE OtherUser
  BY <1>12, SubscribesInvariant, UnsubscribesInvariant, DisconnectsInvariant
     DEF OtherUser
<1>13. CASE MqttSide
  <2>1. UNCHANGED <<config, stomp, wire, heard>>
    BY <1>13 DEF MqttSide, MqttOpens, MqttReceives, MqttBreaks, MqttTimer,
                 MqttServes, MqttTurn, NotMqtt
  <2>2. faults' \in Nat
    BY <1>1, <1>13, FaultType
       DEF MqttSide, MqttOpens, MqttReceives, MqttBreaks, MqttTimer, MqttServes
  <2> QED BY <2>1, <2>2, ElsewhereInvariant
<1>14. CASE ServerHandles \/ ServerHandlesOther
  <2>1. \E topic : Publish(topic)
    BY <1>14 DEF ServerHandles, ServerHandlesOther
  <2> QED BY <2>1, PublishInvariant
<1> QED BY <1>2, <1>3, <1>4, <1>5, <1>6, <1>7, <1>8, <1>9, <1>10, <1>11, <1>12,
           <1>13, <1>14 DEF Next, StompSide

(* Or nothing happens.                                                     *)
LEMMA StutterInvariant == ASSUME IInv, UNCHANGED vars PROVE IInv'
BY ElsewhereInvariant DEF vars, IInv, TypeOK

(* At every moment the handshake, the timers, the signs of life under way  *)
(* and the reports of the STOMP client fit together.                       *)
THEOREM Invariance == Spec => []IInv
<1>1. IInv /\ [Next]_vars => IInv'
  BY NextInvariant, StutterInvariant
<1> QED BY InitInvariant, <1>1, PTL DEF Spec

(* Whatever client and server agree on, a server that falls silent is      *)
(* noticed within three periods, and the server is not left without a      *)
(* heart-beat for longer than agreed.                                      *)
THEOREM SilenceIsNoticed == Spec => []HeartbeatsKept
<1>1. IInv => HeartbeatsKept
  <2> SUFFICES ASSUME IInv PROVE HeartbeatsKept  OBVIOUS
  <2>1. config \in Configurations /\ ClientType(stomp) /\ WireType(wire)
    BY DEF IInv, TypeOK
  <2>2. SilenceNoticed
    <3>1. SUFFICES ASSUME stomp.connected, Ponging
                   PROVE  stomp.activity <= 3 * PongPeriod
      BY DEF SilenceNoticed, Ponging, PongPeriod
    <3>2. /\ stomp.ponger \in 0 .. PongPeriod /\ PongPeriod \in Nat
          /\ stomp.activity <= 3 * PongPeriod - stomp.ponger
          /\ stomp.activity \in Nat
      BY <2>1, <3>1, Periods DEF IInv, PongerRight, ClientType
    <3> HIDE DEF PongPeriod
    <3> QED BY <3>2
  <2>3. PingsOnTime
    <3>1. SUFFICES ASSUME stomp.connected, Pinging, wire.state = "open"
                   PROVE  wire.unsent <= PingPeriod
      BY DEF PingsOnTime, Pinging, Beating, PingPeriod
    <3>2. /\ stomp.pinger \in 0 .. PingPeriod /\ PingPeriod \in Nat
          /\ wire.unsent <= PingPeriod - stomp.pinger
          /\ wire.unsent \in Nat
      BY <2>1, <3>1, Periods DEF IInv, PingerRight, WireType
    <3> HIDE DEF PingPeriod
    <3> QED BY <3>2
  <2> QED BY <2>2, <2>3 DEF HeartbeatsKept
<1> QED BY <1>1, Invariance, PTL

(* The client never cleans up over a connection on which the server is     *)
(* punctual.                                                               *)
THEOREM PunctualServerKept == Spec => LiveServerKept
<1>1. IInv /\ [Next]_vars
          => [config.punctual /\ wire.state = "open" /\ wire'.state = "closing"
                  => faults' # faults]_vars
  BY NextInvariant
<1> QED BY <1>1, Invariance, PTL DEF Spec, LiveServerKept

(* The error callback of an application other than the page is called      *)
(* exactly once for each ERROR frame that it received and, once it has     *)
(* ended, for the connection, unless the application had disconnected.     *)
(* (onmessage, onclose, _cleanUp and disconnect in stomp.js)               *)
THEOREM LossIsReported == Spec => []LossReportedOnce
<1>1. IInv => LossReportedOnce
  BY DEF IInv, Reports, LossReportedOnce
<1> QED BY <1>1, Invariance, PTL

-----------------------------------------------------------------------------
(* Notifications.  The invariant follows every subscription from the call  *)
(* on: its SUBSCRIBE frame is under way, or the broker has taken it, and   *)
(* what was published since has been told or is under way, in order.       *)

(* The names that were given to subscriptions                              *)
SubId(k) == <<"sub-", ToString(k)>>
OwnSubId(k) == <<"own", ToString(k)>>

Given == {SubId(k) : k \in 0 .. stomp.counter - 1}
             \cup {OwnSubId(k) : k \in 0 .. heard.subscriptions - 1}

IdOf(frame) == Header(frame.headers, "id")
TopicOf(frame) == Header(frame.headers, "destination")

IsMessage(data) == data # <<>> /\ data[1].command = "MESSAGE"
MessageFor(data, id) == IsMessage(data) /\ data[1].subscription = id

BodiesIn(datas, id) ==
    {datas[i][1].body : i \in {j \in DOMAIN datas : MessageFor(datas[j], id)}}

InOrder(datas, id) ==
    \A i, j \in DOMAIN datas :
        i < j /\ MessageFor(datas[i], id) /\ MessageFor(datas[j], id)
            => datas[i][1].body < datas[j][1].body

Names ==
    /\ stomp.counter \in Nat /\ heard.subscriptions \in Nat
    /\ IF IsPage
       THEN /\ stomp.counter <= 1 /\ heard.subscriptions = 0
            /\ DOMAIN stomp.subscriptions = Given
            /\ \A id \in Given : stomp.subscriptions[id] = PageTopic
       ELSE /\ stomp.counter <= heard.subscriptions
            /\ heard.subscriptions <= config.subscriptions
            /\ DOMAIN stomp.subscriptions \subseteq Given
    /\ DOMAIN wire.subs \subseteq DOMAIN wire.since
    /\ DOMAIN wire.since \subseteq Given
    /\ wire.state \in {"connecting", "open"} /\ ~ stomp.connected
           => /\ stomp.counter = 0 /\ heard.subscriptions = 0
              /\ DOMAIN stomp.subscriptions = {}

Tables ==
    /\ published \in [Topics -> Nat]
    /\ \A id \in DOMAIN stomp.subscriptions : stomp.subscriptions[id] \in Topics
    /\ \A id \in DOMAIN wire.since : wire.since[id] \in Nat
    /\ \A a, b \in DOMAIN stomp.subscriptions :
           stomp.subscriptions[a] = stomp.subscriptions[b] => a = b

ToldInOrder ==
    /\ heard.bodies \in [Topics -> Seq(Nat)]
    /\ \A t \in Topics :
           /\ \A i \in DOMAIN heard.bodies[t] : heard.bodies[t][i] <= published[t]
           /\ \A i, j \in DOMAIN heard.bodies[t] :
                  i < j => heard.bodies[t][i] < heard.bodies[t][j]

(* What the page shows runs from its only subscription on.                 *)
Shown ==
    IsPage =>
        /\ areas.stompNotification \in Seq(Nat)
        /\ \A id \in DOMAIN wire.since : Run(areas.stompNotification, wire.since[id])
        /\ DOMAIN wire.since = {} => areas.stompNotification = <<>>
        /\ wire.state = "open" => DOMAIN wire.since = DOMAIN wire.subs

(* A SUBSCRIBE frame under way is the only one of its name, and nothing    *)
(* has been published for it; UNSUBSCRIBE is for one that has ended.       *)
Asked ==
    \A i \in DOMAIN wire.toServer :
        LET f == wire.toServer[i]
        IN  /\ f.command = "SUBSCRIBE" =>
                   /\ IdOf(f) \in Given \ DOMAIN wire.subs
                   /\ TopicOf(f) \in Topics
                   /\ \A j \in DOMAIN wire.toClient :
                          ~ MessageFor(wire.toClient[j], IdOf(f))
                   /\ \A j \in DOMAIN wire.toServer :
                          /\ wire.toServer[j].command = "SUBSCRIBE"
                          /\ IdOf(wire.toServer[j]) = IdOf(f)
                          => i = j
            /\ f.command = "UNSUBSCRIBE" =>
                   IdOf(f) \in Given \ DOMAIN stomp.subscriptions

Addressed ==
    \A i \in DOMAIN wire.toClient :
        IsMessage(wire.toClient[i]) => wire.toClient[i][1].subscription \in Given

Pending(id) ==
    \E i \in DOMAIN wire.toServer :
        /\ wire.toServer[i].command = "SUBSCRIBE" /\ IdOf(wire.toServer[i]) = id
        /\ TopicOf(wire.toServer[i]) = stomp.subscriptions[id]

(* last is the last notification that the callback was told of.            *)
UpTo(id, last) ==
    LET t == stomp.subscriptions[id]
    IN  /\ last \in wire.since[id] .. published[t]
        /\ BodiesIn(wire.toClient, id) = last + 1 .. published[t]
        /\ wire.since[id] + 1 .. last \subseteq Range(heard.bodies[t])
        /\ \A i \in DOMAIN heard.bodies[t] : heard.bodies[t][i] <= last
        /\ IsPage => last = wire.since[id] + Len(areas.stompNotification)

Taken(id) ==
    /\ id \in DOMAIN wire.subs /\ wire.subs[id] = stomp.subscriptions[id]
    /\ InOrder(wire.toClient, id)
    /\ \E last \in Nat : UpTo(id, last)

Followed ==
    /\ Asked /\ Addressed
    /\ \A id \in DOMAIN stomp.subscriptions : Pending(id) \/ Taken(id)

Notified == /\ Names /\ Tables /\ ToldInOrder /\ Shown
            /\ wire.state = "open" => Followed

-----------------------------------------------------------------------------
(* The folds over what a turn leaves behind, and headers and queues         *)

(* Lines shown: none                                                       *)
LEMMA ShownNone ==
    ASSUME NEW area PROVE FoldLeft(appendTextArea, area, <<>>) = area
<1>1. DOMAIN <<>> = {}  OBVIOUS
<1> QED BY <1>1 DEF FoldLeft, MapThenFoldSet

(* or one                                                                  *)
LEMMA ShownOne ==
    ASSUME NEW area, NEW line
    PROVE  FoldLeft(appendTextArea, area, <<line>>) = appendTextArea(area, line)
<1> DEFINE F(it) == [s \in SUBSET {1} |-> IF s = {} THEN area
                         ELSE LET x == Max(s)
                              IN  appendTextArea(it[s \ {x}], <<line>>[x])]
           fold == CHOOSE it : it = F(it)
           v == appendTextArea(area, line)
<1>1. DOMAIN <<line>> = {1} /\ <<line>>[1] = line  OBVIOUS
<1>2. FoldLeft(appendTextArea, area, <<line>>) = fold[{1}]
  BY <1>1 DEF FoldLeft, MapThenFoldSet
<1>3. Max({1}) = 1  BY DEF Max
<1>4. {1} \ {1} = {} /\ {} \in SUBSET {1} /\ {1} \in SUBSET {1} /\ {1} # {}  OBVIOUS
<1>5. ASSUME NEW it PROVE F(it)[{}] = area /\ F(it)[{1}] = appendTextArea(it[{}], line)
  BY <1>1, <1>3, <1>4
<1>6. \E it : it = F(it)
  <2> DEFINE it == [s \in SUBSET {1} |-> IF s = {} THEN area ELSE v]
  <2>1. it[{}] = area /\ it[{1}] = v  BY <1>4
  <2>2. F(it)[{}] = area /\ F(it)[{1}] = v
    <3> HIDE DEF F, it
    <3> QED BY <1>5, <2>1
  <2>3. \A s \in SUBSET {1} : s = {} \/ s = {1}  OBVIOUS
  <2> DEFINE g == F(it)
  <2>4. DOMAIN g = SUBSET {1} /\ DOMAIN it = SUBSET {1}  OBVIOUS
  <2>5. \A s \in SUBSET {1} : it[s] = g[s]
    <3> HIDE DEF it, F, v
    <3> QED BY <2>1, <2>2, <2>3
  <2>6. it = g
    <3>1. it = [s \in SUBSET {1} |-> it[s]]  OBVIOUS
    <3>2. g = [s \in SUBSET {1} |-> g[s]]  OBVIOUS
    <3> HIDE DEF it, g
    <3> QED BY <2>5, <3>1, <3>2
  <2> HIDE DEF it, F
  <2> QED BY <2>6 DEF g
<1>7. fold = F(fold)  BY <1>6
<1> HIDE DEF fold, F
<1>8. fold[{}] = area  BY <1>5, <1>7
<1>9. fold[{1}] = appendTextArea(fold[{}], line)  BY <1>5, <1>7
<1> QED BY <1>2, <1>8, <1>9

(* Steps of the MQTT client passed to its socket: none                     *)
LEMMA PassedNone ==
    ASSUME NEW l PROVE FoldLeft(LinkStep, l, <<>>) = l
<1>1. DOMAIN <<>> = {}  OBVIOUS
<1> QED BY <1>1 DEF FoldLeft, MapThenFoldSet

(* or one                                                                  *)
LEMMA PassedOne ==
    ASSUME NEW l, NEW step
    PROVE  FoldLeft(LinkStep, l, <<step>>) = LinkStep(l, step)
<1> DEFINE F(it) == [s \in SUBSET {1} |-> IF s = {} THEN l
                         ELSE LET x == Max(s) IN LinkStep(it[s \ {x}], <<step>>[x])]
           fold == CHOOSE it : it = F(it)
           v == LinkStep(l, step)
<1>1. DOMAIN <<step>> = {1} /\ <<step>>[1] = step  OBVIOUS
<1>2. FoldLeft(LinkStep, l, <<step>>) = fold[{1}]
  BY <1>1 DEF FoldLeft, MapThenFoldSet
<1>3. Max({1}) = 1  BY DEF Max
<1>4. {1} \ {1} = {} /\ {} \in SUBSET {1} /\ {1} \in SUBSET {1} /\ {1} # {}  OBVIOUS
<1>5. ASSUME NEW it PROVE F(it)[{}] = l /\ F(it)[{1}] = LinkStep(it[{}], step)
  BY <1>1, <1>3, <1>4
<1>6. \E it : it = F(it)
  <2> DEFINE it == [s \in SUBSET {1} |-> IF s = {} THEN l ELSE v]
  <2>1. it[{}] = l /\ it[{1}] = v  BY <1>4
  <2>2. F(it)[{}] = l /\ F(it)[{1}] = v
    <3> HIDE DEF F, it
    <3> QED BY <1>5, <2>1
  <2>3. \A s \in SUBSET {1} : s = {} \/ s = {1}  OBVIOUS
  <2> DEFINE g == F(it)
  <2>4. DOMAIN g = SUBSET {1} /\ DOMAIN it = SUBSET {1}  OBVIOUS
  <2>5. \A s \in SUBSET {1} : it[s] = g[s]
    <3> HIDE DEF it, F, v
    <3> QED BY <2>1, <2>2, <2>3
  <2>6. it = g
    <3>1. it = [s \in SUBSET {1} |-> it[s]]  OBVIOUS
    <3>2. g = [s \in SUBSET {1} |-> g[s]]  OBVIOUS
    <3> HIDE DEF it, g
    <3> QED BY <2>5, <3>1, <3>2
  <2> HIDE DEF it, F
  <2> QED BY <2>6 DEF g
<1>7. fold = F(fold)  BY <1>6
<1> HIDE DEF fold, F
<1>8. fold[{}] = l  BY <1>5, <1>7
<1>9. fold[{1}] = LinkStep(fold[{}], step)  BY <1>5, <1>7
<1> QED BY <1>2, <1>8, <1>9

(* Callbacks of MqttPush: none                                             *)
LEMMA LoggedNone ==
    ASSUME NEW a PROVE FoldLeft(Show, a, <<>>) = a
<1>1. DOMAIN <<>> = {}  OBVIOUS
<1> QED BY <1>1 DEF FoldLeft, MapThenFoldSet

(* or one                                                                  *)
LEMMA LoggedOne ==
    ASSUME NEW a, NEW call
    PROVE  FoldLeft(Show, a, <<call>>) = Show(a, call)
<1> DEFINE F(it) == [s \in SUBSET {1} |-> IF s = {} THEN a
                         ELSE LET x == Max(s) IN Show(it[s \ {x}], <<call>>[x])]
           fold == CHOOSE it : it = F(it)
           v == Show(a, call)
<1>1. DOMAIN <<call>> = {1} /\ <<call>>[1] = call  OBVIOUS
<1>2. FoldLeft(Show, a, <<call>>) = fold[{1}]
  BY <1>1 DEF FoldLeft, MapThenFoldSet
<1>3. Max({1}) = 1  BY DEF Max
<1>4. {1} \ {1} = {} /\ {} \in SUBSET {1} /\ {1} \in SUBSET {1} /\ {1} # {}  OBVIOUS
<1>5. ASSUME NEW it PROVE F(it)[{}] = a /\ F(it)[{1}] = Show(it[{}], call)
  BY <1>1, <1>3, <1>4
<1>6. \E it : it = F(it)
  <2> DEFINE it == [s \in SUBSET {1} |-> IF s = {} THEN a ELSE v]
  <2>1. it[{}] = a /\ it[{1}] = v  BY <1>4
  <2>2. F(it)[{}] = a /\ F(it)[{1}] = v
    <3> HIDE DEF F, it
    <3> QED BY <1>5, <2>1
  <2>3. \A s \in SUBSET {1} : s = {} \/ s = {1}  OBVIOUS
  <2> DEFINE g == F(it)
  <2>4. DOMAIN g = SUBSET {1} /\ DOMAIN it = SUBSET {1}  OBVIOUS
  <2>5. \A s \in SUBSET {1} : it[s] = g[s]
    <3> HIDE DEF it, F, v
    <3> QED BY <2>1, <2>2, <2>3
  <2>6. it = g
    <3>1. it = [s \in SUBSET {1} |-> it[s]]  OBVIOUS
    <3>2. g = [s \in SUBSET {1} |-> g[s]]  OBVIOUS
    <3> HIDE DEF it, g
    <3> QED BY <2>5, <3>1, <3>2
  <2> HIDE DEF it, F
  <2> QED BY <2>6 DEF g
<1>7. fold = F(fold)  BY <1>6
<1> HIDE DEF fold, F
<1>8. fold[{}] = a  BY <1>5, <1>7
<1>9. fold[{1}] = Show(fold[{}], call)  BY <1>5, <1>7
<1> QED BY <1>2, <1>8, <1>9

(* The queue of messages that the MQTT client drains holds one.            *)
LEMMA DrainedOne ==
    ASSUME NEW c, NEW m
    PROVE  Mqtt!FoldLeft(Mqtt!SendNext, c, <<m>>) = Mqtt!SendNext(c, m)
<1> DEFINE F(it) == [s \in SUBSET {1} |-> IF s = {} THEN c
                         ELSE LET x == Mqtt!Max(s)
                              IN  Mqtt!SendNext(it[s \ {x}], <<m>>[x])]
           fold == CHOOSE it : it = F(it)
           v == Mqtt!SendNext(c, m)
<1>1. DOMAIN <<m>> = {1} /\ <<m>>[1] = m  OBVIOUS
<1>2. Mqtt!FoldLeft(Mqtt!SendNext, c, <<m>>) = fold[{1}]
  BY <1>1 DEF Mqtt!FoldLeft, Mqtt!MapThenFoldSet
<1>3. Mqtt!Max({1}) = 1  BY DEF Mqtt!Max
<1>4. {1} \ {1} = {} /\ {} \in SUBSET {1} /\ {1} \in SUBSET {1} /\ {1} # {}  OBVIOUS
<1>5. ASSUME NEW it PROVE F(it)[{}] = c /\ F(it)[{1}] = Mqtt!SendNext(it[{}], m)
  BY <1>1, <1>3, <1>4
<1>6. \E it : it = F(it)
  <2> DEFINE it == [s \in SUBSET {1} |-> IF s = {} THEN c ELSE v]
  <2>1. it[{}] = c /\ it[{1}] = v  BY <1>4
  <2>2. F(it)[{}] = c /\ F(it)[{1}] = v
    <3> HIDE DEF F, it
    <3> QED BY <1>5, <2>1
  <2>3. \A s \in SUBSET {1} : s = {} \/ s = {1}  OBVIOUS
  <2> DEFINE g == F(it)
  <2>4. DOMAIN g = SUBSET {1} /\ DOMAIN it = SUBSET {1}  OBVIOUS
  <2>5. \A s \in SUBSET {1} : it[s] = g[s]
    <3> HIDE DEF it, F, v
    <3> QED BY <2>1, <2>2, <2>3
  <2>6. it = g
    <3>1. it = [s \in SUBSET {1} |-> it[s]]  OBVIOUS
    <3>2. g = [s \in SUBSET {1} |-> g[s]]  OBVIOUS
    <3> HIDE DEF it, g
    <3> QED BY <2>5, <3>1, <3>2
  <2> HIDE DEF it, F
  <2> QED BY <2>6 DEF g
<1>7. fold = F(fold)  BY <1>6
<1> HIDE DEF fold, F
<1>8. fold[{}] = c  BY <1>5, <1>7
<1>9. fold[{1}] = Mqtt!SendNext(fold[{}], m)  BY <1>5, <1>7
<1> QED BY <1>2, <1>8, <1>9

(* What the callback of a topic is told of in a turn: nothing without      *)
(* calls                                                                   *)
LEMMA BodiesNone ==
    ASSUME NEW c, c.calls = <<>>, NEW topic PROVE BodiesFor(c, topic) = <<>>
<1>1. DOMAIN <<>> = {}  OBVIOUS
<1> QED BY <1>1 DEF BodiesFor, FoldLeft, MapThenFoldSet

(* and by one call nothing but the body it is for,                         *)
LEMMA BodiesFold ==
    ASSUME NEW c, NEW call, c.calls = <<call>>, NEW topic
    PROVE  BodiesFor(c, topic) = IF call[1] = "message" /\ call[2] = topic
                                 THEN Append(<<>>, call[3]) ELSE <<>>
<1> DEFINE Tell(told, x) == IF x[1] = "message" /\ x[2] = topic
                            THEN Append(told, x[3]) ELSE told
           F(it) == [s \in SUBSET {1} |-> IF s = {} THEN <<>>
                         ELSE LET x == Max(s) IN Tell(it[s \ {x}], <<call>>[x])]
           fold == CHOOSE it : it = F(it)
           v == Tell(<<>>, call)
<1>1. DOMAIN <<call>> = {1} /\ <<call>>[1] = call  OBVIOUS
<1>2. BodiesFor(c, topic) = fold[{1}]
  BY <1>1 DEF BodiesFor, FoldLeft, MapThenFoldSet
<1>3. Max({1}) = 1  BY DEF Max
<1>4. {1} \ {1} = {} /\ {} \in SUBSET {1} /\ {1} \in SUBSET {1} /\ {1} # {}  OBVIOUS
<1>5. ASSUME NEW it PROVE F(it)[{}] = <<>> /\ F(it)[{1}] = Tell(it[{}], call)
  BY <1>1, <1>3, <1>4
<1>6. \E it : it = F(it)
  <2> DEFINE it == [s \in SUBSET {1} |-> IF s = {} THEN <<>> ELSE v]
  <2>1. it[{}] = <<>> /\ it[{1}] = v  BY <1>4
  <2>2. F(it)[{}] = <<>> /\ F(it)[{1}] = v
    <3> HIDE DEF F, it
    <3> QED BY <1>5, <2>1
  <2>3. \A s \in SUBSET {1} : s = {} \/ s = {1}  OBVIOUS
  <2> DEFINE g == F(it)
  <2>4. DOMAIN g = SUBSET {1} /\ DOMAIN it = SUBSET {1}  OBVIOUS
  <2>5. \A s \in SUBSET {1} : it[s] = g[s]
    <3> HIDE DEF it, F, v
    <3> QED BY <2>1, <2>2, <2>3
  <2>6. it = g
    <3>1. it = [s \in SUBSET {1} |-> it[s]]  OBVIOUS
    <3>2. g = [s \in SUBSET {1} |-> g[s]]  OBVIOUS
    <3> HIDE DEF it, g
    <3> QED BY <2>5, <3>1, <3>2
  <2> HIDE DEF it, F
  <2> QED BY <2>6 DEF g
<1>7. fold = F(fold)  BY <1>6
<1> HIDE DEF fold, F
<1>8. fold[{}] = <<>>  BY <1>5, <1>7
<1>9. fold[{1}] = Tell(fold[{}], call)  BY <1>5, <1>7
<1> QED BY <1>2, <1>8, <1>9

(* which makes a sequence of one.                                          *)
LEMMA BodiesOne ==
    ASSUME NEW c, NEW call, c.calls = <<call>>, NEW topic
    PROVE  BodiesFor(c, topic) = IF call[1] = "message" /\ call[2] = topic
                                 THEN <<call[3]>> ELSE <<>>
<1>1. Append(<<>>, call[3]) = <<call[3]>>  OBVIOUS
<1> QED BY <1>1, BodiesFold

(* The headers of a subscription.                                          *)
LEMMA OneHeader ==
    ASSUME NEW name, NEW x
    PROVE  LET h == <<<<name, x>>>>
           IN  /\ Header(h, name) = x
               /\ \A other : other # name => ~ HasHeader(h, other) /\ Header(h, other) = <<>>
<1> DEFINE h == <<<<name, x>>>>
<1>1. DOMAIN h = {1} /\ h[1][1] = name /\ h[1][2] = x  OBVIOUS
<1> HIDE DEF h
<1>2. HasHeader(h, name)  BY <1>1 DEF HasHeader
<1>3. (CHOOSE i \in DOMAIN h : h[i][1] = name) = 1  BY <1>1
<1>4. \A other : other # name => ~ HasHeader(h, other)  BY <1>1 DEF HasHeader
<1> QED BY <1>1, <1>2, <1>3, <1>4 DEF Header, h

(* The two headers of a SUBSCRIBE frame keep their values.                 *)
LEMMA TwoHeaders ==
    ASSUME NEW x, NEW y
    PROVE  LET h == SetHeader(<<<<"id", x>>>>, "destination", y)
           IN  Header(h, "id") = x /\ Header(h, "destination") = y
<1> DEFINE g == <<<<"id", x>>>>
           h == <<<<"id", x>>, <<"destination", y>>>>
<1>1. ~ HasHeader(g, "destination")
  BY OneHeader
<1>2. SetHeader(g, "destination", y) = h
  <2>1. Append(g, <<"destination", y>>) = h
    <3>1. g = Append(<<>>, <<"id", x>>)  OBVIOUS
    <3> QED BY <3>1, TwoAppended
  <2> QED BY <1>1, <2>1 DEF SetHeader
<1>3. /\ DOMAIN h = {1, 2} /\ h[1][1] = "id" /\ h[1][2] = x
      /\ h[2][1] = "destination" /\ h[2][2] = y
  OBVIOUS
<1> HIDE DEF h, g
<1>4. HasHeader(h, "id") /\ HasHeader(h, "destination")  BY <1>3 DEF HasHeader
<1>5. (CHOOSE i \in DOMAIN h : h[i][1] = "id") = 1
      /\ (CHOOSE i \in DOMAIN h : h[i][1] = "destination") = 2
  BY <1>3
<1>6. Header(h, "id") = x /\ Header(h, "destination") = y
  BY <1>3, <1>4, <1>5 DEF Header
<1> QED BY <1>2, <1>6 DEF g

(* A subscription is named by the client                                   *)
LEMMA NamedByClient ==
    ASSUME NEW t, NEW k
    PROVE  LET f == subscribeFrame(t, <<>>, k)
           IN  /\ f.command = "SUBSCRIBE" /\ IdOf(f) = SubId(k) /\ TopicOf(f) = t
               /\ Header(<<>>, "id") = <<>>
<1>1. ~ HasHeader(<<>>, "id") /\ Header(<<>>, "id") = <<>>
  BY DEF HasHeader, Header
<1>2. SetHeader(<<>>, "id", SubId(k)) = <<<<"id", SubId(k)>>>>
  BY <1>1 DEF SetHeader
<1> DEFINE h == SetHeader(<<<<"id", SubId(k)>>>>, "destination", t)
<1>3. Header(h, "id") = SubId(k) /\ Header(h, "destination") = t
  BY TwoHeaders
<1>4. subscribeFrame(t, <<>>, k) = Frame("SUBSCRIBE", h, <<>>)
  BY <1>1, <1>2 DEF subscribeFrame, SubId
<1> HIDE DEF h
<1> QED BY <1>1, <1>3, <1>4 DEF Frame, IdOf, TopicOf

(* or by the application.                                                  *)
LEMMA NamedByApplication ==
    ASSUME NEW t, NEW k, NEW x, x # <<>>
    PROVE  LET f == subscribeFrame(t, <<<<"id", x>>>>, k)
           IN  /\ f.command = "SUBSCRIBE" /\ IdOf(f) = x /\ TopicOf(f) = t
               /\ Header(<<<<"id", x>>>>, "id") = x
<1> DEFINE g == <<<<"id", x>>>>
<1>1. Header(g, "id") = x
  BY OneHeader
<1> DEFINE h == SetHeader(g, "destination", t)
<1>2. Header(h, "id") = x /\ Header(h, "destination") = t
  BY TwoHeaders
<1> HIDE DEF g
<1>3. subscribeFrame(t, g, k) = Frame("SUBSCRIBE", h, <<>>)
  BY <1>1 DEF subscribeFrame
<1> HIDE DEF h
<1> QED BY <1>1, <1>2, <1>3 DEF Frame, IdOf, TopicOf, g

(* The frame that ends one.                                                *)
LEMMA NamedToEnd ==
    ASSUME NEW id
    PROVE  LET f == unsubscribeFrame(id)
           IN  f.command = "UNSUBSCRIBE" /\ IdOf(f) = id
BY OneHeader DEF unsubscribeFrame, Frame, IdOf

(* No name is given twice.                                                 *)
LEMMA NewName ==
    ASSUME config \in Configurations, Names,
           ~ IsPage => heard.subscriptions < config.subscriptions
    PROVE  /\ ~ IsPage => /\ SubId(stomp.counter) \notin Given
                          /\ OwnId \notin Given /\ OwnId # <<>>
           /\ SubId(stomp.counter) # <<>>
<1>1. /\ stomp.counter \in Nat /\ heard.subscriptions \in Nat
      /\ config.subscriptions \in Nat
  BY PageAssumption DEF Names
<1>2. \A m, n \in 0 .. config.subscriptions : ToString(m) = ToString(n) => m = n
  BY NumeralAssumption
<1>3. OwnId = OwnSubId(heard.subscriptions)  BY DEF OwnId, OwnSubId
<1>4. \A m, n : SubId(m) # OwnSubId(n)  BY DEF SubId, OwnSubId
<1>5. \A m : SubId(m) # <<>> /\ OwnSubId(m) # <<>>  BY DEF SubId, OwnSubId
<1>6. \A m, n \in 0 .. config.subscriptions :
          /\ SubId(m) = SubId(n) => m = n
          /\ OwnSubId(m) = OwnSubId(n) => m = n
  BY <1>2 DEF SubId, OwnSubId
<1>7. ASSUME ~ IsPage PROVE SubId(stomp.counter) \notin Given
  <2>1. \A k \in 0 .. stomp.counter - 1 : SubId(k) # SubId(stomp.counter)
    BY <1>1, <1>6, <1>7 DEF Names
  <2> QED BY <1>4, <2>1 DEF Given
<1>8. ASSUME ~ IsPage PROVE OwnId \notin Given
  <2>1. \A k \in 0 .. heard.subscriptions - 1 :
            OwnSubId(k) # OwnSubId(heard.subscriptions)
    BY <1>1, <1>6, <1>8
  <2> QED BY <1>3, <1>4, <2>1 DEF Given
<1> QED BY <1>3, <1>5, <1>7, <1>8

(* Reading the first of a queue                                            *)
LEMMA FirstRead ==
    ASSUME NEW s, IsSequence(s), s # <<>>, NEW id, InOrder(s, id)
    PROVE  /\ InOrder(Tail(s), id)
           /\ MessageFor(s[1], id) =>
                  /\ BodiesIn(s, id) = {s[1][1].body} \cup BodiesIn(Tail(s), id)
                  /\ \A n \in BodiesIn(Tail(s), id) : s[1][1].body < n
           /\ ~ MessageFor(s[1], id) => BodiesIn(s, id) = BodiesIn(Tail(s), id)
<1> DEFINE r == Tail(s)
<1>1. /\ \A i \in DOMAIN r : i + 1 \in DOMAIN s /\ r[i] = s[i + 1] /\ i \in Nat /\ i >= 1
      /\ \A i \in DOMAIN s : i # 1 => i - 1 \in DOMAIN r /\ s[i] = r[i - 1]
      /\ 1 \in DOMAIN s /\ \A i \in DOMAIN s : i \in Nat
  <2> DEFINE S == Range(s)
  <2>1. s \in Seq(S)  BY DEF IsSequence
  <2> HIDE DEF S
  <2>2. /\ DOMAIN s = 1 .. Len(s) /\ DOMAIN r = 1 .. Len(s) - 1 /\ Len(s) \in Nat
        /\ Len(s) >= 1 /\ \A i \in 1 .. Len(s) - 1 : r[i] = s[i + 1]
    BY <2>1
  <2> HIDE DEF r
  <2>3. ASSUME NEW i \in DOMAIN s, i # 1 PROVE i - 1 \in DOMAIN r /\ s[i] = r[i - 1]
    <3>1. i - 1 \in 1 .. Len(s) - 1 /\ (i - 1) + 1 = i  BY <2>2, <2>3
    <3> QED BY <2>2, <3>1
  <2>4. ASSUME NEW i \in DOMAIN r
        PROVE  i + 1 \in DOMAIN s /\ r[i] = s[i + 1] /\ i \in Nat /\ i >= 1
    BY <2>2
  <2> QED BY <2>2, <2>3, <2>4
<1> HIDE DEF r
<1>2. InOrder(r, id)
  <2> SUFFICES ASSUME NEW i \in DOMAIN r, NEW j \in DOMAIN r, i < j,
                      MessageFor(r[i], id), MessageFor(r[j], id)
               PROVE  r[i][1].body < r[j][1].body
    BY DEF InOrder
  <2>1. i + 1 \in DOMAIN s /\ j + 1 \in DOMAIN s /\ i + 1 < j + 1  BY <1>1
  <2>2. r[i] = s[i + 1] /\ r[j] = s[j + 1]  BY <1>1
  <2> QED BY <2>1, <2>2 DEF InOrder
<1>3. ASSUME MessageFor(s[1], id)
      PROVE  /\ BodiesIn(s, id) = {s[1][1].body} \cup BodiesIn(r, id)
             /\ \A n \in BodiesIn(r, id) : s[1][1].body < n
  <2>1. ASSUME NEW n \in BodiesIn(s, id) PROVE n \in {s[1][1].body} \cup BodiesIn(r, id)
    <3>1. PICK i \in DOMAIN s : MessageFor(s[i], id) /\ n = s[i][1].body
      BY <2>1 DEF BodiesIn
    <3>2. CASE i = 1  BY <3>1, <3>2
    <3>3. CASE i # 1
      <4>1. i - 1 \in DOMAIN r /\ s[i] = r[i - 1]  BY <1>1, <3>3
      <4> QED BY <3>1, <4>1 DEF BodiesIn
    <3> QED BY <3>2, <3>3
  <2>2. ASSUME NEW n \in BodiesIn(r, id) PROVE n \in BodiesIn(s, id) /\ s[1][1].body < n
    <3>1. PICK i \in DOMAIN r : MessageFor(r[i], id) /\ n = r[i][1].body
      BY <2>2 DEF BodiesIn
    <3>2. i + 1 \in DOMAIN s /\ r[i] = s[i + 1] /\ 1 < i + 1  BY <1>1
    <3> QED BY <1>1, <1>3, <3>1, <3>2 DEF BodiesIn, InOrder
  <2>3. s[1][1].body \in BodiesIn(s, id)  BY <1>1, <1>3 DEF BodiesIn
  <2> QED BY <2>1, <2>2, <2>3
<1>4. ASSUME ~ MessageFor(s[1], id) PROVE BodiesIn(s, id) = BodiesIn(r, id)
  <2>1. ASSUME NEW n \in BodiesIn(s, id) PROVE n \in BodiesIn(r, id)
    <3>1. PICK i \in DOMAIN s : MessageFor(s[i], id) /\ n = s[i][1].body
      BY <2>1 DEF BodiesIn
    <3>2. i # 1  BY <1>4, <3>1
    <3>3. i - 1 \in DOMAIN r /\ s[i] = r[i - 1]  BY <1>1, <3>2
    <3> QED BY <3>1, <3>3 DEF BodiesIn
  <2>2. ASSUME NEW n \in BodiesIn(r, id) PROVE n \in BodiesIn(s, id)
    <3>1. PICK i \in DOMAIN r : MessageFor(r[i], id) /\ n = r[i][1].body
      BY <2>2 DEF BodiesIn
    <3>2. i + 1 \in DOMAIN s /\ r[i] = s[i + 1]  BY <1>1
    <3> QED BY <3>1, <3>2 DEF BodiesIn
  <2> QED BY <2>1, <2>2
<1> QED BY <1>2, <1>3, <1>4 DEF r

(* Sending to a queue messages of which at most one, the newest, is for id *)
LEMMA LastSent ==
    ASSUME NEW s, IsSequence(s), NEW d, IsSequence(d), NEW id, InOrder(s, id),
           \A i, j \in DOMAIN d : MessageFor(d[i], id) /\ MessageFor(d[j], id) => i = j,
           \A i \in DOMAIN d : MessageFor(d[i], id) =>
               \A n \in BodiesIn(s, id) : n < d[i][1].body
    PROVE  /\ InOrder(s \o d, id)
           /\ BodiesIn(s \o d, id) = BodiesIn(s, id) \cup BodiesIn(d, id)
<1> DEFINE r == s \o d
<1>1. /\ Len(s) \in Nat /\ DOMAIN s = 1 .. Len(s) /\ Len(d) \in Nat
      /\ DOMAIN d = 1 .. Len(d) /\ DOMAIN r = 1 .. Len(s) + Len(d)
      /\ \A i \in DOMAIN s : r[i] = s[i]
      /\ \A i \in DOMAIN d : r[Len(s) + i] = d[i]
  <2> DEFINE S == Range(s) \cup Range(d)
  <2>1. s \in Seq(S) /\ d \in Seq(S)
    <3>1. s \in Seq(Range(s)) /\ d \in Seq(Range(d))  BY DEF IsSequence
    <3>2. Range(s) \subseteq S /\ Range(d) \subseteq S  OBVIOUS
    <3> HIDE DEF S
    <3> QED BY <3>1, <3>2, SeqMonotonic
  <2> HIDE DEF S
  <2>2. /\ Len(s) \in Nat /\ DOMAIN s = 1 .. Len(s) /\ Len(d) \in Nat
        /\ DOMAIN d = 1 .. Len(d) /\ DOMAIN r = 1 .. Len(s) + Len(d)
    BY <2>1
  <2>3. \A i \in 1 .. Len(s) + Len(d) :
            r[i] = IF i <= Len(s) THEN s[i] ELSE d[i - Len(s)]
    BY <2>1
  <2> HIDE DEF r
  <2>4. ASSUME NEW i \in DOMAIN d PROVE r[Len(s) + i] = d[i]
    <3>1. Len(s) + i \in 1 .. Len(s) + Len(d) /\ ~ (Len(s) + i <= Len(s))
          /\ (Len(s) + i) - Len(s) = i
      BY <2>2
    <3> QED BY <2>3, <3>1
  <2>5. ASSUME NEW i \in DOMAIN s PROVE r[i] = s[i]
    BY <2>2, <2>3
  <2> QED BY <2>2, <2>4, <2>5
<1> HIDE DEF r
<1>2. ASSUME NEW i \in DOMAIN r, i \notin DOMAIN s
      PROVE  \E k \in DOMAIN d : i = Len(s) + k /\ r[i] = d[k]
  <2>1. i - Len(s) \in DOMAIN d /\ i = Len(s) + (i - Len(s))  BY <1>1, <1>2
  <2> QED BY <1>1, <2>1
<1>3. ASSUME NEW i \in DOMAIN s PROVE i \in DOMAIN r
  BY <1>1
<1>4. ASSUME NEW k \in DOMAIN d PROVE Len(s) + k \in DOMAIN r
  BY <1>1
<1>5. InOrder(r, id)
  <2> SUFFICES ASSUME NEW i \in DOMAIN r, NEW j \in DOMAIN r, i < j,
                      MessageFor(r[i], id), MessageFor(r[j], id)
               PROVE  r[i][1].body < r[j][1].body
    BY DEF InOrder
  <2>1. CASE j \in DOMAIN s
    <3>1. i \in DOMAIN s  BY <1>1, <2>1
    <3> QED BY <1>1, <2>1, <3>1 DEF InOrder
  <2>2. CASE j \notin DOMAIN s
    <3>1. PICK k \in DOMAIN d : j = Len(s) + k /\ r[j] = d[k]  BY <1>2, <2>2
    <3>2. CASE i \in DOMAIN s
      <4>1. r[i][1].body \in BodiesIn(s, id)  BY <1>1, <3>2 DEF BodiesIn
      <4> QED BY <3>1, <4>1
    <3>3. CASE i \notin DOMAIN s
      <4>1. PICK m \in DOMAIN d : i = Len(s) + m /\ r[i] = d[m]  BY <1>2, <3>3
      <4>2. m = k  BY <3>1, <4>1
      <4> QED BY <1>1, <3>1, <4>1, <4>2
    <3> QED BY <3>2, <3>3
  <2> QED BY <2>1, <2>2
<1>6. ASSUME NEW n \in BodiesIn(r, id) PROVE n \in BodiesIn(s, id) \cup BodiesIn(d, id)
  <2>1. PICK i \in DOMAIN r : MessageFor(r[i], id) /\ n = r[i][1].body
    BY <1>6 DEF BodiesIn
  <2>2. CASE i \in DOMAIN s
    BY <1>1, <2>1, <2>2 DEF BodiesIn
  <2>3. CASE i \notin DOMAIN s
    <3>1. PICK k \in DOMAIN d : r[i] = d[k]  BY <1>2, <2>3
    <3> QED BY <2>1, <3>1 DEF BodiesIn
  <2> QED BY <2>2, <2>3
<1>7. ASSUME NEW n \in BodiesIn(s, id) PROVE n \in BodiesIn(r, id)
  <2>1. PICK i \in DOMAIN s : MessageFor(s[i], id) /\ n = s[i][1].body
    BY <1>7 DEF BodiesIn
  <2>2. r[i] = s[i] /\ i \in DOMAIN r  BY <1>1, <1>3
  <2> QED BY <2>1, <2>2 DEF BodiesIn
<1>8. ASSUME NEW n \in BodiesIn(d, id) PROVE n \in BodiesIn(r, id)
  <2>1. PICK i \in DOMAIN d : MessageFor(d[i], id) /\ n = d[i][1].body
    BY <1>8 DEF BodiesIn
  <2>2. r[Len(s) + i] = d[i] /\ Len(s) + i \in DOMAIN r  BY <1>1, <1>4
  <2> QED BY <2>1, <2>2 DEF BodiesIn
<1> QED BY <1>5, <1>6, <1>7, <1>8 DEF r

(* Steps that leave the subscriptions, their names and what was told alone *)
Subscriptions == <<stomp.subscriptions, stomp.counter, heard.subscriptions>>
Books == <<wire.subs, wire.since>>
ToldSoFar == <<heard.bodies, areas.stompNotification>>

NoLessConnected ==
    /\ wire'.state \in {"connecting", "open"} => wire.state \in {"connecting", "open"}
    /\ wire'.state \in {"connecting", "open"} /\ ~ stomp'.connected => ~ stomp.connected

(* When nothing is told and no name is given, the tables stay as they are. *)
LEMMA NamesStay ==
    ASSUME Names, Tables, ToldInOrder, Shown,
           UNCHANGED <<config, published, Subscriptions, Books, ToldSoFar>>,
           NoLessConnected,
           wire'.state = "open" => wire.state = "open" \/ DOMAIN wire.since = {}
    PROVE  Names' /\ Tables' /\ ToldInOrder' /\ Shown' /\ Given' = Given /\ IsPage' = IsPage
<1>1. /\ config' = config /\ published' = published
      /\ stomp'.subscriptions = stomp.subscriptions /\ stomp'.counter = stomp.counter
      /\ heard'.subscriptions = heard.subscriptions
      /\ wire'.subs = wire.subs /\ wire'.since = wire.since
      /\ heard'.bodies = heard.bodies
      /\ areas'.stompNotification = areas.stompNotification
  BY DEF Subscriptions, Books, ToldSoFar
<1>2. Given' = Given /\ IsPage' = IsPage  BY <1>1 DEF Given, IsPage
<1>3. Names'  BY <1>1, <1>2 DEF Names, NoLessConnected
<1>4. Tables'  BY <1>1 DEF Tables
<1>5. ToldInOrder'  BY <1>1 DEF ToldInOrder
<1>6. Shown'  BY <1>1, <1>2 DEF Shown, Names
<1> QED BY <1>2, <1>3, <1>4, <1>5, <1>6

(* and the queues too, while the socket is open;                           *)
LEMMA QueuesStay ==
    ASSUME Notified,
           UNCHANGED <<config, published, Subscriptions, Books, ToldSoFar>>,
           NoLessConnected,
           wire'.state = "open" => /\ wire.state = "open"
                                   /\ UNCHANGED <<wire.toServer, wire.toClient>>
    PROVE  Notified'
<1>1. Names' /\ Tables' /\ ToldInOrder' /\ Shown' /\ Given' = Given /\ IsPage' = IsPage
  BY NamesStay DEF Notified
<1>2. ASSUME wire'.state = "open" PROVE Followed'
  <2>1. /\ Followed /\ wire'.toServer = wire.toServer /\ wire'.toClient = wire.toClient
        /\ stomp'.subscriptions = stomp.subscriptions /\ published' = published
        /\ wire'.subs = wire.subs /\ wire'.since = wire.since
        /\ heard'.bodies = heard.bodies
        /\ areas'.stompNotification = areas.stompNotification
    BY <1>2 DEF Notified, Subscriptions, Books, ToldSoFar
  <2>2. Asked'  BY <1>1, <2>1 DEF Followed, Asked
  <2>3. Addressed'  BY <1>1, <2>1 DEF Followed, Addressed
  <2>4. ASSUME NEW id \in DOMAIN stomp.subscriptions PROVE Pending(id)' \/ Taken(id)'
    <3>1. Pending(id) \/ Taken(id)  BY <2>1 DEF Followed
    <3>2. CASE Pending(id)  BY <2>1, <3>2 DEF Pending
    <3>3. CASE Taken(id)  BY <1>1, <2>1, <3>3 DEF Taken, UpTo
    <3> QED BY <3>1, <3>2, <3>3
  <2> QED BY <2>1, <2>2, <2>3, <2>4 DEF Followed
<1> QED BY <1>1, <1>2 DEF Notified

(* or nobody has subscribed, and the queues do not speak of it.            *)
LEMMA NobodySubscribed ==
    ASSUME Notified,
           UNCHANGED <<config, published, Subscriptions, Books, ToldSoFar>>,
           NoLessConnected, DOMAIN stomp.subscriptions = {}, DOMAIN wire.subs = {},
           wire.state = "connecting" => DOMAIN wire.since = {},
           \A i \in DOMAIN wire'.toServer : ~ AboutSubscription(wire'.toServer[i]),
           \A i \in DOMAIN wire'.toClient : ~ IsMessage(wire'.toClient[i])
    PROVE  Notified'
<1>1. Names' /\ Tables' /\ ToldInOrder' /\ Shown' /\ Given' = Given /\ IsPage' = IsPage
  <2>1. wire'.state = "open" => wire.state = "open" \/ DOMAIN wire.since = {}
    BY DEF NoLessConnected
  <2> QED BY <2>1, NamesStay DEF Notified
<1>2. Asked'  BY DEF Asked, AboutSubscription
<1>3. Addressed'  BY DEF Addressed
<1>4. DOMAIN stomp'.subscriptions = {}  BY DEF Subscriptions
<1> QED BY <1>1, <1>2, <1>3, <1>4 DEF Notified, Followed

(* The broker takes a subscription,                                        *)
LEMMA SubscriptionTaken ==
    ASSUME Notified, wire.state = "open", wire'.state = "open",
           UNCHANGED <<config, published, Subscriptions, ToldSoFar, stomp.connected>>,
           IsSequence(wire.toServer), wire.toServer # <<>>,
           NEW f, f = wire.toServer[1], f.command = "SUBSCRIBE",
           wire'.toServer = Tail(wire.toServer), wire'.toClient = wire.toClient,
           wire'.subs = [i \in DOMAIN wire.subs \cup {IdOf(f)} |->
                           IF i = IdOf(f) THEN TopicOf(f) ELSE wire.subs[i]],
           wire'.since = [i \in DOMAIN wire.since \cup {IdOf(f)} |->
                            IF i = IdOf(f) THEN published[TopicOf(f)] ELSE wire.since[i]]
    PROVE  Notified'
<1> DEFINE id == IdOf(f)
           t == TopicOf(f)
<1>1. /\ config' = config /\ published' = published
      /\ stomp'.subscriptions = stomp.subscriptions /\ stomp'.counter = stomp.counter
      /\ heard'.subscriptions = heard.subscriptions
      /\ stomp'.connected = stomp.connected
      /\ heard'.bodies = heard.bodies
      /\ areas'.stompNotification = areas.stompNotification
  BY DEF Subscriptions, ToldSoFar
<1>2. Given' = Given /\ IsPage' = IsPage  BY <1>1 DEF Given, IsPage
<1>3. /\ Followed /\ Asked /\ Addressed /\ Names /\ Tables /\ ToldInOrder /\ Shown
  BY DEF Notified, Followed
<1>4. /\ id \in Given \ DOMAIN wire.subs /\ t \in Topics
      /\ \A j \in DOMAIN wire.toClient : ~ MessageFor(wire.toClient[j], id)
      /\ \A j \in DOMAIN wire.toServer :
             wire.toServer[j].command = "SUBSCRIBE" /\ IdOf(wire.toServer[j]) = id
                 => j = 1
      /\ 1 \in DOMAIN wire.toServer
  <2>1. 1 \in DOMAIN wire.toServer  BY HeadRead
  <2> QED BY <1>3, <2>1 DEF Asked
<1>5. \A i \in DOMAIN wire'.toServer :
          i + 1 \in DOMAIN wire.toServer /\ wire'.toServer[i] = wire.toServer[i + 1]
          /\ i \in Nat /\ i >= 1
  <2>1. IsSequence(Tail(wire.toServer))  BY HeadRead
  <2>2. \A i \in DOMAIN Tail(wire.toServer) : i \in Nat /\ i >= 1
    <3> DEFINE r == Tail(wire.toServer)
    <3>1. r \in Seq(Range(r))  BY <2>1 DEF IsSequence
    <3> HIDE DEF r
    <3>2. DOMAIN r = 1 .. Len(r) /\ Len(r) \in Nat  BY <3>1
    <3> QED BY <3>2 DEF r
  <2> QED BY <2>2, HeadRead
<1>6. \A i \in DOMAIN wire.toServer :
          i # 1 => /\ i - 1 \in DOMAIN wire'.toServer
                   /\ wire'.toServer[i - 1] = wire.toServer[i]
  <2> DEFINE s == wire.toServer
             r == Tail(s)
  <2>1. s \in Seq(Range(s))  BY DEF IsSequence
  <2>2. DOMAIN s = 1 .. Len(s) /\ DOMAIN r = 1 .. Len(s) - 1 /\ Len(s) \in Nat
        /\ \A i \in 1 .. Len(s) - 1 : r[i] = s[i + 1]
    <3> DEFINE S == Range(s)
    <3>1. s \in Seq(S)  BY <2>1
    <3> HIDE DEF S
    <3> QED BY <3>1
  <2> HIDE DEF s, r
  <2>3. ASSUME NEW i \in DOMAIN s, i # 1 PROVE i - 1 \in DOMAIN r /\ s[i] = r[i - 1]
    <3>1. i - 1 \in 1 .. Len(s) - 1 /\ (i - 1) + 1 = i  BY <2>2, <2>3
    <3> QED BY <2>2, <3>1
  <2> QED BY <2>3 DEF s, r
<1>7. /\ DOMAIN wire'.subs = DOMAIN wire.subs \cup {id}
      /\ wire'.subs[id] = t /\ \A i \in DOMAIN wire.subs : wire'.subs[i] = wire.subs[i]
      /\ DOMAIN wire'.since = DOMAIN wire.since \cup {id}
      /\ wire'.since[id] = published[t]
      /\ \A i \in DOMAIN wire.since : i # id => wire'.since[i] = wire.since[i]
  BY <1>4
<1> HIDE DEF id, t
<1>8. Names'
  BY <1>1, <1>2, <1>3, <1>4, <1>7 DEF Names
<1>9. Tables'
  BY <1>1, <1>3, <1>4, <1>7 DEF Tables
<1>10. ToldInOrder'  BY <1>1, <1>3 DEF ToldInOrder
<1>11. IsPage => DOMAIN wire.since = {} /\ areas.stompNotification = <<>>
  <2> SUFFICES ASSUME IsPage PROVE DOMAIN wire.since = {}
    BY <1>3 DEF Shown
  <2>1. DOMAIN wire.since = DOMAIN wire.subs  BY <1>3 DEF Shown
  <2>2. Given \subseteq {SubId(0)}
    BY <1>3 DEF Names, Given
  <2> QED BY <1>3, <1>4, <2>1, <2>2 DEF Names
<1>12. Shown'
  <2> SUFFICES ASSUME IsPage PROVE Shown'
    BY <1>2 DEF Shown
  <2>1. DOMAIN wire.since = {} /\ areas.stompNotification = <<>>  BY <1>11
  <2>2. DOMAIN wire.subs = {}  BY <1>3, <2>1 DEF Names
  <2>3. areas'.stompNotification = <<>>  BY <1>1, <2>1
  <2>4. \A n : Run(<<>>, n)  BY DEF Run
  <2> QED BY <1>3, <1>7, <2>1, <2>2, <2>3, <2>4 DEF Shown
<1>13. Asked'
  <2> SUFFICES ASSUME NEW i \in DOMAIN wire'.toServer
               PROVE  LET g == wire'.toServer[i]
                      IN  /\ g.command = "SUBSCRIBE" =>
                                 /\ IdOf(g) \in Given \ DOMAIN wire'.subs
                                 /\ TopicOf(g) \in Topics
                                 /\ \A j \in DOMAIN wire'.toClient :
                                        ~ MessageFor(wire'.toClient[j], IdOf(g))
                                 /\ \A j \in DOMAIN wire'.toServer :
                                        /\ wire'.toServer[j].command = "SUBSCRIBE"
                                        /\ IdOf(wire'.toServer[j]) = IdOf(g)
                                        => i = j
                          /\ g.command = "UNSUBSCRIBE" =>
                                 IdOf(g) \in Given \ DOMAIN stomp'.subscriptions
    BY <1>2 DEF Asked
  <2> DEFINE g == wire'.toServer[i]
  <2>1. i + 1 \in DOMAIN wire.toServer /\ g = wire.toServer[i + 1] /\ i + 1 # 1
        /\ i \in Nat
    BY <1>5
  <2>2. \A j \in DOMAIN wire'.toServer : j + 1 \in DOMAIN wire.toServer
            /\ wire'.toServer[j] = wire.toServer[j + 1] /\ j \in Nat
    BY <1>5
  <2> HIDE DEF g
  <2>3. ASSUME g.command = "SUBSCRIBE"
        PROVE  /\ IdOf(g) \in Given \ DOMAIN wire'.subs
               /\ TopicOf(g) \in Topics
               /\ \A j \in DOMAIN wire'.toClient :
                      ~ MessageFor(wire'.toClient[j], IdOf(g))
               /\ \A j \in DOMAIN wire'.toServer :
                      /\ wire'.toServer[j].command = "SUBSCRIBE"
                      /\ IdOf(wire'.toServer[j]) = IdOf(g)
                      => i = j
    <3>1. IdOf(g) # id  BY <1>4, <2>1, <2>3
    <3>2. /\ IdOf(g) \in Given \ DOMAIN wire.subs /\ TopicOf(g) \in Topics
          /\ \A j \in DOMAIN wire.toClient : ~ MessageFor(wire.toClient[j], IdOf(g))
          /\ \A j \in DOMAIN wire.toServer :
                 wire.toServer[j].command = "SUBSCRIBE" /\ IdOf(wire.toServer[j]) = IdOf(g)
                     => i + 1 = j
      BY <1>3, <2>1, <2>3 DEF Asked
    <3>3. ASSUME NEW j \in DOMAIN wire'.toServer,
                 wire'.toServer[j].command = "SUBSCRIBE",
                 IdOf(wire'.toServer[j]) = IdOf(g)
          PROVE  i = j
      <4>1. i + 1 = j + 1  BY <2>2, <3>2, <3>3
      <4> QED BY <2>1, <2>2, <4>1
    <3> QED BY <1>7, <3>1, <3>2, <3>3
  <2>4. ASSUME g.command = "UNSUBSCRIBE"
        PROVE  IdOf(g) \in Given \ DOMAIN stomp'.subscriptions
    BY <1>1, <1>3, <2>1, <2>4 DEF Asked
  <2> QED BY <2>3, <2>4 DEF g
<1>14. Addressed'  BY <1>2, <1>3 DEF Addressed
<1>15. ASSUME NEW sid \in DOMAIN stomp.subscriptions PROVE Pending(sid)' \/ Taken(sid)'
  <2>1. Pending(sid) \/ Taken(sid)  BY <1>3 DEF Followed
  <2>2. CASE Pending(sid)
    <3>1. PICK i \in DOMAIN wire.toServer :
              /\ wire.toServer[i].command = "SUBSCRIBE" /\ IdOf(wire.toServer[i]) = sid
              /\ TopicOf(wire.toServer[i]) = stomp.subscriptions[sid]
      BY <2>2 DEF Pending
    <3>2. CASE i # 1
      <4>1. i - 1 \in DOMAIN wire'.toServer /\ wire'.toServer[i - 1] = wire.toServer[i]
        BY <1>6, <3>2
      <4> QED BY <1>1, <3>1, <4>1 DEF Pending
    <3>3. CASE i = 1
      <4>1. sid = id /\ stomp.subscriptions[id] = t
        BY <3>1, <3>3 DEF id, t
      <4>2. BodiesIn(wire.toClient, id) = {} /\ InOrder(wire.toClient, id)
        BY <1>4 DEF BodiesIn, InOrder
      <4>3. published[t] \in Nat  BY <1>3, <1>4 DEF Tables
      <4>4. \A i_1 \in DOMAIN heard.bodies[t] : heard.bodies[t][i_1] <= published[t]
        BY <1>3, <1>4 DEF ToldInOrder
      <4>5. Len(<<>>) = 0  OBVIOUS
      <4>6. /\ published[t] + 1 .. published[t] = {}
            /\ published[t] \in published[t] .. published[t]
        BY <4>3
      <4>7. UpTo(id, published[t])'
        BY <1>1, <1>2, <1>7, <1>11, <4>1, <4>2, <4>3, <4>4, <4>5, <4>6 DEF UpTo
      <4> QED BY <1>1, <1>7, <4>1, <4>2, <4>3, <4>7 DEF Taken
    <3> QED BY <3>2, <3>3
  <2>3. CASE Taken(sid)
    <3>1. sid \in DOMAIN wire.subs /\ sid # id  BY <1>4, <2>3 DEF Taken
    <3>2. sid \in DOMAIN wire.since  BY <1>3, <3>1 DEF Names
    <3>3. wire'.since[sid] = wire.since[sid] /\ wire'.subs[sid] = wire.subs[sid]
          /\ sid \in DOMAIN wire'.subs
      BY <1>7, <3>1, <3>2
    <3> QED BY <1>1, <1>2, <2>3, <3>3 DEF Taken, UpTo
  <2> QED BY <2>1, <2>2, <2>3
<1> QED BY <1>1, <1>8, <1>9, <1>10, <1>12, <1>13, <1>14, <1>15 DEF Notified, Followed

(* A queue from the second position on                                     *)
LEMMA Rest ==
    ASSUME NEW s, IsSequence(s), s # <<>>
    PROVE  /\ \A i \in DOMAIN Tail(s) : /\ i + 1 \in DOMAIN s /\ Tail(s)[i] = s[i + 1]
                                        /\ i \in Nat /\ i >= 1
           /\ \A i \in DOMAIN s : i # 1 => /\ i - 1 \in DOMAIN Tail(s)
                                            /\ Tail(s)[i - 1] = s[i]
           /\ 1 \in DOMAIN s
<1> DEFINE S == Range(s)
           r == Tail(s)
<1>1. s \in Seq(S)  BY DEF IsSequence
<1> HIDE DEF S
<1>2. /\ DOMAIN s = 1 .. Len(s) /\ DOMAIN r = 1 .. Len(s) - 1 /\ Len(s) \in Nat
      /\ Len(s) >= 1 /\ \A i \in 1 .. Len(s) - 1 : r[i] = s[i + 1]
  BY <1>1
<1> HIDE DEF r
<1>3. ASSUME NEW i \in DOMAIN s, i # 1 PROVE i - 1 \in DOMAIN r /\ r[i - 1] = s[i]
  <2>1. i - 1 \in 1 .. Len(s) - 1 /\ (i - 1) + 1 = i  BY <1>2, <1>3
  <2> QED BY <1>2, <2>1
<1>4. ASSUME NEW i \in DOMAIN r
      PROVE  i + 1 \in DOMAIN s /\ r[i] = s[i + 1] /\ i \in Nat /\ i >= 1
  BY <1>2
<1> QED BY <1>2, <1>3, <1>4 DEF r

(* and with one more at the end                                            *)
LEMMA OneMore ==
    ASSUME NEW s, IsSequence(s), NEW x
    PROVE  LET r == Append(s, x)
           IN  /\ DOMAIN r = DOMAIN s \cup {Len(s) + 1} /\ Len(s) + 1 \notin DOMAIN s
               /\ \A i \in DOMAIN s : r[i] = s[i]
               /\ r[Len(s) + 1] = x
<1> DEFINE S == Range(s) \cup {x}
           r == Append(s, x)
<1>1. s \in Seq(S) /\ x \in S
  <2>1. s \in Seq(Range(s)) /\ Range(s) \subseteq S  BY DEF IsSequence
  <2> HIDE DEF S
  <2>2. s \in Seq(S)  BY <2>1, SeqMonotonic
  <2> QED BY <2>2 DEF S
<1> HIDE DEF S
<1>2. DOMAIN s = 1 .. Len(s) /\ Len(s) \in Nat  BY <1>1
<1>3. r \in Seq(S) /\ Len(r) = Len(s) + 1 /\ DOMAIN r = 1 .. Len(s) + 1
  BY <1>1
<1>4. (\A i \in 1 .. Len(s) : r[i] = s[i]) /\ r[Len(s) + 1] = x
  BY <1>1, AppendProperties
<1> HIDE DEF r
<1> QED BY <1>2, <1>3, <1>4 DEF r

(* A queue whose messages for the subscriptions are the same: heart-beats  *)
(* come and go, and so do frames that are not about subscriptions.         *)
LEMMA MessagesStay ==
    ASSUME Notified, wire.state = "open", wire'.state = "open",
           UNCHANGED <<config, published, Subscriptions, Books, ToldSoFar,
                       stomp.connected>>,
           wire'.toServer = wire.toServer,
           \A i \in DOMAIN wire'.toClient :
               IsMessage(wire'.toClient[i]) =>
                   \E j \in DOMAIN wire.toClient : wire'.toClient[i] = wire.toClient[j],
           \A id \in DOMAIN stomp.subscriptions :
               Taken(id) => /\ BodiesIn(wire'.toClient, id) = BodiesIn(wire.toClient, id)
                            /\ InOrder(wire'.toClient, id)
    PROVE  Notified'
<1>1. Names' /\ Tables' /\ ToldInOrder' /\ Shown' /\ Given' = Given /\ IsPage' = IsPage
  BY NamesStay DEF Notified, NoLessConnected
<1>2. /\ Followed /\ wire'.toServer = wire.toServer
      /\ stomp'.subscriptions = stomp.subscriptions /\ published' = published
      /\ wire'.subs = wire.subs /\ wire'.since = wire.since
      /\ heard'.bodies = heard.bodies
      /\ areas'.stompNotification = areas.stompNotification
  BY DEF Notified, Subscriptions, Books, ToldSoFar
<1>3. Asked'
  <2>1. ASSUME NEW id, \A j \in DOMAIN wire.toClient : ~ MessageFor(wire.toClient[j], id),
               NEW j \in DOMAIN wire'.toClient
        PROVE  ~ MessageFor(wire'.toClient[j], id)
    <3> SUFFICES ASSUME MessageFor(wire'.toClient[j], id) PROVE FALSE
      OBVIOUS
    <3>1. IsMessage(wire'.toClient[j])  BY DEF MessageFor
    <3>2. \E k \in DOMAIN wire.toClient : wire'.toClient[j] = wire.toClient[k]
      BY <3>1
    <3> QED BY <2>1, <3>2
  <2> QED BY <1>1, <1>2, <2>1 DEF Followed, Asked
<1>4. Addressed'  BY <1>1, <1>2 DEF Followed, Addressed
<1>5. ASSUME NEW id \in DOMAIN stomp.subscriptions PROVE Pending(id)' \/ Taken(id)'
  <2>1. Pending(id) \/ Taken(id)  BY <1>2 DEF Followed
  <2>2. CASE Pending(id)  BY <1>2, <2>2 DEF Pending
  <2>3. CASE Taken(id)
    <3>1. /\ BodiesIn(wire'.toClient, id) = BodiesIn(wire.toClient, id)
          /\ InOrder(wire'.toClient, id)
      BY <2>3
    <3> QED BY <1>1, <1>2, <2>3, <3>1 DEF Taken, UpTo
  <2> QED BY <2>1, <2>2, <2>3
<1> QED BY <1>1, <1>2, <1>3, <1>4, <1>5 DEF Notified, Followed

(* the broker ends a subscription that the client has forgotten,           *)
LEMMA SubscriptionEnded ==
    ASSUME Notified, wire.state = "open", wire'.state = "open",
           UNCHANGED <<config, published, Subscriptions, ToldSoFar, stomp.connected>>,
           IsSequence(wire.toServer), wire.toServer # <<>>,
           NEW f, f = wire.toServer[1], f.command = "UNSUBSCRIBE",
           wire'.toServer = Tail(wire.toServer), wire'.toClient = wire.toClient,
           wire'.subs = [i \in DOMAIN wire.subs \ {IdOf(f)} |-> wire.subs[i]],
           wire'.since = wire.since
    PROVE  Notified'
<1> DEFINE id == IdOf(f)
<1>1. /\ config' = config /\ published' = published
      /\ stomp'.subscriptions = stomp.subscriptions /\ stomp'.counter = stomp.counter
      /\ heard'.subscriptions = heard.subscriptions
      /\ stomp'.connected = stomp.connected
      /\ heard'.bodies = heard.bodies
      /\ areas'.stompNotification = areas.stompNotification
  BY DEF Subscriptions, ToldSoFar
<1>2. Given' = Given /\ IsPage' = IsPage  BY <1>1 DEF Given, IsPage
<1>3. /\ Followed /\ Asked /\ Addressed /\ Names /\ Tables /\ ToldInOrder /\ Shown
  BY DEF Notified, Followed
<1>4. id \in Given \ DOMAIN stomp.subscriptions
  <2>1. 1 \in DOMAIN wire.toServer  BY HeadRead
  <2> QED BY <1>3, <2>1 DEF Asked
<1>5. /\ \A i \in DOMAIN wire'.toServer :
             i + 1 \in DOMAIN wire.toServer /\ wire'.toServer[i] = wire.toServer[i + 1]
             /\ i \in Nat /\ i >= 1
      /\ \A i \in DOMAIN wire.toServer :
             i # 1 => i - 1 \in DOMAIN wire'.toServer
                      /\ wire'.toServer[i - 1] = wire.toServer[i]
  BY Rest
<1>6. /\ DOMAIN wire'.subs = DOMAIN wire.subs \ {id}
      /\ \A i \in DOMAIN wire'.subs : wire'.subs[i] = wire.subs[i]
  OBVIOUS
<1> HIDE DEF id
<1>7. ~ IsPage  BY <1>3, <1>4 DEF Names
<1>8. Names'  BY <1>1, <1>2, <1>3, <1>6 DEF Names
<1>9. Tables'  BY <1>1, <1>3 DEF Tables
<1>10. ToldInOrder' /\ Shown'  BY <1>1, <1>2, <1>3, <1>7 DEF ToldInOrder, Shown
<1>11. Asked'
  <2> SUFFICES ASSUME NEW i \in DOMAIN wire'.toServer
               PROVE  LET g == wire'.toServer[i]
                      IN  /\ g.command = "SUBSCRIBE" =>
                                 /\ IdOf(g) \in Given \ DOMAIN wire'.subs
                                 /\ TopicOf(g) \in Topics
                                 /\ \A j \in DOMAIN wire'.toClient :
                                        ~ MessageFor(wire'.toClient[j], IdOf(g))
                                 /\ \A j \in DOMAIN wire'.toServer :
                                        /\ wire'.toServer[j].command = "SUBSCRIBE"
                                        /\ IdOf(wire'.toServer[j]) = IdOf(g)
                                        => i = j
                          /\ g.command = "UNSUBSCRIBE" =>
                                 IdOf(g) \in Given \ DOMAIN stomp'.subscriptions
    BY <1>2 DEF Asked
  <2> DEFINE g == wire'.toServer[i]
  <2>1. i + 1 \in DOMAIN wire.toServer /\ g = wire.toServer[i + 1] /\ i \in Nat
    BY <1>5
  <2>2. \A j \in DOMAIN wire'.toServer : j + 1 \in DOMAIN wire.toServer
            /\ wire'.toServer[j] = wire.toServer[j + 1] /\ j \in Nat
    BY <1>5
  <2> HIDE DEF g
  <2>3. ASSUME g.command = "SUBSCRIBE"
        PROVE  /\ IdOf(g) \in Given \ DOMAIN wire'.subs
               /\ TopicOf(g) \in Topics
               /\ \A j \in DOMAIN wire'.toClient :
                      ~ MessageFor(wire'.toClient[j], IdOf(g))
               /\ \A j \in DOMAIN wire'.toServer :
                      /\ wire'.toServer[j].command = "SUBSCRIBE"
                      /\ IdOf(wire'.toServer[j]) = IdOf(g)
                      => i = j
    <3>1. /\ IdOf(g) \in Given \ DOMAIN wire.subs /\ TopicOf(g) \in Topics
          /\ \A j \in DOMAIN wire.toClient : ~ MessageFor(wire.toClient[j], IdOf(g))
          /\ \A j \in DOMAIN wire.toServer :
                 wire.toServer[j].command = "SUBSCRIBE" /\ IdOf(wire.toServer[j]) = IdOf(g)
                     => i + 1 = j
      BY <1>3, <2>1, <2>3 DEF Asked
    <3>2. ASSUME NEW j \in DOMAIN wire'.toServer,
                 wire'.toServer[j].command = "SUBSCRIBE",
                 IdOf(wire'.toServer[j]) = IdOf(g)
          PROVE  i = j
      <4>1. i + 1 = j + 1  BY <2>2, <3>1, <3>2
      <4> QED BY <2>1, <2>2, <4>1
    <3> QED BY <1>6, <3>1, <3>2
  <2>4. ASSUME g.command = "UNSUBSCRIBE"
        PROVE  IdOf(g) \in Given \ DOMAIN stomp'.subscriptions
    BY <1>1, <1>3, <2>1, <2>4 DEF Asked
  <2> QED BY <2>3, <2>4 DEF g
<1>12. Addressed'  BY <1>2, <1>3 DEF Addressed
<1>13. ASSUME NEW sid \in DOMAIN stomp.subscriptions PROVE Pending(sid)' \/ Taken(sid)'
  <2>1. Pending(sid) \/ Taken(sid)  BY <1>3 DEF Followed
  <2>2. CASE Pending(sid)
    <3>1. PICK i \in DOMAIN wire.toServer :
              /\ wire.toServer[i].command = "SUBSCRIBE" /\ IdOf(wire.toServer[i]) = sid
              /\ TopicOf(wire.toServer[i]) = stomp.subscriptions[sid]
      BY <2>2 DEF Pending
    <3>2. i # 1  BY <3>1
    <3>3. i - 1 \in DOMAIN wire'.toServer /\ wire'.toServer[i - 1] = wire.toServer[i]
      BY <1>5, <3>2
    <3> QED BY <1>1, <3>1, <3>3 DEF Pending
  <2>3. CASE Taken(sid)
    <3>1. sid \in DOMAIN wire.subs /\ sid # id  BY <1>4, <2>3 DEF Taken
    <3>2. wire'.subs[sid] = wire.subs[sid] /\ sid \in DOMAIN wire'.subs
      BY <1>6, <3>1
    <3> QED BY <1>1, <1>2, <2>3, <3>2 DEF Taken, UpTo
  <2> QED BY <2>1, <2>2, <2>3
<1> QED BY <1>1, <1>8, <1>9, <1>10, <1>11, <1>12, <1>13 DEF Notified, Followed

(* the application subscribes under a new name                             *)
LEMMA SubscriptionAsked ==
    ASSUME Notified, ~ IsPage, wire'.state = wire.state,
           UNCHANGED <<config, published, Books, ToldSoFar, stomp.connected>>,
           stomp.connected,
           NEW f, f.command = "SUBSCRIBE", IdOf(f) \notin Given,
           TopicOf(f) \in Topics \ Range(stomp.subscriptions),
           wire.state = "open" => /\ IsSequence(wire.toServer)
                                  /\ wire'.toServer = Append(wire.toServer, f)
                                  /\ wire'.toClient = wire.toClient,
           stomp'.subscriptions = [i \in DOMAIN stomp.subscriptions \cup {IdOf(f)} |->
                                     IF i = IdOf(f) THEN TopicOf(f)
                                     ELSE stomp.subscriptions[i]],
           heard'.subscriptions = heard.subscriptions + 1,
           heard.subscriptions < config.subscriptions, config.subscriptions \in Nat,
           \/ IdOf(f) = SubId(stomp.counter) /\ stomp'.counter = stomp.counter + 1
           \/ IdOf(f) = OwnId /\ stomp'.counter = stomp.counter
    PROVE  Notified'
<1> DEFINE id == IdOf(f)
           t == TopicOf(f)
<1>1. /\ config' = config /\ published' = published
      /\ wire'.subs = wire.subs /\ wire'.since = wire.since
      /\ stomp'.connected = stomp.connected
      /\ heard'.bodies = heard.bodies
      /\ areas'.stompNotification = areas.stompNotification
      /\ IsPage' = IsPage
  BY DEF Books, ToldSoFar, IsPage
<1>2. /\ Names /\ Tables /\ ToldInOrder /\ Shown /\ (wire.state = "open" => Followed)
  BY DEF Notified
<1>3. id \in Given' /\ Given \subseteq Given'
  <2>1. /\ stomp.counter \in Nat /\ heard.subscriptions \in Nat
    BY <1>2 DEF Names
  <2>2. OwnId = OwnSubId(heard.subscriptions)  BY DEF OwnId, OwnSubId
  <2>3. heard.subscriptions \in 0 .. heard'.subscriptions - 1  BY <2>1
  <2>4. id = SubId(stomp.counter) => stomp.counter \in 0 .. stomp'.counter - 1
                                     \/ id = OwnId
    BY <2>1
  <2>5. id \in Given'  BY <2>1, <2>2, <2>3, <2>4 DEF Given
  <2>6. 0 .. stomp.counter - 1 \subseteq 0 .. stomp'.counter - 1
        /\ 0 .. heard.subscriptions - 1 \subseteq 0 .. heard'.subscriptions - 1
    BY <2>1
  <2>7. Given \subseteq Given'
    <3> SUFFICES ASSUME NEW x \in Given PROVE x \in Given'
      OBVIOUS
    <3>1. CASE \E k \in 0 .. stomp.counter - 1 : x = SubId(k)
      BY <2>6, <3>1 DEF Given
    <3>2. CASE \E k \in 0 .. heard.subscriptions - 1 : x = OwnSubId(k)
      BY <2>6, <3>2 DEF Given
    <3> QED BY <3>1, <3>2 DEF Given
  <2> QED BY <2>5, <2>7
<1>4. /\ DOMAIN stomp'.subscriptions = DOMAIN stomp.subscriptions \cup {id}
      /\ stomp'.subscriptions[id] = t
      /\ \A i \in DOMAIN stomp.subscriptions :
             i # id => stomp'.subscriptions[i] = stomp.subscriptions[i]
  OBVIOUS
<1>5. id \notin Given /\ t \in Topics
      /\ \A i \in DOMAIN stomp.subscriptions : stomp.subscriptions[i] # t
  BY DEF Range
<1>6. id \notin DOMAIN stomp.subscriptions /\ id \notin DOMAIN wire.since
  BY <1>2, <1>5 DEF Names
<1> HIDE DEF id, t
<1>7. Names'
  <2>1. DOMAIN stomp'.subscriptions \subseteq Given'  BY <1>2, <1>3, <1>4 DEF Names
  <2>2. DOMAIN wire'.since \subseteq Given'  BY <1>1, <1>2, <1>3 DEF Names
  <2> QED BY <1>1, <1>2, <2>1, <2>2 DEF Names
<1>8. Tables'
  <2>1. \A a \in DOMAIN stomp.subscriptions :
            a # id /\ stomp'.subscriptions[a] = stomp.subscriptions[a]
    BY <1>4, <1>6
  <2>2. \A a, b \in DOMAIN stomp'.subscriptions :
            stomp'.subscriptions[a] = stomp'.subscriptions[b] => a = b
    BY <1>2, <1>4, <1>5, <2>1 DEF Tables
  <2>3. \A a \in DOMAIN stomp'.subscriptions : stomp'.subscriptions[a] \in Topics
    BY <1>2, <1>4, <1>5, <2>1 DEF Tables
  <2> QED BY <1>1, <1>2, <2>2, <2>3 DEF Tables
<1>9. ToldInOrder' /\ Shown'  BY <1>1, <1>2 DEF ToldInOrder, Shown
<1>10. ASSUME wire'.state = "open" PROVE Followed'
  <2> DEFINE s == wire.toServer
             r == wire'.toServer
             n == Len(s) + 1
  <2>1. Followed /\ Asked /\ Addressed /\ wire'.toClient = wire.toClient
    BY <1>2, <1>10 DEF Followed
  <2>2. /\ DOMAIN r = DOMAIN s \cup {n} /\ n \notin DOMAIN s
        /\ \A i \in DOMAIN s : r[i] = s[i]
        /\ r[n] = f
    BY <1>10, OneMore
  <2> HIDE DEF n
  <2>3. Addressed'  BY <1>3, <2>1 DEF Addressed
  <2>4. \A j \in DOMAIN wire.toClient : ~ MessageFor(wire.toClient[j], id)
    BY <1>5, <2>1 DEF Addressed, MessageFor
  <2>5. \A i \in DOMAIN s : s[i].command = "SUBSCRIBE" => IdOf(s[i]) # id
    BY <1>5, <2>1 DEF Asked
  <2>6. Asked'
    <3> SUFFICES ASSUME NEW i \in DOMAIN r
                 PROVE  /\ r[i].command = "SUBSCRIBE" =>
                               /\ IdOf(r[i]) \in Given' \ DOMAIN wire'.subs
                               /\ TopicOf(r[i]) \in Topics
                               /\ \A j \in DOMAIN wire'.toClient :
                                      ~ MessageFor(wire'.toClient[j], IdOf(r[i]))
                               /\ \A j \in DOMAIN r :
                                      /\ r[j].command = "SUBSCRIBE"
                                      /\ IdOf(r[j]) = IdOf(r[i])
                                      => i = j
                        /\ r[i].command = "UNSUBSCRIBE" =>
                               IdOf(r[i]) \in Given' \ DOMAIN stomp'.subscriptions
      BY DEF Asked
    <3>1. CASE i = n
      <4>1. r[i] = f /\ IdOf(f) = id /\ TopicOf(f) = t  BY <2>2, <3>1 DEF id, t
      <4>2. id \notin DOMAIN wire'.subs  BY <1>1, <1>2, <1>6 DEF Names
      <4> HIDE DEF r, s
      <4>3. \A j \in DOMAIN r : r[j].command = "SUBSCRIBE" /\ IdOf(r[j]) = id => j = n
        BY <2>2, <2>5
      <4> QED BY <1>3, <1>5, <2>1, <2>4, <3>1, <4>1, <4>2, <4>3
    <3>2. CASE i \in DOMAIN s
      <4>1. r[i] = s[i]  BY <2>2, <3>2
      <4>2. /\ s[i].command = "SUBSCRIBE" =>
                   /\ IdOf(s[i]) \in Given \ DOMAIN wire.subs
                   /\ TopicOf(s[i]) \in Topics
                   /\ \A j \in DOMAIN wire.toClient :
                          ~ MessageFor(wire.toClient[j], IdOf(s[i]))
                   /\ \A j \in DOMAIN s :
                          s[j].command = "SUBSCRIBE" /\ IdOf(s[j]) = IdOf(s[i]) => i = j
            /\ s[i].command = "UNSUBSCRIBE" =>
                   IdOf(s[i]) \in Given \ DOMAIN stomp.subscriptions
        BY <2>1, <3>2 DEF Asked
      <4>3. IdOf(f) = id  BY DEF id
      <4> HIDE DEF r, s
      <4>4. ASSUME r[i].command = "SUBSCRIBE"
            PROVE  /\ IdOf(r[i]) \in Given' \ DOMAIN wire'.subs
                   /\ TopicOf(r[i]) \in Topics
                   /\ \A j \in DOMAIN wire'.toClient :
                          ~ MessageFor(wire'.toClient[j], IdOf(r[i]))
                   /\ \A j \in DOMAIN r :
                          /\ r[j].command = "SUBSCRIBE"
                          /\ IdOf(r[j]) = IdOf(r[i])
                          => i = j
        <5>1. ASSUME NEW j \in DOMAIN r, r[j].command = "SUBSCRIBE", IdOf(r[j]) = IdOf(r[i])
              PROVE  i = j
          <6>1. IdOf(s[i]) # id  BY <2>5, <3>2, <4>1, <4>4
          <6>2. j # n  BY <2>2, <4>1, <4>3, <5>1, <6>1
          <6>3. j \in DOMAIN s /\ r[j] = s[j]  BY <2>2, <6>2
          <6> QED BY <4>1, <4>2, <4>4, <5>1, <6>3
        <5> QED BY <1>1, <1>3, <2>1, <4>1, <4>2, <4>4, <5>1
      <4>5. ASSUME r[i].command = "UNSUBSCRIBE"
            PROVE  IdOf(r[i]) \in Given' \ DOMAIN stomp'.subscriptions
        BY <1>3, <1>4, <1>5, <4>1, <4>2, <4>5
      <4> QED BY <4>4, <4>5
    <3> QED BY <2>2, <3>1, <3>2
  <2>7. Pending(id)'
    <3>1. n \in DOMAIN r /\ r[n].command = "SUBSCRIBE" /\ IdOf(r[n]) = id
          /\ TopicOf(r[n]) = stomp'.subscriptions[id]
      BY <1>4, <2>2 DEF id, t
    <3> QED BY <3>1 DEF Pending
  <2>8. ASSUME NEW sid \in DOMAIN stomp.subscriptions PROVE Pending(sid)' \/ Taken(sid)'
    <3>1. stomp'.subscriptions[sid] = stomp.subscriptions[sid]  BY <1>4, <1>6
    <3>2. Pending(sid) \/ Taken(sid)  BY <2>1 DEF Followed
    <3>3. CASE Pending(sid)
      <4>1. PICK i \in DOMAIN s :
                /\ s[i].command = "SUBSCRIBE" /\ IdOf(s[i]) = sid
                /\ TopicOf(s[i]) = stomp.subscriptions[sid]
        BY <3>3 DEF Pending
      <4>2. i \in DOMAIN r /\ r[i] = s[i]  BY <2>2
      <4> QED BY <3>1, <4>1, <4>2 DEF Pending
    <3>4. CASE Taken(sid)
      BY <1>1, <2>1, <3>1, <3>4 DEF Taken, UpTo
    <3> QED BY <3>2, <3>3, <3>4
  <2> QED BY <1>4, <2>3, <2>6, <2>7, <2>8 DEF Followed
<1> QED BY <1>7, <1>8, <1>9, <1>10 DEF Notified

(* or gives one up: what its name still stands for is no longer followed.  *)
LEMMA SubscriptionDropped ==
    ASSUME Notified, ~ IsPage, wire'.state = wire.state,
           UNCHANGED <<config, published, Books, ToldSoFar, stomp.connected,
                       stomp.counter, heard.subscriptions>>,
           stomp.connected, NEW id \in DOMAIN stomp.subscriptions,
           NEW f, f.command = "UNSUBSCRIBE", IdOf(f) = id,
           wire.state = "open" => /\ IsSequence(wire.toServer)
                                  /\ wire'.toServer = Append(wire.toServer, f)
                                  /\ wire'.toClient = wire.toClient,
           stomp'.subscriptions = [i \in DOMAIN stomp.subscriptions \ {id} |->
                                     stomp.subscriptions[i]]
    PROVE  Notified'
<1>1. /\ config' = config /\ published' = published
      /\ wire'.subs = wire.subs /\ wire'.since = wire.since
      /\ stomp'.connected = stomp.connected /\ stomp'.counter = stomp.counter
      /\ heard'.subscriptions = heard.subscriptions
      /\ heard'.bodies = heard.bodies
      /\ areas'.stompNotification = areas.stompNotification
      /\ IsPage' = IsPage /\ Given' = Given
  BY DEF Books, ToldSoFar, IsPage, Given
<1>2. /\ Names /\ Tables /\ ToldInOrder /\ Shown /\ (wire.state = "open" => Followed)
  BY DEF Notified
<1>3. /\ DOMAIN stomp'.subscriptions = DOMAIN stomp.subscriptions \ {id}
      /\ \A i \in DOMAIN stomp'.subscriptions :
             stomp'.subscriptions[i] = stomp.subscriptions[i]
  OBVIOUS
<1>4. Names'  BY <1>1, <1>2, <1>3 DEF Names
<1>5. Tables'
  BY <1>1, <1>2, <1>3 DEF Tables
<1>6. ToldInOrder' /\ Shown'  BY <1>1, <1>2 DEF ToldInOrder, Shown
<1>7. ASSUME wire'.state = "open" PROVE Followed'
  <2> DEFINE s == wire.toServer
             r == wire'.toServer
             n == Len(s) + 1
  <2>1. Followed /\ Asked /\ Addressed /\ wire'.toClient = wire.toClient
    BY <1>2, <1>7 DEF Followed
  <2>2. /\ DOMAIN r = DOMAIN s \cup {n} /\ n \notin DOMAIN s
        /\ \A i \in DOMAIN s : r[i] = s[i]
        /\ r[n] = f
    BY <1>7, OneMore
  <2> HIDE DEF n
  <2>3. Addressed'  BY <1>1, <2>1 DEF Addressed
  <2>4. Asked'
    <3> SUFFICES ASSUME NEW i \in DOMAIN r
                 PROVE  /\ r[i].command = "SUBSCRIBE" =>
                               /\ IdOf(r[i]) \in Given' \ DOMAIN wire'.subs
                               /\ TopicOf(r[i]) \in Topics
                               /\ \A j \in DOMAIN wire'.toClient :
                                      ~ MessageFor(wire'.toClient[j], IdOf(r[i]))
                               /\ \A j \in DOMAIN r :
                                      /\ r[j].command = "SUBSCRIBE"
                                      /\ IdOf(r[j]) = IdOf(r[i])
                                      => i = j
                        /\ r[i].command = "UNSUBSCRIBE" =>
                               IdOf(r[i]) \in Given' \ DOMAIN stomp'.subscriptions
      BY DEF Asked
    <3>1. CASE i = n
      <4>1. id \in Given' \ DOMAIN stomp'.subscriptions
        BY <1>1, <1>2, <1>3 DEF Names
      <4> QED BY <2>2, <3>1, <4>1
    <3>2. CASE i \in DOMAIN s
      <4>1. r[i] = s[i]  BY <2>2, <3>2
      <4>2. /\ s[i].command = "SUBSCRIBE" =>
                   /\ IdOf(s[i]) \in Given \ DOMAIN wire.subs
                   /\ TopicOf(s[i]) \in Topics
                   /\ \A j \in DOMAIN wire.toClient :
                          ~ MessageFor(wire.toClient[j], IdOf(s[i]))
                   /\ \A j \in DOMAIN s :
                          s[j].command = "SUBSCRIBE" /\ IdOf(s[j]) = IdOf(s[i]) => i = j
            /\ s[i].command = "UNSUBSCRIBE" =>
                   IdOf(s[i]) \in Given \ DOMAIN stomp.subscriptions
        BY <2>1, <3>2 DEF Asked
      <4> HIDE DEF r, s
      <4>3. \A j \in DOMAIN r : r[j].command = "SUBSCRIBE" => j \in DOMAIN s /\ r[j] = s[j]
        BY <2>2
      <4> QED BY <1>1, <1>3, <2>1, <4>1, <4>2, <4>3
    <3> QED BY <2>2, <3>1, <3>2
  <2>5. ASSUME NEW sid \in DOMAIN stomp'.subscriptions PROVE Pending(sid)' \/ Taken(sid)'
    <3>1. /\ stomp'.subscriptions[sid] = stomp.subscriptions[sid]
          /\ sid \in DOMAIN stomp.subscriptions
      BY <1>3
    <3>2. Pending(sid) \/ Taken(sid)  BY <2>1, <3>1 DEF Followed
    <3>3. CASE Pending(sid)
      <4>1. PICK i \in DOMAIN s :
                /\ s[i].command = "SUBSCRIBE" /\ IdOf(s[i]) = sid
                /\ TopicOf(s[i]) = stomp.subscriptions[sid]
        BY <3>3 DEF Pending
      <4>2. i \in DOMAIN r /\ r[i] = s[i]  BY <2>2
      <4> QED BY <3>1, <4>1, <4>2 DEF Pending
    <3>4. CASE Taken(sid)
      BY <1>1, <2>1, <3>1, <3>4 DEF Taken, UpTo
    <3> QED BY <3>2, <3>3, <3>4
  <2> QED BY <2>3, <2>4, <2>5 DEF Followed
<1> QED BY <1>4, <1>5, <1>6, <1>7 DEF Notified

(* The page subscribes as soon as it is connected.                         *)
LEMMA PageSubscribes ==
    ASSUME Notified, IsPage, wire.state = "open", wire'.state = "open",
           UNCHANGED <<config, published, Books, ToldSoFar, heard.subscriptions>>,
           ~ stomp.connected, stomp'.connected, DOMAIN wire.subs = {},
           NEW f, f.command = "SUBSCRIBE", IdOf(f) = SubId(0), TopicOf(f) = PageTopic,
           wire'.toServer = <<f>>, wire'.toClient = <<>>, stomp'.counter = 1,
           DOMAIN stomp'.subscriptions = {SubId(0)},
           stomp'.subscriptions[SubId(0)] = PageTopic
    PROVE  Notified'
<1>1. /\ config' = config /\ published' = published
      /\ wire'.subs = wire.subs /\ wire'.since = wire.since
      /\ heard'.subscriptions = heard.subscriptions
      /\ heard'.bodies = heard.bodies
      /\ areas'.stompNotification = areas.stompNotification
      /\ IsPage' = IsPage
  BY DEF Books, ToldSoFar, IsPage
<1>2. /\ Names /\ Tables /\ ToldInOrder /\ Shown  BY DEF Notified
<1>3. Given' = {SubId(0)}
  <2>1. heard'.subscriptions = 0  BY <1>1, <1>2 DEF Names
  <2>2. 0 .. heard'.subscriptions - 1 = {} /\ 0 .. stomp'.counter - 1 = {0}  BY <2>1
  <2> QED BY <2>2 DEF Given
<1>4. DOMAIN wire.since = {}  BY <1>2 DEF Shown
<1>5. Names'  BY <1>1, <1>2, <1>3, <1>4 DEF Names
<1>6. Tables'  BY <1>1, <1>2, PageAssumption DEF Tables
<1>7. ToldInOrder' /\ Shown'  BY <1>1, <1>2 DEF ToldInOrder, Shown
<1>8. DOMAIN wire'.toServer = {1} /\ wire'.toServer[1] = f /\ DOMAIN wire'.toClient = {}
  OBVIOUS
<1>9. Asked'  BY <1>1, <1>3, <1>8, PageAssumption DEF Asked
<1>10. Addressed'  BY <1>8 DEF Addressed
<1>11. Pending(SubId(0))'  BY <1>8 DEF Pending
<1> QED BY <1>5, <1>6, <1>7, <1>9, <1>10, <1>11 DEF Notified, Followed

(* A notification goes out, once to everyone who has subscribed.           *)
LEMMA NotificationSent ==
    ASSUME Notified, NEW topic \in Topics,
           published' = [published EXCEPT ![topic] = published[topic] + 1],
           UNCHANGED <<config, Subscriptions, Books, ToldSoFar, stomp.connected>>,
           wire'.state = wire.state, NEW datas,
           wire.state = "open" =>
               /\ wire'.toServer = wire.toServer
               /\ wire'.toClient = wire.toClient \o datas
               /\ IsSequence(wire.toClient),
           IsSequence(datas),
           \A i \in DOMAIN datas :
               /\ IsMessage(datas[i]) /\ datas[i][1].body = published[topic] + 1
               /\ datas[i][1].subscription \in DOMAIN wire.subs
               /\ wire.subs[datas[i][1].subscription] = topic,
           \A i, j \in DOMAIN datas :
               datas[i][1].subscription = datas[j][1].subscription => i = j,
           \A id \in DOMAIN wire.subs :
               wire.subs[id] = topic => \E i \in DOMAIN datas : MessageFor(datas[i], id)
    PROVE  Notified'
<1> DEFINE n == published[topic] + 1
<1>1. /\ config' = config
      /\ stomp'.subscriptions = stomp.subscriptions /\ stomp'.counter = stomp.counter
      /\ heard'.subscriptions = heard.subscriptions
      /\ stomp'.connected = stomp.connected
      /\ wire'.subs = wire.subs /\ wire'.since = wire.since
      /\ heard'.bodies = heard.bodies
      /\ areas'.stompNotification = areas.stompNotification
      /\ IsPage' = IsPage /\ Given' = Given
  BY DEF Subscriptions, Books, ToldSoFar, IsPage, Given
<1>2. /\ Names /\ Tables /\ ToldInOrder /\ Shown /\ (wire.state = "open" => Followed)
  BY DEF Notified
<1>3. /\ published \in [Topics -> Nat] /\ published' \in [Topics -> Nat]
      /\ published'[topic] = n
      /\ \A t \in Topics : t # topic => published'[t] = published[t]
      /\ \A t \in Topics : published[t] <= published'[t]
  BY <1>2 DEF Tables
<1>4. Names'  BY <1>1, <1>2 DEF Names
<1>5. Tables'  BY <1>1, <1>2, <1>3 DEF Tables
<1>6. ToldInOrder'
  <2>1. heard.bodies \in [Topics -> Seq(Nat)]  BY <1>2 DEF ToldInOrder
  <2>2. ASSUME NEW t \in Topics, NEW i \in DOMAIN heard.bodies[t]
        PROVE  heard.bodies[t][i] <= published'[t]
    <3>1. heard.bodies[t] \in Seq(Nat)  BY <2>1
    <3>2. heard.bodies[t][i] \in Nat  BY <2>2, <3>1
    <3>3. heard.bodies[t][i] <= published[t]  BY <1>2, <2>2 DEF ToldInOrder
    <3>4. published[t] \in Nat /\ published'[t] \in Nat /\ published[t] <= published'[t]
      BY <1>3
    <3> QED BY <3>2, <3>3, <3>4
  <2> QED BY <1>1, <1>2, <2>2 DEF ToldInOrder
<1>7. Shown'  BY <1>1, <1>2 DEF Shown
<1>8. ASSUME wire'.state = "open" PROVE Followed'
  <2> DEFINE s == wire.toClient
             r == wire'.toClient
  <2>1. /\ Followed /\ Asked /\ Addressed /\ IsSequence(s) /\ IsSequence(datas)
        /\ wire'.toServer = wire.toServer /\ r = s \o datas
    BY <1>2, <1>8 DEF Followed
  <2> HIDE DEF r, s
  <2>2. \A i \in DOMAIN r : \/ \E j \in DOMAIN s : r[i] = s[j]
                            \/ \E j \in DOMAIN datas : r[i] = datas[j]
    <3> DEFINE u == s \o datas
    <3>1. /\ IsSequence(u)
          /\ \A i \in DOMAIN u : \/ \E j \in DOMAIN s : u[i] = s[j]
                                \/ \E j \in DOMAIN datas : u[i] = datas[j]
          /\ u = <<>> => s = <<>> /\ datas = <<>>
      BY <2>1, SequenceGrows
    <3>2. r = u  BY <2>1
    <3> HIDE DEF u
    <3> QED BY <3>1, <3>2
  <2>3. ASSUME NEW i \in DOMAIN r, IsMessage(r[i])
        PROVE  \/ \E j \in DOMAIN s : r[i] = s[j]
               \/ r[i][1].subscription \in DOMAIN wire.subs
    BY <2>2
  <2>4. Addressed'
    BY <1>1, <1>2, <2>1, <2>3 DEF Addressed, Names, r, s
  <2>5. Asked'
    <3>1. ASSUME NEW id, id \notin DOMAIN wire.subs,
                 \A j \in DOMAIN s : ~ MessageFor(s[j], id), NEW j \in DOMAIN r
          PROVE  ~ MessageFor(r[j], id)
      <4> SUFFICES ASSUME MessageFor(r[j], id) PROVE FALSE
        OBVIOUS
      <4>1. IsMessage(r[j]) /\ r[j][1].subscription = id  BY DEF MessageFor
      <4> QED BY <2>3, <3>1, <4>1
    <3> QED BY <1>1, <2>1, <3>1 DEF Asked, r, s
  <2>6. ASSUME NEW id \in DOMAIN stomp.subscriptions PROVE Pending(id)' \/ Taken(id)'
    <3>1. Pending(id) \/ Taken(id)  BY <2>1 DEF Followed
    <3>2. CASE Pending(id)  BY <1>1, <2>1, <3>2 DEF Pending
    <3>3. CASE Taken(id)
      <4> DEFINE t == stomp.subscriptions[id]
      <4>1. /\ id \in DOMAIN wire.subs /\ wire.subs[id] = t /\ InOrder(s, id)
            /\ t \in Topics /\ published[t] \in Nat
        BY <1>2, <1>3, <3>3 DEF Taken, Tables, s
      <4>2. PICK last \in Nat : UpTo(id, last)  BY <3>3 DEF Taken
      <4>3. /\ last \in wire.since[id] .. published[t]
            /\ BodiesIn(s, id) = last + 1 .. published[t]
            /\ wire.since[id] \in Nat
        <5>1. wire.since[id] \in Nat  BY <1>2, <4>1 DEF Names, Tables
        <5> QED BY <4>2, <5>1 DEF UpTo, s
      <4> HIDE DEF t
      <4>4. BodiesIn(datas, id) = IF t = topic THEN {n} ELSE {}
        <5>1. CASE t = topic
          <6>1. PICK i \in DOMAIN datas : MessageFor(datas[i], id)  BY <4>1, <5>1
          <6>2. \A j \in DOMAIN datas : datas[j][1].body = n  OBVIOUS
          <6> HIDE DEF n
          <6> QED BY <5>1, <6>1, <6>2 DEF BodiesIn
        <5>2. CASE t # topic
          <6>1. \A j \in DOMAIN datas : ~ MessageFor(datas[j], id)
            BY <4>1, <5>2 DEF MessageFor
          <6> QED BY <5>2, <6>1 DEF BodiesIn
        <5> QED BY <5>1, <5>2
      <4>5. \A i, j \in DOMAIN datas :
                MessageFor(datas[i], id) /\ MessageFor(datas[j], id) => i = j
        BY DEF MessageFor
      <4>6. \A i \in DOMAIN datas : MessageFor(datas[i], id) =>
                \A m \in BodiesIn(s, id) : m < datas[i][1].body
        <5> SUFFICES ASSUME NEW i \in DOMAIN datas, MessageFor(datas[i], id),
                            NEW m \in BodiesIn(s, id)
                     PROVE  m < datas[i][1].body
          OBVIOUS
        <5>1. t = topic  BY <4>1 DEF MessageFor
        <5> QED BY <4>1, <4>3, <5>1
      <4>7. /\ InOrder(r, id)
            /\ BodiesIn(r, id) = BodiesIn(s, id) \cup BodiesIn(datas, id)
        BY <2>1, <4>1, <4>5, <4>6, LastSent DEF r, s
      <4>8. BodiesIn(r, id) = last + 1 .. published'[t]
            /\ last \in wire.since[id] .. published'[t]
        <5>1. CASE t = topic
          <6>1. BodiesIn(r, id) = last + 1 .. published[t] \cup {n} /\ published'[t] = n
                /\ n = published[t] + 1
            BY <1>3, <4>3, <4>4, <4>7, <5>1
          <6> HIDE DEF n
          <6> QED BY <4>1, <4>3, <6>1
        <5>2. CASE t # topic
          <6>1. BodiesIn(r, id) = BodiesIn(s, id) /\ published'[t] = published[t]
            BY <1>3, <4>1, <4>4, <4>7, <5>2
          <6> QED BY <4>3, <6>1
        <5> QED BY <5>1, <5>2
      <4>9. UpTo(id, last)'
        BY <1>1, <4>2, <4>8 DEF UpTo, t, r
      <4> QED BY <1>1, <4>1, <4>7, <4>9 DEF Taken, r, t
    <3> QED BY <3>1, <3>2, <3>3
  <2> QED BY <1>1, <2>4, <2>5, <2>6 DEF Followed
<1> QED BY <1>4, <1>5, <1>6, <1>7, <1>8 DEF Notified

(* Nothing added to a sequence                                             *)
LEMMA NothingAdded == ASSUME NEW S, NEW s \in Seq(S) PROVE s \o <<>> = s
OBVIOUS

(* A queue is read.                                                        *)
LEMMA QueueRead ==
    ASSUME Notified, wire.state = "open", wire'.state = "open",
           UNCHANGED <<config, published, Subscriptions, Books, ToldSoFar,
                       stomp.connected>>,
           wire'.toServer = wire.toServer,
           IsSequence(wire.toClient), wire.toClient # <<>>,
           wire'.toClient = Tail(wire.toClient),
           \A id \in DOMAIN stomp.subscriptions : ~ MessageFor(wire.toClient[1], id)
    PROVE  Notified'
<1>1. \A i \in DOMAIN wire'.toClient :
          i + 1 \in DOMAIN wire.toClient /\ wire'.toClient[i] = wire.toClient[i + 1]
  BY Rest
<1>2. ASSUME NEW id \in DOMAIN stomp.subscriptions, Taken(id)
      PROVE  /\ BodiesIn(wire'.toClient, id) = BodiesIn(wire.toClient, id)
             /\ InOrder(wire'.toClient, id)
  <2>1. InOrder(wire.toClient, id)  BY <1>2 DEF Taken
  <2> QED BY <2>1, FirstRead
<1> QED BY <1>1, <1>2, MessagesStay

(* The callback of a subscription is told of the next notification.        *)
LEMMA NotificationTold ==
    ASSUME Notified, wire.state = "open", wire'.state = "open",
           UNCHANGED <<config, published, Subscriptions, Books, stomp.connected>>,
           wire'.toServer = wire.toServer,
           IsSequence(wire.toClient), wire.toClient # <<>>,
           wire'.toClient = Tail(wire.toClient),
           NEW id \in DOMAIN stomp.subscriptions, MessageFor(wire.toClient[1], id),
           heard'.bodies = [t \in Topics |->
               heard.bodies[t] \o (IF t = stomp.subscriptions[id]
                                   THEN <<wire.toClient[1][1].body>> ELSE <<>>)],
           areas'.stompNotification =
               IF IsPage /\ stomp.subscriptions[id] = PageTopic
               THEN appendTextArea(areas.stompNotification, wire.toClient[1][1].body)
               ELSE areas.stompNotification,
           IsPage => stomp.subscriptions[id] = PageTopic
    PROVE  Notified'
<1> DEFINE t == stomp.subscriptions[id]
           s == wire.toClient
           b == s[1][1].body
           old == heard.bodies[t]
<1>1. /\ config' = config /\ published' = published
      /\ stomp'.subscriptions = stomp.subscriptions /\ stomp'.counter = stomp.counter
      /\ heard'.subscriptions = heard.subscriptions
      /\ stomp'.connected = stomp.connected
      /\ wire'.subs = wire.subs /\ wire'.since = wire.since
      /\ IsPage' = IsPage /\ Given' = Given
  BY DEF Subscriptions, Books, IsPage, Given
<1>2. /\ Names /\ Tables /\ ToldInOrder /\ Shown /\ Followed /\ Asked /\ Addressed
  BY DEF Notified, Followed
<1>3. /\ \A i \in DOMAIN wire'.toClient : /\ i + 1 \in DOMAIN s
                                          /\ wire'.toClient[i] = s[i + 1]
      /\ 1 \in DOMAIN s
  BY Rest
<1>4. Taken(id)
  <2> SUFFICES ASSUME Pending(id) PROVE FALSE
    BY <1>2 DEF Followed
  <2>1. PICK i \in DOMAIN wire.toServer :
            wire.toServer[i].command = "SUBSCRIBE" /\ IdOf(wire.toServer[i]) = id
    BY DEF Pending
  <2> QED BY <1>2, <1>3, <2>1 DEF Asked
<1>5. /\ t \in Topics /\ published[t] \in Nat /\ id \in DOMAIN wire.since
      /\ wire.since[id] \in Nat
  BY <1>2, <1>4 DEF Tables, Taken, Names
<1>6. PICK last \in Nat : UpTo(id, last)  BY <1>4 DEF Taken
<1>7. /\ last \in wire.since[id] .. published[t]
      /\ BodiesIn(s, id) = last + 1 .. published[t]
      /\ wire.since[id] + 1 .. last \subseteq Range(old)
      /\ \A i \in DOMAIN old : old[i] <= last
      /\ IsPage => last = wire.since[id] + Len(areas.stompNotification)
  BY <1>6 DEF UpTo
<1>8. /\ InOrder(Tail(s), id)
      /\ BodiesIn(s, id) = {b} \cup BodiesIn(Tail(s), id)
      /\ \A n \in BodiesIn(Tail(s), id) : b < n
  BY <1>4, FirstRead DEF Taken
<1> HIDE DEF t, s, b, old
<1>9. b = last + 1 /\ b <= published[t] /\ BodiesIn(Tail(s), id) = b + 1 .. published[t]
  <2>1. b \in last + 1 .. published[t]  BY <1>7, <1>8
  <2>2. b \in Nat /\ last + 1 \in last + 1 .. published[t]
    BY <1>5, <2>1
  <2>3. last + 1 \in {b} \cup BodiesIn(Tail(s), id)  BY <1>7, <1>8, <2>2
  <2>4. b = last + 1  BY <1>8, <2>1, <2>2, <2>3
  <2>5. ASSUME NEW n \in BodiesIn(Tail(s), id) PROVE n \in b + 1 .. published[t]
    <3>1. n \in last + 1 .. published[t] /\ b < n  BY <1>7, <1>8, <2>5
    <3> QED BY <1>5, <2>2, <2>4, <3>1
  <2>6. ASSUME NEW n \in b + 1 .. published[t] PROVE n \in BodiesIn(Tail(s), id)
    <3>1. n \in last + 1 .. published[t] /\ n # b  BY <1>5, <2>2, <2>4, <2>6
    <3> QED BY <1>7, <1>8, <3>1
  <2>7. b <= published[t]  BY <1>5, <2>1
  <2>8. BodiesIn(Tail(s), id) = b + 1 .. published[t]  BY <2>5, <2>6
  <2> QED BY <2>4, <2>7, <2>8
<1>10. b \in Nat  BY <1>9
<1>11. /\ heard.bodies \in [Topics -> Seq(Nat)] /\ old \in Seq(Nat)
  BY <1>2, <1>5 DEF ToldInOrder, old
<1>12. /\ heard'.bodies \in [Topics -> Seq(Nat)]
       /\ heard'.bodies[t] = old \o <<b>>
       /\ \A u \in Topics : u # t => heard'.bodies[u] = heard.bodies[u]
  <2>1. ASSUME NEW u \in Topics, u # t PROVE heard'.bodies[u] = heard.bodies[u]
    <3>1. heard'.bodies[u] = heard.bodies[u] \o <<>>  BY <2>1 DEF t
    <3>2. heard.bodies[u] \in Seq(Nat)  BY <1>11
    <3> QED BY <3>1, <3>2, NothingAdded
  <2>2. heard'.bodies[t] = old \o <<b>>  BY <1>5 DEF t, b, s, old
  <2>3. old \o <<b>> \in Seq(Nat)  BY <1>10, <1>11
  <2>4. heard'.bodies = [u \in Topics |-> heard'.bodies[u]]  OBVIOUS
  <2>5. \A u \in Topics : heard'.bodies[u] \in Seq(Nat)  BY <1>11, <2>1, <2>2, <2>3
  <2> QED BY <2>1, <2>2, <2>4, <2>5
<1>13. /\ DOMAIN (old \o <<b>>) = DOMAIN old \cup {Len(old) + 1}
       /\ \A i \in DOMAIN old : /\ (old \o <<b>>)[i] = old[i]
                                /\ i < Len(old) + 1 /\ old[i] \in Nat
       /\ (old \o <<b>>)[Len(old) + 1] = b /\ Len(old) \in Nat
       /\ \A i \in DOMAIN old : i \in Nat
  BY <1>10, <1>11
<1>14. Range(old \o <<b>>) = Range(old) \cup {b}
  <2> DEFINE new == old \o <<b>>
  <2> HIDE DEF new
  <2>1. /\ DOMAIN new = DOMAIN old \cup {Len(old) + 1}
        /\ \A i \in DOMAIN old : new[i] = old[i] /\ new[Len(old) + 1] = b
    BY <1>13 DEF new
  <2>2. new[Len(old) + 1] = b  BY <1>13 DEF new
  <2> QED BY <2>1, <2>2 DEF Range, new
<1>15. Names' /\ Tables'
  BY <1>1, <1>2 DEF Names, Tables
<1>16. ToldInOrder'
  <2> DEFINE new == heard'.bodies[t]
  <2>1. ASSUME NEW i \in DOMAIN new PROVE new[i] <= published[t]
    <3>1. CASE i \in DOMAIN old
      <4>1. new[i] = old[i] /\ old[i] \in Nat /\ old[i] <= last  BY <1>7, <1>12, <1>13, <3>1
      <4> QED BY <1>5, <1>7, <4>1
    <3>2. CASE i = Len(old) + 1
      BY <1>9, <1>12, <1>13, <3>2
    <3> QED BY <1>12, <1>13, <2>1, <3>1, <3>2
  <2>2. ASSUME NEW i \in DOMAIN new, NEW j \in DOMAIN new, i < j PROVE new[i] < new[j]
    <3>1. i \in DOMAIN old
      <4> SUFFICES ASSUME i = Len(old) + 1 PROVE FALSE
        BY <1>12, <1>13
      <4>1. j \in DOMAIN old \/ j = Len(old) + 1  BY <1>12, <1>13
      <4> QED BY <1>13, <2>2, <4>1
    <3>2. new[i] = old[i] /\ old[i] \in Nat /\ old[i] <= last  BY <1>7, <1>12, <1>13, <3>1
    <3>3. CASE j \in DOMAIN old
      <4>1. new[j] = old[j]  BY <1>12, <1>13, <3>3
      <4>2. old[i] < old[j]  BY <1>2, <1>5, <2>2, <3>1, <3>3 DEF ToldInOrder, old
      <4> QED BY <3>2, <4>1, <4>2
    <3>4. CASE j = Len(old) + 1
      <4>1. new[j] = b  BY <1>12, <1>13, <3>4
      <4>2. old[i] < b  BY <1>9, <3>2
      <4> QED BY <3>2, <4>1, <4>2
    <3> QED BY <1>12, <1>13, <3>3, <3>4
  <2>3. ASSUME NEW u \in Topics
        PROVE  /\ \A i \in DOMAIN heard'.bodies[u] : heard'.bodies[u][i] <= published'[u]
               /\ \A i, j \in DOMAIN heard'.bodies[u] :
                      i < j => heard'.bodies[u][i] < heard'.bodies[u][j]
    <3>1. CASE u = t  BY <1>1, <2>1, <2>2, <3>1
    <3>2. CASE u # t  BY <1>1, <1>2, <1>12, <3>2 DEF ToldInOrder
    <3> QED BY <3>1, <3>2
  <2> QED BY <1>12, <2>3 DEF ToldInOrder
<1>17. IsPage => /\ areas'.stompNotification = <<b>> \o areas.stompNotification
                 /\ areas.stompNotification \in Seq(Nat)
                 /\ \A sid \in DOMAIN wire.since : sid = id
                 /\ \A sid \in DOMAIN stomp.subscriptions : sid = id
  <2> SUFFICES ASSUME IsPage PROVE <1>17!2
    OBVIOUS
  <2>1. areas'.stompNotification = <<b>> \o areas.stompNotification
    BY DEF appendTextArea, b, s
  <2>2. areas.stompNotification \in Seq(Nat)  BY <1>2 DEF Shown
  <2>3. Given \subseteq {SubId(0)}
    <3>1. heard.subscriptions = 0 /\ stomp.counter \in {0, 1}  BY <1>2 DEF Names
    <3>2. 0 .. heard.subscriptions - 1 = {} /\ 0 .. stomp.counter - 1 \subseteq {0}
      BY <3>1
    <3> QED BY <3>2 DEF Given
  <2>4. /\ DOMAIN wire.since \subseteq {SubId(0)}
        /\ DOMAIN stomp.subscriptions \subseteq {SubId(0)}
    BY <1>2, <2>3 DEF Names
  <2> QED BY <2>1, <2>2, <2>4
<1>18. IsPage => /\ areas'.stompNotification \in Seq(Nat)
                 /\ Len(areas'.stompNotification) = Len(areas.stompNotification) + 1
                 /\ Run(areas'.stompNotification, wire.since[id])
  <2> SUFFICES ASSUME IsPage PROVE <1>18!2
    OBVIOUS
  <2> DEFINE lines == areas.stompNotification
             more == <<b>> \o lines
             n == wire.since[id]
  <2>1. lines \in Seq(Nat) /\ n \in Nat /\ b = n + Len(lines) + 1 /\ Run(lines, n)
    BY <1>2, <1>5, <1>7, <1>9, <1>17 DEF Shown
  <2>2. areas'.stompNotification = more  BY <1>17
  <2> HIDE DEF lines, n
  <2>3. more \in Seq(Nat) /\ Len(more) = Len(lines) + 1 /\ DOMAIN more = 1 .. Len(lines) + 1
        /\ more[1] = b /\ Len(lines) \in Nat /\ DOMAIN lines = 1 .. Len(lines)
    BY <1>10, <2>1
  <2>4. ASSUME NEW i \in DOMAIN more PROVE more[i] = n + Len(more) + 1 - i
    <3>1. CASE i = 1  BY <2>1, <2>3, <3>1
    <3>2. CASE i # 1
      <4>1. more[i] = lines[i - 1] /\ i - 1 \in DOMAIN lines
        BY <1>10, <2>1, <2>3, <2>4, <3>2
      <4>2. lines[i - 1] = n + Len(lines) + 1 - (i - 1)  BY <2>1, <4>1 DEF Run
      <4> QED BY <2>1, <2>3, <2>4, <4>1, <4>2
    <3> QED BY <3>1, <3>2
  <2>5. Run(more, n)  BY <2>4 DEF Run
  <2> QED BY <2>2, <2>3, <2>5 DEF lines, n
<1>19. Shown'
  <2> SUFFICES ASSUME IsPage PROVE Shown'
    BY <1>1 DEF Shown
  <2>1. DOMAIN wire'.since # {}  BY <1>1, <1>5
  <2>2. DOMAIN wire.since = DOMAIN wire.subs  BY <1>2 DEF Shown
  <2>3. \A sid \in DOMAIN wire'.since :
            sid = id /\ Run(areas'.stompNotification, wire'.since[sid])
    BY <1>1, <1>17, <1>18
  <2> QED BY <1>1, <1>18, <2>1, <2>2, <2>3 DEF Shown
<1>20. Asked'
  <2>1. \A i \in DOMAIN wire'.toClient : \E j \in DOMAIN wire.toClient :
            wire'.toClient[i] = wire.toClient[j]
    BY <1>3 DEF s
  <2>2. ASSUME NEW sid, \A j \in DOMAIN wire.toClient : ~ MessageFor(wire.toClient[j], sid)
        PROVE  \A j \in DOMAIN wire'.toClient : ~ MessageFor(wire'.toClient[j], sid)
    <3> TAKE j \in DOMAIN wire'.toClient
    <3>1. PICK k \in DOMAIN wire.toClient : wire'.toClient[j] = wire.toClient[k]
      BY <2>1
    <3> QED BY <2>2, <3>1
  <2> QED BY <1>1, <1>2, <2>2 DEF Asked
<1>21. Addressed'  BY <1>1, <1>2, <1>3 DEF Addressed, s
<1>22. ASSUME NEW sid \in DOMAIN stomp.subscriptions PROVE Pending(sid)' \/ Taken(sid)'
  <2>1. Pending(sid) \/ Taken(sid)  BY <1>2 DEF Followed
  <2>2. CASE Pending(sid)  BY <1>1, <2>2 DEF Pending
  <2>3. CASE Taken(sid) /\ sid = id
    <3>1. /\ b \in wire.since[id] .. published[t]
          /\ BodiesIn(wire'.toClient, id) = b + 1 .. published[t]
          /\ b \in Nat
      BY <1>5, <1>7, <1>9 DEF s
    <3>2. wire.since[id] + 1 .. b \subseteq Range(heard'.bodies[t])
      <4>1. Range(heard'.bodies[t]) = Range(old) \cup {b}  BY <1>12, <1>14
      <4>2. \A i \in wire.since[id] + 1 .. b : i \in wire.since[id] + 1 .. last \/ i = b
        BY <1>5, <1>7, <1>9
      <4> QED BY <1>7, <4>1, <4>2
    <3>3. \A i \in DOMAIN heard'.bodies[t] : heard'.bodies[t][i] <= b
      <4> TAKE i \in DOMAIN heard'.bodies[t]
      <4>1. CASE i \in DOMAIN old
        <5>1. heard'.bodies[t][i] = old[i] /\ old[i] \in Nat /\ old[i] <= last
          BY <1>7, <1>12, <1>13, <4>1
        <5>2. old[i] <= b  BY <1>9, <5>1
        <5> QED BY <5>1, <5>2
      <4>2. CASE i = Len(old) + 1
        <5>1. heard'.bodies[t][i] = b  BY <1>12, <1>13, <4>2
        <5>2. b <= b  BY <1>10
        <5> QED BY <5>1, <5>2
      <4> QED BY <1>12, <1>13, <4>1, <4>2
    <3>4. IsPage => b = wire.since[id] + Len(areas'.stompNotification)
      <4> SUFFICES ASSUME IsPage PROVE b = wire.since[id] + Len(areas'.stompNotification)
        OBVIOUS
      <4>1. Len(areas.stompNotification) \in Nat  BY <1>17
      <4>2. \A k, m \in Nat : k + m + 1 = k + (m + 1)  OBVIOUS
      <4>3. b = wire.since[id] + Len(areas.stompNotification) + 1  BY <1>7, <1>9
      <4>4. Len(areas'.stompNotification) = Len(areas.stompNotification) + 1
        BY <1>18
      <4> QED BY <1>5, <4>1, <4>2, <4>3, <4>4
    <3>5. /\ stomp'.subscriptions[id] = t /\ published'[t] = published[t]
          /\ wire'.since[id] = wire.since[id]
      BY <1>1 DEF t
    <3> HIDE DEF IsPage
    <3>6. UpTo(id, last + 1)'
      BY <1>1, <1>9, <3>1, <3>2, <3>3, <3>4, <3>5 DEF UpTo
    <3>7. InOrder(wire'.toClient, id)  BY <1>8 DEF s
    <3>8. id \in DOMAIN wire'.subs /\ wire'.subs[id] = stomp'.subscriptions[id]
      BY <1>1, <1>4 DEF Taken
    <3>9. \E n \in Nat : UpTo(id, n)'  BY <3>6
    <3> QED BY <2>3, <3>7, <3>8, <3>9 DEF Taken
  <2>4. CASE Taken(sid) /\ sid # id
    <3>1. ~ MessageFor(wire.toClient[1], sid)  BY <2>4 DEF MessageFor
    <3>2. /\ BodiesIn(wire'.toClient, sid) = BodiesIn(wire.toClient, sid)
          /\ InOrder(wire'.toClient, sid)
      BY <2>4, <3>1, FirstRead DEF Taken
    <3>3. stomp.subscriptions[sid] \in Topics /\ stomp.subscriptions[sid] # t
      BY <1>2, <2>4 DEF Tables, t
    <3>4. heard'.bodies[stomp.subscriptions[sid]] = heard.bodies[stomp.subscriptions[sid]]
      BY <1>12, <3>3
    <3>5. ~ IsPage  BY <1>17, <2>4
    <3> QED BY <1>1, <2>4, <3>2, <3>4, <3>5 DEF Taken, UpTo
  <2> QED BY <2>1, <2>2, <2>3, <2>4
<1> QED BY <1>1, <1>15, <1>16, <1>19, <1>20, <1>21, <1>22 DEF Notified, Followed

-----------------------------------------------------------------------------
(* What a turn of the STOMP client tells the application and the page      *)
AreasType(a) ==
    /\ a \in [responseText : {a.responseText},
              stompNotification : {a.stompNotification},
              mqttNotification : {a.mqttNotification}, debug : {a.debug}]
    /\ DOMAIN a.debug = DebugLines

Elsewhere == <<areas.responseText, areas.mqttNotification>>

OtherLines(line) ==
    \A other \in DebugLines \ {line} : areas'.debug[other] = areas.debug[other]

(* Whatever is sent, the broker's books stay.                              *)
LEMMA BooksStay ==
    ASSUME NEW w, WireType(w), NEW f
    PROVE  LET v == Emit(w, f)
           IN  WireType(v) /\ v.subs = w.subs /\ v.since = w.since
BY DEF Emit, WireType

(* What a turn of the STOMP client does to the tables and to what is told  *)
LEMMA TurnTold ==
    ASSUME NEW after, ClientType(after), NEW w, HeardType(heard), AreasType(areas),
           StompTurn(after, w)
    PROVE  LET c == OnConnected(after)
           IN  /\ stomp'.subscriptions = c.subscriptions
               /\ stomp'.counter = c.counter /\ stomp'.connected = c.connected
               /\ wire' = FoldLeft(Emit, w, c.out)
               /\ heard'.subscriptions = heard.subscriptions
               /\ heard'.bodies = [t \in Topics |-> heard.bodies[t] \o BodiesFor(c, t)]
               /\ areas'.stompNotification =
                      IF IsPage THEN FoldLeft(appendTextArea, areas.stompNotification,
                                              BodiesFor(c, PageTopic))
                      ELSE areas.stompNotification
               /\ AreasType(areas') /\ UNCHANGED Elsewhere
               /\ OtherLines("STOMP connected")
<1> DEFINE c == OnConnected(after)
           b == [t \in Topics |-> heard.bodies[t] \o BodiesFor(c, t)]
           e == IF IsPage THEN heard.errors ELSE heard.errors + Count(c, "error")
           n == FoldLeft(appendTextArea, areas.stompNotification, BodiesFor(c, PageTopic))
           k == areas.debug["STOMP connected"] + Count(c, "connected")
           d == [areas.debug EXCEPT !["STOMP connected"] = k]
<1>1. /\ stomp' = [c EXCEPT !.out = <<>>, !.calls = <<>>, !.threw = FALSE]
      /\ wire' = FoldLeft(Emit, w, c.out)
      /\ heard' = [heard EXCEPT !.errors = e, !.bodies = b]
  BY DEF StompTurn, HeardType
<1>2. areas' = IF ~ IsPage THEN areas
               ELSE [areas EXCEPT !.stompNotification = n, !.debug = d]
  BY DEF StompTurn, AreasType
<1>3. ClientType(c)  BY OnConnectedFacts
<1>4. /\ DOMAIN d = DebugLines
      /\ \A other \in DebugLines \ {"STOMP connected"} : d[other] = areas.debug[other]
  BY DEF AreasType
<1> HIDE DEF c, b, e, n, d
<1>5. /\ stomp'.subscriptions = c.subscriptions
      /\ stomp'.counter = c.counter /\ stomp'.connected = c.connected
  BY <1>1, <1>3 DEF ClientType
<1>6. heard'.subscriptions = heard.subscriptions /\ heard'.bodies = b
  BY <1>1 DEF HeardType
<1>7. /\ areas'.stompNotification = IF IsPage THEN n ELSE areas.stompNotification
      /\ AreasType(areas') /\ UNCHANGED Elsewhere
      /\ OtherLines("STOMP connected")
  <2>1. CASE IsPage
    <3>1. areas' = [areas EXCEPT !.stompNotification = n, !.debug = d]
      BY <1>2, <2>1
    <3>2. /\ areas'.stompNotification = n /\ areas'.debug = d
          /\ areas'.responseText = areas.responseText
          /\ areas'.mqttNotification = areas.mqttNotification
      BY <3>1 DEF AreasType
    <3>3. AreasType(areas')  BY <1>4, <3>1, <3>2 DEF AreasType
    <3> QED BY <1>4, <2>1, <3>2, <3>3 DEF Elsewhere, OtherLines
  <2>2. CASE ~ IsPage
    BY <1>2, <2>2 DEF Elsewhere, OtherLines
  <2> QED BY <2>1, <2>2
<1> QED BY <1>1, <1>5, <1>6, <1>7 DEF c, b, n

(* Nobody is told of a notification.                                       *)
Untold(after) ==
    \/ after.calls = <<>>
    \/ \E name, x, y : name # "message" /\ after.calls = <<<<name, x, y>>>>

(* A turn that tells nobody of a notification leaves it as it was.         *)
LEMMA TurnUntold ==
    ASSUME NEW after, ClientType(after), NEW w, HeardType(heard), AreasType(areas),
           ToldInOrder, StompTurn(after, w), Untold(after)
    PROVE  /\ LET c == OnConnected(after)
              IN  /\ stomp'.subscriptions = c.subscriptions
                  /\ stomp'.counter = c.counter /\ stomp'.connected = after.connected
                  /\ wire' = FoldLeft(Emit, w, c.out)
           /\ heard'.subscriptions = heard.subscriptions /\ UNCHANGED ToldSoFar
<1> DEFINE c == OnConnected(after)
<1>1. ClientType(c) /\ c.calls = after.calls /\ c.connected = after.connected
  BY OnConnectedFacts DEF SameTimers
<1>2. /\ stomp'.subscriptions = c.subscriptions
      /\ stomp'.counter = c.counter /\ stomp'.connected = c.connected
      /\ wire' = FoldLeft(Emit, w, c.out)
      /\ heard'.subscriptions = heard.subscriptions
      /\ heard'.bodies = [t \in Topics |-> heard.bodies[t] \o BodiesFor(c, t)]
      /\ areas'.stompNotification =
             IF IsPage THEN FoldLeft(appendTextArea, areas.stompNotification,
                                     BodiesFor(c, PageTopic))
             ELSE areas.stompNotification
  BY TurnTold
<1> HIDE DEF c
<1>3. \A t : BodiesFor(c, t) = <<>>
  <2> TAKE t
  <2>1. CASE after.calls = <<>>  BY <1>1, <2>1, BodiesNone
  <2>2. ASSUME NEW name, name # "message", NEW x, NEW y,
               after.calls = <<<<name, x, y>>>>
        PROVE  BodiesFor(c, t) = <<>>
    <3> DEFINE call == <<name, x, y>>
    <3>1. call[1] = name  OBVIOUS
    <3>2. c.calls = <<call>>  BY <1>1, <2>2
    <3> HIDE DEF call
    <3>3. call[1] # "message"  BY <2>2, <3>1
    <3> QED BY <3>2, <3>3, BodiesOne
  <2> QED BY <2>1, <2>2 DEF Untold
<1>4. areas'.stompNotification = areas.stompNotification
  BY <1>2, <1>3, ShownNone
<1>5. heard'.bodies = heard.bodies
  <2>1. heard.bodies \in [Topics -> Seq(Nat)]  BY DEF ToldInOrder
  <2>2. ASSUME NEW t \in Topics PROVE heard.bodies[t] \o BodiesFor(c, t) = heard.bodies[t]
    <3>1. heard.bodies[t] \in Seq(Nat)  BY <2>1
    <3> QED BY <1>3, <3>1, NothingAdded
  <2>3. heard'.bodies = [t \in Topics |-> heard.bodies[t]]  BY <1>2, <2>2
  <2> QED BY <2>1, <2>3
<1> QED BY <1>1, <1>2, <1>4, <1>5 DEF ToldSoFar, c

(* Except for subscribing and unsubscribing the client keeps its           *)
(* subscriptions.                                                          *)
SameNames(d, c) == d.subscriptions = c.subscriptions /\ d.counter = c.counter

(* Only subscribe and unsubscribe touch the names of the subscriptions.    *)
LEMMA NamesKept ==
    ASSUME NEW c, ClientType(c)
    PROVE  /\ SameNames(onopen(c), c) /\ SameNames(onsocketclose(c), c)
           /\ SameNames(PingerFires(c), c) /\ SameNames(PongerFires(c), c)
           /\ SameNames(disconnect(c), c)
           /\ \A oldest : SameNames(Elapse(c, oldest), c)
<1>1. SameNames(onopen(c), c)  BY DEF onopen, transmit, ClientType, SameNames
<1>2. SameNames(onsocketclose(c), c)
  BY DEF onsocketclose, Call, ClientType, SameNames
<1>3. SameNames(PingerFires(c), c)
  BY DEF PingerFires, transmit, ClientType, SameNames
<1>4. ASSUME NEW d, ClientType(d) PROVE SameNames(cleanUp(d), d)
  BY <1>4 DEF cleanUp, ClientType, SameNames
<1>5. SameNames(PongerFires(c), c)
  <2>1. SameNames([c EXCEPT !.ponger = c.pongerPeriod], c)
    BY DEF ClientType, SameNames
  <2> QED BY <1>4, <2>1 DEF PongerFires
<1>6. SameNames(disconnect(c), c)
  <2> DEFINE e == [transmit(c, Frame("DISCONNECT", <<>>, <<>>)) EXCEPT !.onclose = FALSE]
  <2>1. ClientType(e) /\ SameNames(e, c)
    BY DEF transmit, ClientType, SameNames
  <2> HIDE DEF e
  <2>2. SameNames(cleanUp(e), e)  BY <1>4, <2>1
  <2>3. disconnect(c) = cleanUp(e)  BY DEF disconnect, e
  <2> QED BY <2>1, <2>2, <2>3 DEF SameNames
<1>7. \A oldest : SameNames(Elapse(c, oldest), c)
  BY DEF Elapse, ClientType, SameNames
<1> QED BY <1>1, <1>2, <1>3, <1>5, <1>6, <1>7

(* Receiving does not change them either.                                  *)
LEMMA NamesReceived ==
    ASSUME NEW c, ClientType(c), ~ c.threw, NEW frame,
           frame.command \in {"CONNECTED", "MESSAGE", "ERROR"}
    PROVE  SameNames(onmessage(c, <<frame>>), c) /\ SameNames(onmessage(c, <<>>), c)
<1> DEFINE e == [c EXCEPT !.activity = 0]
<1>1. ClientType(e) /\ SameNames(e, c) /\ ~ e.threw  BY DEF ClientType, SameNames
<1>2. onmessage(c, <<>>) = e  BY ReceiveNone DEF onmessage
<1>3. onmessage(c, <<frame>>) = receive(e, frame)  BY ReceivedFrame
<1> HIDE DEF e
<1>4. \A d, k, x, y : ClientType(d) => SameNames(Call(d, k, x, y), d)
  BY DEF Call, ClientType, SameNames
<1>5. SameNames(e, e)  BY DEF SameNames
<1>6. CASE frame.command \in {"MESSAGE", "ERROR"}
  <2>1. SameNames(receive(e, frame), e)  BY <1>1, <1>4, <1>5, <1>6 DEF receive
  <2> QED BY <1>1, <1>2, <1>3, <2>1 DEF SameNames
<1>7. CASE frame.command = "CONNECTED"
  <2> DEFINE g == [e EXCEPT !.connected = TRUE]
             h == setupHeartbeat(g, frame.version, frame.beat)
  <2>1. ClientType(g) /\ SameNames(g, e)  BY <1>1 DEF ClientType, SameNames
  <2> HIDE DEF g
  <2>2. SameNames(h, g)
    BY <2>1 DEF setupHeartbeat, ClientType, SameNames
  <2>3. receive(e, frame) = IF h.threw THEN h ELSE Call(h, "connected", <<>>, <<>>)
    BY <1>1, <1>7 DEF receive, g
  <2>4. SameNames(Call(h, "connected", <<>>, <<>>), h)
    <3>1. h.subscriptions = h.subscriptions  OBVIOUS
    <3> QED BY <2>1 DEF Call, SameNames, setupHeartbeat, ClientType
  <2>5. SameNames(receive(e, frame), e)  BY <2>1, <2>2, <2>3, <2>4 DEF SameNames
  <2> QED BY <1>1, <1>2, <1>3, <2>5 DEF SameNames
<1> QED BY <1>6, <1>7

-----------------------------------------------------------------------------
(* Each step keeps track of the notifications: the socket opens,           *)
LEMMA OpensNotified ==
    ASSUME IInv, Notified, AreasType(areas), StompOpens PROVE Notified'
<1> DEFINE after == onopen(stomp)
           w == [wire EXCEPT !.state = "open"]
<1>1. /\ ClientType(stomp) /\ WireType(wire) /\ HeardType(heard) /\ Settled
  BY DEF IInv, TypeOK
<1>2. Connecting /\ wire.state = "connecting"
  BY DEF IInv, Phases, Asking, Refused, Accepted, Serving, StompOpens
<1>3. StompTurn(after, w) /\ UNCHANGED <<config, published>>
  BY DEF StompOpens, NotStomp
<1>4. PICK f : f.command = "CONNECT" /\ after = transmit(stomp, f)
  BY DEF onopen, Frame
<1>5. /\ ClientType(after) /\ after.connected = stomp.connected
      /\ after.out = <<f>> /\ after.calls = <<>>
  <2>1. ClientType(after) /\ after.connected = stomp.connected
        /\ after.out = Append(stomp.out, f) /\ after.calls = stomp.calls
    BY <1>1, <1>4 DEF transmit, ClientType
  <2> QED BY <1>1, <2>1 DEF Settled
<1>6. SameNames(after, stomp)  BY <1>1, NamesKept
<1>7. /\ WireType(w) /\ w.state = "open" /\ w.toClient = <<>> /\ w.toServer = <<>>
      /\ w.subs = wire.subs /\ w.since = wire.since
  BY <1>1, <1>2 DEF WireType, Connecting
<1> HIDE DEF after, w
<1>8. OnConnected(after) = after  BY <1>5 DEF OnConnected
<1>9. /\ stomp'.subscriptions = stomp.subscriptions /\ stomp'.counter = stomp.counter
      /\ stomp'.connected = stomp.connected
      /\ wire' = FoldLeft(Emit, w, <<f>>)
      /\ heard'.subscriptions = heard.subscriptions /\ UNCHANGED ToldSoFar
  BY <1>1, <1>3, <1>5, <1>6, <1>8, TurnUntold DEF Untold, SameNames, Notified
<1>10. wire' = Emit(w, f)  BY <1>9, EmitOne
<1>11. /\ wire'.state = "open" /\ wire'.toClient = <<>> /\ wire'.toServer = <<f>>
       /\ wire'.subs = wire.subs /\ wire'.since = wire.since
  BY <1>4, <1>7, <1>10, Sent, BooksStay
<1>12. /\ DOMAIN stomp.subscriptions = {} /\ DOMAIN wire.subs = {}
       /\ DOMAIN wire.since = {}
  <2>1. ~ stomp.connected /\ DOMAIN wire.subs = {}
    BY <1>2 DEF Connecting, Quiet
  <2>2. stomp.counter = 0 /\ heard.subscriptions = 0 /\ DOMAIN stomp.subscriptions = {}
        /\ DOMAIN wire.since \subseteq Given
    BY <1>2, <2>1 DEF Notified, Names
  <2>3. 0 .. stomp.counter - 1 = {} /\ 0 .. heard.subscriptions - 1 = {}
    BY <2>2
  <2>4. Given = {}  BY <2>3 DEF Given
  <2> QED BY <2>1, <2>2, <2>4
<1>13. /\ UNCHANGED <<Subscriptions, Books>> /\ NoLessConnected
  BY <1>2, <1>9, <1>11 DEF Subscriptions, Books, NoLessConnected
<1>14. /\ \A i \in DOMAIN wire'.toServer : ~ AboutSubscription(wire'.toServer[i])
       /\ \A i \in DOMAIN wire'.toClient : ~ IsMessage(wire'.toClient[i])
  BY <1>4, <1>11 DEF AboutSubscription
<1> QED BY <1>3, <1>9, <1>12, <1>13, <1>14, NobodySubscribed

(* the answer to CONNECT is received,                                      *)
LEMMA AnswerNotified ==
    ASSUME IInv, Notified, AreasType(areas), StompReceives, Refused \/ Accepted
    PROVE  Notified'
<1> DEFINE data == Head(wire.toClient)
           after == onmessage(stomp, data)
           w == [wire EXCEPT !.toClient = Tail(@), !.age = 0,
                             !.errorFrames = @ + Errors(data)]
<1>1. /\ ClientType(stomp) /\ WireType(wire) /\ HeardType(heard) /\ Settled
      /\ config \in Configurations
  BY DEF IInv, TypeOK
<1>2. /\ wire.state = "open" /\ wire.toClient # <<>> /\ StompTurn(after, w)
      /\ UNCHANGED <<config, published>>
  BY DEF StompReceives, NotStomp
<1>3. /\ WireType(w) /\ w.state = "open" /\ w.subs = wire.subs /\ w.since = wire.since
      /\ w.toClient = Tail(wire.toClient) /\ w.toServer = wire.toServer
  <2>1. Errors(data) \in Nat  BY <1>2, ErrorsCounted
  <2> QED BY <1>1, <1>2, <2>1, Read
<1> HIDE DEF w
<1>4. PICK f : /\ wire.toClient = <<<<f>>>>
               /\ \/ f.command = "ERROR" /\ Refused
                  \/ f.command = "CONNECTED" /\ f = Data("CONNECTED", <<>>, <<>>) /\ Accepted
  BY <1>2 DEF Refused, Accepted, Data
<1>5. data = <<f>> /\ w.toClient = <<>> /\ w.toServer = <<>>
  BY <1>3, <1>4 DEF Refused, Accepted
<1>6. ~ stomp.connected /\ DOMAIN wire.subs = {} /\ wire.state = "open"
  BY <1>2 DEF Refused, Accepted, Quiet
<1>7. /\ stomp.counter = 0 /\ heard.subscriptions = 0
      /\ DOMAIN stomp.subscriptions = {}
  BY <1>6 DEF Notified, Names
<1>8. SameNames(after, stomp)
  <2> HIDE DEF data
  <2>1. SameNames(onmessage(stomp, <<f>>), stomp)
    BY <1>1, <1>4, NamesReceived DEF Settled
  <2> QED BY <1>5, <2>1
<1>9. /\ ClientType(after) /\ after.out = <<>>
      /\ \/ after.calls = <<>>
         \/ after.calls = <<<<"error", <<>>, <<>>>>>> /\ ~ after.connected
         \/ after.calls = <<<<"connected", <<>>, <<>>>>>> /\ after.connected
      /\ after.calls = <<>> \/ after.connected \/ ~ after.connected
  <2> HIDE DEF data
  <2> DEFINE d == onmessage(stomp, <<f>>)
  <2>1. CASE f.command = "ERROR"
    <3>1. /\ ClientType(d) /\ d.out = <<>> /\ d.calls = <<<<"error", <<>>, <<>>>>>>
          /\ d.connected = stomp.connected
      BY <1>1, <2>1, ReceivedError DEF Settled
    <3> HIDE DEF d
    <3>2. after = d  BY <1>5 DEF d
    <3> QED BY <1>6, <3>1, <3>2
  <2>2. CASE f.command = "CONNECTED"
    <3>1. f = Data("CONNECTED", <<>>, <<>>)  BY <1>4, <2>2
    <3>2. f.beat \in {<<>>} \cup (Nat \X Nat)
      BY <1>1, <3>1, ConfigType DEF Data
    <3>3. stomp.pinger = Off /\ stomp.ponger = Off
      BY <1>6 DEF IInv, PongerRight, PingerRight
    <3>4. stomp.calls = <<>> /\ ~ stomp.threw /\ stomp.out = <<>>  BY <1>1 DEF Settled
    <3>5. /\ ClientType(d) /\ d.out = <<>> /\ d.connected
          /\ d.calls = <<>> \/ d.calls = <<<<"connected", <<>>, <<>>>>>>
      BY <1>1, <2>2, <3>2, <3>3, <3>4, ReceivedConnected
    <3> HIDE DEF d
    <3>6. after = d  BY <1>5 DEF d
    <3> QED BY <3>5, <3>6
  <2> QED BY <1>4, <2>1, <2>2
<1> HIDE DEF data, after
<1>10. Untold(after)
  <2>1. "error" # "message" /\ "connected" # "message"  OBVIOUS
  <2> QED BY <1>9, <2>1 DEF Untold
<1> DEFINE c == OnConnected(after)
<1>11. /\ stomp'.subscriptions = c.subscriptions /\ stomp'.counter = c.counter
       /\ stomp'.connected = after.connected
       /\ wire' = FoldLeft(Emit, w, c.out)
       /\ heard'.subscriptions = heard.subscriptions /\ UNCHANGED ToldSoFar
  BY <1>1, <1>2, <1>3, <1>9, <1>10, TurnUntold DEF Notified
<1>12. CASE ~ (IsPage /\ \E i \in DOMAIN after.calls : after.calls[i][1] = "connected")
  <2>1. c = after  BY <1>12 DEF OnConnected
  <2> HIDE DEF c
  <2>2. wire' = w  BY <1>9, <1>11, <2>1, EmitNone
  <2>3. /\ UNCHANGED <<Subscriptions, Books>>
    BY <1>3, <1>8, <1>11, <2>1, <2>2 DEF Subscriptions, Books, SameNames
  <2>4. NoLessConnected  BY <1>6 DEF NoLessConnected
  <2>5. /\ \A i \in DOMAIN wire'.toServer : ~ AboutSubscription(wire'.toServer[i])
        /\ \A i \in DOMAIN wire'.toClient : ~ IsMessage(wire'.toClient[i])
    BY <1>5, <2>2
  <2> QED BY <1>2, <1>6, <1>7, <1>11, <2>3, <2>4, <2>5, NobodySubscribed
<1>13. CASE IsPage /\ \E i \in DOMAIN after.calls : after.calls[i][1] = "connected"
  <2> DEFINE g == subscribeFrame(PageTopic, <<>>, 0)
  <2>1. after.connected  BY <1>9, <1>13
  <2>2. c = subscribe(after, PageTopic, <<>>)  BY <1>13 DEF OnConnected
  <2>3. after.counter = 0 /\ DOMAIN after.subscriptions = {}
    BY <1>7, <1>8 DEF SameNames
  <2>4. /\ g.command = "SUBSCRIBE" /\ IdOf(g) = SubId(0) /\ TopicOf(g) = PageTopic
        /\ Header(<<>>, "id") = <<>>
    BY NamedByClient
  <2>5. Header(g.headers, "id") = SubId(0)  BY <2>4 DEF IdOf
  <2> DEFINE s == [i \in DOMAIN after.subscriptions \cup {SubId(0)} |->
                     IF i = SubId(0) THEN PageTopic ELSE after.subscriptions[i]]
             d == [after EXCEPT !.counter = 1, !.subscriptions = s,
                                !.out = Append(<<>>, g)]
  <2> HIDE DEF g
  <2>6. c = d
    <3>1. subscribeFrame(PageTopic, <<>>, after.counter) = g  BY <2>3 DEF g
    <3> DEFINE u == [after EXCEPT !.counter = after.counter + 1,
                                  !.subscriptions = s, !.out = Append(after.out, g)]
    <3>2. subscribe(after, PageTopic, <<>>) = u
      BY <2>4, <2>5, <3>1 DEF subscribe, transmit, ClientType
    <3>3. after.counter + 1 = 1 /\ after.out = <<>>  BY <1>9, <2>3
    <3> HIDE DEF s
    <3>4. u = d  BY <3>3
    <3> HIDE DEF u, d
    <3> QED BY <2>2, <3>2, <3>4
  <2>7. DOMAIN s = {SubId(0)} /\ s[SubId(0)] = PageTopic  BY <2>3
  <2> HIDE DEF s
  <2>8. d.counter = 1 /\ d.subscriptions = s /\ d.out = <<g>>
    <3>1. Append(<<>>, g) = <<g>>  OBVIOUS
    <3> QED BY <1>9, <3>1 DEF ClientType
  <2> HIDE DEF c, d
  <2>9. wire' = Emit(w, g)  BY <1>11, <2>6, <2>8, EmitOne
  <2>10. /\ wire'.state = "open" /\ wire'.toClient = <<>> /\ wire'.toServer = <<g>>
         /\ wire'.subs = wire.subs /\ wire'.since = wire.since
    <3>1. Append(<<>>, g) = <<g>>  OBVIOUS
    <3> QED BY <1>3, <1>5, <2>4, <2>9, <3>1, Sent, BooksStay
  <2> QED BY <1>2, <1>6, <1>11, <1>13, <2>1, <2>4, <2>6, <2>7, <2>8, <2>10, PageSubscribes
          DEF Books
<1> QED BY <1>12, <1>13

(* a notification is received,                                             *)
LEMMA CallbackTold ==
    ASSUME NEW c, ClientType(c), c.calls = <<>>, ~ c.threw,
           NEW frame, frame.command = "MESSAGE"
    PROVE  LET d == onmessage(c, <<frame>>)
           IN  d.calls = IF frame.subscription \in DOMAIN c.subscriptions
                         THEN <<<<"message", c.subscriptions[frame.subscription],
                                  frame.body>>>>
                         ELSE <<>>
<1> DEFINE e == [c EXCEPT !.activity = 0]
<1>1. /\ ClientType(e) /\ e.calls = <<>> /\ ~ e.threw
      /\ e.subscriptions = c.subscriptions
  BY DEF ClientType
<1>2. onmessage(c, <<frame>>) = receive(e, frame)  BY ReceivedFrame
<1> HIDE DEF e
<1>3. receive(e, frame) =
          IF frame.subscription \in DOMAIN e.subscriptions
          THEN Call(e, "message", e.subscriptions[frame.subscription], frame.body)
          ELSE e
  BY <1>1 DEF receive
<1>4. CASE frame.subscription \in DOMAIN e.subscriptions
  <2> DEFINE d == Call(e, "message", e.subscriptions[frame.subscription], frame.body)
  <2>1. d.calls = <<<<"message", e.subscriptions[frame.subscription], frame.body>>>>
    BY <1>1, Called
  <2> HIDE DEF d
  <2>2. onmessage(c, <<frame>>) = d  BY <1>2, <1>3, <1>4 DEF d
  <2> QED BY <1>1, <1>4, <2>1, <2>2
<1>5. CASE frame.subscription \notin DOMAIN e.subscriptions
  BY <1>1, <1>2, <1>3, <1>5
<1> QED BY <1>4, <1>5

(* A notification that is read is told to the one callback it is for,      *)
(* which has been told of all before it.                                   *)
LEMMA ServingNotified ==
    ASSUME IInv, Notified, AreasType(areas), StompReceives, Serving
    PROVE  Notified'
<1> DEFINE data == Head(wire.toClient)
           after == onmessage(stomp, data)
           w == [wire EXCEPT !.toClient = Tail(@), !.age = 0,
                             !.errorFrames = @ + Errors(data)]
<1>1. /\ ClientType(stomp) /\ WireType(wire) /\ HeardType(heard) /\ Settled
      /\ Names /\ Tables /\ ToldInOrder
  BY DEF IInv, TypeOK, Notified
<1>2. /\ wire.state = "open" /\ wire.toClient # <<>> /\ StompTurn(after, w)
      /\ UNCHANGED <<config, published>>
  BY DEF StompReceives, NotStomp
<1>3. /\ WireType(w) /\ w.state = "open" /\ w.subs = wire.subs /\ w.since = wire.since
      /\ w.toClient = Tail(wire.toClient) /\ w.toServer = wire.toServer
  <2>1. Errors(data) \in Nat  BY <1>2, ErrorsCounted
  <2> QED BY <1>1, <1>2, <2>1, Read
<1> HIDE DEF w
<1>4. /\ stomp.connected /\ IsSequence(wire.toClient)
      /\ data = wire.toClient[1] /\ Delivered(data)
  BY <1>2, HeadRead DEF Serving
<1> HIDE DEF data
<1>5. stomp.calls = <<>> /\ ~ stomp.threw /\ stomp.out = <<>>  BY <1>1 DEF Settled
<1>6. /\ ClientType(after) /\ after.connected /\ after.out = <<>>
      /\ SameNames(after, stomp)
      /\ after.calls = IF /\ data # <<>>
                          /\ data[1].subscription \in DOMAIN stomp.subscriptions
                       THEN <<<<"message", stomp.subscriptions[data[1].subscription],
                                data[1].body>>>>
                       ELSE <<>>
  <2>1. CASE data = <<>>
    <3> DEFINE m == [command |-> "MESSAGE"]
    <3>1. m.command = "MESSAGE"  OBVIOUS
    <3> HIDE DEF m
    <3>2. SameNames(onmessage(stomp, <<m>>), stomp)
          /\ SameNames(onmessage(stomp, <<>>), stomp)
      BY <1>1, <1>5, <3>1, NamesReceived
    <3> QED BY <1>1, <1>4, <1>5, <2>1, <3>2, ReceivedNothing
  <2>2. ASSUME NEW f, f.command = "MESSAGE", data = <<f>> PROVE <1>6
    <3> DEFINE d == onmessage(stomp, <<f>>)
    <3>1. /\ ClientType(d) /\ d.connected /\ d.out = <<>>
      BY <1>1, <1>4, <1>5, <2>2, ReceivedMessage
    <3>2. SameNames(d, stomp)  BY <1>1, <1>5, <2>2, NamesReceived
    <3>3. d.calls = IF f.subscription \in DOMAIN stomp.subscriptions
                    THEN <<<<"message", stomp.subscriptions[f.subscription], f.body>>>>
                    ELSE <<>>
      BY <1>1, <1>5, <2>2, CallbackTold
    <3> HIDE DEF d
    <3>4. after = d /\ data # <<>> /\ data[1] = f  BY <2>2 DEF d
    <3> QED BY <3>1, <3>2, <3>3, <3>4
  <2> QED BY <1>4, <2>1, <2>2 DEF Delivered
<1> HIDE DEF after
<1>7. OnConnected(after) = after
  BY <1>6 DEF OnConnected
<1>8. /\ stomp'.subscriptions = stomp.subscriptions /\ stomp'.counter = stomp.counter
      /\ stomp'.connected
      /\ wire' = w
      /\ heard'.subscriptions = heard.subscriptions
      /\ heard'.bodies = [t \in Topics |-> heard.bodies[t] \o BodiesFor(after, t)]
      /\ areas'.stompNotification =
             IF IsPage THEN FoldLeft(appendTextArea, areas.stompNotification,
                                     BodiesFor(after, PageTopic))
             ELSE areas.stompNotification
  <2>1. /\ stomp'.subscriptions = after.subscriptions
        /\ stomp'.counter = after.counter /\ stomp'.connected = after.connected
        /\ wire' = FoldLeft(Emit, w, after.out)
        /\ heard'.subscriptions = heard.subscriptions
        /\ heard'.bodies = [t \in Topics |-> heard.bodies[t] \o BodiesFor(after, t)]
        /\ areas'.stompNotification =
               IF IsPage THEN FoldLeft(appendTextArea, areas.stompNotification,
                                       BodiesFor(after, PageTopic))
               ELSE areas.stompNotification
    <3> DEFINE c == OnConnected(after)
    <3>1. /\ stomp'.subscriptions = c.subscriptions
          /\ stomp'.counter = c.counter /\ stomp'.connected = c.connected
          /\ wire' = FoldLeft(Emit, w, c.out)
          /\ heard'.subscriptions = heard.subscriptions
          /\ heard'.bodies = [t \in Topics |-> heard.bodies[t] \o BodiesFor(c, t)]
          /\ areas'.stompNotification =
                 IF IsPage THEN FoldLeft(appendTextArea, areas.stompNotification,
                                         BodiesFor(c, PageTopic))
                 ELSE areas.stompNotification
      BY <1>1, <1>2, <1>6, TurnTold
    <3> HIDE DEF c
    <3>2. c = after  BY <1>7 DEF c
    <3> QED BY <3>1, <3>2
  <2>2. FoldLeft(Emit, w, <<>>) = w  BY EmitNone
  <2> QED BY <1>6, <2>1, <2>2 DEF SameNames
<1>9. UNCHANGED <<Subscriptions, Books, stomp.connected>>
  BY <1>3, <1>4, <1>8 DEF Subscriptions, Books
<1>10. CASE /\ data # <<>> /\ data[1].subscription \in DOMAIN stomp.subscriptions
  <2> DEFINE id == data[1].subscription
             topic == stomp.subscriptions[id]
             body == data[1].body
  <2>1. MessageFor(data, id)
    BY <1>4, <1>10 DEF Delivered, MessageFor, IsMessage
  <2>2. after.calls = <<<<"message", topic, body>>>>  BY <1>6, <1>10
  <2>3. id \in DOMAIN stomp.subscriptions  BY <1>10
  <2> HIDE DEF id
  <2>4. \A t : BodiesFor(after, t) = IF t = topic THEN <<body>> ELSE <<>>
    BY <2>2, BodiesOne
  <2>5. IsPage => topic = PageTopic  BY <1>1, <2>3 DEF Names
  <2> HIDE DEF topic, body
  <2>6. areas'.stompNotification =
            IF IsPage /\ topic = PageTopic
            THEN appendTextArea(areas.stompNotification, body)
            ELSE areas.stompNotification
    BY <1>8, <2>4, <2>5, ShownOne
  <2>7. heard'.bodies = [t \in Topics |->
            heard.bodies[t] \o (IF t = topic THEN <<body>> ELSE <<>>)]
    BY <1>8, <2>4
  <2>8. wire'.toClient = Tail(wire.toClient) /\ wire'.toServer = wire.toServer
        /\ wire'.state = "open"
    BY <1>3, <1>8
  <2> QED BY <1>2, <1>4, <1>9, <2>1, <2>3, <2>5, <2>6, <2>7, <2>8, NotificationTold
          DEF topic, body
<1>11. CASE ~ (data # <<>> /\ data[1].subscription \in DOMAIN stomp.subscriptions)
  <2>1. after.calls = <<>>  BY <1>6, <1>11
  <2>2. UNCHANGED ToldSoFar
    BY <1>1, <1>2, <1>6, <2>1, TurnUntold DEF Untold
  <2>3. \A id \in DOMAIN stomp.subscriptions : ~ MessageFor(wire.toClient[1], id)
    BY <1>4, <1>11 DEF MessageFor, IsMessage
  <2> QED BY <1>2, <1>3, <1>4, <1>8, <1>9, <2>2, <2>3, QueueRead
<1> QED BY <1>10, <1>11

(* the connection breaks or is closed,                                     *)
LEMMA BreaksNotified == ASSUME IInv, Notified, StompBreaks PROVE Notified'
<1>1. WireType(wire) /\ wire.state \in {"connecting", "open"}
      /\ wire' = Emit(wire, Close) /\ UNCHANGED <<config, published, stomp, areas, heard>>
  BY DEF IInv, TypeOK, StompBreaks, NotStomp
<1>2. wire'.state = "closing"  BY <1>1, Closed
<1>3. wire'.subs = wire.subs /\ wire'.since = wire.since  BY <1>1, BooksStay
<1>4. UNCHANGED <<Subscriptions, Books, ToldSoFar>>
  BY <1>1, <1>3 DEF Subscriptions, Books, ToldSoFar
<1>5. NoLessConnected  BY <1>2 DEF NoLessConnected
<1> QED BY <1>1, <1>2, <1>4, <1>5, QueuesStay

(* Of a socket that is closed nothing more is asked.                       *)
LEMMA ClosesNotified ==
    ASSUME IInv, Notified, AreasType(areas), StompCloses PROVE Notified'
<1> DEFINE after == onsocketclose(stomp)
           w == [wire EXCEPT !.state = "closed"]
<1>1. /\ ClientType(stomp) /\ WireType(wire) /\ HeardType(heard) /\ Settled
      /\ ToldInOrder
  BY DEF IInv, TypeOK, Notified
<1>2. wire.state = "closing" /\ StompTurn(after, w) /\ UNCHANGED <<config, published>>
  BY DEF StompCloses, NotStomp
<1>3. /\ ClientType(after) /\ after.out = <<>>
      /\ after.calls = IF stomp.onclose THEN <<<<"error", <<>>, <<>>>>>> ELSE <<>>
  BY <1>1, Called DEF onsocketclose, Settled, SameTimers
<1>4. SameNames(after, stomp)  BY <1>1, NamesKept
<1>5. /\ WireType(w) /\ w.state = "closed" /\ w.subs = wire.subs
      /\ w.since = wire.since
  BY <1>1 DEF WireType
<1> HIDE DEF after, w
<1>6. OnConnected(after) = after  BY <1>3 DEF OnConnected
<1>7. Untold(after)
  <2>1. "error" # "message"  OBVIOUS
  <2> QED BY <1>3, <2>1 DEF Untold
<1>8. /\ stomp'.subscriptions = stomp.subscriptions /\ stomp'.counter = stomp.counter
      /\ wire' = w
      /\ heard'.subscriptions = heard.subscriptions /\ UNCHANGED ToldSoFar
  BY <1>1, <1>2, <1>3, <1>4, <1>6, <1>7, TurnUntold, EmitNone DEF SameNames
<1>9. UNCHANGED <<Subscriptions, Books>>  BY <1>5, <1>8 DEF Subscriptions, Books
<1>10. NoLessConnected  BY <1>5, <1>8 DEF NoLessConnected
<1> QED BY <1>2, <1>5, <1>8, <1>9, <1>10, QueuesStay

(* a timer fires,                                                          *)
LEMMA TimerNotified ==
    ASSUME IInv, Notified, AreasType(areas), StompTimer PROVE Notified'
<1>1. /\ ClientType(stomp) /\ WireType(wire) /\ HeardType(heard) /\ ToldInOrder
      /\ stomp.out = <<>> /\ stomp.calls = <<>> /\ config \in Configurations
  BY DEF IInv, TypeOK, Settled, Notified
<1>2. UNCHANGED <<config, published>>  BY DEF StompTimer, NotStomp
<1>3. ASSUME NEW c, ClientType(c), c.calls = <<>>, SameNames(c, stomp),
             StompTurn(c, wire)
      PROVE  /\ stomp'.subscriptions = stomp.subscriptions
             /\ stomp'.counter = stomp.counter /\ stomp'.connected = c.connected
             /\ wire' = FoldLeft(Emit, wire, c.out)
             /\ heard'.subscriptions = heard.subscriptions /\ UNCHANGED ToldSoFar
  <2>1. OnConnected(c) = c  BY <1>3 DEF OnConnected
  <2> QED BY <1>1, <1>3, <2>1, TurnUntold DEF Untold, SameNames
<1>4. CASE stomp.pinger = 0 /\ StompTurn(PingerFires(stomp), wire)
  <2> DEFINE c == PingerFires(stomp)
  <2>1. /\ ClientType(c) /\ c.connected = stomp.connected
        /\ c.out = <<Beat>> /\ c.calls = <<>>
    <3>1. Append(<<>>, Beat) = <<Beat>>  OBVIOUS
    <3> QED BY <1>1, <3>1, Pinged
  <2>2. StompTurn(c, wire) /\ SameNames(c, stomp)  BY <1>1, <1>4, NamesKept
  <2> HIDE DEF c
  <2>3. /\ stomp'.subscriptions = stomp.subscriptions
        /\ stomp'.counter = stomp.counter /\ stomp'.connected = stomp.connected
        /\ wire' = Emit(wire, Beat)
        /\ heard'.subscriptions = heard.subscriptions /\ UNCHANGED ToldSoFar
    BY <1>3, <2>1, <2>2, EmitOne
  <2>4. /\ wire'.state = wire.state /\ wire'.toServer = wire.toServer
        /\ wire'.toClient = wire.toClient
    BY <1>1, <2>3, SentBeat
  <2>5. wire'.subs = wire.subs /\ wire'.since = wire.since
    BY <1>1, <2>3, BooksStay
  <2>6. UNCHANGED <<Subscriptions, Books>> /\ NoLessConnected
    BY <2>3, <2>4, <2>5 DEF Subscriptions, Books, NoLessConnected
  <2> QED BY <1>2, <2>3, <2>4, <2>6, QueuesStay
<1>5. CASE stomp.ponger = 0 /\ StompTurn(PongerFires(stomp), wire)
  <2>1. stomp.connected  BY <1>5 DEF IInv, PongerRight, Off
  <2>2. CASE stomp.activity > 2 * stomp.pongerPeriod
    <3> DEFINE c == cleanUp(stomp)
    <3>1. c = PongerFires(stomp)  BY <2>2 DEF PongerFires
    <3>2. /\ ClientType(c) /\ c.out = <<Close>> /\ c.calls = <<>>
      <4>1. Append(<<>>, Close) = <<Close>>  OBVIOUS
      <4> QED BY <1>1, <4>1, CleanedUp
    <3> HIDE DEF c
    <3>3. StompTurn(c, wire) /\ SameNames(c, stomp)  BY <1>1, <1>5, <3>1, NamesKept
    <3>4. /\ stomp'.subscriptions = stomp.subscriptions
          /\ stomp'.counter = stomp.counter
          /\ wire' = Emit(wire, Close)
          /\ heard'.subscriptions = heard.subscriptions /\ UNCHANGED ToldSoFar
      BY <1>3, <3>2, <3>3, EmitOne
    <3>5. wire'.state \in {"closing", "closed"}
          /\ wire'.subs = wire.subs /\ wire'.since = wire.since
      BY <1>1, <3>4, Closed, BooksStay DEF WireType
    <3>6. UNCHANGED <<Subscriptions, Books>> /\ NoLessConnected
      BY <3>4, <3>5 DEF Subscriptions, Books, NoLessConnected
    <3> QED BY <1>2, <3>4, <3>5, <3>6, QueuesStay
  <2>3. CASE ~ (stomp.activity > 2 * stomp.pongerPeriod)
    <3> DEFINE c == [stomp EXCEPT !.ponger = stomp.pongerPeriod]
    <3>1. c = PongerFires(stomp)  BY <2>3 DEF PongerFires
    <3>2. /\ ClientType(c) /\ c.connected = stomp.connected
          /\ c.out = <<>> /\ c.calls = <<>>
      BY <1>1, Waited
    <3> HIDE DEF c
    <3>3. StompTurn(c, wire) /\ SameNames(c, stomp)  BY <1>1, <1>5, <3>1, NamesKept
    <3>4. /\ stomp'.subscriptions = stomp.subscriptions
          /\ stomp'.counter = stomp.counter /\ stomp'.connected = stomp.connected
          /\ wire' = wire
          /\ heard'.subscriptions = heard.subscriptions /\ UNCHANGED ToldSoFar
      BY <1>3, <3>2, <3>3, EmitNone
    <3>5. UNCHANGED <<Subscriptions, Books>> /\ NoLessConnected
      BY <3>4 DEF Subscriptions, Books, NoLessConnected
    <3> QED BY <1>2, <3>4, <3>5, QueuesStay
  <2> QED BY <2>2, <2>3
<1> QED BY <1>4, <1>5 DEF StompTimer

(* time passes,                                                            *)
LEMMA TickNotified == ASSUME IInv, Notified, Tick PROVE Notified'
<1>1. /\ ClientType(stomp) /\ WireType(wire)
      /\ stomp' = Elapse(stomp, Oldest) /\ UNCHANGED <<config, published, areas, heard>>
  BY DEF IInv, TypeOK, Tick, NotStomp
<1>2. stomp'.subscriptions = stomp.subscriptions /\ stomp'.counter = stomp.counter
      /\ stomp'.connected = stomp.connected
  BY <1>1, NamesKept, Elapsed DEF SameNames
<1>3. /\ wire'.state = wire.state
      /\ wire'.toServer = wire.toServer /\ wire'.toClient = wire.toClient
      /\ wire'.subs = wire.subs /\ wire'.since = wire.since
  <2> DEFINE age == IF wire.toClient # <<>> THEN wire.age + 1 ELSE wire.age
             sinceServer == IF Punctual THEN wire.sinceServer + 1 ELSE 0
             unsent == IF stomp.connected /\ wire.unsent < Oldest
                       THEN wire.unsent + 1 ELSE wire.unsent
  <2>1. wire' = [wire EXCEPT !.age = age, !.sinceServer = sinceServer,
                             !.unsent = unsent]
    BY <1>1 DEF Tick, WireType
  <2> HIDE DEF age, sinceServer, unsent
  <2> QED BY <1>1, <2>1 DEF WireType
<1>4. UNCHANGED <<Subscriptions, Books, ToldSoFar>> /\ NoLessConnected
  BY <1>1, <1>2, <1>3 DEF Subscriptions, Books, ToldSoFar, NoLessConnected
<1> QED BY <1>1, <1>3, <1>4, QueuesStay

(* the server refuses or serves the client,                                *)
LEMMA RefusesNotified == ASSUME IInv, Notified, StompRefuses PROVE Notified'
<1> DEFINE rest == Tail(wire.toServer)
           w == [wire EXCEPT !.toServer = rest]
           d == Data("ERROR", <<>>, <<>>)
<1>1. WireType(wire) /\ HeardType(heard)  BY DEF IInv, TypeOK
<1>2. /\ wire.state = "open" /\ wire.toServer # <<>>
      /\ Head(wire.toServer).command = "CONNECT"
      /\ wire' = ToClient([wire EXCEPT !.toServer = Tail(@)], <<<<d>>>>)
      /\ heard' = heard
      /\ UNCHANGED <<config, published, stomp, areas>>
  BY DEF StompRefuses, NotStomp
<1>3. Asking
  <2>1. CASE Serving
    <3>1. AboutSubscription(Head(wire.toServer))
      BY <1>2, <2>1, HeadRead DEF Serving
    <3> QED BY <1>2, <3>1 DEF AboutSubscription
  <2> QED BY <1>2, <2>1 DEF IInv, Phases, Connecting, Refused, Accepted
<1>4. /\ wire.toClient = <<>> /\ rest = <<>> /\ ~ stomp.connected
      /\ DOMAIN wire.subs = {}
  BY <1>3 DEF Asking, Quiet
<1>5. wire' = ToClient(w, <<<<d>>>>)  BY <1>1, <1>2, FrameTaken
<1>6. d.command = "ERROR"  BY DEF Data
<1> HIDE DEF rest, d
<1>7. /\ WireType(w) /\ w.state = "open" /\ w.toServer = rest /\ w.toClient = <<>>
      /\ w.subs = wire.subs /\ w.since = wire.since
  BY <1>1, <1>2, <1>4 DEF WireType
<1> HIDE DEF w
<1>8. wire' = [w EXCEPT !.toClient = <<<<d>>>>, !.sinceServer = 0]
  BY <1>5, <1>7 DEF ToClient, WireType
<1>9. /\ wire'.state = "open" /\ wire'.toServer = <<>> /\ wire'.toClient = <<<<d>>>>
      /\ wire'.subs = wire.subs /\ wire'.since = wire.since
  BY <1>4, <1>7, <1>8 DEF WireType
<1>10. heard'.subscriptions = heard.subscriptions /\ heard'.bodies = heard.bodies
  BY <1>1, <1>2 DEF HeardType
<1>11. UNCHANGED <<Subscriptions, Books, ToldSoFar>> /\ NoLessConnected
  BY <1>2, <1>9, <1>10 DEF Subscriptions, Books, ToldSoFar, NoLessConnected
<1>12. DOMAIN stomp.subscriptions = {}  BY <1>2, <1>4 DEF Notified, Names
<1>13. \A i \in DOMAIN wire'.toClient : ~ IsMessage(wire'.toClient[i])
  BY <1>6, <1>9 DEF IsMessage
<1>14. \A i \in DOMAIN wire'.toServer : ~ AboutSubscription(wire'.toServer[i])
  BY <1>9
<1> QED BY <1>2, <1>4, <1>11, <1>12, <1>13, <1>14, NobodySubscribed

(* The broker takes a subscription on, or its end.                         *)
LEMMA ServesNotified == ASSUME IInv, Notified, StompServes PROVE Notified'
<1> DEFINE rest == Tail(wire.toServer)
           w == [wire EXCEPT !.toServer = rest]
           frame == Head(wire.toServer)
           id == IdOf(frame)
           topic == TopicOf(frame)
<1>1. WireType(wire)  BY DEF IInv, TypeOK
<1>2. /\ wire.state = "open" /\ wire.toServer # <<>>
      /\ wire' = Served([wire EXCEPT !.toServer = Tail(@)], frame)
      /\ UNCHANGED <<config, published, stomp, heard, areas>>
  BY DEF StompServes, NotStomp
<1>3. wire' = Served(w, frame)  BY <1>1, <1>2, FrameTaken
<1>4. CASE Asking
  <2>1. /\ wire.toClient = <<>> /\ ~ stomp.connected /\ DOMAIN wire.subs = {}
    BY <1>4 DEF Asking, Quiet
  <2>2. frame.command = "CONNECT" /\ rest = <<>>  BY <1>4 DEF Asking
  <2> DEFINE d == Data("CONNECTED", <<>>, <<>>)
             v == [w EXCEPT !.accepted = TRUE]
  <2>3. wire' = ToClient(v, <<<<d>>>>)  BY <1>3, <2>2 DEF Served
  <2>4. d.command = "CONNECTED"  BY DEF Data
  <2> HIDE DEF rest, d
  <2>5. /\ WireType(v) /\ v.state = "open" /\ v.toServer = rest
        /\ v.toClient = <<>> /\ v.subs = wire.subs /\ v.since = wire.since
    BY <1>1, <1>2, <2>1 DEF WireType
  <2> HIDE DEF v
  <2>6. wire' = [v EXCEPT !.toClient = <<<<d>>>>, !.sinceServer = 0]
    BY <2>3, <2>5 DEF ToClient, WireType
  <2>7. /\ wire'.state = "open" /\ wire'.toServer = <<>>
        /\ wire'.toClient = <<<<d>>>>
        /\ wire'.subs = wire.subs /\ wire'.since = wire.since
    BY <2>2, <2>5, <2>6 DEF WireType
  <2>8. UNCHANGED <<Subscriptions, Books, ToldSoFar>> /\ NoLessConnected
    BY <1>2, <2>7 DEF Subscriptions, Books, ToldSoFar, NoLessConnected
  <2>9. DOMAIN stomp.subscriptions = {}  BY <1>2, <2>1 DEF Notified, Names
  <2>10. \A i \in DOMAIN wire'.toClient : ~ IsMessage(wire'.toClient[i])
    BY <2>4, <2>7 DEF IsMessage
  <2>11. \A i \in DOMAIN wire'.toServer : ~ AboutSubscription(wire'.toServer[i])
    BY <2>7
  <2> QED BY <1>2, <2>1, <2>8, <2>9, <2>10, <2>11, NobodySubscribed
<1>5. CASE Serving
  <2>1. /\ IsSequence(wire.toServer) /\ frame = wire.toServer[1]
        /\ AboutSubscription(frame)
    BY <1>2, <1>5, HeadRead DEF Serving
  <2> HIDE DEF rest
  <2>2. WireType(w) /\ w.toServer = rest /\ w.subs = wire.subs
        /\ w.since = wire.since /\ w.state = "open" /\ w.toClient = wire.toClient
    BY <1>1, <1>2 DEF WireType
  <2> HIDE DEF w, frame
  <2>3. UNCHANGED <<Subscriptions, ToldSoFar, stomp.connected>>
    BY <1>2 DEF Subscriptions, ToldSoFar
  <2>4. CASE frame.command = "SUBSCRIBE"
    <3> DEFINE S == [i \in DOMAIN wire.subs \cup {id} |->
                       IF i = id THEN topic ELSE wire.subs[i]]
               since == [i \in DOMAIN wire.since \cup {id} |->
                           IF i = id THEN published[topic] ELSE wire.since[i]]
    <3> HIDE DEF id, topic
    <3>1. wire' = [w EXCEPT !.subs = S, !.since = since]
      BY <1>3, <2>2, <2>4 DEF Served, WireType, id, topic, IdOf, TopicOf
    <3> HIDE DEF S, since
    <3>2. /\ wire'.state = "open" /\ wire'.toServer = rest
          /\ wire'.toClient = wire.toClient /\ wire'.subs = S /\ wire'.since = since
      BY <2>2, <3>1 DEF WireType
    <3> QED BY <1>2, <2>1, <2>3, <2>4, <3>2, SubscriptionTaken
            DEF S, since, id, topic, rest
  <2>5. CASE frame.command = "UNSUBSCRIBE"
    <3> DEFINE S == [i \in DOMAIN wire.subs \ {id} |-> wire.subs[i]]
    <3> HIDE DEF id
    <3>1. wire' = [w EXCEPT !.subs = S]
      BY <1>3, <2>2, <2>5 DEF Served, WireType, id, IdOf
    <3> HIDE DEF S
    <3>2. /\ wire'.state = "open" /\ wire'.toServer = rest
          /\ wire'.toClient = wire.toClient /\ wire'.subs = S
          /\ wire'.since = wire.since
      BY <2>2, <3>1 DEF WireType
    <3> QED BY <1>2, <2>1, <2>3, <2>5, <3>2, SubscriptionEnded DEF S, id, rest
  <2> QED BY <2>1, <2>4, <2>5 DEF AboutSubscription
<1> QED BY <1>2, <1>4, <1>5 DEF IInv, Phases, Connecting, Refused, Accepted

(* or sends its heart-beat,                                                *)
LEMMA BeatsNotified == ASSUME IInv, Notified, ServerBeats PROVE Notified'
<1>1. /\ wire.state = "open" /\ wire.accepted /\ wire.toClient = <<>>
      /\ wire' = ToClient(wire, <<<<>>>>) /\ WireType(wire)
      /\ UNCHANGED <<config, published, stomp, heard, areas>>
  BY DEF ServerBeats, NotStomp, IInv, TypeOK
<1> DEFINE more == wire.toClient \o <<<<>>>>
<1>2. more = <<<<>>>>
  <2>1. <<>> \o <<<<>>>> = <<<<>>>>  OBVIOUS
  <2> QED BY <1>1, <2>1
<1>3. wire' = [wire EXCEPT !.toClient = more, !.sinceServer = 0]
  <2>1. <<<<>>>> # <<>>  OBVIOUS
  <2> QED BY <1>1, <2>1 DEF ToClient, WireType
<1> HIDE DEF more
<1>4. /\ wire'.state = "open" /\ wire'.toServer = wire.toServer
      /\ wire'.toClient = more /\ wire'.subs = wire.subs /\ wire'.since = wire.since
  BY <1>1, <1>3 DEF WireType
<1>5. UNCHANGED <<Subscriptions, Books, ToldSoFar, stomp.connected>>
  BY <1>1, <1>4 DEF Subscriptions, Books, ToldSoFar
<1>6. \A i \in DOMAIN wire'.toClient : ~ IsMessage(wire'.toClient[i])
  BY <1>2, <1>4 DEF IsMessage
<1>7. \A id : /\ BodiesIn(wire'.toClient, id) = {} /\ BodiesIn(wire.toClient, id) = {}
              /\ InOrder(wire'.toClient, id)
  <2>1. DOMAIN wire.toClient = {}  BY <1>1
  <2>2. \A id : \A i \in DOMAIN wire'.toClient : ~ MessageFor(wire'.toClient[i], id)
    BY <1>6 DEF MessageFor
  <2> QED BY <2>1, <2>2 DEF BodiesIn, InOrder
<1> QED BY <1>1, <1>4, <1>5, <1>6, <1>7, MessagesStay

(* The queues of an open socket                                            *)
LEMMA OneIsSequence == ASSUME NEW x PROVE IsSequence(<<x>>)
<1>1. <<x>> \in Seq({x})  OBVIOUS
<1> QED BY <1>1, Ranged

(* are sequences.                                                          *)
LEMMA QueuesType ==
    ASSUME IInv, wire.state = "open"
    PROVE  IsSequence(wire.toServer) /\ IsSequence(wire.toClient)
<1>1. IsSequence(<<>>)  BY DEF IsSequence
<1>2. CASE Asking
  BY <1>1, <1>2, OneIsSequence DEF Asking
<1>3. CASE Refused
  BY <1>1, <1>3, OneIsSequence DEF Refused
<1>4. CASE Accepted
  BY <1>1, <1>4, OneIsSequence DEF Accepted
<1>5. CASE Serving  BY <1>5 DEF Serving
<1> QED BY <1>2, <1>3, <1>4, <1>5 DEF IInv, Phases, Connecting

(* A finite set in some order: each of its elements, and each once.        *)
LEMMA EachInSequence ==
    ASSUME NEW S, IsFiniteSet(S)
    PROVE  /\ Cardinality(S) \in Nat /\ SetToSeq(S) \in [1 .. Cardinality(S) -> S]
           /\ \A i, j \in 1 .. Cardinality(S) :
                  SetToSeq(S)[i] = SetToSeq(S)[j] => i = j
           /\ \A x \in S : \E i \in 1 .. Cardinality(S) : SetToSeq(S)[i] = x
<1> DEFINE f == SetToSeq(S)
           n == Cardinality(S)
<1>1. n \in Nat /\ ExistsBijection(1 .. n, S)
  BY FS_CardinalityType
<1>2. \E g \in [1 .. n -> S] : IsInjective(g)
  BY <1>1 DEF ExistsBijection, Bijection, Injection
<1>3. f \in [1 .. n -> S] /\ IsInjective(f)
  BY <1>2 DEF SetToSeq
<1>4. Cardinality(1 .. n) = n  BY <1>1, FS_Interval
<1>5. f \in Injection(1 .. n, S)  BY <1>3 DEF Injection
<1> HIDE DEF f, n
<1>6. f \in Surjection(1 .. n, S)
  <2>1. Cardinality(1 .. n) = Cardinality(S)  BY <1>4 DEF n
  <2> QED BY <1>5, <2>1, FS_Injection
<1>7. \A i, j \in 1 .. n : f[i] = f[j] => i = j
  BY <1>3 DEF IsInjective
<1>8. \A x \in S : \E i \in 1 .. n : f[i] = x  BY <1>6 DEF Surjection
<1> QED BY <1>1, <1>3, <1>7, <1>8 DEF f, n

(* something is published,                                                 *)
LEMMA PublishNotified ==
    ASSUME IInv, Notified, NEW topic \in Topics, Publish(topic) PROVE Notified'
<1> DEFINE n == published[topic] + 1
           S == {id \in DOMAIN wire.subs : wire.subs[id] = topic}
           ids == SetToSeq(S)
           datas == [i \in DOMAIN ids |-> <<Data("MESSAGE", ids[i], n)>>]
<1>1. WireType(wire) /\ IsFiniteSet(DOMAIN wire.subs)
  BY DEF IInv, TypeOK
<1>2. /\ wire' = ToClient(wire, datas)
      /\ published' = [published EXCEPT ![topic] = n]
      /\ UNCHANGED <<config, stomp, heard, areas>>
  BY DEF Publish
<1>3. IsFiniteSet(S)  BY <1>1, FS_Subset
<1>4. /\ Cardinality(S) \in Nat /\ ids \in [1 .. Cardinality(S) -> S]
      /\ \A i, j \in 1 .. Cardinality(S) : ids[i] = ids[j] => i = j
      /\ \A x \in S : \E i \in 1 .. Cardinality(S) : ids[i] = x
  <2> HIDE DEF S
  <2> QED BY <1>3, EachInSequence
<1>5. \A id \in S : id \in DOMAIN wire.subs /\ wire.subs[id] = topic  OBVIOUS
<1>6. \A id \in DOMAIN wire.subs : wire.subs[id] = topic => id \in S  OBVIOUS
<1> HIDE DEF S, ids, n
<1>7. DOMAIN datas = 1 .. Cardinality(S)  BY <1>4
<1>8. \A i \in DOMAIN datas : datas[i] = <<Data("MESSAGE", ids[i], n)>>
  OBVIOUS
<1> HIDE DEF datas
<1>9. \A i \in DOMAIN datas : /\ datas[i] # <<>> /\ datas[i][1].command = "MESSAGE"
                              /\ datas[i][1].subscription = ids[i]
                              /\ datas[i][1].body = n /\ ids[i] \in S
  <2> TAKE i \in DOMAIN datas
  <2>1. datas[i] # <<>> /\ datas[i][1] = Data("MESSAGE", ids[i], n)  BY <1>8
  <2>2. ids[i] \in S  BY <1>4, <1>7
  <2> QED BY <2>1, <2>2 DEF Data
<1>10. IsSequence(datas)
  <2> DEFINE T == Range(datas)
  <2>1. \A i \in 1 .. Cardinality(S) : datas[i] \in T  BY <1>7 DEF Range
  <2>2. datas = [i \in 1 .. Cardinality(S) |-> datas[i]]  BY <1>4, <1>7 DEF datas
  <2> HIDE DEF T
  <2>3. datas \in [1 .. Cardinality(S) -> T]  BY <2>1, <2>2
  <2>4. datas \in Seq(T)  BY <1>4, <2>3
  <2> QED BY <2>4 DEF T, IsSequence
<1>11. /\ wire'.state = wire.state /\ wire'.toServer = wire.toServer
       /\ wire'.subs = wire.subs /\ wire'.since = wire.since
       /\ wire'.toClient = IF datas = <<>> THEN wire.toClient
                           ELSE wire.toClient \o datas
  <2> DEFINE more == wire.toClient \o datas
  <2>1. CASE datas = <<>>  BY <1>2, <2>1 DEF ToClient
  <2>2. CASE datas # <<>>
    <3>1. wire' = [wire EXCEPT !.toClient = more, !.sinceServer = 0]
      BY <1>1, <1>2, <2>2 DEF ToClient, WireType
    <3> HIDE DEF more
    <3>2. /\ wire'.state = wire.state /\ wire'.toServer = wire.toServer
          /\ wire'.subs = wire.subs /\ wire'.since = wire.since
          /\ wire'.toClient = more
      BY <1>1, <3>1 DEF WireType
    <3> QED BY <2>2, <3>2 DEF more
  <2> QED BY <2>1, <2>2
<1>12. wire.state = "open" => /\ IsSequence(wire.toClient)
                              /\ wire'.toClient = wire.toClient \o datas
  <2> SUFFICES ASSUME wire.state = "open"
               PROVE  /\ IsSequence(wire.toClient)
                      /\ wire'.toClient = wire.toClient \o datas
    OBVIOUS
  <2>1. IsSequence(wire.toClient)  BY QueuesType
  <2>2. wire.toClient \o <<>> = wire.toClient
    <3>1. wire.toClient \in Seq(Range(wire.toClient))  BY <2>1 DEF IsSequence
    <3> QED BY <3>1, NothingAdded
  <2> QED BY <1>11, <2>1, <2>2
<1>13. UNCHANGED <<config, Subscriptions, Books, ToldSoFar, stomp.connected>>
  BY <1>2, <1>11 DEF Subscriptions, Books, ToldSoFar
<1>14. \A i \in DOMAIN datas :
           /\ IsMessage(datas[i]) /\ datas[i][1].body = published[topic] + 1
           /\ datas[i][1].subscription \in DOMAIN wire.subs
           /\ wire.subs[datas[i][1].subscription] = topic
  BY <1>5, <1>9 DEF IsMessage, n
<1>15. \A i, j \in DOMAIN datas :
           datas[i][1].subscription = datas[j][1].subscription => i = j
  BY <1>4, <1>7, <1>9
<1>16. ASSUME NEW id \in DOMAIN wire.subs, wire.subs[id] = topic
       PROVE  \E i \in DOMAIN datas : MessageFor(datas[i], id)
  <2>1. PICK i \in DOMAIN datas : ids[i] = id  BY <1>4, <1>6, <1>7, <1>16
  <2> QED BY <1>9, <2>1 DEF MessageFor, IsMessage
<1>17. published' = [published EXCEPT ![topic] = published[topic] + 1]
  BY <1>2 DEF n
<1> QED BY <1>10, <1>11, <1>12, <1>13, <1>14, <1>15, <1>16, <1>17, NotificationSent

(* the application subscribes,                                             *)
LEMMA SubscribesNotified ==
    ASSUME IInv, Notified, OtherSubscribes PROVE Notified'
<1>1. /\ ClientType(stomp) /\ stomp.out = <<>> /\ HeardType(heard) /\ WireType(wire)
      /\ config \in Configurations /\ Names
  BY DEF IInv, TypeOK, Settled, Notified
<1>2. /\ ~ IsPage /\ stomp.connected /\ heard.subscriptions < config.subscriptions
      /\ heard' = [heard EXCEPT !.subscriptions = @ + 1]
      /\ UNCHANGED <<config, published, areas>>
  BY DEF OtherSubscribes, NotStomp
<1>3. PICK t \in Topics \ Range(stomp.subscriptions),
           headers \in {<<>>, <<<<"id", OwnId>>>>} :
          LET c == subscribe(stomp, t, headers)
          IN  stomp' = [c EXCEPT !.out = <<>>] /\ wire' = FoldLeft(Emit, wire, c.out)
  BY DEF OtherSubscribes
<1> DEFINE c == subscribe(stomp, t, headers)
           f == subscribeFrame(t, headers, stomp.counter)
           id == IdOf(f)
           n == IF Header(headers, "id") = <<>> THEN stomp.counter + 1
                                                ELSE stomp.counter
           s == [i \in DOMAIN stomp.subscriptions \cup {id} |->
                   IF i = id THEN t ELSE stomp.subscriptions[i]]
           d == [stomp EXCEPT !.counter = n, !.subscriptions = s,
                              !.out = Append(stomp.out, f)]
<1>4. /\ f.command = "SUBSCRIBE" /\ TopicOf(f) = t /\ id \notin Given
      /\ \/ id = SubId(stomp.counter) /\ n = stomp.counter + 1
         \/ id = OwnId /\ n = stomp.counter
  <2>1. /\ SubId(stomp.counter) \notin Given /\ OwnId \notin Given /\ OwnId # <<>>
    BY <1>1, <1>2, NewName
  <2>2. CASE headers = <<>>
    <3>1. /\ f.command = "SUBSCRIBE" /\ id = SubId(stomp.counter)
          /\ TopicOf(f) = t /\ Header(headers, "id") = <<>>
      BY <2>2, NamedByClient
    <3> QED BY <2>1, <3>1
  <2>3. CASE headers = <<<<"id", OwnId>>>>
    <3>1. /\ f.command = "SUBSCRIBE" /\ id = OwnId
          /\ TopicOf(f) = t /\ Header(headers, "id") = OwnId
      BY <2>1, <2>3, NamedByApplication
    <3> QED BY <2>1, <3>1
  <2> QED BY <2>2, <2>3
<1>5. c = d
  BY <1>1 DEF subscribe, transmit, ClientType, IdOf
<1>6. stomp' = [c EXCEPT !.out = <<>>] /\ wire' = FoldLeft(Emit, wire, c.out)
  BY <1>3
<1> HIDE DEF c, f, n, s, id
<1>7. /\ stomp'.subscriptions = s /\ stomp'.counter = n
      /\ stomp'.connected = stomp.connected
  BY <1>1, <1>5, <1>6 DEF ClientType
<1>8. wire' = Emit(wire, f)
  <2>1. Append(<<>>, f) = <<f>>  OBVIOUS
  <2>2. d.out = <<f>>  BY <1>1, <2>1 DEF ClientType
  <2> QED BY <1>5, <1>6, <2>2, EmitOne
<1>9. /\ wire'.state = wire.state /\ wire'.toClient = wire.toClient
      /\ wire.state = "open" => wire'.toServer = Append(wire.toServer, f)
      /\ wire'.subs = wire.subs /\ wire'.since = wire.since
  BY <1>1, <1>4, <1>8, Sent, BooksStay
<1>10. /\ heard'.subscriptions = heard.subscriptions + 1
       /\ heard'.bodies = heard.bodies
  BY <1>1, <1>2 DEF HeardType
<1>11. UNCHANGED <<config, published, Books, ToldSoFar, stomp.connected>>
  BY <1>2, <1>7, <1>9, <1>10 DEF Books, ToldSoFar
<1>12. config.subscriptions \in Nat  BY <1>1, PageAssumption
<1>13. wire.state = "open" => /\ IsSequence(wire.toServer)
                              /\ wire'.toServer = Append(wire.toServer, f)
                              /\ wire'.toClient = wire.toClient
  BY <1>9, QueuesType
<1>14. /\ IdOf(f) \notin Given /\ TopicOf(f) \in Topics \ Range(stomp.subscriptions)
       /\ \/ IdOf(f) = SubId(stomp.counter) /\ stomp'.counter = stomp.counter + 1
          \/ IdOf(f) = OwnId /\ stomp'.counter = stomp.counter
  BY <1>3, <1>4, <1>7 DEF id
<1>15. stomp'.subscriptions = [i \in DOMAIN stomp.subscriptions \cup {IdOf(f)} |->
                                 IF i = IdOf(f) THEN TopicOf(f)
                                 ELSE stomp.subscriptions[i]]
  BY <1>4, <1>7 DEF s, id
<1> QED BY <1>2, <1>4, <1>9, <1>10, <1>11, <1>12, <1>13, <1>14, <1>15,
           SubscriptionAsked

(* unsubscribes                                                            *)
LEMMA UnsubscribesNotified ==
    ASSUME IInv, Notified, AreasType(areas), OtherUnsubscribes PROVE Notified'
<1>1. /\ ClientType(stomp) /\ stomp.out = <<>> /\ stomp.calls = <<>>
      /\ HeardType(heard) /\ WireType(wire) /\ ToldInOrder
  BY DEF IInv, TypeOK, Settled, Notified
<1>2. /\ ~ IsPage /\ stomp.connected /\ UNCHANGED <<config, published>>
  BY DEF OtherUnsubscribes, NotStomp
<1>3. PICK id \in DOMAIN stomp.subscriptions : StompTurn(unsubscribe(stomp, id), wire)
  BY DEF OtherUnsubscribes
<1> DEFINE c == unsubscribe(stomp, id)
           f == unsubscribeFrame(id)
           s == [i \in DOMAIN stomp.subscriptions \ {id} |-> stomp.subscriptions[i]]
           d == [stomp EXCEPT !.subscriptions = s, !.out = Append(stomp.out, f)]
<1>4. ClientType(c)  BY <1>1, Unsubscribed
<1>5. c = d  BY <1>1 DEF unsubscribe, transmit, ClientType
<1>6. f.command = "UNSUBSCRIBE" /\ IdOf(f) = id  BY NamedToEnd
<1>7. StompTurn(c, wire)  BY <1>3
<1> HIDE DEF c, f, s
<1>8. /\ c.subscriptions = s /\ c.counter = stomp.counter /\ c.calls = <<>>
      /\ c.out = <<f>> /\ c.connected = stomp.connected
  <2>1. Append(<<>>, f) = <<f>>  OBVIOUS
  <2>2. /\ d.subscriptions = s /\ d.counter = stomp.counter /\ d.calls = <<>>
        /\ d.out = <<f>> /\ d.connected = stomp.connected
    BY <1>1, <2>1 DEF ClientType
  <2> QED BY <1>5, <2>2
<1>9. OnConnected(c) = c  BY <1>8 DEF OnConnected
<1>10. /\ stomp'.subscriptions = s /\ stomp'.counter = stomp.counter
       /\ stomp'.connected = stomp.connected
       /\ wire' = Emit(wire, f)
       /\ heard'.subscriptions = heard.subscriptions /\ UNCHANGED ToldSoFar
  BY <1>1, <1>4, <1>7, <1>8, <1>9, TurnUntold, EmitOne DEF Untold
<1>11. /\ wire'.state = wire.state /\ wire'.toClient = wire.toClient
       /\ wire.state = "open" => wire'.toServer = Append(wire.toServer, f)
       /\ wire'.subs = wire.subs /\ wire'.since = wire.since
  BY <1>1, <1>6, <1>10, Sent, BooksStay
<1>12. UNCHANGED Books  BY <1>11 DEF Books
<1>13. wire.state = "open" => /\ IsSequence(wire.toServer)
                              /\ wire'.toServer = Append(wire.toServer, f)
                              /\ wire'.toClient = wire.toClient
  BY <1>11, QueuesType
<1>14. stomp'.subscriptions = [i \in DOMAIN stomp.subscriptions \ {id} |->
                                 stomp.subscriptions[i]]
  BY <1>10 DEF s
<1> QED BY <1>2, <1>6, <1>10, <1>11, <1>12, <1>13, <1>14, SubscriptionDropped

(* or disconnects.                                                         *)
LEMMA DisconnectsNotified ==
    ASSUME IInv, Notified, OtherDisconnects PROVE Notified'
<1>1. /\ ClientType(stomp) /\ WireType(wire) /\ HeardType(heard) /\ stomp.out = <<>>
  BY DEF IInv, TypeOK, Settled
<1>2. /\ UNCHANGED <<config, published, areas>>
      /\ heard' = [heard EXCEPT !.left = wire.state # "closed"]
  BY DEF OtherDisconnects, NotStomp
<1> DEFINE c == disconnect(stomp)
           f == Frame("DISCONNECT", <<>>, <<>>)
<1>3. stomp' = [c EXCEPT !.out = <<>>] /\ wire' = FoldLeft(Emit, wire, c.out)
  BY DEF OtherDisconnects
<1>4. ClientType(c) /\ c.out = <<f, Close>> /\ SameNames(c, stomp)
  BY <1>1, Disconnected, NamesKept
<1>5. f.command \notin {"close", "beat"}  BY DEF Frame
<1> HIDE DEF c, f
<1> DEFINE v == Emit(wire, f)
<1>6. wire' = Emit(v, Close)
  <2> DEFINE u == FoldLeft(Emit, wire, <<f>>)
  <2>1. wire' = FoldLeft(Emit, wire, <<f, Close>>)  BY <1>3, <1>4
  <2>2. wire' = FoldLeft(Emit, u, <<Close>>)  BY <2>1, EmitTwo
  <2>3. u = v  BY EmitOne
  <2> HIDE DEF u, v
  <2>4. wire' = Emit(u, Close)  BY <2>2, EmitOne
  <2> QED BY <2>3, <2>4
<1>7. WireType(v) /\ v.subs = wire.subs /\ v.since = wire.since
  BY <1>1, BooksStay
<1> HIDE DEF v
<1>8. /\ wire'.state \in {"closing", "closed"}
      /\ wire'.subs = wire.subs /\ wire'.since = wire.since
  BY <1>6, <1>7, Closed, BooksStay DEF WireType
<1>9. stomp'.subscriptions = stomp.subscriptions /\ stomp'.counter = stomp.counter
  BY <1>3, <1>4 DEF ClientType, SameNames
<1>10. heard'.subscriptions = heard.subscriptions /\ heard'.bodies = heard.bodies
  BY <1>1, <1>2 DEF HeardType
<1>11. UNCHANGED <<Subscriptions, Books, ToldSoFar>> /\ NoLessConnected
  BY <1>2, <1>8, <1>9, <1>10 DEF Subscriptions, Books, ToldSoFar, NoLessConnected
<1> QED BY <1>2, <1>8, <1>11, QueuesStay

(* What is not about STOMP leaves it alone.                                *)
LEMMA ElsewhereNotified ==
    ASSUME Notified, UNCHANGED <<config, stomp, wire, published, heard,
                                 areas.stompNotification>>
    PROVE  Notified'
<1>1. UNCHANGED <<Subscriptions, Books, ToldSoFar>> /\ NoLessConnected
  BY DEF Subscriptions, Books, ToldSoFar, NoLessConnected
<1> QED BY <1>1, QueuesStay

(* At first nobody has subscribed and nothing was published.               *)
LEMMA InitNotified == ASSUME Init PROVE Notified
<1>1. /\ wire.state = "connecting" /\ published = [t \in Topics |-> 0]
      /\ heard.subscriptions = 0 /\ heard.bodies = [t \in Topics |-> <<>>]
      /\ DOMAIN wire.subs = {} /\ DOMAIN wire.since = {}
      /\ areas.stompNotification = <<>> /\ stomp = Client
      /\ config \in Configurations
  BY DEF Init
<1>2. stomp.counter = 0 /\ DOMAIN stomp.subscriptions = {} /\ ~ stomp.connected
  BY <1>1 DEF Client
<1>3. Given = {}
  <2>1. 0 .. stomp.counter - 1 = {} /\ 0 .. heard.subscriptions - 1 = {}
    BY <1>1, <1>2
  <2> QED BY <2>1 DEF Given
<1>4. config.subscriptions \in Nat  BY <1>1, PageAssumption
<1>5. Names  BY <1>1, <1>2, <1>3, <1>4 DEF Names
<1>6. Tables  BY <1>1, <1>2 DEF Tables
<1>7. ToldInOrder  BY <1>1 DEF ToldInOrder
<1>8. Shown  BY <1>1 DEF Shown
<1> QED BY <1>1, <1>5, <1>6, <1>7, <1>8 DEF Notified

-----------------------------------------------------------------------------
(* The text areas.  Over its web socket the page gets the answers to its   *)
(* requests in order; over MQTT it is told, from the moment the broker     *)
(* took its subscription on, of what was published since, in order.        *)
CountsFrom(queue, n) ==
    queue \in Seq(Nat) /\ \A i \in DOMAIN queue : queue[i] = n + i

SockType == sock \in [state : {"connecting", "open", "closed"}, asked : Nat,
                      toServer : {sock.toServer}, toPage : {sock.toPage}]

SockRight ==
    /\ SockType
    /\ areas.responseText \in Seq(Nat) /\ Run(areas.responseText, 0)
    /\ CountsFrom(sock.toPage, Len(areas.responseText))
    /\ CountsFrom(sock.toServer, Len(areas.responseText) + Len(sock.toPage))
    /\ sock.state # "closed" =>
           sock.asked = Len(areas.responseText) + Len(sock.toPage) + Len(sock.toServer)
    /\ sock.state # "open" => sock.toServer = <<>> /\ sock.toPage = <<>>
    /\ areas.debug["WS closed"] = IF sock.state = "closed" THEN 1 ELSE 0
    /\ ~ IsPage => sock.state = "connecting"

Pingers == [isReset : BOOLEAN, armed : BOOLEAN]

(* The MQTT client of the page, whose callbacks are those of MqttPush      *)
MqttType(c) ==
    c \in [reaction : {Reaction}, connected : BOOLEAN,
           socket : {"none", "connecting", "open", "closed"}, attempt : {c.attempt},
           clean : {TRUE}, hosts : {0}, hostIndex : {0}, queue : {c.queue},
           draining : BOOLEAN, notify : {FALSE}, wireMessage : {c.wireMessage},
           sent : {c.sent}, received : {c.received},
           messageIdentifier : {c.messageIdentifier}, sequence : {c.sequence},
           requests : {c.requests}, connectTimer : BOOLEAN,
           requestTimers : {c.requestTimers}, sendPinger : Pingers,
           receivePinger : Pingers, stored : {c.stored}, out : {c.out},
           calls : {c.calls}, threw : BOOLEAN]

(* A client between two turns has done what it had to do.                  *)
Idle(c) == MqttType(c) /\ c.queue = <<>> /\ ~ c.draining /\ ~ c.threw

Between(c) == Idle(c) /\ c.out = <<>> /\ c.calls = <<>>

LinkType(l) ==
    l \in [state : {"connecting", "open", "closed"}, toBroker : {l.toBroker},
           toClient : {l.toClient}, subscribed : BOOLEAN, since : {l.since}]

(* What the log says of the connection                                     *)
LogSays(connected, ended) ==
    /\ areas.debug["MQTT connected"] = connected
    /\ areas.debug["MQTT lost"] \in Nat /\ areas.debug["MQTT failure"] \in Nat
    /\ areas.debug["MQTT lost"] + areas.debug["MQTT failure"] = ended
    /\ areas.debug["MQTT lost"] <= connected

(* Its notifications, in the form of those of STOMP                        *)
Notice(packet) ==
    IF packet.type = "PUBLISH"
    THEN <<[command |-> "MESSAGE", subscription |-> "mqtt", body |-> packet.body]>>
    ELSE <<>>

Notices(packets) == [i \in DOMAIN packets |-> Notice(packets[i])]

(* What is in a queue                                                      *)
Types(queue, types) ==
    IsSequence(queue) /\ \A i \in DOMAIN queue : queue[i].type \in types

FirstThen(queue, first, rest) ==
    /\ IsSequence(queue) /\ queue # <<>> /\ queue[1].type = first
    /\ \A i \in DOMAIN queue : i # 1 => queue[i].type = rest

Single(queue, type) ==
    \A i, j \in DOMAIN queue : queue[i].type = type /\ queue[j].type = type => i = j

LinkUnjoined ==
    /\ ~ link.subscribed /\ areas.mqttNotification = <<>>
    /\ \A i \in DOMAIN link.toClient : link.toClient[i].type # "PUBLISH"

(* What was published since the last one shown is under way.               *)
LinkJoined ==
    LET last == link.since + Len(areas.mqttNotification)
    IN  /\ link.subscribed /\ link.since \in Nat /\ last <= published[PageTopic]
        /\ InOrder(Notices(link.toClient), "mqtt")
        /\ BodiesIn(Notices(link.toClient), "mqtt") = last + 1 .. published[PageTopic]

MqttConnecting ==
    /\ mqtt.socket = "connecting" /\ ~ mqtt.connected /\ link.state = "connecting"
    /\ link.toBroker = <<>> /\ link.toClient = <<>>
    /\ ~ mqtt.sendPinger.armed /\ ~ mqtt.receivePinger.armed
    /\ LinkUnjoined /\ LogSays(0, 0)

MqttAsking ==
    /\ mqtt.socket = "open" /\ ~ mqtt.connected /\ link.state = "open"
    /\ IF link.toClient = <<>>
       THEN FirstThen(link.toBroker, "CONNECT", "PINGREQ")
       ELSE /\ Types(link.toBroker, {"PINGREQ"})
            /\ FirstThen(link.toClient, "CONNACK", "PINGRESP")
    /\ LinkUnjoined /\ LogSays(0, 0)

MqttServing ==
    /\ mqtt.socket = "open" /\ mqtt.connected /\ ~ mqtt.connectTimer
    /\ link.state = "open"
    /\ Types(link.toBroker, {"SUBSCRIBE", "PINGREQ"})
    /\ Single(link.toBroker, "SUBSCRIBE")
    /\ Types(link.toClient, {"SUBACK", "PINGRESP", "PUBLISH"})
    /\ \A i \in DOMAIN link.toClient :
           link.toClient[i].type = "PUBLISH" => link.toClient[i].body \in Notifications
    /\ \/ LinkUnjoined
       \/ Types(link.toBroker, {"PINGREQ"}) /\ LinkJoined
    /\ LogSays(1, 0)

MqttGone ==
    /\ mqtt.socket = "none" /\ link.state # "open"
    /\ link.toBroker = <<>> /\ link.toClient = <<>> /\ ~ link.subscribed
    /\ ~ mqtt.connectTimer /\ ~ mqtt.sendPinger.armed /\ ~ mqtt.receivePinger.armed
    /\ \E connected \in {0, 1} : LogSays(connected, 1)

MqttRight ==
    /\ Between(mqtt) /\ LinkType(link)
    /\ areas.mqttNotification \in Seq(Nat) /\ Run(areas.mqttNotification, link.since)
    /\ MqttConnecting \/ (IsPage /\ (MqttAsking \/ MqttServing \/ MqttGone))

PageRight == AreasType(areas) /\ SockRight /\ MqttRight

(* What a step leaves alone stays right.                                   *)
LEMMA SockElsewhere ==
    ASSUME SockRight, UNCHANGED <<config, sock, areas.responseText>>,
           areas'.debug["WS closed"] = areas.debug["WS closed"]
    PROVE  SockRight'
BY DEF SockRight, SockType, IsPage

(* The same for MQTT, as long as nothing is published for the page         *)
LEMMA MqttElsewhere ==
    ASSUME MqttRight, UNCHANGED <<config, mqtt, link, areas.mqttNotification>>,
           ~ link.subscribed \/ published'[PageTopic] = published[PageTopic],
           \A line \in {"MQTT connected", "MQTT lost", "MQTT failure"} :
               areas'.debug[line] = areas.debug[line]
    PROVE  MqttRight'
<1>1. UNCHANGED <<mqtt, link, areas.mqttNotification>> /\ IsPage' = IsPage
  BY DEF IsPage
<1>2. \A m, n : LogSays(m, n) => LogSays(m, n)'  BY DEF LogSays
<1>3. LinkUnjoined => LinkUnjoined'  BY <1>1 DEF LinkUnjoined
<1>4. Between(mqtt)' /\ LinkType(link)'
  <2>1. Between(mqtt)'  BY <1>1 DEF MqttRight
  <2>2. LinkType(link)'  BY <1>1 DEF MqttRight
  <2> QED BY <2>1, <2>2
<1>5. areas'.mqttNotification \in Seq(Nat) /\ Run(areas.mqttNotification, link.since)'
  BY <1>1 DEF MqttRight
<1>6. MqttConnecting => MqttConnecting'
  BY <1>1, <1>2, <1>3 DEF MqttConnecting
<1>7. MqttAsking => MqttAsking'
  BY <1>1, <1>2, <1>3 DEF MqttAsking
<1>8. LinkJoined => LinkJoined'
  BY <1>1 DEF LinkJoined
<1>9. MqttServing => MqttServing'
  BY <1>1, <1>2, <1>3, <1>8 DEF MqttServing
<1>10. MqttGone => MqttGone'
  BY <1>1, <1>2 DEF MqttGone
<1> QED BY <1>1, <1>4, <1>5, <1>6, <1>7, <1>9, <1>10 DEF MqttRight

(* The STOMP client touches nothing of the other two connections.          *)
LEMMA StompLeavesPage ==
    ASSUME PageRight, UNCHANGED NotStomp, AreasType(areas'), UNCHANGED Elsewhere,
           OtherLines("STOMP connected")
    PROVE  PageRight'
<1>1. \A line \in {"WS closed", "MQTT connected", "MQTT lost", "MQTT failure"} :
          areas'.debug[line] = areas.debug[line]
  BY DEF OtherLines, DebugLines
<1>2. UNCHANGED <<config, sock, mqtt, link, published, areas.responseText,
                  areas.mqttNotification>>
  BY DEF NotStomp, Elsewhere
<1>3. SockRight /\ MqttRight  BY DEF PageRight
<1>4. SockRight'  BY <1>1, <1>2, <1>3, SockElsewhere
<1>5. MqttRight'  BY <1>1, <1>2, <1>3, MqttElsewhere
<1> QED BY <1>4, <1>5 DEF PageRight, AreasType

(* A turn of the STOMP client touches nothing else on the page.            *)
LEMMA TurnAreas ==
    ASSUME NEW after, NEW w, AreasType(areas), StompTurn(after, w)
    PROVE  AreasType(areas') /\ UNCHANGED Elsewhere /\ OtherLines("STOMP connected")
<1> DEFINE c == OnConnected(after)
           n == FoldLeft(appendTextArea, areas.stompNotification, BodiesFor(c, PageTopic))
           k == areas.debug["STOMP connected"] + Count(c, "connected")
           d == [areas.debug EXCEPT !["STOMP connected"] = k]
<1>1. areas' = IF ~ IsPage THEN areas
               ELSE [areas EXCEPT !.stompNotification = n, !.debug = d]
  BY DEF StompTurn, AreasType
<1>2. /\ DOMAIN d = DebugLines
      /\ \A other \in DebugLines \ {"STOMP connected"} : d[other] = areas.debug[other]
  BY DEF AreasType
<1> HIDE DEF c, n, d
<1>3. CASE IsPage
  <2>1. areas' = [areas EXCEPT !.stompNotification = n, !.debug = d]
    BY <1>1, <1>3
  <2>2. /\ areas'.stompNotification = n /\ areas'.debug = d
        /\ areas'.responseText = areas.responseText
        /\ areas'.mqttNotification = areas.mqttNotification
    BY <2>1 DEF AreasType
  <2>3. AreasType(areas')  BY <1>2, <2>1, <2>2 DEF AreasType
  <2> QED BY <1>2, <2>2, <2>3 DEF Elsewhere, OtherLines
<1>4. CASE ~ IsPage
  BY <1>1, <1>4 DEF Elsewhere, OtherLines
<1> QED BY <1>3, <1>4

(* That goes for every step of its own, of its server and its user.        *)
LEMMA StompSidePage ==
    ASSUME PageRight, StompSide \/ OtherUser PROVE PageRight'
<1>1. AreasType(areas)  BY DEF PageRight
<1>2. ASSUME NEW after, NEW w, StompTurn(after, w), UNCHANGED NotStomp PROVE PageRight'
  BY <1>1, <1>2, TurnAreas, StompLeavesPage
<1>3. ASSUME UNCHANGED NotStomp, UNCHANGED areas PROVE PageRight'
  BY <1>1, <1>3, StompLeavesPage DEF AreasType, Elsewhere, OtherLines
<1>4. CASE StompOpens  BY <1>2, <1>4 DEF StompOpens
<1>5. CASE StompReceives  BY <1>2, <1>5 DEF StompReceives
<1>6. CASE StompBreaks  BY <1>3, <1>6 DEF StompBreaks
<1>7. CASE StompCloses  BY <1>2, <1>7 DEF StompCloses
<1>8. CASE StompTimer  BY <1>2, <1>8 DEF StompTimer
<1>9. CASE StompServes  BY <1>3, <1>9 DEF StompServes
<1>10. CASE StompRefuses  BY <1>3, <1>10 DEF StompRefuses
<1>11. CASE ServerBeats  BY <1>3, <1>11 DEF ServerBeats
<1>12. CASE Tick  BY <1>3, <1>12 DEF Tick
<1>13. CASE OtherSubscribes  BY <1>3, <1>13 DEF OtherSubscribes
<1>14. CASE OtherUnsubscribes  BY <1>2, <1>14 DEF OtherUnsubscribes
<1>15. CASE OtherDisconnects  BY <1>3, <1>15 DEF OtherDisconnects
<1> QED BY <1>4, <1>5, <1>6, <1>7, <1>8, <1>9, <1>10, <1>11, <1>12, <1>13, <1>14,
           <1>15 DEF StompSide, OtherUser

-----------------------------------------------------------------------------
(* The web socket: a queue that counts on, at its end and at its head      *)
LEMMA CountedOn ==
    ASSUME NEW q, NEW n \in Nat, CountsFrom(q, n), NEW k, k = n + Len(q) + 1
    PROVE  LET r == Append(q, k)
           IN  CountsFrom(r, n) /\ Len(r) = Len(q) + 1 /\ Len(q) \in Nat
<1> DEFINE r == Append(q, k)
<1>1. q \in Seq(Nat) /\ \A i \in DOMAIN q : q[i] = n + i  BY DEF CountsFrom
<1>2. Len(q) \in Nat /\ k \in Nat /\ DOMAIN q = 1 .. Len(q)  BY <1>1
<1>3. r \in Seq(Nat) /\ Len(r) = Len(q) + 1 /\ r[Len(q) + 1] = k  BY <1>1, <1>2
<1>4. \A i \in 1 .. Len(q) : r[i] = q[i]  BY <1>1, <1>2
<1>5. DOMAIN r = 1 .. Len(q) + 1  BY <1>3
<1> HIDE DEF r
<1>6. ASSUME NEW i \in DOMAIN r PROVE r[i] = n + i
  <2>1. CASE i = Len(q) + 1  BY <1>2, <1>3, <2>1
  <2>2. CASE i # Len(q) + 1
    <3>1. i \in 1 .. Len(q)  BY <1>2, <1>5, <2>2
    <3> QED BY <1>1, <1>2, <1>4, <3>1
  <2> QED BY <2>1, <2>2
<1> QED BY <1>2, <1>3, <1>6 DEF CountsFrom, r

(* The head is read.                                                       *)
LEMMA CountedOff ==
    ASSUME NEW q, NEW n \in Nat, CountsFrom(q, n), q # <<>>
    PROVE  LET r == Tail(q)
           IN  /\ CountsFrom(r, n + 1) /\ Len(q) = Len(r) + 1 /\ Len(r) \in Nat
               /\ Head(q) = n + 1
<1> DEFINE r == Tail(q)
<1>1. q \in Seq(Nat) /\ \A i \in DOMAIN q : q[i] = n + i  BY DEF CountsFrom
<1>2. /\ r \in Seq(Nat) /\ Len(r) = Len(q) - 1 /\ Len(q) \in Nat /\ Len(q) >= 1
      /\ Head(q) = q[1] /\ DOMAIN r = 1 .. Len(q) - 1 /\ DOMAIN q = 1 .. Len(q)
      /\ \A i \in 1 .. Len(q) - 1 : r[i] = q[i + 1]
  BY <1>1
<1> HIDE DEF r
<1>3. ASSUME NEW i \in DOMAIN r PROVE r[i] = n + 1 + i
  <2>1. i \in Nat /\ i + 1 \in DOMAIN q /\ r[i] = q[i + 1]  BY <1>2
  <2> QED BY <1>1, <2>1
<1>4. Head(q) = n + 1
  <2>1. 1 \in DOMAIN q  BY <1>2
  <2>2. q[1] = n + 1  BY <1>1, <2>1
  <2> QED BY <1>2, <2>2
<1> QED BY <1>2, <1>3, <1>4 DEF CountsFrom, r

(* The answer on top continues those below it.                             *)
LEMMA RunGrows ==
    ASSUME NEW lines \in Seq(Nat), NEW since \in Nat, Run(lines, since),
           NEW n \in Nat, n = since + Len(lines) + 1
    PROVE  LET more == appendTextArea(lines, n)
           IN  more \in Seq(Nat) /\ Len(more) = Len(lines) + 1 /\ Run(more, since)
<1> DEFINE more == <<n>> \o lines
<1>1. more \in Seq(Nat) /\ Len(more) = Len(lines) + 1 /\ more[1] = n
  OBVIOUS
<1>2. \A i \in 2 .. Len(lines) + 1 : i - 1 \in DOMAIN lines /\ more[i] = lines[i - 1]
  OBVIOUS
<1> HIDE DEF more
<1>3. ASSUME NEW i \in DOMAIN more PROVE more[i] = since + Len(more) + 1 - i
  <2>1. i \in 1 .. Len(lines) + 1 /\ Len(lines) \in Nat  BY <1>1
  <2>2. CASE i = 1  BY <1>1, <2>1, <2>2
  <2>3. CASE i # 1
    <3>1. i - 1 \in DOMAIN lines /\ more[i] = lines[i - 1]  BY <1>2, <2>1, <2>3
    <3>2. lines[i - 1] = since + Len(lines) + 1 - (i - 1)  BY <3>1 DEF Run
    <3> QED BY <1>1, <2>1, <3>1, <3>2
  <2> QED BY <2>2, <2>3
<1>4. Run(more, since)  BY <1>3 DEF Run
<1> QED BY <1>1, <1>4 DEF appendTextArea, more

(* The page asks, in the order of its numbers;                             *)
LEMMA SubmitPage == ASSUME PageRight, Submit PROVE PageRight'
<1> DEFINE q == Append(sock.toServer, sock.asked + 1)
           shown == Len(areas.responseText)
           coming == Len(sock.toPage)
<1>1. /\ SockRight /\ MqttRight /\ AreasType(areas) /\ sock.state = "open" /\ IsPage
      /\ sock' = [sock EXCEPT !.asked = sock.asked + 1, !.toServer = q]
      /\ UNCHANGED <<config, mqtt, link, areas, published>>
  BY DEF PageRight, Submit
<1>2. /\ CountsFrom(sock.toServer, shown + coming) /\ SockType
      /\ sock.asked = shown + coming + Len(sock.toServer)
      /\ areas.responseText \in Seq(Nat) /\ CountsFrom(sock.toPage, shown)
  BY <1>1 DEF SockRight
<1>3. shown \in Nat /\ coming \in Nat  BY <1>2 DEF CountsFrom
<1> HIDE DEF shown, coming
<1>4. /\ CountsFrom(q, shown + coming) /\ Len(q) = Len(sock.toServer) + 1
      /\ Len(sock.toServer) \in Nat
  <2>1. shown + coming \in Nat  BY <1>3
  <2>2. sock.asked + 1 = shown + coming + Len(sock.toServer) + 1  BY <1>2
  <2> QED BY <1>2, <2>1, <2>2, CountedOn
<1> HIDE DEF q
<1>5. /\ SockType' /\ sock'.toServer = q /\ sock'.asked = sock.asked + 1
      /\ sock'.toPage = sock.toPage /\ sock'.state = "open"
  <2> DEFINE n == sock.asked + 1
  <2>1. SockType /\ n \in Nat  BY <1>2 DEF SockType
  <2> HIDE DEF n
  <2>2. sock' = [sock EXCEPT !.asked = n, !.toServer = q] /\ sock.state = "open"
    BY <1>1 DEF n
  <2>3. SockType' /\ sock'.toServer = q /\ sock'.asked = n
        /\ sock'.toPage = sock.toPage /\ sock'.state = "open"
    BY <2>1, <2>2 DEF SockType
  <2> QED BY <2>3 DEF n
<1>6. sock'.asked = shown + coming + Len(q)
  <2> DEFINE waiting == Len(sock.toServer)
  <2>1. waiting \in Nat /\ Len(q) = waiting + 1  BY <1>4
  <2>2. sock'.asked = shown + coming + waiting + 1  BY <1>2, <1>5
  <2> HIDE DEF waiting
  <2>3. shown + coming + waiting + 1 = shown + coming + (waiting + 1)
    BY <1>3, <2>1
  <2> QED BY <2>1, <2>2, <2>3
<1>7. SockRight'
  BY <1>1, <1>4, <1>5, <1>6 DEF SockRight, shown, coming, IsPage
<1>8. MqttRight'  BY <1>1, MqttElsewhere
<1> QED BY <1>1, <1>7, <1>8 DEF PageRight, AreasType

(* its web socket opens;                                                   *)
LEMMA SockOpensPage == ASSUME PageRight, SockOpens PROVE PageRight'
<1>1. /\ SockRight /\ MqttRight /\ AreasType(areas) /\ sock.state = "connecting" /\ IsPage
      /\ sock' = [sock EXCEPT !.state = "open"]
      /\ UNCHANGED <<config, mqtt, link, areas, published>>
  BY DEF PageRight, SockOpens
<1>2. /\ SockType' /\ sock'.toServer = sock.toServer /\ sock'.asked = sock.asked
      /\ sock'.toPage = sock.toPage /\ sock'.state = "open"
  BY <1>1 DEF SockRight, SockType
<1>3. SockRight'  BY <1>1, <1>2 DEF SockRight, IsPage
<1>4. MqttRight'  BY <1>1, MqttElsewhere
<1> QED BY <1>1, <1>3, <1>4 DEF PageRight, AreasType

(* an answer comes on top of those before;                                 *)
LEMMA SockReceivesPage == ASSUME PageRight, SockReceives PROVE PageRight'
<1> DEFINE text == appendTextArea(areas.responseText, Head(sock.toPage))
           rest == Tail(sock.toPage)
           shown == Len(areas.responseText)
<1>1. /\ SockRight /\ MqttRight /\ AreasType(areas) /\ sock.state = "open"
      /\ sock.toPage # <<>>
      /\ sock' = [sock EXCEPT !.toPage = rest]
      /\ areas' = [areas EXCEPT !.responseText = text]
      /\ UNCHANGED <<config, mqtt, link, published>>
  BY DEF PageRight, SockReceives
<1>2. /\ CountsFrom(sock.toServer, shown + Len(sock.toPage)) /\ SockType
      /\ CountsFrom(sock.toPage, shown) /\ areas.debug["WS closed"] = 0
      /\ sock.asked = shown + Len(sock.toPage) + Len(sock.toServer)
      /\ areas.responseText \in Seq(Nat) /\ Run(areas.responseText, 0)
      /\ IsPage \/ sock.state = "connecting"
  BY <1>1 DEF SockRight
<1>3. shown \in Nat /\ Len(sock.toServer) \in Nat
  <2>1. sock.toServer \in Seq(Nat) /\ areas.responseText \in Seq(Nat)
    BY <1>2 DEF CountsFrom
  <2> QED BY <2>1
<1>4. /\ CountsFrom(rest, shown + 1) /\ Len(sock.toPage) = Len(rest) + 1
      /\ Len(rest) \in Nat /\ Head(sock.toPage) = shown + 1
  <2> HIDE DEF shown
  <2> QED BY <1>1, <1>2, <1>3, CountedOff
<1>5. text \in Seq(Nat) /\ Len(text) = shown + 1 /\ Run(text, 0)
  <2> DEFINE n == Head(sock.toPage)
  <2>1. n = 0 + Len(areas.responseText) + 1 /\ n \in Nat /\ 0 \in Nat
    BY <1>3, <1>4
  <2> HIDE DEF n
  <2>2. LET more == appendTextArea(areas.responseText, n)
        IN  /\ more \in Seq(Nat) /\ Len(more) = Len(areas.responseText) + 1
            /\ Run(more, 0)
    BY <1>2, <2>1, RunGrows
  <2> QED BY <2>2 DEF n
<1> HIDE DEF text, rest, shown
<1>6. /\ SockType' /\ sock'.toServer = sock.toServer /\ sock'.asked = sock.asked
      /\ sock'.toPage = rest /\ sock'.state = "open"
  BY <1>1, <1>2 DEF SockType
<1>7. /\ areas'.responseText = text /\ areas'.debug = areas.debug
      /\ areas'.mqttNotification = areas.mqttNotification /\ AreasType(areas')
  BY <1>1 DEF AreasType
<1>8. SockRight'
  <2>1. shown + Len(sock.toPage) = Len(text) + Len(rest)  BY <1>3, <1>4, <1>5
  <2>2. CountsFrom(sock.toServer, Len(text) + Len(rest))  BY <1>2, <2>1
  <2>3. sock.asked = Len(text) + Len(rest) + Len(sock.toServer)  BY <1>2, <2>1
  <2>4. CountsFrom(rest, Len(text)) /\ IsPage'  BY <1>1, <1>2, <1>4, <1>5 DEF IsPage
  <2> QED BY <1>2, <1>5, <1>6, <1>7, <2>2, <2>3, <2>4 DEF SockRight
<1>9. MqttRight'  BY <1>1, <1>7, MqttElsewhere
<1> QED BY <1>7, <1>8, <1>9 DEF PageRight

(* A line of the log                                                       *)
LEMMA Logged ==
    ASSUME NEW a, AreasType(a), NEW line \in DebugLines
    PROVE  LET l == Log(a, line)
           IN  /\ AreasType(l) /\ l.responseText = a.responseText
               /\ l.stompNotification = a.stompNotification
               /\ l.mqttNotification = a.mqttNotification
               /\ l.debug[line] = a.debug[line] + 1
               /\ \A other \in DebugLines : other # line => l.debug[other] = a.debug[other]
<1> DEFINE d == [a.debug EXCEPT ![line] = a.debug[line] + 1]
<1>1. /\ DOMAIN d = DebugLines /\ d[line] = a.debug[line] + 1
      /\ \A other \in DebugLines : other # line => d[other] = a.debug[other]
  BY DEF AreasType
<1>2. Log(a, line) = [a EXCEPT !.debug = d]  BY DEF Log, AreasType
<1> HIDE DEF d
<1> QED BY <1>1, <1>2 DEF AreasType

(* the socket closes, of which the log gets one line.                      *)
LEMMA SockFailsPage == ASSUME PageRight, SockFails PROVE PageRight'
<1> DEFINE a == IF sock.state = "open" THEN areas ELSE Log(areas, "WS error")
<1>1. /\ SockRight /\ MqttRight /\ AreasType(areas) /\ sock.state \in {"connecting", "open"}
      /\ sock' = [sock EXCEPT !.state = "closed", !.toServer = <<>>, !.toPage = <<>>]
      /\ areas' = Log(a, "WS closed") /\ IsPage
      /\ UNCHANGED <<config, mqtt, link, published>>
  BY DEF PageRight, SockFails
<1>2. "WS error" \in DebugLines /\ "WS closed" \in DebugLines  BY DEF DebugLines
<1>3. /\ AreasType(a) /\ a.responseText = areas.responseText
      /\ a.mqttNotification = areas.mqttNotification
      /\ \A line \in DebugLines : line # "WS error" => a.debug[line] = areas.debug[line]
  BY <1>1, <1>2, Logged
<1> HIDE DEF a
<1>4. /\ AreasType(areas') /\ areas'.responseText = areas.responseText
      /\ areas'.mqttNotification = areas.mqttNotification
      /\ areas'.debug["WS closed"] = a.debug["WS closed"] + 1
      /\ \A line \in DebugLines : line # "WS closed" => areas'.debug[line] = a.debug[line]
  BY <1>1, <1>2, <1>3, Logged
<1>5. /\ SockType' /\ sock'.toServer = <<>> /\ sock'.toPage = <<>>
      /\ sock'.state = "closed"
  BY <1>1 DEF SockRight, SockType
<1>6. areas'.debug["WS closed"] = 1
  <2>1. areas.debug["WS closed"] = 0  BY <1>1 DEF SockRight
  <2>2. a.debug["WS closed"] = 0  BY <1>2, <1>3, <2>1
  <2>3. \A n : n = 0 => n + 1 = 1  OBVIOUS
  <2> QED BY <1>4, <2>2, <2>3
<1>7. \A n : CountsFrom(<<>>, n)  BY DEF CountsFrom
<1>8. SockRight'  BY <1>1, <1>4, <1>5, <1>6, <1>7 DEF SockRight, IsPage
<1>9. MqttRight'
  <2>1. \A line \in {"MQTT connected", "MQTT lost", "MQTT failure"} :
            areas'.debug[line] = areas.debug[line]
    BY <1>3, <1>4 DEF DebugLines
  <2> QED BY <1>1, <1>4, <2>1, MqttElsewhere
<1> QED BY <1>4, <1>8, <1>9 DEF PageRight

(* The server answers a request with its number.                           *)
LEMMA AnsweredSock ==
    ASSUME SockRight, sock.toServer # <<>>, UNCHANGED <<config, areas>>,
           sock' = [sock EXCEPT !.toServer = Tail(@),
                                !.toPage = Append(@, Head(sock.toServer))]
    PROVE  SockRight'
<1> DEFINE rest == Tail(sock.toServer)
           more == Append(sock.toPage, Head(sock.toServer))
           shown == Len(areas.responseText)
           coming == Len(sock.toPage)
<1>1. /\ CountsFrom(sock.toServer, shown + coming) /\ CountsFrom(sock.toPage, shown)
      /\ SockType /\ sock.state = "open" /\ areas.responseText \in Seq(Nat)
      /\ sock.asked = shown + coming + Len(sock.toServer)
  BY DEF SockRight
<1>2. shown \in Nat /\ coming \in Nat  BY <1>1 DEF CountsFrom
<1> HIDE DEF shown
<1>3. /\ CountsFrom(rest, shown + coming + 1) /\ Len(sock.toServer) = Len(rest) + 1
      /\ Len(rest) \in Nat /\ Head(sock.toServer) = shown + coming + 1
  <2> HIDE DEF coming
  <2>1. shown + coming \in Nat  BY <1>2
  <2> QED BY <1>1, <2>1, CountedOff
<1>4. CountsFrom(more, shown) /\ Len(more) = coming + 1
  BY <1>1, <1>2, <1>3, CountedOn
<1> HIDE DEF rest, more, coming
<1>5. /\ SockType' /\ sock'.toServer = rest /\ sock'.asked = sock.asked
      /\ sock'.toPage = more /\ sock'.state = "open"
  BY <1>1 DEF SockType, rest, more
<1>6. shown + coming + 1 = shown + Len(more)  BY <1>2, <1>4
<1>7. sock.asked = shown + Len(more) + Len(rest)  BY <1>1, <1>2, <1>3, <1>4
<1>8. CountsFrom(rest, shown + Len(more))  BY <1>3, <1>6
<1>9. areas' = areas /\ IsPage' = IsPage  BY DEF IsPage
<1> QED BY <1>1, <1>4, <1>5, <1>7, <1>8, <1>9 DEF SockRight, shown

-----------------------------------------------------------------------------
(* The MQTT client of the page: what its handlers do, each to a client     *)
(* between two turns                                                       *)

(* A client whose connection is over has cancelled its timers, closed its  *)
(* socket if it was open, and called back once.                            *)
Left(c, d) ==
    /\ Idle(d) /\ d.socket = "none" /\ ~ d.connectTimer
    /\ ~ d.sendPinger.armed /\ ~ d.receivePinger.armed
    /\ d.out = IF c.socket = "open" THEN <<Mqtt!Ack("close", 0)>> ELSE <<>>
    /\ d.calls = <<<<IF c.connected THEN "onConnectionLost" ELSE "onFailure",
                     c.attempt>>>>

(* disconnected leaves the client so, whatever it was doing.               *)
LEMMA MqttLeaves ==
    ASSUME NEW c, Between(c) PROVE Left(c, Mqtt!disconnected(c))
<1> DEFINE s == Mqtt!cancel(c.sendPinger)
           r == Mqtt!cancel(c.receivePinger)
           out == IF c.socket = "open" THEN <<Mqtt!Ack("close", 0)>> ELSE <<>>
           left == [c EXCEPT !.sendPinger = s, !.receivePinger = r,
                             !.connectTimer = FALSE,
                             !.queue = <<>>, !.draining = FALSE, !.notify = FALSE,
                             !.socket = "none", !.out = out]
           callback == IF c.connected THEN "onConnectionLost" ELSE "onFailure"
           calls == <<<<callback, c.attempt>>>>
           d == [left EXCEPT !.connected = FALSE, !.calls = calls]
<1>1. /\ s \in Pingers /\ ~ s.armed /\ r \in Pingers /\ ~ r.armed
      /\ c.hosts = 0 /\ c.out = <<>> /\ c.calls = <<>> /\ c.reaction = Reaction
  BY DEF Between, Idle, MqttType, Pingers, Mqtt!cancel
<1>2. Append(<<>>, Mqtt!Ack("close", 0)) = <<Mqtt!Ack("close", 0)>>  OBVIOUS
<1>3. Mqtt!disconnected(c) =
          IF c.connected
          THEN Mqtt!Notify([left EXCEPT !.connected = FALSE], "onConnectionLost")
          ELSE Mqtt!Notify(left, "onFailure")
  BY <1>1, <1>2 DEF Mqtt!disconnected
<1> HIDE DEF s, r, out
<1>4. /\ MqttType(left) /\ left.calls = <<>> /\ left.attempt = c.attempt
      /\ left.reaction = Reaction /\ left.connected = c.connected
      /\ left.socket = "none" /\ ~ left.connectTimer /\ left.sendPinger = s
      /\ left.receivePinger = r /\ left.out = out /\ left.queue = <<>>
      /\ ~ left.draining /\ ~ left.threw
  <2>1. MqttType(c) /\ c.calls = <<>> /\ ~ c.threw  BY DEF Between, Idle
  <2>2. MqttType(left)
    <3> DEFINE mid == [c EXCEPT !.sendPinger = s, !.receivePinger = r,
                                !.connectTimer = FALSE, !.socket = "none"]
    <3>1. MqttType(mid)
      <4> DEFINE c1 == [c EXCEPT !.sendPinger = s]
                 c2 == [c1 EXCEPT !.receivePinger = r]
      <4>1. s \in Pingers /\ r \in Pingers  BY <1>1
      <4>2. MqttType(c1)  BY <2>1, <4>1 DEF MqttType
      <4> HIDE DEF c1
      <4>3. MqttType(c2)  BY <4>1, <4>2 DEF MqttType
      <4>4. mid = [c2 EXCEPT !.connectTimer = FALSE, !.socket = "none"]
        BY <2>1 DEF MqttType, c1
      <4> HIDE DEF c2, mid
      <4> QED BY <4>3, <4>4 DEF MqttType
    <3>2. left = [mid EXCEPT !.queue = <<>>, !.draining = FALSE, !.notify = FALSE,
                             !.out = out]
      BY <2>1 DEF MqttType
    <3> HIDE DEF mid, left
    <3> QED BY <3>1, <3>2 DEF MqttType
  <2>3. /\ left.calls = c.calls /\ left.attempt = c.attempt
        /\ left.reaction = c.reaction /\ left.connected = c.connected
        /\ left.socket = "none" /\ left.connectTimer = FALSE /\ left.sendPinger = s
        /\ left.receivePinger = r /\ left.out = out /\ left.queue = <<>>
        /\ left.draining = FALSE /\ left.threw = c.threw
    BY <1>1, <2>1 DEF MqttType
  <2> QED BY <1>1, <2>1, <2>2, <2>3
<1> HIDE DEF left
<1>5. ASSUME NEW e, MqttType(e), e.reaction = Reaction, e.calls = <<>>,
             NEW name \in {"onConnectionLost", "onFailure"}
      PROVE  Mqtt!Notify(e, name) = [e EXCEPT !.calls = <<<<name, e.attempt>>>>]
  <2>1. Append(<<>>, <<name, e.attempt>>) = <<<<name, e.attempt>>>>  OBVIOUS
  <2>2. Reaction[name] = "return"  BY <1>5 DEF Reaction
  <2> QED BY <1>5, <2>1, <2>2 DEF Mqtt!Notify, Mqtt!Call
<1>6. Mqtt!disconnected(c) = d
  <2>1. CASE c.connected
    <3> DEFINE e == [left EXCEPT !.connected = FALSE]
    <3>1. /\ MqttType(e) /\ e.reaction = Reaction /\ e.calls = <<>>
          /\ e.attempt = c.attempt
      BY <1>4 DEF MqttType
    <3>2. Mqtt!disconnected(c) = Mqtt!Notify(e, "onConnectionLost")
      BY <1>3, <2>1 DEF left
    <3>3. callback = "onConnectionLost"  BY <2>1
    <3> HIDE DEF e
    <3>4. Mqtt!disconnected(c) = [e EXCEPT !.calls = calls]
      BY <1>5, <3>1, <3>2, <3>3
    <3> QED BY <3>4 DEF e
  <2>2. CASE ~ c.connected
    <3>1. Mqtt!disconnected(c) = Mqtt!Notify(left, "onFailure")
      BY <1>3, <2>2 DEF left
    <3>2. callback = "onFailure"  BY <2>2
    <3>3. Mqtt!disconnected(c) = [left EXCEPT !.calls = calls]
      BY <1>4, <1>5, <3>1, <3>2
    <3>4. left.connected = FALSE  BY <1>4, <2>2 DEF MqttType
    <3>5. [left EXCEPT !.calls = calls] = d
      <4> HIDE DEF calls
      <4> QED BY <1>4, <3>4 DEF MqttType
    <3> QED BY <3>3, <3>5
  <2> QED BY <2>1, <2>2
<1> HIDE DEF calls
<1>7. /\ MqttType(d) /\ d.socket = "none" /\ ~ d.connectTimer
      /\ d.sendPinger = s /\ d.receivePinger = r /\ d.out = out /\ d.calls = calls
      /\ d.queue = <<>> /\ ~ d.draining /\ ~ d.threw
  BY <1>4 DEF MqttType
<1> HIDE DEF d
<1> QED BY <1>1, <1>6, <1>7 DEF Left, Idle, out, calls

(* A packet that the client sends                                          *)
Said(c, d, type) ==
    /\ Idle(d) /\ d.calls = c.calls
    /\ \E m : m.type = type /\ d.out = <<m>>

(* The socket opens, and CONNECT is the first packet over it.              *)
LEMMA MqttAnnounces ==
    ASSUME NEW c, Between(c), c.socket = "connecting"
    PROVE  LET d == Mqtt!on_socket_open(c)
           IN  /\ Said(c, d, "CONNECT") /\ d.socket = "open"
               /\ d.connected = c.connected
<1> DEFINE m == Mqtt!WireMessage("CONNECT", 0, TRUE)
           n == [m EXCEPT !.id = m.id % 65536]
           e == [c EXCEPT !.socket = "open"]
           p == Mqtt!reset(c.sendPinger)
           d == [e EXCEPT !.out = <<n>>, !.sendPinger = p]
<1>1. c.clean = TRUE /\ c.out = <<>>  BY DEF Between, Idle, MqttType
<1>2. p \in Pingers  BY DEF Mqtt!reset, Pingers
<1>3. m.type = "CONNECT" /\ n.type = "CONNECT"  BY DEF Mqtt!WireMessage
<1>4. Mqtt!Encodable(m)  BY <1>3 DEF Mqtt!Encodable
<1>5. Mqtt!on_socket_open(c) = Mqtt!socket_send(e, m)
  BY <1>1 DEF Mqtt!on_socket_open
<1> HIDE DEF m
<1>6. /\ MqttType(e) /\ e.socket = "open" /\ e.out = <<>> /\ e.sendPinger = c.sendPinger
      /\ e.connected = c.connected
  BY <1>1 DEF Between, Idle, MqttType
<1>7. Append(<<>>, n) = <<n>>  OBVIOUS
<1>8. Mqtt!socket_send(e, m) = d
  <2> HIDE DEF e
  <2> QED BY <1>4, <1>6, <1>7 DEF Mqtt!socket_send
<1> HIDE DEF n, p
<1>9. /\ MqttType(d) /\ d.calls = c.calls /\ d.out = <<n>> /\ d.socket = "open"
      /\ d.connected = c.connected /\ Idle(d)
  BY <1>2 DEF Between, Idle, MqttType
<1> HIDE DEF d
<1> QED BY <1>3, <1>5, <1>8, <1>9 DEF Said

(* A ping, or the end when the last one was not answered                   *)
LEMMA MqttPings ==
    ASSUME NEW c, Between(c), NEW which \in {"sendPinger", "receivePinger"}
    PROVE  LET d == Mqtt!doPing(c, which)
           IN  \/ /\ Said(c, d, "PINGREQ") /\ d.socket = c.socket
                  /\ d.connected = c.connected /\ d.connectTimer = c.connectTimer
               \/ Left(c, d)
<1>1. CASE c[which].isReset
  <2> DEFINE m == Mqtt!Ack("PINGREQ", 0)
             p == [isReset |-> FALSE, armed |-> TRUE]
             d == [c EXCEPT ![which] = p, !.out = <<m>>]
  <2>1. m.type = "PINGREQ"  BY DEF Mqtt!Ack, Mqtt!WireMessage
  <2>2. Append(c.out, m) = <<m>>  BY DEF Between, Idle
  <2>3. Mqtt!doPing(c, which) = d  BY <1>1, <2>2 DEF Mqtt!doPing
  <2>4. p \in Pingers  BY DEF Pingers
  <2> HIDE DEF m, p
  <2>5. /\ MqttType(d) /\ d.calls = c.calls /\ d.out = <<m>> /\ d.socket = c.socket
        /\ d.connected = c.connected /\ d.connectTimer = c.connectTimer
        /\ Idle(d)
    <3>1. CASE which = "sendPinger"  BY <2>4, <3>1 DEF Between, Idle, MqttType
    <3>2. CASE which = "receivePinger"  BY <2>4, <3>2 DEF Between, Idle, MqttType
    <3> QED BY <3>1, <3>2
  <2> HIDE DEF d
  <2> QED BY <2>1, <2>3, <2>5 DEF Said
<1>2. CASE ~ c[which].isReset
  <2> DEFINE p == Mqtt!cancel(c[which])
             e == [c EXCEPT ![which] = p]
  <2>1. Mqtt!doPing(c, which) = Mqtt!disconnected(e)  BY <1>2 DEF Mqtt!doPing
  <2>2. p \in Pingers  BY DEF Between, Idle, MqttType, Pingers, Mqtt!cancel
  <2> HIDE DEF p
  <2>3. /\ Between(e) /\ e.socket = c.socket /\ e.connected = c.connected
        /\ e.attempt = c.attempt
    <3>1. CASE which = "sendPinger"  BY <2>2, <3>1 DEF Between, Idle, MqttType
    <3>2. CASE which = "receivePinger"  BY <2>2, <3>2 DEF Between, Idle, MqttType
    <3> QED BY <3>1, <3>2
  <2> HIDE DEF e
  <2>4. Left(e, Mqtt!disconnected(e))  BY <2>3, MqttLeaves
  <2> QED BY <2>1, <2>3, <2>4 DEF Left
<1> QED BY <1>1, <1>2

(* The socket is gone, or the CONNECT call has had its time.               *)
LEMMA MqttFails ==
    ASSUME NEW c, Between(c)
    PROVE  /\ \E d : /\ Left(d, Mqtt!on_socket_error(c)) /\ d.connected = c.connected
                     /\ d.socket = "closed"
           /\ Mqtt!on_socket_close(c) = Mqtt!on_socket_error(c)
           /\ Left(c, Mqtt!ConnectTimeout(c))
<1> DEFINE d == [c EXCEPT !.socket = "closed"]
           e == [c EXCEPT !.connectTimer = FALSE]
<1>1. Between(d) /\ d.connected = c.connected /\ d.socket = "closed"
  BY DEF Between, Idle, MqttType
<1>2. /\ Between(e) /\ e.connected = c.connected /\ e.socket = c.socket
      /\ e.attempt = c.attempt
  BY DEF Between, Idle, MqttType
<1>3. Left(d, Mqtt!disconnected(d)) /\ Left(e, Mqtt!disconnected(e))
  <2> HIDE DEF d, e
  <2> QED BY <1>1, <1>2, MqttLeaves
<1>4. Left(c, Mqtt!disconnected(e))
  <2> HIDE DEF e
  <2> QED BY <1>2, <1>3 DEF Left
<1>5. /\ Mqtt!on_socket_error(c) = Mqtt!disconnected(d)
      /\ Mqtt!on_socket_close(c) = Mqtt!disconnected(d)
      /\ Mqtt!ConnectTimeout(c) = Mqtt!disconnected(e)
  BY DEF Mqtt!on_socket_error, Mqtt!on_socket_close, Mqtt!ConnectTimeout
<1> HIDE DEF d, e
<1> QED BY <1>1, <1>3, <1>4, <1>5

(* With nothing in the queue nothing is sent.                              *)
LEMMA MqttIdle ==
    ASSUME NEW c, Idle(c) PROVE Mqtt!process_queue(c) = c
<1> DEFINE d == [c EXCEPT !.queue = <<>>, !.draining = TRUE]
<1>1. DOMAIN <<>> = {} /\ c.queue = <<>>  BY DEF Idle
<1>2. Mqtt!FoldLeft(Mqtt!SendNext, d, <<>>) = d
  BY <1>1 DEF Mqtt!FoldLeft, Mqtt!MapThenFoldSet
<1>3. Mqtt!process_queue(c) = [d EXCEPT !.draining = FALSE]
  BY <1>1, <1>2 DEF Mqtt!process_queue
<1>4. [d EXCEPT !.draining = FALSE] = c  BY DEF MqttType, Idle
<1> QED BY <1>3, <1>4

(* A connected client sends what it schedules at once.                     *)
OnWire(m) == [m EXCEPT !.id = m.id % 65536]

(* A SUBSCRIBE of an open connection is sent at once.                      *)
LEMMA MqttSchedules ==
    ASSUME NEW c, Idle(c), c.out = <<>>, c.connected, c.socket = "open",
           NEW m, m.type = "SUBSCRIBE", OnWire(m).type = "SUBSCRIBE"
    PROVE  LET d == Mqtt!schedule_message(c, m)
           IN  /\ Said(c, d, "SUBSCRIBE") /\ d.socket = "open"
               /\ d.connected /\ d.connectTimer = c.connectTimer
<1> DEFINE n == OnWire(m)
           p == Mqtt!reset(c.sendPinger)
           q == [c EXCEPT !.queue = <<m>>]
           e == [c EXCEPT !.queue = <<>>, !.draining = TRUE]
           f == [e EXCEPT !.out = <<n>>, !.sendPinger = p]
           d == [f EXCEPT !.draining = FALSE]
<1> HIDE DEF n, p, q, e, f, d
<1>1. /\ MqttType(c) /\ c.queue = <<>> /\ ~ c.draining /\ ~ c.threw /\ ~ c.notify
  <2>1. MqttType(c) /\ c.queue = <<>> /\ ~ c.draining /\ ~ c.threw  BY DEF Idle
  <2>2. ~ c.notify  BY <2>1 DEF MqttType
  <2> QED BY <2>1, <2>2
<1>2. Append(<<>>, m) = <<m>> /\ Append(<<>>, n) = <<n>>  OBVIOUS
<1>3. p \in Pingers /\ n.type = "SUBSCRIBE"  BY DEF Mqtt!reset, Pingers, n, p
<1>4. Mqtt!schedule_message(c, m) = Mqtt!process_queue(q)
  BY <1>1, <1>2 DEF Mqtt!schedule_message, q
<1>5. /\ MqttType(e) /\ ~ e.threw /\ ~ e.notify /\ e.out = <<>> /\ e.socket = "open"
      /\ e.sendPinger = c.sendPinger /\ e.connected
      /\ e.calls = c.calls /\ e.queue = <<>> /\ e.connectTimer = c.connectTimer
  <2>1. MqttType(e)  BY <1>1 DEF MqttType, e
  <2>2. ~ e.threw  BY <1>1 DEF MqttType, e
  <2>3. ~ e.notify  BY <1>1 DEF MqttType, e
  <2>4. /\ e.out = <<>> /\ e.socket = "open" /\ e.sendPinger = c.sendPinger
        /\ e.connected = c.connected /\ e.calls = c.calls /\ e.queue = <<>>
        /\ e.connectTimer = c.connectTimer
    BY <1>1 DEF MqttType, e
  <2> QED BY <2>1, <2>2, <2>3, <2>4
<1>6. q.queue = <<m>> /\ [q EXCEPT !.queue = <<>>, !.draining = TRUE] = e
  <2>1. q.queue = <<m>>  BY <1>1 DEF MqttType, q
  <2>2. [q EXCEPT !.queue = <<>>, !.draining = TRUE] = e
    BY <1>1 DEF MqttType, q, e
  <2> QED BY <2>1, <2>2
<1>7. Mqtt!process_queue(q) = [Mqtt!SendNext(e, m) EXCEPT !.draining = FALSE]
  <2>1. Mqtt!process_queue(q) =
            [Mqtt!FoldLeft(Mqtt!SendNext, [q EXCEPT !.queue = <<>>, !.draining = TRUE],
                           q.queue) EXCEPT !.draining = FALSE]
    BY DEF Mqtt!process_queue
  <2>2. Mqtt!process_queue(q) =
            [Mqtt!FoldLeft(Mqtt!SendNext, e, <<m>>) EXCEPT !.draining = FALSE]
    BY <1>6, <2>1
  <2>3. Mqtt!FoldLeft(Mqtt!SendNext, e, <<m>>) = Mqtt!SendNext(e, m)
    BY DrainedOne
  <2> QED BY <2>2, <2>3
<1>8. Mqtt!socket_send(e, m) = f
  BY <1>2, <1>5 DEF Mqtt!socket_send, Mqtt!Encodable, OnWire, n, p, f
<1>9. MqttType(f) /\ ~ f.threw /\ ~ f.notify
  <2>1. MqttType(f)  BY <1>3, <1>5 DEF MqttType, f
  <2>2. ~ f.threw  BY <1>5 DEF MqttType, f
  <2>3. ~ f.notify  BY <1>5 DEF MqttType, f
  <2> QED BY <2>1, <2>2, <2>3
<1>10. Mqtt!SendNext(e, m) = f
  <2> QED BY <1>5, <1>8, <1>9 DEF Mqtt!SendNext
<1>11. Mqtt!schedule_message(c, m) = d  BY <1>4, <1>7, <1>10 DEF d
<1>12. /\ f.out = <<n>> /\ f.calls = c.calls /\ f.queue = <<>> /\ f.socket = "open"
       /\ f.connected /\ f.connectTimer = c.connectTimer
  BY <1>5 DEF MqttType, f
<1>13. /\ Idle(d) /\ d.out = <<n>> /\ d.calls = c.calls /\ d.socket = "open"
       /\ d.connected /\ d.connectTimer = c.connectTimer
  <2>1. MqttType(d)  BY <1>9 DEF MqttType, d
  <2>2. ~ d.threw  BY <1>9 DEF MqttType, d
  <2>3. ~ d.draining  BY <1>9 DEF MqttType, d
  <2>4. /\ d.out = f.out /\ d.calls = f.calls /\ d.queue = f.queue
        /\ d.socket = f.socket /\ d.connected = f.connected
        /\ d.connectTimer = f.connectTimer
    BY <1>9 DEF MqttType, d
  <2> QED BY <1>12, <2>1, <2>2, <2>3, <2>4 DEF Idle
<1> QED BY <1>3, <1>11, <1>13 DEF Said

(* The subscription that the page asks for when it is connected            *)
LEMMA MqttSubscribes ==
    ASSUME NEW c, Idle(c), c.out = <<>>, c.connected, c.socket = "open",
           DOMAIN c.sent = {}
    PROVE  LET d == Mqtt!Request(c, "SUBSCRIBE")
           IN  /\ Said(c, d, "SUBSCRIBE") /\ d.socket = "open"
               /\ d.connected /\ d.connectTimer = c.connectTimer
<1> DEFINE n == c.requests + 1
           timed == [c EXCEPT !.requests = n]
           id == Mqtt!UnusedIdentifier(timed)
           m == Mqtt!WireMessage("SUBSCRIBE", id, n)
           sent == Mqtt!Put(c.sent, id, m)
           kept == [timed EXCEPT !.messageIdentifier = id, !.sent = sent]
           done == [kept EXCEPT !.wireMessage = m]
<1>1. /\ MqttType(c) /\ ~ c.threw /\ c.calls = c.calls
  BY DEF Idle
<1>2. m.type = "SUBSCRIBE" /\ OnWire(m).type = "SUBSCRIBE"
  BY DEF Mqtt!WireMessage, OnWire
<1>3. sent[id] = m  BY DEF Mqtt!Put
<1>4. ~ (Mqtt!Cardinality({}) > 65536)
  <2>1. Mqtt!Cardinality({}) = Cardinality({})  BY DEF Mqtt!Cardinality, Cardinality
  <2>2. Cardinality({}) = 0  BY FS_EmptySet
  <2> QED BY <2>1, <2>2
<1> HIDE DEF n
<1>5. /\ Idle(timed) /\ timed.sent = c.sent /\ timed.out = <<>> /\ timed.connected
      /\ timed.socket = "open" /\ timed.calls = c.calls
      /\ timed.connectTimer = c.connectTimer
  BY DEF Idle, MqttType
<1>6. Mqtt!Request(c, "SUBSCRIBE") =
          LET k == Mqtt!requires_ack(timed, "SUBSCRIBE", n)
          IN  IF k.threw THEN k ELSE Mqtt!schedule_message(k, k.wireMessage)
  <2>1. timed = [c EXCEPT !.requests = n, !.requestTimers = c.requestTimers]
    BY <1>1 DEF MqttType
  <2> QED BY <2>1 DEF Mqtt!Request, n
<1> HIDE DEF timed, id, m, sent
<1>7. /\ Idle(kept) /\ kept.sent = sent /\ kept.out = <<>> /\ kept.connected
      /\ kept.socket = "open" /\ kept.calls = c.calls
      /\ kept.connectTimer = c.connectTimer
  BY <1>5 DEF Idle, MqttType
<1>8. Mqtt!requires_ack(timed, "SUBSCRIBE", n) = done
  <2>1. ~ (Mqtt!Cardinality(DOMAIN timed.sent) > 65536)
    <3>1. DOMAIN timed.sent = {}  BY <1>5
    <3> QED BY <1>4, <3>1
  <2>2. Mqtt!requires_ack(timed, "SUBSCRIBE", n) =
            [kept EXCEPT !.wireMessage = kept.sent[id]]
    BY <1>5, <2>1 DEF Mqtt!requires_ack, id, m, sent
  <2> HIDE DEF kept
  <2> QED BY <1>3, <1>7, <2>2
<1> HIDE DEF kept
<1>9. /\ Idle(done) /\ done.wireMessage = m /\ done.out = <<>> /\ done.connected
      /\ done.socket = "open" /\ done.calls = c.calls
      /\ done.connectTimer = c.connectTimer
  BY <1>7 DEF Idle, MqttType
<1> HIDE DEF done
<1>10. Mqtt!Request(c, "SUBSCRIBE") = Mqtt!schedule_message(done, m)
  BY <1>6, <1>8, <1>9 DEF Idle
<1>11. LET d == Mqtt!schedule_message(done, m)
       IN  /\ Said(done, d, "SUBSCRIBE") /\ d.socket = "open"
           /\ d.connected /\ d.connectTimer = done.connectTimer
  BY <1>2, <1>9, MqttSchedules
<1> QED BY <1>9, <1>10, <1>11 DEF Said

(* What the client makes of a packet                                       *)
Heard(c) == [c EXCEPT !.receivePinger = Mqtt!reset(c.receivePinger)]

(* That postpones a ping and changes nothing else.                         *)
LEMMA MqttHears ==
    ASSUME NEW c, Between(c)
    PROVE  LET h == Heard(c)
           IN  /\ Between(h) /\ h.socket = c.socket /\ h.connected = c.connected
               /\ h.connectTimer = c.connectTimer /\ h.attempt = c.attempt
<1> DEFINE p == Mqtt!reset(c.receivePinger)
           h == [c EXCEPT !.receivePinger = p]
<1>1. p \in Pingers  BY DEF Mqtt!reset, Pingers
<1>2. MqttType(c)  BY DEF Between, Idle
<1> HIDE DEF p
<1>3. MqttType(h)  BY <1>1, <1>2 DEF MqttType
<1>4. /\ h.queue = c.queue /\ h.draining = c.draining /\ h.threw = c.threw
      /\ h.out = c.out /\ h.calls = c.calls
  BY <1>2 DEF MqttType
<1>5. /\ h.socket = c.socket /\ h.connected = c.connected
      /\ h.connectTimer = c.connectTimer /\ h.attempt = c.attempt
  BY <1>2 DEF MqttType
<1>6. Heard(c) = h  BY DEF Heard, p
<1> HIDE DEF h
<1> QED BY <1>3, <1>4, <1>5, <1>6 DEF Between, Idle

(* The CONNACK of a broker that accepts: the page asks for the topic.      *)
LEMMA MqttAccepted ==
    ASSUME NEW c, Between(c), c.socket = "open"
    PROVE  LET d == Mqtt!ConnAck(c, 0)
           IN  /\ Idle(d) /\ d.socket = "open" /\ d.connected /\ ~ d.connectTimer
               /\ d.calls = <<<<"onSuccess", c.attempt>>>>
               /\ \E m : m.type = "SUBSCRIBE" /\ d.out = <<m>>
<1> DEFINE timed == [c EXCEPT !.connectTimer = FALSE]
           ready == Mqtt!ClearState(timed)
           up == [ready EXCEPT !.connected = TRUE, !.hostIndex = ready.hostIndex]
           calls == <<<<"onSuccess", c.attempt>>>>
           told == [up EXCEPT !.calls = calls]
           d == Mqtt!Request(told, "SUBSCRIBE")
<1> HIDE DEF timed, ready, up, calls, told, d
<1>1. /\ MqttType(c) /\ c.queue = <<>> /\ ~ c.draining /\ ~ c.threw
      /\ c.out = <<>> /\ c.calls = <<>>
  BY DEF Between, Idle
<1>2. c.clean /\ c.hosts = 0 /\ c.reaction = Reaction  BY <1>1 DEF MqttType
<1>3. /\ MqttType(timed) /\ timed.queue = c.queue /\ timed.draining = c.draining
      /\ timed.threw = c.threw /\ timed.out = c.out /\ timed.calls = c.calls
      /\ timed.socket = c.socket /\ ~ timed.connectTimer /\ timed.attempt = c.attempt
      /\ timed.reaction = c.reaction
  <2>1. MqttType(timed)  BY <1>1 DEF MqttType, timed
  <2>2. ~ timed.connectTimer  BY <1>1 DEF MqttType, timed
  <2>3. /\ timed.queue = c.queue /\ timed.draining = c.draining
        /\ timed.threw = c.threw /\ timed.out = c.out /\ timed.calls = c.calls
        /\ timed.socket = c.socket /\ timed.attempt = c.attempt
        /\ timed.reaction = c.reaction
    BY <1>1 DEF MqttType, timed
  <2> QED BY <2>1, <2>2, <2>3
<1>4. /\ MqttType(ready) /\ ready.queue = timed.queue /\ ready.draining = timed.draining
      /\ ready.threw = timed.threw /\ ready.out = timed.out /\ ready.calls = timed.calls
      /\ ready.socket = timed.socket /\ ready.connectTimer = timed.connectTimer
      /\ ready.attempt = timed.attempt /\ ready.reaction = timed.reaction
      /\ ready.sent = Mqtt!EmptyMap
  <2> DEFINE stored == [sent |-> [id \in DOMAIN timed.stored.sent \ DOMAIN timed.sent
                                     |-> timed.stored.sent[id]],
                        received |-> [id \in DOMAIN timed.stored.received
                                                \ DOMAIN timed.received
                                         |-> timed.stored.received[id]]]
  <2>1. ready = [timed EXCEPT !.sent = Mqtt!EmptyMap, !.received = Mqtt!EmptyMap,
                              !.stored = stored]
    BY DEF ready, Mqtt!ClearState
  <2> HIDE DEF stored
  <2>2. MqttType(ready)  BY <1>3, <2>1 DEF MqttType
  <2>3. /\ ready.queue = timed.queue /\ ready.draining = timed.draining
        /\ ready.threw = timed.threw /\ ready.out = timed.out
        /\ ready.calls = timed.calls /\ ready.socket = timed.socket
        /\ ready.connectTimer = timed.connectTimer
        /\ ready.attempt = timed.attempt /\ ready.reaction = timed.reaction
        /\ ready.sent = Mqtt!EmptyMap
    BY <1>3, <2>1 DEF MqttType
  <2> QED BY <2>2, <2>3
<1>5. /\ MqttType(up) /\ up.queue = ready.queue /\ up.draining = ready.draining
      /\ up.threw = ready.threw /\ up.out = ready.out /\ up.calls = ready.calls
      /\ up.socket = ready.socket /\ up.connectTimer = ready.connectTimer
      /\ up.attempt = ready.attempt /\ up.reaction = ready.reaction
      /\ up.sent = ready.sent /\ up.connected
  <2>1. MqttType(up)  BY <1>4 DEF MqttType, up
  <2>2. /\ up.queue = ready.queue /\ up.draining = ready.draining
        /\ up.threw = ready.threw /\ up.out = ready.out /\ up.calls = ready.calls
        /\ up.socket = ready.socket /\ up.connectTimer = ready.connectTimer
        /\ up.attempt = ready.attempt /\ up.reaction = ready.reaction
        /\ up.sent = ready.sent
    BY <1>4 DEF MqttType, up
  <2>3. up.connected  BY <1>4 DEF MqttType, up
  <2> QED BY <2>1, <2>2, <2>3
<1>6. Mqtt!FoldLeft(Mqtt!Resend, up, Mqtt!SequencedMessages(up.sent)) = up
  <2>1. up.sent = Mqtt!EmptyMap /\ DOMAIN Mqtt!EmptyMap = {}
    BY <1>4, <1>5 DEF Mqtt!EmptyMap
  <2>2. Mqtt!Cardinality({}) = 0
    <3>1. Mqtt!Cardinality({}) = Cardinality({})  BY DEF Mqtt!Cardinality, Cardinality
    <3> QED BY <3>1, FS_EmptySet
  <2>3. DOMAIN Mqtt!Ascending({}) = {}
    <3>1. DOMAIN Mqtt!Ascending({}) = 1 .. Mqtt!Cardinality({})  BY DEF Mqtt!Ascending
    <3> QED BY <2>2, <3>1
  <2>4. Mqtt!SequencedMessages(up.sent) = <<>>
    BY <2>1, <2>3 DEF Mqtt!SequencedMessages, Mqtt!FoldLeft, Mqtt!MapThenFoldSet
  <2>5. DOMAIN <<>> = {}  OBVIOUS
  <2> QED BY <2>4, <2>5 DEF Mqtt!FoldLeft, Mqtt!MapThenFoldSet
<1>7. /\ Idle(told) /\ told.out = <<>> /\ told.connected /\ told.socket = "open"
      /\ DOMAIN told.sent = {} /\ told.calls = calls /\ ~ told.connectTimer
  <2>1. MqttType(told)  BY <1>5 DEF MqttType, told
  <2>2. /\ told.queue = up.queue /\ told.draining = up.draining
        /\ told.threw = up.threw /\ told.out = up.out /\ told.calls = calls
        /\ told.socket = up.socket /\ told.connectTimer = up.connectTimer
        /\ told.connected = up.connected /\ told.sent = up.sent
    BY <1>5 DEF MqttType, told
  <2>3. DOMAIN Mqtt!EmptyMap = {}  BY DEF Mqtt!EmptyMap
  <2> QED BY <1>1, <1>3, <1>4, <1>5, <2>1, <2>2, <2>3 DEF Idle
<1>8. Mqtt!onSuccess(up) = d
  <2>1. Append(<<>>, <<"onSuccess", c.attempt>>) = calls  BY DEF calls
  <2>2. up.calls = <<>> /\ up.attempt = c.attempt /\ up.reaction.onSuccess = "subscribe"
    BY <1>1, <1>2, <1>3, <1>4, <1>5 DEF Reaction
  <2>3. Mqtt!Call(up, "onSuccess", up.attempt) = told
    BY <2>1, <2>2 DEF Mqtt!Call, told
  <2>4. Mqtt!onSuccess(up) = Mqtt!Request(told, "SUBSCRIBE")
    BY <2>2, <2>3 DEF Mqtt!onSuccess
  <2> QED BY <2>4 DEF d
<1>9. Said(told, d, "SUBSCRIBE") /\ d.socket = "open" /\ d.connected /\ ~ d.connectTimer
  BY <1>7, MqttSubscribes DEF d
<1>10. ~ up.threw /\ ~ d.threw  BY <1>1, <1>3, <1>4, <1>5, <1>9 DEF Said, Idle
<1>11. Mqtt!ConnAck(c, 0) = Mqtt!process_queue(d)
  <2>1. /\ [c EXCEPT !.connectTimer = FALSE] = timed
        /\ (IF c.clean THEN Mqtt!ClearState(timed) ELSE timed) = ready
        /\ [ready EXCEPT !.connected = TRUE,
                         !.hostIndex = IF c.hosts > 0 THEN c.hosts ELSE @] = up
    BY <1>2 DEF timed, ready, up
  <2> QED BY <1>6, <1>8, <1>10, <2>1 DEF Mqtt!ConnAck
<1>12. Mqtt!process_queue(d) = d  BY <1>9, MqttIdle DEF Said
<1> QED BY <1>7, <1>9, <1>11, <1>12 DEF Said, calls

(* The CONNACK of a broker that does not                                   *)
LEMMA MqttRefused ==
    ASSUME NEW c, Between(c), NEW code, code # 0
    PROVE  Left(c, Mqtt!ConnAck(c, code))
<1> DEFINE timed == [c EXCEPT !.connectTimer = FALSE]
           stored == [sent |-> [id \in DOMAIN timed.stored.sent \ DOMAIN timed.sent
                                   |-> timed.stored.sent[id]],
                      received |-> [id \in DOMAIN timed.stored.received
                                              \ DOMAIN timed.received
                                       |-> timed.stored.received[id]]]
           ready == [timed EXCEPT !.sent = Mqtt!EmptyMap, !.received = Mqtt!EmptyMap,
                                  !.stored = stored]
<1> HIDE DEF timed, stored, ready
<1>1. /\ MqttType(c) /\ c.queue = <<>> /\ ~ c.draining /\ ~ c.threw
      /\ c.out = <<>> /\ c.calls = <<>>
  BY DEF Between, Idle
<1>2. MqttType(timed)  BY <1>1 DEF MqttType, timed
<1>3. /\ timed.queue = c.queue /\ timed.draining = c.draining
      /\ timed.threw = c.threw /\ timed.out = c.out /\ timed.calls = c.calls
      /\ timed.socket = c.socket /\ timed.attempt = c.attempt
      /\ timed.connected = c.connected
  BY <1>1 DEF MqttType, timed
<1>4. MqttType(ready)  BY <1>2 DEF MqttType, ready
<1>5. /\ ready.queue = timed.queue /\ ready.draining = timed.draining
      /\ ready.threw = timed.threw /\ ready.out = timed.out
      /\ ready.calls = timed.calls /\ ready.socket = timed.socket
      /\ ready.attempt = timed.attempt /\ ready.connected = timed.connected
  BY <1>2 DEF MqttType, ready
<1>6. Left(ready, Mqtt!disconnected(ready))
  BY <1>1, <1>3, <1>4, <1>5, MqttLeaves DEF Between, Idle
<1>7. Mqtt!ConnAck(c, code) = Mqtt!disconnected(ready)
  <2>1. c.clean  BY <1>1 DEF MqttType
  <2>2. Mqtt!ClearState(timed) = ready  BY DEF Mqtt!ClearState, ready, stored
  <2> QED BY <2>1, <2>2 DEF Mqtt!ConnAck, timed
<1> QED BY <1>3, <1>5, <1>6, <1>7 DEF Left

(* A packet to which nothing is answered                                   *)
Still(c, d) ==
    /\ Idle(d) /\ d.out = <<>> /\ d.socket = c.socket /\ d.connected = c.connected
    /\ d.connectTimer = c.connectTimer

(* A PUBLISH of quality of service 0 is told to the application,           *)
LEMMA MqttArrives ==
    ASSUME NEW c, Between(c), NEW packet, packet.type = "PUBLISH",
           packet.body \in Notifications
    PROVE  LET d == Mqtt!receivePublish(c, packet)
           IN  Still(c, d) /\ d.calls = <<<<"onMessageArrived", packet.body>>>>
<1> DEFINE calls == <<<<"onMessageArrived", packet.body>>>>
           d == [c EXCEPT !.calls = calls]
<1>1. /\ MqttType(c) /\ c.queue = <<>> /\ ~ c.draining /\ ~ c.threw
      /\ c.out = <<>> /\ c.calls = <<>>
  BY DEF Between, Idle
<1>2. Reaction.onMessageArrived = "return" /\ c.reaction = Reaction
  BY <1>1 DEF Reaction, MqttType
<1>3. Append(<<>>, <<"onMessageArrived", packet.body>>) = calls  OBVIOUS
<1> HIDE DEF calls
<1>4. Mqtt!receivePublish(c, packet) = Mqtt!Report(c, "onMessageArrived", packet.body)
  BY DEF Mqtt!receivePublish
<1>5. Mqtt!Report(c, "onMessageArrived", packet.body) = d
  BY <1>1, <1>2, <1>3 DEF Mqtt!Report, Mqtt!Call
<1>6. MqttType(d)  BY <1>1 DEF MqttType
<1>7. /\ d.calls = calls /\ d.queue = c.queue /\ d.draining = c.draining
      /\ d.threw = c.threw /\ d.out = c.out /\ d.socket = c.socket
      /\ d.connected = c.connected /\ d.connectTimer = c.connectTimer
  BY <1>1 DEF MqttType
<1> HIDE DEF d
<1> QED BY <1>1, <1>4, <1>5, <1>6, <1>7 DEF Still, Idle, calls

(* a SUBACK to nobody, or to the request it answers,                       *)
LEMMA MqttSubscribed ==
    ASSUME NEW c, Between(c), NEW id
    PROVE  LET d == Mqtt!RequestAck(c, id)
           IN  /\ Still(c, d)
               /\ d.calls = <<>> \/ \E n : d.calls = <<<<"requestSuccess", n>>>>
<1> DEFINE n == c.sent[id].body
           timers == c.requestTimers \ {n}
           sent == Mqtt!Delete(c.sent, id)
           calls == <<<<"requestSuccess", n>>>>
           e == [c EXCEPT !.requestTimers = timers, !.sent = sent]
           d == [e EXCEPT !.calls = calls]
<1> HIDE DEF n, timers, sent, e, d
<1>1. /\ MqttType(c) /\ c.queue = <<>> /\ ~ c.draining /\ ~ c.threw
      /\ c.out = <<>> /\ c.calls = <<>>
  BY DEF Between, Idle
<1>2. CASE id \notin DOMAIN c.sent
  BY <1>1, <1>2 DEF Mqtt!RequestAck, Still, Idle
<1>3. CASE id \in DOMAIN c.sent
  <2>1. Append(<<>>, <<"requestSuccess", n>>) = calls  OBVIOUS
  <2> HIDE DEF calls
  <2>2. MqttType(e)  BY <1>1 DEF MqttType, e
  <2>3. /\ e.calls = c.calls /\ e.queue = c.queue /\ e.draining = c.draining
        /\ e.threw = c.threw /\ e.out = c.out /\ e.socket = c.socket
        /\ e.connected = c.connected /\ e.connectTimer = c.connectTimer
    BY <1>1 DEF MqttType, e
  <2>4. Mqtt!RequestAck(c, id) = Mqtt!Call(e, "requestSuccess", n)
    BY <1>3 DEF Mqtt!RequestAck, n, timers, sent, e
  <2>5. Mqtt!Call(e, "requestSuccess", n) = d
    BY <1>1, <2>1, <2>3 DEF Mqtt!Call, d
  <2>6. MqttType(d)  BY <2>2 DEF MqttType, d
  <2>7. /\ d.calls = calls /\ d.queue = e.queue /\ d.draining = e.draining
        /\ d.threw = e.threw /\ d.out = e.out /\ d.socket = e.socket
        /\ d.connected = e.connected /\ d.connectTimer = e.connectTimer
    BY <2>2 DEF MqttType, d
  <2> QED BY <1>1, <2>3, <2>4, <2>5, <2>6, <2>7 DEF Still, Idle, calls
<1> QED BY <1>2, <1>3

(* and a PINGRESP to nobody.                                               *)
LEMMA MqttAlive ==
    ASSUME NEW c, Between(c)
    PROVE  LET d == [c EXCEPT !.sendPinger = Mqtt!reset(@)]
           IN  Still(c, d) /\ d.calls = <<>>
<1> DEFINE p == Mqtt!reset(c.sendPinger)
           d == [c EXCEPT !.sendPinger = p]
<1>1. /\ MqttType(c) /\ c.queue = <<>> /\ ~ c.draining /\ ~ c.threw
      /\ c.out = <<>> /\ c.calls = <<>>
  BY DEF Between, Idle
<1>2. p \in Pingers  BY DEF Mqtt!reset, Pingers
<1> HIDE DEF p
<1>3. MqttType(d)  BY <1>1, <1>2 DEF MqttType
<1>4. /\ d.calls = c.calls /\ d.queue = c.queue /\ d.draining = c.draining
      /\ d.threw = c.threw /\ d.out = c.out /\ d.socket = c.socket
      /\ d.connected = c.connected /\ d.connectTimer = c.connectTimer
  BY <1>1 DEF MqttType
<1>5. d = [c EXCEPT !.sendPinger = Mqtt!reset(@)]  BY DEF p
<1> HIDE DEF d
<1> QED BY <1>1, <1>3, <1>4, <1>5 DEF Still, Idle

-----------------------------------------------------------------------------
(* Queues of packets, at the end and at the head                           *)
LEMMA PacketAdded ==
    ASSUME NEW s, IsSequence(s), NEW x
    PROVE  LET r == Append(s, x)
           IN  /\ IsSequence(r) /\ r # <<>>
               /\ \A types : Types(s, types) /\ x.type \in types => Types(r, types)
               /\ \A first, rest : FirstThen(s, first, rest) /\ x.type = rest
                                       => FirstThen(r, first, rest)
               /\ \A rest : s = <<>> => FirstThen(r, x.type, rest)
<1> DEFINE r == Append(s, x)
           S == Range(s) \cup {x}
<1>1. IsSequence(r) /\ r # <<>>
  <2>1. s \in Seq(Range(s)) /\ Range(s) \subseteq S /\ x \in S  BY DEF IsSequence
  <2> HIDE DEF S
  <2>2. s \in Seq(S)  BY <2>1, SeqMonotonic
  <2>3. r \in Seq(S) /\ r # <<>>  BY <2>1, <2>2
  <2> QED BY <2>3, Ranged
<1>2. /\ DOMAIN r = DOMAIN s \cup {Len(s) + 1} /\ Len(s) + 1 \notin DOMAIN s
      /\ \A i \in DOMAIN s : r[i] = s[i]
      /\ r[Len(s) + 1] = x
  BY OneMore
<1>3. s = <<>> => Len(s) + 1 = 1 /\ DOMAIN s = {}  OBVIOUS
<1>4. s # <<>> => 1 \in DOMAIN s  BY HeadRead
<1> HIDE DEF r
<1>5. ASSUME NEW types, Types(s, types), x.type \in types PROVE Types(r, types)
  BY <1>1, <1>2, <1>5 DEF Types
<1>6. ASSUME NEW first, NEW rest, FirstThen(s, first, rest), x.type = rest
      PROVE  FirstThen(r, first, rest)
  BY <1>1, <1>2, <1>4, <1>6 DEF FirstThen
<1>7. ASSUME NEW rest, s = <<>> PROVE FirstThen(r, x.type, rest)
  BY <1>1, <1>2, <1>3, <1>7 DEF FirstThen
<1> QED BY <1>1, <1>5, <1>6, <1>7 DEF r

(* What is left when the head is read is of the types there were.          *)
LEMMA PacketRead ==
    ASSUME NEW s, IsSequence(s), s # <<>>
    PROVE  /\ IsSequence(Tail(s)) /\ Head(s) = s[1] /\ 1 \in DOMAIN s
           /\ \A types : Types(s, types) => Head(s).type \in types /\ Types(Tail(s), types)
           /\ \A first, rest : FirstThen(s, first, rest) =>
                  Head(s).type = first /\ Types(Tail(s), {rest})
<1>1. /\ IsSequence(Tail(s)) /\ Head(s) = s[1] /\ 1 \in DOMAIN s
      /\ \A i \in DOMAIN Tail(s) : /\ i + 1 \in DOMAIN s /\ Tail(s)[i] = s[i + 1]
                                   /\ i \in Nat /\ i >= 1
  BY HeadRead, Rest
<1> DEFINE r == Tail(s)
           h == Head(s)
<1> HIDE DEF r, h
<1>2. /\ IsSequence(r) /\ h = s[1] /\ 1 \in DOMAIN s
      /\ \A i \in DOMAIN r : i + 1 \in DOMAIN s /\ r[i] = s[i + 1] /\ i + 1 # 1
  BY <1>1 DEF r, h
<1>3. ASSUME NEW types, Types(s, types) PROVE h.type \in types /\ Types(r, types)
  BY <1>2, <1>3 DEF Types
<1>4. ASSUME NEW first, NEW rest, FirstThen(s, first, rest)
      PROVE  h.type = first /\ Types(r, {rest})
  BY <1>2, <1>4 DEF FirstThen, Types
<1> QED BY <1>2, <1>3, <1>4 DEF r, h

(* A turn of the MQTT client                                               *)
LEMMA MqttTurned ==
    ASSUME NEW d, Idle(d), NEW l, MqttTurn(d, l)
    PROVE  /\ Between(mqtt') /\ mqtt'.socket = d.socket /\ mqtt'.connected = d.connected
           /\ mqtt'.connectTimer = d.connectTimer /\ mqtt'.sendPinger = d.sendPinger
           /\ mqtt'.receivePinger = d.receivePinger
           /\ link' = FoldLeft(LinkStep, l, d.out)
           /\ areas' = FoldLeft(Show, areas, d.calls)
           /\ UNCHANGED NotMqtt
<1> DEFINE none == Mqtt!Ack(Mqtt!None, 0)
           e == [d EXCEPT !.out = <<>>, !.calls = <<>>, !.threw = FALSE,
                          !.wireMessage = none]
<1>1. /\ mqtt' = e /\ link' = FoldLeft(LinkStep, l, d.out)
      /\ areas' = FoldLeft(Show, areas, d.calls) /\ UNCHANGED NotMqtt
  BY DEF MqttTurn
<1> HIDE DEF none, e
<1>2. MqttType(d) /\ d.queue = <<>> /\ ~ d.draining  BY DEF Idle
<1>3. MqttType(e)  BY <1>2 DEF MqttType, e
<1>4. /\ e.queue = d.queue /\ e.draining = d.draining /\ e.threw = FALSE
      /\ e.out = <<>> /\ e.calls = <<>>
  BY <1>2 DEF MqttType, e
<1>5. /\ e.socket = d.socket /\ e.connected = d.connected
      /\ e.connectTimer = d.connectTimer /\ e.sendPinger = d.sendPinger
      /\ e.receivePinger = d.receivePinger
  BY <1>2 DEF MqttType, e
<1> QED BY <1>1, <1>2, <1>3, <1>4, <1>5 DEF Between, Idle

(* The callbacks of MqttPush touch nothing but its area and its lines.     *)
LEMMA MqttKeepsSock ==
    ASSUME PageRight, UNCHANGED NotMqtt, AreasType(areas'),
           UNCHANGED areas.responseText,
           areas'.debug["WS closed"] = areas.debug["WS closed"],
           MqttRight'
    PROVE  PageRight'
<1>1. UNCHANGED <<config, sock, areas.responseText>> /\ SockRight
  BY DEF NotMqtt, PageRight
<1>2. SockRight'  BY <1>1, SockElsewhere
<1> QED BY <1>2 DEF PageRight, AreasType

(* A line of the log that is about MQTT                                    *)
OneLine(a, line) ==
    /\ AreasType(a) /\ a.responseText = areas.responseText
    /\ a.stompNotification = areas.stompNotification
    /\ a.mqttNotification = areas.mqttNotification
    /\ a.debug[line] = areas.debug[line] + 1
    /\ \A other \in DebugLines : other # line => a.debug[other] = areas.debug[other]

(* Each of the three callbacks writes its own line, once.                  *)
LEMMA MqttLogged ==
    ASSUME AreasType(areas), NEW name, NEW x, NEW line,
           \/ name = "onSuccess" /\ line = "MQTT connected"
           \/ name = "onConnectionLost" /\ line = "MQTT lost"
           \/ name = "onFailure" /\ line = "MQTT failure"
    PROVE  OneLine(FoldLeft(Show, areas, <<<<name, x>>>>), line)
<1> DEFINE call == <<name, x>>
<1>1. call[1] = name  OBVIOUS
<1>2. line \in DebugLines  BY DEF DebugLines
<1>3. FoldLeft(Show, areas, <<call>>) = Show(areas, call)  BY LoggedOne
<1> HIDE DEF call
<1>4. Show(areas, call) = Log(areas, line)  BY <1>1 DEF Show
<1>5. OneLine(Log(areas, line), line)  BY <1>2, Logged DEF OneLine
<1> QED BY <1>3, <1>4, <1>5 DEF call

(* The connection is over, and the page says so.                           *)
LEMMA MqttLostPage ==
    ASSUME PageRight, IsPage, MqttConnecting \/ MqttAsking \/ MqttServing,
           NEW c, c.connected = mqtt.connected, NEW d, Left(c, d),
           NEW l, MqttTurn(d, l),
           LinkType(link'), link'.state # "open", link'.toBroker = <<>>,
           link'.toClient = <<>>, ~ link'.subscribed, link'.since = link.since
    PROVE  PageRight' /\ UNCHANGED areas.stompNotification
<1> DEFINE name == IF c.connected THEN "onConnectionLost" ELSE "onFailure"
           line == IF c.connected THEN "MQTT lost" ELSE "MQTT failure"
<1>1. /\ Idle(d) /\ d.socket = "none" /\ ~ d.connectTimer
      /\ ~ d.sendPinger.armed /\ ~ d.receivePinger.armed
      /\ d.calls = <<<<name, c.attempt>>>>
  BY DEF Left
<1>2. /\ Between(mqtt') /\ mqtt'.socket = d.socket
      /\ mqtt'.connectTimer = d.connectTimer /\ mqtt'.sendPinger = d.sendPinger
      /\ mqtt'.receivePinger = d.receivePinger
      /\ areas' = FoldLeft(Show, areas, d.calls)
      /\ UNCHANGED NotMqtt
  BY <1>1, MqttTurned
<1>3. AreasType(areas) /\ MqttRight  BY DEF PageRight
<1>4. /\ AreasType(areas') /\ areas'.responseText = areas.responseText
      /\ areas'.stompNotification = areas.stompNotification
      /\ areas'.mqttNotification = areas.mqttNotification
      /\ areas'.debug[line] = areas.debug[line] + 1
      /\ \A other \in DebugLines : other # line => areas'.debug[other] = areas.debug[other]
  <2> DEFINE x == c.attempt
  <2>1. \/ name = "onSuccess" /\ line = "MQTT connected"
        \/ name = "onConnectionLost" /\ line = "MQTT lost"
        \/ name = "onFailure" /\ line = "MQTT failure"
    OBVIOUS
  <2>2. areas' = FoldLeft(Show, areas, <<<<name, x>>>>)  BY <1>1, <1>2
  <2> HIDE DEF name, line, x
  <2>3. OneLine(FoldLeft(Show, areas, <<<<name, x>>>>), line)
    BY <1>3, <2>1, MqttLogged
  <2> QED BY <2>2, <2>3 DEF OneLine
<1>5. LogSays(IF mqtt.connected THEN 1 ELSE 0, 0)
  BY DEF MqttConnecting, MqttAsking, MqttServing
<1>6. \E connected \in {0, 1} : LogSays(connected, 1)'
  <2>1. /\ areas.debug["MQTT lost"] = 0 /\ areas.debug["MQTT failure"] = 0
        /\ areas.debug["MQTT connected"] = IF mqtt.connected THEN 1 ELSE 0
    <3> DEFINE lost == areas.debug["MQTT lost"]
               failure == areas.debug["MQTT failure"]
    <3>1. /\ lost \in Nat /\ failure \in Nat /\ lost + failure = 0
          /\ areas.debug["MQTT connected"] = IF mqtt.connected THEN 1 ELSE 0
      BY <1>5 DEF LogSays
    <3> HIDE DEF lost, failure
    <3>2. \A m, n \in Nat : m + n = 0 => m = 0 /\ n = 0  OBVIOUS
    <3>3. lost = 0 /\ failure = 0  BY <3>1, <3>2
    <3> QED BY <3>1, <3>3 DEF lost, failure
  <2>2. \A n : n = 0 => n + 1 = 1  OBVIOUS
  <2>3. CASE mqtt.connected
    <3>1. line = "MQTT lost"  BY <2>3
    <3>2. /\ areas'.debug["MQTT lost"] = 1 /\ areas'.debug["MQTT failure"] = 0
          /\ areas'.debug["MQTT connected"] = 1
      BY <1>4, <2>1, <2>2, <2>3, <3>1 DEF DebugLines
    <3>3. \A m, n : m = 1 /\ n = 0 => m \in Nat /\ n \in Nat /\ m + n = 1 /\ m <= 1
      OBVIOUS
    <3>4. LogSays(1, 1)'  BY <3>2, <3>3 DEF LogSays
    <3> QED BY <3>4
  <2>4. CASE ~ mqtt.connected
    <3>1. line = "MQTT failure"  BY <2>4
    <3>2. /\ areas'.debug["MQTT lost"] = 0 /\ areas'.debug["MQTT failure"] = 1
          /\ areas'.debug["MQTT connected"] = 0
      BY <1>4, <2>1, <2>2, <2>4, <3>1 DEF DebugLines
    <3>3. \A m, n : m = 0 /\ n = 1 => m \in Nat /\ n \in Nat /\ m + n = 1 /\ m <= 0
      OBVIOUS
    <3>4. LogSays(0, 1)'  BY <3>2, <3>3 DEF LogSays
    <3> QED BY <3>4
  <2> QED BY <2>3, <2>4
<1>7. MqttGone'  BY <1>1, <1>2, <1>6 DEF MqttGone
<1>8. MqttRight'
  <2>1. areas'.mqttNotification \in Seq(Nat) /\ Run(areas.mqttNotification, link.since)'
    BY <1>3, <1>4 DEF MqttRight
  <2>2. IsPage'  BY <1>2 DEF NotMqtt, IsPage
  <2> QED BY <1>2, <1>7, <2>1, <2>2 DEF MqttRight
<1>9. areas'.debug["WS closed"] = areas.debug["WS closed"]  BY <1>4 DEF DebugLines
<1>10. PageRight'  BY <1>2, <1>4, <1>8, <1>9, MqttKeepsSock
<1> QED BY <1>4, <1>10

(* Its socket                                                              *)
LEMMA LinkSends ==
    ASSUME NEW l, LinkType(l), NEW m, m.type # "close"
    PROVE  LET v == LinkStep(l, m)
           IN  /\ LinkType(v) /\ v.toBroker = Append(l.toBroker, m)
               /\ v.toClient = l.toClient /\ v.state = l.state
               /\ v.subscribed = l.subscribed /\ v.since = l.since
<1> DEFINE q == Append(l.toBroker, m)
<1>1. LinkStep(l, m) = [l EXCEPT !.toBroker = q]  BY DEF LinkStep
<1> HIDE DEF q
<1> QED BY <1>1 DEF LinkType, q

(* A close leaves nothing under way.                                       *)
LEMMA LinkCloses ==
    ASSUME NEW l, LinkType(l)
    PROVE  LET v == LinkStep(l, Mqtt!Ack("close", 0))
           IN  /\ LinkType(v) /\ v.toBroker = <<>> /\ v.toClient = <<>>
               /\ v.state = "closed" /\ ~ v.subscribed /\ v.since = l.since
<1>1. Mqtt!Ack("close", 0).type = "close"  BY DEF Mqtt!Ack, Mqtt!WireMessage
<1> DEFINE v == [l EXCEPT !.state = "closed", !.toBroker = <<>>, !.toClient = <<>>,
                          !.subscribed = FALSE]
<1>2. LinkStep(l, Mqtt!Ack("close", 0)) = v  BY <1>1 DEF LinkStep
<1>3. /\ LinkType(v) /\ v.toBroker = <<>> /\ v.toClient = <<>>
      /\ v.state = "closed" /\ ~ v.subscribed /\ v.since = l.since
  BY DEF LinkType
<1> HIDE DEF v
<1> QED BY <1>2, <1>3

(* The log and the text stay when there is no callback that shows one.     *)
LEMMA NothingShown ==
    ASSUME NEW calls, calls = <<>> \/ \E n : calls = <<<<"requestSuccess", n>>>>
    PROVE  FoldLeft(Show, areas, calls) = areas
<1>1. CASE calls = <<>>  BY <1>1, LoggedNone
<1>2. ASSUME NEW n, calls = <<<<"requestSuccess", n>>>>
      PROVE  FoldLeft(Show, areas, calls) = areas
  <2> DEFINE call == <<"requestSuccess", n>>
  <2>1. call[1] = "requestSuccess"  OBVIOUS
  <2>2. calls = <<call>>  BY <1>2
  <2> HIDE DEF call
  <2>3. FoldLeft(Show, areas, calls) = Show(areas, call)  BY <2>2, LoggedOne
  <2>4. Show(areas, call) = areas  BY <2>1 DEF Show
  <2> QED BY <2>3, <2>4
<1> QED BY <1>1, <1>2

(* What a turn without callbacks leaves alone                              *)
LEMMA MqttSilent ==
    ASSUME PageRight, IsPage, areas' = areas, UNCHANGED NotMqtt, Between(mqtt'),
           LinkType(link'), link'.since = link.since,
           MqttAsking' \/ MqttServing'
    PROVE  PageRight' /\ UNCHANGED areas.stompNotification
<1>1. MqttRight /\ AreasType(areas)  BY DEF PageRight
<1>2. IsPage'  BY DEF NotMqtt, IsPage
<1>3. areas'.mqttNotification \in Seq(Nat) /\ Run(areas.mqttNotification, link.since)'
  BY <1>1 DEF MqttRight
<1>4. MqttRight'  BY <1>2, <1>3 DEF MqttRight
<1>5. AreasType(areas')  BY <1>1
<1>6. PageRight'  BY <1>4, <1>5, MqttKeepsSock
<1> QED BY <1>6

(* The socket opens: the client asks the broker to let it in.              *)
LEMMA MqttOpensPage ==
    ASSUME PageRight, MqttOpens PROVE PageRight' /\ UNCHANGED areas.stompNotification
<1> DEFINE d == Mqtt!on_socket_open(mqtt)
           l == [link EXCEPT !.state = "open"]
<1>1. /\ IsPage /\ mqtt.socket = "connecting" /\ MqttTurn(d, l)
      /\ MqttRight /\ Between(mqtt) /\ LinkType(link)
  BY DEF MqttOpens, PageRight, MqttRight
<1>2. MqttConnecting
  BY <1>1 DEF MqttRight, MqttConnecting, MqttAsking, MqttServing, MqttGone
<1>3. Said(mqtt, d, "CONNECT") /\ d.socket = "open" /\ d.connected = mqtt.connected
  BY <1>1, MqttAnnounces
<1> HIDE DEF d
<1>4. /\ LinkType(l) /\ l.state = "open" /\ l.toBroker = link.toBroker
      /\ l.toClient = link.toClient /\ l.subscribed = link.subscribed
      /\ l.since = link.since
  BY <1>1 DEF LinkType
<1> HIDE DEF l
<1>5. PICK m : m.type = "CONNECT" /\ d.out = <<m>>  BY <1>3 DEF Said
<1>6. Idle(d) /\ d.calls = <<>>  BY <1>1, <1>3 DEF Said, Between
<1>7. /\ Between(mqtt') /\ mqtt'.socket = "open" /\ mqtt'.connected = mqtt.connected
      /\ link' = FoldLeft(LinkStep, l, d.out)
      /\ areas' = FoldLeft(Show, areas, d.calls) /\ UNCHANGED NotMqtt
  BY <1>1, <1>3, <1>6, MqttTurned
<1>8. areas' = areas  BY <1>6, <1>7, NothingShown
<1>9. link' = LinkStep(l, m)  BY <1>5, <1>7, PassedOne
<1>10. /\ LinkType(link') /\ link'.toBroker = Append(<<>>, m) /\ link'.toClient = <<>>
       /\ link'.state = "open" /\ link'.subscribed = link.subscribed
       /\ link'.since = link.since
  BY <1>2, <1>4, <1>5, <1>9, LinkSends DEF MqttConnecting
<1>11. FirstThen(link'.toBroker, "CONNECT", "PINGREQ")
  <2>1. IsSequence(<<>>)  BY DEF IsSequence
  <2>2. FirstThen(Append(<<>>, m), m.type, "PINGREQ")  BY <2>1, PacketAdded
  <2> QED BY <1>5, <1>10, <2>2
<1>12. LinkUnjoined' /\ LogSays(0, 0)'
  <2>1. LinkUnjoined'  BY <1>2, <1>8, <1>10 DEF MqttConnecting, LinkUnjoined
  <2>2. LogSays(0, 0)'  BY <1>2, <1>8 DEF MqttConnecting, LogSays
  <2> QED BY <2>1, <2>2
<1>13. MqttAsking'
  BY <1>2, <1>7, <1>10, <1>11, <1>12 DEF MqttAsking, MqttConnecting
<1> QED BY <1>1, <1>7, <1>8, <1>10, <1>13, MqttSilent

(* The network breaks the connection, open or not.                         *)
LEMMA MqttBreaksPage ==
    ASSUME PageRight, MqttBreaks PROVE PageRight' /\ UNCHANGED areas.stompNotification
<1> DEFINE l == LinkStep(link, Mqtt!Ack("close", 0))
           d == Mqtt!on_socket_error(mqtt)
<1>1. /\ IsPage /\ mqtt.socket \in {"connecting", "open"}
      /\ MqttTurn(d, l) \/ MqttTurn(Mqtt!on_socket_close(mqtt), l)
      /\ MqttRight /\ Between(mqtt) /\ LinkType(link)
  BY DEF MqttBreaks, PageRight, MqttRight
<1>2. MqttConnecting \/ MqttAsking \/ MqttServing
  BY <1>1 DEF MqttRight, MqttGone
<1>3. MqttTurn(d, l)  BY <1>1, MqttFails
<1>4. PICK c : Left(c, d) /\ c.connected = mqtt.connected /\ c.socket = "closed"
  BY <1>1, MqttFails
<1>5. /\ LinkType(l) /\ l.toBroker = <<>> /\ l.toClient = <<>>
      /\ l.state = "closed" /\ ~ l.subscribed /\ l.since = link.since
  BY <1>1, LinkCloses
<1> HIDE DEF l, d
<1>6. Idle(d) /\ d.out = <<>>  BY <1>4 DEF Left
<1>7. link' = FoldLeft(LinkStep, l, d.out)  BY <1>3, <1>6, MqttTurned
<1>8. link' = l  BY <1>6, <1>7, PassedNone
<1> QED BY <1>1, <1>2, <1>3, <1>4, <1>5, <1>8, MqttLostPage

(* The client gives up itself: it closes the socket if that is open.       *)
LEMMA MqttGivesUpPage ==
    ASSUME PageRight, IsPage, MqttConnecting \/ MqttAsking \/ MqttServing,
           NEW c, c.connected = mqtt.connected, c.socket = mqtt.socket,
           NEW d, Left(c, d), NEW l, MqttTurn(d, l), LinkType(l),
           l.since = link.since, MqttConnecting => l = link
    PROVE  PageRight' /\ UNCHANGED areas.stompNotification
<1>1. Idle(d) /\ d.out = IF c.socket = "open" THEN <<Mqtt!Ack("close", 0)>> ELSE <<>>
  BY DEF Left
<1>2. link' = FoldLeft(LinkStep, l, d.out)  BY <1>1, MqttTurned
<1>3. /\ LinkType(link') /\ link'.state # "open" /\ link'.toBroker = <<>>
      /\ link'.toClient = <<>> /\ ~ link'.subscribed /\ link'.since = link.since
  <2>1. CASE c.socket = "open"
    <3>1. link' = LinkStep(l, Mqtt!Ack("close", 0))  BY <1>1, <1>2, <2>1, PassedOne
    <3>2. LET v == LinkStep(l, Mqtt!Ack("close", 0))
          IN  /\ LinkType(v) /\ v.toBroker = <<>> /\ v.toClient = <<>>
              /\ v.state = "closed" /\ ~ v.subscribed /\ v.since = l.since
      BY LinkCloses
    <3> QED BY <3>1, <3>2
  <2>2. CASE c.socket # "open"
    <3>1. MqttConnecting  BY <2>2 DEF MqttAsking, MqttServing
    <3>2. link' = link  BY <1>1, <1>2, <2>2, <3>1, PassedNone
    <3> QED BY <3>1, <3>2 DEF MqttConnecting, LinkUnjoined
  <2> QED BY <2>1, <2>2
<1> QED BY <1>3, MqttLostPage

(* Of one type there is only one in the queue.                             *)
LEMMA OnlyOne ==
    ASSUME NEW s, IsSequence(s), NEW type
    PROVE  /\ \A x : Single(s, type) /\ (x.type = type =>
                                            \A i \in DOMAIN s : s[i].type # type)
                         => Single(Append(s, x), type)
           /\ Single(s, type) /\ s # <<>> =>
                  /\ Single(Tail(s), type)
                  /\ s[1].type = type =>
                         \A i \in DOMAIN Tail(s) : Tail(s)[i].type # type
<1>1. ASSUME NEW x, Single(s, type),
             x.type = type => \A i \in DOMAIN s : s[i].type # type
      PROVE  Single(Append(s, x), type)
  <2> DEFINE r == Append(s, x)
  <2>1. /\ DOMAIN r = DOMAIN s \cup {Len(s) + 1}
        /\ \A i \in DOMAIN s : r[i] = s[i]
        /\ r[Len(s) + 1] = x
    BY OneMore
  <2> HIDE DEF r
  <2>2. Single(r, type)  BY <1>1, <2>1 DEF Single
  <2> QED BY <2>2 DEF r
<1>2. ASSUME Single(s, type), s # <<>>
      PROVE  /\ Single(Tail(s), type)
             /\ s[1].type = type => \A i \in DOMAIN Tail(s) : Tail(s)[i].type # type
  <2> DEFINE r == Tail(s)
  <2>1. /\ \A i \in DOMAIN r : i + 1 \in DOMAIN s /\ r[i] = s[i + 1] /\ i \in Nat /\ i >= 1
        /\ 1 \in DOMAIN s
    BY <1>2, Rest
  <2> HIDE DEF r
  <2>2. \A i, j \in DOMAIN r : i + 1 = j + 1 => i = j  BY <2>1
  <2>3. \A i \in DOMAIN r : i + 1 # 1  BY <2>1
  <2>4. Single(r, type)  BY <1>2, <2>1, <2>2 DEF Single
  <2>5. s[1].type = type => \A i \in DOMAIN r : r[i].type # type
    BY <1>2, <2>1, <2>3 DEF Single
  <2> QED BY <2>4, <2>5 DEF r
<1> QED BY <1>1, <1>2

(* The notifications in a queue of packets                                 *)
LEMMA NoticeFor ==
    ASSUME NEW x
    PROVE  /\ MessageFor(Notice(x), "mqtt") <=> x.type = "PUBLISH"
           /\ x.type = "PUBLISH" => Notice(x)[1].body = x.body
<1> DEFINE data == [command |-> "MESSAGE", subscription |-> "mqtt", body |-> x.body]
<1>1. data.command = "MESSAGE" /\ data.subscription = "mqtt" /\ data.body = x.body
  OBVIOUS
<1>2. Notice(x) = IF x.type = "PUBLISH" THEN <<data>> ELSE <<>>  BY DEF Notice
<1> HIDE DEF data
<1>3. <<data>> # <<>> /\ <<data>>[1] = data  OBVIOUS
<1> QED BY <1>1, <1>2, <1>3 DEF MessageFor, IsMessage

(* A newer notification comes after those under way,                       *)
LEMMA NoticeAdded ==
    ASSUME NEW q, IsSequence(q), InOrder(Notices(q), "mqtt"), NEW x,
           x.type = "PUBLISH" => \A n \in BodiesIn(Notices(q), "mqtt") : n < x.body
    PROVE  /\ InOrder(Notices(Append(q, x)), "mqtt")
           /\ BodiesIn(Notices(Append(q, x)), "mqtt") =
                  BodiesIn(Notices(q), "mqtt")
                      \cup (IF x.type = "PUBLISH" THEN {x.body} ELSE {})
<1> DEFINE s == Notices(q)
           r == Append(q, x)
           t == Notices(r)
           k == Len(q) + 1
<1>1. /\ DOMAIN r = DOMAIN q \cup {k} /\ k \notin DOMAIN q
      /\ \A i \in DOMAIN q : r[i] = q[i]
      /\ r[k] = x
  BY OneMore
<1>2. \A i \in DOMAIN q : i < k /\ i \in Nat
  <2> DEFINE S == Range(q)
  <2>1. q \in Seq(S)  BY DEF IsSequence
  <2> HIDE DEF S
  <2> QED BY <2>1
<1>3. k \in Nat
  <2> DEFINE S == Range(q)
  <2>1. q \in Seq(S)  BY DEF IsSequence
  <2> HIDE DEF S
  <2> QED BY <2>1
<1> HIDE DEF r, k
<1>4. /\ DOMAIN t = DOMAIN q \cup {k} /\ DOMAIN s = DOMAIN q
      /\ \A i \in DOMAIN q : t[i] = s[i]
      /\ t[k] = Notice(x)
  BY <1>1 DEF Notices
<1>5. /\ MessageFor(t[k], "mqtt") <=> x.type = "PUBLISH"
      /\ x.type = "PUBLISH" => t[k][1].body = x.body
  BY <1>4, NoticeFor
<1> HIDE DEF s, t
<1>6. BodiesIn(t, "mqtt") =
          BodiesIn(s, "mqtt") \cup (IF x.type = "PUBLISH" THEN {x.body} ELSE {})
  BY <1>1, <1>4, <1>5 DEF BodiesIn
<1>7. InOrder(t, "mqtt")
  <2> SUFFICES ASSUME NEW i \in DOMAIN t, NEW j \in DOMAIN t, i < j,
                      MessageFor(t[i], "mqtt"), MessageFor(t[j], "mqtt")
               PROVE  t[i][1].body < t[j][1].body
    BY DEF InOrder
  <2>1. i # k  BY <1>2, <1>3, <1>4
  <2>2. i \in DOMAIN s /\ t[i] = s[i]  BY <1>4, <2>1
  <2>3. CASE j = k
    <3>1. s[i][1].body \in BodiesIn(s, "mqtt")  BY <2>2 DEF BodiesIn
    <3> QED BY <1>5, <2>2, <2>3, <3>1 DEF s
  <2>4. CASE j # k
    <3>1. j \in DOMAIN s /\ t[j] = s[j]  BY <1>4, <2>4
    <3> QED BY <2>2, <3>1 DEF InOrder, s
  <2> QED BY <2>3, <2>4
<1> QED BY <1>6, <1>7 DEF r, s, t

(* and the one at the head is the oldest of them.                          *)
LEMMA NoticeRead ==
    ASSUME NEW q, IsSequence(q), q # <<>>, InOrder(Notices(q), "mqtt")
    PROVE  LET h == Head(q)
               rest == BodiesIn(Notices(Tail(q)), "mqtt")
           IN  /\ InOrder(Notices(Tail(q)), "mqtt")
               /\ IF h.type = "PUBLISH"
                  THEN /\ BodiesIn(Notices(q), "mqtt") = {h.body} \cup rest
                       /\ \A n \in rest : h.body < n
                  ELSE BodiesIn(Notices(q), "mqtt") = rest
<1> DEFINE s == Notices(q)
           r == Tail(q)
           t == Notices(r)
           h == Head(q)
<1>1. /\ \A i \in DOMAIN r : i + 1 \in DOMAIN q /\ r[i] = q[i + 1] /\ i \in Nat /\ i >= 1
      /\ \A i \in DOMAIN q : i # 1 => i - 1 \in DOMAIN r /\ r[i - 1] = q[i]
      /\ 1 \in DOMAIN q
  BY Rest
<1>2. h = q[1]  BY HeadRead
<1> HIDE DEF r, h
<1>3. /\ DOMAIN t = DOMAIN r /\ DOMAIN s = DOMAIN q
      /\ \A i \in DOMAIN q : s[i] = Notice(q[i])
      /\ \A i \in DOMAIN r : t[i] = Notice(r[i])
  BY DEF Notices
<1> HIDE DEF s, t
<1>4. /\ \A i \in DOMAIN t : i + 1 \in DOMAIN s /\ t[i] = s[i + 1] /\ i \in Nat /\ i >= 1
      /\ \A i \in DOMAIN s : i # 1 => i - 1 \in DOMAIN t /\ t[i - 1] = s[i]
      /\ 1 \in DOMAIN s /\ s[1] = Notice(h)
  BY <1>1, <1>2, <1>3
<1>5. /\ MessageFor(s[1], "mqtt") <=> h.type = "PUBLISH"
      /\ h.type = "PUBLISH" => s[1][1].body = h.body
  BY <1>4, NoticeFor
<1>6. InOrder(t, "mqtt")
  <2> SUFFICES ASSUME NEW i \in DOMAIN t, NEW j \in DOMAIN t, i < j,
                      MessageFor(t[i], "mqtt"), MessageFor(t[j], "mqtt")
               PROVE  t[i][1].body < t[j][1].body
    BY DEF InOrder
  <2>1. i + 1 \in DOMAIN s /\ j + 1 \in DOMAIN s /\ i + 1 < j + 1  BY <1>4
  <2>2. t[i] = s[i + 1] /\ t[j] = s[j + 1]  BY <1>4
  <2> QED BY <2>1, <2>2 DEF InOrder, s
<1>7. \A n \in BodiesIn(t, "mqtt") :
          n \in BodiesIn(s, "mqtt") /\ (h.type = "PUBLISH" => h.body < n)
  <2> SUFFICES ASSUME NEW n \in BodiesIn(t, "mqtt")
               PROVE  n \in BodiesIn(s, "mqtt") /\ (h.type = "PUBLISH" => h.body < n)
    OBVIOUS
  <2>1. PICK i \in DOMAIN t : MessageFor(t[i], "mqtt") /\ n = t[i][1].body
    BY DEF BodiesIn
  <2>2. i + 1 \in DOMAIN s /\ t[i] = s[i + 1] /\ 1 < i + 1  BY <1>4
  <2> QED BY <1>4, <1>5, <2>1, <2>2 DEF BodiesIn, InOrder, s
<1>8. \A n \in BodiesIn(s, "mqtt") :
          n \in BodiesIn(t, "mqtt") \/ (h.type = "PUBLISH" /\ n = h.body)
  <2> SUFFICES ASSUME NEW n \in BodiesIn(s, "mqtt")
               PROVE  n \in BodiesIn(t, "mqtt") \/ (h.type = "PUBLISH" /\ n = h.body)
    OBVIOUS
  <2>1. PICK i \in DOMAIN s : MessageFor(s[i], "mqtt") /\ n = s[i][1].body
    BY DEF BodiesIn
  <2>2. CASE i = 1  BY <1>5, <2>1, <2>2
  <2>3. CASE i # 1
    <3>1. i - 1 \in DOMAIN t /\ t[i - 1] = s[i]  BY <1>4, <2>3
    <3> QED BY <2>1, <3>1 DEF BodiesIn
  <2> QED BY <2>2, <2>3
<1>9. h.type = "PUBLISH" => h.body \in BodiesIn(s, "mqtt")
  BY <1>4, <1>5 DEF BodiesIn
<1>10. IF h.type = "PUBLISH"
       THEN /\ BodiesIn(s, "mqtt") = {h.body} \cup BodiesIn(t, "mqtt")
            /\ \A n \in BodiesIn(t, "mqtt") : h.body < n
       ELSE BodiesIn(s, "mqtt") = BodiesIn(t, "mqtt")
  <2>1. CASE h.type = "PUBLISH"
    <3>1. BodiesIn(s, "mqtt") = {h.body} \cup BodiesIn(t, "mqtt")
      BY <1>7, <1>8, <1>9, <2>1
    <3> QED BY <1>7, <2>1, <3>1
  <2>2. CASE h.type # "PUBLISH"
    <3>1. BodiesIn(s, "mqtt") = BodiesIn(t, "mqtt")  BY <1>7, <1>8, <2>2
    <3> QED BY <2>2, <3>1
  <2> QED BY <2>1, <2>2
<1> QED BY <1>6, <1>10 DEF s, t, r, h

(* One packet more to the broker                                           *)
LEMMA MqttSendsPage ==
    ASSUME PageRight, IsPage, MqttAsking \/ MqttServing, areas' = areas,
           UNCHANGED NotMqtt, Between(mqtt'), mqtt'.socket = mqtt.socket,
           mqtt'.connected = mqtt.connected, mqtt'.connectTimer = mqtt.connectTimer,
           NEW m, m.type = "PINGREQ", link' = LinkStep(link, m)
    PROVE  PageRight' /\ UNCHANGED areas.stompNotification
<1>1. LinkType(link)  BY DEF PageRight, MqttRight
<1>2. /\ LinkType(link') /\ link'.toBroker = Append(link.toBroker, m)
      /\ link'.toClient = link.toClient /\ link'.state = link.state
      /\ link'.subscribed = link.subscribed /\ link'.since = link.since
  BY <1>1, LinkSends
<1>3. \A m1, n : LogSays(m1, n) => LogSays(m1, n)'  BY DEF LogSays
<1>4. LinkUnjoined => LinkUnjoined'  BY <1>2 DEF LinkUnjoined
<1>5. IsSequence(link.toBroker)
  BY DEF MqttAsking, MqttServing, Types, FirstThen
<1>6. /\ \A types : Types(link.toBroker, types) /\ "PINGREQ" \in types
                        => Types(link'.toBroker, types)
      /\ FirstThen(link.toBroker, "CONNECT", "PINGREQ")
             => FirstThen(link'.toBroker, "CONNECT", "PINGREQ")
      /\ Single(link.toBroker, "SUBSCRIBE") => Single(link'.toBroker, "SUBSCRIBE")
  <2>1. \A types : Types(link.toBroker, types) /\ m.type \in types
                       => Types(Append(link.toBroker, m), types)
    BY <1>5, PacketAdded
  <2>2. FirstThen(link.toBroker, "CONNECT", "PINGREQ")
            => FirstThen(Append(link.toBroker, m), "CONNECT", "PINGREQ")
    BY <1>5, PacketAdded
  <2>3. Single(link.toBroker, "SUBSCRIBE") => Single(Append(link.toBroker, m), "SUBSCRIBE")
    BY <1>5, OnlyOne
  <2> QED BY <1>2, <2>1, <2>2, <2>3
<1>7. MqttAsking => MqttAsking'
  BY <1>2, <1>3, <1>4, <1>6 DEF MqttAsking
<1>8. LinkJoined => LinkJoined'
  <2>1. published' = published  BY DEF NotMqtt
  <2> QED BY <1>2, <2>1 DEF LinkJoined
<1>9. MqttServing => MqttServing'
  BY <1>2, <1>3, <1>4, <1>6, <1>8 DEF MqttServing
<1> QED BY <1>2, <1>7, <1>9, MqttSilent

(* The connect timer and the two pingers end the connection, or ping.      *)
LEMMA MqttTimerPage ==
    ASSUME PageRight, MqttTimer PROVE PageRight' /\ UNCHANGED areas.stompNotification
<1>1. IsPage /\ MqttRight /\ Between(mqtt) /\ LinkType(link)
  BY DEF MqttTimer, PageRight, MqttRight
<1>2. ASSUME mqtt.connectTimer, MqttTurn(Mqtt!ConnectTimeout(mqtt), link)
      PROVE  PageRight' /\ UNCHANGED areas.stompNotification
  <2> DEFINE d == Mqtt!ConnectTimeout(mqtt)
  <2>1. MqttConnecting \/ MqttAsking
    BY <1>1, <1>2 DEF MqttRight, MqttServing, MqttGone
  <2>2. Left(mqtt, d)  BY <1>1, MqttFails
  <2>3. MqttTurn(d, link)  BY <1>2
  <2> HIDE DEF d
  <2> QED BY <1>1, <2>1, <2>2, <2>3, MqttGivesUpPage
<1>3. ASSUME NEW which \in {"sendPinger", "receivePinger"}, mqtt[which].armed,
             MqttTurn(Mqtt!doPing(mqtt, which), link)
      PROVE  PageRight' /\ UNCHANGED areas.stompNotification
  <2> DEFINE d == Mqtt!doPing(mqtt, which)
  <2>1. MqttAsking \/ MqttServing
    BY <1>1, <1>3 DEF MqttRight, MqttConnecting, MqttGone
  <2>2. \/ /\ Said(mqtt, d, "PINGREQ") /\ d.socket = mqtt.socket
           /\ d.connected = mqtt.connected /\ d.connectTimer = mqtt.connectTimer
        \/ Left(mqtt, d)
    BY <1>1, MqttPings
  <2>3. MqttTurn(d, link)  BY <1>3
  <2> HIDE DEF d
  <2>4. CASE Left(mqtt, d)
    BY <1>1, <2>1, <2>3, <2>4, MqttGivesUpPage DEF MqttConnecting, MqttAsking, MqttServing
  <2>5. CASE /\ Said(mqtt, d, "PINGREQ") /\ d.socket = mqtt.socket
             /\ d.connected = mqtt.connected /\ d.connectTimer = mqtt.connectTimer
    <3>1. PICK m : m.type = "PINGREQ" /\ d.out = <<m>>  BY <2>5 DEF Said
    <3>2. Idle(d) /\ d.calls = <<>>  BY <1>1, <2>5 DEF Said, Between
    <3>3. /\ Between(mqtt') /\ mqtt'.socket = d.socket
          /\ mqtt'.connected = d.connected /\ mqtt'.connectTimer = d.connectTimer
          /\ link' = FoldLeft(LinkStep, link, d.out)
          /\ areas' = FoldLeft(Show, areas, d.calls) /\ UNCHANGED NotMqtt
      BY <2>3, <3>2, MqttTurned
    <3>4. areas' = areas  BY <3>2, <3>3, NothingShown
    <3>5. link' = LinkStep(link, m)  BY <3>1, <3>3, PassedOne
    <3> QED BY <1>1, <2>1, <2>5, <3>1, <3>3, <3>4, <3>5, MqttSendsPage
  <2> QED BY <2>2, <2>4, <2>5
<1> QED BY <1>2, <1>3 DEF MqttTimer

(* The broker takes a packet and answers it.                               *)
LEMMA BrokerTakes ==
    ASSUME NEW l, LinkType(l), NEW x
    PROVE  LET v == BrokerAnswers(l, x)
           IN  /\ LinkType(v) /\ v.toBroker = Tail(l.toBroker)
               /\ v.toClient = Append(l.toClient, x) /\ v.state = l.state
               /\ v.subscribed = l.subscribed /\ v.since = l.since
<1> DEFINE q == Append(l.toClient, x)
           r == Tail(l.toBroker)
           v == [l EXCEPT !.toBroker = r, !.toClient = q]
<1>1. BrokerAnswers(l, x) = v  BY DEF BrokerAnswers
<1> HIDE DEF q, r
<1>2. /\ LinkType(v) /\ v.toBroker = r /\ v.toClient = q /\ v.state = l.state
      /\ v.subscribed = l.subscribed /\ v.since = l.since
  BY DEF LinkType
<1> HIDE DEF v
<1> QED BY <1>1, <1>2 DEF q, r

(* What a step of the broker leaves alone                                  *)
LEMMA BrokerSilent ==
    ASSUME PageRight, UNCHANGED <<config, sock, mqtt, areas>>, IsPage, LinkType(link'),
           Run(areas.mqttNotification, link'.since),
           MqttAsking' \/ MqttServing'
    PROVE  PageRight'
<1>1. SockRight /\ AreasType(areas) /\ MqttRight  BY DEF PageRight
<1>2. SockRight'  BY <1>1, SockElsewhere
<1>3. IsPage' /\ areas' = areas /\ Between(mqtt)'
  <2>1. mqtt' = mqtt /\ Between(mqtt)  BY <1>1 DEF MqttRight
  <2> QED BY <2>1 DEF IsPage
<1>4. MqttRight'  BY <1>1, <1>3 DEF MqttRight
<1>5. AreasType(areas')  BY <1>1
<1> QED BY <1>2, <1>4, <1>5 DEF PageRight

(* The broker answers a packet; from SUBSCRIBE on the page is owed what is *)
(* published.                                                              *)
LEMMA MqttServesPage ==
    ASSUME PageRight, MqttServes, published \in [Topics -> Nat]
    PROVE PageRight' /\ UNCHANGED areas.stompNotification
<1> DEFINE packet == Head(link.toBroker)
<1>1. /\ link.state = "open" /\ link.toBroker # <<>>
      /\ UNCHANGED <<NotMqtt, mqtt, areas>>
      /\ MqttRight /\ LinkType(link)
  BY DEF MqttServes, PageRight, MqttRight
<1>2. IsPage /\ (MqttAsking \/ MqttServing)
  BY <1>1 DEF MqttRight, MqttConnecting, MqttGone
<1>3. /\ \A m, n : LogSays(m, n) => LogSays(m, n)'
      /\ UNCHANGED <<config, sock, mqtt, areas, published>>
  BY <1>1 DEF LogSays, NotMqtt
<1>4. IsSequence(link.toBroker) /\ IsSequence(link.toClient)
  <2>1. IsSequence(<<>>)  BY DEF IsSequence
  <2> QED BY <1>2, <2>1 DEF MqttAsking, MqttServing, Types, FirstThen
<1>5. /\ packet = link.toBroker[1]
      /\ \A types : Types(link.toBroker, types) =>
             packet.type \in types /\ Types(Tail(link.toBroker), types)
      /\ FirstThen(link.toBroker, "CONNECT", "PINGREQ") =>
             packet.type = "CONNECT" /\ Types(Tail(link.toBroker), {"PINGREQ"})
      /\ Single(link.toBroker, "SUBSCRIBE") =>
             /\ Single(Tail(link.toBroker), "SUBSCRIBE")
             /\ packet.type = "SUBSCRIBE" => \A i \in DOMAIN Tail(link.toBroker) :
                    Tail(link.toBroker)[i].type # "SUBSCRIBE"
  BY <1>1, <1>4, PacketRead, OnlyOne
<1> HIDE DEF packet
<1>6. ASSUME NEW x
      PROVE  /\ \A types : Types(link.toClient, types) /\ x.type \in types
                               => Types(Append(link.toClient, x), types)
             /\ FirstThen(link.toClient, "CONNACK", "PINGRESP") /\ x.type = "PINGRESP"
                    => FirstThen(Append(link.toClient, x), "CONNACK", "PINGRESP")
             /\ link.toClient = <<>>
                    => FirstThen(Append(link.toClient, x), x.type, "PINGRESP")
             /\ Append(link.toClient, x) # <<>>
             /\ \A i \in DOMAIN Append(link.toClient, x) :
                    \/ i \in DOMAIN link.toClient
                           /\ Append(link.toClient, x)[i] = link.toClient[i]
                    \/ Append(link.toClient, x)[i] = x
  <2>1. \A types : Types(link.toClient, types) /\ x.type \in types
            => Types(Append(link.toClient, x), types)
    BY <1>4, PacketAdded
  <2>2. /\ FirstThen(link.toClient, "CONNACK", "PINGRESP") /\ x.type = "PINGRESP"
               => FirstThen(Append(link.toClient, x), "CONNACK", "PINGRESP")
        /\ link.toClient = <<>>
               => FirstThen(Append(link.toClient, x), x.type, "PINGRESP")
    BY <1>4, PacketAdded
  <2>3. /\ Append(link.toClient, x) # <<>>
        /\ \A i \in DOMAIN Append(link.toClient, x) :
               \/ i \in DOMAIN link.toClient
                      /\ Append(link.toClient, x)[i] = link.toClient[i]
               \/ Append(link.toClient, x)[i] = x
    BY <1>4, OneMore
  <2> QED BY <2>1, <2>2, <2>3
<1>7. Run(areas.mqttNotification, link.since) /\ areas.mqttNotification \in Seq(Nat)
  BY <1>1 DEF MqttRight
<1>8. CASE packet.type = "CONNECT"
  <2>1. MqttAsking /\ link.toClient = <<>>
    BY <1>2, <1>5, <1>8 DEF MqttAsking, MqttServing
  <2>2. \E code : link' = BrokerAnswers(link, Mqtt!WireMessage("CONNACK", 0, code))
    BY <1>8 DEF MqttServes, packet
  <2>3. PICK x : x.type = "CONNACK" /\ link' = BrokerAnswers(link, x)
    BY <2>2 DEF Mqtt!WireMessage
  <2>4. /\ LinkType(link') /\ link'.toBroker = Tail(link.toBroker)
        /\ link'.toClient = Append(link.toClient, x) /\ link'.state = link.state
        /\ link'.subscribed = link.subscribed /\ link'.since = link.since
    BY <1>1, <2>3, BrokerTakes
  <2>5. LinkUnjoined'
    BY <1>1, <1>6, <2>1, <2>3, <2>4 DEF LinkUnjoined, MqttAsking
  <2>6. MqttAsking'
    BY <1>3, <1>5, <1>6, <2>1, <2>3, <2>4, <2>5 DEF MqttAsking
  <2> QED BY <1>2, <1>3, <1>7, <2>4, <2>6, BrokerSilent
<1>9. CASE packet.type = "PINGREQ"
  <2>1. link' = BrokerAnswers(link, Mqtt!Ack("PINGRESP", 0))
    BY <1>9 DEF MqttServes, packet
  <2>2. PICK x : x.type = "PINGRESP" /\ link' = BrokerAnswers(link, x)
    BY <2>1 DEF Mqtt!Ack, Mqtt!WireMessage
  <2>3. /\ LinkType(link') /\ link'.toBroker = Tail(link.toBroker)
        /\ link'.toClient = Append(link.toClient, x) /\ link'.state = link.state
        /\ link'.subscribed = link.subscribed /\ link'.since = link.since
    BY <1>1, <2>2, BrokerTakes
  <2>4. LinkUnjoined => LinkUnjoined'
    BY <1>1, <1>6, <2>2, <2>3 DEF LinkUnjoined
  <2>5. LinkJoined => LinkJoined'
    <3> SUFFICES ASSUME LinkJoined PROVE LinkJoined'
      OBVIOUS
    <3>1. InOrder(Notices(link.toClient), "mqtt")  BY DEF LinkJoined
    <3>2. /\ InOrder(Notices(Append(link.toClient, x)), "mqtt")
          /\ BodiesIn(Notices(Append(link.toClient, x)), "mqtt") =
                 BodiesIn(Notices(link.toClient), "mqtt")
                     \cup (IF x.type = "PUBLISH" THEN {x.body} ELSE {})
      BY <1>4, <2>2, <3>1, NoticeAdded
    <3>3. BodiesIn(Notices(Append(link.toClient, x)), "mqtt") =
              BodiesIn(Notices(link.toClient), "mqtt")
      BY <2>2, <3>2
    <3> QED BY <1>3, <2>3, <3>2, <3>3 DEF LinkJoined
  <2>6. CASE MqttAsking
    <3>1. link.toClient # <<>>  BY <1>5, <1>9, <2>6 DEF MqttAsking
    <3>2. MqttAsking'
      BY <1>3, <1>5, <1>6, <2>2, <2>3, <2>4, <2>6, <3>1 DEF MqttAsking
    <3> QED BY <1>2, <1>3, <1>7, <2>3, <3>2, BrokerSilent
  <2>7. CASE MqttServing
    <3>1. \A i \in DOMAIN link'.toClient :
              link'.toClient[i].type = "PUBLISH" => link'.toClient[i].body \in Notifications
      BY <1>6, <2>2, <2>3, <2>7 DEF MqttServing
    <3>2. MqttServing'
      BY <1>3, <1>5, <1>6, <2>2, <2>3, <2>4, <2>5, <2>7, <3>1 DEF MqttServing
    <3> QED BY <1>2, <1>3, <1>7, <2>3, <3>2, BrokerSilent
  <2> QED BY <1>2, <2>6, <2>7
<1>10. CASE packet.type = "SUBSCRIBE"
  <2> DEFINE x == Mqtt!Ack("SUBACK", packet.id)
             v == BrokerAnswers(link, x)
             now == published[PageTopic]
  <2>1. link' = [v EXCEPT !.subscribed = TRUE, !.since = now]
    BY <1>10 DEF MqttServes, packet
  <2>2. x.type = "SUBACK"  BY DEF Mqtt!Ack, Mqtt!WireMessage
  <2>3. now \in Nat  BY PageAssumption
  <2> HIDE DEF x, v, now
  <2>4. /\ LinkType(v) /\ v.toBroker = Tail(link.toBroker)
        /\ v.toClient = Append(link.toClient, x) /\ v.state = link.state
    BY <1>1, BrokerTakes DEF v
  <2>5. /\ LinkType(link') /\ link'.toBroker = v.toBroker
        /\ link'.toClient = v.toClient /\ link'.state = v.state
        /\ link'.subscribed /\ link'.since = now
    BY <2>1, <2>4 DEF LinkType
  <2>6. MqttServing /\ LinkUnjoined
    <3>1. MqttServing  BY <1>2, <1>5, <1>10 DEF MqttAsking
    <3>2. ~ Types(link.toBroker, {"PINGREQ"})  BY <1>5, <1>10
    <3> QED BY <3>1, <3>2 DEF MqttServing
  <2>7. Types(link'.toBroker, {"PINGREQ"})
    <3>1. \A i \in DOMAIN Tail(link.toBroker) : Tail(link.toBroker)[i].type # "SUBSCRIBE"
      BY <1>5, <1>10, <2>6 DEF MqttServing
    <3>2. Types(Tail(link.toBroker), {"SUBSCRIBE", "PINGREQ"})
      BY <1>5, <2>6 DEF MqttServing
    <3> QED BY <2>4, <2>5, <3>1, <3>2 DEF Types
  <2>8. \A i \in DOMAIN link'.toClient : link'.toClient[i].type # "PUBLISH"
    BY <1>6, <2>2, <2>4, <2>5, <2>6 DEF LinkUnjoined
  <2>9. LinkJoined'
    <3>1. \A i \in DOMAIN Notices(link'.toClient) :
              ~ MessageFor(Notices(link'.toClient)[i], "mqtt")
      BY <2>8, NoticeFor DEF Notices
    <3>2. /\ InOrder(Notices(link'.toClient), "mqtt")
          /\ BodiesIn(Notices(link'.toClient), "mqtt") = {}
      BY <3>1 DEF InOrder, BodiesIn
    <3>3. areas'.mqttNotification = <<>> /\ Len(<<>>) = 0
      BY <1>3, <2>6 DEF LinkUnjoined
    <3>4. \A n \in Nat : n + 0 = n /\ n <= n /\ {} = n + 1 .. n  OBVIOUS
    <3>5. published'[PageTopic] = now  BY <1>3 DEF now
    <3> QED BY <2>3, <2>5, <3>2, <3>3, <3>4, <3>5 DEF LinkJoined
  <2>10. MqttServing'
    <3>1. Types(link'.toBroker, {"SUBSCRIBE", "PINGREQ"})
          /\ Single(link'.toBroker, "SUBSCRIBE")
      BY <1>5, <2>4, <2>5, <2>6 DEF MqttServing
    <3>2. Types(link'.toClient, {"SUBACK", "PINGRESP", "PUBLISH"})
      BY <1>6, <2>2, <2>4, <2>5, <2>6 DEF MqttServing
    <3>3. link'.state = "open" /\ mqtt' = mqtt  BY <1>1, <2>4, <2>5
    <3> QED BY <1>3, <2>6, <2>7, <2>8, <2>9, <3>1, <3>2, <3>3 DEF MqttServing
  <2>11. Run(areas.mqttNotification, now)
    <3>1. areas.mqttNotification = <<>>  BY <2>6 DEF LinkUnjoined
    <3> QED BY <3>1 DEF Run
  <2> QED BY <1>2, <1>3, <2>5, <2>10, <2>11, BrokerSilent
<1> QED BY <1>8, <1>9, <1>10 DEF MqttServes, packet

-----------------------------------------------------------------------------
(* What the client makes of a packet, and the queue it leaves behind       *)
LinkAfter == [link EXCEPT !.toClient = Tail(@)]

(* Taking the head from it changes nothing else.                           *)
LEMMA LinkDelivers ==
    ASSUME LinkType(link)
    PROVE  LET l == LinkAfter
           IN  /\ LinkType(l) /\ l.toBroker = link.toBroker
               /\ l.toClient = Tail(link.toClient) /\ l.state = link.state
               /\ l.subscribed = link.subscribed /\ l.since = link.since
<1> DEFINE q == Tail(link.toClient)
           l == [link EXCEPT !.toClient = q]
<1>1. LinkAfter = l  BY DEF LinkAfter
<1> HIDE DEF q
<1>2. /\ LinkType(l) /\ l.toBroker = link.toBroker
      /\ l.toClient = q /\ l.state = link.state
      /\ l.subscribed = link.subscribed /\ l.since = link.since
  BY DEF LinkType
<1> HIDE DEF l
<1> QED BY <1>1, <1>2 DEF q

(* The broker lets the client in: the page says so and asks for the topic. *)
LEMMA MqttConnectsPage ==
    ASSUME PageRight, IsPage, MqttAsking, link.toClient # <<>>,
           MqttTurn(Mqtt!ConnAck(Heard(mqtt), 0), LinkAfter)
    PROVE  PageRight' /\ UNCHANGED areas.stompNotification
<1> DEFINE h == Heard(mqtt)
           d == Mqtt!ConnAck(h, 0)
           l == LinkAfter
<1>1. MqttRight /\ Between(mqtt) /\ LinkType(link) /\ AreasType(areas)
  BY DEF PageRight, MqttRight
<1>2. Between(h) /\ h.socket = "open"
  <2>1. LET g == Heard(mqtt)
        IN  /\ Between(g) /\ g.socket = mqtt.socket /\ g.connected = mqtt.connected
            /\ g.connectTimer = mqtt.connectTimer /\ g.attempt = mqtt.attempt
    BY <1>1, MqttHears
  <2> QED BY <2>1 DEF MqttAsking
<1> HIDE DEF h
<1>3. /\ Idle(d) /\ d.socket = "open" /\ d.connected /\ ~ d.connectTimer
      /\ d.calls = <<<<"onSuccess", h.attempt>>>>
      /\ \E m : m.type = "SUBSCRIBE" /\ d.out = <<m>>
  BY <1>2, MqttAccepted
<1>4. MqttTurn(d, l)  BY DEF h
<1> HIDE DEF d
<1>5. /\ LinkType(l) /\ l.toBroker = link.toBroker /\ l.toClient = Tail(link.toClient)
      /\ l.state = link.state /\ l.subscribed = link.subscribed /\ l.since = link.since
  BY <1>1, LinkDelivers
<1> HIDE DEF l
<1>6. PICK m : m.type = "SUBSCRIBE" /\ d.out = <<m>>  BY <1>3
<1>7. /\ Between(mqtt') /\ mqtt'.socket = "open" /\ mqtt'.connected
      /\ ~ mqtt'.connectTimer /\ link' = FoldLeft(LinkStep, l, d.out)
      /\ areas' = FoldLeft(Show, areas, d.calls) /\ UNCHANGED NotMqtt
  BY <1>3, <1>4, MqttTurned
<1>8. link' = LinkStep(l, m)  BY <1>6, <1>7, PassedOne
<1>9. /\ LinkType(link') /\ link'.toBroker = Append(link.toBroker, m)
      /\ link'.toClient = Tail(link.toClient)
      /\ link'.state = "open" /\ link'.subscribed = link.subscribed
      /\ link'.since = link.since
  BY <1>5, <1>6, <1>8, LinkSends DEF MqttAsking
<1>10. OneLine(areas', "MQTT connected")
  BY <1>1, <1>3, <1>7, MqttLogged
<1>11. /\ AreasType(areas') /\ areas'.responseText = areas.responseText
       /\ areas'.stompNotification = areas.stompNotification
       /\ areas'.mqttNotification = areas.mqttNotification
       /\ areas'.debug["MQTT connected"] = areas.debug["MQTT connected"] + 1
       /\ areas'.debug["MQTT lost"] = areas.debug["MQTT lost"]
       /\ areas'.debug["MQTT failure"] = areas.debug["MQTT failure"]
       /\ areas'.debug["WS closed"] = areas.debug["WS closed"]
  BY <1>10 DEF OneLine, DebugLines
<1>12. LogSays(1, 0)'
  <2>1. \A n : n = 0 => n + 1 = 1 /\ 0 <= 1  OBVIOUS
  <2>2. \A a, b \in Nat : a + b = 0 => a = 0  OBVIOUS
  <2>3. LogSays(0, 0)  BY DEF MqttAsking
  <2>4. areas.debug["MQTT connected"] = 0 /\ areas.debug["MQTT lost"] = 0
    BY <2>2, <2>3 DEF LogSays
  <2>5. areas'.debug["MQTT connected"] = 1  BY <1>11, <2>1, <2>4
  <2> QED BY <1>11, <2>1, <2>3, <2>4, <2>5 DEF LogSays
<1>13. IsSequence(link.toBroker) /\ IsSequence(link.toClient)
       /\ Types(link.toBroker, {"PINGREQ"})
       /\ FirstThen(link.toClient, "CONNACK", "PINGRESP")
  BY DEF MqttAsking, Types, FirstThen
<1>14. Types(Tail(link.toClient), {"PINGRESP"})
  BY <1>13, PacketRead
<1>15. Types(Append(link.toBroker, m), {"SUBSCRIBE", "PINGREQ"})
       /\ Single(Append(link.toBroker, m), "SUBSCRIBE")
  <2>1. Types(link.toBroker, {"SUBSCRIBE", "PINGREQ"})  BY <1>13 DEF Types
  <2>2. \A i \in DOMAIN link.toBroker : link.toBroker[i].type # "SUBSCRIBE"
    BY <1>13 DEF Types
  <2>3. Single(link.toBroker, "SUBSCRIBE")  BY <2>2 DEF Single
  <2>4. Types(Append(link.toBroker, m), {"SUBSCRIBE", "PINGREQ"})
    BY <1>6, <1>13, <2>1, PacketAdded
  <2>5. Single(Append(link.toBroker, m), "SUBSCRIBE")
    BY <1>13, <2>2, <2>3, OnlyOne
  <2> QED BY <2>4, <2>5
<1>16. /\ Types(link'.toClient, {"SUBACK", "PINGRESP", "PUBLISH"})
       /\ \A i \in DOMAIN link'.toClient : link'.toClient[i].type # "PUBLISH"
  BY <1>9, <1>14 DEF Types
<1>17. LinkUnjoined'
  BY <1>9, <1>11, <1>16 DEF LinkUnjoined, MqttAsking
<1>18. MqttServing'
  BY <1>7, <1>9, <1>12, <1>15, <1>16, <1>17 DEF MqttServing
<1>19. MqttRight'
  <2>1. IsPage'  BY <1>7 DEF NotMqtt, IsPage
  <2>2. areas'.mqttNotification \in Seq(Nat) /\ Run(areas.mqttNotification, link.since)'
    BY <1>1, <1>9, <1>11 DEF MqttRight
  <2> QED BY <1>7, <1>9, <1>18, <2>1, <2>2 DEF MqttRight
<1>20. PageRight'  BY <1>7, <1>11, <1>19, MqttKeepsSock
<1> QED BY <1>11, <1>20

(* A notification is shown above those before.                             *)
LEMMA MqttTellsPage ==
    ASSUME PageRight, IsPage, MqttServing, link.toClient # <<>>,
           Head(link.toClient).type = "PUBLISH", published \in [Topics -> Nat],
           MqttTurn(Mqtt!receivePublish(Heard(mqtt), Head(link.toClient)), LinkAfter)
    PROVE  PageRight' /\ UNCHANGED areas.stompNotification
<1> DEFINE h == Heard(mqtt)
           packet == Head(link.toClient)
           d == Mqtt!receivePublish(h, packet)
           l == LinkAfter
           n == packet.body
           text == appendTextArea(areas.mqttNotification, n)
           len == Len(areas.mqttNotification)
           rest == Tail(link.toClient)
<1>1. /\ MqttRight /\ Between(mqtt) /\ LinkType(link) /\ AreasType(areas)
      /\ areas.mqttNotification \in Seq(Nat) /\ Run(areas.mqttNotification, link.since)
  BY DEF PageRight, MqttRight
<1>2. /\ Between(h) /\ h.socket = "open" /\ h.connected /\ ~ h.connectTimer
  <2>1. LET g == Heard(mqtt)
        IN  /\ Between(g) /\ g.socket = mqtt.socket /\ g.connected = mqtt.connected
            /\ g.connectTimer = mqtt.connectTimer /\ g.attempt = mqtt.attempt
    BY <1>1, MqttHears
  <2> QED BY <2>1 DEF MqttServing
<1>3. MqttTurn(d, l)  OBVIOUS
<1>4. /\ IsSequence(link.toClient)
      /\ Types(link.toClient, {"SUBACK", "PINGRESP", "PUBLISH"})
  BY DEF MqttServing, Types
<1>5. /\ packet = link.toClient[1] /\ 1 \in DOMAIN link.toClient
      /\ Types(rest, {"SUBACK", "PINGRESP", "PUBLISH"})
      /\ \A i \in DOMAIN rest : i + 1 \in DOMAIN link.toClient
                                    /\ rest[i] = link.toClient[i + 1]
  BY <1>4, PacketRead, Rest
<1>6. packet.type = "PUBLISH"  OBVIOUS
<1> HIDE DEF h, packet, l, rest
<1>7. n \in Notifications  BY <1>5, <1>6 DEF MqttServing
<1>8. /\ Idle(d) /\ d.out = <<>> /\ d.socket = "open" /\ d.connected
      /\ ~ d.connectTimer /\ d.calls = <<<<"onMessageArrived", n>>>>
  BY <1>2, <1>6, <1>7, MqttArrives DEF Still
<1>9. /\ LinkType(l) /\ l.toBroker = link.toBroker /\ l.toClient = rest
      /\ l.state = link.state /\ l.subscribed = link.subscribed /\ l.since = link.since
  BY <1>1, LinkDelivers DEF l, rest
<1> HIDE DEF d
<1>10. /\ Between(mqtt') /\ mqtt'.socket = "open" /\ mqtt'.connected
       /\ ~ mqtt'.connectTimer /\ link' = FoldLeft(LinkStep, l, d.out)
       /\ areas' = FoldLeft(Show, areas, d.calls) /\ UNCHANGED NotMqtt
  BY <1>3, <1>8, MqttTurned
<1>11. link' = l  BY <1>8, <1>10, PassedNone
<1>12. areas' = [areas EXCEPT !.mqttNotification = text]
  <2> DEFINE call == <<"onMessageArrived", n>>
  <2>1. call[1] = "onMessageArrived" /\ call[2] = n  OBVIOUS
  <2>2. d.calls = <<call>>  BY <1>8
  <2> HIDE DEF call
  <2>3. areas' = Show(areas, call)  BY <1>10, <2>2, LoggedOne
  <2> QED BY <2>1, <2>3 DEF Show
<1>13. LinkJoined
  BY <1>5, <1>6 DEF MqttServing, LinkUnjoined
<1>14. PICK last : /\ last = link.since + len /\ link.subscribed /\ link.since \in Nat
                   /\ last <= published[PageTopic]
                   /\ InOrder(Notices(link.toClient), "mqtt")
                   /\ BodiesIn(Notices(link.toClient), "mqtt")
                          = last + 1 .. published[PageTopic]
                   /\ Types(link.toBroker, {"PINGREQ"})
  BY <1>13 DEF LinkJoined, MqttServing, LinkUnjoined
<1>15. len \in Nat /\ last \in Nat  BY <1>1, <1>14
<1>16. /\ InOrder(Notices(rest), "mqtt")
       /\ BodiesIn(Notices(link.toClient), "mqtt")
              = {n} \cup BodiesIn(Notices(rest), "mqtt")
       /\ \A m \in BodiesIn(Notices(rest), "mqtt") : n < m
  <2>1. LET g == Head(link.toClient)
            more == BodiesIn(Notices(Tail(link.toClient)), "mqtt")
        IN  /\ InOrder(Notices(Tail(link.toClient)), "mqtt")
            /\ IF g.type = "PUBLISH"
               THEN /\ BodiesIn(Notices(link.toClient), "mqtt") = {g.body} \cup more
                    /\ \A m \in more : g.body < m
               ELSE BodiesIn(Notices(link.toClient), "mqtt") = more
    BY <1>4, <1>14, NoticeRead
  <2> QED BY <1>6, <2>1 DEF packet, rest
<1> DEFINE now == published[PageTopic]
           coming == BodiesIn(Notices(rest), "mqtt")
<1>17. n = last + 1 /\ now \in Int /\ coming = n + 1 .. now /\ n <= now
  <2>1. {n} \cup coming = last + 1 .. now /\ \A m \in coming : n < m
    BY <1>14, <1>16
  <2>2. n \in last + 1 .. now  BY <2>1
  <2>3. now \in Int  BY PageAssumption
  <2> HIDE DEF n, now, coming
  <2>4. n \in Int /\ n >= last + 1 /\ n <= now  BY <1>15, <2>2, <2>3
  <2>5. last + 1 \in {n} \cup coming  BY <1>15, <2>1, <2>3, <2>4
  <2>6. n = last + 1  BY <1>15, <2>1, <2>4, <2>5
  <2>7. ASSUME NEW m PROVE m \in coming <=> m \in n + 1 .. now
    <3>1. ASSUME m \in coming PROVE m \in n + 1 .. now
      <4>1. n < m /\ m \in last + 1 .. now  BY <2>1, <3>1
      <4> QED BY <1>15, <2>3, <2>4, <4>1
    <3>2. ASSUME m \in n + 1 .. now PROVE m \in coming
      <4>1. m \in last + 1 .. now /\ m # n  BY <1>15, <2>3, <2>4, <2>6, <3>2
      <4> QED BY <2>1, <4>1
    <3> QED BY <3>1, <3>2
  <2>8. coming = n + 1 .. now  BY <2>7
  <2> QED BY <2>3, <2>4, <2>6, <2>8
<1> HIDE DEF now, coming
<1>18. n \in Nat /\ n = link.since + len + 1  BY <1>14, <1>15, <1>17
<1>19. text \in Seq(Nat) /\ Len(text) = len + 1 /\ Run(text, link.since)
  <2> HIDE DEF n
  <2>1. LET more == appendTextArea(areas.mqttNotification, n)
        IN  /\ more \in Seq(Nat) /\ Len(more) = Len(areas.mqttNotification) + 1
            /\ Run(more, link.since)
    BY <1>1, <1>14, <1>18, RunGrows
  <2> QED BY <2>1
<1> HIDE DEF text, n
<1>20. /\ AreasType(areas') /\ areas'.mqttNotification = text
       /\ areas'.responseText = areas.responseText
       /\ areas'.stompNotification = areas.stompNotification
       /\ areas'.debug = areas.debug
  BY <1>1, <1>12 DEF AreasType
<1>21. LinkJoined'
  <2>1. published' = published  BY <1>10 DEF NotMqtt
  <2>2. link'.since + Len(areas'.mqttNotification) = n
    <3>1. link'.since = link.since  BY <1>9, <1>11
    <3>2. Len(areas'.mqttNotification) = len + 1  BY <1>19, <1>20
    <3> HIDE DEF len
    <3> QED BY <1>14, <1>15, <1>18, <3>1, <3>2
  <2>3. /\ InOrder(Notices(link'.toClient), "mqtt")
        /\ BodiesIn(Notices(link'.toClient), "mqtt") = n + 1 .. published'[PageTopic]
        /\ n <= published'[PageTopic]
    BY <1>9, <1>11, <1>16, <1>17, <2>1 DEF now, coming
  <2>4. link'.subscribed /\ link'.since \in Nat  BY <1>9, <1>11, <1>14
  <2> QED BY <2>2, <2>3, <2>4 DEF LinkJoined
<1>22. \A i \in DOMAIN link'.toClient :
           link'.toClient[i].type = "PUBLISH" => link'.toClient[i].body \in Notifications
  BY <1>5, <1>9, <1>11 DEF MqttServing
<1>23. LogSays(1, 0)'  BY <1>20 DEF LogSays, MqttServing
<1>24. MqttServing'
  <2>1. link'.state = "open" /\ link'.toBroker = link.toBroker
    BY <1>9, <1>11 DEF MqttServing
  <2>2. Types(link'.toBroker, {"PINGREQ"})  BY <1>14, <2>1
  <2>3. Types(link'.toBroker, {"SUBSCRIBE", "PINGREQ"})
        /\ Single(link'.toBroker, "SUBSCRIBE")
    BY <2>1 DEF MqttServing
  <2>4. Types(link'.toClient, {"SUBACK", "PINGRESP", "PUBLISH"})
    BY <1>5, <1>9, <1>11
  <2> QED BY <1>10, <1>21, <1>22, <1>23, <2>1, <2>2, <2>3, <2>4 DEF MqttServing
<1>25. MqttRight'
  <2>1. IsPage'  BY <1>10 DEF NotMqtt, IsPage
  <2>2. areas'.mqttNotification \in Seq(Nat) /\ Run(areas.mqttNotification, link.since)'
    BY <1>9, <1>11, <1>19, <1>20
  <2> QED BY <1>9, <1>10, <1>11, <1>24, <2>1, <2>2 DEF MqttRight
<1>26. PageRight'  BY <1>10, <1>20, <1>25, MqttKeepsSock
<1> QED BY <1>20, <1>26

(* An answer to a request or to a ping shows nothing.                      *)
LEMMA MqttAnsweredPage ==
    ASSUME PageRight, IsPage, MqttServing, link.toClient # <<>>,
           Head(link.toClient).type # "PUBLISH",
           NEW d, Still(Heard(mqtt), d),
           d.calls = <<>> \/ \E n : d.calls = <<<<"requestSuccess", n>>>>,
           MqttTurn(d, LinkAfter)
    PROVE  PageRight' /\ UNCHANGED areas.stompNotification
<1> DEFINE l == LinkAfter
           rest == Tail(link.toClient)
<1>1. MqttRight /\ Between(mqtt) /\ LinkType(link)
  BY DEF PageRight, MqttRight
<1>2. Idle(d) /\ d.out = <<>> /\ d.socket = "open" /\ d.connected /\ ~ d.connectTimer
  <2>1. LET g == Heard(mqtt)
        IN  /\ Between(g) /\ g.socket = mqtt.socket /\ g.connected = mqtt.connected
            /\ g.connectTimer = mqtt.connectTimer /\ g.attempt = mqtt.attempt
    BY <1>1, MqttHears
  <2> QED BY <2>1 DEF MqttServing, Still
<1>3. /\ LinkType(l) /\ l.toBroker = link.toBroker /\ l.toClient = rest
      /\ l.state = link.state /\ l.subscribed = link.subscribed /\ l.since = link.since
  BY <1>1, LinkDelivers
<1>4. MqttTurn(d, l)  OBVIOUS
<1> HIDE DEF l
<1>5. /\ Between(mqtt') /\ mqtt'.socket = "open" /\ mqtt'.connected
      /\ ~ mqtt'.connectTimer /\ link' = FoldLeft(LinkStep, l, d.out)
      /\ areas' = FoldLeft(Show, areas, d.calls) /\ UNCHANGED NotMqtt
  BY <1>2, <1>4, MqttTurned
<1>6. link' = l  BY <1>2, <1>5, PassedNone
<1>7. areas' = areas  BY <1>5, NothingShown
<1>8. /\ IsSequence(link.toClient)
      /\ Types(link.toClient, {"SUBACK", "PINGRESP", "PUBLISH"})
  BY DEF MqttServing, Types
<1>9. /\ Types(rest, {"SUBACK", "PINGRESP", "PUBLISH"})
      /\ \A i \in DOMAIN rest : i + 1 \in DOMAIN link.toClient
                                    /\ rest[i] = link.toClient[i + 1]
  BY <1>8, PacketRead, Rest
<1>10. LinkJoined => /\ InOrder(Notices(rest), "mqtt")
                     /\ BodiesIn(Notices(rest), "mqtt")
                            = BodiesIn(Notices(link.toClient), "mqtt")
  <2> SUFFICES ASSUME LinkJoined
               PROVE  /\ InOrder(Notices(rest), "mqtt")
                      /\ BodiesIn(Notices(rest), "mqtt")
                             = BodiesIn(Notices(link.toClient), "mqtt")
    OBVIOUS
  <2>1. InOrder(Notices(link.toClient), "mqtt")  BY DEF LinkJoined
  <2>2. LET g == Head(link.toClient)
            more == BodiesIn(Notices(Tail(link.toClient)), "mqtt")
        IN  /\ InOrder(Notices(Tail(link.toClient)), "mqtt")
            /\ IF g.type = "PUBLISH"
               THEN /\ BodiesIn(Notices(link.toClient), "mqtt") = {g.body} \cup more
                    /\ \A m \in more : g.body < m
               ELSE BodiesIn(Notices(link.toClient), "mqtt") = more
    BY <1>8, <2>1, NoticeRead
  <2> QED BY <2>2
<1> HIDE DEF rest
<1>11. LinkJoined => LinkJoined'
  <2>1. published' = published  BY <1>5 DEF NotMqtt
  <2> QED BY <1>3, <1>6, <1>7, <1>10, <2>1 DEF LinkJoined
<1>12. LinkUnjoined => LinkUnjoined'
  BY <1>3, <1>6, <1>7, <1>9 DEF LinkUnjoined
<1>13. LogSays(1, 0)'  BY <1>7 DEF LogSays, MqttServing
<1>14. \A i \in DOMAIN link'.toClient :
           link'.toClient[i].type = "PUBLISH" => link'.toClient[i].body \in Notifications
  BY <1>3, <1>6, <1>9 DEF MqttServing
<1>15. MqttServing'
  BY <1>3, <1>5, <1>6, <1>9, <1>11, <1>12, <1>13, <1>14 DEF MqttServing
<1>16. LinkType(link') /\ link'.since = link.since  BY <1>3, <1>6
<1> QED BY <1>5, <1>7, <1>15, <1>16, MqttSilent

(* A packet of the broker reaches the page.                                *)
LEMMA MqttReceivesPage ==
    ASSUME PageRight, MqttReceives, published \in [Topics -> Nat]
    PROVE  PageRight' /\ UNCHANGED areas.stompNotification
<1> DEFINE packet == Head(link.toClient)
           h == Heard(mqtt)
<1>1. /\ mqtt.socket = "open" /\ link.toClient # <<>>
      /\ MqttTurn(Mqtt!on_socket_message(mqtt, packet), LinkAfter)
      /\ MqttRight /\ Between(mqtt) /\ LinkType(link)
  BY DEF MqttReceives, PageRight, MqttRight, LinkAfter
<1>2. IsPage /\ (MqttAsking \/ MqttServing)
  BY <1>1 DEF MqttRight, MqttConnecting, MqttGone
<1>3. /\ h = [mqtt EXCEPT !.receivePinger = Mqtt!reset(@)]
      /\ Between(h) /\ h.socket = mqtt.socket /\ h.connected = mqtt.connected
  <2>1. LET g == Heard(mqtt)
        IN  /\ Between(g) /\ g.socket = mqtt.socket /\ g.connected = mqtt.connected
            /\ g.connectTimer = mqtt.connectTimer /\ g.attempt = mqtt.attempt
    BY <1>1, MqttHears
  <2> QED BY <2>1 DEF Heard
<1>4. CASE packet.type = "CONNACK"
  <2>1. MqttAsking
    <3>1. ASSUME MqttServing PROVE FALSE
      <4>1. IsSequence(link.toClient)
            /\ Types(link.toClient, {"SUBACK", "PINGRESP", "PUBLISH"})
        BY <3>1 DEF MqttServing, Types
      <4>2. packet.type \in {"SUBACK", "PINGRESP", "PUBLISH"}
        BY <1>1, <4>1, PacketRead
      <4> QED BY <1>4, <4>2
    <3> QED BY <1>2, <3>1
  <2> HIDE DEF packet, h
  <2>2. Mqtt!on_socket_message(mqtt, packet) = Mqtt!ConnAck(h, packet.body)
    BY <1>3, <1>4 DEF Mqtt!on_socket_message
  <2>3. CASE packet.body = 0
    <3>1. MqttTurn(Mqtt!ConnAck(Heard(mqtt), 0), LinkAfter)
      BY <1>1, <2>2, <2>3 DEF h
    <3> QED BY <1>1, <1>2, <2>1, <3>1, MqttConnectsPage
  <2>4. CASE packet.body # 0
    <3> DEFINE d == Mqtt!ConnAck(h, packet.body)
    <3>1. Left(h, d)  BY <1>3, <2>4, MqttRefused
    <3>2. MqttTurn(d, LinkAfter)  BY <1>1, <2>2
    <3> HIDE DEF d
    <3>3. ~ MqttConnecting  BY <2>1 DEF MqttAsking, MqttConnecting
    <3> DEFINE l == LinkAfter
    <3>4. LinkType(l) /\ l.since = link.since  BY <1>1, LinkDelivers
    <3>5. MqttTurn(d, l)  BY <3>2
    <3> HIDE DEF l
    <3> QED BY <1>2, <1>3, <3>1, <3>3, <3>4, <3>5, MqttGivesUpPage
  <2> QED BY <2>3, <2>4
<1>5. CASE packet.type # "CONNACK"
  <2>1. MqttServing
    <3>1. ASSUME MqttAsking PROVE FALSE
      <4>1. IsSequence(link.toClient)
            /\ FirstThen(link.toClient, "CONNACK", "PINGRESP")
        BY <1>1, <3>1 DEF MqttAsking, FirstThen
      <4>2. packet.type = "CONNACK"  BY <1>1, <4>1, PacketRead
      <4> QED BY <1>5, <4>2
    <3> QED BY <1>2, <3>1
  <2>2. packet.type \in {"SUBACK", "PINGRESP", "PUBLISH"}
    <3>1. IsSequence(link.toClient)
          /\ Types(link.toClient, {"SUBACK", "PINGRESP", "PUBLISH"})
      BY <2>1 DEF MqttServing, Types
    <3> QED BY <1>1, <3>1, PacketRead
  <2> HIDE DEF packet, h
  <2>3. CASE packet.type = "PUBLISH"
    <3>1. Mqtt!on_socket_message(mqtt, packet) = Mqtt!receivePublish(h, packet)
      BY <1>3, <2>3 DEF Mqtt!on_socket_message
    <3>2. MqttTurn(Mqtt!receivePublish(Heard(mqtt), Head(link.toClient)), LinkAfter)
      BY <1>1, <3>1 DEF h, packet
    <3> QED BY <1>1, <1>2, <2>1, <2>3, <3>2, MqttTellsPage DEF packet
  <2>4. CASE packet.type = "SUBACK"
    <3> DEFINE d == Mqtt!RequestAck(h, packet.id)
    <3>1. Mqtt!on_socket_message(mqtt, packet) = d
      BY <1>3, <2>4 DEF Mqtt!on_socket_message
    <3>2. /\ Still(h, d)
          /\ d.calls = <<>> \/ \E n : d.calls = <<<<"requestSuccess", n>>>>
      BY <1>3, MqttSubscribed
    <3> HIDE DEF d
    <3>3. Still(Heard(mqtt), d) /\ MqttTurn(d, LinkAfter)
          /\ Head(link.toClient).type # "PUBLISH"
      BY <1>1, <2>4, <3>1, <3>2 DEF h, packet
    <3> QED BY <1>1, <1>2, <2>1, <3>2, <3>3, MqttAnsweredPage
  <2>5. CASE packet.type = "PINGRESP"
    <3> DEFINE d == [h EXCEPT !.sendPinger = Mqtt!reset(@)]
    <3>1. Mqtt!on_socket_message(mqtt, packet) = d
      BY <1>3, <2>5 DEF Mqtt!on_socket_message
    <3>2. Still(h, d) /\ d.calls = <<>>
      BY <1>3, MqttAlive
    <3> HIDE DEF d
    <3>3. Still(Heard(mqtt), d) /\ MqttTurn(d, LinkAfter)
          /\ Head(link.toClient).type # "PUBLISH"
      BY <1>1, <2>5, <3>1, <3>2 DEF h, packet
    <3> QED BY <1>1, <1>2, <2>1, <3>2, <3>3, MqttAnsweredPage
  <2> QED BY <2>2, <2>3, <2>4, <2>5
<1> QED BY <1>4, <1>5

-----------------------------------------------------------------------------
(* What the server publishes reaches the page if it has subscribed.        *)
LEMMA PublishMqtt ==
    ASSUME MqttRight, NEW topic \in Topics, Publish(topic),
           published \in [Topics -> Nat]
    PROVE  MqttRight'
<1> DEFINE now == published[PageTopic]
<1>1. /\ UNCHANGED <<config, mqtt, areas>>
      /\ published' = [published EXCEPT ![topic] = published[topic] + 1]
      /\ published[topic] + 1 \in Notifications
  BY DEF Publish
<1>2. PageTopic \in Topics /\ now \in Nat  BY PageAssumption
<1>3. CASE ~ (link.subscribed /\ topic = PageTopic)
  <2>1. link' = link  BY <1>3 DEF Publish
  <2>2. ~ link.subscribed \/ published'[PageTopic] = published[PageTopic]
    BY <1>1, <1>2, <1>3
  <2> QED BY <1>1, <2>1, <2>2, MqttElsewhere
<1>4. CASE link.subscribed /\ topic = PageTopic
  <2> DEFINE n == now + 1
             x == Mqtt!WireMessage("PUBLISH", 0, n)
             q == Append(link.toClient, x)
             last == link.since + Len(areas.mqttNotification)
             coming == BodiesIn(Notices(link.toClient), "mqtt")
  <2>1. link' = [link EXCEPT !.toClient = q]
    BY <1>4 DEF Publish
  <2>2. x.type = "PUBLISH" /\ x.body = n  BY DEF Mqtt!WireMessage
  <2> HIDE DEF q
  <2>3. /\ LinkType(link') /\ link'.toClient = q /\ link'.toBroker = link.toBroker
        /\ link'.state = link.state /\ link'.subscribed = link.subscribed
        /\ link'.since = link.since
    BY <2>1 DEF MqttRight, LinkType
  <2>4. IsPage /\ MqttServing
    BY <1>4 DEF MqttRight, MqttConnecting, MqttAsking, MqttGone, LinkUnjoined
  <2>5. LinkJoined /\ Types(link.toBroker, {"PINGREQ"})
    BY <1>4, <2>4 DEF MqttServing, LinkUnjoined
  <2>6. IsSequence(link.toClient)
        /\ Types(link.toClient, {"SUBACK", "PINGRESP", "PUBLISH"})
    BY <2>4 DEF MqttServing, Types
  <2>7. /\ link.since \in Nat /\ last <= now
        /\ InOrder(Notices(link.toClient), "mqtt") /\ coming = last + 1 .. now
    BY <2>5 DEF LinkJoined
  <2>8. last \in Nat
    <3>1. Len(areas.mqttNotification) \in Nat  BY DEF MqttRight
    <3> QED BY <2>7, <3>1
  <2> HIDE DEF x, now, last
  <2>9. \A m \in coming : m < n
    <3> HIDE DEF coming
    <3> QED BY <1>2, <2>7, <2>8
  <2>10. /\ InOrder(Notices(q), "mqtt")
         /\ BodiesIn(Notices(q), "mqtt") = coming \cup {n}
    <3>1. x.type = "PUBLISH" => \A m \in BodiesIn(Notices(link.toClient), "mqtt") :
              m < x.body
      BY <2>2, <2>9
    <3>2. /\ InOrder(Notices(Append(link.toClient, x)), "mqtt")
          /\ BodiesIn(Notices(Append(link.toClient, x)), "mqtt") =
                 BodiesIn(Notices(link.toClient), "mqtt")
                     \cup (IF x.type = "PUBLISH" THEN {x.body} ELSE {})
      BY <2>6, <2>7, <3>1, NoticeAdded
    <3> QED BY <2>2, <3>2 DEF q
  <2>11. coming \cup {n} = last + 1 .. n
    <3> HIDE DEF coming
    <3>1. coming = last + 1 .. now /\ last <= now  BY <2>7
    <3> QED BY <1>2, <2>8, <3>1
  <2>12. published'[PageTopic] = n
    BY <1>1, <1>2, <1>4 DEF now
  <2>13. LinkJoined'
    <3>1. link'.since + Len(areas'.mqttNotification) = last
      BY <1>1, <2>3 DEF last
    <3>2. last <= n  BY <1>2, <2>7, <2>8
    <3>3. InOrder(Notices(link'.toClient), "mqtt")
          /\ BodiesIn(Notices(link'.toClient), "mqtt") = last + 1 .. published'[PageTopic]
      BY <2>3, <2>10, <2>11, <2>12
    <3>4. link'.subscribed /\ link'.since \in Nat  BY <1>4, <2>3, <2>7
    <3> QED BY <2>12, <3>1, <3>2, <3>3, <3>4 DEF LinkJoined
  <2>14. Types(q, {"SUBACK", "PINGRESP", "PUBLISH"})
    BY <2>2, <2>6, PacketAdded DEF q
  <2>15. \A i \in DOMAIN q : q[i].type = "PUBLISH" => q[i].body \in Notifications
    <3>1. \A i \in DOMAIN Append(link.toClient, x) :
              \/ i \in DOMAIN link.toClient
                     /\ Append(link.toClient, x)[i] = link.toClient[i]
              \/ Append(link.toClient, x)[i] = x
      BY <2>6, OneMore
    <3>2. n \in Notifications  BY <1>1, <1>4 DEF now
    <3>3. \A i \in DOMAIN link.toClient : link.toClient[i].type = "PUBLISH"
                                              => link.toClient[i].body \in Notifications
      BY <2>4 DEF MqttServing
    <3> QED BY <2>2, <3>1, <3>2, <3>3 DEF q
  <2>16. LogSays(1, 0)'  BY <1>1, <2>4 DEF LogSays, MqttServing
  <2>17. MqttServing'
    BY <1>1, <2>3, <2>4, <2>5, <2>13, <2>14, <2>15, <2>16 DEF MqttServing
  <2>18. IsPage' /\ areas' = areas /\ mqtt' = mqtt  BY <1>1, <2>4 DEF IsPage
  <2>19. Between(mqtt)'
    <3>1. Between(mqtt)  BY DEF MqttRight
    <3> QED BY <2>18, <3>1
  <2> QED BY <2>3, <2>17, <2>18, <2>19 DEF MqttRight
<1> QED BY <1>3, <1>4

(* The server handles a request of the page or of somebody else.           *)
LEMMA ServerPage ==
    ASSUME PageRight, published \in [Topics -> Nat],
           ServerHandles \/ ServerHandlesOther
    PROVE  /\ PageRight'
           /\ \E topic \in Topics : Publish(topic)
<1>1. PageTopic \in Topics  BY PageAssumption
<1>2. PICK topic \in Topics : Publish(topic)
  BY <1>1 DEF ServerHandles, ServerHandlesOther
<1>3. SockRight /\ MqttRight /\ AreasType(areas)  BY DEF PageRight
<1>4. UNCHANGED <<config, areas>>  BY <1>2 DEF Publish
<1>5. SockRight'
  <2>1. CASE ServerHandles
    BY <1>3, <1>4, <2>1, AnsweredSock DEF ServerHandles
  <2>2. CASE ServerHandlesOther
    BY <1>3, <1>4, <2>2, SockElsewhere DEF ServerHandlesOther
  <2> QED BY <2>1, <2>2
<1>6. MqttRight'  BY <1>2, <1>3, PublishMqtt
<1>7. AreasType(areas')  BY <1>3, <1>4
<1> QED BY <1>2, <1>5, <1>6, <1>7 DEF PageRight

(* The page that starts: all its connections are being made.               *)
LEMMA InitPage == ASSUME Init PROVE PageRight
<1>1. /\ sock = [state |-> "connecting", asked |-> 0, toServer |-> <<>>,
                 toPage |-> <<>>]
      /\ mqtt = [NewMqtt EXCEPT !.out = <<>>]
      /\ link = [state |-> "connecting", toBroker |-> <<>>, toClient |-> <<>>,
                 subscribed |-> FALSE, since |-> 0]
      /\ areas = [responseText |-> <<>>, stompNotification |-> <<>>,
                  mqttNotification |-> <<>>, debug |-> [line \in DebugLines |-> 0]]
  BY DEF Init
<1>2. AreasType(areas) /\ \A line \in DebugLines : areas.debug[line] = 0
  BY <1>1 DEF AreasType
<1>3. areas.responseText = <<>> /\ areas.mqttNotification = <<>>
  BY <1>1
<1>4. Len(<<>>) = 0 /\ <<>> \in Seq(Nat) /\ DOMAIN <<>> = {} /\ 0 + 0 = 0
      /\ 0 + 0 + 0 = 0
  OBVIOUS
<1>5. SockRight
  <2>1. SockType /\ sock.state = "connecting" /\ sock.asked = 0
        /\ sock.toServer = <<>> /\ sock.toPage = <<>>
    BY <1>1 DEF SockType
  <2>2. Run(<<>>, 0) /\ CountsFrom(<<>>, 0)
    BY <1>4 DEF Run, CountsFrom
  <2>3. areas.debug["WS closed"] = 0  BY <1>2 DEF DebugLines
  <2> QED BY <1>3, <1>4, <2>1, <2>2, <2>3 DEF SockRight
<1>6. Between(mqtt) /\ mqtt.socket = "connecting" /\ ~ mqtt.connected
      /\ ~ mqtt.sendPinger.armed /\ ~ mqtt.receivePinger.armed
  <2> DEFINE stored == [sent |-> Mqtt!EmptyMap, received |-> Mqtt!EmptyMap]
             a == Mqtt!ClientImpl(stored, 0, Reaction)
             b == [a EXCEPT !.clean = TRUE, !.hosts = 0, !.hostIndex = 0,
                            !.attempt = @ + 1]
             p == Mqtt!NewPinger
             dial == Append(b.out, Mqtt!Ack("dial", 0))
             c == [b EXCEPT !.connected = FALSE, !.socket = "connecting",
                            !.sendPinger = p, !.receivePinger = p,
                            !.connectTimer = TRUE, !.out = dial]
             d == [c EXCEPT !.out = <<>>]
  <2>1. p \in Pingers /\ ~ p.armed  BY DEF Mqtt!NewPinger, Pingers
  <2>2. /\ a \in [reaction : {Reaction}, connected : BOOLEAN,
                  socket : {"none"}, attempt : {a.attempt},
                  clean : BOOLEAN, hosts : {0}, hostIndex : {0}, queue : {<<>>},
                  draining : {FALSE}, notify : {FALSE}, wireMessage : {a.wireMessage},
                  sent : {a.sent}, received : {a.received},
                  messageIdentifier : {a.messageIdentifier}, sequence : {a.sequence},
                  requests : {a.requests}, connectTimer : BOOLEAN,
                  requestTimers : {a.requestTimers}, sendPinger : Pingers,
                  receivePinger : Pingers, stored : {a.stored}, out : {a.out},
                  calls : {<<>>}, threw : {FALSE}]
        /\ ~ a.connected
    <3> HIDE DEF p, stored
    <3> QED BY <2>1 DEF Mqtt!ClientImpl, p
  <2> HIDE DEF a
  <2>3. /\ MqttType(b) /\ b.queue = <<>> /\ ~ b.draining /\ ~ b.threw /\ b.calls = <<>>
    <3>1. MqttType(b)  BY <2>2 DEF MqttType
    <3> QED BY <2>2, <3>1
  <2>4. NewMqtt = c
    <3>1. Mqtt!connect(a, TRUE, 0) = Mqtt!doConnect(b)
      BY <2>2 DEF Mqtt!connect
    <3> HIDE DEF b
    <3>2. Mqtt!doConnect(b) = c  BY DEF Mqtt!doConnect
    <3> HIDE DEF c
    <3> QED BY <3>1, <3>2 DEF NewMqtt, a
  <2> HIDE DEF b, dial, p
  <2>5. /\ MqttType(c) /\ c.queue = <<>> /\ ~ c.draining /\ ~ c.threw /\ c.calls = <<>>
        /\ c.socket = "connecting" /\ ~ c.connected
        /\ c.sendPinger = p /\ c.receivePinger = p
    <3> DEFINE e == [b EXCEPT !.connected = FALSE, !.socket = "connecting",
                              !.connectTimer = TRUE, !.out = dial]
               f == [e EXCEPT !.sendPinger = p]
               g == [f EXCEPT !.receivePinger = p]
    <3>1. /\ MqttType(e) /\ e.queue = <<>> /\ ~ e.draining /\ ~ e.threw
          /\ e.calls = <<>> /\ e.socket = "connecting" /\ ~ e.connected
      BY <2>3 DEF MqttType
    <3> HIDE DEF e
    <3>2. /\ MqttType(f) /\ f.queue = <<>> /\ ~ f.draining /\ ~ f.threw
          /\ f.calls = <<>> /\ f.socket = "connecting" /\ ~ f.connected
          /\ f.sendPinger = p
      BY <2>1, <3>1 DEF MqttType
    <3> HIDE DEF f
    <3>3. /\ MqttType(g) /\ g.queue = <<>> /\ ~ g.draining /\ ~ g.threw
          /\ g.calls = <<>> /\ g.socket = "connecting" /\ ~ g.connected
          /\ g.sendPinger = p /\ g.receivePinger = p
      BY <2>1, <3>2 DEF MqttType
    <3>4. c = g  BY <2>3 DEF MqttType, e, f
    <3> HIDE DEF c, g
    <3> QED BY <3>3, <3>4
  <2> HIDE DEF c
  <2>6. /\ MqttType(d) /\ d.queue = <<>> /\ ~ d.draining /\ ~ d.threw /\ d.calls = <<>>
        /\ d.socket = "connecting" /\ ~ d.connected /\ d.out = <<>>
        /\ d.sendPinger = p /\ d.receivePinger = p
    BY <2>5 DEF MqttType
  <2>7. mqtt = d  BY <1>1, <2>4
  <2> HIDE DEF d
  <2> QED BY <2>1, <2>6, <2>7 DEF Between, Idle
<1>7. /\ LinkType(link) /\ link.state = "connecting" /\ link.toBroker = <<>>
      /\ link.toClient = <<>> /\ ~ link.subscribed
  BY <1>1 DEF LinkType
<1>8. MqttRight
  <2>1. LinkUnjoined  BY <1>3, <1>4, <1>7 DEF LinkUnjoined
  <2>2. LogSays(0, 0)
    <3>1. /\ areas.debug["MQTT connected"] = 0 /\ areas.debug["MQTT lost"] = 0
          /\ areas.debug["MQTT failure"] = 0
      BY <1>2 DEF DebugLines
    <3>2. 0 \in Nat /\ 0 + 0 = 0 /\ 0 <= 0  OBVIOUS
    <3> QED BY <3>1, <3>2 DEF LogSays
  <2>3. MqttConnecting  BY <1>6, <1>7, <2>1, <2>2 DEF MqttConnecting
  <2>4. areas.mqttNotification \in Seq(Nat) /\ Run(areas.mqttNotification, link.since)
    BY <1>3, <1>4 DEF Run
  <2> QED BY <1>6, <1>7, <2>3, <2>4 DEF MqttRight
<1> QED BY <1>2, <1>5, <1>8 DEF PageRight

-----------------------------------------------------------------------------
(* Every step of every actor keeps both invariants.                        *)
LEMMA NextNotified ==
    ASSUME IInv, Notified, PageRight, Next PROVE Notified' /\ PageRight'
<1>1. AreasType(areas) /\ published \in [Topics -> Nat]
  BY DEF PageRight, Notified, Tables
<1>2. CASE Page
  <2>1. UNCHANGED <<config, stomp, wire, published, heard, areas.stompNotification>>
    <3>1. CASE Submit  BY <3>1 DEF Submit
    <3>2. CASE SockOpens  BY <3>2 DEF SockOpens
    <3>3. CASE SockReceives  BY <1>1, <3>3 DEF SockReceives, AreasType
    <3>4. CASE SockFails
      <4>1. UNCHANGED <<config, stomp, wire, published, heard>>
        BY <3>4 DEF SockFails
      <4>2. areas'.stompNotification = areas.stompNotification
        BY <1>1, <3>4 DEF SockFails, AreasType, Log
      <4> QED BY <4>1, <4>2
    <3> QED BY <1>2, <3>1, <3>2, <3>3, <3>4 DEF Page
  <2>2. PageRight'
    BY <1>2, SubmitPage, SockOpensPage, SockReceivesPage, SockFailsPage DEF Page
  <2> QED BY <2>1, <2>2, ElsewhereNotified
<1>3. CASE StompSide
  <2>1. PageRight'  BY <1>3, StompSidePage
  <2>2. CASE StompReceives
    <3>1. wire.state = "open" /\ wire.toClient # <<>>  BY <2>2 DEF StompReceives
    <3>2. Refused \/ Accepted \/ Serving
      BY <3>1 DEF IInv, Phases, Connecting, Asking
    <3> QED BY <1>1, <2>1, <2>2, <3>2, AnswerNotified, ServingNotified
  <2>3. CASE StompOpens  BY <1>1, <2>1, <2>3, OpensNotified
  <2>4. CASE StompBreaks  BY <2>1, <2>4, BreaksNotified
  <2>5. CASE StompCloses  BY <1>1, <2>1, <2>5, ClosesNotified
  <2>6. CASE StompTimer  BY <1>1, <2>1, <2>6, TimerNotified
  <2>7. CASE StompServes  BY <2>1, <2>7, ServesNotified
  <2>8. CASE StompRefuses  BY <2>1, <2>8, RefusesNotified
  <2>9. CASE ServerBeats  BY <2>1, <2>9, BeatsNotified
  <2>10. CASE Tick  BY <2>1, <2>10, TickNotified
  <2> QED BY <1>3, <2>2, <2>3, <2>4, <2>5, <2>6, <2>7, <2>8, <2>9, <2>10 DEF StompSide
<1>4. CASE OtherUser
  <2>1. PageRight'  BY <1>4, StompSidePage
  <2> QED BY <1>1, <1>4, <2>1, SubscribesNotified, UnsubscribesNotified,
             DisconnectsNotified DEF OtherUser
<1>5. CASE MqttSide
  <2>1. PageRight' /\ UNCHANGED areas.stompNotification
    BY <1>1, <1>5, MqttOpensPage, MqttReceivesPage, MqttBreaksPage, MqttTimerPage,
       MqttServesPage DEF MqttSide
  <2>2. UNCHANGED <<config, stomp, wire, published, heard>>
    BY <1>5 DEF MqttSide, MqttOpens, MqttReceives, MqttBreaks, MqttTimer,
                MqttServes, MqttTurn, NotMqtt
  <2> QED BY <2>1, <2>2, ElsewhereNotified
<1>6. CASE ServerHandles \/ ServerHandlesOther
  BY <1>1, <1>6, ServerPage, PublishNotified
<1> QED BY <1>2, <1>3, <1>4, <1>5, <1>6 DEF Next

(* Nor does a step that does nothing matter to them.                       *)
LEMMA StutterNotified ==
    ASSUME Notified, PageRight, UNCHANGED vars PROVE Notified' /\ PageRight'
<1>1. UNCHANGED <<config, sock, stomp, wire, mqtt, link, areas, published, heard>>
  BY DEF vars
<1>2. Notified'  BY <1>1, ElsewhereNotified
<1>3. SockRight /\ MqttRight /\ AreasType(areas)  BY DEF PageRight
<1>4. SockRight' /\ MqttRight'  BY <1>1, <1>3, SockElsewhere, MqttElsewhere
<1>5. AreasType(areas')  BY <1>1, <1>3
<1> QED BY <1>2, <1>4, <1>5 DEF PageRight

(* At every moment each subscription is on its way or up to date with what *)
(* was published since, and each text area shows what arrived for it.      *)
THEOREM NotificationsFollowed == Spec => [](Notified /\ PageRight)
<1> DEFINE Inv == IInv /\ Notified /\ PageRight
<1>1. Init => Inv  BY InitInvariant, InitNotified, InitPage
<1>2. Inv /\ [Next]_vars => Inv'
  BY NextInvariant, StutterInvariant, NextNotified, StutterNotified
<1>3. Inv => Notified /\ PageRight  OBVIOUS
<1> HIDE DEF Inv
<1> QED BY <1>1, <1>2, <1>3, PTL DEF Spec

(* The callback of a subscription is told of each notification of its      *)
(* topic since the broker took the subscription, once and in order: what   *)
(* it has not been told of is under way.  (subscribe, unsubscribe and the  *)
(* MESSAGE branch of onmessage in stomp.js, with the simple broker)        *)
THEOREM EachIsTold == Spec => []EachMessageOnce
<1>1. Notified => EachMessageOnce
  <2> SUFFICES ASSUME Notified, NEW t \in Topics
               PROVE  /\ \A i, j \in DOMAIN heard.bodies[t] :
                             i < j => heard.bodies[t][i] < heard.bodies[t][j]
                      /\ wire.state = "open" =>
                         \A id \in DOMAIN wire.subs \cap DOMAIN stomp.subscriptions :
                             stomp.subscriptions[id] = t =>
                                 wire.since[id] + 1 .. published[t] \subseteq
                                     Range(heard.bodies[t])
                                         \cup BodiesIn(wire.toClient, id)
    BY DEF EachMessageOnce, BodiesIn, MessageFor, IsMessage
  <2>1. ToldInOrder /\ Tables /\ Names  BY DEF Notified
  <2>2. ASSUME wire.state = "open",
               NEW id \in DOMAIN wire.subs \cap DOMAIN stomp.subscriptions,
               stomp.subscriptions[id] = t
        PROVE  wire.since[id] + 1 .. published[t] \subseteq
                   Range(heard.bodies[t]) \cup BodiesIn(wire.toClient, id)
    <3>1. Followed  BY <2>2 DEF Notified
    <3>2. ~ Pending(id)  BY <3>1 DEF Followed, Pending, Asked
    <3>3. Taken(id)  BY <3>1, <3>2 DEF Followed
    <3>4. PICK last \in Nat : UpTo(id, last)  BY <3>3 DEF Taken
    <3>5. /\ BodiesIn(wire.toClient, id) = last + 1 .. published[t]
          /\ wire.since[id] + 1 .. last \subseteq Range(heard.bodies[t])
      BY <2>2, <3>4 DEF UpTo
    <3>6. wire.since[id] \in Nat /\ published[t] \in Nat
      BY <2>1, <2>2 DEF Tables, Names
    <3>7. wire.since[id] + 1 .. published[t] \subseteq
              (wire.since[id] + 1 .. last) \cup (last + 1 .. published[t])
      BY <3>6
    <3> QED BY <3>5, <3>7
  <2> QED BY <2>1, <2>2 DEF ToldInOrder
<1> QED BY <1>1, NotificationsFollowed, PTL

(* Each text area of the page shows what came over its connection, nothing *)
(* left out, nothing twice and the newest on top, in whatever order the    *)
(* three connections are made, served and lost.                            *)
THEOREM AreasShowAll == Spec => []PanelsInOrder
<1>1. Notified /\ PageRight => PanelsInOrder
  BY DEF Notified, Shown, PageRight, SockRight, MqttRight, PanelsInOrder
<1> QED BY <1>1, NotificationsFollowed, PTL

(* The page says of its web socket and of its MQTT connection that they    *)
(* are gone exactly once, when they are gone and not before.               *)
THEOREM LossIsShown == Spec => []LossShown
<1>1. PageRight => LossShown
  <2> SUFFICES ASSUME PageRight, IsPage PROVE LossShown  BY DEF LossShown
  <2>1. areas.debug["WS closed"] = IF sock.state = "closed" THEN 1 ELSE 0
    BY DEF PageRight, SockRight
  <2>2. PICK connected \in {0, 1} :
            LogSays(connected, IF mqtt.socket = "none" THEN 1 ELSE 0)
    BY DEF PageRight, MqttRight, MqttConnecting, MqttAsking, MqttServing, MqttGone
  <2> QED BY <2>1, <2>2 DEF LossShown, LogSays
<1> QED BY <1>1, NotificationsFollowed, PTL
=============================================================================
