------------------------------ MODULE LedServer ------------------------------
(***************************************************************************)
(* The web socket server of ws-one.  Every connection has a handler and an *)
(* RPi of its own; an event loop serves several connections, one frame at  *)
(* a time.  Off the Raspberry Pi the LED is a field of each RPi, on it all *)
(* of them read and write the value file of one GPIO pin.                  *)
(***************************************************************************)
EXTENDS Integers, Sequences, FiniteSets

CONSTANTS Channels,    \* connections
          Assignments, \* ways in which accept deals channels to event loops
          Pin,         \* the GPIO pin
          MaxFrames    \* bound: frames that each client sends

ASSUME LedAssumption == /\ Pin \notin Channels
                        /\ MaxFrames \in [Channels -> Nat]
                        /\ \A f \in Assignments : DOMAIN f = Channels

VARIABLES loop,      \* the event loop of a channel, given to it on accept
          ledOf,     \* where the RPi of a handler keeps its LED
          led,       \* field isLedOn, or the value file
          open,      \* is the connection open?
          sent,      \* frames sent by the client
          pending,   \* those the handler has not taken yet
          pc,        \* where the handler stands
          command,
          was,       \* currentLedStatus, once it is known
          response,
          topic,     \* what the broker has accepted, oldest first
          answers,   \* what the client has received, oldest first
          lost       \* frames dropped because the broker refused

clientVars == <<loop, ledOf, open, sent>>
handlerVars == <<pc, command, was, response>>
vars == <<clientVars, handlerVars, pending, led, topic, answers, lost>>

Leds == Channels \cup {Pin}

(* getLedStatus: "on" or "off".                                            *)
Statuses == {"on", "off"}

(* fibonacci and unknown commands make a text and leave the LED alone.     *)
Commands == {"status", "on", "off", "text"}

(* "LED is ..", "LED is now .. (was ..)", another text, "ERROR. Failed..." *)
Answer(kind, values) == [kind |-> kind, led |-> values]

Answers == {Answer("status", <<b>>) : b \in Statuses}
             \cup {Answer("set", <<a, b>>) : a, b \in Statuses}
             \cup {Answer("text", <<>>), Answer("error", <<>>)}

NoAnswer == Answer("none", <<>>)

ServerOK == /\ loop \in Assignments
            /\ ledOf \in [Channels -> Leds]
            /\ led \in [Leds -> Statuses]
            /\ open \in [Channels -> BOOLEAN]

FramesOK == /\ sent \in [Channels -> Nat]
            /\ pending \in [Channels -> Nat]
            /\ lost \in [Channels -> Nat]
            /\ \A c \in Channels :
                   pending[c] + lost[c] + (IF pc[c] = "idle" THEN 0 ELSE 1)
                       <= sent[c]

HandlersOK == /\ pc \in [Channels -> {"idle", "read", "set", "confirm",
                                      "publish", "write"}]
              /\ command \in [Channels -> Commands]
              /\ was \in [Channels -> Statuses \cup {"unknown"}]
              /\ response \in [Channels -> Answers \cup {NoAnswer}]

ToldOK == /\ topic \in Seq([from : Channels, answer : Answers])
          /\ answers \in [Channels -> Seq(Answers)]

TypeOK == ServerOK /\ FramesOK /\ HandlersOK /\ ToldOK

(* The factory hands every handler a new RPi: a stub with a field of its   *)
(* own, or one more view of the pin, which keeps the value it had.         *)
Init == /\ loop \in Assignments
        /\ ledOf \in {[c \in Channels |-> c], [c \in Channels |-> Pin]}
        /\ led \in {[x \in Leds |-> IF x = Pin THEN b ELSE "off"] : b \in Statuses}
        /\ open = [c \in Channels |-> TRUE]
        /\ sent = [c \in Channels |-> 0]
        /\ pending = [c \in Channels |-> 0]
        /\ pc = [c \in Channels |-> "idle"]
        /\ command = [c \in Channels |-> "status"]
        /\ was = [c \in Channels |-> "unknown"]
        /\ response = [c \in Channels |-> NoAnswer]
        /\ topic = <<>>
        /\ answers = [c \in Channels |-> <<>>]
        /\ lost = [c \in Channels |-> 0]

-----------------------------------------------------------------------------
(* Clients send without waiting for answers, and may leave: then some of   *)
(* the frames under way are never decoded.                                 *)
Send(c) == /\ open[c]
           /\ sent[c] < MaxFrames[c]
           /\ sent' = [sent EXCEPT ![c] = @ + 1]
           /\ pending' = [pending EXCEPT ![c] = @ + 1]
           /\ UNCHANGED <<loop, ledOf, open, handlerVars, led, topic, answers,
                          lost>>

Disconnect(c) == /\ open[c]
                 /\ open' = [open EXCEPT ![c] = FALSE]
                 /\ \E k \in 0 .. pending[c] :
                        pending' = [pending EXCEPT ![c] = k]
                 /\ UNCHANGED <<loop, ledOf, sent, handlerVars, led, topic,
                                answers, lost>>

-----------------------------------------------------------------------------
Goto(c, from, to) == pc[c] = from /\ pc' = [pc EXCEPT ![c] = to]

(* The event loop takes a frame when it is done with all its channels.     *)
messageReceived(c) ==
    /\ pending[c] > 0
    /\ \A d \in Channels : loop[d] = loop[c] => pc[d] = "idle"
    /\ Goto(c, "idle", "read")
    /\ command' \in {[command EXCEPT ![c] = k] : k \in Commands}
    /\ pending' = [pending EXCEPT ![c] = @ - 1]
    /\ UNCHANGED <<clientVars, was, response, led, topic, answers, lost>>

(* currentLedStatus = getLedStatus(); all but "on" and "off" then know     *)
(* their answer.                                                           *)
ReadStatus(c) ==
    /\ was' = [was EXCEPT ![c] = led[ledOf[c]]]
    /\ \/ /\ command[c] \in {"on", "off"}
          /\ Goto(c, "read", "set")
          /\ UNCHANGED response
       \/ /\ command[c] \notin {"on", "off"}
          /\ Goto(c, "read", "publish")
          /\ response' = [response EXCEPT ![c] =
                 IF command[c] = "status" THEN Answer("status", <<led[ledOf[c]]>>)
                                          ELSE Answer("text", <<>>)]
    /\ UNCHANGED <<clientVars, pending, command, led, topic, answers, lost>>

setLedOn(c) == /\ Goto(c, "set", "confirm")
               /\ led' = [led EXCEPT ![ledOf[c]] = command[c]]
               /\ UNCHANGED <<clientVars, pending, command, was, response,
                              topic, answers, lost>>

(* Mutation: the status read before is reported as the new one.            *)
ConfirmOldStatus(c) ==
    /\ Goto(c, "confirm", "publish")
    /\ response' = [response EXCEPT ![c] =
           Answer("set", <<was[c], was[c]>>)]
    /\ UNCHANGED <<clientVars, pending, command, was, led, topic, answers,
                   lost>>

Confirm(c) == /\ Goto(c, "confirm", "publish")
              /\ response' = [response EXCEPT ![c] =
                     Answer("set", <<was[c], led[ledOf[c]]>>)]
              /\ UNCHANGED <<clientVars, pending, command, was, led, topic,
                             answers, lost>>

(* Mutation: nothing catches the exception.                                *)
GpioFailsUncaught(c) ==
    /\ ledOf[c] = Pin
    /\ pc[c] \in {"read", "set", "confirm"}
    /\ pc' = [pc EXCEPT ![c] = "idle"]
    /\ was' = [was EXCEPT ![c] = "unknown"]
    /\ UNCHANGED <<clientVars, pending, command, response, led, topic,
                   answers, lost>>

(* The value file cannot be read or written: the exception is caught and   *)
(* becomes the answer.  A write may have taken place before close() threw. *)
GpioFails(c) ==
    /\ ledOf[c] = Pin
    /\ pc[c] \in {"read", "set", "confirm"}
    /\ pc' = [pc EXCEPT ![c] = "publish"]
    /\ response' = [response EXCEPT ![c] = Answer("error", <<>>)]
    /\ \/ UNCHANGED led
       \/ pc[c] = "set" /\ led' = [led EXCEPT ![Pin] = command[c]]
    /\ UNCHANGED <<clientVars, pending, command, was, topic, answers, lost>>

(* publisher.publish(): the session of the one publisher lets one thread   *)
(* send at a time.                                                         *)
publish(c) == /\ Goto(c, "publish", "write")
              /\ topic' = Append(topic, [from |-> c, answer |-> response[c]])
              /\ was' = [was EXCEPT ![c] = "unknown"]
              /\ UNCHANGED <<clientVars, pending, command, response, led,
                             answers, lost>>

(* Mutation: the answer is sent although the broker has refused.           *)
PublishFailsSilently(c) ==
    /\ Goto(c, "publish", "write")
    /\ was' = [was EXCEPT ![c] = "unknown"]
    /\ UNCHANGED <<clientVars, pending, command, response, led, topic,
                   answers, lost>>

(* The broker refuses: the exception leaves messageReceived, the client    *)
(* gets no answer, and frames decoded together with this one are dropped.  *)
PublishFails(c) ==
    /\ Goto(c, "publish", "idle")
    /\ was' = [was EXCEPT ![c] = "unknown"]
    /\ response' = [response EXCEPT ![c] = NoAnswer]
    /\ \E k \in 0 .. pending[c] :
           /\ pending' = [pending EXCEPT ![c] = @ - k]
           /\ lost' = [lost EXCEPT ![c] = @ + k + 1]
    /\ UNCHANGED <<clientVars, command, led, topic, answers>>

(* ctx.channel().write(): nothing arrives on a closed connection.          *)
Write(c) ==
    /\ Goto(c, "write", "idle")
    /\ answers' = IF open[c]
                  THEN [answers EXCEPT ![c] = Append(@, response[c])]
                  ELSE answers
    /\ response' = [response EXCEPT ![c] = NoAnswer]
    /\ UNCHANGED <<clientVars, pending, command, was, led, topic, lost>>

-----------------------------------------------------------------------------
Handler(c) == \/ messageReceived(c)
              \/ ReadStatus(c)
              \/ setLedOn(c)
              \/ Confirm(c)
              \/ GpioFails(c)
              \/ publish(c)
              \/ PublishFails(c)
              \/ Write(c)

Next == \E c \in Channels : Send(c) \/ Disconnect(c) \/ Handler(c)

(* The event loops run.  A loop that serves several channels comes round   *)
(* to each of them: as frames are bounded weak fairness says as much.      *)
Spec == Init /\ [][Next]_vars /\ \A c \in Channels : WF_vars(Handler(c))

-----------------------------------------------------------------------------
(* The subscribers of wsone.notify know first: requestHandler publishes    *)
(* before messageReceived writes.  What a client has received, with the    *)
(* answer that is being written, are the answers that the topic was told   *)
(* of its requests: as many, and the n-th is the n-th.                     *)
Told(c, n) == Cardinality({i \in 1 .. n : topic[i].from = c})

Heard(c) == IF pc[c] = "write" THEN Append(answers[c], response[c])
                               ELSE answers[c]

AnswersFollowNotifications ==
    \A c \in Channels : open[c] =>
        /\ Len(Heard(c)) = Told(c, Len(topic))
        /\ \A i \in DOMAIN topic :
               topic[i].from = c => Heard(c)[Told(c, i)] = topic[i].answer

(* A handler reads the LED, sets it, reads it again and publishes.  If     *)
(* nobody else has its LED (the stub) or all who have it share an event    *)
(* loop, this is as good as one atomic request: the status it reports is   *)
(* the one it asked for, and what the topic says last is what the LED is.  *)
(* Otherwise another handler can set the pin in between.                   *)
Alone == \/ \A c \in Channels : ledOf[c] = c
         \/ \A c, d \in Channels : loop[c] = loop[d]

(* A request counts from the moment the broker has accepted or refused.    *)
Committed ==
    [x \in Leds |->
        IF \E c \in Channels : ledOf[c] = x /\ was[c] # "unknown"
        THEN was[CHOOSE c \in Channels : ledOf[c] = x /\ was[c] # "unknown"]
        ELSE led[x]]

Register == INSTANCE LedRegister WITH led <- Committed

ImplementsRegister ==
    Register!Init /\ [][Alone => Register!Next]_(Register!vars)

(* As long as the client stays, every frame it sends is answered, unless   *)
(* the broker refuses its notification or that of a frame before it:       *)
(* GPIO errors become answers, and no handler keeps the loop for ever.     *)
EveryFrameAnswered ==
    \A c \in Channels : \A n \in 1 .. MaxFrames[c] :
        sent[c] = n ~> (~ open[c] \/ Len(answers[c]) + lost[c] >= n)
=============================================================================
