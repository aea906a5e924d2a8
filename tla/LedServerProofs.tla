---------------------------- MODULE LedServerProofs ----------------------------
(***************************************************************************)
(* Theorems about the web socket server, for every set of connections,     *)
(* every number of frames and every way to deal connections to event loops. *)
(***************************************************************************)
EXTENDS LedServer, FiniteSetTheorems, TLAPS

(* What a handler knows at each place of a request: the status it read     *)
(* first, and then its answer.                                             *)
Known ==
    \A c \in Channels :
        /\ pc[c] \in {"idle", "read", "write"} => was[c] = "unknown"
        /\ pc[c] \in {"set", "confirm"} => was[c] # "unknown"
        /\ pc[c] = "set" => command[c] \in Statuses
        /\ pc[c] \in {"publish", "write"} => response[c] \in Answers

(* Handlers that cannot disturb each other do not use one LED at a time.   *)
Exclusive ==
    Alone => \A c, d \in Channels :
                 c # d /\ ledOf[c] = ledOf[d] => pc[c] = "idle" \/ pc[d] = "idle"

(* An answer that waits to be published tells how the LED was and is.      *)
Truthful(c) ==
    LET is == led[ledOf[c]]
        kind == response[c].kind
        told == response[c].led
    IN  /\ kind # "error" => was[c] # "unknown"
        /\ kind = "status" => told = <<is>> /\ was[c] = is
        /\ kind = "set" => told = <<was[c], is>>
        /\ kind = "text" => told = <<>> /\ was[c] = is
        /\ kind = "error" => told = <<>>

Publishes == Alone => \A c \in Channels : pc[c] = "publish" => Truthful(c)

IInv == TypeOK /\ Known /\ Exclusive /\ Publishes

-----------------------------------------------------------------------------
(* The invariant holds at first.                                           *)
LEMMA InitIInv == Init => IInv
<1> SUFFICES ASSUME Init PROVE IInv
  OBVIOUS
<1>1. ServerOK
  BY DEF Init, ServerOK, Leds, Statuses
<1>2. FramesOK
  BY DEF Init, FramesOK
<1>3. HandlersOK
  BY DEF Init, HandlersOK, Commands
<1>4. ToldOK
  BY DEF Init, ToldOK
<1>5. Known /\ Exclusive /\ Publishes
  BY DEF Init, Known, Exclusive, Publishes
<1> QED
  BY <1>1, <1>2, <1>3, <1>4, <1>5 DEF IInv, TypeOK

(* Every variable of the server stays in its range.                        *)
LEMMA ServerInductive ==
  ServerOK /\ HandlersOK /\ Known /\ [Next]_vars => ServerOK'
<1> SUFFICES ASSUME ServerOK, HandlersOK, Known, [Next]_vars PROVE ServerOK'
  OBVIOUS
<1> USE DEF ServerOK, clientVars
<1>1. ASSUME NEW c \in Channels, Send(c) \/ Disconnect(c) PROVE ServerOK'
  BY <1>1 DEF Send, Disconnect
<1>2. ASSUME NEW c \in Channels, Handler(c) PROVE ServerOK'
  <2>1. CASE setLedOn(c)
    <3>1. ledOf[c] \in Leds /\ command[c] \in Statuses
      BY <2>1 DEF setLedOn, Known, Goto
    <3> QED
      BY <2>1, <3>1 DEF setLedOn
  <2>2. CASE GpioFails(c)
    <3>1. Pin \in Leds /\ (pc[c] = "set" => command[c] \in Statuses)
      BY DEF Leds, Known
    <3> QED
      BY <2>2, <3>1 DEF GpioFails
  <2>3. CASE UNCHANGED <<loop, ledOf, led, open>>
    BY <2>3
  <2> QED
    BY <1>2, <2>1, <2>2, <2>3 DEF Handler, messageReceived, ReadStatus,
       Confirm, publish, PublishFails, Write
<1>3. CASE UNCHANGED vars
  BY <1>3 DEF vars
<1> QED
  BY <1>1, <1>2, <1>3 DEF Next

(* Every frame stays pending, being handled, or lost.                      *)
LEMMA FramesInductive == HandlersOK /\ FramesOK /\ [Next]_vars => FramesOK'
<1> SUFFICES ASSUME HandlersOK, FramesOK, [Next]_vars PROVE FramesOK'
  OBVIOUS
<1> USE DEF FramesOK, HandlersOK, clientVars, handlerVars, Goto
<1>1. ASSUME NEW c \in Channels, Send(c) PROVE FramesOK'
  BY <1>1 DEF Send
<1>2. ASSUME NEW c \in Channels, Disconnect(c) PROVE FramesOK'
  BY <1>2 DEF Disconnect
<1>3. ASSUME NEW c \in Channels, Handler(c) PROVE FramesOK'
  <2>1. CASE messageReceived(c)
    BY <2>1 DEF messageReceived
  <2>2. CASE PublishFails(c)
    <3>1. PICK k \in 0 .. pending[c] :
              /\ pending' = [pending EXCEPT ![c] = @ - k]
              /\ lost' = [lost EXCEPT ![c] = @ + k + 1]
      BY <2>2 DEF PublishFails
    <3>2. /\ pc[c] = "publish" /\ pc' = [pc EXCEPT ![c] = "idle"]
          /\ UNCHANGED sent
      BY <2>2 DEF PublishFails
    <3>3. pending'[c] + lost'[c] + 1 = pending[c] + lost[c] + 2
      BY <3>1
    <3>4. pending[c] + lost[c] + 1 <= sent[c]
      BY <3>2
    <3>5. pending'[c] + lost'[c] <= sent'[c]
      BY <3>1, <3>2, <3>3, <3>4
    <3>6. \A d \in Channels : d # c =>
              pending'[d] = pending[d] /\ lost'[d] = lost[d] /\ pc'[d] = pc[d]
      BY <3>1, <3>2
    <3>7. pending' \in [Channels -> Nat] /\ lost' \in [Channels -> Nat]
      BY <3>1
    <3>8. pc'[c] = "idle"
      BY <3>2
    <3>9. ASSUME NEW d \in Channels
          PROVE  pending'[d] + lost'[d] + (IF pc'[d] = "idle" THEN 0 ELSE 1)
                     <= sent'[d]
      <4>1. CASE d = c
        BY <3>5, <3>7, <3>8, <4>1
      <4>2. CASE d # c
        BY <3>2, <3>6, <4>2
      <4> QED
        BY <4>1, <4>2
    <3> QED
      BY <3>2, <3>7, <3>9
  <2>3. CASE \/ ReadStatus(c) \/ setLedOn(c) \/ Confirm(c) \/ GpioFails(c)
             \/ publish(c) \/ Write(c)
    <3>1. /\ UNCHANGED <<sent, pending, lost>>
          /\ pc[c] # "idle"
          /\ \A d \in Channels : d # c => pc'[d] = pc[d]
      BY <2>3 DEF ReadStatus, setLedOn, Confirm, GpioFails, publish, Write
    <3> QED
      BY <3>1
  <2> QED
    BY <1>3, <2>1, <2>2, <2>3 DEF Handler
<1>4. CASE UNCHANGED vars
  BY <1>4 DEF vars
<1> QED
  BY <1>1, <1>2, <1>3, <1>4 DEF Next

(* What a handler knows at each position stays true.                       *)
LEMMA HandlersInductive ==
  ServerOK /\ HandlersOK /\ Known /\ [Next]_vars => HandlersOK' /\ Known'
<1> SUFFICES ASSUME ServerOK, HandlersOK, Known, [Next]_vars
             PROVE  HandlersOK' /\ Known'
  OBVIOUS
<1> USE DEF HandlersOK, Known, Statuses, clientVars, handlerVars, Goto
<1>1. ASSUME NEW c \in Channels, Send(c) \/ Disconnect(c)
      PROVE  HandlersOK' /\ Known'
  <2>1. UNCHANGED <<pc, command, was, response>>
    BY <1>1 DEF Send, Disconnect
  <2> QED
    BY <2>1
<1>2. ASSUME NEW c \in Channels, Handler(c) PROVE HandlersOK' /\ Known'
  <2>0. led[ledOf[c]] \in Statuses
    BY DEF ServerOK
  <2>1. CASE messageReceived(c)
    BY <2>1 DEF messageReceived
  <2>2. CASE ReadStatus(c)
    <3>0. was' = [was EXCEPT ![c] = led[ledOf[c]]]
      BY <2>2 DEF ReadStatus
    <3>1. was'[c] = led[ledOf[c]] /\ was'[c] # "unknown"
      BY <2>0, <3>0
    <3>2. was' \in [Channels -> Statuses \cup {"unknown"}]
      BY <2>0, <3>0
    <3>3. CASE command[c] \in {"on", "off"}
      <4>1. Goto(c, "read", "set") /\ UNCHANGED <<command, response>>
        BY <2>2, <3>3 DEF ReadStatus
      <4> QED
        BY <3>0, <3>1, <3>2, <3>3, <4>1
    <3>4. CASE command[c] \notin {"on", "off"}
      <4> DEFINE a == IF command[c] = "status" THEN Answer("status", <<led[ledOf[c]]>>)
                                               ELSE Answer("text", <<>>)
      <4>1. a \in Answers
        BY <2>0 DEF Answers
      <4>2. /\ Goto(c, "read", "publish") /\ UNCHANGED command
            /\ response' = [response EXCEPT ![c] = a]
        BY <2>2, <3>4 DEF ReadStatus
      <4> HIDE DEF a
      <4> QED
        BY <3>0, <3>1, <3>2, <4>1, <4>2
    <3> QED
      BY <3>3, <3>4
  <2>3. CASE setLedOn(c)
    BY <2>3 DEF setLedOn
  <2>4. CASE Confirm(c)
    <3>1. was[c] \in Statuses
      BY <2>4 DEF Confirm
    <3>2. Answer("set", <<was[c], led[ledOf[c]]>>) \in Answers
      BY <2>0, <3>1 DEF Answers
    <3> QED
      BY <2>4, <3>2 DEF Confirm
  <2>5. CASE GpioFails(c)
    <3>1. Answer("error", <<>>) \in Answers
      BY DEF Answers
    <3> QED
      BY <2>5, <3>1 DEF GpioFails
  <2>6. CASE publish(c)
    BY <2>6 DEF publish
  <2>7. CASE PublishFails(c)
    BY <2>7 DEF PublishFails
  <2>8. CASE Write(c)
    BY <2>8 DEF Write
  <2> QED
    BY <1>2, <2>1, <2>2, <2>3, <2>4, <2>5, <2>6, <2>7, <2>8 DEF Handler
<1>3. CASE UNCHANGED vars
  BY <1>3 DEF vars
<1> QED
  BY <1>1, <1>2, <1>3 DEF Next

(* What the topic and the clients were told stays well-formed.             *)
LEMMA ToldInductive ==
  HandlersOK /\ Known /\ ToldOK /\ [Next]_vars => ToldOK'
<1> SUFFICES ASSUME HandlersOK, Known, ToldOK, [Next]_vars PROVE ToldOK'
  OBVIOUS
<1> USE DEF ToldOK
<1>1. ASSUME NEW c \in Channels, publish(c) PROVE ToldOK'
  <2>1. /\ topic' = Append(topic, [from |-> c, answer |-> response[c]])
        /\ UNCHANGED answers
    BY <1>1 DEF publish
  <2>2. response[c] \in Answers
    BY <1>1 DEF publish, Goto, Known
  <2>3. [from |-> c, answer |-> response[c]] \in [from : Channels, answer : Answers]
    BY <2>2
  <2> QED
    BY <2>1, <2>3
<1>2. ASSUME NEW c \in Channels, Write(c) PROVE ToldOK'
  <2>1. response[c] \in Answers
    BY <1>2 DEF Write, Goto, Known
  <2>2. Append(answers[c], response[c]) \in Seq(Answers)
    BY <2>1
  <2> QED
    BY <1>2, <2>2 DEF Write
<1>3. CASE UNCHANGED <<topic, answers>>
  BY <1>3
<1> QED
  BY <1>1, <1>2, <1>3 DEF Next, vars, Send, Disconnect, Handler,
     messageReceived, ReadStatus, setLedOn, Confirm, GpioFails, PublishFails

(* The event loop takes no frame while it is busy with another of its.     *)
LEMMA ExclusiveInductive == HandlersOK /\ Exclusive /\ [Next]_vars => Exclusive'
<1> SUFFICES ASSUME HandlersOK, Exclusive, [Next]_vars PROVE Exclusive'
  OBVIOUS
<1> USE DEF HandlersOK, Exclusive, Alone, clientVars, handlerVars, Goto
<1>1. ASSUME NEW c \in Channels, Send(c) \/ Disconnect(c) PROVE Exclusive'
  BY <1>1 DEF Send, Disconnect
<1>2. ASSUME NEW c \in Channels, messageReceived(c) PROVE Exclusive'
  BY <1>2 DEF messageReceived
<1>3. ASSUME NEW c \in Channels, Handler(c), ~ messageReceived(c)
      PROVE  Exclusive'
  <2>1. pc[c] # "idle" /\ UNCHANGED <<ledOf, loop>>
    BY <1>3 DEF Handler, ReadStatus, setLedOn, Confirm, GpioFails, publish,
                PublishFails, Write
  <2>2. \A d \in Channels : d # c => pc'[d] = pc[d]
    BY <1>3 DEF Handler, ReadStatus, setLedOn, Confirm, GpioFails, publish,
                PublishFails, Write
  <2> QED
    BY <2>1, <2>2
<1>4. CASE UNCHANGED vars
  BY <1>4 DEF vars
<1> QED
  BY <1>1, <1>2, <1>3, <1>4 DEF Next

(* While an answer waits to be published nobody else touches its LED.      *)
LEMMA PublishesInductive == IInv /\ [Next]_vars => Publishes'
<1> SUFFICES ASSUME IInv, [Next]_vars, Alone', NEW c \in Channels,
                    pc'[c] = "publish"
             PROVE  Truthful(c)'
  BY DEF Publishes
<1>1. UNCHANGED <<loop, ledOf>>
  BY DEF Next, vars, clientVars, Send, Disconnect, Handler, messageReceived,
     ReadStatus, setLedOn, Confirm, GpioFails, publish, PublishFails, Write
<1>2. Alone
  BY <1>1 DEF Alone
<1> USE DEF IInv, TypeOK, HandlersOK, ServerOK, Known, Goto, clientVars,
            handlerVars, Truthful
<1>3. CASE UNCHANGED <<pc, was, response, led>>
  BY <1>1, <1>2, <1>3 DEF Publishes
<1>4. ASSUME NEW d \in Channels, d # c, Handler(d) PROVE Truthful(c)'
  <2>1. /\ pc[c] = "publish"
        /\ was'[c] = was[c] /\ response'[c] = response[c]
    BY <1>4 DEF Handler, messageReceived, ReadStatus, setLedOn, Confirm,
       GpioFails, publish, PublishFails, Write
  <2>2. CASE messageReceived(d)
    BY <1>1, <1>2, <2>1, <2>2 DEF messageReceived, Publishes
  <2>3. CASE ~ messageReceived(d)
    <3>1. pc[d] # "idle"
      BY <1>4, <2>3 DEF Handler, ReadStatus, setLedOn, Confirm, GpioFails,
         publish, PublishFails, Write
    <3>2. ledOf[c] # ledOf[d]
      BY <1>2, <1>4, <2>1, <3>1 DEF Exclusive
    <3>3. led'[ledOf[c]] = led[ledOf[c]]
      BY <1>4, <2>3, <3>2 DEF Handler, ReadStatus, setLedOn, Confirm,
         GpioFails, publish, PublishFails, Write
    <3> QED
      BY <1>1, <1>2, <2>1, <3>3 DEF Publishes
  <2> QED
    BY <2>2, <2>3
<1>5. ASSUME Handler(c) PROVE Truthful(c)'
  <2>1. CASE ReadStatus(c)
    <3>1. /\ was'[c] = led[ledOf[c]] /\ UNCHANGED led
          /\ command[c] \notin Statuses
          /\ response'[c] = IF command[c] = "status"
                            THEN Answer("status", <<led[ledOf[c]]>>)
                            ELSE Answer("text", <<>>)
      BY <2>1 DEF ReadStatus, Statuses
    <3>2. was'[c] # "unknown"
      BY <3>1 DEF Statuses
    <3> QED
      BY <1>1, <3>1, <3>2 DEF Answer
  <2>2. CASE Confirm(c)
    <3>1. /\ response'[c] = Answer("set", <<was[c], led[ledOf[c]]>>)
          /\ was[c] # "unknown" /\ UNCHANGED <<led, was>>
      BY <2>2 DEF Confirm
    <3> QED
      BY <1>1, <3>1 DEF Answer
  <2>3. CASE GpioFails(c)
    BY <2>3 DEF GpioFails, Answer
  <2> QED
    BY <1>5, <2>1, <2>2, <2>3 DEF Handler, messageReceived, setLedOn, publish,
       PublishFails, Write
<1> QED
  BY <1>3, <1>4, <1>5 DEF Next, vars, Send, Disconnect

(* The invariant of the server.                                            *)
THEOREM Invariance == Spec => []IInv
<1>1. IInv /\ [Next]_vars => IInv'
  BY ServerInductive, FramesInductive, HandlersInductive, ToldInductive,
     ExclusiveInductive, PublishesInductive DEF IInv, TypeOK
<1> QED
  BY InitIInv, <1>1, PTL DEF Spec

(* Every variable of the server stays in its range.                        *)
THEOREM TypeCorrect == Spec => []TypeOK
<1>1. IInv => TypeOK
  BY DEF IInv
<1> QED
  BY Invariance, <1>1, PTL

-----------------------------------------------------------------------------
(* A request that has read the status stands for the status it read; a LED *)
(* that no request has read is what it is.                                 *)
Holds(c, x) == ledOf[c] = x /\ was[c] # "unknown"

CommittedRight ==
    /\ Committed \in [Leds -> Statuses]
    /\ \A x \in Leds :
           /\ \A c \in Channels : Holds(c, x) => Committed[x] = was[c]
           /\ (\A c \in Channels : ~ Holds(c, x)) => Committed[x] = led[x]

(* The refinement mapping picks the request that has read the LED.         *)
LEMMA CommittedIsRight == IInv /\ Alone => CommittedRight
<1> SUFFICES ASSUME IInv, Alone PROVE CommittedRight
  OBVIOUS
<1> USE DEF IInv, TypeOK, ServerOK, HandlersOK
<1>1. ASSUME NEW x \in Leds, NEW c \in Channels, Holds(c, x)
      PROVE  Committed[x] = was[c]
  <2> DEFINE h == CHOOSE d \in Channels : ledOf[d] = x /\ was[d] # "unknown"
  <2>1. h \in Channels /\ ledOf[h] = x /\ was[h] # "unknown"
    BY <1>1 DEF Holds
  <2>2. h = c
    BY <1>1, <2>1 DEF Holds, Exclusive, Known
  <2>3. Committed[x] = was[h]
    BY <1>1 DEF Committed, Holds
  <2> QED
    BY <2>2, <2>3
<1>2. ASSUME NEW x \in Leds, \A c \in Channels : ~ Holds(c, x)
      PROVE  Committed[x] = led[x]
  BY <1>2 DEF Committed, Holds
<1>3. \A x \in Leds : Committed[x] \in Statuses
  <2> TAKE x \in Leds
  <2>1. CASE \E c \in Channels : Holds(c, x)
    BY <1>1, <2>1 DEF Holds
  <2>2. CASE \A c \in Channels : ~ Holds(c, x)
    BY <1>2, <2>2
  <2> QED
    BY <2>1, <2>2
<1>4. Committed = [x \in Leds |-> Committed[x]]
  BY DEF Committed
<1> QED
  BY <1>1, <1>2, <1>3, <1>4 DEF CommittedRight

(* A LED that is held by a request changes for the register only when the  *)
(* request is done with it.                                                *)
LEMMA CommittedStays ==
  ASSUME CommittedRight, CommittedRight',
         UNCHANGED <<ledOf, was>>,
         \A x \in Leds : (\A c \in Channels : ~ Holds(c, x)) => led'[x] = led[x]
  PROVE  Committed' = Committed
<1>1. \A x \in Leds, c \in Channels : Holds(c, x)' <=> Holds(c, x)
  BY DEF Holds
<1>2. ASSUME NEW x \in Leds PROVE Committed'[x] = Committed[x]
  <2>1. CASE \E c \in Channels : Holds(c, x)
    BY <1>1, <2>1 DEF CommittedRight
  <2>2. CASE \A c \in Channels : ~ Holds(c, x)
    BY <1>1, <2>2 DEF CommittedRight
  <2> QED
    BY <2>1, <2>2
<1> QED
  BY <1>2 DEF CommittedRight

(* Reading the status: the register keeps what was read.                   *)
LEMMA CommittedRead ==
  ASSUME IInv, Alone, CommittedRight, CommittedRight',
         NEW c \in Channels, ReadStatus(c)
  PROVE  Committed' = Committed
<1> USE DEF IInv, TypeOK, ServerOK, HandlersOK, Known, Goto, clientVars
<1>1. /\ pc[c] = "read" /\ was[c] = "unknown"
      /\ was' = [was EXCEPT ![c] = led[ledOf[c]]]
      /\ UNCHANGED <<ledOf, led>>
  BY DEF ReadStatus
<1>2. \A d \in Channels : ~ Holds(d, ledOf[c])
  BY <1>1 DEF Holds, Exclusive
<1>3. Committed[ledOf[c]] = led[ledOf[c]]
  BY <1>2 DEF CommittedRight
<1>4. Holds(c, ledOf[c])'
  BY <1>1 DEF Holds, Statuses
<1>5. Committed'[ledOf[c]] = led[ledOf[c]]
  BY <1>1, <1>4 DEF CommittedRight
<1>6. ASSUME NEW x \in Leds, x # ledOf[c] PROVE Committed'[x] = Committed[x]
  <2>1. \A d \in Channels : /\ Holds(d, x)' <=> Holds(d, x)
                            /\ Holds(d, x) => was'[d] = was[d]
    BY <1>1, <1>6 DEF Holds
  <2>2. CASE \E d \in Channels : Holds(d, x)
    BY <2>1, <2>2 DEF CommittedRight
  <2>3. CASE \A d \in Channels : ~ Holds(d, x)
    BY <1>1, <2>1, <2>3 DEF CommittedRight
  <2> QED
    BY <2>2, <2>3
<1> QED
  BY <1>3, <1>5, <1>6 DEF CommittedRight

(* Publishing, or failing to: the register takes what the LED is.          *)
LEMMA CommittedPublished ==
  ASSUME IInv, Alone, CommittedRight, CommittedRight',
         NEW c \in Channels, publish(c) \/ PublishFails(c)
  PROVE  Committed' = [Committed EXCEPT ![ledOf[c]] = led[ledOf[c]]]
<1> USE DEF IInv, TypeOK, ServerOK, HandlersOK, Known, Goto, clientVars
<1>1. /\ pc[c] = "publish"
      /\ was' = [was EXCEPT ![c] = "unknown"]
      /\ UNCHANGED <<ledOf, led>>
  BY DEF publish, PublishFails
<1>2. \A d \in Channels : ~ Holds(d, ledOf[c])'
  BY <1>1 DEF Holds, Exclusive
<1>3. Committed'[ledOf[c]] = led[ledOf[c]]
  BY <1>1, <1>2 DEF CommittedRight
<1>4. ASSUME NEW x \in Leds, x # ledOf[c] PROVE Committed'[x] = Committed[x]
  <2>1. \A d \in Channels : /\ Holds(d, x)' <=> Holds(d, x)
                            /\ Holds(d, x) => was'[d] = was[d]
    BY <1>1, <1>4 DEF Holds
  <2>2. CASE \E d \in Channels : Holds(d, x)
    BY <2>1, <2>2 DEF CommittedRight
  <2>3. CASE \A d \in Channels : ~ Holds(d, x)
    BY <1>1, <2>1, <2>3 DEF CommittedRight
  <2> QED
    BY <2>2, <2>3
<1> QED
  BY <1>3, <1>4 DEF CommittedRight

(* Its answer is what the register would have told.                        *)
LEMMA PublishesARequest ==
  ASSUME IInv, Alone, CommittedRight, CommittedRight',
         NEW c \in Channels, publish(c) \/ PublishFails(c)
  PROVE  Register!Next
<1> DEFINE is == led[ledOf[c]]
<1>1. /\ Committed' = [Committed EXCEPT ![ledOf[c]] = is]
      /\ UNCHANGED ledOf
  BY CommittedPublished DEF publish, PublishFails, clientVars
<1>2. ledOf[c] \in Leds /\ is \in Statuses
  BY DEF IInv, TypeOK, ServerOK
<1>3. pc[c] = "publish" /\ response[c] \in Answers /\ Truthful(c)
  BY DEF publish, PublishFails, Goto, IInv, Known, Publishes
<1>4. was[c] # "unknown" => Committed[ledOf[c]] = was[c]
  BY <1>2 DEF CommittedRight, Holds
<1>5. response[c] = [kind |-> response[c].kind, led |-> response[c].led]
  BY <1>3 DEF Answers, Answer
<1>6. \/ topic' = Append(topic, [from |-> c, answer |->
                  [kind |-> response[c].kind, led |-> response[c].led]])
      \/ UNCHANGED topic
  BY <1>5 DEF publish, PublishFails
<1>7. response[c].kind \in {"status", "set", "text", "error"}
  BY <1>3 DEF Answers, Answer
<1>8. was[c] = is /\ is # "unknown" => Committed' = Committed
  BY <1>1, <1>2, <1>4 DEF CommittedRight
<1>9. is # "unknown"
  BY <1>2 DEF Statuses
<1> USE DEF Truthful, Register!Tell, Statuses
<1>10. ASSUME response[c].kind = "status" PROVE Register!Status(c)
  <2>1. response[c].led = <<Committed[ledOf[c]]>> /\ Committed' = Committed
    BY <1>3, <1>4, <1>8, <1>9, <1>10
  <2> QED
    BY <1>6, <1>10, <2>1 DEF Register!Status
<1>11. ASSUME response[c].kind = "set" PROVE Register!Switch(c, is)
  <2>1. response[c].led = <<Committed[ledOf[c]], is>>
    BY <1>3, <1>4, <1>11
  <2> QED
    BY <1>1, <1>6, <1>11, <2>1 DEF Register!Switch
<1>12. ASSUME response[c].kind = "text" PROVE Register!Other(c)
  <2>1. response[c].led = <<>> /\ Committed' = Committed
    BY <1>3, <1>8, <1>9, <1>12
  <2> QED
    BY <1>6, <1>12, <2>1 DEF Register!Other
<1>13. ASSUME response[c].kind = "error" PROVE Register!Fail(c)
  <2>1. response[c].led = <<>>
    BY <1>3, <1>13
  <2> QED
    BY <1>1, <1>2, <1>6, <1>13, <2>1 DEF Register!Fail
<1> QED
  BY <1>1, <1>2, <1>7, <1>10, <1>11, <1>12, <1>13 DEF Register!Next

(* Every step of the server is a step of the register or leaves it alone.  *)
LEMMA StepOfRegister ==
  ASSUME IInv, CommittedRight, CommittedRight', [Next]_vars, Alone
  PROVE  Register!Next \/ UNCHANGED Register!vars
<1> USE DEF clientVars, handlerVars, Register!vars
<1>1. ASSUME NEW c \in Channels, publish(c) \/ PublishFails(c)
      PROVE  Register!Next
  BY <1>1, PublishesARequest
<1>2. ASSUME NEW c \in Channels, ReadStatus(c) PROVE UNCHANGED Register!vars
  BY <1>2, CommittedRead DEF ReadStatus
<1>3. ASSUME NEW c \in Channels, setLedOn(c) \/ GpioFails(c)
      PROVE  UNCHANGED Register!vars
  <2>1. UNCHANGED <<ledOf, was, topic>>
    BY <1>3 DEF setLedOn, GpioFails
  <2>2. ASSUME NEW x \in Leds, \A d \in Channels : ~ Holds(d, x)
        PROVE  led'[x] = led[x]
    <3>1. CASE x = ledOf[c]
      <4>1. pc[c] # "set"
        BY <2>2, <3>1 DEF Holds, IInv, Known
      <4> QED
        BY <1>3, <4>1 DEF setLedOn, GpioFails, Goto
    <3>2. CASE x # ledOf[c]
      BY <1>3, <3>2 DEF setLedOn, GpioFails, IInv, TypeOK, ServerOK
    <3> QED
      BY <3>1, <3>2
  <2> QED
    BY <2>1, <2>2, CommittedStays
<1>4. CASE UNCHANGED <<ledOf, was, led, topic>>
  BY <1>4, CommittedStays
<1> QED
  BY <1>1, <1>2, <1>3, <1>4 DEF Next, vars, Handler, Send, Disconnect,
     messageReceived, Confirm, Write

(* Handlers that cannot disturb each other serve one request at a time.    *)
THEOREM ServerImplementsRegister == Spec => ImplementsRegister
<1>1. Init => Register!Init
  <2> SUFFICES ASSUME Init PROVE Register!Init
    OBVIOUS
  <2>1. Committed = led
    BY DEF Init, Committed
  <2> QED
    BY <2>1 DEF Init, Register!Init, Leds, Statuses
<1>2. IInv /\ IInv' /\ (IInv /\ Alone => CommittedRight)
           /\ (IInv /\ Alone => CommittedRight)' /\ [Next]_vars
         => [Alone => Register!Next]_(Register!vars)
  <2> SUFFICES ASSUME IInv, IInv', IInv /\ Alone => CommittedRight,
                      (IInv /\ Alone => CommittedRight)', [Next]_vars, Alone
               PROVE  Register!Next \/ UNCHANGED Register!vars
    OBVIOUS
  <2>1. UNCHANGED <<loop, ledOf>>
    BY DEF Next, vars, clientVars, Send, Disconnect, Handler, messageReceived,
       ReadStatus, setLedOn, Confirm, GpioFails, publish, PublishFails, Write
  <2>2. CommittedRight /\ CommittedRight'
    BY <2>1 DEF Alone
  <2> QED
    BY <2>2, StepOfRegister
<1> QED
  BY <1>1, <1>2, Invariance, CommittedIsRight, PTL DEF Spec, ImplementsRegister

-----------------------------------------------------------------------------
(* One more note counts for the handler it is of.                          *)
LEMMA ToldCounts ==
  ASSUME ToldOK, NEW c \in Channels
  PROVE  /\ \A n \in 0 .. Len(topic) : Told(c, n) \in Nat
         /\ \A n \in 1 .. Len(topic) : Told(c, n) <= Told(c, Len(topic))
         /\ \A n \in 1 .. Len(topic) : topic[n].from = c => Told(c, n) >= 1
<1> DEFINE Notes(n) == {i \in 1 .. n : topic[i].from = c}
<1>0. Len(topic) \in Nat
  BY DEF ToldOK
<1>1. ASSUME NEW n \in 0 .. Len(topic)
      PROVE  IsFiniteSet(Notes(n)) /\ Cardinality(Notes(n)) \in Nat
  <2>1. IsFiniteSet(1 .. n)
    BY <1>0, FS_Interval
  <2>2. Notes(n) \subseteq 1 .. n
    OBVIOUS
  <2> HIDE DEF Notes
  <2> QED
    BY <2>1, <2>2, FS_Subset, FS_CardinalityType
<1>2. ASSUME NEW n \in 1 .. Len(topic)
      PROVE  Cardinality(Notes(n)) <= Cardinality(Notes(Len(topic)))
  <2>1. Notes(n) \subseteq Notes(Len(topic))
    BY <1>0
  <2> HIDE DEF Notes
  <2> QED
    BY <1>0, <1>1, <2>1, FS_Subset
<1>3. ASSUME NEW n \in 1 .. Len(topic), topic[n].from = c
      PROVE  Cardinality(Notes(n)) >= 1
  <2>1. n \in Notes(n)
    BY <1>0, <1>3
  <2> HIDE DEF Notes
  <2>2. Cardinality(Notes(n)) # 0
    BY <1>0, <1>1, <2>1, FS_EmptySet
  <2> QED
    BY <1>0, <1>1, <2>2
<1> QED
  BY <1>0, <1>1, <1>2, <1>3 DEF Told

(* A notification more counts for the connection it is from.               *)
LEMMA ToldGrows ==
  ASSUME ToldOK, NEW note \in [from : Channels, answer : Answers],
         topic' = Append(topic, note), NEW c \in Channels
  PROVE  /\ \A n \in 0 .. Len(topic) : Told(c, n)' = Told(c, n)
         /\ Told(c, Len(topic))' = Told(c, Len(topic))
                                       + (IF note.from = c THEN 1 ELSE 0)
<1> DEFINE Notes(n) == {i \in 1 .. n : topic[i].from = c}
           NotesP(n) == {i \in 1 .. n : topic'[i].from = c}
           k == Len(topic)
<1>1. /\ k \in Nat /\ Len(topic') = k + 1
      /\ \A i \in 1 .. k : topic'[i] = topic[i]
      /\ topic'[k + 1] = note
  BY DEF ToldOK
<1>2. \A n \in 0 .. k : NotesP(n) = Notes(n)
  BY <1>1
<1>3. IsFiniteSet(Notes(k)) /\ k + 1 \notin Notes(k)
  <2>1. IsFiniteSet(1 .. k) /\ Notes(k) \subseteq 1 .. k
    BY <1>1, FS_Interval
  <2>2. k + 1 \notin Notes(k)
    BY <1>1
  <2> HIDE DEF Notes, k
  <2> QED
    BY <2>1, <2>2, FS_Subset
<1>4. \A n \in 0 .. k : Told(c, n)' = Told(c, n)
  BY <1>2 DEF Told
<1>5. /\ Told(c, Len(topic))' = Cardinality(NotesP(k + 1))
      /\ Told(c, Len(topic)) = Cardinality(Notes(k))
  BY <1>1 DEF Told
<1>6. CASE note.from = c
  <2>1. NotesP(k + 1) = Notes(k) \cup {k + 1}
    BY <1>1, <1>6
  <2> HIDE DEF Notes, NotesP, k
  <2>2. Cardinality(NotesP(k + 1)) = Cardinality(Notes(k)) + 1
    BY <1>3, <2>1, FS_AddElement
  <2> QED
    BY <1>4, <1>5, <1>6, <2>2 DEF k
<1>7. CASE note.from # c
  <2>1. NotesP(k + 1) = Notes(k)
    BY <1>1, <1>7
  <2>2. Cardinality(Notes(k)) \in Nat
    BY <1>3, FS_CardinalityType
  <2> HIDE DEF Notes, NotesP, k
  <2> QED
    BY <1>4, <1>5, <1>7, <2>1, <2>2 DEF k
<1> QED
  BY <1>6, <1>7

(* What a client has been told, and is being told.                         *)
LEMMA HeardType ==
  ASSUME HandlersOK, Known, ToldOK, NEW c \in Channels
  PROVE  Heard(c) \in Seq(Answers)
BY DEF HandlersOK, Known, ToldOK, Heard

(* A client is told in an answer what the topic was told before.           *)
LEMMA AnswersInductive ==
  IInv /\ AnswersFollowNotifications /\ [Next]_vars
      => AnswersFollowNotifications'
<1> SUFFICES ASSUME IInv, AnswersFollowNotifications, [Next]_vars,
                    NEW c \in Channels, open'[c]
             PROVE  /\ Len(Heard(c))' = Told(c, Len(topic))'
                    /\ \A i \in DOMAIN topic' :
                           topic'[i].from = c =>
                               Heard(c)'[Told(c, i)'] = topic'[i].answer
  BY DEF AnswersFollowNotifications
<1> USE DEF IInv, TypeOK, ServerOK, HandlersOK, Goto, clientVars, handlerVars
<1>1. open[c]
  BY DEF Next, vars, Send, Disconnect, Handler, messageReceived, ReadStatus,
     setLedOn, Confirm, GpioFails, publish, PublishFails, Write
<1>2. /\ Len(Heard(c)) = Told(c, Len(topic))
      /\ \A i \in DOMAIN topic :
             topic[i].from = c => Heard(c)[Told(c, i)] = topic[i].answer
  BY <1>1 DEF AnswersFollowNotifications
<1>3. /\ topic \in Seq([from : Channels, answer : Answers])
      /\ Heard(c) \in Seq(Answers)
  BY HeardType DEF ToldOK
<1>4. CASE UNCHANGED topic /\ Heard(c)' = Heard(c)
  BY <1>2, <1>4 DEF Told
<1>5. ASSUME NEW d \in Channels, publish(d)
      PROVE  /\ Len(Heard(c))' = Told(c, Len(topic))'
             /\ \A i \in DOMAIN topic' :
                    topic'[i].from = c =>
                        Heard(c)'[Told(c, i)'] = topic'[i].answer
  <2> DEFINE note == [from |-> d, answer |-> response[d]]
             k == Len(topic)
  <2>1. /\ topic' = Append(topic, note)
        /\ pc[d] = "publish" /\ pc' = [pc EXCEPT ![d] = "write"]
        /\ UNCHANGED <<answers, response>>
    BY <1>5 DEF publish
  <2>2. response[d] \in Answers /\ note \in [from : Channels, answer : Answers]
    BY <2>1 DEF Known
  <2>3. /\ k \in Nat /\ Len(topic') = k + 1 /\ DOMAIN topic' = 1 .. k + 1
        /\ DOMAIN topic = 1 .. k
        /\ \A i \in 1 .. k : topic'[i] = topic[i]
        /\ topic'[k + 1] = note
    BY <1>3, <2>1, <2>2
  <2>4. /\ \A n \in 0 .. k : Told(c, n)' = Told(c, n)
        /\ Told(c, Len(topic))' = Told(c, Len(topic)) + (IF d = c THEN 1 ELSE 0)
    BY <2>1, <2>2, ToldGrows
  <2>5. /\ \A n \in 0 .. k : Told(c, n) \in Nat
        /\ \A n \in 1 .. k : Told(c, n) <= Told(c, k)
        /\ \A n \in 1 .. k : topic[n].from = c => Told(c, n) >= 1
    BY ToldCounts
  <2>6. ASSUME NEW i \in 1 .. k + 1, i \notin 1 .. k
        PROVE  Told(c, i)' = Told(c, Len(topic))'
    <3>1. i = Len(topic')
      BY <2>3, <2>6
    <3> QED
      BY <3>1 DEF Told
  <2> HIDE DEF k, note
  <2>7. CASE d = c
    <3>1. Heard(c) = answers[c] /\ Heard(c)' = Append(Heard(c), response[c])
      BY <2>1, <2>7 DEF Heard
    <3>2. /\ Len(Heard(c)') = Len(Heard(c)) + 1
          /\ \A j \in 1 .. Len(Heard(c)) : Heard(c)'[j] = Heard(c)[j]
          /\ Heard(c)'[Len(Heard(c)) + 1] = response[c]
      BY <1>3, <2>2, <2>7, <3>1
    <3>3. ASSUME NEW i \in 1 .. k, topic'[i].from = c
          PROVE  Heard(c)'[Told(c, i)'] = topic'[i].answer
      <4>1. topic[i].from = c /\ Heard(c)[Told(c, i)] = topic[i].answer
        BY <1>2, <2>3, <3>3
      <4>2. Told(c, i)' = Told(c, i) /\ Told(c, i) \in 1 .. Len(Heard(c))
        BY <1>2, <2>3, <2>4, <2>5, <4>1 DEF k
      <4> QED
        BY <2>3, <3>2, <4>1, <4>2
    <3>4. \A i \in 1 .. k + 1 : i \notin 1 .. k => Told(c, i)' = Len(Heard(c)) + 1
      BY <1>2, <2>4, <2>6, <2>7
    <3>5. topic'[k + 1].answer = response[c]
      BY <2>3, <2>7 DEF note
    <3>6. ASSUME NEW i \in DOMAIN topic', topic'[i].from = c, i \notin 1 .. k
          PROVE  Heard(c)'[Told(c, i)'] = topic'[i].answer
      <4>1. i \in 1 .. k + 1 /\ i = k + 1
        BY <2>3, <3>6
      <4> QED
        BY <3>2, <3>4, <3>5, <3>6, <4>1
    <3>7. Len(Heard(c))' = Told(c, Len(topic))'
      BY <1>2, <2>4, <2>7, <3>2
    <3> QED
      BY <3>3, <3>6, <3>7
  <2>8. CASE d # c
    <3>1. Heard(c)' = Heard(c)
      BY <2>1, <2>8 DEF Heard
    <3>2. ASSUME NEW i \in 1 .. k, topic'[i].from = c
          PROVE  Heard(c)'[Told(c, i)'] = topic'[i].answer
      BY <1>2, <2>3, <2>4, <3>1, <3>2
    <3>3. topic'[k + 1].from # c
      BY <2>3, <2>8 DEF note
    <3>4. Told(c, Len(topic))' = Told(c, Len(topic))
      BY <2>3, <2>4, <2>5, <2>8 DEF k
    <3>5. ASSUME NEW i \in DOMAIN topic', topic'[i].from = c
          PROVE  i \in 1 .. k
      BY <2>3, <3>3, <3>5
    <3> QED
      BY <1>2, <3>1, <3>2, <3>4, <3>5
  <2> QED
    BY <2>7, <2>8
<1>6. ASSUME NEW d \in Channels, Write(d)
      PROVE  UNCHANGED topic /\ Heard(c)' = Heard(c)
  <2>1. /\ pc[d] = "write" /\ pc' = [pc EXCEPT ![d] = "idle"]
        /\ answers' = IF open[d]
                      THEN [answers EXCEPT ![d] = Append(@, response[d])]
                      ELSE answers
        /\ response' = [response EXCEPT ![d] = NoAnswer]
        /\ UNCHANGED topic
    BY <1>6 DEF Write
  <2>2. answers \in [Channels -> Seq(Answers)]
    BY DEF ToldOK
  <2> QED
    BY <1>1, <2>1, <2>2 DEF Heard
<1>7. ASSUME NEW d \in Channels, ~ publish(d), ~ Write(d), Handler(d)
      PROVE  UNCHANGED topic /\ Heard(c)' = Heard(c)
  <2>1. /\ UNCHANGED <<topic, answers>>
        /\ pc[d] # "write" /\ pc'[d] # "write"
        /\ \A e \in Channels : e # d => pc'[e] = pc[e]
                                        /\ response'[e] = response[e]
    BY <1>7 DEF Handler, messageReceived, ReadStatus, setLedOn, Confirm,
       GpioFails, PublishFails
  <2> QED
    BY <2>1 DEF Heard
<1>8. CASE UNCHANGED <<topic, pc, response, answers>>
  <2>1. Heard(c)' = Heard(c)
    BY <1>8 DEF Heard
  <2> QED
    BY <1>4, <1>8, <2>1
<1> QED
  BY <1>4, <1>5, <1>6, <1>7, <1>8 DEF Next, vars, Send, Disconnect

(* The topic knows of every answer before the client does, and each client *)
(* hears all of its own in the order in which they were published.         *)
THEOREM AnswersInOrder == Spec => []AnswersFollowNotifications
<1>1. Init => AnswersFollowNotifications
  <2> SUFFICES ASSUME Init, NEW c \in Channels
               PROVE  /\ Len(Heard(c)) = Told(c, Len(topic))
                      /\ DOMAIN topic = {}
    BY DEF AnswersFollowNotifications
  <2>1. Heard(c) = <<>> /\ topic = <<>>
    BY DEF Init, Heard
  <2>2. {i \in 1 .. 0 : topic[i].from = c} = {} /\ Cardinality({}) = 0
    BY FS_EmptySet
  <2> QED
    BY <2>1, <2>2 DEF Told
<1> QED
  BY <1>1, AnswersInductive, Invariance, PTL DEF Spec
=============================================================================
