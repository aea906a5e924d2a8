---------------------------- MODULE RoutingProofs ----------------------------
(* Theorems about the router, for every set of requests, every pool size,   *)
(* every choice of routes and every behaviour of the provider.              *)
EXTENDS Routing, RequestStatisticsProofs

(* Every variable of the router stays in its range.                        *)
LEMMA TypeInductive == TypeOK /\ [Next]_vars => TypeOK'
<1> SUFFICES ASSUME TypeOK, [Next]_vars PROVE TypeOK'
  OBVIOUS
<1> USE DEF TypeOK, ContainerTypeOK, StatTypeOK, PC, Deferred, Reply, Call,
            Goto, CallGoto, Answer, containerVars, statVars, counters, history,
            workVars
<1>1. ASSUME NEW r \in Requests, Arrive(r) PROVE TypeOK'
  BY <1>1 DEF Arrive, TakeId
<1>2. ASSUME NEW r \in Requests, Handler(r) PROVE TypeOK'
  <2>1. CASE Enter(r)
    BY <2>1 DEF Enter, Count
  <2>2. CASE RecordMax(r)
    <3>1. raced' \in BOOLEAN
      BY <2>2, RacedTyped DEF RecordMax
    <3> QED
      BY <2>2, <3>1 DEF RecordMax, updateStatistics, CompareMax, WriteMax
  <2>3. CASE SendBlocking(r)
    BY <2>3 DEF SendBlocking
  <2>4. CASE EndBlocking(r)
    BY <2>4 DEF EndBlocking, Uncount
  <2>5. CASE LeaveBlocking(r)
    BY <2>5 DEF LeaveBlocking
  <2>6. CASE SendNonBlocking(r)
    BY <2>6 DEF SendNonBlocking
  <2>7. CASE SendFails(r)
    BY <2>7 DEF SendFails
  <2>8. CASE LeaveNonBlocking(r)
    BY <2>8 DEF LeaveNonBlocking
  <2> QED
    BY <1>2, <2>1, <2>2, <2>3, <2>4, <2>5, <2>6, <2>7, <2>8 DEF Handler
<1>3. ASSUME NEW r \in Requests, Callback(r) PROVE TypeOK'
  <2>1. CASE OnCompleted(r)
    BY <2>1 DEF OnCompleted, Uncount
  <2>2. CASE OnSuccess(r)
    BY <2>2 DEF OnSuccess
  <2>3. CASE CheckResult(r)
    BY <2>3 DEF CheckResult
  <2>4. CASE StoreResult(r)
    BY <2>4 DEF StoreResult, setResult, SetResultThrows, Escape
  <2>5. CASE ReadFails(r)
    BY <2>5 DEF ReadFails, Escape
  <2>6. CASE OnThrowable(r)
    BY <2>6 DEF OnThrowable, Uncount
  <2>7. CASE OnFailure(r)
    BY <2>7 DEF OnFailure
  <2> QED
    BY <1>3, <2>1, <2>2, <2>3, <2>4, <2>5, <2>6, <2>7 DEF Callback
<1>4. ASSUME NEW r \in Requests, Respond(r) PROVE TypeOK'
  BY <1>4 DEF Respond
<1>5. ASSUME NEW r \in Requests, ContainerStep(r) PROVE TypeOK'
  BY <1>5 DEF ContainerStep, Container, Dispatch, AsyncTimeout, AsyncComplete
<1>6. CASE UNCHANGED vars
  BY <1>6 DEF vars
<1> QED
  BY <1>1, <1>2, <1>3, <1>4, <1>5, <1>6 DEF Next

(* Every variable of the router stays in its type.                         *)
THEOREM TypeCorrect == Spec => []TypeOK
<1>1. Init => TypeOK
  BY RacedTyped DEF Init, ContainerInit, StatInit, TypeOK, ContainerTypeOK, StatTypeOK,
         PC, Deferred, Reply, Call
<1> QED
  BY <1>1, TypeInductive, PTL DEF Spec

-----------------------------------------------------------------------------
(* Handler, call, DeferredResult and answer keep in step.                  *)
LEMMA PhasesInductive == TypeOK /\ Phases /\ [Next]_vars => Phases'
<1> SUFFICES ASSUME TypeOK, Phases, [Next]_vars PROVE Phases'
  OBVIOUS
<1> USE DEF TypeOK, ContainerTypeOK, PC, Deferred, Reply, Call,
            Phases, Forwardable, Goto, CallGoto, Answer, containerVars, workVars
<1>0. \A r \in Requests :
          outcome[r] \in {"none", "success", "error", "unreadable", "failure"}
  BY RoutingAssumption
<1>1. ASSUME NEW r \in Requests, Arrive(r) PROVE Phases'
  BY <1>1 DEF Arrive, TakeId
<1>2. ASSUME NEW r \in Requests, Handler(r) PROVE Phases'
  <2>1. CASE Enter(r)
    BY <2>1 DEF Enter, Count
  <2>2. CASE RecordMax(r)
    BY <2>2 DEF RecordMax, updateStatistics, CompareMax, WriteMax
  <2>3. CASE SendBlocking(r)
    BY <2>3 DEF SendBlocking
  <2>4. CASE EndBlocking(r)
    BY <2>4 DEF EndBlocking, Uncount
  <2>5. CASE LeaveBlocking(r)
    BY <2>5 DEF LeaveBlocking
  <2>6. CASE SendNonBlocking(r)
    BY <2>6 DEF SendNonBlocking
  <2>7. CASE SendFails(r)
    BY <2>7 DEF SendFails
  <2>8. CASE LeaveNonBlocking(r)
    BY <2>8 DEF LeaveNonBlocking
  <2> QED
    BY <1>2, <2>1, <2>2, <2>3, <2>4, <2>5, <2>6, <2>7, <2>8 DEF Handler
<1>3. ASSUME NEW r \in Requests, Callback(r) PROVE Phases'
  <2>1. CASE OnCompleted(r)
    BY <1>0, <2>1 DEF OnCompleted, Uncount
  <2>2. CASE OnSuccess(r)
    BY <2>2 DEF OnSuccess
  <2>3. CASE CheckResult(r)
    BY <2>3 DEF CheckResult
  <2>4. CASE StoreResult(r)
    <3>1. CASE dr[r] = "timedOut"
      BY <2>4, <3>1 DEF StoreResult, setResult, SetResultThrows, Escape
    <3>2. CASE dr[r] = "open"
      BY <2>4, <3>2 DEF StoreResult, setResult, SetResultThrows, Escape
    <3>3. CASE dr[r] \notin {"timedOut", "open"}
      <4>1. dr' = dr
        BY <2>4, <3>3 DEF StoreResult, setResult
      <4>2. call[r] = "store" /\ call' = [call EXCEPT ![r] = "done"]
        BY <2>4, <3>3 DEF StoreResult, SetResultThrows
      <4> QED
        BY <2>4, <4>1, <4>2 DEF StoreResult
    <3> QED
      BY <3>1, <3>2, <3>3
  <2>5. CASE ReadFails(r)
    BY <2>5 DEF ReadFails, Escape
  <2>6. CASE OnThrowable(r)
    BY <2>6 DEF OnThrowable, Uncount
  <2>7. CASE OnFailure(r)
    BY <2>7 DEF OnFailure
  <2> QED
    BY <1>3, <2>1, <2>2, <2>3, <2>4, <2>5, <2>6, <2>7 DEF Callback
<1>4. ASSUME NEW r \in Requests, Respond(r) PROVE Phases'
  BY <1>4, RoutingAssumption DEF Respond
<1>5. ASSUME NEW r \in Requests, ContainerStep(r) PROVE Phases'
  BY <1>5 DEF ContainerStep, Container, Dispatch, AsyncTimeout, AsyncComplete
<1>6. CASE UNCHANGED vars
  BY <1>6 DEF vars
<1> QED
  BY <1>1, <1>2, <1>3, <1>4, <1>5, <1>6 DEF Next

(* Handler, call, DeferredResult and answer of a request stay in           *)
(* agreement.                                                              *)
THEOREM PhasesInvariant == Spec => []Phases
<1>1. Init => Phases
  BY DEF Init, ContainerInit, Phases
<1>2. Spec => []TypeOK
  BY TypeCorrect
<1> QED
  BY <1>1, <1>2, PhasesInductive, PTL DEF Spec

(* A body reaches a client only if the provider sent it, only after the     *)
(* request stopped counting, and never after a second decrement.           *)
THEOREM AnswersSound ==
  Spec => [](BodyOnlyFromProvider /\ ReleasedBeforeOk /\ TwiceNeverOk)
<1>1. Phases => BodyOnlyFromProvider /\ ReleasedBeforeOk /\ TwiceNeverOk
  BY DEF Phases, BodyOnlyFromProvider, ReleasedBeforeOk, TwiceNeverOk, Counted
<1> QED
  BY <1>1, PhasesInvariant, PTL

-----------------------------------------------------------------------------
(* What every step does to the requests in progress, to those whose         *)
(* increment was taken back twice, and to the counter.                      *)
Keeps == UNCHANGED <<InProgress, Twice, concurrentRequests>>

Begins(r) == /\ r \notin InProgress
             /\ InProgress' = InProgress \cup {r}
             /\ Twice' = Twice
             /\ concurrentRequests' = concurrentRequests + 1

Ends(r) == /\ r \in InProgress
           /\ InProgress' = InProgress \ {r}
           /\ Twice' = Twice
           /\ concurrentRequests' = concurrentRequests - 1

Overdraws(r) == /\ r \notin Twice
                /\ InProgress' = InProgress
                /\ Twice' = Twice \cup {r}
                /\ concurrentRequests' = concurrentRequests - 1

Moves(r) == Keeps \/ Begins(r) \/ Ends(r) \/ Overdraws(r)

(* Enter begins a request; EndBlocking, OnCompleted and OnThrowable end one; *)
(* OnThrowable after onCompleted overdraws.                                 *)
LEMMA StepOfCounter ==
  ASSUME TypeOK, Phases, [Next]_vars
  PROVE  Keeps \/ \E r \in Requests : Moves(r)
<1> USE DEF TypeOK, ContainerTypeOK, PC, Call, Phases, Goto, CallGoto, Answer,
            containerVars, statVars, counters, workVars,
            Keeps, InProgress, Counted, Twice
<1>1. ASSUME NEW r \in Requests, Arrive(r) PROVE Keeps
  BY <1>1 DEF Arrive, TakeId
<1>2. ASSUME NEW r \in Requests, Handler(r) PROVE Moves(r)
  <2>1. ASSUME Enter(r) PROVE Begins(r)
    BY <2>1 DEF Enter, Count, Begins
  <2>2. ASSUME RecordMax(r) PROVE Keeps
    BY <2>2 DEF RecordMax, updateStatistics, CompareMax, WriteMax
  <2>3. ASSUME SendBlocking(r) PROVE Keeps
    BY <2>3 DEF SendBlocking
  <2>4. ASSUME EndBlocking(r) PROVE Ends(r)
    BY <2>4 DEF EndBlocking, Uncount, Ends
  <2>5. ASSUME LeaveBlocking(r) PROVE Keeps
    BY <2>5 DEF LeaveBlocking
  <2>6. ASSUME SendNonBlocking(r) PROVE Keeps
    <3>1. \A s \in Requests : s # r => pc'[s] = pc[s] /\ call'[s] = call[s]
      BY <2>6 DEF SendNonBlocking
    <3>2. /\ pc[r] = "work" /\ pc'[r] = "return" /\ call'[r] = "sent"
          /\ kind[r] # "blocking" /\ call[r] = "none"
      BY <2>6 DEF SendNonBlocking
    <3>3. UNCHANGED <<kind, concurrentRequests>>
      BY <2>6 DEF SendNonBlocking
    <3>4. Counted(r) <=> Counted(r)'
      BY <3>2, <3>3, RoutingAssumption
    <3>5. \A s \in Requests : s # r => (Counted(s) <=> Counted(s)')
      BY <3>1, <3>3
    <3>6. InProgress' = InProgress
      BY <3>4, <3>5
    <3>7. Twice' = Twice
      BY <3>1, <3>2
    <3> QED
      BY <3>3, <3>6, <3>7
  <2>7. ASSUME SendFails(r) PROVE Keeps
    BY <2>7 DEF SendFails
  <2>8. ASSUME LeaveNonBlocking(r) PROVE Keeps
    BY <2>8 DEF LeaveNonBlocking
  <2> HIDE DEF Keeps
  <2> QED
    BY <1>2, <2>1, <2>2, <2>3, <2>4, <2>5, <2>6, <2>7, <2>8 DEF Handler, Moves
<1>3. ASSUME NEW r \in Requests, Callback(r) PROVE Moves(r)
  <2>1. ASSUME OnCompleted(r) PROVE Ends(r)
    BY <2>1 DEF OnCompleted, Uncount, Ends
  <2>2. ASSUME OnSuccess(r) PROVE Keeps
    BY <2>2 DEF OnSuccess
  <2>3. ASSUME CheckResult(r) PROVE Keeps
    BY <2>3 DEF CheckResult
  <2>4. ASSUME StoreResult(r) PROVE Keeps
    BY <2>4 DEF StoreResult, setResult, SetResultThrows, Escape
  <2>5. ASSUME ReadFails(r) PROVE Keeps
    BY <2>5 DEF ReadFails, Escape
  <2>6. ASSUME OnThrowable(r) PROVE Ends(r) \/ Overdraws(r)
    <3>1. CASE call[r] = "answered"
      <4>1. Ends(r)
        BY <2>6, <3>1 DEF OnThrowable, Uncount, Ends
      <4> QED
        BY <4>1
    <3>2. CASE call[r] = "thrown"
      <4>1. Overdraws(r)
        BY <2>6, <3>2 DEF OnThrowable, Uncount, Overdraws
      <4> QED
        BY <4>1
    <3> QED
      BY <2>6, <3>1, <3>2 DEF OnThrowable
  <2>7. ASSUME OnFailure(r) PROVE Keeps
    BY <2>7 DEF OnFailure
  <2> HIDE DEF Keeps
  <2> QED
    BY <1>3, <2>1, <2>2, <2>3, <2>4, <2>5, <2>6, <2>7 DEF Callback, Moves
<1>4. ASSUME NEW r \in Requests, Respond(r) PROVE Keeps
  BY <1>4 DEF Respond
<1>5. ASSUME NEW r \in Requests, ContainerStep(r) PROVE Keeps
  BY <1>5 DEF ContainerStep, Container, Dispatch, AsyncTimeout, AsyncComplete
<1>6. ASSUME UNCHANGED vars PROVE Keeps
  BY <1>6 DEF vars
<1> HIDE DEF Keeps
<1> QED
  BY <1>1, <1>2, <1>3, <1>4, <1>5, <1>6 DEF Next

(* The counter is the number of requests in progress, less the overdrawn.   *)
THEOREM CounterExact == Spec => []CounterAccounting
<1>1. Init => CounterAccounting
  <2> SUFFICES ASSUME Init PROVE CounterAccounting
    OBVIOUS
  <2>1. InProgress = {} /\ Twice = {}
    BY DEF Init, ContainerInit, InProgress, Counted, Twice
  <2> QED
    BY <2>1, FS_EmptySet DEF Init, StatInit, CounterAccounting
<1>2. TypeOK /\ Phases /\ CounterAccounting /\ [Next]_vars => CounterAccounting'
  <2> SUFFICES ASSUME TypeOK, Phases, CounterAccounting, [Next]_vars
               PROVE  CounterAccounting'
    OBVIOUS
  <2>1. IsFiniteSet(InProgress) /\ Cardinality(InProgress) \in Nat
    BY ContainerAssumption, FS_Subset, FS_CardinalityType DEF InProgress
  <2>2. IsFiniteSet(Twice) /\ Cardinality(Twice) \in Nat
    BY ContainerAssumption, FS_Subset, FS_CardinalityType DEF Twice
  <2>0. concurrentRequests \in Int
    BY DEF TypeOK, StatTypeOK
  <2>3. CASE Keeps
    BY <2>3 DEF Keeps, CounterAccounting
  <2>4. ASSUME NEW r \in Requests, Begins(r) PROVE CounterAccounting'
    <3>1. Cardinality(InProgress') = Cardinality(InProgress) + 1
      BY <2>1, <2>2, <2>4, FS_AddElement DEF Begins
    <3> QED
      BY <2>0, <2>1, <2>2, <2>4, <3>1 DEF Begins, CounterAccounting
  <2>5. ASSUME NEW r \in Requests, Ends(r) PROVE CounterAccounting'
    <3>1. Cardinality(InProgress') = Cardinality(InProgress) - 1
      BY <2>1, <2>2, <2>5, FS_RemoveElement DEF Ends
    <3> QED
      BY <2>0, <2>1, <2>2, <2>5, <3>1 DEF Ends, CounterAccounting
  <2>6. ASSUME NEW r \in Requests, Overdraws(r) PROVE CounterAccounting'
    <3>1. Cardinality(Twice') = Cardinality(Twice) + 1
      BY <2>1, <2>2, <2>6, FS_AddElement DEF Overdraws
    <3> QED
      BY <2>0, <2>1, <2>2, <2>6, <3>1 DEF Overdraws, CounterAccounting
  <2> QED
    BY <2>3, <2>4, <2>5, <2>6, StepOfCounter DEF Moves
<1> QED
  BY <1>1, <1>2, TypeCorrect, PhasesInvariant, PTL DEF Spec

-----------------------------------------------------------------------------
(* What the clients of the metered routes have received.                   *)
Heard == [r \in Requests |-> IF kind[r] = "spring" THEN "none" ELSE reply[r]]

(* The steps of the router as the gauge sees them.                         *)
Unseen == UNCHANGED <<InProgress, Released, Twice, concurrentRequests, Heard>>

Entering(r) == /\ Begins(r) /\ r \notin Released
               /\ UNCHANGED <<Released, Heard>>

Finishing(r) == /\ Ends(r) /\ Released' = Released \cup {r}
                /\ UNCHANGED Heard

Overdrawing(r) == Overdraws(r) /\ UNCHANGED <<Released, Heard>>

Answering(r) ==
    /\ UNCHANGED <<InProgress, Released, Twice, concurrentRequests>>
    /\ Heard[r] = "none"
    /\ \/ r \in Released /\ Heard' = [Heard EXCEPT ![r] = "ok"]
       \/ /\ r \in InProgress \cup Released
          /\ \/ Heard' = [Heard EXCEPT ![r] = "error"]
             \/ Heard' = [Heard EXCEPT ![r] = "unavailable"]

Seen(r) == \/ Unseen \/ Entering(r) \/ Finishing(r) \/ Overdrawing(r)
           \/ Answering(r)

(* A request whose progress the gauge does not see.                        *)
Overlooked(r) == /\ Counted(r)' = Counted(r) /\ Entered(r)' = Entered(r)
                 /\ (call[r] = "twice")' = (call[r] = "twice")

(* If that of no request is seen, only an answer can be.                   *)
LEMMA NothingSeen ==
  ASSUME \A s \in Requests : Overlooked(s)
  PROVE  UNCHANGED <<InProgress, Released, Twice>>
<1>1. InProgress' = InProgress
  BY DEF InProgress, Overlooked
<1>2. Released' = Released
  BY DEF Released, Overlooked
<1>3. Twice' = Twice
  BY DEF Twice, Overlooked
<1> QED
  BY <1>1, <1>2, <1>3

(* Somebody is answered.                                                   *)
LEMMA AnswerSeen ==
  ASSUME TypeOK, NEW r \in Requests, \A s \in Requests : Overlooked(s),
         UNCHANGED <<concurrentRequests, kind>>,
         NEW verdict, reply' = [reply EXCEPT ![r] = verdict],
         reply[r] = "none", kind[r] # "spring",
         \/ verdict = "ok" /\ Entered(r) /\ ~ Counted(r)
         \/ verdict \in {"error", "unavailable"} /\ (Entered(r) \/ Counted(r))
  PROVE  Answering(r)
<1>1. UNCHANGED <<InProgress, Released, Twice>>
  BY NothingSeen
<1>2. DOMAIN reply = Requests
  BY DEF TypeOK, ContainerTypeOK
<1>3. Heard' = [s \in Requests |-> IF kind[s] = "spring" THEN "none" ELSE reply'[s]]
  BY DEF Heard
<1>4. Heard[r] = "none" /\ Heard' = [Heard EXCEPT ![r] = verdict]
  BY <1>2, <1>3 DEF Heard
<1>5. /\ verdict = "ok" => r \in Released
      /\ verdict # "ok" => r \in InProgress \cup Released
  BY DEF Released, InProgress
<1> QED
  BY <1>1, <1>4, <1>5 DEF Answering

(* Each action is one of them.                                             *)
LEMMA StepSeen ==
  ASSUME TypeOK, Phases, [Next]_vars
  PROVE  Unseen \/ \E r \in Requests : Seen(r)
<1> USE DEF TypeOK, ContainerTypeOK, PC, Call, Phases, Goto, CallGoto, Answer,
            containerVars, statVars, counters, workVars, Unseen,
            InProgress, Counted, Twice, Released, Entered, Heard
<1>1. ASSUME NEW r \in Requests, Arrive(r) PROVE Unseen
  BY <1>1 DEF Arrive, TakeId
<1>2. ASSUME NEW r \in Requests, Handler(r) PROVE Seen(r)
  <2>1. ASSUME Enter(r) PROVE Entering(r)
    BY <2>1 DEF Enter, Count, Begins, Entering
  <2>2. ASSUME RecordMax(r) PROVE Unseen
    BY <2>2 DEF RecordMax, updateStatistics, CompareMax, WriteMax
  <2>3. ASSUME SendBlocking(r) PROVE Unseen
    BY <2>3 DEF SendBlocking
  <2>4. ASSUME EndBlocking(r) PROVE Finishing(r)
    BY <2>4 DEF EndBlocking, Uncount, Ends, Finishing
  <2>5. ASSUME LeaveBlocking(r) PROVE Answering(r)
    BY <2>5 DEF LeaveBlocking, Answering
  <2>6. ASSUME SendNonBlocking(r) PROVE Unseen
    <3>1. ASSUME NEW s \in Requests PROVE Overlooked(s)
      <4>1. CASE s = r
        <5>1. Counted(r)' = Counted(r)
          BY <2>6, RoutingAssumption DEF SendNonBlocking
        <5>2. Entered(r)' = Entered(r)
          BY <2>6, RoutingAssumption DEF SendNonBlocking
        <5>3. (call[r] = "twice")' = (call[r] = "twice")
          BY <2>6, RoutingAssumption DEF SendNonBlocking
        <5> HIDE DEF Counted, Entered
        <5> QED
          BY <4>1, <5>1, <5>2, <5>3 DEF Overlooked
      <4>2. CASE s # r
        BY <2>6, <4>2 DEF SendNonBlocking, Overlooked
      <4> QED
        BY <4>1, <4>2
    <3>2. UNCHANGED <<concurrentRequests, kind, reply>>
      BY <2>6 DEF SendNonBlocking
    <3> QED
      BY <3>1, <3>2, NothingSeen
  <2>7. ASSUME SendFails(r) PROVE Answering(r)
    <3>1. ASSUME NEW s \in Requests PROVE Overlooked(s)
      BY <2>7, <3>1 DEF SendFails, Overlooked
    <3>2. /\ UNCHANGED <<concurrentRequests, kind>> /\ Counted(r)
          /\ reply[r] = "none" /\ reply' = [reply EXCEPT ![r] = "error"]
          /\ kind[r] = "nonBlocking"
      BY <2>7 DEF SendFails
    <3> HIDE DEF Heard, InProgress, Released, Twice, Entered, Counted
    <3> QED
      BY <3>1, <3>2, AnswerSeen
  <2>8. ASSUME LeaveNonBlocking(r) PROVE Unseen
    BY <2>8 DEF LeaveNonBlocking
  <2> HIDE DEF Unseen
  <2> QED
    BY <1>2, <2>1, <2>2, <2>3, <2>4, <2>5, <2>6, <2>7, <2>8 DEF Handler, Seen
<1>3. ASSUME NEW r \in Requests, Callback(r) PROVE Seen(r)
  <2>1. ASSUME OnCompleted(r) PROVE Finishing(r)
    BY <2>1 DEF OnCompleted, Uncount, Ends, Finishing
  <2>2. ASSUME OnSuccess(r) PROVE Unseen
    BY <2>2 DEF OnSuccess
  <2>3. ASSUME CheckResult(r) PROVE Unseen
    BY <2>3 DEF CheckResult
  <2>4. ASSUME StoreResult(r) PROVE Unseen
    BY <2>4 DEF StoreResult, setResult, SetResultThrows, Escape
  <2>5. ASSUME ReadFails(r) PROVE Unseen
    BY <2>5 DEF ReadFails, Escape
  <2>6. ASSUME OnThrowable(r) PROVE Finishing(r) \/ Overdrawing(r)
    <3>1. CASE call[r] = "answered"
      <4>1. Finishing(r)
        BY <2>6, <3>1 DEF OnThrowable, Uncount, Ends, Finishing
      <4> QED
        BY <4>1
    <3>2. CASE call[r] = "thrown"
      <4>1. Overdrawing(r)
        BY <2>6, <3>2 DEF OnThrowable, Uncount, Overdraws, Overdrawing
      <4> QED
        BY <4>1
    <3> QED
      BY <2>6, <3>1, <3>2 DEF OnThrowable
  <2>7. ASSUME OnFailure(r) PROVE Unseen
    BY <2>7 DEF OnFailure
  <2> HIDE DEF Unseen
  <2> QED
    BY <1>3, <2>1, <2>2, <2>3, <2>4, <2>5, <2>6, <2>7 DEF Callback, Seen
<1>4. ASSUME NEW r \in Requests, Respond(r) PROVE Unseen
  BY <1>4 DEF Respond
<1>5. ASSUME NEW r \in Requests, ContainerStep(r) PROVE Seen(r)
  <2>1. ASSUME Dispatch(r), UNCHANGED <<statVars, workVars>>
        PROVE  Unseen \/ Answering(r)
    <3>1. ASSUME NEW s \in Requests PROVE Overlooked(s)
      BY <2>1, <3>1, RoutingAssumption DEF Dispatch, Overlooked
    <3>2. /\ UNCHANGED <<concurrentRequests, kind>>
          /\ reply[r] = "none" /\ reply' = [reply EXCEPT ![r] = "ok"]
          /\ ~ Counted(r) /\ (kind[r] # "spring" => Entered(r))
      BY <2>1, RoutingAssumption DEF Dispatch
    <3>3. CASE kind[r] = "spring"
      <4>1. Heard' = Heard
        BY <3>2, <3>3
      <4> QED
        BY <3>1, <3>2, <4>1, NothingSeen
    <3>4. CASE kind[r] # "spring"
      <4> HIDE DEF Heard, InProgress, Released, Twice, Entered, Counted
      <4> QED
        BY <3>1, <3>2, <3>4, AnswerSeen
    <3> QED
      BY <3>3, <3>4
  <2>2. ASSUME AsyncTimeout(r), UNCHANGED <<statVars, workVars>>
        PROVE  Unseen \/ Answering(r)
    <3>1. ASSUME NEW s \in Requests PROVE Overlooked(s)
      BY <2>2, <3>1 DEF AsyncTimeout, Overlooked
    <3>2. /\ UNCHANGED <<concurrentRequests, kind>>
          /\ reply[r] = "none" /\ reply' = [reply EXCEPT ![r] = "unavailable"]
          /\ kind[r] # "spring" => Entered(r)
      BY <2>2, RoutingAssumption DEF AsyncTimeout
    <3>3. CASE kind[r] = "spring"
      <4>1. Heard' = Heard
        BY <3>2, <3>3
      <4> QED
        BY <3>1, <3>2, <4>1, NothingSeen
    <3>4. CASE kind[r] # "spring"
      <4> HIDE DEF Heard, InProgress, Released, Twice, Entered, Counted
      <4> QED
        BY <3>1, <3>2, <3>4, AnswerSeen
    <3> QED
      BY <3>3, <3>4
  <2>3. ASSUME AsyncComplete(r), UNCHANGED <<statVars, workVars>> PROVE Unseen
    BY <2>3 DEF AsyncComplete
  <2> HIDE DEF Unseen
  <2> QED
    BY <1>5, <2>1, <2>2, <2>3 DEF ContainerStep, Container, Seen
<1>6. ASSUME UNCHANGED vars PROVE Unseen
  BY <1>6 DEF vars
<1> HIDE DEF Unseen
<1> QED
  BY <1>1, <1>2, <1>3, <1>4, <1>5, <1>6 DEF Next

(* A second decrement adds to Twice what it takes from the counter.        *)
LEMMA StepOfGauge ==
  ASSUME TypeOK, Phases, [Next]_vars
  PROVE  [Gauge!Next]_Gauge!gaugeVars
<1>1. /\ IsFiniteSet(Twice) /\ Cardinality(Twice) \in Nat
      /\ concurrentRequests \in Int
  BY ContainerAssumption, FS_Subset, FS_CardinalityType
  DEF Twice, TypeOK, StatTypeOK
<1>2. CASE Unseen
  BY <1>2 DEF Unseen, Heard, Gauge!gaugeVars
<1>3. ASSUME NEW r \in Requests, Entering(r) PROVE Gauge!Begin(r)
  BY <1>1, <1>3 DEF Entering, Begins, Heard, Gauge!Begin
<1>4. ASSUME NEW r \in Requests, Finishing(r) PROVE Gauge!Finish(r)
  BY <1>1, <1>4 DEF Finishing, Ends, Heard, Gauge!Finish
<1>5. ASSUME NEW r \in Requests, Overdrawing(r) PROVE UNCHANGED Gauge!gaugeVars
  <2>1. Cardinality(Twice') = Cardinality(Twice) + 1
    BY <1>1, <1>5, FS_AddElement DEF Overdrawing, Overdraws
  <2>2. concurrentRequests' = concurrentRequests - 1
    BY <1>5 DEF Overdrawing, Overdraws
  <2>3. concurrentRequests' + Cardinality(Twice')
            = concurrentRequests + Cardinality(Twice)
    BY <1>1, <2>1, <2>2
  <2> QED
    BY <1>5, <2>3 DEF Overdrawing, Overdraws, Heard, Gauge!gaugeVars
<1>6. ASSUME NEW r \in Requests, Answering(r) PROVE Gauge!Answer(r)
  BY <1>6 DEF Answering, Heard, Gauge!Answer
<1> QED
  BY <1>2, <1>3, <1>4, <1>5, <1>6, StepSeen DEF Seen, Gauge!Next

(* But for the second decrements the router implements the gauge.          *)
THEOREM RouterImplementsGauge == Spec => ImplementsGauge
<1>1. Init => Gauge!Init
  <2> SUFFICES ASSUME Init PROVE Gauge!Init
    OBVIOUS
  <2>1. InProgress = {} /\ Twice = {} /\ Released = {}
    BY DEF Init, ContainerInit, InProgress, Counted, Twice, Released, Entered
  <2>2. Cardinality(Twice) = 0
    BY <2>1, FS_EmptySet
  <2> QED
    BY <2>1, <2>2 DEF Init, ContainerInit, StatInit, Gauge!Init
<1>2. TypeOK /\ Phases /\ [Next]_vars => [Gauge!Next]_Gauge!gaugeVars
  BY StepOfGauge
<1> QED
  BY <1>1, <1>2, TypeCorrect, PhasesInvariant, PTL
  DEF Spec, ImplementsGauge, Gauge!Spec

-----------------------------------------------------------------------------
(* To the statistics the router is one of the controllers they are proved  *)
(* for, the second decrement included.                                     *)
LEMMA StepOfStatistics == ASSUME TypeOK, [Next]_vars PROVE StatStep
<1> USE DEF TypeOK, ContainerTypeOK, StatTypeOK, PC, Goto, Answer, containerVars,
            statVars, counters, history, Quiet
<1>1. ASSUME NEW r \in Requests, Arrive(r) PROVE StatStep
  BY <1>1 DEF Arrive, StatStep
<1>2. ASSUME NEW r \in Requests, Handler(r) PROVE StatStep
  <2>1. CASE Enter(r) \/ RecordMax(r)
    BY <2>1 DEF Enter, RecordMax, StatStep
  <2>2. CASE SendBlocking(r) \/ EndBlocking(r) \/ LeaveBlocking(r)
    <3>1. Quiet
      BY <2>2 DEF SendBlocking, EndBlocking, Uncount, LeaveBlocking
    <3> QED
      BY <3>1 DEF StatStep
  <2>3. CASE SendNonBlocking(r) \/ SendFails(r) \/ LeaveNonBlocking(r)
    <3>1. Quiet
      BY <2>3 DEF SendNonBlocking, SendFails, LeaveNonBlocking
    <3> QED
      BY <3>1 DEF StatStep
  <2> QED
    BY <1>2, <2>1, <2>2, <2>3 DEF Handler
<1>3. ASSUME NEW r \in Requests, Callback(r) PROVE Quiet
  BY <1>3 DEF Callback, OnCompleted, OnSuccess, CheckResult, StoreResult,
     ReadFails, OnThrowable, OnFailure, Uncount
<1>4. ASSUME NEW r \in Requests, ContainerStep(r) \/ Respond(r) PROVE Quiet
  BY <1>4 DEF ContainerStep, Container, Dispatch, AsyncTimeout, AsyncComplete,
     Respond
<1>5. ASSUME UNCHANGED vars PROVE Quiet
  BY <1>5 DEF vars
<1> HIDE DEF Quiet
<1> QED
  BY <1>1, <1>2, <1>3, <1>4, <1>5 DEF Next, StatStep

(* The reported maximum is what the counter reached unless handlers race on *)
(* it, and never more; with one request thread it is exact.                *)
THEOREM MaxSound == Spec => [](MaxLostOnlyToRace /\ MaxExact)
<1> DEFINE Stats == Bounded /\ Recorded /\ Alone /\ Unraced
<1>1. Init => Stats
  BY BoundedInit, AloneInit DEF Init
<1>2. TypeOK /\ TypeOK' /\ Stats /\ [Next]_vars => Stats'
  BY StepOfStatistics, BoundedStep, RecordedStep, AloneStep, UnracedStep DEF TypeOK
<1>3. Stats => MaxLostOnlyToRace /\ MaxExact
  BY RecordedImplies, ExactImplies
<1> QED
  BY <1>1, <1>2, <1>3, TypeCorrect, PTL DEF Spec
=============================================================================
