--------------------------- MODULE ProcessingProofs ---------------------------
(* Theorems about the test stub, for every set of requests, every pool size *)
(* and every width of the int parameters.                                   *)
EXTENDS Processing, RequestStatisticsProofs

(* An int keeps every integer in its range.                                *)
LEMMA WrapInRange == ASSUME NEW n \in JavaInt PROVE Wrap(n) = n
<1>1. MaxInt \in Nat
  BY MaxIntAssumption
<1> DEFINE a == n + MaxInt + 1
           b == 2 * MaxInt + 2
<1>2. a \in 0 .. b - 1 /\ b \in Nat \ {0}
  BY <1>1 DEF JavaInt
<1>3. a % b = a
  <2> HIDE DEF a, b
  <2> QED
    BY <1>2
<1> QED
  BY <1>1, <1>3 DEF Wrap, JavaInt

(* Unless the difference of its bounds overflows, the drawn time is within *)
(* them, and so never negative for a non-negative minimum.                 *)
THEOREM DrawnWithinBounds ==
  ASSUME NEW minMs \in JavaInt, NEW maxMs \in JavaInt,
         ~ Overflows(minMs, maxMs),
         NEW ms \in calculateProcessingTime(minMs, maxMs)
  PROVE  Drawn(minMs, maxMs, ms)
<1> DEFINE d == UpperBound(minMs, maxMs) - minMs
<1>1. MaxInt \in Nat
  BY MaxIntAssumption
<1>2. d \in 0 .. MaxInt
  BY <1>1 DEF UpperBound, Overflows, JavaInt
<1>3. Wrap(d) = d
  BY <1>1, <1>2, WrapInRange DEF JavaInt
<1>4. PICK k \in RandomBelow(d) : ms = Wrap(minMs + k)
  BY <1>3 DEF calculateProcessingTime
<1>5. k \in 0 .. d /\ (k < d \/ k = 0)
  <2> HIDE DEF d
  <2> QED
    BY <1>2, <1>4 DEF RandomBelow
<1>6. minMs + k \in JavaInt
  BY <1>1, <1>5 DEF UpperBound, JavaInt
<1>7. ms = minMs + k
  BY <1>4, <1>6, WrapInRange
<1> QED
  BY <1>5, <1>7 DEF Drawn, UpperBound, JavaInt

(* Two non-negative bounds never overflow: the test stub refuses no client *)
(* that asks for a non-negative time.                                      *)
THEOREM NonNegativeDrawn ==
  ASSUME NEW minMs \in JavaInt, NEW maxMs \in JavaInt, minMs >= 0,
         NEW ms \in calculateProcessingTime(minMs, maxMs)
  PROVE  ms \in Int /\ ms >= 0
<1>1. MaxInt \in Nat
  BY MaxIntAssumption
<1>2. ~ Overflows(minMs, maxMs)
  BY <1>1 DEF Overflows, UpperBound, JavaInt
<1>3. Drawn(minMs, maxMs, ms)
  BY <1>2, DrawnWithinBounds
<1>4. ms \in Int
  BY <1>1 DEF calculateProcessingTime, Wrap, RandomBelow, UpperBound, JavaInt
<1> QED
  BY <1>3, <1>4 DEF Drawn, JavaInt

-----------------------------------------------------------------------------
(* Every variable of the test stub stays in its range.                     *)
LEMMA TypeInductive == TypeOK /\ [Next]_vars => TypeOK'
<1> SUFFICES ASSUME TypeOK, [Next]_vars PROVE TypeOK'
  OBVIOUS
<1> USE DEF TypeOK, ContainerTypeOK, StatTypeOK, PC, Deferred, Reply, Kind, Task,
            Goto, Answer, containerVars, statVars, counters, history, workVars
<1>1. ASSUME NEW r \in Requests, Arrive(r) PROVE TypeOK'
  BY <1>1 DEF Arrive, TakeId
<1>2. ASSUME NEW r \in Requests, Handler(r) PROVE TypeOK'
  <2>1. CASE Enter(r)
    BY <2>1 DEF Enter, Count
  <2>2. CASE RecordMax(r)
    <3>1. raced' \in BOOLEAN
      BY <2>2, RacedTyped DEF RecordMax
    <3> QED
      BY <2>2, <3>1 DEF RecordMax, updateStatistics, CompareMax, WriteMax
  <2>3. CASE Sleep(r)
    BY <2>3 DEF Sleep, Uncount
  <2>4. CASE LeaveBlocking(r)
    BY <2>4 DEF LeaveBlocking
  <2>5. CASE Schedule(r)
    BY <2>5 DEF Schedule
  <2>6. CASE ScheduleFails(r)
    BY <2>6 DEF ScheduleFails
  <2>7. CASE LeaveNonBlocking(r)
    BY <2>7 DEF LeaveNonBlocking
  <2> QED
    BY <1>2, <2>1, <2>2, <2>3, <2>4, <2>5, <2>6, <2>7 DEF Handler
<1>3. ASSUME NEW r \in Requests, ContainerStep(r) PROVE TypeOK'
  BY <1>3 DEF ContainerStep, Container, Dispatch, AsyncTimeout, AsyncComplete
<1>4. ASSUME NEW r \in Requests, RunTask(r) PROVE TypeOK'
  BY <1>4 DEF RunTask, Uncount
<1>5. ASSUME NEW r \in Requests, CheckResult(r) PROVE TypeOK'
  BY <1>5 DEF CheckResult
<1>6. ASSUME NEW r \in Requests, StoreResult(r) PROVE TypeOK'
  BY <1>6 DEF StoreResult, setResult, SetResultThrows
<1>7. CASE UNCHANGED vars
  BY <1>7 DEF vars
<1> QED
  BY <1>1, <1>2, <1>3, <1>4, <1>5, <1>6, <1>7 DEF Next, TimerThread

(* Every variable of the test stub stays in its type.                      *)
THEOREM TypeCorrect == Spec => []TypeOK
<1>1. Init => TypeOK
  BY RacedTyped DEF Init, ContainerInit, StatInit, TypeOK, ContainerTypeOK, StatTypeOK,
         PC, Deferred, Reply, Task
<1> QED
  BY <1>1, TypeInductive, PTL DEF Spec
-----------------------------------------------------------------------------
(* Handler, task, DeferredResult and answer keep in step.                  *)
LEMMA PhasesInductive == TypeOK /\ Phases /\ [Next]_vars => Phases'
<1> SUFFICES ASSUME TypeOK, Phases, [Next]_vars PROVE Phases'
  OBVIOUS
<1> USE DEF TypeOK, ContainerTypeOK, PC, Deferred, Reply, Kind, Task,
            Phases, Goto, Answer, containerVars, workVars
<1>1. ASSUME NEW r \in Requests, Arrive(r) PROVE Phases'
  BY <1>1 DEF Arrive, TakeId
<1>2. ASSUME NEW r \in Requests, Handler(r) PROVE Phases'
  <2>1. CASE Enter(r)
    BY <2>1 DEF Enter, Count
  <2>2. CASE RecordMax(r)
    BY <2>2 DEF RecordMax, updateStatistics, CompareMax, WriteMax
  <2>3. CASE Sleep(r)
    BY <2>3 DEF Sleep
  <2>4. CASE LeaveBlocking(r)
    BY <2>4 DEF LeaveBlocking
  <2>5. CASE Schedule(r)
    BY <2>5 DEF Schedule
  <2>6. CASE ScheduleFails(r)
    BY <2>6 DEF ScheduleFails
  <2>7. CASE LeaveNonBlocking(r)
    BY <2>7 DEF LeaveNonBlocking
  <2> QED
    BY <1>2, <2>1, <2>2, <2>3, <2>4, <2>5, <2>6, <2>7 DEF Handler
<1>3. ASSUME NEW r \in Requests, ContainerStep(r) PROVE Phases'
  BY <1>3 DEF ContainerStep, Container, Dispatch, AsyncTimeout, AsyncComplete
<1>4. ASSUME NEW r \in Requests, RunTask(r) PROVE Phases'
  BY <1>4 DEF RunTask
<1>5. ASSUME NEW r \in Requests, CheckResult(r) PROVE Phases'
  BY <1>5 DEF CheckResult
<1>6. ASSUME NEW r \in Requests, StoreResult(r) PROVE Phases'
  BY <1>6 DEF StoreResult, setResult
<1>7. CASE UNCHANGED vars
  BY <1>7 DEF vars
<1> QED
  BY <1>1, <1>2, <1>3, <1>4, <1>5, <1>6, <1>7 DEF Next, TimerThread

(* Handler, task, DeferredResult and answer of a request stay in           *)
(* agreement.                                                              *)
THEOREM PhasesInvariant == Spec => []Phases
<1>1. Init => Phases
  BY DEF Init, ContainerInit, Phases
<1>2. Spec => []TypeOK
  BY TypeCorrect
<1> QED
  BY <1>1, <1>2, PhasesInductive, PTL DEF Spec

(* A client that received its result no longer counts.                     *)
THEOREM ReleasedInvariant == Spec => []ReleasedBeforeOk
<1>1. Phases => ReleasedBeforeOk
  BY DEF Phases, ReleasedBeforeOk, Counted
<1> QED
  BY <1>1, PhasesInvariant, PTL

-----------------------------------------------------------------------------
(* Every step of the stub is a step of the gauge or leaves it alone.       *)
LEMMA StepOfGauge ==
  ASSUME TypeOK, Phases, [Next]_vars
  PROVE  [Gauge!Next]_Gauge!gaugeVars
<1> DEFINE Keeps == UNCHANGED <<InProgress, Released, concurrentRequests, reply>>
<1>0. /\ Keeps => [Gauge!Next]_Gauge!gaugeVars
      /\ (\E r \in Requests : Gauge!Begin(r) \/ Gauge!Finish(r) \/ Gauge!Answer(r))
            => [Gauge!Next]_Gauge!gaugeVars
  BY DEF Gauge!Next, Gauge!gaugeVars
<1> USE DEF TypeOK, ContainerTypeOK, PC, Kind, Task, Reply, Phases, Goto, Answer,
            containerVars, statVars, counters, workVars,
            InProgress, Released, Entered, Counted
<1>1. ASSUME NEW r \in Requests, Arrive(r) PROVE Keeps
  BY <1>1 DEF Arrive, TakeId
<1>2. ASSUME NEW r \in Requests, Handler(r)
      PROVE  Keeps \/ Gauge!Begin(r) \/ Gauge!Finish(r) \/ Gauge!Answer(r)
  <2>1. ASSUME Enter(r) PROVE Gauge!Begin(r)
    BY <2>1 DEF Enter, Count, Gauge!Begin
  <2>2. ASSUME RecordMax(r) PROVE Keeps
    BY <2>2 DEF RecordMax, updateStatistics, CompareMax, WriteMax
  <2>3. ASSUME Sleep(r) PROVE Gauge!Finish(r)
    BY <2>3 DEF Sleep, Uncount, Gauge!Finish
  <2>4. ASSUME LeaveBlocking(r) PROVE Gauge!Answer(r)
    BY <2>4 DEF LeaveBlocking, Gauge!Answer
  <2>5. ASSUME Schedule(r) PROVE Keeps
    BY <2>5 DEF Schedule
  <2>6. ASSUME ScheduleFails(r) PROVE Gauge!Answer(r)
    BY <2>6 DEF ScheduleFails, Gauge!Answer
  <2>7. ASSUME LeaveNonBlocking(r) PROVE Keeps
    BY <2>7 DEF LeaveNonBlocking
  <2> HIDE DEF Keeps
  <2> QED
    BY <1>2, <2>1, <2>2, <2>3, <2>4, <2>5, <2>6, <2>7 DEF Handler
<1>3. ASSUME NEW r \in Requests, ContainerStep(r) PROVE Keeps \/ Gauge!Answer(r)
  <2>1. ASSUME Dispatch(r), UNCHANGED <<statVars, workVars>> PROVE Gauge!Answer(r)
    BY <2>1 DEF Dispatch, Gauge!Answer
  <2>2. ASSUME AsyncTimeout(r), UNCHANGED <<statVars, workVars>> PROVE Gauge!Answer(r)
    BY <2>2 DEF AsyncTimeout, Gauge!Answer
  <2>3. ASSUME AsyncComplete(r), UNCHANGED <<statVars, workVars>> PROVE Keeps
    BY <2>3 DEF AsyncComplete
  <2> HIDE DEF Keeps
  <2> QED
    BY <1>3, <2>1, <2>2, <2>3 DEF ContainerStep, Container
<1>4. ASSUME NEW r \in Requests, RunTask(r) PROVE Gauge!Finish(r)
  BY <1>4 DEF RunTask, Uncount, Gauge!Finish
<1>5. ASSUME NEW r \in Requests, CheckResult(r) PROVE Keeps
  BY <1>5 DEF CheckResult
<1>6. ASSUME NEW r \in Requests, StoreResult(r) PROVE Keeps
  BY <1>6 DEF StoreResult
<1>7. ASSUME UNCHANGED vars PROVE Keeps
  BY <1>7 DEF vars
<1> HIDE DEF Keeps
<1> QED
  BY <1>0, <1>1, <1>2, <1>3, <1>4, <1>5, <1>6, <1>7 DEF Next, TimerThread

(* The test stub implements the gauge.                                     *)
THEOREM StubImplementsGauge == Spec => ImplementsGauge
<1>1. Init => Gauge!Init
  BY DEF Init, ContainerInit, StatInit, Gauge!Init, InProgress, Released,
         Entered, Counted
<1>2. TypeOK /\ Phases /\ [Next]_vars => [Gauge!Next]_Gauge!gaugeVars
  BY StepOfGauge
<1> QED
  BY <1>1, <1>2, TypeCorrect, PhasesInvariant, PTL
  DEF Spec, ImplementsGauge, Gauge!Spec

(* The counter is exactly the number of requests in progress.              *)
THEOREM CounterExact == Spec => []CounterAccounting
<1>1. Init => CounterAccounting
  <2> SUFFICES ASSUME Init PROVE CounterAccounting
    OBVIOUS
  <2>1. InProgress = {}
    BY DEF Init, ContainerInit, InProgress, Counted
  <2> QED
    BY <2>1, FS_EmptySet DEF Init, StatInit, CounterAccounting
<1>2. TypeOK /\ Phases /\ CounterAccounting /\ [Next]_vars => CounterAccounting'
  <2> SUFFICES ASSUME TypeOK, Phases, CounterAccounting, [Next]_vars
               PROVE  CounterAccounting'
    OBVIOUS
  <2>1. IsFiniteSet(InProgress) /\ Cardinality(InProgress) \in Nat
    BY ContainerAssumption, FS_Subset, FS_CardinalityType DEF InProgress
  <2>2. ASSUME UNCHANGED <<InProgress, concurrentRequests>> PROVE CounterAccounting'
    BY <2>2 DEF CounterAccounting
  <2>3. ASSUME NEW r \in Requests, Gauge!Begin(r) PROVE CounterAccounting'
    BY <2>1, <2>3, FS_AddElement DEF Gauge!Begin, CounterAccounting
  <2>4. ASSUME NEW r \in Requests, Gauge!Finish(r) PROVE CounterAccounting'
    BY <2>1, <2>4, FS_RemoveElement DEF Gauge!Finish, CounterAccounting
  <2>5. ASSUME NEW r \in Requests, Gauge!Answer(r) PROVE CounterAccounting'
    BY <2>2, <2>5 DEF Gauge!Answer
  <2> QED
    BY <2>2, <2>3, <2>4, <2>5, StepOfGauge DEF Gauge!Next, Gauge!gaugeVars
<1> QED
  BY <1>1, <1>2, TypeCorrect, PhasesInvariant, PTL DEF Spec

-----------------------------------------------------------------------------
(* To the statistics the stub is one of the controllers they are proved for. *)
LEMMA StepOfStatistics == ASSUME TypeOK, [Next]_vars PROVE StatStep
<1> USE DEF TypeOK, ContainerTypeOK, StatTypeOK, PC, Goto, Answer, containerVars,
            statVars, counters, history, Quiet
<1>1. ASSUME NEW r \in Requests, Arrive(r) PROVE StatStep
  BY <1>1 DEF Arrive, StatStep
<1>2. ASSUME NEW r \in Requests, Handler(r) PROVE StatStep
  <2>1. CASE Enter(r) \/ RecordMax(r)
    BY <2>1 DEF Enter, RecordMax, StatStep
  <2>2. CASE Sleep(r) \/ LeaveBlocking(r)
    <3>1. Quiet
      BY <2>2 DEF Sleep, Uncount, LeaveBlocking
    <3> QED
      BY <3>1 DEF StatStep
  <2>3. CASE Schedule(r) \/ ScheduleFails(r) \/ LeaveNonBlocking(r)
    <3>1. Quiet
      BY <2>3 DEF Schedule, ScheduleFails, LeaveNonBlocking
    <3> QED
      BY <3>1 DEF StatStep
  <2> QED
    BY <1>2, <2>1, <2>2, <2>3 DEF Handler
<1>3. ASSUME NEW r \in Requests, ContainerStep(r) PROVE Quiet
  BY <1>3 DEF ContainerStep, Container, Dispatch, AsyncTimeout, AsyncComplete
<1>4. ASSUME TimerThread PROVE Quiet
  BY <1>4 DEF TimerThread, RunTask, CheckResult, StoreResult, Uncount
<1>5. ASSUME UNCHANGED vars PROVE Quiet
  BY <1>5 DEF vars
<1> HIDE DEF Quiet
<1> QED
  BY <1>1, <1>2, <1>3, <1>4, <1>5 DEF Next, StatStep

(* The reported maximum is what the counter reached unless handlers race on *)
(* it, and never more; with one request thread it is exact.                *)
THEOREM MaxSound == Spec => [](MaxLostOnlyToRace /\ MaxExact)
<1> DEFINE Stats == Bounded /\ Recorded /\ Alone /\ Unraced
<1>1. Init => Stats
  BY BoundedInit, AloneInit DEF Init
<1>2. TypeOK /\ TypeOK' /\ Stats /\ [Next]_vars => Stats'
  BY StepOfStatistics, BoundedStep, RecordedStep, AloneStep, UnracedStep DEF TypeOK
<1>3. Stats => MaxLostOnlyToRace /\ MaxExact
  BY RecordedImplies, ExactImplies
<1> QED
  BY <1>1, <1>2, <1>3, TypeCorrect, PTL DEF Spec

-----------------------------------------------------------------------------
(* A non-negative minimum is never refused while the timer lives.          *)
THEOREM NonNegativeAccepted == Spec => []NonNegativeNeverRefused
<1>1. Init => NonNegativeNeverRefused
  BY DEF Init, ContainerInit, NonNegativeNeverRefused
<1>2. TypeOK /\ NonNegativeNeverRefused /\ [Next]_vars => NonNegativeNeverRefused'
  <2> SUFFICES ASSUME TypeOK, NonNegativeNeverRefused, [Next]_vars
               PROVE  NonNegativeNeverRefused'
    OBVIOUS
  <2>0. ASSUME NEW r \in Requests, args[r][1] >= 0,
               NEW ms \in calculateProcessingTime(args[r][1], args[r][2])
        PROVE  ms \in Int /\ ms >= 0
    <3>1. args[r][1] \in JavaInt /\ args[r][2] \in JavaInt
      BY ParamsAssumption DEF TypeOK
    <3> QED
      BY <2>0, <3>1, NonNegativeDrawn
  <2> USE DEF TypeOK, ContainerTypeOK, NonNegativeNeverRefused, Goto, Answer,
              containerVars, workVars
  <2>1. ASSUME NEW r \in Requests, Arrive(r) PROVE NonNegativeNeverRefused'
    BY <2>1 DEF Arrive, TakeId
  <2>2. ASSUME NEW r \in Requests, Handler(r) PROVE NonNegativeNeverRefused'
    <3>1. CASE Enter(r) \/ RecordMax(r)
      BY <3>1 DEF Enter, Count, RecordMax, updateStatistics, CompareMax, WriteMax
    <3>2. CASE Sleep(r) \/ LeaveNonBlocking(r) \/ Schedule(r)
      BY <3>2 DEF Sleep, LeaveNonBlocking, Schedule
    <3>3. CASE LeaveBlocking(r)
      <4>1. args[r][1] >= 0 => reply'[r] = "ok"
        <5>1. PICK ms \in calculateProcessingTime(args[r][1], args[r][2]) :
                  Answer(r, IF ms < 0 THEN "error" ELSE "ok")
          BY <3>3 DEF LeaveBlocking
        <5>2. args[r][1] >= 0 => ms \in Int /\ ms >= 0
          BY <2>0
        <5>3. ms \in Int /\ ms >= 0 => ~ (ms < 0)
          OBVIOUS
        <5> QED
          BY <5>1, <5>2, <5>3
      <4>2. \A s \in Requests : s # r => reply'[s] = reply[s]
        BY <3>3 DEF LeaveBlocking
      <4> QED
        BY <3>3, <4>1, <4>2 DEF LeaveBlocking
    <3>4. CASE ScheduleFails(r)
      <4>1. ASSUME args[r][1] >= 0, timerAlive PROVE FALSE
        <5>1. PICK ms \in calculateProcessingTime(args[r][1], args[r][2]) :
                  ~ Accepted(ms)
          BY <3>4 DEF ScheduleFails
        <5>2. ms >= 0
          BY <2>0, <4>1
        <5> QED
          BY <4>1, <5>1, <5>2, Zenon DEF Accepted
      <4> QED
        BY <3>4, <4>1 DEF ScheduleFails
    <3> QED
      BY <2>2, <3>1, <3>2, <3>3, <3>4 DEF Handler
  <2>3. ASSUME NEW r \in Requests, ContainerStep(r) PROVE NonNegativeNeverRefused'
    BY <2>3 DEF ContainerStep, Container, Dispatch, AsyncTimeout, AsyncComplete
  <2>4. ASSUME NEW r \in Requests, RunTask(r) \/ CheckResult(r) \/ StoreResult(r)
        PROVE  NonNegativeNeverRefused'
    <3>1. timerAlive' => timerAlive
      BY <2>4 DEF RunTask, CheckResult, StoreResult
    <3>2. task'[r] # "rejected" /\ \A s \in Requests : s # r => task'[s] = task[s]
      BY <2>4 DEF RunTask, CheckResult, StoreResult
    <3>3. UNCHANGED <<args, reply>>
      BY <2>4 DEF RunTask, CheckResult, StoreResult
    <3> QED
      BY <3>1, <3>2, <3>3
  <2>5. CASE UNCHANGED vars
    BY <2>5 DEF vars
  <2> QED
    BY <2>1, <2>2, <2>3, <2>4, <2>5 DEF Next, TimerThread
<1> QED
  BY <1>1, <1>2, TypeCorrect, PTL DEF Spec

-----------------------------------------------------------------------------
(* The timer thread is lost only to a result that came after a 503.        *)
THEOREM TimerLossExplained == Spec => []TimerLostOnlyToTimeout
<1> DEFINE Late(r) == reply[r] = "unavailable" /\ task[r] = "done"
<1>1. Init => TimerLostOnlyToTimeout
  BY DEF Init, TimerLostOnlyToTimeout
<1>2. TypeOK /\ Phases /\ TimerLostOnlyToTimeout /\ [Next]_vars
          => TimerLostOnlyToTimeout'
  <2> SUFFICES ASSUME TypeOK, Phases, TimerLostOnlyToTimeout, [Next]_vars,
                      ~ timerAlive'
               PROVE  \E r \in Requests : Late(r)'
    BY DEF TimerLostOnlyToTimeout
  <2> USE DEF TypeOK, ContainerTypeOK, Phases, Goto, Answer,
              containerVars, workVars
  <2>1. ASSUME NEW s \in Requests, Late(s) PROVE Late(s)'
    <3>1. ASSUME NEW r \in Requests, Arrive(r) PROVE Late(s)'
      BY <2>1, <3>1 DEF Arrive, TakeId
    <3>2. ASSUME NEW r \in Requests, Handler(r) PROVE Late(s)'
      BY <2>1, <3>2 DEF Handler, Enter, Count, RecordMax, updateStatistics,
         CompareMax, WriteMax, Sleep, LeaveBlocking, Schedule, ScheduleFails,
         LeaveNonBlocking
    <3>3. ASSUME NEW r \in Requests, ContainerStep(r) PROVE Late(s)'
      BY <2>1, <3>3 DEF ContainerStep, Container, Dispatch, AsyncTimeout,
         AsyncComplete
    <3>4. ASSUME NEW r \in Requests, RunTask(r) \/ CheckResult(r) \/ StoreResult(r)
          PROVE  Late(s)'
      BY <2>1, <3>4 DEF RunTask, CheckResult, StoreResult
    <3>5. CASE UNCHANGED vars
      BY <2>1, <3>5 DEF vars
    <3> QED
      BY <3>1, <3>2, <3>3, <3>4, <3>5 DEF Next, TimerThread
  <2>2. CASE ~ timerAlive
    BY <2>1, <2>2 DEF TimerLostOnlyToTimeout
  <2>3. CASE timerAlive
    <3>1. PICK r \in Requests : StoreResult(r)
      BY <2>3 DEF Next, vars, TimerThread, Arrive, TakeId, Handler, Enter,
         RecordMax, Sleep, LeaveBlocking, Schedule, ScheduleFails,
         LeaveNonBlocking, ContainerStep, RunTask, CheckResult
    <3>2. dr[r] = "timedOut"
      BY <2>3, <3>1 DEF StoreResult, SetResultThrows
    <3> QED
      BY <3>1, <3>2 DEF StoreResult
  <2> QED
    BY <2>2, <2>3
<1> QED
  BY <1>1, <1>2, TypeCorrect, PhasesInvariant, PTL DEF Spec
=============================================================================
