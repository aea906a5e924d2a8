----------------------------- MODULE Processing -----------------------------
(***************************************************************************)
(* The service provider (spring-mvc-asynch-teststub): ProcessingController *)
(* with its blocking and its non-blocking handler, and the ProcessingTasks *)
(* that the one thread of its static java.util.Timer runs.                 *)
(***************************************************************************)
EXTENDS RequestStatistics, ProcessingTime

CONSTANT Params     \* the <<minMs, maxMs>> pairs clients send

ASSUME ParamsAssumption == Params \subseteq JavaInt \X JavaInt

VARIABLES kind,        \* "blocking" or "nonBlocking"
          args,        \* <<minMs, maxMs>> of the request
          task,        \* the request's ProcessingTask
          timerAlive   \* the timer thread has not been ended by an exception

workVars == <<kind, args, task, timerAlive>>
vars == <<containerVars, statVars, workVars>>

Kind == {"blocking", "nonBlocking"}

(* "check": run() has decremented the counter; "store": it found the result *)
(* neither set nor expired; "rejected": Timer.schedule threw.               *)
Task == {"none", "queued", "check", "store", "done", "rejected"}

TypeOK == /\ ContainerTypeOK
          /\ StatTypeOK
          /\ kind \in [Requests -> Kind]
          /\ args \in [Requests -> Params]
          /\ task \in [Requests -> Task]
          /\ timerAlive \in BOOLEAN

Init == /\ ContainerInit
        /\ StatInit
        /\ kind \in [Requests -> Kind]
        /\ args \in [Requests -> Params]
        /\ task = [r \in Requests |-> "none"]
        /\ timerAlive = TRUE

-----------------------------------------------------------------------------
(* Request thread.                                                         *)

Arrive(r) == TakeId(r, "count") /\ UNCHANGED workVars

Enter(r) == Count(r) /\ UNCHANGED workVars

RecordMax(r) == updateStatistics(r) /\ UNCHANGED workVars

(* Mutation: no finally around the sleep.                                  *)
SleepWithoutFinally(r) ==
    /\ kind[r] = "blocking"
    /\ Goto(r, "work", "return")
    /\ \E ms \in calculateProcessingTime(args[r][1], args[r][2]) :
           IF ms < 0 THEN UNCHANGED statVars ELSE Uncount
    /\ UNCHANGED <<dr, reply, workVars>>

(* Thread.sleep throws on a negative time; finally decrements either way.  *)
Sleep(r) ==
    /\ kind[r] = "blocking"
    /\ Goto(r, "work", "return")
    /\ Uncount
    /\ UNCHANGED <<dr, reply, workVars>>

(* The finally block is behind; the handler returns or rethrows.           *)
LeaveBlocking(r) ==
    /\ kind[r] = "blocking"
    /\ pc[r] = "return"
    /\ \E ms \in calculateProcessingTime(args[r][1], args[r][2]) :
           Answer(r, IF ms < 0 THEN "error" ELSE "ok")
    /\ UNCHANGED <<dr, statVars, workVars>>

Accepted(ms) == ms >= 0 /\ timerAlive

(* timer.schedule puts the task into the timer's queue ...                 *)
Schedule(r) ==
    /\ kind[r] = "nonBlocking"
    /\ \E ms \in calculateProcessingTime(args[r][1], args[r][2]) : Accepted(ms)
    /\ Goto(r, "work", "return")
    /\ dr' = [dr EXCEPT ![r] = "open"]
    /\ task' = [task EXCEPT ![r] = "queued"]
    /\ UNCHANGED <<reply, statVars, kind, args, timerAlive>>

(* Mutations: the handler swallows the exception, or cancels the timer.    *)
ScheduleFailsSilently(r) ==
    /\ kind[r] = "nonBlocking"
    /\ Goto(r, "work", "async")
    /\ \E ms \in calculateProcessingTime(args[r][1], args[r][2]) : ~ Accepted(ms)
    /\ task' = [task EXCEPT ![r] = "rejected"]
    /\ UNCHANGED <<dr, reply, statVars, kind, args, timerAlive>>

ScheduleFailsAndCancels(r) ==
    /\ kind[r] = "nonBlocking"
    /\ pc[r] = "work"
    /\ \E ms \in calculateProcessingTime(args[r][1], args[r][2]) : ~ Accepted(ms)
    /\ Answer(r, "error")
    /\ task' = [task EXCEPT ![r] = "rejected"]
    /\ timerAlive' = FALSE
    /\ UNCHANGED <<dr, statVars, kind, args>>

(* ... or throws, and nothing takes the increment back.                    *)
ScheduleFails(r) ==
    /\ kind[r] = "nonBlocking"
    /\ pc[r] = "work"
    /\ \E ms \in calculateProcessingTime(args[r][1], args[r][2]) : ~ Accepted(ms)
    /\ Answer(r, "error")
    /\ task' = [task EXCEPT ![r] = "rejected"]
    /\ UNCHANGED <<dr, statVars, kind, args, timerAlive>>

LeaveNonBlocking(r) ==
    /\ kind[r] = "nonBlocking"
    /\ Goto(r, "return", "async")
    /\ UNCHANGED <<dr, reply, statVars, workVars>>

Handler(r) == \/ Enter(r) \/ RecordMax(r)
              \/ Sleep(r) \/ LeaveBlocking(r)
              \/ Schedule(r) \/ ScheduleFails(r) \/ LeaveNonBlocking(r)

-----------------------------------------------------------------------------
(* Timer thread.                                                           *)

TimerIdle == timerAlive /\ \A r \in Requests : task[r] \notin {"check", "store"}

(* Mutation: the task of an expired request does not decrement.            *)
RunTaskKeepingExpired(r) ==
    /\ TimerIdle
    /\ task[r] = "queued"
    /\ task' = [task EXCEPT ![r] = "check"]
    /\ IF isSetOrExpired(r) THEN UNCHANGED statVars ELSE Uncount
    /\ UNCHANGED <<containerVars, kind, args, timerAlive>>

(* ProcessingTask.run: the counter first ...                               *)
RunTask(r) ==
    /\ TimerIdle
    /\ task[r] = "queued"
    /\ task' = [task EXCEPT ![r] = "check"]
    /\ Uncount
    /\ UNCHANGED <<containerVars, kind, args, timerAlive>>

(* ... then the test whether anybody still waits for the result ...        *)
CheckResult(r) ==
    /\ task[r] = "check"
    /\ task' = [task EXCEPT ![r] = IF isSetOrExpired(r) THEN "done" ELSE "store"]
    /\ UNCHANGED <<containerVars, statVars, kind, args, timerAlive>>

(* ... then setResult, by when the container may have timed out; an         *)
(* exception that leaves run() ends the only timer thread.                  *)
StoreResult(r) ==
    /\ task[r] = "store"
    /\ setResult(r)
    /\ task' = [task EXCEPT ![r] = "done"]
    /\ \E thrown \in SetResultThrows(r) :
           timerAlive' = (timerAlive /\ ~ thrown)
    /\ UNCHANGED <<pc, reply, statVars, kind, args>>

TimerThread == \E r \in Requests : RunTask(r) \/ CheckResult(r) \/ StoreResult(r)

ContainerStep(r) == Container(r) /\ UNCHANGED <<statVars, workVars>>

Next == \/ \E r \in Requests : Arrive(r) \/ Handler(r) \/ ContainerStep(r)
        \/ TimerThread

Spec == Init /\ [][Next]_vars

Fairness == /\ \A r \in Requests : /\ WF_vars(Handler(r))
                                   /\ WF_vars(ContainerStep(r))
            /\ WF_vars(TimerThread)

FairSpec == Spec /\ Fairness
-----------------------------------------------------------------------------
(* The requests whose increment has not been taken back.                   *)
Counted(r) == \/ pc[r] \in {"compare", "update", "work"}
              \/ task[r] \in {"queued", "rejected"}

InProgress == {r \in Requests : Counted(r)}

(* How handler, task, DeferredResult and answer of one request go together. *)
Phases == \A r \in Requests :
    /\ pc[r] \in {"idle", "count", "compare", "update", "work"}
           => task[r] = "none" /\ dr[r] = "none" /\ reply[r] = "none"
    /\ pc[r] = "return" => reply[r] = "none"
    /\ kind[r] = "blocking" => task[r] = "none" /\ dr[r] = "none"
    /\ dr[r] = "set" => task[r] = "done"
    /\ dr[r] = "none" => task[r] \in {"none", "rejected"}
    /\ reply[r] # "none"
           => pc[r] = "done" \/ (pc[r] = "async" /\ dr[r] \in {"timedOut", "late"})
    /\ dr[r] \in {"timedOut", "late", "expired"} => reply[r] = "unavailable"
    /\ reply[r] = "ok" => pc[r] = "done" /\ task[r] \in {"none", "done"}
    /\ task[r] = "rejected" => pc[r] = "done" /\ dr[r] = "none"

(* The counter is exact: it counts the requests being handled, the tasks   *)
(* the timer has not started, and, for ever, the requests whose task the   *)
(* timer refused (nonBlockingProcessing has no finally).                   *)
CounterAccounting ==
    concurrentRequests = Cardinality(InProgress)

(* A client that asks for a non-negative minimum is never refused and its   *)
(* increment never leaks, whatever its maximum, while the timer lives.     *)
NonNegativeNeverRefused ==
    \A r \in Requests : args[r][1] >= 0 /\ timerAlive =>
                            task[r] # "rejected" /\ reply[r] # "error"

(* A client that received its result no longer counts as a concurrent      *)
(* request: both handlers decrement before they answer.                    *)
ReleasedBeforeOk == \A r \in Requests : reply[r] = "ok" => ~ Counted(r)

(* The timer thread, on which every later non-blocking request depends, is  *)
(* lost only to a result that came after a client had been sent a 503.     *)
TimerLostOnlyToTimeout ==
    ~ timerAlive => \E r \in Requests : /\ reply[r] = "unavailable"
                                        /\ task[r] = "done"

(* Every request that a thread took is answered in the end: by its handler, *)
(* by its task or, when the timer is gone, by the container.               *)
EveryRequestAnswered ==
    \A r \in Requests : pc[r] # "idle" ~> reply[r] # "none"

-----------------------------------------------------------------------------
(* The controller is a gauge of the work in progress: a request is held     *)
(* from its increment until its decrement, and for ever if it is refused.  *)
Entered(r) == pc[r] \notin {"idle", "count"}

Released == {r \in Requests : Entered(r) /\ ~ Counted(r)}

Gauge == INSTANCE RequestGauge
             WITH held <- InProgress,
                  released <- Released,
                  gauge <- concurrentRequests

(* Every step of the teststub is a step of the gauge or changes nothing of *)
(* it: work begins and ends once, and no result precedes the end.          *)
ImplementsGauge == Gauge!Spec
=============================================================================
