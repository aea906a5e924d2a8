------------------------------- MODULE Routing -------------------------------
(***************************************************************************)
(* The router (spring-mvc-asynch): RoutingController with its three routes *)
(* to the service provider and the callbacks of the two asynchronous HTTP  *)
(* clients, which run on threads of their own.                             *)
(***************************************************************************)
EXTENDS RequestStatistics

CONSTANTS Kinds,      \* the routes clients use
          Outcomes    \* how a call of the service provider can end

(* "error": a 4xx or 5xx answer; "unreadable": an answer whose body cannot *)
(* be decoded; "failure": no answer (refused, reset, client-side timeout). *)
ASSUME RoutingAssumption ==
    /\ Kinds \subseteq {"blocking", "nonBlocking", "spring"}
    /\ Outcomes \subseteq {"success", "error", "unreadable", "failure"}

VARIABLES kind,      \* the route the request takes
          call,      \* the call of the service provider and its callback
          outcome    \* how the call ended

workVars == <<kind, call, outcome>>
vars == <<containerVars, statVars, workVars>>

(* "check": the callback has started (onCompleted has decremented);         *)
(* "store": it found the result neither set nor expired; "thrown": an       *)
(* exception left onCompleted; "twice": both callback methods have run;     *)
(* "refused": execute() threw.                                              *)
Call == {"none", "sent", "answered", "check", "store", "thrown",
         "done", "twice", "refused"}

TypeOK == /\ ContainerTypeOK
          /\ StatTypeOK
          /\ kind \in [Requests -> Kinds]
          /\ call \in [Requests -> Call]
          /\ outcome \in [Requests -> Outcomes \cup {"none"}]

Init == /\ ContainerInit
        /\ StatInit
        /\ kind \in [Requests -> Kinds]
        /\ call = [r \in Requests |-> "none"]
        /\ outcome = [r \in Requests |-> "none"]

CallGoto(r, from, to) == /\ call[r] = from
                         /\ call' = [call EXCEPT ![r] = to]

-----------------------------------------------------------------------------
(* Request thread.                                                         *)

(* The Spring variant keeps no statistics.                                 *)
Arrive(r) == /\ TakeId(r, IF kind[r] = "spring" THEN "work" ELSE "count")
             /\ UNCHANGED workVars

Enter(r) == Count(r) /\ UNCHANGED workVars

RecordMax(r) == updateStatistics(r) /\ UNCHANGED workVars

(* restTemplate.getForEntity: the thread waits for the provider ...        *)
SendBlocking(r) ==
    /\ kind[r] = "blocking"
    /\ pc[r] = "work"
    /\ CallGoto(r, "none", "sent")
    /\ UNCHANGED <<containerVars, statVars, kind, outcome>>

(* Mutation: the decrement follows the call instead of a finally block.    *)
EndBlockingWithoutFinally(r) ==
    /\ kind[r] = "blocking"
    /\ Goto(r, "work", "return")
    /\ CallGoto(r, "answered", "done")
    /\ IF outcome[r] = "success" THEN Uncount ELSE UNCHANGED statVars
    /\ UNCHANGED <<dr, reply, kind, outcome>>

(* ... and the finally block decrements whatever came of it.               *)
EndBlocking(r) ==
    /\ kind[r] = "blocking"
    /\ Goto(r, "work", "return")
    /\ CallGoto(r, "answered", "done")
    /\ Uncount
    /\ UNCHANGED <<dr, reply, kind, outcome>>

(* RestTemplate throws for every outcome but success.                      *)
LeaveBlocking(r) ==
    /\ kind[r] = "blocking"
    /\ pc[r] = "return"
    /\ Answer(r, IF outcome[r] = "success" THEN "ok" ELSE "error")
    /\ UNCHANGED <<dr, statVars, workVars>>

(* execute() and addCallback() return at once; the callback may run before *)
(* the controller has returned its DeferredResult.                         *)
SendNonBlocking(r) ==
    /\ kind[r] # "blocking"
    /\ Goto(r, "work", "return")
    /\ CallGoto(r, "none", "sent")
    /\ dr' = [dr EXCEPT ![r] = "open"]
    /\ UNCHANGED <<reply, statVars, kind, outcome>>

(* Mutation: the handler swallows the exception of execute().              *)
SendFailsSilently(r) ==
    /\ kind[r] = "nonBlocking"
    /\ Goto(r, "work", "async")
    /\ CallGoto(r, "none", "refused")
    /\ UNCHANGED <<dr, reply, statVars, kind, outcome>>

(* execute() may throw an IOException, which the handler passes on         *)
(* without taking the increment back.                                      *)
SendFails(r) ==
    /\ kind[r] = "nonBlocking"
    /\ pc[r] = "work"
    /\ CallGoto(r, "none", "refused")
    /\ Answer(r, "error")
    /\ UNCHANGED <<dr, statVars, kind, outcome>>

LeaveNonBlocking(r) ==
    /\ kind[r] # "blocking"
    /\ Goto(r, "return", "async")
    /\ UNCHANGED <<dr, reply, statVars, workVars>>

Handler(r) == \/ Enter(r) \/ RecordMax(r)
              \/ SendBlocking(r) \/ EndBlocking(r) \/ LeaveBlocking(r)
              \/ SendNonBlocking(r) \/ SendFails(r) \/ LeaveNonBlocking(r)

-----------------------------------------------------------------------------
(* The service provider answers, or the HTTP client gives up.              *)
Respond(r) ==
    /\ CallGoto(r, "sent", "answered")
    /\ \E o \in Outcomes : outcome' = [outcome EXCEPT ![r] = o]
    /\ UNCHANGED <<containerVars, statVars, kind>>

-----------------------------------------------------------------------------
(* Callbacks, on the threads of the HTTP client.                           *)

(* RoutingCallback.onCompleted decrements for any answer at all.           *)
OnCompleted(r) ==
    /\ kind[r] = "nonBlocking"
    /\ outcome[r] # "failure"
    /\ CallGoto(r, "answered", "check")
    /\ Uncount
    /\ UNCHANGED <<containerVars, kind, outcome>>

(* RoutingCallback_Spring_AsyncRestTemplate.onSuccess                      *)
OnSuccess(r) ==
    /\ kind[r] = "spring"
    /\ outcome[r] = "success"
    /\ CallGoto(r, "answered", "check")
    /\ UNCHANGED <<containerVars, statVars, kind, outcome>>

CheckResult(r) ==
    /\ CallGoto(r, "check", IF isSetOrExpired(r) THEN "done" ELSE "store")
    /\ UNCHANGED <<containerVars, statVars, kind, outcome>>

(* AsyncHttpClient hands an exception that leaves onCompleted to           *)
(* onThrowable; nothing follows one that leaves onSuccess.                 *)
Escape(r) == IF kind[r] = "nonBlocking" THEN "thrown" ELSE "done"

StoreResult(r) ==
    /\ outcome[r] # "unreadable"
    /\ \E thrown \in SetResultThrows(r) :
           CallGoto(r, "store", IF thrown THEN Escape(r) ELSE "done")
    /\ setResult(r)
    /\ UNCHANGED <<pc, reply, statVars, kind, outcome>>

(* getResponseBody throws before setResult is called.                      *)
ReadFails(r) ==
    /\ outcome[r] = "unreadable"
    /\ CallGoto(r, "store", Escape(r))
    /\ UNCHANGED <<containerVars, statVars, kind, outcome>>

(* Mutations: onThrowable completes the request, or does not decrement.    *)
OnThrowableCompletes(r) ==
    /\ kind[r] = "nonBlocking"
    /\ \/ outcome[r] = "failure" /\ CallGoto(r, "answered", "check")
       \/ CallGoto(r, "thrown", "twice")
    /\ Uncount
    /\ UNCHANGED <<containerVars, kind, outcome>>

OnThrowableKeeps(r) ==
    /\ kind[r] = "nonBlocking"
    /\ \/ outcome[r] = "failure" /\ CallGoto(r, "answered", "done")
       \/ CallGoto(r, "thrown", "twice")
    /\ UNCHANGED <<containerVars, statVars, kind, outcome>>

(* RoutingCallback.onThrowable decrements and sets no result: after a      *)
(* failure, and a second time after onCompleted.                           *)
OnThrowable(r) ==
    /\ kind[r] = "nonBlocking"
    /\ \/ outcome[r] = "failure" /\ CallGoto(r, "answered", "done")
       \/ CallGoto(r, "thrown", "twice")
    /\ Uncount
    /\ UNCHANGED <<containerVars, kind, outcome>>

(* ...Spring_AsyncRestTemplate.onFailure sets no result either.            *)
OnFailure(r) ==
    /\ kind[r] = "spring"
    /\ outcome[r] # "success"
    /\ CallGoto(r, "answered", "done")
    /\ UNCHANGED <<containerVars, statVars, kind, outcome>>

Callback(r) == \/ OnCompleted(r) \/ OnSuccess(r) \/ CheckResult(r)
               \/ StoreResult(r) \/ ReadFails(r)
               \/ OnThrowable(r) \/ OnFailure(r)

ContainerStep(r) == Container(r) /\ UNCHANGED <<statVars, workVars>>

Next == \E r \in Requests : \/ Arrive(r) \/ Handler(r) \/ Respond(r)
                            \/ Callback(r) \/ ContainerStep(r)

Spec == Init /\ [][Next]_vars

Fairness == \A r \in Requests : /\ WF_vars(Handler(r))
                                /\ WF_vars(Callback(r))
                                /\ WF_vars(ContainerStep(r))

(* The router's own threads keep running; the provider may stay silent.    *)
FairSpec == Spec /\ Fairness

(* The provider, too, answers every call, as the test stub does.           *)
ProviderFairSpec == FairSpec /\ \A r \in Requests : WF_vars(Respond(r))

-----------------------------------------------------------------------------
(* The requests whose increment has not been taken back.                   *)
Counted(r) ==
    \/ kind[r] # "spring" /\ pc[r] \in {"compare", "update", "work"}
    \/ kind[r] = "nonBlocking" /\ call[r] \in {"sent", "answered", "refused"}

InProgress == {r \in Requests : Counted(r)}

Twice == {r \in Requests : call[r] = "twice"}

(* The answers a callback hands to setResult.                              *)
Forwardable(r) == \/ outcome[r] = "success"
                  \/ kind[r] = "nonBlocking" /\ outcome[r] = "error"

(* How handler, call, DeferredResult and answer of one request go together. *)
Phases == \A r \in Requests :
    /\ pc[r] \in {"idle", "count", "compare", "update"} => call[r] = "none"
    /\ pc[r] \in {"idle", "count", "compare", "update", "work"}
           => dr[r] = "none" /\ reply[r] = "none"
    /\ pc[r] = "work" /\ kind[r] # "blocking" => call[r] = "none"
    /\ pc[r] = "return" => reply[r] = "none"
    /\ pc[r] \in {"return", "async"} => call[r] \notin {"none", "refused"}
    /\ kind[r] = "blocking" =>
          /\ dr[r] = "none"
          /\ call[r] \in {"none", "sent", "answered", "done"}
          /\ pc[r] \in {"return", "done"} <=> call[r] = "done"
    /\ kind[r] = "spring" => pc[r] \notin {"count", "compare", "update"}
    /\ call[r] = "answered" => outcome[r] # "none"
    /\ call[r] \in {"check", "store"} => Forwardable(r) \/ outcome[r] = "unreadable"
    /\ call[r] \in {"thrown", "twice"} =>
          /\ kind[r] = "nonBlocking"
          /\ outcome[r] = "unreadable" \/ reply[r] = "unavailable"
    /\ dr[r] = "set" => call[r] = "done" /\ Forwardable(r)
    /\ dr[r] \in {"timedOut", "late", "expired"} => reply[r] = "unavailable"
    /\ reply[r] # "none"
           => pc[r] = "done" \/ (pc[r] = "async" /\ dr[r] \in {"timedOut", "late"})
    /\ reply[r] = "ok" => pc[r] = "done" /\ call[r] = "done" /\ Forwardable(r)

(* The counter is the number of requests still counted, less one for every *)
(* request whose increment was taken back twice (onCompleted, then         *)
(* onThrowable).  A refused execute() stays counted for ever.              *)
CounterAccounting ==
    concurrentRequests = Cardinality(InProgress) - Cardinality(Twice)

(* A client gets a body only when the provider sent one: the blocking and  *)
(* the Spring route only for a success, the non-blocking route for an      *)
(* error answer too, whose status it drops, and none after a failure.      *)
BodyOnlyFromProvider ==
    \A r \in Requests : reply[r] = "ok" => Forwardable(r)

(* A client that received its result no longer counts as a concurrent      *)
(* request: the callback and the finally block decrement before it leaves. *)
ReleasedBeforeOk == \A r \in Requests : reply[r] = "ok" => ~ Counted(r)

(* A second decrement happens only to a readable answer that raced with    *)
(* the container's timeout, or to an unreadable one; the client of either  *)
(* never receives a body.                                                  *)
TwiceNeverOk == \A r \in Requests : call[r] \in {"thrown", "twice"} =>
                    /\ reply[r] # "ok"
                    /\ outcome[r] = "unreadable" \/ reply[r] = "unavailable"

(* Every request that a thread took is answered in the end.                *)
EveryRequestAnswered ==
    \A r \in Requests : pc[r] # "idle" ~> reply[r] # "none"

(* When the asynchronous call fails, or its answer cannot be read, no      *)
(* callback answers the client: it waits for the container's 503.          *)
AsyncFailureEndsIn503 ==
    \A r \in Requests :
        kind[r] # "blocking" /\ outcome[r] \in {"failure", "unreadable"}
            ~> reply[r] = "unavailable"
-----------------------------------------------------------------------------
(* The metered routes as a gauge of the requests in progress: held from    *)
(* the increment until the decrement, and for ever if execute() throws.    *)
(* The Spring route is not metered, and what the counter lost to double    *)
(* decrements is added again.                                              *)
Entered(r) == pc[r] \notin {"idle", "count"} /\ kind[r] # "spring"

Released == {r \in Requests : Entered(r) /\ ~ Counted(r)}

Gauge == INSTANCE RequestGauge
             WITH held <- InProgress,
                  released <- Released,
                  gauge <- concurrentRequests + Cardinality(Twice),
                  reply <- [r \in Requests |-> IF kind[r] = "spring"
                                               THEN "none" ELSE reply[r]]

(* But for the second decrement of a request whose result was lost, every  *)
(* step of the router is a step of the gauge or changes nothing of it:     *)
(* work begins and ends once, and no result precedes the end.              *)
ImplementsGauge == Gauge!Spec
=============================================================================
