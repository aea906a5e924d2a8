---------------------------- MODULE AsyncServlet ----------------------------
(***************************************************************************)
(* The part of Tomcat and Spring MVC that the two Spring MVC programs      *)
(* (spring-mvc-asynch and spring-mvc-asynch-teststub) run in, modelled     *)
(* from the way their controllers and callbacks use it: a bounded pool of  *)
(* request threads, the DeferredResult a controller may return instead of  *)
(* a value, and the container's asynchronous timeout.                      *)
(***************************************************************************)
EXTENDS Integers, FiniteSets

CONSTANTS Requests,     \* the HTTP requests clients send
          MaxThreads,   \* servlet.container.maxThreads
          LateDispatchThrows  \* can dispatching an answered request throw?

ASSUME ContainerAssumption == /\ IsFiniteSet(Requests)
                              /\ MaxThreads \in Nat \ {0}
                              /\ LateDispatchThrows \in BOOLEAN

VARIABLES pc,      \* where the handler of a request stands
          dr,      \* the DeferredResult created for the request
          reply    \* what the client of the request has received

containerVars == <<pc, dr, reply>>

(* "async": the request thread has left, the DeferredResult decides.       *)
PC == {"idle", "count", "compare", "update", "work", "return", "async", "done"}

(* "late": a result was stored although the container already answered;    *)
(* "expired": Spring's afterCompletion ran and closed the DeferredResult.  *)
Deferred == {"none", "open", "set", "timedOut", "late", "expired"}

Reply == {"none", "ok", "error", "unavailable"}

ContainerTypeOK == /\ pc \in [Requests -> PC]
                   /\ dr \in [Requests -> Deferred]
                   /\ reply \in [Requests -> Reply]

ContainerInit == /\ pc = [r \in Requests |-> "idle"]
                 /\ dr = [r \in Requests |-> "none"]
                 /\ reply = [r \in Requests |-> "none"]

-----------------------------------------------------------------------------
OnThread == {r \in Requests : pc[r] \notin {"idle", "async", "done"}}

ThreadFree == Cardinality(OnThread) < MaxThreads

Goto(r, from, to) == /\ pc[r] = from
                     /\ pc' = [pc EXCEPT ![r] = to]

(* The handler ends with a value ("ok") or an exception ("error").         *)
Answer(r, verdict) == /\ reply' = [reply EXCEPT ![r] = verdict]
                      /\ pc' = [pc EXCEPT ![r] = "done"]

isSetOrExpired(r) == dr[r] \in {"set", "late", "expired"}

(* Spring re-checks under its own lock: only an open result is stored.     *)
setResult(r) ==
    dr' = [dr EXCEPT ![r] = IF @ = "open" THEN "set"
                            ELSE IF @ = "timedOut" THEN "late" ELSE @]

(* setResult ends by dispatching the request.  When the container answered *)
(* between isSetOrExpired and setResult, that dispatch may throw.          *)
SetResultThrows(r) ==
    IF dr[r] = "timedOut" /\ LateDispatchThrows THEN BOOLEAN ELSE {FALSE}

-----------------------------------------------------------------------------
(* A stored result is written to the client once the request thread has    *)
(* handed the DeferredResult to Spring; the dispatch takes a pool thread.   *)
Dispatch(r) == /\ pc[r] = "async"
               /\ dr[r] = "set"
               /\ ThreadFree
               /\ Answer(r, "ok")
               /\ UNCHANGED dr

(* No controller gives its DeferredResult a timeout, so the container's    *)
(* own applies: the client gets 503 and the result is not expired yet.     *)
AsyncTimeout(r) == /\ pc[r] = "async"
                   /\ dr[r] = "open"
                   /\ ThreadFree
                   /\ reply' = [reply EXCEPT ![r] = "unavailable"]
                   /\ dr' = [dr EXCEPT ![r] = "timedOut"]
                   /\ UNCHANGED pc

(* afterCompletion of the timed-out request marks the result expired.      *)
AsyncComplete(r) == /\ Goto(r, "async", "done")
                    /\ dr[r] \in {"timedOut", "late"}
                    /\ dr' = [dr EXCEPT ![r] = "expired"]
                    /\ UNCHANGED reply

Container(r) == Dispatch(r) \/ AsyncTimeout(r) \/ AsyncComplete(r)
=============================================================================
