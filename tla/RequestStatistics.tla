-------------------------- MODULE RequestStatistics --------------------------
(***************************************************************************)
(* The request counters that RoutingController and ProcessingController    *)
(* both keep: two AtomicLongs and a plain static long that every request   *)
(* thread compares and then writes without synchronisation.  The compare   *)
(* and the write are two steps, so that two threads can race on them.      *)
(***************************************************************************)
EXTENDS AsyncServlet

VARIABLES lastRequestId,
          concurrentRequests,
          maxConcurrentRequests,
          concReqs,    \* local of the handler: the counter BEFORE it entered,
                       \* 0 before it is set and after its last use
          peak,        \* history: the highest value concurrentRequests had
          raced        \* history: two handlers have raced on the maximum

counters == <<lastRequestId, concurrentRequests, maxConcurrentRequests>>
history == <<peak, raced>>
statVars == <<counters, history, concReqs>>

StatTypeOK == /\ lastRequestId \in Nat
              /\ concurrentRequests \in Int
              /\ maxConcurrentRequests \in Int
              /\ concReqs \in [Requests -> Int]
              /\ peak \in Nat
              /\ raced \in BOOLEAN

StatInit == /\ lastRequestId = 0
            /\ concurrentRequests = 0
            /\ maxConcurrentRequests = 0
            /\ concReqs = [r \in Requests |-> 0]
            /\ peak = 0
            /\ raced = FALSE

-----------------------------------------------------------------------------
(* A pool thread takes the request and draws its number, for the log only. *)
TakeId(r, next) ==
    /\ ThreadFree
    /\ Goto(r, "idle", next)
    /\ lastRequestId' = lastRequestId + 1
    /\ UNCHANGED <<dr, reply, concurrentRequests, maxConcurrentRequests,
                   concReqs, history>>

(* concurrentRequests.getAndIncrement()                                    *)
Count(r) ==
    /\ Goto(r, "count", "compare")
    /\ concReqs' = [concReqs EXCEPT ![r] = concurrentRequests]
    /\ concurrentRequests' = concurrentRequests + 1
    /\ peak' = IF concurrentRequests + 1 > peak THEN concurrentRequests + 1
                                                ELSE peak
    /\ UNCHANGED <<dr, reply, lastRequestId, maxConcurrentRequests, raced>>

(* Mutation: the comparison the other way round.                           *)
CompareMaxReversed(r) ==
    /\ IF concReqs[r] < maxConcurrentRequests
       THEN /\ Goto(r, "compare", "update")
            /\ UNCHANGED concReqs
       ELSE /\ Goto(r, "compare", "work")
            /\ concReqs' = [concReqs EXCEPT ![r] = 0]
    /\ UNCHANGED <<dr, reply, counters, history>>

(* updateStatistics: the comparison ...                                    *)
CompareMax(r) ==
    /\ IF concReqs[r] > maxConcurrentRequests
       THEN /\ Goto(r, "compare", "update")
            /\ UNCHANGED concReqs
       ELSE /\ Goto(r, "compare", "work")
            /\ concReqs' = [concReqs EXCEPT ![r] = 0]
    /\ UNCHANGED <<dr, reply, counters, history>>

(* ... and the assignment, with what the comparison saw possibly stale:    *)
(* whoever else has compared and not yet assigned compared with a maximum  *)
(* that is no longer the maximum.                                          *)
WriteMax(r) ==
    /\ Goto(r, "update", "work")
    /\ maxConcurrentRequests' = concReqs[r]
    /\ concReqs' = [concReqs EXCEPT ![r] = 0]
    /\ raced' = (raced \/ \E s \in Requests \ {r} : pc[s] = "update")
    /\ UNCHANGED <<dr, reply, lastRequestId, concurrentRequests, peak>>

updateStatistics(r) == CompareMax(r) \/ WriteMax(r)

(* concurrentRequests.decrementAndGet() / getAndDecrement()                *)
Uncount == /\ concurrentRequests' = concurrentRequests - 1
           /\ UNCHANGED <<lastRequestId, maxConcurrentRequests, concReqs, history>>

-----------------------------------------------------------------------------
Updating == {r \in Requests : pc[r] \in {"compare", "update"}}

(* What the maximum should be: handlers record what the counter was before *)
(* they entered, so one less than the highest value it ever had.           *)
Ceiling == IF peak = 0 THEN 0 ELSE peak - 1

(* The reported maximum claims no more simultaneous requests than there    *)
(* were; and once every handler that entered has compared and assigned, it *)
(* claims no fewer either, unless two of them were between the comparison  *)
(* and the assignment at once: nothing but that race loses a maximum.      *)
MaxLostOnlyToRace ==
    /\ maxConcurrentRequests <= Ceiling
    /\ Updating = {} /\ ~ raced => maxConcurrentRequests = Ceiling

(* With one request thread no two handlers race, and the reported maximum  *)
(* is exact whenever no handler is between its increment and its update.   *)
MaxExact == MaxThreads = 1 /\ Updating = {} => maxConcurrentRequests = Ceiling
=============================================================================
