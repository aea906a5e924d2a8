----------------------- MODULE RequestStatisticsProofs -----------------------
(* What the racy maximum can and cannot do, proved for any controller whose *)
(* steps are those of RequestStatistics or leave the statistics alone.      *)
EXTENDS RequestStatistics, FiniteSetTheorems, TLAPS

(* A step of a controller that is none of the four steps of the statistics: *)
(* it may decrement, and it may move handlers that are past them.           *)
Quiet ==
    /\ UNCHANGED <<maxConcurrentRequests, concReqs, history>>
    /\ concurrentRequests' \in Int
    /\ concurrentRequests' <= concurrentRequests
    /\ \A r \in Requests :
          \/ pc'[r] = pc[r]
          \/ pc[r] \in {"work", "return"} /\ pc'[r] \in {"return", "async", "done"}
          \/ pc[r] = "async" /\ pc'[r] = "done"

StatStep ==
    \/ \E r \in Requests : \/ \E next \in {"count", "work"} : TakeId(r, next)
                           \/ Count(r) \/ updateStatistics(r)
    \/ Quiet

(* The history of races stays Boolean.                                     *)
LEMMA RacedTyped ==
  /\ StatInit => raced \in BOOLEAN
  /\ \A r \in Requests : raced \in BOOLEAN /\ updateStatistics(r) => raced' \in BOOLEAN
BY Zenon DEF StatInit, updateStatistics, CompareMax, WriteMax, history

(* What is behind the upper bound: nobody is about to record more than the *)
(* counter has reached.                                                    *)
Bounded == /\ maxConcurrentRequests >= 0
           /\ maxConcurrentRequests <= Ceiling
           /\ concurrentRequests <= peak
           /\ \A r \in Updating : concReqs[r] < peak
           /\ \A r \in Requests : pc[r] = "update" => concReqs[r] > 0

(* And behind the lower one: until a race, whoever is about to assign      *)
(* still raises the maximum, and what the counter reached is recorded or   *)
(* in the hands of a handler that is yet to record it.                     *)
Recorded == ~ raced =>
    /\ \A r \in Requests : pc[r] = "update" => concReqs[r] > maxConcurrentRequests
    /\ \/ maxConcurrentRequests = Ceiling
       \/ \E r \in Updating : concReqs[r] = Ceiling

(* The maximum is at first what the counter has reached,                   *)
LEMMA BoundedInit == StatInit /\ ContainerInit => Bounded /\ Recorded
BY DEF StatInit, ContainerInit, Bounded, Recorded, Ceiling, Updating

(* and every step of a controller keeps it from overstating,               *)
LEMMA BoundedStep ==
  ASSUME StatTypeOK, ContainerTypeOK, StatTypeOK', Bounded, StatStep
  PROVE  Bounded'
<1> USE DEF StatTypeOK, ContainerTypeOK, PC, Bounded, Ceiling,
            Updating, Goto, statVars, counters, history
<1>1. ASSUME NEW r \in Requests, NEW next \in {"count", "work"}, TakeId(r, next)
      PROVE  Bounded'
  BY <1>1 DEF TakeId
<1>2. ASSUME NEW r \in Requests, Count(r) PROVE Bounded'
  BY <1>2 DEF Count
<1>3. ASSUME NEW r \in Requests, CompareMax(r) PROVE Bounded'
  BY <1>3 DEF CompareMax
<1>4. ASSUME NEW r \in Requests, WriteMax(r) PROVE Bounded'
  BY <1>4 DEF WriteMax
<1>5. CASE Quiet
  BY <1>5 DEF Quiet
<1> QED
  BY <1>1, <1>2, <1>3, <1>4, <1>5 DEF StatStep, updateStatistics

(* and from losing what was reached, but for a race.                       *)
LEMMA RecordedStep ==
  ASSUME StatTypeOK, ContainerTypeOK, StatTypeOK', Bounded, Recorded, StatStep
  PROVE  Recorded'
<1> USE DEF StatTypeOK, ContainerTypeOK, PC, Recorded, Ceiling,
            Updating, Goto, statVars, counters, history
<1>1. ASSUME NEW r \in Requests, NEW next \in {"count", "work"}, TakeId(r, next)
      PROVE  Recorded'
  BY <1>1 DEF TakeId
<1>2. ASSUME NEW r \in Requests, Count(r) PROVE Recorded'
  BY <1>2 DEF Count, Bounded
<1>3. ASSUME NEW r \in Requests, CompareMax(r) PROVE Recorded'
  BY <1>3 DEF CompareMax, Bounded
<1>4. ASSUME NEW r \in Requests, WriteMax(r) PROVE Recorded'
  <2> SUFFICES ASSUME ~ raced' PROVE Recorded'
    OBVIOUS
  <2>1. ~ raced /\ \A s \in Requests \ {r} : pc[s] # "update"
    BY <1>4 DEF WriteMax
  <2>2. maxConcurrentRequests < concReqs[r] /\ concReqs[r] <= Ceiling
    BY <1>4, <2>1 DEF WriteMax, Bounded
  <2>3. PICK s \in Updating : concReqs[s] = Ceiling
    BY <2>1, <2>2
  <2>4. \A q \in Requests : pc'[q] # "update"
    BY <1>4, <2>1 DEF WriteMax
  <2>5. CASE s = r
    BY <1>4, <2>3, <2>4, <2>5 DEF WriteMax
  <2>6. CASE s # r
    BY <1>4, <2>3, <2>4, <2>6 DEF WriteMax
  <2> QED
    BY <2>5, <2>6
<1>5. CASE Quiet
  BY <1>5 DEF Quiet
<1> QED
  BY <1>1, <1>2, <1>3, <1>4, <1>5 DEF StatStep, updateStatistics

(* Both together are the invariant that readers of the maximum rely on.    *)
LEMMA RecordedImplies == Bounded /\ Recorded => MaxLostOnlyToRace
BY DEF Bounded, Recorded, MaxLostOnlyToRace, Updating

-----------------------------------------------------------------------------
(* A pool of one thread has at most one handler on it.                     *)
Alone == MaxThreads = 1 => \A r, s \in OnThread : r = s

(* Two handlers that race are two handlers on threads.                     *)
Unraced == MaxThreads = 1 => ~ raced

(* With one request thread nobody races at first,                          *)
LEMMA AloneInit == StatInit /\ ContainerInit => Alone /\ Unraced
BY DEF StatInit, ContainerInit, Alone, Unraced, OnThread

(* that thread has one handler,                                            *)
LEMMA AloneStep ==
  ASSUME ContainerTypeOK, Alone, StatStep
  PROVE  Alone'
<1> USE DEF ContainerTypeOK, PC, Alone, OnThread, Goto
<1> SUFFICES ASSUME MaxThreads = 1 PROVE \A r, s \in OnThread' : r = s
  OBVIOUS
<1>1. ASSUME NEW r \in Requests, NEW next \in {"count", "work"}, TakeId(r, next)
      PROVE  Alone'
  <2>1. IsFiniteSet(OnThread) /\ Cardinality(OnThread) \in Nat
    BY ContainerAssumption, FS_Subset, FS_CardinalityType
  <2>2. Cardinality(OnThread) < 1
    BY <1>1 DEF TakeId, ThreadFree
  <2>3. OnThread = {}
    BY <2>1, <2>2, FS_EmptySet
  <2> QED
    BY <1>1, <2>3 DEF TakeId
<1>2. ASSUME NEW r \in Requests, Count(r) PROVE Alone'
  BY <1>2 DEF Count
<1>3. ASSUME NEW r \in Requests, updateStatistics(r) PROVE Alone'
  BY <1>3 DEF updateStatistics, CompareMax, WriteMax
<1>4. CASE Quiet
  BY <1>4 DEF Quiet
<1> QED
  BY <1>1, <1>2, <1>3, <1>4 DEF StatStep

(* and nobody ever does,                                                   *)
LEMMA UnracedStep ==
  ASSUME StatTypeOK, ContainerTypeOK, Alone, Unraced, StatStep
  PROVE  Unraced'
<1> USE DEF ContainerTypeOK, PC, Unraced, Goto, statVars, counters, history
<1>1. ASSUME NEW r \in Requests, NEW next \in {"count", "work"}, TakeId(r, next)
      PROVE  Unraced'
  BY <1>1 DEF TakeId
<1>2. ASSUME NEW r \in Requests, Count(r) PROVE Unraced'
  BY <1>2 DEF Count
<1>3. ASSUME NEW r \in Requests, CompareMax(r) PROVE Unraced'
  BY <1>3 DEF CompareMax
<1>4. ASSUME NEW r \in Requests, WriteMax(r) PROVE Unraced'
  BY <1>4 DEF WriteMax, Alone, OnThread
<1>5. CASE Quiet
  BY <1>5 DEF Quiet
<1> QED
  BY <1>1, <1>2, <1>3, <1>4, <1>5 DEF StatStep, updateStatistics

(* so that the maximum is exact.                                           *)
LEMMA ExactImplies == MaxLostOnlyToRace /\ Unraced => MaxExact
BY DEF MaxLostOnlyToRace, Unraced, MaxExact
=============================================================================
