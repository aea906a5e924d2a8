----------------------------- MODULE NumberWriter -----------------------------
(* nonblocking/NumberWriter of ws-two: writes the numbers 1 .. LIMIT, one   *)
(* per line, pausing whenever a further write would block.                 *)
EXTENDS NonBlockingServlet

CONSTANT LIMIT

ASSUME LimitAssumption == LIMIT \in Nat \ {0}

VARIABLE counter

vars == <<servletVars, counter>>

TypeOK == ServletTypeOK /\ counter \in 0 .. LIMIT

Init == ServletInit /\ counter = 0

-----------------------------------------------------------------------------
(* onDataAvailable: "There should be no data to read", so data is an error. *)
ReadData == /\ pc = "reading"
            /\ \E read \in 1 .. arrived - consumed :
                   consumed' = consumed + read
            /\ Throw
            /\ UNCHANGED <<out, counter>>

onDataAvailable == \/ ReadData
                   \/ (NotReady \/ ReadEnd \/ ReadFails) /\ UNCHANGED counter

(* The condition of the loop of onWritePossible, and the test after it.    *)
AfterRound(ready) ==
    IF counter + 1 = LIMIT THEN "completing"
    ELSE IF ready THEN "writing" ELSE "idle"

(* Mutation: getAndIncrement.                                              *)
NextNumberOld == counter

NextNumber == counter + 1

(* One round of the loop of onWritePossible.                               *)
WriteNumber ==
    /\ pc = "writing"
    /\ counter' = counter + 1
    /\ out' = Append(out, NextNumber)
    /\ \E ready \in BOOLEAN :
           /\ pc' = AfterRound(ready)
           /\ blocked' = ~ ready
           /\ writeOwed' = (writeOwed \/ ~ ready)
    /\ UNCHANGED <<requestVars, consumed, readOwed, allDataRead, failed, status,
                   readFinished>>

(* The number is drawn before the write that throws.                       *)
WriteNumberFails == WriteFails /\ counter' = counter + 1

Listener == \/ onDataAvailable
            \/ WriteNumber
            \/ WriteNumberFails
            \/ (Start \/ Complete) /\ UNCHANGED counter

Calls == /\ \/ CallDataAvailable \/ CallAllDataRead
            \/ CallWritePossible \/ CallError
         /\ UNCHANGED counter

Timeout == AsyncTimeout /\ UNCHANGED counter

Next == \/ Listener \/ Calls \/ Timeout
        \/ Client /\ UNCHANGED <<inTime, streamVars, pc, failed, status,
                                 readFinished, out, counter>>

Spec == Init /\ [][Next]_vars

FairSpec == /\ Spec
            /\ WF_vars(Listener)
            /\ WF_vars(Calls)
            /\ WF_vars(Timeout)

-----------------------------------------------------------------------------
Numbers == [i \in 1 .. LIMIT |-> i]

(* What is still to be written is what the counter has not reached, across *)
(* all pauses: a thread that enters the loop has a number left to write,   *)
(* and only the thread that wrote the last one completes the request.      *)
ResumesWhereItPaused ==
    /\ pc = "writing" => counter < LIMIT /\ Len(out) = counter
    /\ pc = "completing" => Len(out) = LIMIT
    /\ status = "answered" => Len(out) = LIMIT

(* No number is written between isReady() = FALSE and the call of          *)
(* onWritePossible that it promises.                                       *)
NeverWritesBlocked == pc = "writing" => ~ blocked

(* A GET without a body is answered however often writing has to pause, if *)
(* that is in time and unless its connection breaks.                       *)
EmptyBodyAnswered == inTime /\ body = 0 /\ conn = "ended"
                         ~> status = "answered" \/ conn = "broken"

(* The servlet as a service that answers an empty body with the numbers,   *)
(* and a body that is not empty with nothing.                              *)
Answer == INSTANCE WholeBodyAnswer
              WITH received <- allDataRead /\ body = 0, answer <- Numbers

ImplementsAnswer == Answer!Spec
=============================================================================
