----------------------------- MODULE ByteCounter -----------------------------
(* nonblocking/ByteCounter of ws-two: counts the bytes of the body.        *)
EXTENDS NonBlockingServlet

VARIABLE totalBytesRead

vars == <<servletVars, totalBytesRead>>

TypeOK == ServletTypeOK /\ totalBytesRead \in Nat

Init == ServletInit /\ totalBytesRead = 0

-----------------------------------------------------------------------------
(* Mutation: = instead of +=                                               *)
ReadDataOverwrites ==
    /\ pc = "reading"
    /\ \E read \in 1 .. arrived - consumed :
           /\ consumed' = consumed + read
           /\ totalBytesRead' = read
    /\ UNCHANGED <<requestVars, readOwed, writeOwed, blocked, allDataRead, pc,
                   failed, status, readFinished, out>>

(* One round of the loop of onDataAvailable: whatever is there, or less.   *)
ReadData ==
    /\ pc = "reading"
    /\ \E read \in 1 .. arrived - consumed :
           /\ consumed' = consumed + read
           /\ totalBytesRead' = totalBytesRead + read
    /\ UNCHANGED <<requestVars, readOwed, writeOwed, blocked, allDataRead, pc,
                   failed, status, readFinished, out>>

onDataAvailable == \/ ReadData
                   \/ (NotReady \/ ReadEnd \/ ReadFails)
                      /\ UNCHANGED totalBytesRead

(* onWritePossible: the one write of the answer.                           *)
WriteTotal == /\ pc = "writing"
              /\ out' = Append(out, totalBytesRead)
              /\ pc' = "completing"
              /\ UNCHANGED <<requestVars, streamVars, failed, status,
                             readFinished, totalBytesRead>>

Listener == \/ onDataAvailable
            \/ WriteTotal
            \/ (Start \/ WriteFails \/ Complete) /\ UNCHANGED totalBytesRead

Calls == /\ \/ CallDataAvailable \/ CallAllDataRead
            \/ CallWritePossible \/ CallError
         /\ UNCHANGED totalBytesRead

Timeout == AsyncTimeout /\ UNCHANGED totalBytesRead

Next == \/ Listener \/ Calls \/ Timeout
        \/ Client /\ UNCHANGED <<inTime, streamVars, pc, failed, status,
                                 readFinished, out, totalBytesRead>>

Spec == Init /\ [][Next]_vars

FairSpec == /\ Spec
            /\ WF_vars(Listener)
            /\ WF_vars(Calls)
            /\ WF_vars(Timeout)

-----------------------------------------------------------------------------
(* The counter equals what was taken from the stream, and nobody writes    *)
(* before the last byte was counted, though onWritePossible may be called  *)
(* first, last or between two calls of onDataAvailable.                    *)
CountedBeforeWritten ==
    /\ totalBytesRead = consumed
    /\ pc \in {"writing", "completing"} => totalBytesRead = body

(* A request whose body arrived in time is answered, whichever of          *)
(* onAllDataRead and onWritePossible comes last, unless its connection     *)
(* breaks.                                                                 *)
WholeBodyAnswered == inTime /\ conn = "ended"
                         ~> status = "answered" \/ conn = "broken"

(* onError does not complete the request (the FIXME): only the container's *)
(* timeout ends a request that failed.                                     *)
FailedEndsByTimeout == failed ~> status = "abandoned"

(* The servlet as a service that answers a whole body with its length.     *)
Answer == INSTANCE WholeBodyAnswer
              WITH received <- allDataRead, answer <- <<body>>

ImplementsAnswer == Answer!Spec
=============================================================================
