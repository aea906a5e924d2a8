----------------------------- MODULE ServletProofs -----------------------------
(***************************************************************************)
(* The servlets of ws-two.  For bodies of every length: the non-blocking   *)
(* byte counter counts the whole body before it writes, and implements the *)
(* promise of WholeBodyAnswer; and the two byte counters never tell        *)
(* different numbers for the same body.  Beside the blocking servlet the   *)
(* non-blocking one behaves as it does alone, so its invariant is at hand. *)
(* For every LIMIT: the number writer writes 1 .. LIMIT in order, resumes  *)
(* where it paused, and implements the promise of WholeBodyAnswer.         *)
(***************************************************************************)
EXTENDS ByteCounters, TLAPS

CONSTANT LIMIT      \* of the number writer
VARIABLE counter    \* of the number writer

Writer == INSTANCE NumberWriter

(* The inductive invariant: how far the listener got determines what was   *)
(* read and what was written.                                              *)
Progress ==
    /\ totalBytesRead = consumed
    /\ pc = "start" => readFinished = FALSE /\ out = <<>>
    /\ readFinished = allDataRead
    /\ allDataRead => consumed = body
    /\ pc \in {"writing", "completing"} => readFinished
    /\ pc = "writing" => status = "open"
    /\ pc = "completing" => status = "open" /\ out = <<body>>
    /\ status = "answered" => pc = "idle" /\ out = <<body>>
    /\ status # "answered" /\ pc # "completing" => out = <<>>

(* A thread is inside the listener only while the request is open.         *)
Serving == pc # "idle" => status = "open"

IInv == TypeOK /\ Progress /\ Serving

USE DEF PC, Status, Conn

(* The invariant holds at first.                                           *)
LEMMA InitIInv == ASSUME Init PROVE IInv
<1> USE DEF Init, ServletInit, BodyInit
<1>1. BodyTypeOK /\ consumed \in 0 .. arrived /\ totalBytesRead \in Nat
  BY BodyAssumption DEF BodyTypeOK
<1>2. out \in Seq(Nat)
  OBVIOUS
<1>3. ServletTypeOK
  BY <1>1, <1>2 DEF ServletTypeOK
<1> QED
  BY <1>1, <1>3 DEF IInv, TypeOK, Progress, Serving

(* What the steps of the servlet, the container and the client do to the   *)
(* invariant, one step at a time.                                          *)
LEMMA NextIInv == ASSUME IInv, [Next]_vars PROVE IInv'
<1> USE DEF IInv, TypeOK, ServletTypeOK, BodyTypeOK, Progress, Serving
<1>1. CASE ReadData
  BY <1>1 DEF ReadData, requestVars, bodyVars
<1>2. CASE NotReady /\ UNCHANGED totalBytesRead
  BY <1>2 DEF NotReady, requestVars, bodyVars
<1>3. CASE ReadEnd /\ UNCHANGED totalBytesRead
  BY <1>3 DEF ReadEnd, requestVars, bodyVars, streamVars
<1>4. CASE ReadFails /\ UNCHANGED totalBytesRead
  BY <1>4 DEF ReadFails, Throw, requestVars, bodyVars
<1>5. CASE WriteTotal
  <2>1. out = <<>> /\ totalBytesRead = body /\ body \in Nat
    BY <1>5 DEF WriteTotal
  <2>2. out' = <<body>>
    BY <1>5, <2>1 DEF WriteTotal
  <2> QED
    BY <1>5, <2>1, <2>2 DEF WriteTotal, requestVars, bodyVars, streamVars
<1>6. CASE Start /\ UNCHANGED totalBytesRead
  BY <1>6 DEF Start, requestVars, bodyVars
<1>7. CASE WriteFails /\ UNCHANGED totalBytesRead
  BY <1>7 DEF WriteFails, Throw, requestVars, bodyVars
<1>8. CASE Complete /\ UNCHANGED totalBytesRead
  BY <1>8 DEF Complete, requestVars, bodyVars, streamVars
<1>9. CASE CallDataAvailable /\ UNCHANGED totalBytesRead
  BY <1>9 DEF CallDataAvailable, Listening, requestVars, bodyVars
<1>10. CASE CallAllDataRead /\ UNCHANGED totalBytesRead
  BY <1>10 DEF CallAllDataRead, onAllDataRead, Listening, requestVars, bodyVars
<1>11. CASE CallWritePossible /\ UNCHANGED totalBytesRead
  BY <1>11 DEF CallWritePossible, onWritePossible, Listening, requestVars, bodyVars
<1>12. CASE CallError /\ UNCHANGED totalBytesRead
  BY <1>12 DEF CallError, onError, Listening, requestVars, bodyVars, streamVars
<1>13. CASE Timeout
  BY <1>13 DEF Timeout, AsyncTimeout, requestVars, bodyVars, streamVars
<1>14. CASE Client /\ UNCHANGED <<inTime, streamVars, pc, failed, status,
                                  readFinished, out, totalBytesRead>>
  BY <1>14 DEF Client, SendByte, EndBody, BreakConnection, requestVars,
               bodyVars, streamVars
<1>15. CASE UNCHANGED vars
  BY <1>15 DEF vars, servletVars, requestVars, bodyVars, streamVars
<1> QED
  BY <1>1, <1>2, <1>3, <1>4, <1>5, <1>6, <1>7, <1>8, <1>9, <1>10, <1>11,
     <1>12, <1>13, <1>14, <1>15
  DEF Next, Listener, onDataAvailable, Calls

(* The inductive invariant holds in every reachable state.                 *)
THEOREM Invariance == Spec => []IInv
<1>1. Init => IInv
  BY InitIInv
<1>2. IInv /\ [Next]_vars => IInv'
  BY NextIInv
<1> QED
  BY <1>1, <1>2, PTL DEF Spec

(* Every variable stays in its type.                                       *)
THEOREM TypeCorrect == Spec => []TypeOK
<1>1. IInv => TypeOK
  BY DEF IInv
<1> QED
  BY <1>1, Invariance, PTL

(* The answer is not written before the last byte was counted.             *)
THEOREM CountIsWhole == Spec => []CountedBeforeWritten
<1>1. IInv => CountedBeforeWritten
  BY DEF IInv, Progress, CountedBeforeWritten
<1> QED
  BY <1>1, Invariance, PTL

-----------------------------------------------------------------------------
(* Refinement: every step is a step of WholeBodyAnswer or changes nothing  *)
(* of what it speaks of.                                                   *)
LEMMA StepRefines == ASSUME IInv, [Next]_vars
                     PROVE [Answer!Next]_(Answer!vars)
<1> USE DEF Answer!vars, IInv, Progress, Serving
<1>0. body' = body
  BY DEF Next, Listener, onDataAvailable, Calls, vars, servletVars, requestVars, bodyVars,
         ReadData, NotReady, ReadEnd, ReadFails, Throw, WriteTotal, Start,
         WriteFails, Complete, CallDataAvailable, CallAllDataRead,
         onAllDataRead, CallWritePossible, onWritePossible, CallError, onError,
         Timeout, AsyncTimeout, Client, SendByte, EndBody, BreakConnection
<1>1. CASE WriteTotal
  <2>1. out = <<>> /\ out' = Append(out, body) /\ allDataRead
        /\ status = "open" /\ UNCHANGED <<allDataRead, status>>
    BY <1>1 DEF WriteTotal, streamVars
  <2>2. /\ Len(<<>>) = 0 /\ Len(<<body>>) = 1 /\ <<body>>[1] = body
    OBVIOUS
  <2> QED
    BY <1>0, <2>1, <2>2 DEF Answer!Next, Answer!Emit
<1>2. CASE Complete
  BY <1>0, <1>2 DEF Complete, streamVars, Answer!Next, Answer!Finish
<1>3. CASE CallAllDataRead
  BY <1>0, <1>3 DEF CallAllDataRead, onAllDataRead, Listening, Answer!Next,
                    Answer!Receive
<1>4. CASE Timeout
  BY <1>0, <1>4 DEF Timeout, AsyncTimeout, streamVars, Answer!Next,
                    Answer!Abandon
<1>5. CASE ~ (WriteTotal \/ Complete \/ CallAllDataRead \/ Timeout)
  <2>1. UNCHANGED <<allDataRead, out, status>>
    BY <1>5 DEF Next, Listener, onDataAvailable, Calls, vars, servletVars,
           streamVars, ReadData, NotReady, ReadEnd, ReadFails, Throw, Start,
           WriteFails, CallDataAvailable, CallWritePossible, onWritePossible,
           CallError, onError
  <2> QED
    BY <1>0, <2>1
<1> QED
  BY <1>1, <1>2, <1>3, <1>4, <1>5

(* The non-blocking byte counter answers a whole body with its length,     *)
(* once, or is abandoned.                                                  *)
THEOREM CounterImplementsAnswer == Spec => ImplementsAnswer
<1>1. Init => Answer!Init
  BY BodyAssumption DEF Init, ServletInit, BodyInit, Answer!Init
<1>2. IInv /\ [Next]_vars => [Answer!Next]_(Answer!vars)
  BY StepRefines
<1> QED
  BY <1>1, <1>2, Invariance, PTL DEF Spec, ImplementsAnswer, Answer!Spec

-----------------------------------------------------------------------------
(* How far the thread of the blocking servlet got determines what it has   *)
(* counted and written.                                                    *)
BlockingProgress ==
    /\ bTotalBytesRead \in 0 .. arrived
    /\ bPc \in {"printing", "closing"} => bTotalBytesRead = body
    /\ bPc \in {"reading", "printing"} => bStatus = "open"
    /\ bPc = "closing" => bOut = <<body>> /\ bStatus = "open"
    /\ bStatus = "answered" => bPc = "done" /\ bOut = <<body>>

BothInv == IInv /\ BlockingProgress

(* A step of either servlet or of the client is one of the non-blocking    *)
(* servlet's world, or leaves that alone.                                  *)
LEMMA StepOfOne == [NextBoth]_allVars => [Next]_vars
<1>1. doPost => UNCHANGED vars
  BY DEF doPost, Blocking!doPost, Blocking!Read, Blocking!ReadEnd,
         Blocking!ReadFails, Blocking!Println, Blocking!Close,
         nonBlockingVars, streamVars, vars, servletVars, requestVars, bodyVars,
         Blocking!bodyVars
<1>2. Served => Next
  BY DEF Served, Next
<1>3. Client /\ UNCHANGED <<nonBlockingVars, blockingVars>> => Next
  BY DEF nonBlockingVars, Next
<1>4. UNCHANGED allVars => UNCHANGED vars
  BY DEF allVars
<1> QED
  BY <1>1, <1>2, <1>3, <1>4 DEF NextBoth

(* The invariant of both servlets holds at first,                          *)
LEMMA BothInit == InitBoth => BothInv
<1>1. InitBoth => IInv
  BY InitIInv DEF InitBoth
<1>2. InitBoth => BlockingProgress
  BY BodyAssumption DEF InitBoth, Init, ServletInit, BodyInit, Blocking!Init,
                        BlockingProgress
<1> QED
  BY <1>1, <1>2 DEF BothInv

(* The body only grows, and a step of the non-blocking servlet does not    *)
(* touch what arrives.                                                     *)
LEMMA BodyGrows ==
  ASSUME IInv, [Next]_vars
  PROVE  body' = body /\ arrived \in Nat /\ arrived' \in Nat
                      /\ arrived <= arrived'
<1> USE DEF IInv, TypeOK, ServletTypeOK, BodyTypeOK
<1>1. CASE Client
  BY <1>1 DEF Client, SendByte, EndBody, BreakConnection
<1>2. CASE Listener
  BY <1>2 DEF Listener, onDataAvailable, ReadData, NotReady, ReadEnd,
              ReadFails, Throw, WriteTotal, Start, WriteFails, Complete,
              requestVars, bodyVars
<1>3. CASE Calls \/ Timeout
  BY <1>3 DEF Calls, CallDataAvailable, CallAllDataRead, onAllDataRead,
              CallWritePossible, onWritePossible, CallError, onError,
              Timeout, AsyncTimeout, requestVars, bodyVars
<1>4. CASE UNCHANGED vars
  BY <1>4 DEF vars, servletVars, requestVars, bodyVars
<1> QED
  BY <1>1, <1>2, <1>3, <1>4 DEF Next

(* and every step of either keeps it.                                      *)
LEMMA BothNext == ASSUME BothInv, [NextBoth]_allVars PROVE BothInv'
<1>1. IInv'
  BY StepOfOne, NextIInv DEF BothInv
<1>2. BlockingProgress'
  <2>0. body' = body /\ arrived \in Nat /\ arrived' \in Nat
                     /\ arrived <= arrived'
    BY StepOfOne, BodyGrows DEF BothInv
  <2>1. CASE UNCHANGED blockingVars
    BY <2>0, <2>1 DEF BothInv, BlockingProgress, blockingVars
  <2>2. CASE Blocking!Read
    BY <2>0, <2>2 DEF Blocking!Read, Blocking!bodyVars, bodyVars, BothInv,
                      BlockingProgress
  <2>3. CASE Blocking!ReadEnd
    BY <2>0, <2>3 DEF Blocking!ReadEnd, Blocking!bodyVars, bodyVars, BothInv,
                      BlockingProgress, IInv, TypeOK, ServletTypeOK, BodyTypeOK
  <2>4. CASE Blocking!ReadFails
    BY <2>0, <2>4 DEF Blocking!ReadFails, Blocking!bodyVars, bodyVars, BothInv,
                      BlockingProgress
  <2>5. CASE Blocking!Println
    BY <2>0, <2>5 DEF Blocking!Println, Blocking!bodyVars, bodyVars, BothInv,
                      BlockingProgress
  <2>6. CASE Blocking!Close
    BY <2>0, <2>6 DEF Blocking!Close, Blocking!bodyVars, bodyVars, BothInv,
                      BlockingProgress
  <2> QED
    BY <2>1, <2>2, <2>3, <2>4, <2>5, <2>6
    DEF NextBoth, Served, doPost, Blocking!doPost, allVars
<1> QED
  BY <1>1, <1>2 DEF BothInv

(* Beside the blocking servlet the non-blocking one is what it is alone.   *)
THEOREM RunsAsAlone == SpecBoth => Spec
<1>1. InitBoth => Init
  BY DEF InitBoth
<1> QED
  BY <1>1, StepOfOne, PTL DEF SpecBoth, Spec

(* Two clients that send the same body are told the same number.           *)
THEOREM ServletsAgree == SpecBoth => []BothServletsAgree
<1>1. BothInv => BothServletsAgree
  BY DEF BothInv, IInv, Progress, BlockingProgress, BothServletsAgree
<1>2. BothInv /\ [NextBoth]_allVars => BothInv'
  BY BothNext
<1> QED
  BY <1>1, <1>2, BothInit, PTL DEF SpecBoth

-----------------------------------------------------------------------------
(* The number writer                                                       *)
(* What was written, in terms of the counter.                              *)
Written ==
    /\ \A i \in 1 .. Len(out) : out[i] = i
    /\ Len(out) <= counter
    /\ ~ failed /\ pc # "thrown" => Len(out) = counter
    /\ out # <<>> => allDataRead
    /\ pc = "idle" /\ status = "open" /\ ~ failed => counter < LIMIT
    /\ pc \in {"start", "reading", "writing"} => counter < LIMIT
    /\ pc = "completing" => counter = LIMIT
    /\ status = "answered" => pc = "idle" /\ Len(out) = LIMIT /\ ~ failed

(* How far the listener got.                                               *)
WriterProgress ==
    /\ readFinished = allDataRead
    /\ pc = "start" => ~ readFinished
    /\ allDataRead => body = 0
    /\ consumed > 0 => pc = "thrown" \/ failed
    /\ pc \in {"writing", "completing"} => readFinished
    /\ pc = "writing" => ~ blocked
    /\ pc # "idle" => status = "open" /\ ~ failed

WriterIInv == Writer!TypeOK /\ Written /\ WriterProgress

USE DEF Writer!PC, Writer!Status, Writer!Conn

(* The invariant of the number writer holds at first.                      *)
LEMMA WriterInit ==
  ASSUME LIMIT \in Nat \ {0}, Writer!Init
  PROVE  WriterIInv
<1> USE DEF Writer!Init, Writer!ServletInit, Writer!BodyInit
<1>1. Writer!BodyTypeOK /\ consumed \in 0 .. arrived /\ counter \in 0 .. LIMIT
  BY BodyAssumption DEF Writer!BodyTypeOK
<1>2. out \in Seq(Nat) /\ Len(out) = 0
  OBVIOUS
<1>3. Writer!ServletTypeOK
  BY <1>1, <1>2 DEF Writer!ServletTypeOK
<1>4. Written
  BY <1>1, <1>2 DEF Written
<1>5. ~ (consumed > 0)
  OBVIOUS
<1>6. WriterProgress
  BY <1>5, Zenon DEF WriterProgress
<1> QED
  BY <1>1, <1>3, <1>4, <1>6 DEF WriterIInv, Writer!TypeOK

(* What the steps of the servlet, the container and the client do to the   *)
(* invariant, one step at a time.                                          *)
LEMMA WriterNext ==
  ASSUME LIMIT \in Nat \ {0}, WriterIInv, [Writer!Next]_(Writer!vars)
  PROVE  WriterIInv'
<1> USE DEF WriterIInv, Writer!TypeOK, Writer!ServletTypeOK, Writer!BodyTypeOK,
     Written, WriterProgress
<1>1. CASE Writer!ReadData
  BY <1>1
  DEF Writer!ReadData, Writer!Throw, Writer!requestVars, Writer!bodyVars
<1>2. CASE Writer!NotReady /\ UNCHANGED counter
  BY <1>2 DEF Writer!NotReady, Writer!requestVars, Writer!bodyVars
<1>3. CASE Writer!ReadEnd /\ UNCHANGED counter
  BY <1>3
  DEF Writer!ReadEnd, Writer!requestVars, Writer!bodyVars, Writer!streamVars
<1>4. CASE Writer!ReadFails /\ UNCHANGED counter
  BY <1>4
  DEF Writer!ReadFails, Writer!Throw, Writer!requestVars, Writer!bodyVars
<1>5. CASE Writer!WriteNumber
  <2>1. /\ Len(out) = counter /\ counter \in Nat /\ counter < LIMIT
        /\ out \in Seq(Nat) /\ allDataRead /\ status = "open" /\ ~ failed
    BY <1>5 DEF Writer!WriteNumber
  <2>2. /\ out' \in Seq(Nat)
        /\ Len(out') = counter + 1
        /\ \A i \in 1 .. Len(out') : out'[i] = i
    BY <1>5, <2>1 DEF Writer!WriteNumber, Writer!NextNumber
  <2>3. PICK ready \in BOOLEAN : /\ pc' = Writer!AfterRound(ready)
                                 /\ blocked' = ~ ready
                                 /\ writeOwed' = (writeOwed \/ ~ ready)
    BY <1>5 DEF Writer!WriteNumber
  <2>4. Writer!TypeOK'
    BY <1>5, <2>1, <2>2, <2>3
    DEF Writer!WriteNumber, Writer!AfterRound, Writer!requestVars,
        Writer!bodyVars
  <2>5. Written'
    BY <1>5, <2>1, <2>2, <2>3
    DEF Writer!WriteNumber, Writer!AfterRound, Writer!requestVars,
        Writer!bodyVars
  <2>6. WriterProgress'
    BY <1>5, <2>1, <2>2, <2>3
    DEF Writer!WriteNumber, Writer!AfterRound, Writer!requestVars,
        Writer!bodyVars
  <2> QED
    BY <2>4, <2>5, <2>6
<1>6. CASE Writer!Start /\ UNCHANGED counter
  BY <1>6 DEF Writer!Start, Writer!requestVars, Writer!bodyVars
<1>7. CASE Writer!WriteNumberFails
  BY <1>7
  DEF Writer!WriteNumberFails, Writer!WriteFails, Writer!Throw,
      Writer!requestVars, Writer!bodyVars
<1>8. CASE Writer!Complete /\ UNCHANGED counter
  BY <1>8
  DEF Writer!Complete, Writer!requestVars, Writer!bodyVars, Writer!streamVars
<1>9. CASE Writer!CallDataAvailable /\ UNCHANGED counter
  BY <1>9
  DEF Writer!CallDataAvailable, Writer!Listening, Writer!requestVars,
      Writer!bodyVars
<1>10. CASE Writer!CallAllDataRead /\ UNCHANGED counter
  BY <1>10
  DEF Writer!CallAllDataRead, Writer!onAllDataRead, Writer!Listening,
      Writer!requestVars, Writer!bodyVars
<1>11. CASE Writer!CallWritePossible /\ UNCHANGED counter
  BY <1>11
  DEF Writer!CallWritePossible, Writer!onWritePossible, Writer!Listening,
      Writer!requestVars, Writer!bodyVars
<1>12. CASE Writer!CallError /\ UNCHANGED counter
  BY <1>12
  DEF Writer!CallError, Writer!onError, Writer!Listening, Writer!requestVars,
      Writer!bodyVars, Writer!streamVars
<1>13. CASE Writer!Timeout
  BY <1>13
  DEF Writer!Timeout, Writer!AsyncTimeout, Writer!requestVars, Writer!bodyVars,
      Writer!streamVars
<1>14. CASE Writer!Client /\ UNCHANGED <<inTime, Writer!streamVars, pc, failed,
                                        status, readFinished, out, counter>>
  BY <1>14
  DEF Writer!Client, Writer!SendByte, Writer!EndBody, Writer!BreakConnection,
      Writer!requestVars, Writer!bodyVars, Writer!streamVars
<1>15. CASE UNCHANGED Writer!vars
  BY <1>15
  DEF Writer!vars, Writer!servletVars, Writer!requestVars, Writer!bodyVars,
      Writer!streamVars
<1> QED
  BY <1>1, <1>2, <1>3, <1>4, <1>5, <1>6, <1>7, <1>8, <1>9, <1>10, <1>11,
     <1>12, <1>13, <1>14, <1>15
  DEF Writer!Next, Writer!Listener, Writer!onDataAvailable, Writer!Calls

(* The inductive invariant holds in every reachable state.                 *)
THEOREM WriterInvariance ==
  ASSUME LIMIT \in Nat \ {0}
  PROVE  Writer!Spec => []WriterIInv
<1>1. Writer!Init => WriterIInv
  BY WriterInit
<1>2. WriterIInv /\ [Writer!Next]_(Writer!vars) => WriterIInv'
  BY WriterNext
<1> QED
  BY <1>1, <1>2, PTL DEF Writer!Spec

(* Every variable stays in its type.                                       *)
THEOREM WriterTypeCorrect ==
  ASSUME LIMIT \in Nat \ {0}
  PROVE  Writer!Spec => []Writer!TypeOK
<1>1. WriterIInv => Writer!TypeOK
  BY DEF WriterIInv
<1> QED
  BY <1>1, WriterInvariance, PTL

(* The loop resumes where it paused and ends at LIMIT.                     *)
THEOREM ResumesRight ==
  ASSUME LIMIT \in Nat \ {0}
  PROVE  Writer!Spec => []Writer!ResumesWhereItPaused
<1>1. WriterIInv => Writer!ResumesWhereItPaused
  BY DEF WriterIInv, Written, WriterProgress, Writer!ResumesWhereItPaused
<1> QED
  BY <1>1, WriterInvariance, PTL

(* The listener writes only when it was told that writing will not block.  *)
THEOREM WritesWhenReady ==
  ASSUME LIMIT \in Nat \ {0}
  PROVE  Writer!Spec => []Writer!NeverWritesBlocked
<1>1. WriterIInv => Writer!NeverWritesBlocked
  BY DEF WriterIInv, WriterProgress, Writer!NeverWritesBlocked
<1> QED
  BY <1>1, WriterInvariance, PTL

-----------------------------------------------------------------------------
(* Refinement: every step is a step of WholeBodyAnswer or changes nothing  *)
(* of what it speaks of.                                                   *)
LEMMA WriterRefines ==
  ASSUME LIMIT \in Nat \ {0}, WriterIInv, [Writer!Next]_(Writer!vars)
  PROVE  [Writer!Answer!Next]_(Writer!Answer!vars)
<1> USE DEF Writer!Answer!vars, WriterIInv, Written, WriterProgress
<1>0. body' = body
  BY DEF Writer!Next, Writer!Listener, Writer!onDataAvailable, Writer!Calls,
       Writer!vars, Writer!servletVars, Writer!requestVars, Writer!bodyVars,
       Writer!ReadData, Writer!NotReady, Writer!ReadEnd, Writer!ReadFails,
       Writer!Throw, Writer!WriteNumber, Writer!WriteNumberFails, Writer!Start,
       Writer!WriteFails, Writer!Complete, Writer!CallDataAvailable,
       Writer!CallAllDataRead, Writer!onAllDataRead, Writer!CallWritePossible,
       Writer!onWritePossible, Writer!CallError, Writer!onError,
       Writer!Timeout, Writer!AsyncTimeout, Writer!Client, Writer!SendByte,
       Writer!EndBody, Writer!BreakConnection
<1>1. CASE Writer!WriteNumber
  <2>1. /\ Len(out) = counter /\ counter \in Nat /\ counter < LIMIT
        /\ allDataRead /\ status = "open"
        /\ out' = Append(out, counter + 1)
        /\ UNCHANGED <<allDataRead, status>>
    BY <1>1 DEF Writer!WriteNumber, Writer!NextNumber, Writer!TypeOK
  <2>2. /\ Len(Writer!Numbers) = LIMIT
        /\ Writer!Numbers[counter + 1] = counter + 1
    BY <2>1 DEF Writer!Numbers
  <2> QED
    BY <1>0, <2>1, <2>2 DEF Writer!Answer!Next, Writer!Answer!Emit
<1>2. CASE Writer!Complete
  <2>1. /\ out \in Seq(Nat)
        /\ Len(out) = LIMIT
        /\ \A i \in 1 .. LIMIT : out[i] = i
    BY <1>2 DEF Writer!Complete, Writer!TypeOK, Writer!ServletTypeOK
  <2>2. out = Writer!Numbers
    BY <2>1 DEF Writer!Numbers
  <2> QED
    BY <1>0, <1>2, <2>2
    DEF Writer!Complete, Writer!streamVars, Writer!Answer!Next,
        Writer!Answer!Finish
<1>3. CASE Writer!CallAllDataRead
  BY <1>0, <1>3
  DEF Writer!CallAllDataRead, Writer!onAllDataRead, Writer!Listening,
      Writer!Answer!Next, Writer!Answer!Receive
<1>4. CASE Writer!Timeout
  BY <1>0, <1>4
  DEF Writer!Timeout, Writer!AsyncTimeout, Writer!streamVars,
      Writer!Answer!Next, Writer!Answer!Abandon
<1>5. CASE ~ (Writer!WriteNumber \/ Writer!Complete \/ Writer!CallAllDataRead
                \/ Writer!Timeout)
  <2>1. UNCHANGED <<allDataRead, out, status>>
    BY <1>5
    DEF Writer!Next, Writer!Listener, Writer!onDataAvailable, Writer!Calls,
        Writer!vars, Writer!servletVars, Writer!streamVars, Writer!ReadData,
        Writer!NotReady, Writer!ReadEnd, Writer!ReadFails, Writer!Throw,
        Writer!Start, Writer!WriteNumberFails, Writer!WriteFails,
        Writer!CallDataAvailable, Writer!CallWritePossible,
        Writer!onWritePossible, Writer!CallError, Writer!onError
  <2> QED
    BY <1>0, <2>1
<1> QED
  BY <1>1, <1>2, <1>3, <1>4, <1>5

(* The number writer answers an empty body with the numbers up to LIMIT,   *)
(* in order, once, or is abandoned.                                        *)
THEOREM WriterImplementsAnswer ==
  ASSUME LIMIT \in Nat \ {0}
  PROVE  Writer!Spec => Writer!ImplementsAnswer
<1>1. Writer!Init => Writer!Answer!Init
  BY DEF Writer!Init, Writer!ServletInit, Writer!BodyInit, Writer!Answer!Init,
       Writer!Numbers
<1>2. WriterIInv /\ [Writer!Next]_(Writer!vars)
        => [Writer!Answer!Next]_(Writer!Answer!vars)
  BY WriterRefines
<1> QED
  BY <1>1, <1>2, WriterInvariance, PTL
  DEF Writer!Spec, Writer!ImplementsAnswer, Writer!Answer!Spec
=============================================================================
