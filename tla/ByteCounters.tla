---------------------------- MODULE ByteCounters ----------------------------
(***************************************************************************)
(* Both byte counters of ws-two under the same client: the same body       *)
(* arrives at the non-blocking and at the blocking servlet, byte for byte, *)
(* and each serves it at its own pace.                                     *)
(***************************************************************************)
EXTENDS ByteCounter

VARIABLES bPc, bTotalBytesRead, bOut, bStatus   \* of the blocking servlet

blockingVars == <<bPc, bTotalBytesRead, bOut, bStatus>>
nonBlockingVars == <<inTime, streamVars, pc, failed, status, readFinished, out,
                     totalBytesRead>>
allVars == <<vars, blockingVars>>

Blocking == INSTANCE BlockingByteCounter
                WITH pc <- bPc, totalBytesRead <- bTotalBytesRead,
                     out <- bOut, status <- bStatus

InitBoth == Init /\ Blocking!Init

doPost == Blocking!doPost /\ UNCHANGED nonBlockingVars

Served == (Listener \/ Calls \/ Timeout) /\ UNCHANGED blockingVars

NextBoth == Served \/ doPost
               \/ (Client /\ UNCHANGED <<nonBlockingVars, blockingVars>>)

SpecBoth == /\ InitBoth /\ [][NextBoth]_allVars
            /\ WF_allVars(Listener /\ UNCHANGED blockingVars)
            /\ WF_allVars(Calls /\ UNCHANGED blockingVars)
            /\ WF_allVars(Timeout /\ UNCHANGED blockingVars)
            /\ WF_allVars(doPost)

-----------------------------------------------------------------------------
(* A body that has arrived is answered by both servlets, unless its        *)
(* connection breaks; one whose body stops arriving keeps the thread of    *)
(* the blocking servlet, and the other is ended by the container.          *)
BothAnswered == WholeBodyAnswered /\ Blocking!WholeBodyAnswered

(* Whatever reads, calls and pauses there were, the two servlets never     *)
(* tell their clients different numbers for the same body.                 *)
BothServletsAgree ==
    status = "answered" /\ bStatus = "answered" => out = bOut
=============================================================================
