------------------------- MODULE BlockingByteCounter -------------------------
(***************************************************************************)
(* blocking/ByteCounter of ws-two: one thread reads the body to its end    *)
(* and then writes, whatever happened on the way being thrown.             *)
(***************************************************************************)
EXTENDS RequestBody

VARIABLES pc, totalBytesRead, out, status

vars == <<bodyVars, pc, totalBytesRead, out, status>>

Init == /\ BodyInit
        /\ pc = "reading"
        /\ totalBytesRead = 0
        /\ out = <<>>
        /\ status = "open"

-----------------------------------------------------------------------------
(* One read of the loop; it blocks until there is something to return.     *)
Read == /\ pc = "reading"
        /\ \E len \in 1 .. arrived - totalBytesRead :
               totalBytesRead' = totalBytesRead + len
        /\ UNCHANGED <<bodyVars, pc, out, status>>

(* Mutation: a read that has nothing yet ends the loop as -1 does.         *)
ReadEndEarly == /\ pc = "reading"
                /\ arrived = totalBytesRead
                /\ conn # "broken"
                /\ pc' = "printing"
                /\ UNCHANGED <<bodyVars, totalBytesRead, out, status>>

ReadEnd == /\ pc = "reading"
           /\ arrived = totalBytesRead
           /\ conn = "ended"
           /\ pc' = "printing"
           /\ UNCHANGED <<bodyVars, totalBytesRead, out, status>>

(* The finally block closes the stream and the exception leaves doPost.    *)
ReadFails == /\ pc = "reading"
             /\ conn = "broken"
             /\ pc' = "done"
             /\ status' = "abandoned"
             /\ UNCHANGED <<bodyVars, totalBytesRead, out>>

(* Its writer swallows a failing write: the servlet ends as usual.      *)
Println == /\ pc = "printing"
           /\ pc' = "closing"
           /\ out' = <<totalBytesRead>>
           /\ UNCHANGED <<bodyVars, totalBytesRead, status>>

Close == /\ pc = "closing"
         /\ pc' = "done"
         /\ status' = "answered"
         /\ UNCHANGED <<bodyVars, totalBytesRead, out>>

doPost == Read \/ ReadEnd \/ ReadFails \/ Println \/ Close

-----------------------------------------------------------------------------
(* A request whose body arrived is answered unless its connection breaks;  *)
(* one whose body stops arriving keeps its thread.                         *)
WholeBodyAnswered == conn = "ended" ~> status = "answered" \/ conn = "broken"

=============================================================================
