-------------------------- MODULE NonBlockingServlet --------------------------
(***************************************************************************)
(* Servlet 3.1 non-blocking I/O as the two listeners of ws-two use it, and *)
(* the code the two listeners share.  The container calls one method of    *)
(* the listener at a time, on changing threads, and none once the request  *)
(* has ended or onError was called.  It owes a call of onDataAvailable or  *)
(* onWritePossible when a listener was set or when isReady() was FALSE.    *)
(***************************************************************************)
EXTENDS RequestBody

VARIABLES inTime,       \* do body and answer get through within the
                        \* asynchronous timeout?  Chosen once.
          pc,           \* where the thread that serves the request stands
          consumed,     \* position in the request stream
          readOwed,     \* a call of onDataAvailable is owed
          writeOwed,    \* a call of onWritePossible is owed
          blocked,      \* sos.isReady() was FALSE, onWritePossible not called
          allDataRead,  \* onAllDataRead has been called
          failed,       \* onError has been called
          status,       \* how the request ended
          readFinished, \* field of the listener
          out           \* what the listener has written

requestVars == <<bodyVars, inTime>>

streamVars == <<consumed, readOwed, writeOwed, blocked, allDataRead>>
servletVars == <<requestVars, streamVars, pc, failed, status, readFinished,
                 out>>

(* "idle": no method of the listener runs; "thrown": one has thrown.       *)
PC == {"start", "idle", "reading", "writing", "completing", "thrown"}

Status == {"open", "answered", "abandoned"}

ServletTypeOK == /\ BodyTypeOK
                 /\ pc \in PC
                 /\ consumed \in 0 .. arrived
                 /\ {inTime, readOwed, writeOwed, blocked, allDataRead,
                     failed, readFinished} \subseteq BOOLEAN
                 /\ status \in Status
                 /\ out \in Seq(Nat)

ServletInit == /\ BodyInit
               /\ inTime \in BOOLEAN
               /\ pc = "start"
               /\ consumed = 0
               /\ readOwed = FALSE
               /\ writeOwed = FALSE
               /\ blocked = FALSE
               /\ allDataRead = FALSE
               /\ failed = FALSE
               /\ status = "open"
               /\ readFinished = FALSE
               /\ out = <<>>

-----------------------------------------------------------------------------
(* Steps of the servlet and of the listener.                               *)

(* startAsync, then both listeners are set.                                *)
Start == /\ pc = "start"
         /\ pc' = "idle"
         /\ readOwed' = TRUE
         /\ writeOwed' = TRUE
         /\ UNCHANGED <<requestVars, consumed, blocked, allDataRead, failed,
                        status, readFinished, out>>

(* sis.isReady() is FALSE: leave the loop.  Before the end of the body it  *)
(* also asks for another call.                                             *)
NotReady == /\ pc = "reading"
            /\ arrived = consumed
            /\ conn # "broken"
            /\ pc' = "idle"
            /\ readOwed' = (conn = "open")
            /\ UNCHANGED <<requestVars, consumed, writeOwed, blocked, allDataRead,
                           failed, status, readFinished, out>>

(* Containers in which isReady() stays TRUE at the end: read gives -1.     *)
ReadEnd == /\ pc = "reading"
           /\ arrived = consumed
           /\ conn = "ended"
           /\ pc' = "idle"
           /\ UNCHANGED <<requestVars, streamVars, failed, status, readFinished,
                          out>>

Throw == /\ pc' = "thrown"
         /\ UNCHANGED <<requestVars, readOwed, writeOwed, blocked, allDataRead,
                        failed, status, readFinished>>

ReadFails == /\ pc = "reading"
             /\ conn = "broken"
             /\ Throw
             /\ UNCHANGED <<consumed, out>>

(* Mutation: the listener forgets to note the end of the body, so that its *)
(* own call of onWritePossible does nothing.                               *)
onAllDataReadForgets ==
    /\ allDataRead' = TRUE
    /\ pc' = "idle"
    /\ \E ready \in BOOLEAN : /\ blocked' = ~ ready
                              /\ writeOwed' = (writeOwed \/ ~ ready)
    /\ UNCHANGED <<requestVars, consumed, readOwed, failed, status, readFinished,
                   out>>

(* Mutation: the listener counts on a call of onWritePossible to come.     *)
onAllDataReadWaits ==
    /\ allDataRead' = TRUE
    /\ readFinished' = TRUE
    /\ pc' = "idle"
    /\ UNCHANGED <<requestVars, consumed, readOwed, writeOwed, blocked, failed,
                   status, out>>

(* sos.isReady() is TRUE: the listener calls its own onWritePossible, which *)
(* finds readFinished TRUE; FALSE: the container will call it.             *)
onAllDataRead ==
    /\ allDataRead' = TRUE
    /\ readFinished' = TRUE
    /\ \E ready \in BOOLEAN :
           /\ pc' = IF ready THEN "writing" ELSE "idle"
           /\ blocked' = ~ ready
           /\ writeOwed' = (writeOwed \/ ~ ready)
    /\ UNCHANGED <<requestVars, consumed, readOwed, failed, status, out>>

(* Mutation: the guard on readFinished is dropped.                         *)
onWritePossibleUnguarded ==
    /\ pc' = "writing"
    /\ UNCHANGED <<requestVars, consumed, readOwed, allDataRead, failed, status,
                   readFinished, out>>

onWritePossible ==
    /\ pc' = IF readFinished THEN "writing" ELSE "idle"
    /\ UNCHANGED <<requestVars, consumed, readOwed, allDataRead, failed, status,
                   readFinished, out>>

WriteFails == /\ pc = "writing"
              /\ conn = "broken"
              /\ Throw
              /\ UNCHANGED <<consumed, out>>

(* ac.complete()                                                           *)
Complete == /\ pc = "completing"
            /\ pc' = "idle"
            /\ status' = "answered"
            /\ UNCHANGED <<requestVars, streamVars, failed, readFinished, out>>

(* Mutation: the line the FIXME comments out.                              *)
onErrorCompletes == /\ pc' = "idle"
                    /\ failed' = TRUE
                    /\ status' = "answered"
                    /\ UNCHANGED <<requestVars, streamVars, readFinished, out>>

(* Only logs: the request stays open.                                      *)
onError == /\ pc' = "idle"
           /\ failed' = TRUE
           /\ UNCHANGED <<requestVars, streamVars, status, readFinished, out>>

-----------------------------------------------------------------------------
(* Steps of the container.                                                 *)
Listening == pc = "idle" /\ status = "open" /\ ~ failed

CallDataAvailable ==
    /\ Listening
    /\ readOwed
    /\ ~ allDataRead
    /\ arrived > consumed \/ conn # "open"
    /\ pc' = "reading"
    /\ readOwed' = FALSE
    /\ UNCHANGED <<requestVars, consumed, writeOwed, blocked, allDataRead, failed,
                   status, readFinished, out>>

CallAllDataRead == /\ Listening
                   /\ conn = "ended"
                   /\ consumed = arrived
                   /\ ~ allDataRead
                   /\ onAllDataRead

CallWritePossible == /\ Listening
                     /\ writeOwed
                     /\ writeOwed' = FALSE
                     /\ blocked' = FALSE
                     /\ onWritePossible

(* A listener method threw, or the container noticed the break itself.     *)
CallError == /\ pc = "thrown" \/ (Listening /\ conn = "broken")
             /\ onError

AsyncTimeout == /\ pc = "idle"
                /\ status = "open"
                /\ failed \/ ~ inTime
                /\ status' = "abandoned"
                /\ UNCHANGED <<requestVars, streamVars, pc, failed, readFinished,
                               out>>
=============================================================================
