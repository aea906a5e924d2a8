----------------------------- MODULE RequestBody -----------------------------
(***************************************************************************)
(* One request of a ws-two client as its servlet sees it: a body that      *)
(* arrives byte by byte, ends, or never ends because the connection        *)
(* breaks.  The servlets of ws-two keep no state across requests.          *)
(***************************************************************************)
EXTENDS Integers, Sequences

CONSTANT MaxBody    \* bound on the length of a body

ASSUME BodyAssumption == MaxBody \in Nat

VARIABLES body,      \* the length of the body the client means to send
          arrived,   \* how much of it has reached the server
          conn       \* the request stream

bodyVars == <<body, arrived, conn>>

Conn == {"open", "ended", "broken"}

BodyTypeOK == /\ body \in 0 .. MaxBody
              /\ arrived \in 0 .. body
              /\ conn \in Conn
              /\ conn = "ended" => arrived = body

BodyInit == /\ body \in 0 .. MaxBody
            /\ arrived = 0
            /\ conn = "open"

-----------------------------------------------------------------------------
SendByte == /\ conn = "open"
            /\ arrived < body
            /\ arrived' = arrived + 1
            /\ UNCHANGED <<body, conn>>

(* The last chunk, or the announced length is reached.                     *)
EndBody == /\ conn = "open"
           /\ arrived = body
           /\ conn' = "ended"
           /\ UNCHANGED <<body, arrived>>

(* Reset or closed by the client, also while it waits for the answer.      *)
BreakConnection == /\ conn # "broken"
                   /\ conn' = "broken"
                   /\ UNCHANGED <<body, arrived>>

Client == SendByte \/ EndBody \/ BreakConnection
=============================================================================
