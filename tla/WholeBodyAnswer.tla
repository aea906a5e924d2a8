--------------------------- MODULE WholeBodyAnswer ---------------------------
(***************************************************************************)
(* What the servlets of ws-two promise: once the whole request body has    *)
(* been received the answer is sent piece by piece, in order, and then the *)
(* request ends; or the request is abandoned, whatever was sent.           *)
(***************************************************************************)
EXTENDS Integers, Sequences

VARIABLES received,   \* has the whole body been received?
          answer,     \* the pieces of the right answer
          out,        \* the pieces sent so far
          status      \* "open", "answered" or "abandoned"

vars == <<received, answer, out, status>>

Init == /\ received = FALSE
        /\ answer \in Seq(Nat)
        /\ out = <<>>
        /\ status = "open"

Receive == /\ ~ received
           /\ received' = TRUE
           /\ UNCHANGED <<answer, out, status>>

Emit == /\ received
        /\ status = "open"
        /\ Len(out) < Len(answer)
        /\ out' = Append(out, answer[Len(out) + 1])
        /\ UNCHANGED <<received, answer, status>>

Finish == /\ received
          /\ status = "open"
          /\ out = answer
          /\ status' = "answered"
          /\ UNCHANGED <<received, answer, out>>

Abandon == /\ status = "open"
           /\ status' = "abandoned"
           /\ UNCHANGED <<received, answer, out>>

Next == Receive \/ Emit \/ Finish \/ Abandon

Spec == Init /\ [][Next]_vars
=============================================================================
