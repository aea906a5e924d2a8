---------------------------- MODULE RequestGauge ----------------------------
(***************************************************************************)
(* What the two request counters promise: a gauge of the requests whose    *)
(* work is not finished, in a service that answers every request once and  *)
(* finishes the work before it hands out a result.  An error or a 503 may  *)
(* overtake the work.                                                      *)
(***************************************************************************)
EXTENDS Integers, FiniteSets

CONSTANT Requests

VARIABLES held,       \* requests whose work is in progress
          released,   \* requests whose work is finished
          gauge,      \* the counter the statistics are drawn from
          reply       \* what each client has received

gaugeVars == <<held, released, gauge, reply>>

Init == /\ held = {}
        /\ released = {}
        /\ gauge = 0
        /\ reply = [r \in Requests |-> "none"]

Begin(r) == /\ r \notin held \cup released
            /\ held' = held \cup {r}
            /\ gauge' = gauge + 1
            /\ UNCHANGED <<released, reply>>

Finish(r) == /\ r \in held
             /\ held' = held \ {r}
             /\ released' = released \cup {r}
             /\ gauge' = gauge - 1
             /\ UNCHANGED reply

Answer(r) == /\ reply[r] = "none"
             /\ \/ r \in released /\ reply' = [reply EXCEPT ![r] = "ok"]
                \/ /\ r \in held \cup released
                   /\ \E v \in {"error", "unavailable"} :
                          reply' = [reply EXCEPT ![r] = v]
             /\ UNCHANGED <<held, released, gauge>>

Next == \E r \in Requests : Begin(r) \/ Finish(r) \/ Answer(r)

Spec == Init /\ [][Next]_gaugeVars
=============================================================================
