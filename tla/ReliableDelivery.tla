--------------------------- MODULE ReliableDelivery ---------------------------
(***************************************************************************)
(* What quality of service 1 and 2 promise, in either direction: only what *)
(* was requested is handed over, at quality 2 at most once, and a sender   *)
(* is told at most once that a message arrived, after it did.              *)
(***************************************************************************)
EXTENDS Integers

CONSTANTS Messages, QoS

VARIABLES requested,   \* messages the sender was asked to deliver
          handed,      \* how often each was handed to the receiver
          settled      \* how often the sender took it for delivered

vars == <<requested, handed, settled>>

Init == /\ requested = {}
        /\ handed = [m \in Messages |-> 0]
        /\ settled = [m \in Messages |-> 0]

Request(m) == /\ requested' = requested \cup {m}
              /\ UNCHANGED <<handed, settled>>

HandOver(m) == /\ m \in requested
               /\ QoS[m] # 1 => handed[m] = 0
               /\ handed' = [handed EXCEPT ![m] = @ + 1]
               /\ UNCHANGED <<requested, settled>>

Settle(m) == /\ handed[m] > 0
             /\ settled[m] = 0
             /\ settled' = [settled EXCEPT ![m] = @ + 1]
             /\ UNCHANGED <<requested, handed>>

Next == \E m \in Messages : Request(m) \/ HandOver(m) \/ Settle(m)

Spec == Init /\ [][Next]_vars
=============================================================================
