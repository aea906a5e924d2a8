------------------------------ MODULE MCRouting ------------------------------
(* An instance of Routing for TLC: every route and every outcome, and one  *)
(* request more than there are threads.                                    *)
EXTENDS Routing

CONSTANTS r1, r2, r3

MCRequests == {r1, r2, r3}
MCKinds == {"blocking", "nonBlocking", "spring"}
MCOutcomes == {"success", "error", "unreadable", "failure"}

(* Requests are interchangeable, so two take the routes in one order only; *)
(* the third is a blocking one ...                                         *)
Rank(r) == CASE kind[r] = "spring" -> 0
             [] kind[r] = "nonBlocking" -> 1
             [] kind[r] = "blocking" -> 2
InOrder == Rank(r1) <= Rank(r2) /\ kind[r3] = "blocking"

MCInit == Init /\ InOrder

MCSpec == /\ MCInit /\ [][Next]_vars
          /\ Fairness /\ \A r \in Requests : WF_vars(Respond(r))

(* ... and comes only if another is blocking too.  No fairness makes a     *)
(* request come, so leaving it out leaves out no behaviour of the others.  *)
ThirdBesideBlocking == kind[r2] # "blocking" => pc[r3] = "idle"
=============================================================================
