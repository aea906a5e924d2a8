---------------------------- MODULE MCProcessing ----------------------------
(* An instance of Processing for TLC, with more requests than threads.     *)
EXTENDS Processing

CONSTANTS r1, r2, r3

MCRequests == {r1, r2, r3}

(* A maximum below the minimum, a negative range, and a pair whose         *)
(* difference overflows.                                                   *)
MCParams == {<<0, -3>>, <<-2, -1>>, <<-4, 0>>}

(* Requests that differ in nothing are interchangeable, so it is enough to *)
(* start with one of the orders in which they may be given their kind and  *)
(* their arguments.                                                        *)
Rank(r) == (IF kind[r] = "blocking" THEN 0 ELSE 10) - args[r][1]
InOrder == Rank(r1) <= Rank(r2) /\ Rank(r2) <= Rank(r3)

MCInit == Init /\ InOrder

MCSpec == MCInit /\ [][Next]_vars /\ Fairness
=============================================================================
