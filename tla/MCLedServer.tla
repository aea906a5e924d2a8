----------------------------- MODULE MCLedServer -----------------------------
(* An instance of LedServer for TLC: two connections, which may or may not *)
(* share an event loop; the first sends a second frame without waiting.    *)
EXTENDS LedServer, TLC

CONSTANTS c1, c2, l1, l2

MCChannels == {c1, c2}
MCAssignments == {c1 :> l1 @@ c2 :> l1, c1 :> l1 @@ c2 :> l2}
MCMaxFrames == c1 :> 2 @@ c2 :> 1
=============================================================================
