----------------------------- MODULE LedRegister -----------------------------
(***************************************************************************)
(* What the web socket server of ws-one would promise if it served one     *)
(* request at a time: every request takes effect on its LED at once, and   *)
(* the topic is told of it, in that order, unless the broker refuses.      *)
(***************************************************************************)
EXTENDS Sequences

CONSTANTS Channels, Leds

VARIABLES ledOf,   \* the LED that a channel's requests are about
          led,     \* is a LED "on" or "off"?
          topic    \* what the subscribers are told

vars == <<ledOf, led, topic>>

Init == /\ ledOf \in [Channels -> Leds]
        /\ led \in [Leds -> {"on", "off"}]
        /\ topic = <<>>

Tell(c, kind, values) ==
    \/ topic' = Append(topic, [from |-> c,
                               answer |-> [kind |-> kind, led |-> values]])
    \/ UNCHANGED topic

Status(c) == /\ Tell(c, "status", <<led[ledOf[c]]>>)
             /\ UNCHANGED led

Switch(c, to) == /\ Tell(c, "set", <<led[ledOf[c]], to>>)
                 /\ led' = [led EXCEPT ![ledOf[c]] = to]

Other(c) == /\ Tell(c, "text", <<>>)
            /\ UNCHANGED led

Fail(c) == /\ Tell(c, "error", <<>>)
           /\ \E to \in {"on", "off"} : led' = [led EXCEPT ![ledOf[c]] = to]

Next == /\ \E c \in Channels : \/ Status(c)
                               \/ \E to \in {"on", "off"} : Switch(c, to)
                               \/ Other(c)
                               \/ Fail(c)
        /\ UNCHANGED ledOf

Spec == Init /\ [][Next]_vars
=============================================================================
