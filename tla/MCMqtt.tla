------------------------------- MODULE MCMqtt -------------------------------
(* Instances of MqttDelivery for TLC: o1 and o2 are sent by the application,*)
(* i1 by the broker.                                                       *)
EXTENDS MqttDelivery

CONSTANTS o1, o2, i1

NoMessages == {}

Returning == [onSuccess |-> "return", onConnectionLost |-> "return",
              onFailure |-> "return", onMessageArrived |-> "return",
              onMessageDelivered |-> "return"]

AllMessages == {o1, o2, i1}
Sent == <<o1, o2>>

(* Two messages of quality 2 and 1 out, one of quality 2 in.               *)
DeliveryQoS == (o1 :> 2) @@ (o2 :> 1) @@ (i1 :> 2)
DeliveryReactions == {Returning}
Persistent == {FALSE}
SingleHost == {0}

(* A message of quality 1, one that cannot be encoded, one of the broker    *)
(* that finds no room in localStorage; applications that connect again     *)
(* from within their callbacks or disconnect from within them, and one     *)
(* without any.                                                            *)
ConnectionQoS == (o1 :> 1) @@ (o2 :> 0) @@ (i1 :> 2)
Misspelt == {o2}
NoRoom == {i1}
Reconnecting == [Returning EXCEPT !.onSuccess = "subscribe",
                                  !.onConnectionLost = "reconnect",
                                  !.onFailure = "reconnect"]
Disconnecting == [Returning EXCEPT !.onMessageArrived = "disconnect",
                                   !.onMessageDelivered = "disconnect"]
Mute == [callback \in DOMAIN Returning |-> "absent"]
ConnectionReactions == {Reconnecting, Disconnecting, Mute}
CleanOrNot == {TRUE, FALSE}
OneHostOrTwo == {0, 2}
=============================================================================
