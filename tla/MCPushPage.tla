----------------------------- MODULE MCPushPage -----------------------------
(* Instances of PushPage for TLC.                                          *)
EXTENDS PushPage

PageNotify == <<"wsone.notify">>
TwoTopics == {PageNotify, <<"other">>}

Configured(user, version, beat, punctual, subscriptions) ==
    [user |-> user, version |-> version, beat |-> beat, punctual |-> punctual,
     subscriptions |-> subscriptions]

(* The page on a server without heart-beats; another application, on a     *)
(* server that forgets to speak of heart-beats, which subscribes; and one  *)
(* that only keeps a connection to a server that beats more slowly or      *)
(* wants fewer beats than the client, does only one of the two, or may     *)
(* fall silent.                                                            *)
PageAndOthers ==
    {Configured("page", "1.0", <<>>, FALSE, 0),
     Configured("other", "1.1", <<>>, FALSE, 2),
     Configured("other", "1.1", <<2, 3>>, TRUE, 0),
     Configured("other", "1.2", <<3, 0>>, TRUE, 0),
     Configured("other", "1.1", <<2, 3>>, FALSE, 0),
     Configured("other", "1.1", <<0, 2>>, FALSE, 0)}
=============================================================================
