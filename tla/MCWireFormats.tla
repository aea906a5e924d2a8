--------------------------- MODULE MCWireFormats ---------------------------
(* Instances of WireFormats for TLC: characters of one to four bytes, a    *)
(* leading surrogate that ends its string, payloads on either side of a    *)
(* remaining length of 127, all sorts of options, frames with colons and   *)
(* line feeds wherever they may be.                                        *)
EXTENDS WireFormats

MCTexts == {<<>>, <<97>>, <<97, 233, 8364, 128512>>, <<128512, 55295, 65535>>,
            [i \in 1 .. 23 |-> 120]}
Short == <<97>>
Mixed == <<97, 233, 8364, 128512>>
MCClientId == Mixed
LoneSurrogate == <<98, 55357>>

Payload(kind, content) == [kind |-> kind, content |-> content]

MCPayloads == <<Payload("string", Utf16(Mixed)),
                Payload("string", LoneSurrogate),
                Payload("Uint8Array", <<0, 9, 15, 16, 255>>),
                Payload("Uint8Array", [i \in 1 .. 115 |-> i])>>

MCAssignments ==
    <<<<"destinationName", String(Utf16(Mixed))>>,
      <<"destinationName", String(LoneSurrogate)>>,
      <<"destinationName", Number(1)>>,
      <<"qos", Number(0)>>, <<"qos", Number(1)>>, <<"qos", Number(2)>>,
      <<"qos", Number(3)>>, <<"qos", String(Utf16(Short))>>,
      <<"retained", Boolean(TRUE)>>, <<"retained", Number(1)>>,
      <<"duplicate", Boolean(TRUE)>>>>

Will(body, destination, qos, retained) ==
    [payload |-> body, destinationName |-> destination, qos |-> qos,
     retained |-> retained, duplicate |-> FALSE]
Object(kind, items) == Value("object", kind, <<>>, 0, items)
Function == Value("function", "", <<>>, 0, <<>>)
SomeWill == Will(Payload("string", Utf16(Mixed)), <<Utf16(Mixed)>>, 2, TRUE)
ByteWill == Will(Payload("Uint8Array", Utf8(Mixed)), <<Utf16(Short)>>, 0, FALSE)

ClientCase(host, port, clientId, legal) ==
    [host |-> host, port |-> port, clientId |-> clientId, legal |-> legal]
Repeated(char, n) == String(Utf16([i \in 1 .. n |-> char]))

MCClientCases ==
    <<ClientCase(String(Utf16(Short)), Number(0), Repeated(97, 1), TRUE),
      ClientCase(String(<<>>), Number(61614), Repeated(128512, 23), TRUE),
      ClientCase(String(Utf16(Short)), Number(1), Repeated(128512, 24), FALSE),
      ClientCase(String(Utf16(Short)), Number(1), Repeated(97, 24), FALSE),
      ClientCase(String(Utf16(Short)), Number(1), String(<<>>), FALSE),
      ClientCase(String(Utf16(Short)), Number(1), Number(1), FALSE),
      ClientCase(String(Utf16(Short)), Number(-1), Repeated(97, 1), FALSE),
      ClientCase(String(Utf16(Short)), String(Utf16(Short)), Repeated(97, 1),
                 FALSE),
      ClientCase(Number(1), Number(1), Repeated(97, 1), FALSE)>>

Assigned(key, value, legal) == [key |-> key, value |-> value, legal |-> legal]

MCProperties ==
    <<Assigned("onMessageArrived", Function, TRUE),
      Assigned("onConnectionLost", UndefinedValue, FALSE),
      Assigned("onMessageDelivered", Number(1), FALSE),
      Assigned("onConnect", Function, TRUE),
      Assigned("host", String(Utf16(Short)), FALSE),
      Assigned("port", Number(1), FALSE),
      Assigned("clientId", String(Utf16(Short)), FALSE)>>

Default == [cleanSession |-> TRUE, keepAlive |-> 60, userName |-> <<>>,
            password |-> <<>>, will |-> <<>>]
Means(options, means) == [options |-> options, legal |-> TRUE,
                          means |-> <<means>>]
Refused(options) == [options |-> options, legal |-> FALSE, means |-> <<>>]
Unencodable(options) == [options |-> options, legal |-> TRUE, means |-> <<>>]
Hosts(hosts, ports) == [hosts |-> Object("Array", hosts),
                        ports |-> Object("Array", ports)]

MCConnectCases ==
    <<Means([key \in {} |-> Function], Default),
      Means([cleanSession |-> Boolean(FALSE), keepAliveInterval |-> Number(300)],
            [Default EXCEPT !.cleanSession = FALSE, !.keepAlive = 300]),
      Means([keepAliveInterval |-> Number(0), onSuccess |-> Function,
             onFailure |-> Function, timeout |-> Number(5),
             useSSL |-> Boolean(TRUE)],
            [Default EXCEPT !.keepAlive = 0]),
      Means([userName |-> String(Utf16(Mixed)), password |-> String(Utf16(Short)),
             cleanSession |-> Boolean(TRUE)],
            [Default EXCEPT !.userName = <<Mixed>>, !.password = <<Short>>]),
      Means([willMessage |-> Object("Message", <<SomeWill>>),
             userName |-> String(Utf16(Short))],
            [Default EXCEPT !.will = <<SomeWill>>, !.userName = <<Short>>]),
      Means([willMessage |-> Object("null", <<>>)], Default),
      Means([willMessage |-> Object("Message", <<ByteWill>>)],
            [Default EXCEPT !.will = <<ByteWill>>]),
      Means(Hosts(<<String(Utf16(Short))>>, <<Number(1883)>>), Default),
      Refused(Hosts(<<>>, <<>>)),
      Refused(Hosts(<<String(Utf16(Short))>>, <<>>)),
      Refused(Hosts(<<Number(1)>>, <<Number(1883)>>)),
      Refused(Hosts(<<String(Utf16(Short))>>, <<Number(-1)>>)),
      Refused([hosts |-> Object("Array", <<String(Utf16(Short))>>)]),
      Refused([hosts |-> Object("Object", <<>>), ports |-> Object("Array", <<>>)]),
      Refused([willMessage |-> Object("Object", <<>>)]),
      Refused([willMessage |-> Object("Message",
                  <<[SomeWill EXCEPT !.destinationName = <<>>]>>)]),
      Unencodable([willMessage |-> Object("Message",
                      <<[SomeWill EXCEPT !.payload = Payload("string",
                                                             LoneSurrogate)]>>)]),
      Refused([userName |-> Number(1)]),
      Refused([userName |-> UndefinedValue]),
      Unencodable([userName |-> String(Utf16(Short)),
                   password |-> String(LoneSurrogate)]),
      Refused([keepalive |-> Number(1)])>>

RequestCase(filter, options, subscribes, unsubscribes, topic, qos) ==
    [filter |-> filter, options |-> options, subscribes |-> subscribes,
     unsubscribes |-> unsubscribes, topic |-> topic, qos |-> qos]
Never(filter, options) == RequestCase(filter, options, FALSE, FALSE, Short, 0)

MCRequestCases ==
    <<RequestCase(String(Utf16(Short)), [key \in {} |-> Function],
                  TRUE, TRUE, Short, 0),
      RequestCase(String(Utf16(Mixed)), [qos |-> Number(2)],
                  TRUE, FALSE, Mixed, 2),
      RequestCase(String(Utf16(Mixed)),
                  [timeout |-> Number(5), onFailure |-> Function,
                   onSuccess |-> Function], TRUE, TRUE, Mixed, 0),
      RequestCase(String(Utf16(Short)), [timeout |-> Number(0)],
                  TRUE, TRUE, Short, 0),
      Never(String(Utf16(Short)), [qos |-> Number(3)]),
      Never(String(Utf16(Short)), [timeout |-> Number(5)]),
      Never(String(Utf16(Short)), [onSuccess |-> Number(1)]),
      Never(String(LoneSurrogate), [key \in {} |-> Function]),
      Never(Number(1), [key \in {} |-> Function])>>

MCIdentifiers == {258, 65537}

Published(body, destination, qos, retained, duplicate, ids) ==
    [type |-> "PUBLISH", messageIdentifier |-> ids,
     message |-> [payload |-> body, destinationName |-> destination,
                  qos |-> qos, retained |-> retained, duplicate |-> duplicate]]

MCPackets ==
    <<[type |-> "CONNACK", returnCode |-> 0], [type |-> "CONNACK", returnCode |-> 5],
      [type |-> "PINGRESP"],
      [type |-> "PUBACK", messageIdentifier |-> <<256>>],
      [type |-> "PUBREC", messageIdentifier |-> <<255>>],
      [type |-> "PUBREL", messageIdentifier |-> <<65535>>],
      [type |-> "PUBCOMP", messageIdentifier |-> <<1>>],
      [type |-> "UNSUBACK", messageIdentifier |-> <<1>>],
      [type |-> "SUBACK", messageIdentifier |-> <<513>>, grantedQos |-> <<2>>],
      Published(Payload("string", Utf16(Mixed)), Mixed, 2, TRUE, FALSE, <<513>>),
      Published(Payload("string", <<>>), Short, 1, FALSE, TRUE, <<1>>),
      Published(Payload("string", Utf16(<<128512, 55295, 65535>>)),
                <<128512, 55295, 65535>>, 0, FALSE, FALSE, <<>>),
      Published(Payload("Uint8Array", [i \in 1 .. 125 |-> i]), Short, 0, TRUE,
                FALSE, <<>>),
      Published(Payload("Uint8Array", [i \in 1 .. 16381 |-> 7]), Short, 0, FALSE,
                FALSE, <<>>)>>

MCWide == {"e-acute"}

Topic == <<"/topic/", "a">>
ColonTopic == <<"/topic/", ":", "a">>
Id(n) == <<"sub-", ToString(n)>>
F(command, headers, body) == Stomp!Frame(command, headers, body)
StompCase(frame, means) == [frame |-> frame, means |-> means]

MCStompCalls ==
    <<StompCase(Stomp!sendFrame(Topic, <<>>, <<"a", "LF", "b">>),
                F("SEND", <<<<"destination", Topic>>>>, <<"a", "LF", "b">>)),
      StompCase(Stomp!sendFrame(Topic, <<<<"destination", <<"b">>>>,
                                         <<"priority", <<"4">>>>>>, <<>>),
                F("SEND", <<<<"destination", Topic>>, <<"priority", <<"4">>>>>>,
                  <<>>)),
      StompCase(Stomp!subscribeFrame(Topic, <<>>, 7),
                F("SUBSCRIBE", <<<<"id", Id(7)>>, <<"destination", Topic>>>>, <<>>)),
      StompCase(Stomp!subscribeFrame(Topic, <<<<"ack", <<"client">>>>,
                                              <<"id", <<"x">>>>>>, 7),
                F("SUBSCRIBE", <<<<"ack", <<"client">>>>, <<"id", <<"x">>>>,
                                 <<"destination", Topic>>>>, <<>>)),
      StompCase(Stomp!subscribeFrame(ColonTopic, <<>>, 0),
                F("SUBSCRIBE", <<<<"id", Id(0)>>, <<"destination", ColonTopic>>>>,
                  <<>>)),
      StompCase(Stomp!sendFrame(Topic, <<>>, <<"e-acute", "a">>),
                F("SEND", <<<<"destination", Topic>>>>, <<"e-acute", "a">>)),
      StompCase(Stomp!unsubscribeFrame(Id(0)),
                F("UNSUBSCRIBE", <<<<"id", Id(0)>>>>, <<>>)),
      StompCase(Stomp!transactionFrame("COMMIT", <<"t">>),
                F("COMMIT", <<<<"transaction", <<"t">>>>>>, <<>>)),
      StompCase(Stomp!ackFrame("NACK", <<"1">>, Id(0),
                               <<<<"transaction", <<"t">>>>>>),
                F("NACK", <<<<"transaction", <<"t">>>>,
                            <<"message-id", <<"1">>>>,
                            <<"subscription", Id(0)>>>>, <<>>)),
      StompCase(Stomp!ackFrame("ACK", <<"ID", ":", "1">>, Id(0), <<>>),
                F("ACK", <<<<"message-id", <<"ID", ":", "1">>>>,
                           <<"subscription", Id(0)>>>>, <<>>))>>

Delivered(body, headers) ==
    F("MESSAGE", <<<<"subscription", Id(0)>>, <<"destination", Topic>>>>
                     \o headers, body)

MCStompData ==
    <<<<F("CONNECTED", <<<<"version", <<"1.1">>>>,
                         <<"session", <<"ID", ":", "1", ":", "2">>>>,
                         <<"heart-beat", <<"2", ",", "0">>>>>>, <<>>)>>,
      <<Delivered(<<"a">>, <<>>),
        Delivered(<<"b", "LF", "LF", ":", "c">>, <<>>)>>,
      <<Delivered(<<"LF", "a", "LF">>, <<<<"content-length", <<"3">>>>>>),
        Delivered(<<"e-acute">>, <<<<"content-length", <<"2">>>>>>),
        Delivered(<<>>, <<>>), F("RECEIPT", <<<<"receipt-id", <<"1">>>>>>, <<>>)>>,
      <<Delivered(<<"a">>, <<<<"message-id", <<"ID", ":", "1">>>>>>)>>>>
=============================================================================
