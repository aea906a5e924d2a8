------------------------------ MODULE MqttWire ------------------------------
(***************************************************************************)
(* The wire format of mqttws31.js.  A byte is a number, a string the       *)
(* sequence of its UTF-16 code units, an optional value a sequence of at   *)
(* most one element.                                                       *)
(***************************************************************************)
EXTENDS Integers, Sequences, FiniteSets, SequencesExt

MESSAGE_TYPE ==
    [CONNECT |-> 1, CONNACK |-> 2, PUBLISH |-> 3, PUBACK |-> 4, PUBREC |-> 5,
     PUBREL |-> 6, PUBCOMP |-> 7, SUBSCRIBE |-> 8, SUBACK |-> 9,
     UNSUBSCRIBE |-> 10, UNSUBACK |-> 11, PINGREQ |-> 12, PINGRESP |-> 13,
     DISCONNECT |-> 14]

MqttProtoIdentifier == <<0, 6, 77, 81, 73, 115, 100, 112, 3>>

Threw == -1
Undefined == -2

-----------------------------------------------------------------------------
(* UTF-8.  A unit from D800 to DBFF takes the next one with it, whatever   *)
(* that is.                                                                *)
Leads(unit) == unit \in 55296 .. 56319

(* Mutant: every unit is taken for a character of its own.                 *)
UTF8LengthOfUnits(input) ==
    LET bytes(unit) == IF unit > 2047 THEN 3 ELSE IF unit > 127 THEN 2 ELSE 1
    IN  FoldLeft(LAMBDA n, unit : n + bytes(unit), 0, input)

UTF8Length(input) ==
    LET from[i \in 1 .. Len(input) + 2] ==
            IF i > Len(input) THEN 0
            ELSE IF Leads(input[i]) THEN 4 + from[i + 2]
            ELSE (IF input[i] > 2047 THEN 3 ELSE IF input[i] > 127 THEN 2 ELSE 1)
                     + from[i + 1]
    IN  from[1]

CharBytes(c) ==
    CASE c <= 127 -> <<c>>
      [] c \in 128 .. 2047 -> <<192 + ((c \div 64) % 32), 128 + (c % 64)>>
      [] c \in 2048 .. 65535 ->
             <<224 + ((c \div 4096) % 16), 128 + ((c \div 64) % 64), 128 + (c % 64)>>
      [] OTHER ->
             <<240 + ((c \div 262144) % 8), 128 + ((c \div 4096) % 64),
               128 + ((c \div 64) % 64), 128 + (c % 64)>>

(* Threw takes the place of the bytes of a leading unit that ends input.   *)
stringToUTF8(input) ==
    LET from[i \in 1 .. Len(input) + 2] ==
            IF i > Len(input) THEN <<>>
            ELSE IF ~ Leads(input[i]) THEN CharBytes(input[i]) \o from[i + 1]
            ELSE IF i = Len(input) THEN <<Threw>>
            ELSE CharBytes((input[i] - 55296) * 1024
                               + (input[i + 1] - 56320) + 65536) \o from[i + 2]
    IN  from[1]

(* Reading past the end of the bytes yields undefined.                     *)
At(input, pos) == IF pos + 1 \in DOMAIN input THEN input[pos + 1] ELSE Undefined

CharUnits(code) ==
    IF code > 65535
    THEN <<55296 + (code - 65536) \div 1024, 56320 + ((code - 65536) % 1024)>>
    ELSE <<code % 65536>>

(* A byte that follows is refused below 128 only; one that is missing      *)
(* makes the character NaN, which becomes the unit 0.                      *)
parseUTF8(input, offset, length) ==
    LET size(b) == IF b < 128 THEN 1 ELSE IF b < 224 THEN 2
                   ELSE IF b < 240 THEN 3 ELSE 4
        next(pos) == [k \in 1 .. size(At(input, pos)) - 1 |-> At(input, pos + k)]
        char(b, rest) ==
            IF Undefined \in Range(rest) THEN 0
            ELSE CASE Len(rest) = 0 -> b
                   [] Len(rest) = 1 -> 64 * (b - 192) + rest[1] - 128
                   [] Len(rest) = 2 -> 4096 * (b - 224) + 64 * (rest[1] - 128)
                                           + rest[2] - 128
                   [] OTHER -> 262144 * (b - 240) + 4096 * (rest[1] - 128)
                                   + 64 * (rest[2] - 128) + rest[3] - 128
        from[pos \in Nat] ==
            IF pos >= offset + length
            THEN <<>>
            ELSE LET b == At(input, pos)
                     rest == next(pos)
                 IN  IF \/ b = Undefined \/ b >= 248
                        \/ \E k \in DOMAIN rest : rest[k] \in 0 .. 127
                     THEN <<Threw>>
                     ELSE CharUnits(char(b, rest)) \o from[pos + 1 + Len(rest)]
    IN  from[offset]

-----------------------------------------------------------------------------
(* What is written at one place: its bytes, and the number of places the   *)
(* code moves on.                                                          *)
Piece(bytes) == [bytes |-> bytes, length |-> Len(bytes)]

writeUint16(n) == <<Piece(<<n \div 256, n>>)>>

readUint16(input, pos) == 256 * At(input, pos) + At(input, pos + 1)

writeString(s) ==
    writeUint16(UTF8Length(s))
        \o <<[bytes |-> stringToUTF8(s), length |-> UTF8Length(s)]>>

(* Bytes written into an array of this length.  What does not fit is lost, *)
(* what is not written is 0.                                               *)
Fit(bytes, length) ==
    [i \in 1 .. length |-> IF i \in DOMAIN bytes THEN bytes[i] % 256 ELSE 0]

encodeMBI(number) ==
    LET more == {k \in 1 .. 3 : number \div (128 ^ k) > 0}
    IN  [k \in 1 .. 1 + Cardinality(more) |->
            ((number \div (128 ^ (k - 1))) % 128)
                + (IF number \div (128 ^ k) > 0 THEN 128 ELSE 0)]

(* Mutant: the length is taken to be one byte.                             *)
decodeMBIOneByte(input, pos) == pos + 1

(* The place after the remaining length, whose value nothing uses.         *)
decodeMBI(input, pos) ==
    LET last == CHOOSE k \in pos .. Len(input) :
                    /\ At(input, k) < 128
                    /\ \A j \in pos .. k - 1 : At(input, j) >= 128
    IN  last + 1

-----------------------------------------------------------------------------
(* The messages that are encoded.  requestedQos and topics are lists,      *)
(* messageIdentifier, willMessage, userName and password are optional.     *)
Bit(condition, value) == IF condition THEN value ELSE 0

Sum(numbers) == FoldLeft(LAMBDA a, b : a + b, 0, numbers)
Concat(sequences) == FoldLeft(LAMBDA a, b : a \o b, <<>>, sequences)

Sizes(strings) == Sum([i \in DOMAIN strings |-> UTF8Length(strings[i]) + 2])
Strings(strings) == Concat([i \in DOMAIN strings |-> writeString(strings[i])])

(* payloadBytes of a Message: a string becomes UTF-8, an array is left.    *)
payloadBytes(message) ==
    IF message.payload.kind = "string"
    THEN LET bytes == stringToUTF8(message.payload.content)
         IN  IF Threw \in Range(bytes)
             THEN <<Threw>>
             ELSE Fit(bytes, UTF8Length(message.payload.content))
    ELSE message.payload.content

(* The payload of a will is only converted from the array that it is not:  *)
(* an ArrayBuffer is replaced by an empty one.                             *)
willPayloadBytes(message) ==
    IF message.payload.kind = "ArrayBuffer" THEN <<>> ELSE payloadBytes(message)

firstByte(m) ==
    16 * MESSAGE_TYPE[m.type]
        + (CASE m.type \in {"SUBSCRIBE", "UNSUBSCRIBE"} -> 2
             [] m.type = "PUBLISH" -> Bit(m.message.duplicate, 8)
                                          + 2 * m.message.qos
                                          + Bit(m.message.retained, 1)
             [] OTHER -> 0)

remLength(m) ==
    2 * Len(m.messageIdentifier)
        + (CASE m.type = "CONNECT" ->
                  Len(MqttProtoIdentifier) + 3 + Sizes(<<m.clientId>>)
                      + Sum([i \in DOMAIN m.willMessage |->
                                Sizes(<<m.willMessage[i].destinationName>>)
                                    + Len(willPayloadBytes(m.willMessage[i])) + 2])
                      + Sizes(m.userName) + Sizes(m.password)
             [] m.type = "SUBSCRIBE" -> Sizes(m.topics) + Len(m.requestedQos)
             [] m.type = "UNSUBSCRIBE" -> Sizes(m.topics)
             [] m.type = "PUBLISH" -> Sizes(<<m.message.destinationName>>)
                                          + Len(payloadBytes(m.message))
             [] OTHER -> 0)

connectFlags(m) ==
    Bit(m.cleanSession, 2) + Bit(m.willMessage # <<>>, 4)
        + Sum([i \in DOMAIN m.willMessage |->
                  8 * m.willMessage[i].qos + Bit(m.willMessage[i].retained, 32)])
        + Bit(m.userName # <<>>, 128) + Bit(m.password # <<>>, 64)

variableHeader(m) ==
    (CASE m.type = "PUBLISH" -> writeString(m.message.destinationName)
       [] m.type = "CONNECT" -> <<Piece(MqttProtoIdentifier),
                                  Piece(<<connectFlags(m)>>)>>
                                    \o writeUint16(m.keepAliveInterval)
       [] OTHER -> <<>>)
        \o Concat([i \in DOMAIN m.messageIdentifier |->
                      writeUint16(m.messageIdentifier[i])])

writeWill(message) ==
    LET bytes == willPayloadBytes(message)
    IN  writeString(message.destinationName) \o writeUint16(Len(bytes))
            \o <<Piece(bytes)>>

payload(m) ==
    CASE m.type = "CONNECT" ->
             writeString(m.clientId)
                 \o Concat([i \in DOMAIN m.willMessage |->
                               writeWill(m.willMessage[i])])
                 \o Strings(m.userName) \o Strings(m.password)
      [] m.type = "PUBLISH" -> <<Piece(payloadBytes(m.message))>>
      [] m.type = "SUBSCRIBE" ->
             Concat([i \in DOMAIN m.topics |->
                        writeString(m.topics[i])
                            \o <<Piece(<<m.requestedQos[i]>>)>>])
      [] m.type = "UNSUBSCRIBE" -> Strings(m.topics)
      [] OTHER -> <<>>

(* <<Threw>> if a string has no UTF-8 form.                                *)
encode(m) ==
    LET pieces == variableHeader(m) \o payload(m)
        written == Concat([i \in DOMAIN pieces |->
                              Fit(pieces[i].bytes, pieces[i].length)])
    IN  IF \E i \in DOMAIN pieces : Threw \in Range(pieces[i].bytes)
        THEN <<Threw>>
        ELSE <<firstByte(m)>> \o encodeMBI(remLength(m))
                 \o Fit(written, remLength(m))

-----------------------------------------------------------------------------
Malformed == [type |-> "malformed"]

TypeName(number) ==
    IF \E name \in DOMAIN MESSAGE_TYPE : MESSAGE_TYPE[name] = number
    THEN CHOOSE name \in DOMAIN MESSAGE_TYPE : MESSAGE_TYPE[name] = number
    ELSE "unknown"

(* A PUBLISH without an identifier has none for quality 0.  Quality 3, and *)
(* a topic that is not UTF-8, throw.                                       *)
decodePublish(input, flags, pos) ==
    LET qos == (flags \div 2) % 4
        len == readUint16(input, pos)
        topicName == parseUTF8(input, pos + 2, len)
        rest == pos + 2 + len
    IN  IF Threw \in Range(topicName) \/ qos = 3
        THEN Malformed
        ELSE [type |-> "PUBLISH",
              messageIdentifier |-> IF qos > 0 THEN <<readUint16(input, rest)>>
                                               ELSE <<>>,
              message |-> [payload |-> [kind |-> "Uint8Array",
                                        content |-> SubSeq(input,
                                                        rest + Bit(qos > 0, 2) + 1,
                                                        Len(input))],
                           destinationName |-> topicName, qos |-> qos,
                           retained |-> flags % 2 = 1,
                           duplicate |-> flags \div 8 = 1]]

(* Defined for packets that are as long as they say.                       *)
decodeMessage(input) ==
    LET pos == decodeMBI(input, 1)
        type == TypeName(input[1] \div 16)
        id == <<readUint16(input, pos)>>
    IN  CASE type = "CONNACK" -> [type |-> type, returnCode |-> At(input, pos + 1)]
          [] type = "PUBLISH" -> decodePublish(input, input[1] % 16, pos)
          [] type = "SUBACK" -> [type |-> type, messageIdentifier |-> id,
                                 grantedQos |-> SubSeq(input, pos + 3, Len(input))]
          [] type \in {"PUBACK", "PUBREC", "PUBREL", "PUBCOMP", "UNSUBACK"} ->
                 [type |-> type, messageIdentifier |-> id]
          [] OTHER -> [type |-> type]

-----------------------------------------------------------------------------
(* What localStorage keeps of a PUBLISH: its key is the prefix, the client *)
(* and the identifier; the payload is written in hexadecimal digits.  An   *)
(* ArrayBuffer has no length, so its bytes are not written.                *)

(* Mutant: a byte below 16 takes one digit.                                *)
toHexUnpadded(bytes) ==
    Concat([i \in DOMAIN bytes |->
               IF bytes[i] <= 15 THEN <<bytes[i]>>
                                 ELSE <<bytes[i] \div 16, bytes[i] % 16>>])

toHex(bytes) ==
    [i \in 1 .. 2 * Len(bytes) |-> LET byte == bytes[(i + 1) \div 2]
                                   IN  IF i % 2 = 1 THEN byte \div 16
                                                    ELSE byte % 16]

store(m) ==
    [m EXCEPT !.message.payload =
        [kind |-> "hex",
         content |-> IF @.kind = "ArrayBuffer" THEN <<>>
                                               ELSE toHex(payloadBytes(m.message))]]

restore(stored) ==
    [stored EXCEPT !.message.payload =
        [kind |-> "Uint8Array",
         content |-> [i \in 1 .. Len(@.content) \div 2 |->
                         16 * @.content[2 * i - 1] + @.content[2 * i]]]]
=============================================================================
