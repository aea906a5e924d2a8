----------------------------- MODULE StompFrame -----------------------------
(***************************************************************************)
(* The frames of stomp.js and their text.  A text is a sequence of         *)
(* characters; a word that no rule of the format takes apart, such as a    *)
(* command or a number, counts as one.  The headers are a sequence of      *)
(* pairs <<name, text>>, a JavaScript object that remembers in which order *)
(* its properties were set.                                                *)
(***************************************************************************)
EXTENDS Integers, Sequences, SequencesExt

LF == "LF"
NULL == "NULL"

Frame(command, headers, body) ==
    [command |-> command, headers |-> headers, body |-> body]

HasHeader(headers, name) == \E i \in DOMAIN headers : headers[i][1] = name

Header(headers, name) ==
    IF HasHeader(headers, name)
    THEN headers[CHOOSE i \in DOMAIN headers : headers[i][1] = name][2]
    ELSE <<>>

SetHeader(headers, name, value) ==
    IF HasHeader(headers, name)
    THEN [i \in DOMAIN headers |-> IF headers[i][1] = name THEN <<name, value>>
                                                           ELSE headers[i]]
    ELSE Append(headers, <<name, value>>)

-----------------------------------------------------------------------------
(* The length is that of the JavaScript string, not of its UTF-8 form.     *)
toString(frame) ==
    <<frame.command>>
        \o FoldLeft(LAMBDA text, h : text \o <<LF, h[1], ":">> \o h[2],
                    <<>>, frame.headers)
        \o (IF frame.body = <<>> THEN <<>>
            ELSE <<LF, "content-length", ":", ToString(Len(frame.body))>>)
        \o <<LF, LF>> \o frame.body

marshall(frame) == Append(toString(frame), NULL)

trim(text) ==
    LET solid == {i \in DOMAIN text : text[i] \notin {" ", LF}}
    IN  IF solid = {} THEN <<>> ELSE SubSeq(text, Min(solid), Max(solid))

(* The pieces of a text between separators                                 *)
Split(text, separator) ==
    FoldLeft(LAMBDA pieces, c :
                 IF c = separator
                 THEN Append(pieces, <<>>)
                 ELSE [pieces EXCEPT ![Len(pieces)] = Append(@, c)],
             <<<<>>>>, text)

(* Mutant: a header is cut at its last colon.                              *)
HeaderOfLastColon(line) ==
    LET colon == CHOOSE i \in DOMAIN line :
                     /\ line[i] = ":"
                     /\ \A j \in i + 1 .. Len(line) : line[j] # ":"
    IN  <<trim(SubSeq(line, 1, colon - 1)),
          trim(SubSeq(line, colon + 1, Len(line)))>>

HeaderOf(line) ==
    LET colon == CHOOSE i \in DOMAIN line :
                     line[i] = ":" /\ \A j \in 1 .. i - 1 : line[j] # ":"
    IN  <<trim(SubSeq(line, 1, colon - 1)),
          trim(SubSeq(line, colon + 1, Len(line)))>>

parseInt(text, atMost) == CHOOSE n \in 0 .. atMost : <<ToString(n)>> = text

(* For a text with an empty line, and headers that have a colon and a name *)
(* of one word.  A length longer than the text takes all of it.            *)
unmarshallSingle(data) ==
    LET divider == CHOOSE i \in 1 .. Len(data) - 1 :
                       /\ data[i] = LF /\ data[i + 1] = LF
                       /\ \A j \in 1 .. i - 1 : ~ (data[j] = LF /\ data[j + 1] = LF)
        lines == Split(SubSeq(data, 1, divider - 1), LF)
        headers == FoldLeft(LAMBDA hs, line :
                                LET h == HeaderOf(line)
                                IN  SetHeader(hs, h[1][1], h[2]),
                            <<>>, Tail(lines))
        rest == SubSeq(data, divider + 2, Len(data))
        length == Header(headers, "content-length")
    IN  Frame(lines[1][1], headers,
              IF length = <<>> THEN rest
              ELSE SubSeq(rest, 1, Min({Len(rest),
                                        parseInt(length, 4 * Len(data))})))

(* The data are cut at every NULL, with the line feeds that follow it.     *)
unmarshall(datas) ==
    LET pieces == Split(datas, NULL)
        feeds(piece) == Cardinality({i \in DOMAIN piece :
                                        \A j \in 1 .. i : piece[j] = LF})
        cut == [i \in DOMAIN pieces |->
                   IF i = 1 THEN pieces[1]
                   ELSE SubSeq(pieces[i], feeds(pieces[i]) + 1, Len(pieces[i]))]
        full == SelectSeq(cut, LAMBDA piece : piece # <<>>)
    IN  [i \in DOMAIN full |-> unmarshallSingle(full[i])]

-----------------------------------------------------------------------------
(* The frames of the calls                                                 *)
sendFrame(destination, headers, body) ==
    Frame("SEND", SetHeader(headers, "destination", destination), body)

(* headers may bring an id.                                                *)
subscribeFrame(destination, headers, counter) ==
    LET identified == IF Header(headers, "id") # <<>> THEN headers
                      ELSE SetHeader(headers, "id", <<"sub-", ToString(counter)>>)
    IN  Frame("SUBSCRIBE", SetHeader(identified, "destination", destination), <<>>)

unsubscribeFrame(id) == Frame("UNSUBSCRIBE", <<<<"id", id>>>>, <<>>)

(* BEGIN, COMMIT and ABORT                                                 *)
transactionFrame(command, transaction) ==
    Frame(command, <<<<"transaction", transaction>>>>, <<>>)

(* ACK and NACK                                                            *)
ackFrame(command, messageID, subscription, headers) ==
    Frame(command, SetHeader(SetHeader(headers, "message-id", messageID),
                             "subscription", subscription), <<>>)
=============================================================================
