------------------------------ MODULE Framing -------------------------------
(***************************************************************************)
(* message.hpp and those who use it: a text is cut to what a body holds    *)
(* and goes out behind a header of four characters with its length, all of *)
(* it in one stream of bytes.  The one text of the server that can be too  *)
(* long is its list of lobbies; the client shows the numbers it reads.     *)
(* Texts are sequences of character codes.                                 *)
(***************************************************************************)
EXTENDS Integers, SequencesExt

CONSTANTS
    max_body_length,
    Listed,         \* the lists of lobbies: their numbers in the order of the map
    MaxTexts        \* bound on the texts sent

header_length == 4

Blank == 32

Zero == 48

Number == 0 .. 999

(* A body has room for a character, and its length, 512 in message.hpp, has three digits
   at most; a map is gone through from the lowest number up. *)
FramingAssumption ==
    /\ max_body_length \in 1 .. 999
    /\ \A ids \in Listed :
           ids \in Seq(Number) /\ \A i, j \in DOMAIN ids : i < j => ids[i] < ids[j]

ASSUME FramingAssumption

Digit == Zero .. Zero + 9

VARIABLES
    stream,     \* bytes sent and not yet read
    expected,   \* the length of the body being read, or -1: a header is
    listed,     \* history: the lists sent and not yet read
    shown,      \* what the client's list box holds
    asked,      \* what was listed in the reply the list box shows
    texts,      \* how many texts were sent
    refused     \* the reader gave up on a header

framing == <<stream, expected, listed, shown, asked, texts, refused>>

Init ==
    /\ stream = <<>> /\ expected = -1
    /\ listed = <<>> /\ shown = {} /\ asked = <<>>
    /\ texts = 0 /\ refused = FALSE

-----------------------------------------------------------------------------
(* to_string of a number. *)
Decimal(n) ==
    IF n < 10 THEN <<Zero + n>>
    ELSE IF n < 100 THEN <<Zero + n \div 10, Zero + (n % 10)>>
    ELSE <<Zero + n \div 100, Zero + ((n \div 10) % 10), Zero + (n % 10)>>

(* atoi: blanks, then digits up to what is none. *)
Atoi(text) ==
    LET value[i \in 0 .. Len(text)] ==
            IF i = 0 THEN 0
            ELSE IF text[i] \in Digit THEN 10 * value[i - 1] + text[i] - Zero
            ELSE value[i - 1]
    IN  value[Len(text)]

body_length(new_length) ==
    IF new_length > max_body_length THEN max_body_length ELSE new_length

(* sprintf of "%4d": the number, right-justified. *)
Header(length) ==
    LET digits == Decimal(length)
    IN  [i \in 1 .. header_length - Len(digits) |-> Blank] \o digits

(* Faulty variant of Encoded: the header tells the length of the whole text. *)
EncodedUncut(text) == Header(Len(text)) \o SubSeq(text, 1, body_length(Len(text)))

(* body_length, memcpy and encode_header: message(line) of both programs. *)
Encoded(text) ==
    LET length == body_length(Len(text))
    IN  Header(length) \o SubSeq(text, 1, length)

(* The server's answer to "list": the letter, the numbers in the order of the map,
   each with a blank, and a last letter. *)
ListText(ids) ==
    <<108, Blank>> \o FlattenSeq([i \in DOMAIN ids |-> Append(Decimal(ids[i]), Blank)])
        \o <<Blank, 110>>

-----------------------------------------------------------------------------
(* Reading numbers: those that something follows, and what there is of the next. *)
ReadOn(before, char) ==
    IF char \in Digit THEN [before EXCEPT !.word = Append(@, char)]
    ELSE IF before.word = <<>> THEN before
    ELSE [numbers |-> before.numbers \cup {Atoi(before.word)}, word |-> <<>>]

Extraction(text) ==
    LET read[i \in 0 .. Len(text)] ==
            IF i = 0 THEN [numbers |-> {}, word |-> <<>>] ELSE ReadOn(read[i - 1], text[i])
    IN  read[Len(text)]

(* Faulty variant of Numbers: the number at the end of the text is shown as well. *)
NumbersToEnd(text) ==
    Extraction(text).numbers
        \cup {Atoi(word) : word \in {Extraction(text).word} \ {<<>>}}

(* UpdateList: numbers are shown for as long as the stream is good after reading one,
   which it is not if the text ends there. *)
Numbers(text) == Extraction(text).numbers

-----------------------------------------------------------------------------
SendList(ids) ==
    /\ texts < MaxTexts
    /\ stream' = stream \o Encoded(ListText(ids))
    /\ listed' = Append(listed, ids)
    /\ texts' = texts + 1
    /\ UNCHANGED <<expected, shown, asked, refused>>

(* async_read of a header and decode_header. *)
ReadHeader ==
    /\ ~refused /\ expected = -1
    /\ Len(stream) >= header_length
    /\ LET length == Atoi(SubSeq(stream, 1, header_length))
       IN  IF length > max_body_length
           THEN refused' = TRUE /\ UNCHANGED expected
           ELSE expected' = length /\ UNCHANGED refused
    /\ stream' = SubSeq(stream, header_length + 1, Len(stream))
    /\ UNCHANGED <<listed, shown, asked, texts>>

(* async_read of a body, HandleMessage with an "l" and UpdateList. *)
ReadBody ==
    /\ ~refused /\ expected \in 0 .. Len(stream)
    /\ shown' = Numbers(SubSeq(stream, 3, expected))
    /\ asked' = Head(listed) /\ listed' = Tail(listed)
    /\ stream' = SubSeq(stream, expected + 1, Len(stream))
    /\ expected' = -1
    /\ UNCHANGED <<texts, refused>>

Next ==
    \/ \E ids \in Listed : SendList(ids)
    \/ ReadHeader
    \/ ReadBody

Spec == Init /\ [][Next]_framing
-----------------------------------------------------------------------------
(* A cut text leaves the stream in step: no reader gives up, and every message that is
   given out whole by one side is read as one by the other. *)
InStep ==
    /\ ~refused
    /\ stream = <<>> => listed = <<>> /\ expected = -1

(* How many characters the first numbers of a list take, each with its blank. *)
Width(ids) ==
    LET width[i \in 0 .. Len(ids)] ==
            IF i = 0 THEN 0 ELSE width[i - 1] + Len(Decimal(ids[i])) + 1
    IN  width

(* The list box shows lobbies there were, never a piece of a number that was cut, and
   as many as there was room for, the lowest. *)
ListIsTrue ==
    shown = {asked[i] : i \in {n \in DOMAIN asked : 2 + Width(asked)[n] <= max_body_length}}
=============================================================================
