---------------------------- MODULE HttpMessages ----------------------------
(***************************************************************************)
(* Requests as clients send them, and what they mean by RFC 9112, with      *)
(* llhttp's word on what it leaves open: the reference LLHttp is checked     *)
(* against.                                                                  *)
(*                                                                           *)
(* A symbol is a byte, or a word that the parser matches as one; "x" is any  *)
(* other letter and "bad" a control character.                               *)
(***************************************************************************)
EXTENDS Integers, SequencesExt

CONSTANT Limit      \* one more than a length may be (2^64)

-----------------------------------------------------------------------------
(* Symbols *)

CR == "CR"
LF == "LF"
KnownFields == {"connection", "content-length", "transfer-encoding", "upgrade"}
ConnectionWords == {"keep-alive", "close", "upgrade"}
Digits == {"0", "1", "3", "4", "9"}
HexDigits == Digits \cup {"f"}
DigitOf(symbol) == CASE symbol = "0" -> 0 [] symbol = "1" -> 1 [] symbol = "3" -> 3
                     [] symbol = "4" -> 4 [] symbol = "9" -> 9 [] symbol = "f" -> 15
TokenSymbols == KnownFields \cup ConnectionWords \cup HexDigits \cup {"chunked", "x"}
TextSymbols == TokenSymbols \cup {" ", ",", ";", ":", "=", "quote", "backslash", "/", "?"}

\* The protocols a request with this method may name
Protocols == [GET |-> {"HTTP/", "RTSP/"}, POST |-> {"HTTP/"}, CONNECT |-> {"HTTP/"},
              DESCRIBE |-> {"RTSP/"}, SOURCE |-> {"HTTP/", "ICE/"}]
Versions == {"0.9", "1.0", "1.1", "2.0"}

-----------------------------------------------------------------------------
(* What clients send: a request line, headers, a plain or chunked body, another request *)

Coded(h) == h.name \o <<":">> \o h.value \o <<CR, LF>>
CodedAll(headers) == FlattenSeq([i \in DOMAIN headers |-> Coded(headers[i])])
Some(n) == [i \in 1..n |-> "x"]

HeadOf(s) == <<s.method, " ">> \o s.target \o s.rest \o CodedAll(s.headers) \o <<CR, LF>>
Chunk(c) == c.digits \o c.extension \o <<CR, LF>> \o
            IF c.size = 0 THEN <<>> ELSE Some(c.size) \o <<CR, LF>>
TailOf(s) == IF s.chunks = <<>> THEN Some(s.body)
           ELSE FlattenSeq([i \in DOMAIN s.chunks |-> Chunk(s.chunks[i])]) \o
                CodedAll(s.trailers) \o <<CR, LF>>

-----------------------------------------------------------------------------
(* What they mean by it (RFC 9112), with llhttp's word on what it leaves open *)

Number(digits, radix) == FoldLeft(LAMBDA sum, digit : sum * radix + DigitOf(digit), 0, digits)

Kind(h) == IF Len(h.name) = 1 THEN h.name[1] ELSE "x"
Stripped(v) == LET text == {i \in DOMAIN v : v[i] # " "}
               IN  IF text = {} THEN <<>> ELSE SubSeq(v, Min(text), Max(text))
Given(headers, kind) == {i \in DOMAIN headers : Kind(headers[i]) = kind /\ Stripped(headers[i].value) # <<>>}

\* The elements of a value, as a sequence
Elements(v) ==
    LET cut == FoldLeft(LAMBDA pieces, symbol : IF symbol = "," THEN Append(pieces, <<>>)
                            ELSE [pieces EXCEPT ![Len(pieces)] = Append(@, symbol)], <<<<>>>>, v)
    IN  [n \in DOMAIN cut |-> Stripped(cut[n])]
Lists(headers, kind, word) ==
    \E i \in Given(headers, kind) : <<word>> \in ToSet(Elements(headers[i].value))

\* The first part of a target: the server's name, to the path or the query
Server(target) ==
    LET ends == {i \in DOMAIN target : target[i] \in {"/", "?"}}
    IN  IF ends = {} THEN target ELSE SubSeq(target, 1, Min(ends) - 1)
ServerFault(target) ==
    LET server == Server(target)
    IN  "#" \in ToSet(server) \/ Cardinality({i \in DOMAIN server : server[i] = "@"}) > 1
TargetFault(target, m) ==
    \/ "bad" \in ToSet(target)
    \/ m = "CONNECT" /\ ServerFault(target)
    \/ m # "CONNECT" /\ target = <<>>
    \/ m # "CONNECT" /\ target # <<>> /\ target[1] \notin {"/", "*"} /\
          \A n \in 1..(Len(target) - 3) :
             ~ /\ \A i \in 1..n : target[i] = "x"
               /\ SubSeq(target, n + 1, n + 3) = <<":", "/", "/">>
               /\ ~ServerFault(SubSeq(target, n + 4, Len(target)))

LineFault(s) ==
    \/ s.method \notin DOMAIN Protocols
    \/ TargetFault(s.target, s.method)
    \/ /\ s.rest \notin {<<CR, LF>>, <<LF>>}
       /\ s.rest \notin {<<" ", p, v, CR, LF>> : p \in Protocols[s.method], v \in Versions}

\* The transfer codings are in order: none follows chunked.
CodingFault(v) ==
    LET elements == Elements(v)
    IN  \E n \in 1..(Len(elements) - 1) : elements[n] = <<"chunked">>

LengthFault(v) == \/ v = <<>> \/ \E i \in DOMAIN v : v[i] \notin Digits
                  \/ v # <<>> /\ (\A i \in DOMAIN v : v[i] \in Digits) /\ Number(v, 10) >= Limit

HeaderFault(headers, i) ==
    LET h == headers[i]
        before == SubSeq(headers, 1, i - 1)
        value == Stripped(h.value)
        lengths == \E j \in DOMAIN before : Kind(before[j]) = "content-length"
    IN  \/ h.name = <<>> \/ ~(ToSet(h.name) \subseteq TokenSymbols)
        \/ ~(ToSet(value) \subseteq TextSymbols)
        \/ Kind(h) = "content-length" /\ (LengthFault(value) \/ lengths)
        \/ Kind(h) = "content-length" /\ Given(before, "transfer-encoding") # {}
        \/ Kind(h) = "transfer-encoding" /\ lengths
        \/ Kind(h) = "transfer-encoding" /\ value # <<>> /\
              (CodingFault(value) \/ Lists(before, "transfer-encoding", "chunked"))

Codings(s) == Given(s.headers, "transfer-encoding")
IsChunked(s) == Codings(s) # {} /\ Last(Elements(s.headers[Max(Codings(s))].value)) = <<"chunked">>
IsConnect(s) == s.method = "CONNECT"
WantsUpgrade(s) ==
    IsConnect(s) \/ (Given(s.headers, "upgrade") # {} /\ Lists(s.headers, "connection", "upgrade"))

\* A request to change the protocol is let through with codings that leave its end open.
HeadFault(s) ==
    \/ LineFault(s) \/ \E i \in DOMAIN s.headers : HeaderFault(s.headers, i)
    \/ Codings(s) # {} /\ ~IsChunked(s) /\ ~WantsUpgrade(s)

Length(s) == LET given == Given(s.headers, "content-length")
             IN  IF given = {} THEN 0 ELSE Number(Stripped(s.headers[Min(given)].value), 10)
BodySize(s) == IF IsConnect(s) THEN 0 ELSE IF IsChunked(s) THEN FoldLeft(LAMBDA n, c : n + c.size, 0, s.chunks)
               ELSE Length(s)

\* A chunk is as long as its size says, and no line ends within its extension.
ChunkFault(c) ==
    \/ c.digits = <<>> \/ Number(c.digits, 16) >= Limit \/ Number(c.digits, 16) # c.size
    \/ ~(ToSet(c.extension) \subseteq TextSymbols)
ProperExtensions ==
    {<<>>} \cup {<<";", "x">> \o v : v \in {<<>>, <<"=", "x">>, <<"=", "quote", " ", ";", "quote">>,
                                            <<"=", "quote", "backslash", "quote", "quote">>}}
TailFault(s) ==
    /\ IsChunked(s) /\ ~IsConnect(s)
    /\ \/ \E i \in DOMAIN s.chunks : ChunkFault(s.chunks[i])
       \/ \E i \in DOMAIN s.trailers : HeaderFault(s.headers \o s.trailers, Len(s.headers) + i)

Faulty(s) == HeadFault(s) \/ TailFault(s)
Dubious(s) == \E i \in DOMAIN s.chunks : s.chunks[i].extension \notin ProperExtensions

MessageLength(s) ==
    Len(HeadOf(s)) + IF IsConnect(s) THEN 0 ELSE IF IsChunked(s) THEN Len(TailOf(s)) ELSE Length(s)
StaysOpen(s) ==
    LET headers == s.headers \o (IF IsChunked(s) THEN s.trailers ELSE <<>>)
    IN  IF "1.1" \in ToSet(s.rest) THEN ~Lists(headers, "connection", "close")
                                            ELSE Lists(headers, "connection", "keep-alive")
=============================================================================
