----------------------------- MODULE Transcoding -----------------------------
(***************************************************************************)
(* The streams that encode and decode (streams/Base64Stream.cpp,            *)
(* streams/UriStream.cpp), read a piece at a time, and the forms and query  *)
(* strings that are built on them (util/HttpUtility.cpp).                   *)
(*                                                                          *)
(* A byte is its number.  A character of Base64 is its place in the         *)
(* dictionary, Padding, or Foreign for all others.                          *)
(***************************************************************************)
EXTENDS Integers, FiniteSetsExt, SequencesExt

CONSTANTS
    Sources,    \* [kind, data]: a stream and what goes through it (environment)
                \* (the data of the kind "form" is a list of [key, value])
    MaxTake     \* bytes that are read at a time (environment bound)

\* What is decoded from percent encoding is read as a char, which has a sign: from 128 on it
\* is no byte any more.
Ascii == Seq(0..127)
SourcesAssumption ==
    /\ MaxTake \in Nat
    /\ \A s \in Sources :
        \/ s.kind \in {"base64", "decode64", "uri"} /\ s.data \in Seq(0..255)
        \/ s.kind = "decodeUri" /\ s.data \in Ascii
        \/ s.kind = "form" /\ s.data \in Seq([key : Ascii, value : Ascii])
ASSUME SourcesAssumption

VARIABLES
    kind, data,     \* which stream it is; the data, decoded
    inner,          \* the bytes that are left of the underlying stream
    buffer,         \* buffer_ from bufferPos_ on, encodedBuffer_ or percentBuffer_
    state,          \* state_ of the Uri streams; "eof" is eof_ of the Base64 streams
    delivered,      \* history: what was read
    ended           \* history: a read has given less than it was asked for

transcodingVars == <<kind, data, inner, buffer, state, delivered, ended>>

Padding == 64
Foreign == 65
First(n, s) == SubSeq(s, 1, IF n < Len(s) THEN n ELSE Len(s))
Behind(n, s) == SubSeq(s, n + 1, Len(s))

-----------------------------------------------------------------------------
(* Base64 *)

\* Mutant of Sextets: the bits that cross from the second byte to the third character
BugShift(b) == <<b[1] \div 4, (b[1] % 4) * 16 + b[2] \div 16, (b[2] % 16) * 4 + b[3] \div 32, b[3] % 64>>

Sextets(b) == <<b[1] \div 4, (b[1] % 4) * 16 + b[2] \div 16, (b[2] % 16) * 4 + b[3] \div 64, b[3] % 64>>

\* encodeNextBlock: without padding fewer characters are given than the bytes need.
EncodedBlock(bytes, padded) ==
    LET four == Sextets(bytes \o [n \in 1..3 - Len(bytes) |-> 0])
        pads == [n \in 1..3 - Len(bytes) |-> Padding]
    IN  IF padded THEN First(Len(bytes) + 1, four) \o pads
        ELSE First(IF Len(bytes) = 1 THEN 2 ELSE Len(bytes), four)

\* decodeNextBlock: a block that is not complete is lost, and so is what is before a foreign
\* character; after that it goes on.
DecodedBlock(chars) ==
    LET value(n) == IF chars[n] = Padding THEN -1 ELSE chars[n]
        bytes == <<IF value(2) = -1 THEN 255 ELSE (value(1) * 4 + value(2) \div 16) % 256,
                   (value(2) % 16) * 16 + value(3) \div 4,
                   ((value(3) % 4) * 64 + value(4)) % 256>>
    IN  First(IF value(3) = -1 THEN 1 ELSE IF value(4) = -1 THEN 2 ELSE 3, bytes)

\* One stream: the bytes that are left, its buffer and its state.  A step of a stream gives a
\* byte, Nothing when there is none, or Again while it is in the middle of one.
Stream(left, buf, st) == [inner |-> left, buffer |-> buf, state |-> st]
Nothing == -1000
Again == -2000
Step(stream, value) == [stream |-> stream, value |-> value]

Base64EncoderStep(s, padded) ==
    IF s.buffer # <<>> THEN Step(Stream(s.inner, Tail(s.buffer), s.state), s.buffer[1])
    ELSE IF s.inner = <<>> THEN Step(Stream(<<>>, <<>>, "eof"), Nothing)
    ELSE Step(Stream(Behind(3, s.inner), EncodedBlock(First(3, s.inner), padded),
                     IF Len(s.inner) < 3 THEN "eof" ELSE s.state), Again)

Base64DecoderStep(s) ==
    LET block == First(4, s.inner)
        foreign == {n \in DOMAIN block : block[n] = Foreign}
    IN  IF s.buffer # <<>> THEN Step(Stream(s.inner, Tail(s.buffer), s.state), s.buffer[1])
        ELSE IF s.state = "eof" THEN Step(s, Nothing)
        ELSE IF foreign # {} THEN Step(Stream(Behind(Min(foreign), s.inner), <<>>, s.state), Nothing)
        ELSE IF Len(block) < 4 THEN Step(Stream(<<>>, <<>>, "eof"), Nothing)
        ELSE Step(Stream(Behind(4, s.inner), DecodedBlock(block), s.state), Again)

-----------------------------------------------------------------------------
(* Percent encoding *)

Percent == 37
Plus == 43
Space == 32
HexDigit(n) == IF n < 10 THEN 48 + n ELSE 55 + n
IsUnreserved(b) == b \in (65..90) \cup (97..122) \cup (48..57) \cup {45, 95, 46, 126}

HexValue(char) ==
    CASE char \in 48..57 -> char - 48
      [] char \in 65..70 -> char - 55
      [] char \in 97..102 -> char - 87
      [] OTHER -> -1

\* strtol(hex, nullptr, 16), then a char, which has a sign; the blanks and signs that strtol
\* would skip are left out.
Unescaped(one, two) ==
    LET n == IF HexValue(one) = -1 THEN 0
             ELSE IF HexValue(two) = -1 THEN HexValue(one)
             ELSE 16 * HexValue(one) + HexValue(two)
    IN  IF n > 127 THEN n - 256 ELSE n

\* UriDecodingStream::readSingleByte with peekSingleByte: what comes out negative ends the
\* read, and -1 does not even take the second digit.
UriDecoderStep(s) ==
    LET byte == s.inner[1]
        value == Unescaped(s.buffer[1], byte)
        left == Tail(s.inner)
    IN  CASE s.inner = <<>> -> Step(s, Nothing)
          [] s.inner # <<>> /\ s.state = "Normal" ->
                IF byte = Percent THEN Step(Stream(left, <<>>, "Percent1"), Again)
                ELSE Step(Stream(left, <<>>, "Normal"), IF byte = Plus THEN Space ELSE byte)
          [] s.inner # <<>> /\ s.state = "Percent1" -> Step(Stream(left, <<byte>>, "Percent2"), Again)
          [] s.inner # <<>> /\ s.state = "Percent2" ->
                Step(Stream(IF value = -1 THEN s.inner ELSE left, <<>>, "Normal"),
                     IF value < 0 THEN Nothing ELSE value)

\* UriEncodingStream::readSingleByte: the byte is taken with its last character.
UriEncoderStep(s) ==
    IF s.inner = <<>> THEN Step(s, Nothing)
    ELSE LET byte == s.inner[1]
         IN  CASE s.state = "Normal" /\ IsUnreserved(byte) -> Step(Stream(Tail(s.inner), <<>>, "Normal"), byte)
               [] s.state = "Normal" /\ ~IsUnreserved(byte) -> Step(Stream(s.inner, <<>>, "EncodedPercent"), Percent)
               [] s.state = "EncodedPercent" -> Step(Stream(s.inner, <<>>, "EncodedHex1"), HexDigit(byte \div 16))
               [] s.state = "EncodedHex1" -> Step(Stream(Tail(s.inner), <<>>, "Normal"), HexDigit(byte % 16))

-----------------------------------------------------------------------------
(* Reading *)

StepOf(k, s) ==
    CASE k = "base64" -> Base64EncoderStep(s, TRUE)
      [] k = "decode64" -> Base64DecoderStep(s)
      [] k = "uri" -> UriEncoderStep(s)
      [] k = "decodeUri" -> UriDecoderStep(s)

\* readSingleByte() of each stream: at most two steps come before the one that gives a byte.
ReadSingleByte(k, s) ==
    LET one == StepOf(k, s)
        two == StepOf(k, one.stream)
    IN  IF one.value # Again THEN one
        ELSE IF two.value # Again THEN two
        ELSE StepOf(k, two.stream)

\* read() of each stream: single bytes until one is negative
Taking(stream, bytes, short) == [stream |-> stream, bytes |-> bytes, short |-> short]
Taken(k, s, count) ==
    LET taken[n \in Nat] ==
            IF n = 0 THEN Taking(s, <<>>, FALSE)
            ELSE LET before == taken[n - 1]
                     byte == ReadSingleByte(k, before.stream)
                 IN  IF before.short THEN before
                     ELSE IF byte.value = Nothing THEN Taking(byte.stream, before.bytes, TRUE)
                     ELSE Taking(byte.stream, Append(before.bytes, byte.value), FALSE)
    IN  taken[count]

Current == Stream(inner, buffer, state)

Continues(stream) == inner' = stream.inner /\ buffer' = stream.buffer /\ state' = stream.state

ReadStream(n) ==
    LET taking == Taken(kind, Current, n)
    IN  /\ kind # "form" /\ ~ended
        /\ Continues(taking.stream)
        /\ delivered' = delivered \o taking.bytes /\ ended' = taking.short
        /\ UNCHANGED <<kind, data>>

\* peek() of the Base64 streams makes a block, of which it takes nothing.
PeekStream ==
    LET step == StepOf(kind, Current)
    IN  /\ kind \in {"base64", "decode64"} /\ buffer = <<>> /\ ~ended
        /\ step.value = Again /\ Continues(step.stream)
        /\ UNCHANGED <<kind, data, delivered, ended>>

-----------------------------------------------------------------------------
(* Forms *)

\* DecodeURIComponent: the whole of a stream, as ReadAsVector reads it; it gives no more bytes
\* than it takes.
DecodeURIComponent(bytes) == Taken("decodeUri", Stream(bytes, <<>>, "Normal"), Len(bytes) + 1).bytes

\* encodeFormComponent
FormComponent(bytes) ==
    FlattenSeq([n \in DOMAIN bytes |->
        CASE IsUnreserved(bytes[n]) \/ bytes[n] = 42 -> <<bytes[n]>>
          [] bytes[n] = Space -> <<Plus>>
          [] OTHER -> <<Percent, HexDigit(bytes[n] \div 16), HexDigit(bytes[n] % 16)>>])

\* buildFormBody
Ampersand == 38
Equals == 61
FormBody(form) ==
    FlattenSeq([n \in DOMAIN form |->
        (IF n = 1 THEN <<>> ELSE <<Ampersand>>) \o FormComponent(form[n].key)
            \o (IF form[n].value = <<>> THEN <<>> ELSE <<Equals>> \o FormComponent(form[n].value))])

Pair(key, value) == [key |-> key, value |-> value]
PlacesOf(char, bytes) == {n \in DOMAIN bytes : bytes[n] = char}

\* Mutant of QueryPair: an "=" is looked for without regard to the next "&".
BugAnyEquals(piece, query) ==
    IF PlacesOf(Equals, query) = {} THEN Pair(DecodeURIComponent(piece), <<>>)
    ELSE LET n == Min(PlacesOf(Equals, query))
         IN  Pair(DecodeURIComponent(First(n - 1, query)), DecodeURIComponent(Behind(n, piece)))

QueryPair(piece, query) ==
    IF PlacesOf(Equals, piece) = {} THEN Pair(DecodeURIComponent(piece), <<>>)
    ELSE LET n == Min(PlacesOf(Equals, piece))
         IN  Pair(DecodeURIComponent(First(n - 1, piece)), DecodeURIComponent(Behind(n, piece)))

\* ParseQueryParameters
QueryParameters[query \in Seq(0..255)] ==
    LET ends == PlacesOf(Ampersand, query)
    IN  IF query = <<>> THEN <<>>
        ELSE IF ends = {} THEN <<QueryPair(query, query)>>
        ELSE <<QueryPair(First(Min(ends) - 1, query), query)>> \o QueryParameters[Behind(Min(ends), query)]

-----------------------------------------------------------------------------
(* What is encoded and decoded *)

\* Three bytes are a number of 24 bits, and its four digits to the base 64 are the characters.
Block(bytes) ==
    LET second == IF Len(bytes) > 1 THEN bytes[2] ELSE 0
        third == IF Len(bytes) > 2 THEN bytes[3] ELSE 0
        number == (bytes[1] * 256 + second) * 256 + third
        high == number \div 64
    IN  <<(high \div 64) \div 64, (high \div 64) % 64,
          IF Len(bytes) > 1 THEN high % 64 ELSE Padding,
          IF Len(bytes) > 2 THEN number % 64 ELSE Padding>>

Base64[bytes \in Seq(0..255)] ==
    IF bytes = <<>> THEN <<>> ELSE Block(First(3, bytes)) \o Base64[Behind(3, bytes)]

PercentEncoding(bytes) ==
    FlattenSeq([n \in DOMAIN bytes |->
        IF IsUnreserved(bytes[n]) THEN <<bytes[n]>>
        ELSE <<Percent, HexDigit(bytes[n] \div 16), HexDigit(bytes[n] % 16)>>])

TranscodingInit ==
    /\ \E s \in Sources :
        /\ kind = s.kind /\ data = s.data
        /\ inner = CASE s.kind = "decode64" -> Base64[s.data]
                     [] s.kind = "decodeUri" -> PercentEncoding(s.data)
                     [] s.kind = "form" -> FormBody(s.data)
                     [] OTHER -> s.data
    /\ buffer = <<>> /\ state = "Normal" /\ delivered = <<>> /\ ended = FALSE

TranscodingNext == (\E n \in 1..MaxTake : ReadStream(n)) \/ PeekStream

TranscodingSpec == TranscodingInit /\ [][TranscodingNext]_transcodingVars

-----------------------------------------------------------------------------
(* Properties *)

Expected ==
    CASE kind = "base64" -> Base64[data]
      [] kind = "uri" -> PercentEncoding(data)
      [] OTHER -> data

\* However many bytes each read asks for, an encoder gives the encoding of its data and a
\* decoder gives the data back, to the last byte: the blocks and escapes that a read ends in
\* the middle of are neither lost nor given twice.  (With padding, and for percent encoding
\* below 128: the others lose characters.)
StreamIsExact == kind # "form" => IsPrefix(delivered, Expected) /\ (ended => delivered = Expected)

\* A form comes back as it was from the body that is built of it, whatever characters of the
\* syntax its keys and values hold; only an empty pair at the end is lost.
FormIsReadBack ==
    kind = "form" /\ data # <<>> /\ Last(data) # Pair(<<>>, <<>>) => QueryParameters[inner] = data

\* The encoders and decoders give every byte once, whatever each read asks for, and a form
\* comes back as it was from the body built of it.
StreamsAreExact == StreamIsExact /\ FormIsReadBack
=============================================================================
