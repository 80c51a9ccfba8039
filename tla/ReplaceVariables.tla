-------------------------- MODULE ReplaceVariables --------------------------
(***************************************************************************)
(* The response filter that puts values in for the tokens of a body         *)
(* (routing/ReplaceVariables.cpp): whether it is applied, and the byte      *)
(* source that it puts in front of the body.                                *)
(*                                                                          *)
(* A byte is a letter of a small alphabet.  The body is read in blocks, and *)
(* may have no bytes for now; its reader reads, peeks and asks in any       *)
(* order.                                                                   *)
(***************************************************************************)
EXTENDS Integers, FiniteSetsExt, SequencesExt

CONSTANTS
    Cases,          \* a response, its body and the options of the filter (environment)
    Values,         \* what the resolver knows: a set of [key, value] (environment)
    BlockSize,      \* bytes of readBuffer
    MaxRead         \* bytes that are read or peeked at a time (environment bound)

Text == Seq(STRING)
ASSUME CasesAssumption ==
    /\ \A c \in Cases :
        /\ c.body \in Text
        /\ c.options \in [prefix : Text, suffix : Text, maxTokenBytes : Nat,
                         replaceWithEmpty : BOOLEAN, restrictToText : BOOLEAN]
        /\ c.response \in [status : STRING, contentEncoding : STRING, transferEncoding : STRING,
                          contentType : STRING, contentLength : BOOLEAN]
    /\ Values \subseteq [key : Text, value : Text] /\ MaxRead \in Nat

VARIABLES
    options, text,      \* options_, and the bytes of the body
    page,               \* status and headers of the response
    filtered,           \* the response has been wrapped
    position,           \* how many bytes of the body have been read
    output,             \* output_ from outputOffset_ on
    readingToken,       \* parserState_ is ReadToken
    prefixMatch, tokenBuffer, suffixMatch,
    streamExhausted,
    result              \* history: the bytes that the reader has been given

parserVars == <<output, readingToken, prefixMatch, tokenBuffer, suffixMatch>>
replaceVars == <<options, text, page, filtered, position, parserVars, streamExhausted, result>>

-----------------------------------------------------------------------------
(* The filter *)

\* What IsTextLikeContentType takes for text: no type, text/*, JSON, XML and JavaScript, and
\* what ends in +json or +xml, in any case, without its parameters
TextTypes == {"absent", "blank", "text", "application", "suffix"}

StatusHasNoBody(status) == status \in {"1xx", "204", "304"}

\* shouldApplyFilter: what is encoded, or is no text, is left alone.
ShouldApply(r, o) ==
    /\ o.prefix # <<>> /\ o.suffix # <<>> /\ o.maxTokenBytes > 0
    /\ ~StatusHasNoBody(r.status)
    /\ r.contentEncoding \in {"absent", "blank", "identity"}
    /\ r.transferEncoding \in {"absent", "chunked"}
    /\ o.restrictToText => r.contentType \in TextTypes

\* Mutant of Rewritten: the length of the body before stays.
BugKeepsLength(r) == [r EXCEPT !.transferEncoding = "chunked"]

\* The headers of the wrapped response
Rewritten(r) == [r EXCEPT !.contentLength = FALSE, !.transferEncoding = "chunked"]

-----------------------------------------------------------------------------
(* The scanner *)

Scanner(out, reading, prefix, token, suffix) ==
    [out |-> out, reading |-> reading, prefix |-> prefix, token |-> token, suffix |-> suffix]

Found(key) == {v \in Values : v.key = key}

\* closeToken, emitMissingToken: what stands for a token
Replacement(key) ==
    IF Found(key) # {} THEN (CHOOSE v \in Found(key) : TRUE).value
    ELSE IF options.replaceWithEmpty THEN <<>>
    ELSE options.prefix \o key \o options.suffix

Closed(s) == Scanner(s.out \o Replacement(s.token), FALSE, s.prefix, <<>>, <<>>)

\* abortTokenAsLiteral
Aborted(s) ==
    Scanner(s.out \o options.prefix \o s.token \o s.suffix, FALSE, s.prefix, <<>>, <<>>)

\* Mutant of WindowFrom: when a match fails, all of it goes out.
BugForgetsWindow(window) == IF IsPrefix(window, options.prefix) THEN 1 ELSE Len(window) + 1

\* prefixMatchesCurrentWindow: where the rest of the window begins that may still become
\* the prefix
WindowFrom(window) ==
    Min({n \in 1..Len(window) + 1 : IsPrefix(SubSeq(window, n, Len(window)), options.prefix)})

\* consumeLiteralByte
LiteralByte(s, byte) ==
    LET window == Append(s.prefix, byte)
        from   == WindowFrom(window)
        out    == s.out \o SubSeq(window, 1, from - 1)
        kept   == SubSeq(window, from, Len(window))
    IN  IF kept = options.prefix THEN Scanner(out, TRUE, <<>>, <<>>, <<>>)
        ELSE Scanner(out, FALSE, kept, s.token, s.suffix)

\* consumeTokenByte: the suffix so far and this byte, or else this byte alone may become the
\* suffix; the size is looked at after every byte that does not close the token.
TokenByte(s, byte) ==
    LET matches == Append(s.suffix, byte)
        token   == IF IsPrefix(matches, options.suffix) THEN s.token ELSE s.token \o s.suffix
        begins  == byte = options.suffix[1]
        next    == IF IsPrefix(matches, options.suffix)
                   THEN Scanner(s.out, TRUE, s.prefix, token, matches)
                   ELSE IF begins THEN Scanner(s.out, TRUE, s.prefix, token, <<byte>>)
                   ELSE Scanner(s.out, TRUE, s.prefix, Append(token, byte), <<>>)
    IN  IF next.suffix = options.suffix THEN Closed(next)
        ELSE IF Len(next.token) + Len(next.suffix) > options.maxTokenBytes THEN Aborted(next)
        ELSE next

ConsumeByte(s, byte) == IF s.reading THEN TokenByte(s, byte) ELSE LiteralByte(s, byte)

\* flushPendingParserState
Flushed(s) ==
    LET literal == IF s.reading THEN Aborted(s) ELSE s
    IN  Scanner(literal.out \o literal.prefix, FALSE, <<>>, <<>>, <<>>)

Now == Scanner(output, readingToken, prefixMatch, tokenBuffer, suffixMatch)

-----------------------------------------------------------------------------
(* The byte source *)

\* Nothing has been read.
Unread ==
    /\ position = 0 /\ output = <<>> /\ readingToken = FALSE
    /\ prefixMatch = <<>> /\ tokenBuffer = <<>> /\ suffixMatch = <<>>
    /\ streamExhausted = FALSE /\ result = <<>>

ReplaceInit ==
    /\ \E c \in Cases :
        /\ options = c.options /\ text = c.body
        /\ filtered = ShouldApply(c.response, c.options)
        /\ page = IF filtered THEN Rewritten(c.response) ELSE c.response
    /\ Unread

\* The scanner after each number of bytes more
Scanned ==
    LET scanned[n \in 0..(Len(text) - position)] ==
            IF n = 0 THEN Now ELSE ConsumeByte(scanned[n - 1], text[position + n])
    IN  scanned

\* fillOutput: blocks are read until the output has enough bytes, the body has none for now
\* or it has ended.  A filling is the state it leads to and the bytes it has taken.
Filling(scanner, read, exhausted) == [scanner |-> scanner, taken |-> read, exhausted |-> exhausted]

Fillings(target) ==
    LET left == Len(text) - position
        enough(n) == Len(Scanned[n].out) >= target
        reached[n \in 0..left] ==
            n = 0 \/ \E size \in 1..BlockSize : size <= n /\ reached[n - size] /\ ~enough(n - size)
    IN  IF streamExhausted THEN {Filling(Now, position, TRUE)}
        ELSE {Filling(Scanned[n], position + n, FALSE) : n \in {m \in 0..left : reached[m]}}
                \cup {Filling(Flushed(Scanned[n]), position + n, TRUE) :
                        n \in {m \in {left} : reached[m] /\ ~enough(m)}}

Fill(target) ==
    \E f \in Fillings(target) :
        /\ position' = f.taken /\ streamExhausted' = f.exhausted
        /\ readingToken' = f.scanner.reading /\ prefixMatch' = f.scanner.prefix
        /\ tokenBuffer' = f.scanner.token /\ suffixMatch' = f.scanner.suffix
        /\ output' = f.scanner.out

Upto(n, bytes) == SubSeq(bytes, 1, IF n < Len(bytes) THEN n ELSE Len(bytes))

Read(n) ==
    /\ filtered
    /\ \E f \in Fillings(n) :
        LET copied == Upto(n, f.scanner.out)
        IN  /\ result' = result \o copied
            /\ output' = SubSeq(f.scanner.out, Len(copied) + 1, Len(f.scanner.out))
            /\ position' = f.taken /\ streamExhausted' = f.exhausted
            /\ readingToken' = f.scanner.reading /\ prefixMatch' = f.scanner.prefix
            /\ tokenBuffer' = f.scanner.token /\ suffixMatch' = f.scanner.suffix
    /\ UNCHANGED <<options, text, page, filtered>>

\* peek() fills like read(), and available() reads when it has nothing to tell of.
Peek(n) ==
    /\ filtered /\ Fill(n)
    /\ UNCHANGED <<options, text, page, filtered, result>>
Ask ==
    /\ filtered /\ output = <<>> /\ Fill(1)
    /\ UNCHANGED <<options, text, page, filtered, result>>

\* The body itself is read when the filter is not applied.
ReadBody(n) ==
    /\ ~filtered
    /\ result' = result \o Upto(n, SubSeq(text, position + 1, Len(text)))
    /\ position' = Len(result') /\ streamExhausted' = (Len(result') = Len(text))
    /\ UNCHANGED <<options, text, page, filtered, parserVars>>

ReplaceNext == (\E n \in 1..MaxRead : Read(n) \/ Peek(n) \/ ReadBody(n)) \/ Ask
ReplaceSpec == ReplaceInit /\ [][ReplaceNext]_replaceVars

-----------------------------------------------------------------------------
(* What the filter promises *)

Occurs(word, bytes, n) ==
    /\ n + Len(word) <= Len(bytes) + 1
    /\ SubSeq(bytes, n, n + Len(word) - 1) = word
Occurrences(word, bytes) == {n \in 1..(Len(bytes) + 1) : Occurs(word, bytes, n)}

\* Where the token ends that begins at n, if it does
TokenEnds(bytes, n) == {m \in Occurrences(options.suffix, bytes) : m >= n}

\* What becomes of the bytes from each place on: a token lasts from a prefix to the next
\* suffix.  One that is too long for its buffer is no token, as far as it was read.
Substituted(bytes) ==
    LET token(n) == n + Len(options.prefix)
        room == options.maxTokenBytes - Len(options.suffix) + 1
        end(n) == Min(TokenEnds(bytes, token(n)))
        substituted[n \in 1..(Len(bytes) + 1)] ==
            IF n = Len(bytes) + 1 THEN <<>>
            ELSE IF ~Occurs(options.prefix, bytes, n) THEN <<bytes[n]>> \o substituted[n + 1]
            ELSE IF TokenEnds(bytes, token(n)) # {} /\ end(n) - token(n) <= room
                 THEN Replacement(SubSeq(bytes, token(n), end(n) - 1))
                        \o substituted[end(n) + Len(options.suffix)]
            ELSE IF token(n) + options.maxTokenBytes <= Len(bytes)
                 THEN SubSeq(bytes, n, token(n) + options.maxTokenBytes)
                        \o substituted[token(n) + options.maxTokenBytes + 1]
            ELSE SubSeq(bytes, n, Len(bytes))
    IN  substituted
Substitution(bytes) == Substituted(bytes)[1]

\* A suffix of which a part that has been matched may hold the beginning of another match
Overlapping == \E n \in 2..(Len(options.suffix) - 1) : \E k \in 1..(n - 1) :
    SubSeq(options.suffix, 1, k) = SubSeq(options.suffix, n - k + 1, n)

-----------------------------------------------------------------------------
(* Properties *)

\* However the body is cut into blocks, and whatever is read, peeked and asked in between,
\* what the reader gets is the text with its tokens replaced: no byte of a prefix, a token or
\* a suffix that was only begun is lost, doubled or moved.  The exception is a suffix that
\* overlaps itself, whose occurrence may be missed; then a text is at least left as it is
\* when there is nothing to replace.
TextIsSubstituted ==
    LET all == result \o Flushed(Now).out
        read == SubSeq(text, 1, position)
    IN  filtered =>
            /\ ~Overlapping => all = Substitution(read)
            /\ (\A v \in Values : Occurrences(v.key, read) = {}) /\ ~options.replaceWithEmpty =>
                    all = read
            /\ streamExhausted => position = Len(text) /\ all = result \o output

\* The headers that go out are true of the bytes that go out, although they were written
\* for the body as it was: a length is that of the body that is read, and neither an encoded
\* body nor one that is no text is changed.
HeadersFitTheBody ==
    /\ page.contentLength /\ streamExhausted /\ output = <<>> => Len(result) = Len(text)
    /\ page.contentEncoding = "gzip" \/ (options.restrictToText /\ page.contentType = "binary") =>
        IsPrefix(result, text)
=============================================================================
