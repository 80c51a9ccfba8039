------------------------- MODULE ResponseStreamProofs -------------------------
(***************************************************************************)
(* For every size of chunk, buffer, head and body: the receiver can follow a *)
(* response, and has all of it when it is taken for sent.  The argument is a *)
(* simulation: the position of the stream in its framing is the position of  *)
(* the receiver in its reading.                                              *)
(*                                                                           *)
(* For every text, delimiters and values, and however it is cut and read:    *)
(* the filter gives the text with its tokens replaced.  The invariant is     *)
(* that what has been given is what the reference has for the text up to     *)
(* some place, from which on the scanner holds the bytes back.               *)
(*                                                                           *)
(* For all data, and however many bytes each read asks for: the encoders and *)
(* decoders give every byte once.  The invariant is that what was delivered  *)
(* and what the stream still gives, from its buffer, its state and the bytes *)
(* it has left, are together what is expected.  A form comes back from its   *)
(* body by induction on its pairs.                                           *)
(***************************************************************************)
EXTENDS ResponseStream, ReplaceVariables, Transcoding, DataLemmas

Streams == [state : {"Header", "Body", "Trailer", "Final", "Done"}, chunkRemaining : Nat,
            currentChunkIsLast : BOOLEAN, header : Nat, headerPos : Nat, trailerPos : Nat,
            finalPos : Nat]

Typed ==
    /\ response.total \in Nat /\ (~response.hasBody => response.total = 0)
    /\ produced \in Nat /\ taken \in Nat /\ taken <= produced /\ produced <= response.total
    /\ ~open => produced = response.total
    /\ head \in Nat /\ announced \in Nat
    /\ stream \in Streams
    /\ client \in [at : Places, left : Int, got : Nat]

\* The receiver c is where the stream is.
InStep(s, c) ==
    /\ c.got = taken
    /\ s.state = "Header" =>
         \/ s.header = 0 /\ c.at = "size"
         \/ /\ s.header > 0 /\ s.header = s.chunkRemaining
            /\ \/ s.headerPos = 0 /\ c.at = "size"
               \/ s.headerPos = 1 /\ c.at = "sizeCR" /\ c.left = s.header
               \/ s.headerPos = 2 /\ c.at = "sizeLF" /\ c.left = s.header
    /\ s.state = "Body" => s.chunkRemaining > 0 /\ c.at = "chunk"
                           /\ c.left = s.chunkRemaining
    /\ s.state = "Trailer" => \/ s.trailerPos = 0 /\ c.at = "chunkCR"
                              \/ s.trailerPos = 1 /\ c.at = "chunkLF"
    /\ s.state = "Final" =>
         /\ ~open /\ taken = response.total
         /\ \/ s.finalPos = 0 /\ c.at = "size"
            \/ s.finalPos = 1 /\ c.at = "sizeCR" /\ c.left = 0
            \/ s.finalPos = 2 /\ c.at = "sizeLF" /\ c.left = 0
            \/ s.finalPos = 3 /\ c.at = "lastCR"
            \/ s.finalPos = 4 /\ c.at = "lastLF"
    /\ s.state = "Done" => ~open /\ taken = response.total /\ c.at = "end"

\* What was decided when the response source was built
Decided ==
    /\ body \in {"absent", "plain", "chunked"}
    /\ body = "absent"  => response.bodyless \/ ~response.hasBody
    /\ body = "plain"   => ~chunked /\ ~response.bodyless
    /\ body = "chunked" => chunked /\ ~response.bodyless

\* Before the body
AtHead == /\ client.at = "head" /\ client.got = 0 /\ taken = 0
          /\ stream.state = "Header" /\ stream.header = 0
          /\ reader # "over"

\* In the body
AtBody ==
    /\ body = "absent" =>
         /\ client.at \in {"end", "length", "size"} /\ client.got = 0
         /\ (response.bodyless \/ (~chunked /\ announced = response.total))
                => client.at = "end"
    /\ body = "plain" /\ announced = response.total =>
         /\ client.got = taken /\ client.left = response.total - taken
         /\ client.at = IF taken = response.total THEN "end" ELSE "length"
    /\ body = "chunked" => InStep(stream, client)
    /\ reader = "over" /\ body = "plain" => taken = response.total
    /\ reader = "over" /\ body = "chunked" => stream.state = "Done"

Inv ==
    /\ Typed
    /\ ~built => head > 0 /\ reader = "ask"
    /\ built => Decided
    /\ head > 0 => AtHead
    /\ head = 0 => AtBody

LEMMA InvInit == Init => Inv
<1> SUFFICES ASSUME Init PROVE Inv
    OBVIOUS
<1>1. response \in Responses /\ response.total \in Nat /\ (~response.hasBody => response.total = 0)
    BY SizesAssumption DEF Init, Responses
<1>2. Typed
    <2>1. stream \in Streams
        BY DEF Init, Streams
    <2>2. ~open => produced = response.total
        BY <1>1 DEF Init
    <2> QED
        BY <1>1, <2>1, <2>2, SizesAssumption DEF Init, Typed, Places
<1>3. AtHead
    BY DEF Init, AtHead
<1> QED
    BY <1>2, <1>3, SizesAssumption DEF Init, Inv

\* A header is prepared in step with the receiver, who waits for a size.
LEMMA PreparedInStep ==
    ASSUME Typed, NEW s \in Streams, s.state = "Header", s.header = 0,
           NEW c, c.at = "size", c.got = taken
    PROVE  Prepared(s) \in Streams /\ InStep(Prepared(s), c)
<1> DEFINE n == Lesser(Ready, ChunkSize)
<1>2. CASE Ready > 0
    <2>1. n \in Nat /\ n > 0
        BY <1>2, SizesAssumption DEF Ready, Lesser, Typed
    <2>2. Prepared(s) = [s EXCEPT !.chunkRemaining = n, !.currentChunkIsLast = Ready <= ChunkSize,
                                  !.header = n, !.headerPos = 0]
        BY <1>2 DEF Prepared
    <2>3. (Ready <= ChunkSize) \in BOOLEAN
        OBVIOUS
    <2> HIDE DEF n
    <2>4. /\ Prepared(s) \in Streams
          /\ Prepared(s).state = "Header" /\ Prepared(s).header = n
          /\ Prepared(s).chunkRemaining = n /\ Prepared(s).headerPos = 0
        BY <2>1, <2>2, <2>3 DEF Streams
    <2> QED
        BY <2>1, <2>4 DEF InStep
<1>3. CASE ~(Ready > 0) /\ Exhausted
    <2>1. Prepared(s) = [s EXCEPT !.state = "Final", !.finalPos = 0, !.currentChunkIsLast = FALSE]
        BY <1>3 DEF Prepared
    <2>2. /\ Prepared(s) \in Streams
          /\ Prepared(s).state = "Final" /\ Prepared(s).finalPos = 0
        BY <2>1 DEF Streams
    <2>3. ~open /\ taken = response.total
        BY <1>3 DEF Exhausted, Typed
    <2> QED
        BY <2>2, <2>3 DEF InStep
<1>4. CASE ~(Ready > 0) /\ ~Exhausted
    BY <1>4 DEF Prepared, InStep
<1> QED
    BY <1>2, <1>3, <1>4

LEMMA SettledInStep ==
    ASSUME Typed, InStep(stream, client)
    PROVE  Settled \in Streams /\ InStep(Settled, client)
<1>1. CASE stream.state = "Header" /\ stream.header = 0
    <2>1. client.at = "size" /\ client.got = taken
        BY <1>1 DEF InStep
    <2> QED
        BY <1>1, <2>1, PreparedInStep DEF Settled, Typed
<1>2. CASE ~(stream.state = "Header" /\ stream.header = 0)
    BY <1>2 DEF Settled, Typed
<1> QED
    BY <1>1, <1>2

-----------------------------------------------------------------------------
(* The source and the decision on the framing *)

LEMMA SourceStep ==
    ASSUME Inv, Produces \/ Ends \/ Breaks
    PROVE  Inv'
<1>1. UNCHANGED <<response, taken, framing, head, stream, pipeline, client>>
    BY DEF Produces, Ends, Breaks
<1>2. ~open => ~open' /\ produced' = produced
    BY DEF Produces, Ends, Breaks, Alive
<1>3. Typed'
    <2>1. (~open => produced = response.total)'
        BY <1>1 DEF Produces, Ends, Breaks, Alive, Inv, Typed
    <2>2. produced' \in Nat /\ taken <= produced' /\ produced' <= response.total
        BY DEF Produces, Ends, Breaks, Inv, Typed
    <2> QED
        BY <1>1, <2>1, <2>2 DEF framing, Inv, Typed
<1>4. InStep(stream, client) => InStep(stream, client)'
    BY <1>1, <1>2 DEF InStep
<1>5. AtHead => AtHead'
    BY <1>1 DEF AtHead, pipeline
<1>6. AtBody => AtBody'
    BY <1>1, <1>4 DEF AtBody, framing, pipeline
<1>7. Decided => Decided'
    BY <1>1 DEF Decided, framing
<1> QED
    BY <1>1, <1>3, <1>5, <1>6, <1>7 DEF Inv, framing, pipeline

LEMMA BuildStep ==
    ASSUME Inv, Build
    PROVE  Inv'
<1>1. UNCHANGED <<source, taken, head, stream, pipeline, client>> /\ head > 0 /\ built'
    BY DEF Build, Inv
<1>2. announced' \in Nat
    BY DEF Build, Inv, Typed, Ready
<1>3. Typed'
    <2>1. UNCHANGED <<response, produced, open, taken, head, stream, client>>
        BY <1>1 DEF source
    <2>2. (~open => produced = response.total)'
        BY <2>1 DEF Inv, Typed
    <2> QED
        BY <1>2, <2>1, <2>2 DEF Inv, Typed
<1>4. Decided'
    BY <1>1 DEF Build, Decided, source
<1>5. AtHead'
    BY <1>1 DEF Inv, AtHead, pipeline
<1> QED
    BY <1>1, <1>3, <1>4, <1>5 DEF Inv, pipeline, Typed

-----------------------------------------------------------------------------
(* The pipeline asks *)

\* A step that reads nothing and leaves the stream in step with the receiver
LEMMA AskStep ==
    ASSUME Inv, built, AskHead \/ AskPlain \/ AskChunked \/ AskExhausted \/ ReadsShort
    PROVE  Inv'
<1>1. UNCHANGED <<source, framing, taken, head, client>>
    BY DEF AskHead, AskPlain, AskChunked, AskExhausted, ReadsShort, Rest
<1>2. AskChunked \/ stream' = stream
    BY DEF AskHead, AskPlain, AskExhausted, ReadsShort
<1>3. AskChunked => head = 0 /\ body = "chunked" /\ stream' = Settled
    BY DEF AskChunked
<1>4. head = 0 /\ body = "chunked" => stream' \in Streams /\ InStep(stream', client)
    BY <1>2, <1>3, SettledInStep DEF Inv, AtBody, Typed
<1>5. stream' \in Streams
    BY <1>2, <1>3, <1>4 DEF Inv, Typed
<1>6. Typed'
    <2>1. UNCHANGED <<response, produced, open, taken, head, announced, client>>
        BY <1>1 DEF source, framing
    <2>2. (~open => produced = response.total)'
        BY <2>1 DEF Inv, Typed
    <2> QED
        BY <1>5, <2>1, <2>2 DEF Inv, Typed
<1>7. Decided'
    BY <1>1 DEF Inv, Decided, source, framing
<1>8. head > 0 => AtHead'
    BY <1>1, <1>2, <1>3 DEF Inv, AtHead, AskHead, AskPlain, AskExhausted, ReadsShort, WillRead
<1>9. InStep(stream', client) => InStep(stream, client)'
    BY <1>1 DEF InStep, source
<1>10. reader' = "over" =>
         /\ head = 0 /\ stream' = stream
         /\ body = "plain" => taken = response.total
         /\ body = "chunked" => stream.state = "Done"
    BY DEF AskHead, AskPlain, AskChunked, AskExhausted, ReadsShort, WillRead, Exhausted, Inv, Typed
<1>11. head = 0 => AtBody'
    BY <1>1, <1>4, <1>9, <1>10 DEF Inv, AtBody, framing, source
<1>12. head' = head /\ head \in Nat
    BY <1>1 DEF Inv, Typed
<1> QED
    BY <1>1, <1>6, <1>7, <1>8, <1>11, <1>12 DEF Inv, framing

-----------------------------------------------------------------------------
(* The pipeline reads *)

\* What a byte leaves alone
LEMMA ByteTyped ==
    ASSUME Inv, Rest, stream' \in Streams, taken' \in Nat, taken' <= produced, head' \in Nat,
           client' \in [at : Places, left : Int, got : Nat]
    PROVE  Typed'
<1>1. UNCHANGED <<response, produced, open, announced>>
    BY DEF Rest, source, framing
<1>2. (~open => produced = response.total)'
    BY <1>1 DEF Inv, Typed
<1> QED
    BY <1>1, <1>2 DEF Inv, Typed

LEMMA HeadByteStep ==
    ASSUME Inv, HeadByte
    PROVE  Inv'
<1>1. /\ head \in Nat /\ head > 0 /\ head' = head - 1 /\ AtHead /\ built
      /\ UNCHANGED <<source, framing, taken, stream>>
    BY DEF HeadByte, Rest, Reading, Inv, Typed
<1>2. /\ client \in [at : Places, left : Int, got : Nat] /\ client.at = "head" /\ client.got = 0
      /\ reader' \in {"ask", "read"}
    BY <1>1 DEF Inv, Typed, AtHead, HeadByte, OneMore
<1>3. Decided /\ Decided'
    BY <1>1 DEF Inv, Decided, source, framing
<1>4. CASE head > 1
    <2>1. client' = client
        BY <1>4 DEF HeadByte
    <2>2. Typed'
        BY <1>1, <1>2, <2>1, ByteTyped DEF HeadByte, Inv, Typed
    <2>3. AtHead'
        BY <1>1, <1>2, <2>1 DEF AtHead
    <2> QED
        BY <1>1, <1>3, <1>4, <2>2, <2>3 DEF Inv, framing
<1>5. CASE head = 1
    <2>1. client' = AfterHead
        BY <1>5 DEF HeadByte
    <2>2. /\ response.bodyless => client' = [client EXCEPT !.at = "end"]
          /\ ~response.bodyless /\ chunked => client' = [client EXCEPT !.at = "size"]
          /\ ~response.bodyless /\ ~chunked =>
                client' = [client EXCEPT !.at = IF announced = 0 THEN "end" ELSE "length",
                                         !.left = announced]
        BY <2>1 DEF AfterHead
    <2>3. announced \in Nat /\ announced \in Int /\ taken \in Nat /\ taken = 0 /\ taken <= produced
          /\ stream \in Streams /\ stream.state = "Header" /\ stream.header = 0
        BY <1>1 DEF Inv, Typed, AtHead
    <2>4. /\ client' \in [at : Places, left : Int, got : Nat] /\ client'.got = 0
          /\ response.bodyless => client'.at = "end"
          /\ ~response.bodyless /\ chunked => client'.at = "size"
          /\ ~response.bodyless /\ ~chunked =>
                /\ client'.at = IF announced = 0 THEN "end" ELSE "length"
                /\ client'.left = announced
        BY <1>2, <2>2, <2>3 DEF Places
    <2>5. Typed'
        BY <1>1, <2>3, <2>4, <1>5, ByteTyped DEF HeadByte
    <2>6. UNCHANGED <<response, produced, open, built, chunked, announced, body, taken, stream>>
        BY <1>1 DEF source, framing
    <2>7. ~response.hasBody => response.total = 0
        BY DEF Inv, Typed
    <2>8. AtBody'
        <3>1. (body = "absent" =>
                 /\ client.at \in {"end", "length", "size"} /\ client.got = 0
                 /\ (response.bodyless \/ (~chunked /\ announced = response.total))
                        => client.at = "end")'
            BY <1>3, <2>4, <2>6, <2>7 DEF Decided
        <3>2. (body = "plain" /\ announced = response.total =>
                 /\ client.got = taken /\ client.left = response.total - taken
                 /\ client.at = IF taken = response.total THEN "end" ELSE "length")'
            BY <1>3, <2>3, <2>4, <2>6 DEF Decided
        <3>3. (body = "chunked" => InStep(stream, client))'
            BY <1>3, <2>3, <2>4, <2>6 DEF Decided, InStep
        <3> QED BY <1>2, <3>1, <3>2, <3>3 DEF AtBody
    <2> QED
        BY <1>1, <1>3, <1>5, <2>5, <2>6, <2>8 DEF Inv
<1> QED
    BY <1>1, <1>4, <1>5

LEMMA PlainByteStep ==
    ASSUME Inv, PlainByte
    PROVE  Inv'
<1>1. /\ head = 0 /\ head' = 0 /\ body = "plain" /\ AtBody
      /\ UNCHANGED <<response, produced, open, built, chunked, announced, body, stream>>
      /\ taken' = taken + 1 /\ client' = Takes(Data(taken + 1))
      /\ reader' \in {"ask", "read"}
    BY DEF PlainByte, Gives, OneMore, Rest, source, framing, Inv, Typed
<1>2. /\ client \in [at : Places, left : Int, got : Nat] /\ taken \in Nat /\ taken' <= produced
      /\ response.total \in Nat /\ produced <= response.total /\ produced \in Nat
      /\ stream \in Streams
    BY <1>1 DEF PlainByte, Ready, Inv, Typed
<1>3. CASE announced = response.total
    <2>1. client.at = "length" /\ client.got = taken /\ client.left = response.total - taken
        BY <1>1, <1>2, <1>3 DEF AtBody
    <2>2. client' = [at |-> IF client.left = 1 THEN "end" ELSE client.at,
                     left |-> client.left - 1, got |-> client.got + 1]
        BY <1>1, <2>1 DEF Takes, TakesData
    <2>3. client' \in [at : Places, left : Int, got : Nat]
        BY <1>1, <1>2, <2>1, <2>2 DEF Places
    <2>4. Typed'
        BY <1>1, <1>2, <2>3, ByteTyped DEF PlainByte
    <2>5. AtBody'
        BY <1>1, <1>2, <2>1, <2>2 DEF AtBody
    <2> QED
        BY <1>1, <2>4, <2>5 DEF Inv, Decided
<1>4. CASE announced # response.total
    <2>1. client' \in [at : Places, left : Int, got : Nat]
        <3>1. /\ Data(taken + 1)[1] # "size"
              /\ Data(taken + 1) # CR /\ Data(taken + 1) # LF
            BY DEF Data, CR, LF
        <3>2. \/ client' = TakesData("end", Data(taken + 1))
              \/ client' = TakesData("chunkCR", Data(taken + 1))
              \/ client' = Confused
            BY <1>1, <3>1 DEF Takes, Expects
        <3> QED BY <1>2, <3>2 DEF TakesData, Confused, Places
    <2>2. Typed'
        BY <1>1, <1>2, <2>1, ByteTyped DEF PlainByte
    <2>3. AtBody'
        BY <1>1, <1>4 DEF AtBody
    <2> QED
        BY <1>1, <2>2, <2>3 DEF Inv, Decided
<1> QED
    BY <1>3, <1>4

\* A byte of the framed body: it is enough that stream and receiver stay in step.
LEMMA ChunkedByteStep ==
    ASSUME Inv, ReadingChunked, OneMore, Rest, head' = head,
           stream' \in Streams, taken' \in Nat, taken' <= produced,
           client' \in [at : Places, left : Int, got : Nat], InStep(stream, client)'
    PROVE  Inv'
<1>1. /\ head = 0 /\ head' = 0 /\ body = "chunked" /\ AtBody
      /\ UNCHANGED <<response, produced, open, built, chunked, announced, body>>
      /\ reader' \in {"ask", "read"}
    BY DEF ReadingChunked, OneMore, Rest, source, framing, Inv
<1>2. Typed'
    BY <1>1, ByteTyped
<1>3. AtBody'
    BY <1>1 DEF AtBody
<1>4. Decided => Decided'
    BY <1>1 DEF Decided
<1>5. (~built => reader = "ask") /\ reader = "read"
    BY DEF Inv, ReadingChunked, Reading
<1> QED
    BY <1>1, <1>2, <1>3, <1>4, <1>5 DEF Inv

\* In the body stream and receiver are in step.
LEMMA ChunkedFacts ==
    ASSUME Inv, ReadingChunked
    PROVE  /\ Typed /\ InStep(stream, client) /\ stream \in Streams
           /\ Settled \in Streams /\ InStep(Settled, client)
           /\ client \in [at : Places, left : Int, got : Nat] /\ client.got = taken
           /\ taken \in Nat /\ taken <= produced /\ produced \in Nat
<1>1. Typed /\ InStep(stream, client)
    BY DEF Inv, AtBody, ReadingChunked
<1> QED
    BY <1>1, SettledInStep DEF Typed, InStep

LEMMA HeaderByteStep ==
    ASSUME Inv, HeaderByte
    PROVE  Inv'
<1> DEFINE s == Settled
           p == s.headerPos
<1>1. ReadingChunked /\ OneMore /\ Rest /\ head' = head /\ taken' = taken
    BY DEF HeaderByte, Gives
<1>2. /\ s \in Streams /\ InStep(s, client) /\ client \in [at : Places, left : Int, got : Nat]
      /\ taken \in Nat /\ taken <= produced /\ client.got = taken
    BY <1>1, ChunkedFacts
<1>3. s.state = "Header" /\ s.header > 0 /\ s.header \in Nat /\ s.header \in Int
    BY <1>2 DEF HeaderByte, Streams
<1>4. /\ s.header = s.chunkRemaining
      /\ \/ p = 0 /\ client.at = "size"
         \/ p = 1 /\ client.at = "sizeCR" /\ client.left = s.header
         \/ p = 2 /\ client.at = "sizeLF" /\ client.left = s.header
    BY <1>2, <1>3 DEF InStep
<1>5. /\ stream' = [s EXCEPT !.headerPos = @ + 1, !.state = IF p + 1 = 3 THEN "Body" ELSE "Header"]
      /\ client' = Takes(Header(s.header)[p + 1])
    BY DEF HeaderByte, Gives
<1> HIDE DEF s
<1>6. /\ stream' \in Streams /\ stream'.headerPos = p + 1 /\ stream'.header = s.header
      /\ stream'.chunkRemaining = s.chunkRemaining
      /\ stream'.state = IF p + 1 = 3 THEN "Body" ELSE "Header"
    <2> DEFINE q == p + 1
               at == IF q = 3 THEN "Body" ELSE "Header"
    <2>1. q \in Nat /\ at \in {"Body", "Header"}
        BY <1>4
    <2>2. stream' = [s EXCEPT !.headerPos = q, !.state = at]
        BY <1>5
    <2> HIDE DEF q, at
    <2>3. /\ stream' \in Streams /\ stream'.headerPos = q /\ stream'.header = s.header
          /\ stream'.chunkRemaining = s.chunkRemaining /\ stream'.state = at
        BY <1>2, <2>1, <2>2 DEF Streams
    <2> QED BY <2>3 DEF q, at
<1>7. CASE p = 0
    <2>1. client' = [client EXCEPT !.at = "sizeCR", !.left = s.header]
        BY <1>4, <1>5, <1>7 DEF Takes, Header, Size
    <2>2. /\ client' \in [at : Places, left : Int, got : Nat]
          /\ client'.at = "sizeCR" /\ client'.left = s.header /\ client'.got = taken
        BY <1>2, <1>3, <2>1 DEF Places
    <2>3. InStep(stream, client)'
        BY <1>1, <1>3, <1>4, <1>6, <1>7, <2>2 DEF InStep
    <2> QED
        BY <1>1, <1>2, <1>6, <2>2, <2>3, ChunkedByteStep
<1>8. CASE p = 1
    <2>1. client' = [client EXCEPT !.at = "sizeLF"]
        BY <1>4, <1>5, <1>8 DEF Takes, Expects, Header
    <2>2. /\ client' \in [at : Places, left : Int, got : Nat]
          /\ client'.at = "sizeLF" /\ client'.left = s.header /\ client'.got = taken
        BY <1>2, <1>4, <1>8, <2>1 DEF Places
    <2>3. InStep(stream, client)'
        BY <1>1, <1>3, <1>4, <1>6, <1>8, <2>2 DEF InStep
    <2> QED
        BY <1>1, <1>2, <1>6, <2>2, <2>3, ChunkedByteStep
<1>9. CASE p = 2
    <2>1. client' = [client EXCEPT !.at = "chunk"]
        BY <1>3, <1>4, <1>5, <1>9 DEF Takes, Expects, Header
    <2>2. /\ client' \in [at : Places, left : Int, got : Nat]
          /\ client'.at = "chunk" /\ client'.left = s.header /\ client'.got = taken
        BY <1>2, <1>4, <1>9, <2>1 DEF Places
    <2>3. InStep(stream, client)'
        BY <1>1, <1>3, <1>4, <1>6, <1>9, <2>2 DEF InStep
    <2> QED
        BY <1>1, <1>2, <1>6, <2>2, <2>3, ChunkedByteStep
<1> QED
    BY <1>4, <1>7, <1>8, <1>9

LEMMA BodyByteStep ==
    ASSUME Inv, BodyByte
    PROVE  Inv'
<1>1. /\ ReadingChunked /\ OneMore /\ Rest /\ head' = head /\ taken' = taken + 1
      /\ client' = Takes(Data(taken + 1)) /\ stream.state = "Body"
    BY DEF BodyByte, Gives
<1>2. /\ stream \in Streams /\ InStep(stream, client) /\ taken' \in Nat
      /\ client \in [at : Places, left : Int, got : Nat] /\ client.got = taken
    BY <1>1, ChunkedFacts
<1>3. taken' <= produced
    BY <1>1, ChunkedFacts DEF BodyByte, Ready
<1>4. stream.chunkRemaining > 0 /\ client.at = "chunk" /\ client.left = stream.chunkRemaining
      /\ stream.chunkRemaining \in Nat
    BY <1>1, <1>2 DEF InStep, Streams
<1>5. client' = [at |-> IF client.left = 1 THEN "chunkCR" ELSE "chunk",
                 left |-> client.left - 1, got |-> client.got + 1]
    BY <1>1, <1>2, <1>4 DEF Takes, TakesData
<1>6. /\ client' \in [at : Places, left : Int, got : Nat] /\ client'.got = taken'
      /\ client'.at = IF stream.chunkRemaining = 1 THEN "chunkCR" ELSE "chunk"
      /\ client'.left = stream.chunkRemaining - 1
    BY <1>1, <1>2, <1>4, <1>5 DEF Places
<1>7. /\ stream' \in Streams
      /\ stream.chunkRemaining = 1 => stream'.state = "Trailer" /\ stream'.trailerPos = 0
      /\ stream.chunkRemaining # 1 =>
            stream'.state = "Body" /\ stream'.chunkRemaining = stream.chunkRemaining - 1
    <2>1. CASE stream.chunkRemaining = 1
        <3>1. stream' = [stream EXCEPT !.chunkRemaining = 0, !.state = "Trailer", !.trailerPos = 0]
            BY <2>1 DEF BodyByte
        <3> QED BY <1>2, <2>1, <3>1 DEF Streams
    <2>2. CASE stream.chunkRemaining # 1
        <3> DEFINE n == stream.chunkRemaining - 1
        <3>1. stream' = [stream EXCEPT !.chunkRemaining = n] /\ n \in Nat
            BY <1>4, <2>2 DEF BodyByte
        <3> HIDE DEF n
        <3>2. stream' \in Streams /\ stream'.state = "Body" /\ stream'.chunkRemaining = n
            BY <1>1, <1>2, <3>1 DEF Streams
        <3> QED BY <2>2, <3>2 DEF n
    <2> QED BY <2>1, <2>2
<1>8. InStep(stream, client)'
    BY <1>4, <1>6, <1>7 DEF InStep
<1> QED
    BY <1>1, <1>2, <1>3, <1>6, <1>7, <1>8, ChunkedByteStep

LEMMA TrailerByteStep ==
    ASSUME Inv, TrailerByte
    PROVE  Inv'
<1> DEFINE n == stream.trailerPos + 1
           t == [stream EXCEPT !.trailerPos = n]
           u == [t EXCEPT !.header = 0, !.state = "Header"]
<1>1. /\ ReadingChunked /\ OneMore /\ Rest /\ head' = head /\ taken' = taken
      /\ client' = Takes(Trailer[stream.trailerPos + 1]) /\ stream.state = "Trailer"
    BY DEF TrailerByte, Gives
<1>2. /\ Typed /\ stream \in Streams /\ InStep(stream, client) /\ taken \in Nat /\ taken <= produced
      /\ client \in [at : Places, left : Int, got : Nat] /\ client.got = taken
    BY <1>1, ChunkedFacts
<1>3. stream' = IF t.trailerPos < 2 THEN t ELSE Prepared(u)
    BY DEF TrailerByte
<1>4. n \in Nat
    BY <1>2 DEF Streams
<1>5. /\ t \in Streams /\ t.trailerPos = stream.trailerPos + 1 /\ t.state = "Trailer"
      /\ u \in Streams /\ u.state = "Header" /\ u.header = 0
    <2> HIDE DEF n
    <2>1. t \in Streams /\ t.trailerPos = n /\ t.state = "Trailer"
        BY <1>1, <1>2, <1>4 DEF Streams
    <2> HIDE DEF t
    <2>2. u \in Streams /\ u.state = "Header" /\ u.header = 0
        BY <2>1 DEF Streams
    <2> QED BY <2>1, <2>2 DEF n
<1> HIDE DEF n, t, u
<1>6. CASE stream.trailerPos = 0
    <2>1. client.at = "chunkCR"
        BY <1>1, <1>2, <1>6 DEF InStep
    <2>2. client' = [client EXCEPT !.at = "chunkLF"] /\ stream' = t
        BY <1>1, <1>3, <1>5, <1>6, <2>1 DEF Takes, Expects, Trailer
    <2>3. /\ client' \in [at : Places, left : Int, got : Nat]
          /\ client'.at = "chunkLF" /\ client'.got = taken
        BY <1>2, <2>2 DEF Places
    <2>4. InStep(stream, client)'
        BY <1>1, <1>5, <1>6, <2>2, <2>3 DEF InStep
    <2> QED
        BY <1>1, <1>2, <1>5, <2>2, <2>3, <2>4, ChunkedByteStep
<1>7. CASE stream.trailerPos = 1
    <2>1. client.at = "chunkLF"
        BY <1>1, <1>2, <1>7 DEF InStep
    <2>2. client' = [client EXCEPT !.at = "size"] /\ stream' = Prepared(u)
        BY <1>1, <1>3, <1>5, <1>7, <2>1 DEF Takes, Expects, Trailer
    <2>3. /\ client' \in [at : Places, left : Int, got : Nat]
          /\ client'.at = "size" /\ client'.got = taken
        BY <1>2, <2>2 DEF Places
    <2>4. stream' \in Streams /\ InStep(stream, client)'
        <3>1. Prepared(u) \in Streams /\ InStep(Prepared(u), client')
            BY <1>2, <1>5, <2>3, PreparedInStep
        <3>2. UNCHANGED <<open, response, taken>>
            BY <1>1 DEF Rest, source
        <3> QED BY <2>2, <3>1, <3>2 DEF InStep
    <2> QED
        BY <1>1, <1>2, <2>3, <2>4, ChunkedByteStep
<1> QED
    BY <1>1, <1>2, <1>6, <1>7 DEF InStep

LEMMA FinalByteStep ==
    ASSUME Inv, FinalByte
    PROVE  Inv'
<1> DEFINE s == Settled
           p == s.finalPos
           q == p + 1
           after == IF q = 5 THEN "Done" ELSE "Final"
           next == IF p = 0 THEN "sizeCR" ELSE IF p = 1 THEN "sizeLF"
                   ELSE IF p = 2 THEN "lastCR" ELSE IF p = 3 THEN "lastLF" ELSE "end"
<1>1. ReadingChunked /\ OneMore /\ Rest /\ head' = head /\ taken' = taken
    BY DEF FinalByte, Gives
<1>2. /\ s \in Streams /\ InStep(s, client) /\ client \in [at : Places, left : Int, got : Nat]
      /\ taken \in Nat /\ taken <= produced /\ client.got = taken
    BY <1>1, ChunkedFacts
<1>3. /\ ~open /\ taken = response.total
      /\ \/ p = 0 /\ client.at = "size"
         \/ p = 1 /\ client.at = "sizeCR" /\ client.left = 0
         \/ p = 2 /\ client.at = "sizeLF" /\ client.left = 0
         \/ p = 3 /\ client.at = "lastCR"
         \/ p = 4 /\ client.at = "lastLF"
    BY <1>2 DEF FinalByte, InStep
<1>4. stream' = [s EXCEPT !.finalPos = q, !.state = after] /\ client' = Takes(FinalChunk[q])
    BY DEF FinalByte, Gives
<1>5. q \in Nat /\ after \in {"Done", "Final"} /\ next \in Places
    BY <1>3 DEF Places
<1>6. client' = IF p = 0 THEN [client EXCEPT !.at = next, !.left = 0]
                         ELSE [client EXCEPT !.at = next]
    <2>1. CASE p = 0
        <3>1. FinalChunk[q] = Size(0)
            BY <2>1 DEF FinalChunk
        <3> QED BY <1>3, <1>4, <2>1, <3>1 DEF Takes, Size
    <2>2. CASE p = 1
        <3>1. FinalChunk[q] = CR
            BY <2>2 DEF FinalChunk
        <3> QED BY <1>3, <1>4, <2>2, <3>1 DEF Takes, Expects
    <2>3. CASE p = 2
        <3>1. FinalChunk[q] = LF
            BY <2>3 DEF FinalChunk
        <3> QED BY <1>3, <1>4, <2>3, <3>1 DEF Takes, Expects
    <2>4. CASE p = 3
        <3>1. FinalChunk[q] = CR
            BY <2>4 DEF FinalChunk
        <3> QED BY <1>3, <1>4, <2>4, <3>1 DEF Takes, Expects
    <2>5. CASE p = 4
        <3>1. FinalChunk[q] = LF
            BY <2>5 DEF FinalChunk
        <3> QED BY <1>3, <1>4, <2>5, <3>1 DEF Takes, Expects
    <2> QED BY <1>3, <2>1, <2>2, <2>3, <2>4, <2>5
<1> HIDE DEF s, q, after, next
<1>7. stream' \in Streams /\ stream'.finalPos = q /\ stream'.state = after
    BY <1>2, <1>4, <1>5 DEF Streams
<1>8. /\ client' \in [at : Places, left : Int, got : Nat]
      /\ client'.at = next /\ client'.got = taken
      /\ client'.left = IF p = 0 THEN 0 ELSE client.left
    <2>1. CASE p = 0
        <3>1. client' = [client EXCEPT !.at = next, !.left = 0]
            BY <1>6, <2>1
        <3>2. client'.at = next /\ client'.left = 0 /\ client'.got = taken
            BY <1>2, <3>1
        <3>3. client' = [at |-> next, left |-> 0, got |-> client.got]
            BY <1>2, <3>1
        <3>4. client' \in [at : Places, left : Int, got : Nat]
            BY <1>2, <1>5, <3>3
        <3> QED BY <2>1, <3>2, <3>4
    <2>2. CASE p # 0
        <3>1. client' = [client EXCEPT !.at = next]
            BY <1>6, <2>2
        <3> QED BY <1>2, <1>5, <2>2, <3>1
    <2> QED BY <2>1, <2>2
<1>9. UNCHANGED <<open, response>>
    BY <1>1 DEF Rest, source
<1>10. InStep(stream, client)'
    BY <1>1, <1>3, <1>7, <1>8, <1>9 DEF InStep, q, after, next
<1> QED
    BY <1>1, <1>2, <1>7, <1>8, <1>10, ChunkedByteStep

-----------------------------------------------------------------------------
LEMMA InvNext == Inv /\ [Next]_vars => Inv'
<1> SUFFICES ASSUME Inv, [Next]_vars PROVE Inv'
    OBVIOUS
<1>1. CASE Produces \/ Ends \/ Breaks
    BY <1>1, SourceStep
<1>2. CASE Build
    BY <1>2, BuildStep
<1>3. CASE AskHead \/ AskPlain \/ AskChunked \/ AskExhausted \/ ReadsShort
    <2>1. built
        BY <1>3 DEF AskHead, AskPlain, AskChunked, AskExhausted, ReadsShort, Asking, Reading, Inv
    <2> QED BY <1>3, <2>1, AskStep
<1>4. CASE HeadByte \/ PlainByte
    BY <1>4, HeadByteStep, PlainByteStep
<1>5. CASE HeaderByte \/ BodyByte \/ TrailerByte \/ FinalByte
    BY <1>5, HeaderByteStep, BodyByteStep, TrailerByteStep, FinalByteStep
<1>6. CASE AskLater \/ Over \/ UNCHANGED vars
    <2>1. UNCHANGED vars
        BY <1>6 DEF AskLater, Over
    <2>2. UNCHANGED <<response, produced, open, taken, built, chunked, announced, body, head,
                      stream, reader, client>>
        BY <2>1 DEF vars, source, framing, pipeline
    <2>3. (~open => produced = response.total)'
        BY <2>2 DEF Inv, Typed
    <2>4. Typed'
        BY <2>2, <2>3 DEF Inv, Typed
    <2>5. (Decided => Decided') /\ (AtHead => AtHead') /\ (InStep(stream, client) => InStep(stream, client)')
        BY <2>2 DEF Decided, AtHead, InStep
    <2>6. AtBody => AtBody'
        BY <2>2, <2>5 DEF AtBody
    <2> QED BY <2>2, <2>4, <2>5, <2>6 DEF Inv
<1> QED
    BY <1>1, <1>2, <1>3, <1>4, <1>5, <1>6 DEF Next, Pipeline

THEOREM Invariant == Spec => []Inv
BY InvInit, InvNext, PTL DEF Spec

\* Whenever the bytes of the body come and however the reader's buffer cuts the response,
\* the receiver can read it as its headers told it to (ChunkedHttpResponseBodyStream).
THEOREM ResponseCanBeRead == Spec => []ClientFollows
<1>1. Inv => ClientFollows
    <2> SUFFICES ASSUME Inv, HeadersAreRight PROVE client.at # "confused"
        BY DEF ClientFollows
    <2>1. CASE head > 0
        BY <2>1 DEF Inv, AtHead
    <2>2. CASE head = 0
        <3>1. built /\ Decided /\ AtBody
            BY <2>2 DEF Inv
        <3>2. CASE body = "absent"
            BY <3>1, <3>2 DEF AtBody
        <3>3. CASE body = "plain"
            BY <3>1, <3>3 DEF AtBody, Decided, HeadersAreRight
        <3>4. CASE body = "chunked"
            BY <3>1, <3>4 DEF AtBody, InStep, Inv, Typed, Streams
        <3> QED BY <3>1, <3>2, <3>3, <3>4 DEF Decided
    <2> QED BY <2>1, <2>2 DEF Inv, Typed
<1> QED
    BY <1>1, Invariant, PTL

\* A response that the pipeline takes for sent is complete, and the receiver knows
\* (writeResponseToClientFromStream, available() of the framed body).
THEOREM SentIsComplete == Spec => []CompleteWhenSent
<1>1. Inv => CompleteWhenSent
    <2> SUFFICES ASSUME Inv, reader = "over", HeadersAreRight,
                        body = "absent" => response.bodyless \/ ~chunked
                 PROVE  client.at = "end" /\ (response.bodyless \/ client.got = response.total)
        BY DEF CompleteWhenSent
    <2>1. head = 0 /\ built /\ Decided /\ AtBody
        BY DEF Inv, AtHead, Typed
    <2>2. CASE body = "absent"
        BY <2>1, <2>2 DEF AtBody, Decided, HeadersAreRight, Inv, Typed
    <2>3. CASE body = "plain"
        BY <2>1, <2>3 DEF AtBody, Decided, HeadersAreRight
    <2>4. CASE body = "chunked"
        BY <2>1, <2>4 DEF AtBody, InStep
    <2> QED BY <2>1, <2>2, <2>3, <2>4 DEF Decided
<1> QED
    BY <1>1, Invariant, PTL

-----------------------------------------------------------------------------
(* Types *)

\* No position is past the end of its string, and no chunk larger than allowed.
StreamBounds(s) ==
    /\ s.chunkRemaining <= ChunkSize /\ s.header <= ChunkSize
    /\ s.headerPos <= 3 /\ (s.state = "Header" /\ s.header # 0 => s.headerPos < 3)
    /\ s.trailerPos <= 2 /\ (s.state = "Trailer" => s.trailerPos < 2)
    /\ s.finalPos <= 5 /\ (s.state = "Final" => s.finalPos < 5)

\* Who is in the middle of data has some to come.
ClientBounds(c) ==
    /\ c \in [at : Places, left : Nat, got : Nat] /\ c.got <= produced
    /\ c.at \in {"length", "chunk"} => c.left > 0

Flags == open \in BOOLEAN /\ broken \in BOOLEAN /\ built \in BOOLEAN /\ chunked \in BOOLEAN

Amounts ==
    /\ response \in Responses /\ announced \in 0..MaxBody
    /\ body \in {"absent", "plain", "chunked"} /\ head \in 0..HeadSize
    /\ reader \in {"ask", "read", "over"} /\ want \in 0..BufferSize

LEMMA PreparedBounds ==
    ASSUME Typed, NEW s \in Streams, s.state = "Header", s.header = 0, StreamBounds(s)
    PROVE  StreamBounds(Prepared(s))
<1> DEFINE n == Lesser(Ready, ChunkSize)
<1>1. CASE Ready > 0
    <2>1. n \in Nat /\ n > 0 /\ n <= ChunkSize
        BY <1>1, SizesAssumption DEF Ready, Lesser, Typed
    <2>2. Prepared(s) = [s EXCEPT !.chunkRemaining = n, !.currentChunkIsLast = Ready <= ChunkSize,
                                  !.header = n, !.headerPos = 0]
        BY <1>1 DEF Prepared
    <2> HIDE DEF n
    <2>3. /\ Prepared(s).state = "Header" /\ Prepared(s).header = n
          /\ Prepared(s).chunkRemaining = n /\ Prepared(s).headerPos = 0
          /\ Prepared(s).trailerPos = s.trailerPos /\ Prepared(s).finalPos = s.finalPos
        BY <2>2 DEF Streams
    <2> QED BY <2>1, <2>3 DEF StreamBounds
<1>2. CASE ~(Ready > 0) /\ Exhausted
    <2>1. Prepared(s) = [s EXCEPT !.state = "Final", !.finalPos = 0, !.currentChunkIsLast = FALSE]
        BY <1>2 DEF Prepared
    <2>2. /\ Prepared(s).state = "Final" /\ Prepared(s).header = 0
          /\ Prepared(s).chunkRemaining = s.chunkRemaining /\ Prepared(s).headerPos = s.headerPos
          /\ Prepared(s).trailerPos = s.trailerPos /\ Prepared(s).finalPos = 0
        BY <2>1 DEF Streams
    <2> QED BY <2>2 DEF StreamBounds
<1>3. CASE ~(Ready > 0) /\ ~Exhausted
    BY <1>3 DEF Prepared
<1> QED
    BY <1>1, <1>2, <1>3

LEMMA SettledBounds ==
    ASSUME Typed, StreamBounds(stream)
    PROVE  StreamBounds(Settled)
BY PreparedBounds DEF Settled, Typed

\* A byte brings the receiver no further than the body has been produced.
LEMMA TakesBounds ==
    ASSUME ClientBounds(client), produced \in Nat, NEW byte,
           \A i \in Nat : byte = Data(i) => i <= produced,
           byte[1] = "size" => byte[2] \in Nat
    PROVE  ClientBounds(Takes(byte))
<1>1. client \in [at : Places, left : Nat, got : Nat]
    BY DEF ClientBounds
<1>2. ClientBounds(Confused)
    BY <1>1 DEF ClientBounds, Confused, Places
<1>3. ASSUME NEW next \in Places \ {"length", "chunk"}, NEW expected
      PROVE  ClientBounds(Expects(byte, expected, next))
    BY <1>1, <1>2, <1>3 DEF ClientBounds, Expects
<1>4. ASSUME NEW next \in {"end", "chunkCR"}, client.at \in {"length", "chunk"}
      PROVE  ClientBounds(TakesData(next, byte))
    <2>1. client.left \in Nat /\ client.left > 0 /\ client.got \in Nat
        BY <1>1, <1>4 DEF ClientBounds
    <2>2. CASE byte = Data(client.got + 1)
        <3>1. client.got + 1 <= produced
            BY <2>1, <2>2
        <3>2. TakesData(next, byte) = [at |-> IF client.left = 1 THEN next ELSE client.at,
                                       left |-> client.left - 1, got |-> client.got + 1]
            BY <2>2 DEF TakesData
        <3>3. client.left - 1 \in Nat /\ client.got + 1 \in Nat
              /\ (client.left = 1 \/ client.left - 1 > 0)
            BY <2>1
        <3> QED BY <1>1, <1>4, <3>1, <3>2, <3>3 DEF ClientBounds, Places
    <2>3. CASE byte # Data(client.got + 1)
        BY <1>2, <2>3 DEF TakesData
    <2> QED BY <2>2, <2>3
<1>5. CASE client.at = "length"
    BY <1>4, <1>5 DEF Takes
<1>6. CASE client.at = "chunk"
    BY <1>4, <1>6 DEF Takes
<1>7. CASE client.at = "size"
    <2>1. CASE byte[1] = "size"
        <3>1. Takes(byte) = [client EXCEPT !.at = "sizeCR", !.left = byte[2]]
            BY <1>7, <2>1 DEF Takes
        <3> QED BY <1>1, <2>1, <3>1 DEF ClientBounds, Places
    <2>2. CASE byte[1] # "size"
        BY <1>2, <1>7, <2>2 DEF Takes
    <2> QED BY <2>1, <2>2
<1>8. CASE client.at = "sizeLF"
    <2>1. CASE client.left = 0
        BY <1>3, <1>8, <2>1 DEF Takes, Places
    <2>2. CASE client.left # 0
        <3>1. ClientBounds([client EXCEPT !.at = "chunk"])
            BY <1>1, <2>2 DEF ClientBounds, Places
        <3> QED BY <1>2, <1>8, <2>2, <3>1 DEF Takes, Expects
    <2> QED BY <2>1, <2>2
<1>9. CASE client.at = "sizeCR"
    BY <1>3, <1>9 DEF Takes, Places
<1>10. CASE client.at = "chunkCR"
    BY <1>3, <1>10 DEF Takes, Places
<1>11. CASE client.at = "chunkLF"
    BY <1>3, <1>11 DEF Takes, Places
<1>12. CASE client.at = "lastCR"
    BY <1>3, <1>12 DEF Takes, Places
<1>13. CASE client.at = "lastLF"
    BY <1>3, <1>13 DEF Takes, Places
<1>14. CASE client.at \notin {"length", "chunk", "size", "sizeLF", "sizeCR", "chunkCR", "chunkLF",
                              "lastCR", "lastLF"}
    BY <1>2, <1>14 DEF Takes
<1> QED
    BY <1>5, <1>6, <1>7, <1>8, <1>9, <1>10, <1>11, <1>12, <1>13, <1>14

LEMMA FlagsStep == Flags /\ [Next]_vars => Flags'
<1> SUFFICES ASSUME Flags, [Next]_vars PROVE Flags'
    OBVIOUS
<1> USE DEF Flags
<1>1. CASE Produces \/ Ends \/ Breaks
    BY <1>1 DEF Produces, Ends, Breaks, framing
<1>2. CASE Build
    BY <1>2 DEF Build, source
<1>3. CASE AskHead \/ AskPlain \/ AskChunked \/ AskExhausted \/ ReadsShort
    BY <1>3 DEF AskHead, AskPlain, AskChunked, AskExhausted, ReadsShort, Rest, source, framing
<1>4. CASE HeadByte \/ PlainByte \/ HeaderByte \/ BodyByte \/ TrailerByte \/ FinalByte
    BY <1>4 DEF HeadByte, PlainByte, HeaderByte, BodyByte, TrailerByte, FinalByte, Rest, source,
       framing
<1>5. CASE AskLater \/ Over \/ UNCHANGED vars
    BY <1>5 DEF AskLater, Over, vars, source, framing
<1> QED
    BY <1>1, <1>2, <1>3, <1>4, <1>5 DEF Next, Pipeline

\* The stream keeps to its strings whatever is done with it.
LEMMA StreamStep ==
    ASSUME Inv, StreamBounds(stream), [Next]_vars
    PROVE  StreamBounds(stream')
<1> Typed /\ stream \in Streams /\ StreamBounds(Settled)
    BY SettledBounds DEF Inv, Typed
<1>1. CASE stream' = stream \/ stream' = Settled
    BY <1>1
<1>2. CASE HeaderByte
    <2> DEFINE s == Settled
    <2>1. s \in Streams /\ s.state = "Header" /\ s.header # 0 /\ s.headerPos \in Nat
        BY <1>2, ChunkedFacts DEF HeaderByte, Streams
    <2>2. stream' = [s EXCEPT !.headerPos = @ + 1,
                              !.state = IF s.headerPos + 1 = 3 THEN "Body" ELSE "Header"]
        BY <1>2 DEF HeaderByte
    <2> HIDE DEF s
    <2>3. /\ stream'.headerPos = s.headerPos + 1 /\ stream'.header = s.header
          /\ stream'.chunkRemaining = s.chunkRemaining /\ stream'.trailerPos = s.trailerPos
          /\ stream'.finalPos = s.finalPos
          /\ stream'.state = IF s.headerPos + 1 = 3 THEN "Body" ELSE "Header"
        BY <2>1, <2>2 DEF Streams
    <2>4. StreamBounds(s)
        BY DEF s
    <2> QED BY <2>1, <2>3, <2>4 DEF StreamBounds
<1>3. CASE BodyByte
    <2>1. stream.chunkRemaining \in Nat /\ stream.chunkRemaining > 0
        BY <1>3, ChunkedFacts DEF BodyByte, Streams, InStep
    <2>2. CASE stream.chunkRemaining = 1
        <3>1. stream' = [stream EXCEPT !.chunkRemaining = 0, !.state = "Trailer", !.trailerPos = 0]
            BY <1>3, <2>2 DEF BodyByte
        <3>2. /\ stream'.headerPos = stream.headerPos /\ stream'.header = stream.header
              /\ stream'.chunkRemaining = 0 /\ stream'.trailerPos = 0
              /\ stream'.finalPos = stream.finalPos /\ stream'.state = "Trailer"
            BY <3>1 DEF Streams
        <3> QED BY <3>2, SizesAssumption DEF StreamBounds
    <2>3. CASE stream.chunkRemaining # 1
        <3>1. stream' = [stream EXCEPT !.chunkRemaining = @ - 1]
            BY <1>3, <2>3 DEF BodyByte
        <3>2. /\ stream'.headerPos = stream.headerPos /\ stream'.header = stream.header
              /\ stream'.chunkRemaining = stream.chunkRemaining - 1
              /\ stream'.trailerPos = stream.trailerPos
              /\ stream'.finalPos = stream.finalPos /\ stream'.state = stream.state
            BY <3>1 DEF Streams
        <3> QED BY <2>1, <3>2, SizesAssumption DEF StreamBounds
    <2> QED BY <2>2, <2>3
<1>4. CASE TrailerByte
    <2> DEFINE n == stream.trailerPos + 1
               s == [stream EXCEPT !.trailerPos = n]
               t == [s EXCEPT !.header = 0, !.state = "Header"]
    <2>1. stream.trailerPos \in Nat /\ stream.trailerPos < 2 /\ stream.state = "Trailer"
        BY <1>4 DEF TrailerByte, StreamBounds, Streams
    <2>2. stream' = IF s.trailerPos < 2 THEN s ELSE Prepared(t)
        BY <1>4 DEF TrailerByte
    <2>3. n \in Nat /\ n <= 2
        BY <2>1
    <2> HIDE DEF n
    <2>4. /\ s \in Streams /\ s.trailerPos = n /\ s.state = "Trailer" /\ s.header = stream.header
          /\ s.headerPos = stream.headerPos /\ s.chunkRemaining = stream.chunkRemaining
          /\ s.finalPos = stream.finalPos
        BY <2>1, <2>3 DEF Streams
    <2>5. n < 2 => StreamBounds(s)
        BY <2>3, <2>4 DEF StreamBounds
    <2> HIDE DEF s
    <2>6. /\ t \in Streams /\ t.trailerPos = n /\ t.state = "Header" /\ t.header = 0
          /\ t.headerPos = stream.headerPos /\ t.chunkRemaining = stream.chunkRemaining
          /\ t.finalPos = stream.finalPos
        BY <2>4 DEF Streams
    <2>7. StreamBounds(t)
        BY <2>3, <2>6, SizesAssumption DEF StreamBounds
    <2> HIDE DEF t
    <2> QED BY <2>2, <2>4, <2>5, <2>6, <2>7, PreparedBounds
<1>5. CASE FinalByte
    <2> DEFINE s == Settled
    <2>1. s \in Streams /\ s.state = "Final" /\ s.finalPos \in Nat
        BY <1>5, ChunkedFacts DEF FinalByte, Streams
    <2>2. stream' = [s EXCEPT !.finalPos = @ + 1,
                              !.state = IF s.finalPos + 1 = 5 THEN "Done" ELSE "Final"]
        BY <1>5 DEF FinalByte
    <2> HIDE DEF s
    <2>3. /\ stream'.headerPos = s.headerPos /\ stream'.header = s.header
          /\ stream'.chunkRemaining = s.chunkRemaining /\ stream'.trailerPos = s.trailerPos
          /\ stream'.finalPos = s.finalPos + 1
          /\ stream'.state = IF s.finalPos + 1 = 5 THEN "Done" ELSE "Final"
        BY <2>1, <2>2 DEF Streams
    <2>4. StreamBounds(s)
        BY DEF s
    <2> QED BY <2>1, <2>3, <2>4 DEF StreamBounds
<1>6. CASE UNCHANGED stream \/ AskChunked
    BY <1>1, <1>6 DEF AskChunked
<1> QED
    BY <1>2, <1>3, <1>4, <1>5, <1>6
       DEF Next, Pipeline, Produces, Ends, Breaks, Build, AskHead, AskPlain, AskLater,
           AskExhausted, HeadByte, PlainByte, ReadsShort, Rest, Over, vars

LEMMA ClientStep ==
    ASSUME Inv, ClientBounds(client), [Next]_vars
    PROVE  ClientBounds(client)'
<1> Typed /\ produced \in Nat /\ taken \in Nat /\ taken <= produced /\ announced \in Nat
    BY DEF Inv, Typed
<1>1. CASE Produces \/ Ends \/ Breaks
    <2>1. client' = client /\ produced' \in Nat /\ produced <= produced'
        BY <1>1 DEF Produces, Ends, Breaks
    <2> QED BY <2>1 DEF ClientBounds
<1>2. ASSUME NEW byte, produced' = produced, client' = Takes(byte),
             \A i \in Nat : byte = Data(i) => i <= produced, byte[1] = "size" => byte[2] \in Nat
      PROVE  ClientBounds(client)'
    <2>1. ClientBounds(Takes(byte))
        BY <1>2, TakesBounds
    <2> QED BY <1>2, <2>1 DEF ClientBounds
<1>3. CASE PlainByte \/ BodyByte
    <2>1. /\ Ready > 0 /\ taken' = taken + 1 /\ client' = Takes(Data(taken'))
          /\ produced' = produced
        BY <1>3 DEF PlainByte, BodyByte, Gives, Rest, source
    <2>2. taken' <= produced
        BY <2>1 DEF Ready
    <2>3. \A i \in Nat : Data(taken') = Data(i) => i <= produced
        BY <2>2 DEF Data
    <2>4. Data(taken')[1] # "size"
        BY DEF Data
    <2> QED BY <1>2, <2>1, <2>3, <2>4
<1>4. CASE HeaderByte \/ TrailerByte \/ FinalByte
    <2>1. ASSUME NEW n \in Nat, NEW byte \in {Size(n), CR, LF}
          PROVE  /\ \A i \in Nat : byte = Data(i) => i <= produced
                 /\ byte[1] = "size" => byte[2] \in Nat
        BY <2>1 DEF Size, CR, LF, Data
    <2>2. produced' = produced
        BY <1>4 DEF HeaderByte, TrailerByte, FinalByte, Rest, source
    <2>3. \E n \in Nat : \E byte \in {Size(n), CR, LF} : client' = Takes(byte)
        <3>1. CASE HeaderByte
            <4>1. /\ client' = Takes(Header(Settled.header)[Settled.headerPos + 1])
                  /\ Settled.header \in Nat /\ Settled.headerPos \in {0, 1, 2}
                BY <3>1, ChunkedFacts DEF HeaderByte, Gives, Streams, InStep
            <4> QED BY <4>1 DEF Header
        <3>2. CASE TrailerByte
            <4>1. /\ client' = Takes(Trailer[stream.trailerPos + 1])
                  /\ stream.trailerPos \in {0, 1}
                BY <3>2, ChunkedFacts DEF TrailerByte, Gives, InStep
            <4> QED BY <4>1 DEF Trailer
        <3>3. CASE FinalByte
            <4>1. /\ client' = Takes(FinalChunk[Settled.finalPos + 1])
                  /\ Settled.finalPos \in {0, 1, 2, 3, 4}
                BY <3>3, ChunkedFacts DEF FinalByte, Gives, InStep
            <4> QED BY <4>1 DEF FinalChunk
        <3> QED BY <1>4, <3>1, <3>2, <3>3
    <2> QED BY <1>2, <2>1, <2>2, <2>3
<1>5. CASE HeadByte
    <2>1. produced' = produced /\ client' \in {client, AfterHead}
        BY <1>5 DEF HeadByte, Rest, source
    <2>2. ClientBounds(AfterHead)
        <3>1. ASSUME NEW at \in {"end", "size"} PROVE ClientBounds([client EXCEPT !.at = at])
            BY <3>1 DEF ClientBounds, Places
        <3>2. announced = 0 => ClientBounds([client EXCEPT !.at = "end", !.left = announced])
            BY DEF ClientBounds, Places
        <3>3. announced # 0 => ClientBounds([client EXCEPT !.at = "length", !.left = announced])
            <4> DEFINE c == [client EXCEPT !.at = "length", !.left = announced]
            <4>1. c \in [at : Places, left : Nat, got : Nat] /\ c.left = announced
                  /\ c.got <= produced
                BY DEF ClientBounds, Places
            <4> QED BY <4>1 DEF ClientBounds
        <3> QED BY <3>1, <3>2, <3>3 DEF AfterHead
    <2> QED BY <2>1, <2>2 DEF ClientBounds
<1>6. CASE UNCHANGED <<produced, client>>
    BY <1>6 DEF ClientBounds
<1> QED
    BY <1>1, <1>3, <1>4, <1>5, <1>6
       DEF Next, Pipeline, Build, AskHead, AskPlain, AskChunked, AskLater, AskExhausted,
           ReadsShort, Rest, Over, vars, source

\* What there is to read is a number of bytes, of which the buffer takes what it can.
LEMMA AmountsStep ==
    ASSUME Inv, Inv', Amounts, StreamBounds(stream'), [Next]_vars
    PROVE  Amounts'
<1> Typed /\ produced \in Nat /\ taken \in Nat /\ produced <= response.total
    BY DEF Inv, Typed
<1> response.total \in 0..MaxBody /\ MaxBody \in Nat /\ BufferSize \in Nat /\ HeadSize \in Nat
    BY SizesAssumption DEF Amounts, Responses
<1>1. CASE Produces \/ Ends \/ Breaks
    BY <1>1 DEF Amounts, Produces, Ends, Breaks, framing, pipeline
<1>2. CASE Build
    <2>1. announced' \in 0..MaxBody
        <3>1. announced' \in {response.total, 0} \/ (announced' = Ready /\ response.hasBody)
              \/ announced' = Ready
            BY <1>2 DEF Build
        <3>2. Ready \in 0..MaxBody
            BY DEF Ready, Inv, Typed
        <3> QED BY <3>1, <3>2
    <2>2. body' \in {"absent", "plain", "chunked"}
        BY <1>2 DEF Build
    <2> QED BY <1>2, <2>1, <2>2 DEF Amounts, Build, source, pipeline
<1>3. ASSUME NEW n \in Nat, WillRead(n) PROVE want' \in 0..BufferSize /\ reader' = "read"
    BY <1>3 DEF WillRead, Lesser
<1>4. CASE AskHead
    <2>1. \E n \in Nat : WillRead(n)
        BY <1>4 DEF AskHead
    <2> QED BY <1>3, <1>4, <2>1 DEF Amounts, AskHead, Rest, source, framing
<1>5. CASE AskPlain
    <2>1. Ready \in Nat /\ WillRead(Ready)
        BY <1>5 DEF AskPlain, Ready
    <2> QED BY <1>3, <1>5, <2>1 DEF Amounts, AskPlain, Rest, source, framing
<1>6. CASE AskChunked
    <2>1. stream' \in Streams /\ stream'.state # "Done" /\ WillRead(Available(stream'))
          /\ (stream'.state = "Header" => stream'.header # 0)
        BY <1>6 DEF AskChunked, Inv, Typed
    <2>2. Available(stream') \in Nat
        BY <2>1 DEF Available, Streams, StreamBounds
    <2> QED BY <1>3, <1>6, <2>1, <2>2 DEF Amounts, AskChunked, Rest, source, framing
<1>7. ASSUME Reading, OneMore PROVE want' \in 0..BufferSize /\ reader' \in {"ask", "read"}
    BY <1>7 DEF Reading, OneMore, Amounts
<1>8. CASE HeadByte \/ PlainByte \/ HeaderByte \/ BodyByte \/ TrailerByte \/ FinalByte
    <2>1. Reading /\ OneMore /\ Rest /\ head' \in {head, head - 1} /\ (head' # head => head > 0)
        BY <1>8 DEF HeadByte, PlainByte, HeaderByte, BodyByte, TrailerByte, FinalByte, Gives,
           ReadingChunked
    <2>2. head' \in 0..HeadSize
        BY <2>1 DEF Amounts
    <2> QED BY <1>7, <2>1, <2>2 DEF Amounts, Rest, source, framing
<1>9. CASE AskExhausted \/ ReadsShort
    BY <1>9 DEF Amounts, AskExhausted, ReadsShort, Rest, source, framing
<1>10. CASE AskLater \/ Over \/ UNCHANGED vars
    BY <1>10 DEF Amounts, AskLater, Over, vars, source, framing, pipeline
<1> QED
    BY <1>1, <1>2, <1>4, <1>5, <1>6, <1>8, <1>9, <1>10 DEF Next, Pipeline

\* Every variable keeps its type, and no position of the framing is past the end of its
\* string (ChunkedHttpResponseBodyStream::read).
THEOREM TypeInvariant == Spec => []TypeOK
<1> DEFINE Types == Flags /\ Amounts /\ StreamBounds(stream) /\ ClientBounds(client)
<1>1. Init => Types
    <2> SUFFICES ASSUME Init PROVE Types
        OBVIOUS
    <2>1. response \in Responses
        BY DEF Init
    <2>2. response.hasBody \in BOOLEAN
        BY <2>1 DEF Responses
    <2>3. Flags
        BY <2>2 DEF Init, Flags
    <2>4. Amounts
        BY <2>1, SizesAssumption DEF Init, Amounts
    <2>5. StreamBounds(stream)
        BY SizesAssumption DEF Init, StreamBounds
    <2>6. ClientBounds(client)
        BY DEF Init, ClientBounds, Places
    <2> QED BY <2>3, <2>4, <2>5, <2>6
<1>2. Inv /\ Inv' /\ Types /\ [Next]_vars => Types'
    <2> SUFFICES ASSUME Inv, Inv', Types, [Next]_vars PROVE Types'
        OBVIOUS
    <2>1. StreamBounds(stream')
        BY StreamStep
    <2>2. Flags' /\ ClientBounds(client)' /\ Amounts'
        BY <2>1, FlagsStep, ClientStep, AmountsStep
    <2> QED BY <2>1, <2>2 DEF StreamBounds
<1>3. Inv /\ Types => TypeOK
    <2> SUFFICES ASSUME Inv, Types PROVE TypeOK
        OBVIOUS
    <2>1. produced \in 0..response.total /\ taken \in 0..produced
        BY SizesAssumption DEF Inv, Typed
    <2>2. /\ stream.chunkRemaining \in 0..ChunkSize /\ stream.header \in 0..ChunkSize
          /\ stream.headerPos \in 0..3 /\ stream.trailerPos \in 0..2 /\ stream.finalPos \in 0..5
        BY SizesAssumption DEF Inv, Typed, Streams, StreamBounds
    <2>3. stream.currentChunkIsLast \in BOOLEAN
          /\ stream.state \in {"Header", "Body", "Trailer", "Final", "Done"}
        BY DEF Inv, Typed, Streams
    <2>4. client \in [at : Places, left : Nat, got : 0..produced]
        BY <2>1 DEF ClientBounds, Inv, Typed
    <2> QED BY <2>1, <2>2, <2>3, <2>4 DEF TypeOK, Flags, Amounts, StreamBounds
<1> QED
    <2> HIDE DEF Types
    <2> QED BY <1>1, <1>2, <1>3, InvInit, InvNext, PTL DEF Spec

-----------------------------------------------------------------------------
(* The filter: what the reader is given is the text with its tokens replaced *)

(* Parts of a text *)

\* A part and the byte after it are the part that ends one byte later.
LEMMA NextByte ==
    ASSUME NEW S, NEW t \in Seq(S), NEW p \in Nat, p < Len(t), NEW a \in 1..(p + 1)
    PROVE  /\ Append(SubSeq(t, a, p), t[p + 1]) = SubSeq(t, a, p + 1)
           /\ SubSeq(t, a, p) \o <<t[p + 1]>> = SubSeq(t, a, p + 1)
           /\ t[p + 1] \in S
<1> DEFINE u == SubSeq(t, a, p)
           v == SubSeq(t, a, p + 1)
<1>1. /\ Len(t) \in Nat /\ p \in 0..Len(t) /\ p + 1 \in 0..Len(t) /\ a \in Nat \ {0}
      /\ p + 1 \in 1..Len(t)
    BY LenProperties
<1>2. /\ u \in Seq(S) /\ Len(u) = p - a + 1 /\ \A i \in 1..(p - a + 1) : u[i] = t[a + i - 1]
    <2>1. /\ u \in Seq(S) /\ Len(u) = IF a <= p THEN p - a + 1 ELSE 0
          /\ \A i \in 1..(p - a + 1) : u[i] = t[a + i - 1]
        BY <1>1, PartIs
    <2> HIDE DEF u
    <2> QED BY <1>1, <2>1
<1>3. /\ v \in Seq(S) /\ Len(v) = p - a + 2 /\ \A i \in 1..(p - a + 2) : v[i] = t[a + i - 1]
    <2>1. /\ v \in Seq(S) /\ Len(v) = IF a <= p + 1 THEN (p + 1) - a + 1 ELSE 0
          /\ \A i \in 1..((p + 1) - a + 1) : v[i] = t[a + i - 1]
        BY <1>1, PartIs
    <2> HIDE DEF v
    <2> QED BY <1>1, <2>1
<1>4. t[p + 1] \in S
    BY <1>1, ElementOfSeq
<1> HIDE DEF u, v
<1> DEFINE w == Append(u, t[p + 1])
<1>5. /\ w \in Seq(S) /\ Len(w) = Len(u) + 1 /\ (\A i \in 1..Len(u) : w[i] = u[i])
      /\ w[Len(u) + 1] = t[p + 1]
    BY <1>2, <1>4, AppendProperties
<1>6. w = u \o <<t[p + 1]>>
    BY <1>2, <1>4, AppendIsConcat
<1> HIDE DEF w
<1>7. \A i \in 1..Len(w) : w[i] = v[i]
    <2>1. \A i \in 1..Len(w) : i \in 1..Len(u) \/ i = Len(u) + 1
        BY <1>1, <1>2, <1>5
    <2>2. \A i \in 1..Len(u) : w[i] = v[i]
        BY <1>1, <1>2, <1>3, <1>5
    <2>3. w[Len(u) + 1] = v[Len(u) + 1]
        <3>1. Len(u) + 1 \in 1..(p - a + 2) /\ a + (Len(u) + 1) - 1 = p + 1
            BY <1>1, <1>2
        <3> QED BY <1>3, <1>5, <3>1
    <2> QED BY <2>1, <2>2, <2>3
<1>8. Len(w) = Len(v)
    BY <1>1, <1>2, <1>3, <1>5
<1>9. w = v
    BY <1>3, <1>5, <1>7, <1>8, SeqEqual
<1> QED BY <1>4, <1>6, <1>9 DEF u, v, w

\* The text from m to p is as the word begins.
Begins(t, word, m, p) ==
    /\ p - m + 1 <= Len(word)
    /\ \A j \in m..p : t[j] = word[j - m + 1]

\* The part from m to p is a beginning of the word, in terms of single bytes.
LEMMA PrefixIs ==
    ASSUME NEW S, NEW t \in Seq(S), NEW word \in Seq(S), NEW p \in 0..Len(t), NEW m \in 1..(p + 1)
    PROVE  IsPrefix(SubSeq(t, m, p), word) <=> Begins(t, word, m, p)
<1> DEFINE u == SubSeq(t, m, p)
           c == p - m + 1
<1>0. Len(t) \in Nat /\ Len(word) \in Nat /\ c \in Nat /\ p \in Nat /\ m \in Nat \ {0}
    BY LenProperties
<1>1. u \in Seq(S) /\ Len(u) = c /\ \A i \in 1..c : u[i] = t[m + i - 1]
    <2>1. u \in Seq(S) /\ Len(u) = (IF m <= p THEN c ELSE 0) /\ \A i \in 1..c : u[i] = t[m + i - 1]
        BY <1>0, PartIs
    <2> HIDE DEF u
    <2> QED BY <1>0, <2>1
<1>2. SubSeq(u, 1, Len(u)) = u
    BY <1>1, SubSeqFull
<1> DEFINE v == SubSeq(word, 1, c)
<1>3. c <= Len(word) => v \in Seq(S) /\ Len(v) = c /\ \A i \in 1..c : v[i] = word[i]
    BY <1>0, FirstIs
<1>4. IsPrefix(u, word) <=> c <= Len(word) /\ u = v
    BY <1>1, <1>2 DEF IsPrefix
<1>5. c <= Len(word) => (u = v <=> \A i \in 1..c : u[i] = v[i])
    BY <1>1, <1>3, SeqEqual
<1> HIDE DEF u, v
<1>6. c <= Len(word) => (u = v <=> \A i \in 1..c : t[m + i - 1] = word[i])
    BY <1>1, <1>3, <1>5
<1>7. (\A i \in 1..c : t[m + i - 1] = word[i]) <=> \A j \in m..p : t[j] = word[j - m + 1]
    <2>1. \A j \in m..p : j - m + 1 \in 1..c /\ m + (j - m + 1) - 1 = j
        BY <1>0
    <2>2. \A i \in 1..c : m + i - 1 \in m..p /\ (m + i - 1) - m + 1 = i
        BY <1>0
    <2>3. ASSUME \A i \in 1..c : t[m + i - 1] = word[i], NEW j \in m..p PROVE t[j] = word[j - m + 1]
        BY <2>1, <2>3
    <2>4. ASSUME \A j \in m..p : t[j] = word[j - m + 1], NEW i \in 1..c PROVE t[m + i - 1] = word[i]
        <3>1. m + i - 1 \in m..p /\ (m + i - 1) - m + 1 = i
            BY <2>2
        <3>2. t[m + i - 1] = word[(m + i - 1) - m + 1]
            BY <2>4, <3>1
        <3> QED BY <3>1, <3>2
    <2> QED BY <2>3, <2>4
<1> QED BY <1>4, <1>6, <1>7 DEF Begins, u

\* That a word occurs in what has been read, in terms of single bytes of the text
LEMMA OccursIs ==
    ASSUME NEW S, NEW t \in Seq(S), NEW word \in Seq(S), NEW q \in 0..Len(t), NEW m \in Nat \ {0}
    PROVE  Occurs(word, SubSeq(t, 1, q), m) <=>
                m + Len(word) - 1 <= q /\ Begins(t, word, m, m + Len(word) - 1)
<1> DEFINE b == SubSeq(t, 1, q)
           e == m + Len(word) - 1
<1>0. Len(t) \in Nat /\ Len(word) \in Nat /\ q \in Nat /\ e \in Nat /\ e - m + 1 = Len(word)
    BY LenProperties
<1>1. Len(b) = q
    <2>1. Len(b) = IF 1 <= q THEN q - 1 + 1 ELSE 0
        BY <1>0, PartIs
    <2> QED BY <1>0, <2>1
<1>2. m + Len(word) <= Len(b) + 1 <=> e <= q
    BY <1>0, <1>1
<1>3. e <= q => (SubSeq(b, m, e) = word <=> Begins(t, word, m, e))
    <2> SUFFICES ASSUME e <= q PROVE SubSeq(b, m, e) = word <=> Begins(t, word, m, e)
        OBVIOUS
    <2>1. SubSeq(b, m, e) = SubSeq(t, m, e)
        <3>1. /\ q \in 0..Len(t) /\ 1 \in 1..(q + 1) /\ m \in 1..(q - 1 + 2) /\ e \in (m - 1)..(q - 1 + 1)
              /\ 1 + m - 1 = m /\ 1 + e - 1 = e
            BY <1>0
        <3>2. SubSeq(SubSeq(t, 1, q), m, e) = SubSeq(t, 1 + m - 1, 1 + e - 1)
            BY <3>1, PartOfPart
        <3> QED BY <3>1, <3>2
    <2>2. e \in 0..Len(t) /\ m \in 1..(e + 1)
        BY <1>0
    <2> DEFINE u == SubSeq(t, m, e)
    <2>3. u \in Seq(S) /\ Len(u) = Len(word)
        <3>1. u \in Seq(S) /\ Len(u) = IF m <= e THEN e - m + 1 ELSE 0
            BY <2>2, PartIs
        <3> HIDE DEF u
        <3> QED BY <1>0, <3>1
    <2>4. IsPrefix(u, word) <=> u = word
        <3>1. SubSeq(u, 1, Len(u)) = u /\ SubSeq(word, 1, Len(word)) = word
            BY <2>3, SubSeqFull
        <3> HIDE DEF u
        <3> QED BY <1>0, <2>3, <3>1 DEF IsPrefix
    <2>5. IsPrefix(u, word) <=> Begins(t, word, m, e)
        BY <2>2, PrefixIs
    <2> QED BY <2>1, <2>4, <2>5
<1> QED BY <1>2, <1>3 DEF Occurs

-----------------------------------------------------------------------------
(* The reference, rule by rule *)

Usable == {o \in [prefix : Text, suffix : Text, maxTokenBytes : Nat,
                  replaceWithEmpty : BOOLEAN, restrictToText : BOOLEAN] :
            o.prefix # <<>> /\ o.suffix # <<>> /\ o.maxTokenBytes > 0}

InPlaceOf(o, key) ==
    IF Found(key) # {} THEN (CHOOSE v \in Found(key) : TRUE).value
    ELSE IF o.replaceWithEmpty THEN <<>>
    ELSE o.prefix \o key \o o.suffix

Room(o) == o.maxTokenBytes - Len(o.suffix) + 1
EndsFrom(o, b, n) == {m \in Occurrences(o.suffix, b) : m >= n + Len(o.prefix)}
Ended(o, b, n) ==
    EndsFrom(o, b, n) # {} /\ Min(EndsFrom(o, b, n)) - (n + Len(o.prefix)) <= Room(o)
TooLong(o, b, n) == n + Len(o.prefix) + o.maxTokenBytes <= Len(b)

\* What the bytes from n on become first, and where the rest begins
Piece(o, b, n) ==
    IF ~Occurs(o.prefix, b, n) THEN <<b[n]>>
    ELSE IF Ended(o, b, n)
         THEN InPlaceOf(o, SubSeq(b, n + Len(o.prefix), Min(EndsFrom(o, b, n)) - 1))
    ELSE IF TooLong(o, b, n) THEN SubSeq(b, n, n + Len(o.prefix) + o.maxTokenBytes)
    ELSE SubSeq(b, n, Len(b))
After(o, b, n) ==
    IF ~Occurs(o.prefix, b, n) THEN n + 1
    ELSE IF Ended(o, b, n) THEN Min(EndsFrom(o, b, n)) + Len(o.suffix)
    ELSE IF TooLong(o, b, n) THEN n + Len(o.prefix) + o.maxTokenBytes + 1
    ELSE Len(b) + 1

Rule(o, b, f) ==
    /\ f \in [1..(Len(b) + 1) -> Text] /\ f[Len(b) + 1] = <<>>
    /\ \A n \in 1..Len(b) : f[n] = Piece(o, b, n) \o f[After(o, b, n)]

\* What is defined from the end of a text
Backwards(f, L, A, N, S) ==
    /\ f \in [1..(L + 1) -> Seq(S)] /\ f[L + 1] = <<>>
    /\ \A n \in 1..L : f[n] = A[n] \o f[N[n]]

\* A function whose value at each place is a piece and its value at a later place: it exists,
\* because the places run out.
LEMMA BackwardRecursion ==
    ASSUME NEW S, NEW L \in Nat, NEW A \in [1..L -> Seq(S)], NEW N \in [1..L -> 1..(L + 1)],
           \A n \in 1..L : N[n] > n
    PROVE  \E f : Backwards(f, L, A, N, S)
<1> DEFINE Is(f, k) == f[L + 1] = <<>> /\ \A n \in 1..L : n > L - k => f[n] = A[n] \o f[N[n]]
           K == {k \in Nat : \E f \in [1..(L + 1) -> Seq(S)] : Is(f, k)}
<1>1. 0 \in K
    <2> DEFINE f == [n \in 1..(L + 1) |-> <<>>]
    <2>1. <<>> \in Seq(S)
        BY EmptySeq
    <2>2. f \in [1..(L + 1) -> Seq(S)] /\ L + 1 \in 1..(L + 1)
        BY <2>1
    <2>3. Is(f, 0)
        BY <2>2
    <2> QED BY <2>2, <2>3
<1>2. ASSUME NEW k \in Nat, k \in K PROVE k + 1 \in K
    <2>1. PICK f \in [1..(L + 1) -> Seq(S)] : Is(f, k)
        BY <1>2
    <2>0. k + 1 \in Nat
        OBVIOUS
    <2>2. CASE k >= L
        <3>1. \A n \in 1..L : n > L - k
            BY <2>2
        <3>2. Is(f, k + 1)
            BY <2>1, <3>1
        <3> HIDE DEF Is
        <3> QED BY <2>0, <3>2
    <2>3. CASE k < L
        <3> DEFINE z == L - k
                   g == [n \in 1..(L + 1) |-> IF n = z THEN A[z] \o f[N[z]] ELSE f[n]]
        <3>1. z \in 1..L /\ N[z] \in 1..(L + 1) /\ L + 1 \in 1..(L + 1) /\ z # L + 1
            BY <2>3
        <3>2. A[z] \in Seq(S) /\ f[N[z]] \in Seq(S)
            BY <3>1
        <3>3. A[z] \o f[N[z]] \in Seq(S)
            BY <3>2, ConcatProperties
        <3>4. g \in [1..(L + 1) -> Seq(S)]
            BY <3>3
        <3>5. g[L + 1] = <<>>
            BY <2>1, <3>1
        <3>6. ASSUME NEW n \in 1..L, n > L - (k + 1) PROVE g[n] = A[n] \o g[N[n]]
            <4>1. N[n] > n /\ N[n] \in 1..(L + 1) /\ n \in 1..(L + 1)
                OBVIOUS
            <4>2. n = z \/ n > z
                BY <3>6
            <4>3. N[n] # z
                BY <4>1, <4>2
            <4>4. g[N[n]] = f[N[n]]
                BY <4>1, <4>3
            <4>5. CASE n = z
                <5>1. g[n] = A[z] \o f[N[z]]
                    BY <4>1, <4>5
                <5> HIDE DEF g
                <5> QED BY <4>4, <4>5, <5>1
            <4>6. CASE n > z
                <5>1. g[n] = f[n]
                    <6>1. n # z
                        BY <3>1, <4>6
                    <6> QED BY <4>1, <6>1
                <5>2. f[n] = A[n] \o f[N[n]]
                    BY <2>1, <4>6
                <5> HIDE DEF g
                <5> QED BY <4>4, <5>1, <5>2
            <4> QED BY <4>2, <4>5, <4>6
        <3> HIDE DEF g
        <3>7. Is(g, k + 1)
            BY <3>5, <3>6
        <3> HIDE DEF Is
        <3> QED BY <2>0, <3>4, <3>7
    <2> HIDE DEF K
    <2> QED BY <2>2, <2>3
<1> HIDE DEF K
<1>3. L \in K
    BY <1>1, <1>2, Counting
<1>4. PICK f \in [1..(L + 1) -> Seq(S)] : Is(f, L)
    BY <1>3 DEF K
<1>5. \A n \in 1..L : n > L - L
    OBVIOUS
<1>6. Backwards(f, L, A, N, S)
    BY <1>4, <1>5 DEF Backwards
<1> QED BY <1>6

LEMMA PlaceOfTyped ==
    ASSUME NEW o \in Usable, NEW key \in Text
    PROVE  InPlaceOf(o, key) \in Text
<1>1. CASE Found(key) # {}
    <2>1. (CHOOSE v \in Found(key) : TRUE) \in Found(key)
        BY <1>1
    <2>2. Found(key) \subseteq [key : Text, value : Text]
        BY CasesAssumption DEF Found
    <2> QED BY <1>1, <2>1, <2>2 DEF InPlaceOf
<1>2. CASE Found(key) = {}
    <2>1. o.prefix \in Text /\ o.suffix \in Text
        BY DEF Usable
    <2>2. <<>> \in Text
        BY EmptySeq DEF Text
    <2>3. o.prefix \o key \in Seq(STRING)
        BY <2>1, ConcatProperties DEF Text
    <2>4. o.prefix \o key \o o.suffix \in Seq(STRING)
        BY <2>1, <2>3, ConcatProperties DEF Text
    <2> QED BY <1>2, <2>2, <2>4 DEF InPlaceOf, Text
<1> QED BY <1>1, <1>2

LEMMA Lengths ==
    ASSUME NEW o \in Usable
    PROVE  /\ o.prefix \in Text /\ o.suffix \in Text
           /\ Len(o.prefix) \in Nat /\ Len(o.prefix) > 0
           /\ Len(o.suffix) \in Nat /\ Len(o.suffix) > 0
           /\ o.maxTokenBytes \in Nat /\ o.maxTokenBytes > 0 /\ Room(o) \in Int
<1>1. o.prefix \in Seq(STRING) /\ o.suffix \in Seq(STRING) /\ o.prefix # <<>> /\ o.suffix # <<>>
      /\ o.maxTokenBytes \in Nat /\ o.maxTokenBytes > 0
    BY DEF Usable, Text
<1>2. Len(o.prefix) \in Nat \ {0} /\ Len(o.suffix) \in Nat \ {0}
    BY <1>1, EmptySeq
<1> QED BY <1>1, <1>2 DEF Text, Room

\* Where the first end of a token is
LEMMA EndsAre ==
    ASSUME NEW o \in Usable, NEW b \in Text, NEW n \in 1..Len(b), EndsFrom(o, b, n) # {}
    PROVE  LET e == Min(EndsFrom(o, b, n))
           IN  /\ e \in EndsFrom(o, b, n) /\ e \in Nat /\ e >= n + Len(o.prefix)
               /\ e + Len(o.suffix) <= Len(b) + 1
               /\ \A x \in EndsFrom(o, b, n) : e <= x
<1> DEFINE s == EndsFrom(o, b, n)
           e == Min(s)
<1>1. Len(b) \in Nat
    BY LenProperties DEF Text
<1>2. s \subseteq Nat
    BY <1>1 DEF EndsFrom, Occurrences
<1>3. PICK x \in s : \A y \in s : x <= y
    BY <1>2, LeastNumber
<1>4. e \in s /\ \A y \in s : e <= y
    BY <1>3 DEF Min
<1> HIDE DEF e
<1>5. e \in Nat /\ e >= n + Len(o.prefix) /\ e + Len(o.suffix) <= Len(b) + 1
    BY <1>2, <1>4 DEF EndsFrom, Occurrences, Occurs
<1> QED BY <1>4, <1>5 DEF e

\* The piece that stands for the text at n, and the place where it goes on, are what
\* BackwardRecursion asks for.
LEMMA FrontTyped ==
    ASSUME NEW o \in Usable, NEW b \in Text, NEW n \in 1..Len(b)
    PROVE  /\ Piece(o, b, n) \in Text
           /\ After(o, b, n) \in 1..(Len(b) + 1) /\ After(o, b, n) > n
<1> DEFINE L == Len(b)
           token == n + Len(o.prefix)
           e == Min(EndsFrom(o, b, n))
<1>1. L \in Nat /\ n \in Nat /\ b \in Seq(STRING) /\ b[n] \in STRING /\ token \in Nat
      /\ token > n /\ Len(o.suffix) \in Nat /\ Len(o.suffix) > 0
      /\ o.maxTokenBytes \in Nat /\ Len(o.prefix) \in Nat
    <2>1. b \in Seq(STRING)
        BY DEF Text
    <2>2. L \in Nat
        BY <2>1, LenProperties
    <2>3. b[n] \in STRING
        BY <2>1, ElementOfSeq
    <2> QED BY <2>1, <2>2, <2>3, Lengths
<1>2. CASE ~Occurs(o.prefix, b, n)
    <2>1. <<b[n]>> \in Seq(STRING)
        BY <1>1
    <2>2. n + 1 \in 1..(L + 1) /\ n + 1 > n
        BY <1>1
    <2> QED BY <1>2, <2>1, <2>2 DEF Piece, After, Text
<1>3. CASE Occurs(o.prefix, b, n) /\ Ended(o, b, n)
    <2>1. e \in Nat /\ e >= token /\ e + Len(o.suffix) <= L + 1
        BY <1>3, EndsAre DEF Ended
    <2> HIDE DEF e
    <2>2. e - 1 \in 0..L /\ token \in Nat \ {0}
        BY <1>1, <2>1
    <2>3. SubSeq(b, token, e - 1) \in Text
        BY <1>1, <2>2, PartIs DEF Text
    <2>4. InPlaceOf(o, SubSeq(b, token, e - 1)) \in Text
        BY <2>3, PlaceOfTyped
    <2>5. e + Len(o.suffix) \in 1..(L + 1) /\ e + Len(o.suffix) > n
        BY <1>1, <2>1
    <2> QED BY <1>3, <2>4, <2>5 DEF Piece, After, e
<1>4. CASE Occurs(o.prefix, b, n) /\ ~Ended(o, b, n) /\ TooLong(o, b, n)
    <2>1. token + o.maxTokenBytes \in 0..L /\ n \in Nat \ {0}
        BY <1>1, <1>4 DEF TooLong
    <2>2. SubSeq(b, n, token + o.maxTokenBytes) \in Text
        BY <1>1, <2>1, PartIs DEF Text
    <2>3. token + o.maxTokenBytes + 1 \in 1..(L + 1) /\ token + o.maxTokenBytes + 1 > n
        BY <1>1, <2>1
    <2> QED BY <1>4, <2>2, <2>3 DEF Piece, After
<1>5. CASE Occurs(o.prefix, b, n) /\ ~Ended(o, b, n) /\ ~TooLong(o, b, n)
    <2>1. L \in 0..L /\ n \in Nat \ {0}
        BY <1>1
    <2>2. SubSeq(b, n, L) \in Text
        BY <1>1, <2>1, PartIs DEF Text
    <2>3. L + 1 \in 1..(L + 1) /\ L + 1 > n
        BY <1>1
    <2> QED BY <1>5, <2>2, <2>3 DEF Piece, After
<1> QED BY <1>2, <1>3, <1>4, <1>5

LEMMA RuleExists ==
    ASSUME NEW o \in Usable, NEW b \in Text
    PROVE  \E f : Rule(o, b, f)
<1> DEFINE L == Len(b)
           A == [n \in 1..L |-> Piece(o, b, n)]
           N == [n \in 1..L |-> After(o, b, n)]
<1>1. L \in Nat
    BY LenProperties DEF Text
<1>2. \A n \in 1..L : Piece(o, b, n) \in Seq(STRING) /\ After(o, b, n) \in 1..(L + 1)
                      /\ After(o, b, n) > n
    BY FrontTyped DEF Text
<1>3. A \in [1..L -> Seq(STRING)] /\ N \in [1..L -> 1..(L + 1)] /\ \A n \in 1..L : N[n] > n
    BY <1>2
<1>4. \A n \in 1..L : A[n] = Piece(o, b, n) /\ N[n] = After(o, b, n)
    OBVIOUS
<1> HIDE DEF A, N, L
<1>5. PICK f : Backwards(f, L, A, N, STRING)
    BY <1>1, <1>3, BackwardRecursion
<1>6. \A n \in 1..L : f[n] = Piece(o, b, n) \o f[After(o, b, n)]
    BY <1>4, <1>5 DEF Backwards
<1> QED BY <1>5, <1>6 DEF Rule, Text, L, Backwards

\* The recursion of the reference
Body(o, b, f) ==
    [n \in 1..(Len(b) + 1) |->
        IF n = Len(b) + 1 THEN <<>>
        ELSE IF ~Occurs(o.prefix, b, n) THEN <<b[n]>> \o f[n + 1]
        ELSE IF Ended(o, b, n)
             THEN InPlaceOf(o, SubSeq(b, n + Len(o.prefix), Min(EndsFrom(o, b, n)) - 1))
                    \o f[Min(EndsFrom(o, b, n)) + Len(o.suffix)]
        ELSE IF TooLong(o, b, n)
             THEN SubSeq(b, n, n + Len(o.prefix) + o.maxTokenBytes)
                    \o f[n + Len(o.prefix) + o.maxTokenBytes + 1]
        ELSE SubSeq(b, n, Len(b))]

\* The reference obeys its rule, whatever the text is.
LEMMA SubstitutedIs ==
    ASSUME NEW b, options \in Usable, b \in Text
    PROVE  Rule(options, b, Substituted(b))
<1> DEFINE L == Len(b)
           g == CHOOSE h : h = Body(options, b, h)
<1>1. PICK o : o = options
    OBVIOUS
<1>2. Substituted(b) = g
    BY DEF Substituted, Body, Ended, TooLong, EndsFrom, TokenEnds, Room, Replacement, InPlaceOf
<1>3. PICK f : Rule(o, b, f)
    BY <1>1, RuleExists
<1>4. L \in Nat /\ \A n \in 1..L : /\ Piece(o, b, n) \in Text
                                   /\ After(o, b, n) \in 1..(L + 1) /\ After(o, b, n) > n
    BY <1>1, FrontTyped, LenProperties DEF Text
<1>5. \A h : \A n \in 1..L :
        /\ (~Occurs(o.prefix, b, n) \/ Ended(o, b, n) \/ TooLong(o, b, n)) =>
                Body(o, b, h)[n] = Piece(o, b, n) \o h[After(o, b, n)]
        /\ Occurs(o.prefix, b, n) /\ ~Ended(o, b, n) /\ ~TooLong(o, b, n) =>
                /\ Body(o, b, h)[n] = Piece(o, b, n)
                /\ After(o, b, n) = L + 1
    <2> TAKE h
    <2> TAKE n \in 1..L
    <2>1. n \in 1..(L + 1) /\ n # L + 1
        BY <1>4
    <2> DEFINE B == Body(o, b, h)[n]
    <2>2. B = IF ~Occurs(o.prefix, b, n) THEN <<b[n]>> \o h[n + 1]
              ELSE IF Ended(o, b, n)
                   THEN InPlaceOf(o, SubSeq(b, n + Len(o.prefix), Min(EndsFrom(o, b, n)) - 1))
                          \o h[Min(EndsFrom(o, b, n)) + Len(o.suffix)]
              ELSE IF TooLong(o, b, n)
                   THEN SubSeq(b, n, n + Len(o.prefix) + o.maxTokenBytes)
                          \o h[n + Len(o.prefix) + o.maxTokenBytes + 1]
              ELSE SubSeq(b, n, Len(b))
        BY <2>1 DEF Body
    <2> HIDE DEF B
    <2>3. (~Occurs(o.prefix, b, n) \/ Ended(o, b, n) \/ TooLong(o, b, n)) =>
                B = Piece(o, b, n) \o h[After(o, b, n)]
        BY <2>2 DEF Piece, After
    <2>4. Occurs(o.prefix, b, n) /\ ~Ended(o, b, n) /\ ~TooLong(o, b, n) =>
                B = Piece(o, b, n) /\ After(o, b, n) = L + 1
        BY <2>2 DEF Piece, After
    <2> QED BY <2>3, <2>4 DEF B
<1>6. \A h : Body(o, b, h)[L + 1] = <<>>
    BY <1>4 DEF Body
<1>7. f = Body(o, b, f)
    <2>1. ASSUME NEW n \in 1..(L + 1) PROVE f[n] = Body(o, b, f)[n]
        <3>1. CASE n = L + 1
            BY <1>3, <1>6, <3>1 DEF Rule
        <3>2. CASE n # L + 1
            <4>1. n \in 1..L
                BY <1>4, <3>2
            <4>2. f[n] = Piece(o, b, n) \o f[After(o, b, n)]
                BY <1>3, <4>1 DEF Rule
            <4>3. CASE ~Occurs(o.prefix, b, n) \/ Ended(o, b, n) \/ TooLong(o, b, n)
                BY <1>5, <4>1, <4>2, <4>3
            <4>4. CASE Occurs(o.prefix, b, n) /\ ~Ended(o, b, n) /\ ~TooLong(o, b, n)
                <5>1. f[After(o, b, n)] = <<>>
                    BY <1>3, <1>5, <4>1, <4>4 DEF Rule
                <5>2. Piece(o, b, n) \o <<>> = Piece(o, b, n)
                    BY <1>4, <4>1, ConcatEmptySeq DEF Text
                <5> QED BY <1>5, <4>1, <4>2, <4>4, <5>1, <5>2
            <4> QED BY <4>3, <4>4
        <3> QED BY <3>1, <3>2
    <2>2. f \in [1..(L + 1) -> Text]
        BY <1>3 DEF Rule
    <2>3. Body(o, b, f) = [n \in 1..(L + 1) |-> Body(o, b, f)[n]]
        BY DEF Body
    <2> QED BY <2>1, <2>2, <2>3
<1>8. g = Body(o, b, g)
    BY <1>1, <1>7
<1> HIDE DEF g
<1> DEFINE K == {k \in Nat : \A n \in 1..(L + 1) : n >= L + 1 - k => g[n] = f[n]}
<1>9. 0 \in K
    <2>1. \A n \in 1..(L + 1) : n >= L + 1 - 0 => n = L + 1
        BY <1>4
    <2>2. g[L + 1] = f[L + 1]
        BY <1>6, <1>7, <1>8
    <2> QED BY <2>1, <2>2
<1>10. ASSUME NEW k \in Nat, k \in K PROVE k + 1 \in K
    <2> SUFFICES ASSUME NEW n \in 1..(L + 1), n >= L + 1 - (k + 1) PROVE g[n] = f[n]
        OBVIOUS
    <2>1. CASE n >= L + 1 - k
        BY <1>10, <2>1
    <2>2. CASE n < L + 1 - k
        <3>1. n \in 1..L
            BY <1>4, <2>2
        <3> DEFINE m == After(o, b, n)
        <3>2. m \in 1..(L + 1) /\ m > n
            BY <1>4, <3>1
        <3> HIDE DEF m
        <3>3. g[m] = f[m]
            BY <1>4, <1>10, <2>2, <3>2
        <3>4. CASE ~Occurs(o.prefix, b, n) \/ Ended(o, b, n) \/ TooLong(o, b, n)
            <4>1. \A h : Body(o, b, h)[n] = Piece(o, b, n) \o h[m]
                BY <1>5, <3>1, <3>4 DEF m
            <4> QED BY <1>7, <1>8, <3>3, <4>1
        <3>5. CASE Occurs(o.prefix, b, n) /\ ~Ended(o, b, n) /\ ~TooLong(o, b, n)
            <4>1. \A h : Body(o, b, h)[n] = Piece(o, b, n)
                BY <1>5, <3>1, <3>5
            <4> QED BY <1>7, <1>8, <4>1
        <3> QED BY <3>4, <3>5
    <2> QED BY <1>4, <2>1, <2>2
<1> HIDE DEF K
<1>11. \A k \in Nat : k \in K
    BY <1>9, <1>10, Counting
<1>12. \A n \in 1..(L + 1) : g[n] = f[n]
    <2>1. L + 1 \in K /\ \A n \in 1..(L + 1) : n >= L + 1 - (L + 1)
        BY <1>4, <1>11
    <2> QED BY <2>1 DEF K
<1>13. g = f
    <2>1. g = [n \in 1..(L + 1) |-> g[n]]
        <3>1. Body(o, b, g) = [n \in 1..(L + 1) |-> Body(o, b, g)[n]]
            BY DEF Body
        <3> QED BY <1>8, <3>1
    <2>2. f = [n \in 1..(L + 1) |-> f[n]]
        BY <1>3 DEF Rule
    <2> QED BY <1>12, <2>1, <2>2
<1> QED BY <1>1, <1>2, <1>3, <1>13

-----------------------------------------------------------------------------
(* The rules, for what has been read of a text *)

\* The word is in the text at m, within its first q bytes.
At(t, word, m, q) == m + Len(word) - 1 <= q /\ Begins(t, word, m, m + Len(word) - 1)

LEMMA ReadIs ==
    ASSUME NEW t \in Text, NEW q \in 0..Len(t)
    PROVE  /\ SubSeq(t, 1, q) \in Text /\ Len(SubSeq(t, 1, q)) = q /\ q \in Nat /\ Len(t) \in Nat
           /\ \A n \in 1..q : SubSeq(t, 1, q)[n] = t[n]
           /\ \A n \in Nat \ {0}, word \in Text : Occurs(word, SubSeq(t, 1, q), n) <=> At(t, word, n, q)
<1> DEFINE b == SubSeq(t, 1, q)
<1>1. t \in Seq(STRING) /\ Len(t) \in Nat /\ q \in Nat
    BY LenProperties DEF Text
<1>2. b \in Seq(STRING) /\ Len(b) = q /\ \A n \in 1..q : b[n] = t[n]
    BY <1>1, FirstIs
<1>3. \A n \in Nat \ {0}, word \in Seq(STRING) : Occurs(word, b, n) <=> At(t, word, n, q)
    BY <1>1, OccursIs DEF At
<1> HIDE DEF b
<1> QED BY <1>1, <1>2, <1>3 DEF Text, b

LEMMA EndsFromIs ==
    ASSUME NEW o \in Usable, NEW t \in Text, NEW q \in 0..Len(t), NEW n \in Nat \ {0}, NEW m
    PROVE  m \in EndsFrom(o, SubSeq(t, 1, q), n) <=>
                m \in Nat /\ m >= n + Len(o.prefix) /\ At(t, o.suffix, m, q)
<1>1. /\ Len(SubSeq(t, 1, q)) = q /\ q \in Nat /\ Len(o.prefix) \in Nat
      /\ Len(o.suffix) \in Nat /\ Len(o.suffix) > 0 /\ o.suffix \in Text
    BY ReadIs, Lengths
<1>2. \A x \in Nat \ {0} : Occurs(o.suffix, SubSeq(t, 1, q), x) <=> At(t, o.suffix, x, q)
    BY <1>1, ReadIs
<1>3. \A x \in Nat : At(t, o.suffix, x, q) => x <= q + 1
    BY <1>1 DEF At
<1>4. \A x \in 1..(q + 1) : x \in Nat \ {0}
    BY <1>1
<1>5. \A x \in Nat : x >= n + Len(o.prefix) => x \in Nat \ {0}
    BY <1>1
<1>6. \A x \in Nat \ {0} : x <= q + 1 => x \in 1..(q + 1)
    BY <1>1
<1> QED BY <1>1, <1>2, <1>3, <1>4, <1>5, <1>6 DEF EndsFrom, Occurrences

\* A byte at which no prefix begins stands for itself.
LEMMA LiteralRule ==
    ASSUME NEW o \in Usable, NEW t \in Text, NEW q \in 0..Len(t), NEW f,
           Rule(o, SubSeq(t, 1, q), f), NEW n \in 1..q, ~At(t, o.prefix, n, q)
    PROVE  f[n] = <<t[n]>> \o f[n + 1]
<1> DEFINE b == SubSeq(t, 1, q)
<1>1. Len(b) = q /\ b[n] = t[n] /\ n \in Nat \ {0} /\ o.prefix \in Text
    BY ReadIs, Lengths
<1>2. ~Occurs(o.prefix, b, n)
    BY <1>1, ReadIs
<1> HIDE DEF b
<1>3. f[n] = Piece(o, b, n) \o f[After(o, b, n)]
    BY <1>1 DEF Rule, b
<1> QED BY <1>1, <1>2, <1>3 DEF Piece, After

\* What becomes of the text from a on begins with the text from a up to n.
KeptUpTo(t, f, a, n) == f[a] = SubSeq(t, a, n - 1) \o f[n]

\* So does a run of such bytes.
LEMMA LiteralRun ==
    ASSUME NEW o \in Usable, NEW t \in Text, NEW q \in 0..Len(t), NEW f,
           Rule(o, SubSeq(t, 1, q), f), NEW a \in 1..(q + 1), NEW c \in a..(q + 1),
           \A n \in a..(c - 1) : ~At(t, o.prefix, n, q)
    PROVE  KeptUpTo(t, f, a, c)
<1> DEFINE K == {k \in Nat : a + k <= c => KeptUpTo(t, f, a, a + k)}
<1>1. /\ q \in Nat /\ Len(t) \in Nat /\ t \in Seq(STRING) /\ a \in Nat \ {0} /\ c \in Nat /\ q <= Len(t)
      /\ \A n \in 1..(q + 1) : f[n] \in Seq(STRING)
    BY ReadIs DEF Rule, Text
<1>2. 0 \in K
    <2>1. a - 1 < a /\ a \in Int /\ a - 1 \in Int /\ a + 0 = a
        BY <1>1
    <2>2. SubSeq(t, a, a - 1) = <<>>
        BY <2>1, SubSeqEmpty
    <2>3. <<>> \o f[a] = f[a]
        BY <1>1, ConcatEmptySeq
    <2>4. KeptUpTo(t, f, a, a)
        BY <2>2, <2>3 DEF KeptUpTo
    <2> QED BY <2>1, <2>4
<1>3. ASSUME NEW k \in Nat, k \in K PROVE k + 1 \in K
    <2> SUFFICES ASSUME a + (k + 1) <= c PROVE KeptUpTo(t, f, a, a + (k + 1))
        OBVIOUS
    <2>0. PICK n : n = a + k
        OBVIOUS
    <2>1. /\ n \in a..(c - 1) /\ n \in 1..q /\ n + 1 \in 1..(q + 1) /\ a + (k + 1) = n + 1
          /\ n - 1 \in Nat /\ n - 1 < Len(t) /\ a \in 1..((n - 1) + 1) /\ (n - 1) + 1 = n
          /\ n - 1 \in 0..Len(t) /\ n <= c /\ (n + 1) - 1 = n
        BY <1>1, <2>0
    <2>2. KeptUpTo(t, f, a, n)
        BY <1>3, <2>0, <2>1
    <2>3. f[n] = <<t[n]>> \o f[n + 1]
        BY <2>1, LiteralRule
    <2>4. SubSeq(t, a, n - 1) \o <<t[n]>> = SubSeq(t, a, n) /\ t[n] \in STRING
        <3>1. SubSeq(t, a, n - 1) \o <<t[(n - 1) + 1]>> = SubSeq(t, a, (n - 1) + 1)
              /\ t[(n - 1) + 1] \in STRING
            BY <1>1, <2>1, NextByte, SMTT(30)
        <3> QED BY <2>1, <3>1
    <2> DEFINE u == SubSeq(t, a, n - 1)
               v == <<t[n]>>
               w == f[n + 1]
    <2>5. u \in Seq(STRING)
        BY <1>1, <2>1, PartIs
    <2>6. v \in Seq(STRING) /\ w \in Seq(STRING)
        BY <1>1, <2>1, <2>4
    <2>7. f[a] = u \o f[n] /\ f[n] = v \o w /\ u \o v = SubSeq(t, a, n)
        BY <2>2, <2>3, <2>4 DEF KeptUpTo
    <2> HIDE DEF u, v, w, K
    <2>8. (u \o v) \o w = u \o (v \o w)
        <3>1. u \in Seq(STRING) /\ v \in Seq(STRING) /\ w \in Seq(STRING)
            BY <2>5, <2>6
        <3>2. Grouped(u, v, w)
            BY <3>1, Regrouped
        <3> QED BY <3>2 DEF Grouped
    <2>9. f[a] = SubSeq(t, a, n) \o w
        BY <2>7, <2>8
    <2>10. KeptUpTo(t, f, a, n + 1)
        BY <2>1, <2>9 DEF KeptUpTo, w
    <2> QED BY <2>1, <2>10
<1> HIDE DEF K
<1>4. c - a \in K /\ a + (c - a) = c
    <2>1. \A k \in Nat : k \in K
        BY <1>2, <1>3, Counting
    <2>2. c - a \in Nat /\ a + (c - a) = c
        BY <1>1
    <2> QED BY <2>1, <2>2
<1> QED BY <1>1, <1>4 DEF K

Replaced(o, b, f, n) == f[n] = Piece(o, b, n) \o f[After(o, b, n)]

\* There is a prefix at a, among the first q bytes.
Opened(o, b, f, a, q) ==
    /\ a \in 1..q /\ Occurs(o.prefix, b, a) /\ Len(b) = q /\ b \in Text
    /\ Replaced(o, b, f, a) /\ f[q + 1] = <<>>

LEMMA PrefixRead ==
    ASSUME NEW o \in Usable, NEW t \in Text, NEW q \in 0..Len(t), NEW f, NEW b, b = SubSeq(t, 1, q),
           Rule(o, b, f), NEW a \in Nat \ {0}, At(t, o.prefix, a, q)
    PROVE  Opened(o, b, f, a, q)
<1>1. Len(o.prefix) \in Nat /\ Len(o.prefix) > 0 /\ o.prefix \in Text /\ q \in Nat
    BY Lengths, ReadIs
<1>2. a \in 1..q
    BY <1>1 DEF At
<1>3. Occurs(o.prefix, b, a) /\ Len(b) = q /\ b \in Text
    BY <1>1, ReadIs
<1> QED BY <1>2, <1>3 DEF Rule, Opened, Replaced

\* No suffix is among the bytes from x to p, or begins among those from x up to u.
NoneYet(o, t, p, x) == \A m \in x..p : ~At(t, o.suffix, m, p)
NoneBefore(o, t, q, x, u) == \A m \in x..(u - 1) : ~At(t, o.suffix, m, q)

Turns(f, a, e, c) == f[a] = e \o f[c]

\* A token with a suffix that comes early enough stands for its value.
LEMMA CloseRule ==
    ASSUME NEW o \in Usable, NEW t \in Text, NEW q \in 0..Len(t), NEW f,
           Rule(o, SubSeq(t, 1, q), f), NEW a \in Nat \ {0}, At(t, o.prefix, a, q),
           NEW u \in Nat, u >= a + Len(o.prefix), At(t, o.suffix, u, q),
           NoneBefore(o, t, q, a + Len(o.prefix), u),
           u - (a + Len(o.prefix)) <= Room(o)
    PROVE  Turns(f, a, InPlaceOf(o, SubSeq(t, a + Len(o.prefix), u - 1)), u + Len(o.suffix))
<1>0. PICK b : b = SubSeq(t, 1, q)
    OBVIOUS
<1>00. Rule(o, b, f)
    BY <1>0
<1> DEFINE x == a + Len(o.prefix)
           e == Min(EndsFrom(o, b, a))
<1>1. Opened(o, b, f, a, q)
    BY <1>0, <1>00, PrefixRead
<1>11. /\ a \in 1..q /\ Occurs(o.prefix, b, a) /\ Len(b) = q /\ b \in Text
       /\ Replaced(o, b, f, a) /\ f[q + 1] = <<>>
    BY <1>1 DEF Opened
<1>2. \A m : m \in EndsFrom(o, b, a) <=> m \in Nat /\ m >= x /\ At(t, o.suffix, m, q)
    BY <1>0, EndsFromIs
<1>3. u \in EndsFrom(o, b, a)
    BY <1>2
<1>4. e \in EndsFrom(o, b, a) /\ \A m \in EndsFrom(o, b, a) : e <= m
    <2>1. \A m \in EndsFrom(o, b, a) : u <= m
        <3> TAKE m \in EndsFrom(o, b, a)
        <3>1. m \in Nat /\ m >= x /\ At(t, o.suffix, m, q)
            BY <1>2
        <3>2. ~(m \in x..(u - 1))
            BY <3>1 DEF NoneBefore
        <3>3. x \in Int
            BY Lengths
        <3> QED BY <3>1, <3>2, <3>3
    <2> QED BY <1>3, <2>1 DEF Min
<1>5. e = u
    <2>1. e \in Nat /\ e >= x /\ At(t, o.suffix, e, q) /\ e <= u
        BY <1>2, <1>3, <1>4
    <2>2. ~(e \in x..(u - 1))
        BY <2>1 DEF NoneBefore
    <2> HIDE DEF e
    <2>3. x \in Int
        BY Lengths
    <2> QED BY <2>1, <2>2, <2>3
<1>6. Ended(o, b, a)
    BY <1>3, <1>5 DEF Ended
<1>7. SubSeq(b, x, u - 1) = SubSeq(t, x, u - 1)
    <2>1. /\ x \in Nat /\ x >= 1 /\ Len(o.suffix) \in Nat /\ Len(o.suffix) > 0 /\ q \in Nat /\ Len(t) \in Nat
          /\ q <= Len(t)
        BY Lengths, ReadIs
    <2>2. u + Len(o.suffix) - 1 <= q
        BY DEF At
    <2>3. /\ 1 \in 1..(q + 1) /\ x \in 1..(q - 1 + 2) /\ u - 1 \in (x - 1)..(q - 1 + 1)
          /\ 1 + x - 1 = x /\ 1 + (u - 1) - 1 = u - 1
        BY <2>1, <2>2
    <2>4. t \in Seq(STRING)
        BY DEF Text
    <2>5. PICK y : y = x
        OBVIOUS
    <2>6. PICK z : z = u - 1
        OBVIOUS
    <2>7. /\ 1 \in 1..(q + 1) /\ y \in 1..(q - 1 + 2) /\ z \in (y - 1)..(q - 1 + 1)
          /\ 1 + y - 1 = y /\ 1 + z - 1 = z
        BY <2>3, <2>5, <2>6
    <2> HIDE DEF x
    <2>8. SubSeq(SubSeq(t, 1, q), y, z) = SubSeq(t, 1 + y - 1, 1 + z - 1)
        BY <2>4, <2>7, PartOfPart
    <2> QED BY <1>0, <2>5, <2>6, <2>7, <2>8
<1>8. Piece(o, b, a) = InPlaceOf(o, SubSeq(b, x, u - 1)) /\ After(o, b, a) = u + Len(o.suffix)
    BY <1>11, <1>5, <1>6 DEF Piece, After
<1> QED BY <1>11, <1>7, <1>8 DEF Replaced, Turns

\* One that has become too long stands for itself, as far as it has been read.
LEMMA AbortRule ==
    ASSUME NEW o \in Usable, NEW t \in Text, NEW q \in 0..Len(t), NEW f,
           Rule(o, SubSeq(t, 1, q), f), NEW a \in Nat \ {0}, At(t, o.prefix, a, q),
           NEW p \in Nat, p = a + Len(o.prefix) + o.maxTokenBytes, p <= q,
           NoneYet(o, t, p, a + Len(o.prefix))
    PROVE  Turns(f, a, SubSeq(t, a, p), p + 1)
<1>0. PICK b : b = SubSeq(t, 1, q)
    OBVIOUS
<1>00. Rule(o, b, f)
    BY <1>0
<1> DEFINE x == a + Len(o.prefix)
           e == Min(EndsFrom(o, b, a))
<1>1. Opened(o, b, f, a, q)
    BY <1>0, <1>00, PrefixRead
<1>11. /\ a \in 1..q /\ Occurs(o.prefix, b, a) /\ Len(b) = q /\ b \in Text
       /\ Replaced(o, b, f, a) /\ f[q + 1] = <<>>
    BY <1>1 DEF Opened
<1>2. \A m : m \in EndsFrom(o, b, a) <=> m \in Nat /\ m >= x /\ At(t, o.suffix, m, q)
    BY <1>0, EndsFromIs
<1>9. /\ x \in Nat /\ x >= 1 /\ Len(o.suffix) \in Nat /\ Len(o.suffix) > 0 /\ q \in Nat /\ Len(t) \in Nat
      /\ q <= Len(t) /\ o.maxTokenBytes \in Nat /\ p = x + o.maxTokenBytes
    BY Lengths, ReadIs
<1>3. ~Ended(o, b, a)
    <2> SUFFICES ASSUME Ended(o, b, a) PROVE FALSE
        OBVIOUS
    <2>1. e \in EndsFrom(o, b, a) /\ e - x <= Room(o)
        BY <1>11, EndsAre, ReadIs DEF Ended
    <2>2. e \in Nat /\ e >= x /\ At(t, o.suffix, e, q)
        BY <1>2, <2>1
    <2> HIDE DEF e
    <2>3. e + Len(o.suffix) - 1 <= p
        <3>1. \A i, j, k, l, m \in Int : i - j <= k - l + 1 /\ m = j + k => i + l - 1 <= m
            OBVIOUS
        <3>2. PICK r : r = Room(o) /\ r = o.maxTokenBytes - Len(o.suffix) + 1
            BY DEF Room
        <3>3. e - x <= r /\ e \in Int /\ x \in Int /\ Len(o.suffix) \in Int /\ o.maxTokenBytes \in Int
              /\ p \in Int /\ p = x + o.maxTokenBytes
            <4>1. e - x <= r
                BY ONLY <2>1, <3>2
            <4>2. e \in Int /\ x \in Int
                BY <1>9, <2>2
            <4>3. Len(o.suffix) \in Int /\ o.maxTokenBytes \in Int
                BY <1>9
            <4>4. p \in Int /\ p = x + o.maxTokenBytes
                BY <1>9
            <4> QED BY <4>1, <4>2, <4>3, <4>4
        <3> HIDE DEF x
        <3> QED BY ONLY <3>1, <3>2, <3>3, SMTT(30)
    <2>4. e \in x..p /\ At(t, o.suffix, e, p)
        BY <1>9, <2>2, <2>3 DEF At
    <2> QED BY <2>4 DEF NoneYet
<1>4. TooLong(o, b, a)
    BY <1>9, <1>11 DEF TooLong
<1>5. SubSeq(b, a, p) = SubSeq(t, a, p)
    <2>1. /\ 1 \in 1..(q + 1) /\ a \in 1..(q - 1 + 2) /\ p \in (a - 1)..(q - 1 + 1)
          /\ 1 + a - 1 = a /\ 1 + p - 1 = p
        BY <1>9, <1>11, SMTT(30)
    <2>2. SubSeq(SubSeq(t, 1, q), a, p) = SubSeq(t, 1 + a - 1, 1 + p - 1)
        <3>1. t \in Seq(STRING) /\ q \in 0..Len(t)
            BY <1>9 DEF Text
        <3> QED BY <2>1, <3>1, PartOfPart
    <2> QED BY <1>0, <2>1, <2>2
<1>6. Piece(o, b, a) = SubSeq(b, a, p) /\ After(o, b, a) = p + 1
    BY <1>11, <1>3, <1>4 DEF Piece, After
<1> QED BY <1>11, <1>5, <1>6 DEF Replaced, Turns

\* One that has no end yet stands for itself, to the end of what has been read.
LEMMA RestRule ==
    ASSUME NEW o \in Usable, NEW t \in Text, NEW q \in 0..Len(t), NEW f,
           Rule(o, SubSeq(t, 1, q), f), NEW a \in Nat \ {0}, At(t, o.prefix, a, q),
           a + Len(o.prefix) + o.maxTokenBytes > q,
           NoneYet(o, t, q, a + Len(o.prefix))
    PROVE  f[a] = SubSeq(t, a, q)
<1>0. PICK b : b = SubSeq(t, 1, q)
    OBVIOUS
<1>00. Rule(o, b, f)
    BY <1>0
<1> DEFINE x == a + Len(o.prefix)
           e == Min(EndsFrom(o, b, a))
<1>1. Opened(o, b, f, a, q)
    BY <1>0, <1>00, PrefixRead
<1>11. /\ a \in 1..q /\ Occurs(o.prefix, b, a) /\ Len(b) = q /\ b \in Text
       /\ Replaced(o, b, f, a) /\ f[q + 1] = <<>>
    BY <1>1 DEF Opened
<1>2. \A m : m \in EndsFrom(o, b, a) <=> m \in Nat /\ m >= x /\ At(t, o.suffix, m, q)
    BY <1>0, EndsFromIs
<1>9. /\ x \in Nat /\ x >= 1 /\ Len(o.suffix) \in Nat /\ Len(o.suffix) > 0 /\ q \in Nat /\ Len(t) \in Nat
      /\ q <= Len(t) /\ o.maxTokenBytes \in Nat
    BY Lengths, ReadIs
<1>3. ~Ended(o, b, a)
    <2> SUFFICES ASSUME Ended(o, b, a) PROVE FALSE
        OBVIOUS
    <2>1. e \in EndsFrom(o, b, a)
        BY <1>11, EndsAre, ReadIs DEF Ended
    <2>2. e \in Nat /\ e >= x /\ At(t, o.suffix, e, q)
        BY <1>2, <2>1
    <2> HIDE DEF e
    <2>3. e \in x..q
        BY <1>9, <2>2 DEF At
    <2> QED BY <2>2, <2>3 DEF NoneYet
<1>4. ~TooLong(o, b, a)
    BY <1>9, <1>11 DEF TooLong
<1>5. SubSeq(b, a, q) = SubSeq(t, a, q)
    <2>1. /\ 1 \in 1..(q + 1) /\ a \in 1..(q - 1 + 2) /\ q \in (a - 1)..(q - 1 + 1)
          /\ 1 + a - 1 = a /\ 1 + q - 1 = q
        BY <1>9, <1>11, SMTT(30)
    <2>2. SubSeq(SubSeq(t, 1, q), a, q) = SubSeq(t, 1 + a - 1, 1 + q - 1)
        BY <1>9, <2>1, PartOfPart DEF Text
    <2> QED BY <1>0, <2>1, <2>2
<1>6. Piece(o, b, a) = SubSeq(b, a, q) /\ After(o, b, a) = q + 1
    BY <1>11, <1>3, <1>4 DEF Piece, After
<1>7. SubSeq(t, a, q) \o <<>> = SubSeq(t, a, q)
    <2>1. SubSeq(t, a, q) \in Seq(STRING)
        BY PartIs DEF Text
    <2> QED BY <2>1, ConcatEmptySeq
<1> QED BY <1>11, <1>5, <1>6, <1>7 DEF Replaced

-----------------------------------------------------------------------------
(* The scanner, in the text *)

Scanners == [out : Text, reading : BOOLEAN, prefix : Text, token : Text, suffix : Text]

\* A word a part of which, that may have been matched, ends with its own beginning
OverlapsItself(word) ==
    \E n \in 2..(Len(word) - 1) : \E k \in 1..(n - 1) :
        SubSeq(word, 1, k) = SubSeq(word, n - k + 1, n)

\* At p the scanner holds back the text from a on, which may become a prefix.
InLiteral(o, t, s, p, a) ==
    /\ s.reading = FALSE /\ s.prefix = SubSeq(t, a, p) /\ s.token = <<>> /\ s.suffix = <<>>
    /\ Begins(t, o.prefix, a, p) /\ p + 1 - a < Len(o.prefix)

\* At p the scanner is in the token whose prefix is at a; what may become the suffix is at u.
InToken(o, t, s, p, a, u) ==
    LET x == a + Len(o.prefix)
    IN  /\ s.reading = TRUE /\ s.prefix = <<>>
        /\ At(t, o.prefix, a, p) /\ u \in x..(p + 1)
        /\ s.token = SubSeq(t, x, u - 1) /\ s.suffix = SubSeq(t, u, p)
        /\ Begins(t, o.suffix, u, p) /\ p + 1 - u < Len(o.suffix)
        /\ p + 1 - x <= o.maxTokenBytes

\* No suffix begins before u.
NoneEarlier(o, t, p, x, u) == \A m \in x..(u - 1) : ~Begins(t, o.suffix, m, p)

Follows(o, t, s, p, a) ==
    /\ s \in Scanners /\ a \in 1..(p + 1)
    /\ \/ InLiteral(o, t, s, p, a)
       \/ \E u \in Nat :
            /\ InToken(o, t, s, p, a, u)
            /\ ~OverlapsItself(o.suffix) =>
                /\ NoneEarlier(o, t, p, a + Len(o.prefix), u)
                /\ NoneYet(o, t, p, a + Len(o.prefix))

\* Nothing that has been read is to be replaced.
NothingKnown(o, t, p) ==
    (\A v \in Values : Occurrences(v.key, SubSeq(t, 1, p)) = {}) /\ ~o.replaceWithEmpty

\* The bytes e are what becomes of the text from a up to c, of which p bytes have been read.
Becomes(o, t, e, p, a, c) ==
    \A q \in p..Len(t) : \A f : Rule(o, SubSeq(t, 1, q), f) => f[a] = e \o f[c]
Emits(o, t, e, p, a, c) ==
    /\ e \in Text /\ c \in a..(p + 1)
    /\ ~OverlapsItself(o.suffix) => Becomes(o, t, e, p, a, c)
    /\ NothingKnown(o, t, p) => e = SubSeq(t, a, c - 1)

\* What begins a word begins it when less has been read.
LEMMA BeginsShorter ==
    ASSUME NEW t, NEW word \in Text, NEW m \in Int, NEW e \in Int, NEW p \in Int, p <= e,
           Begins(t, word, m, e)
    PROVE  Begins(t, word, m, p)
<1>1. Len(word) \in Nat
    BY LenProperties DEF Text
<1> QED BY <1>1 DEF Begins

LEMMA WordIs ==
    ASSUME NEW t \in Text, NEW word \in Text, NEW q \in 0..Len(t), NEW m \in Nat \ {0},
           At(t, word, m, q)
    PROVE  SubSeq(t, m, m + Len(word) - 1) = word
<1> DEFINE e == m + Len(word) - 1
<1>1. Len(word) \in Nat /\ e \in Nat /\ e - m + 1 = Len(word) /\ e <= q /\ q \in Nat /\ Len(t) \in Nat
    BY LenProperties DEF Text, At
<1>2. Occurs(word, SubSeq(t, 1, q), m)
    BY ReadIs
<1>3. SubSeq(SubSeq(t, 1, q), m, e) = word
    BY <1>2 DEF Occurs
<1>4. /\ 1 \in 1..(q + 1) /\ m \in 1..(q - 1 + 2) /\ e \in (m - 1)..(q - 1 + 1)
      /\ 1 + m - 1 = m /\ 1 + e - 1 = e
    BY <1>1
<1>5. SubSeq(SubSeq(t, 1, q), m, e) = SubSeq(t, 1 + m - 1, 1 + e - 1)
    BY <1>1, <1>4, PartOfPart DEF Text
<1> QED BY <1>3, <1>4, <1>5

\* The part of a text that is a beginning of a word, and as long
LEMMA WordRead ==
    ASSUME NEW t \in Text, NEW word \in Text, NEW p \in 0..Len(t), NEW m \in 1..(p + 1),
           Begins(t, word, m, p)
    PROVE  /\ SubSeq(t, m, p) = word => p - m + 1 = Len(word)
           /\ p - m + 1 = Len(word) => SubSeq(t, m, p) = word /\ At(t, word, m, p)
<1>1. Len(word) \in Nat /\ p \in Nat /\ Len(t) \in Nat
    BY LenProperties DEF Text
<1>2. Len(SubSeq(t, m, p)) = p - m + 1
    <2>1. Len(SubSeq(t, m, p)) = IF m <= p THEN p - m + 1 ELSE 0
        BY <1>1, PartIs DEF Text
    <2> QED BY <1>1, <2>1
<1>3. ASSUME p - m + 1 = Len(word) PROVE SubSeq(t, m, p) = word /\ At(t, word, m, p)
    <2>1. m + Len(word) - 1 = p /\ m \in Nat \ {0}
        BY <1>1, <1>3
    <2>2. At(t, word, m, p)
        BY <2>1 DEF At
    <2>3. SubSeq(t, m, m + Len(word) - 1) = word
        BY <2>1, <2>2, WordIs
    <2> QED BY <2>1, <2>2, <2>3
<1> QED BY <1>2, <1>3

\* A prefix, a token and what may become the suffix are the text from the prefix on.
LEMMA TokenIsText ==
    ASSUME NEW o \in Usable, NEW t \in Text, NEW p \in 0..Len(t), NEW a \in Nat \ {0},
           At(t, o.prefix, a, p), NEW v \in (a + Len(o.prefix))..(p + 1)
    PROVE  o.prefix \o SubSeq(t, a + Len(o.prefix), v - 1) \o SubSeq(t, v, p) = SubSeq(t, a, p)
<1> DEFINE x == a + Len(o.prefix)
<1>1. /\ Len(o.prefix) \in Nat /\ Len(o.prefix) > 0 /\ o.prefix \in Text /\ Len(t) \in Nat /\ p \in Nat
      /\ p <= Len(t) /\ x \in Nat /\ t \in Seq(STRING)
    BY Lengths, ReadIs DEF Text
<1>2. SubSeq(t, a, x - 1) = o.prefix
    BY <1>1, WordIs
<1>3. SubSeq(t, a, x - 1) \o SubSeq(t, (x - 1) + 1, v - 1) = SubSeq(t, a, v - 1)
    <2>1. x - 1 \in (a - 1)..Len(t) /\ v - 1 \in (x - 1)..Len(t)
        BY <1>1
    <2> QED BY <1>1, <2>1, Join
<1>4. SubSeq(t, a, v - 1) \o SubSeq(t, (v - 1) + 1, p) = SubSeq(t, a, p)
    <2>1. v - 1 \in (a - 1)..Len(t) /\ p \in (v - 1)..Len(t)
        BY <1>1
    <2> QED BY <1>1, <2>1, Join
<1>5. (x - 1) + 1 = x /\ (v - 1) + 1 = v
    BY <1>1
<1> QED BY <1>2, <1>3, <1>4, <1>5

-----------------------------------------------------------------------------
(* A byte of a literal *)

\* prefixMatchesCurrentWindow finds the first place from which on the text may become a
\* prefix.
WindowBegins(t, p, a, from, c) ==
    /\ from \in Nat \ {0} /\ c \in a..(p + 1) /\ Begins(t, options.prefix, c, p)
    /\ \A n \in a..(c - 1) : ~Begins(t, options.prefix, n, p)
    /\ SubSeq(SubSeq(t, a, p), 1, from - 1) = SubSeq(t, a, c - 1)
    /\ SubSeq(SubSeq(t, a, p), from, Len(SubSeq(t, a, p))) = SubSeq(t, c, p)

\* The rest of a window begins at the first place that may still become the prefix.
LEMMA WindowIs ==
    ASSUME options \in Usable, NEW t \in Text, NEW p \in 0..Len(t), NEW a \in 1..(p + 1), NEW from,
           from = WindowFrom(SubSeq(t, a, p))
    PROVE  WindowBegins(t, p, a, from, a + from - 1)
<1> DEFINE window == SubSeq(t, a, p)
           W == Len(window)
           places == {n \in 1..W + 1 : IsPrefix(SubSeq(window, n, W), options.prefix)}
           c == a + from - 1
<1>1. Len(t) \in Nat /\ p \in Nat /\ a \in Nat \ {0} /\ t \in Seq(STRING) /\ options.prefix \in Seq(STRING)
      /\ Len(options.prefix) \in Nat
    BY LenProperties, Lengths DEF Text
<1>2. W = p - a + 1
    <2>1. W = IF a <= p THEN p - a + 1 ELSE 0
        BY <1>1, PartIs
    <2> QED BY <1>1, <2>1
<1>3. ASSUME NEW m \in 1..(W + 1), NEW n \in (m - 1)..W
      PROVE  SubSeq(window, m, n) = SubSeq(t, a + m - 1, a + n - 1)
    <2>1. m \in 1..(p - a + 2) /\ n \in (m - 1)..(p - a + 1)
        BY <1>1, <1>2
    <2> QED BY <1>1, <2>1, PartOfPart
<1>4. ASSUME NEW n \in 1..(W + 1)
      PROVE  SubSeq(window, n, W) = SubSeq(t, a + n - 1, p)
             /\ (n \in places <=> Begins(t, options.prefix, a + n - 1, p))
    <2>1. W \in (n - 1)..W /\ a + W - 1 = p /\ a + n - 1 \in 1..(p + 1)
        BY <1>1, <1>2
    <2>2. SubSeq(window, n, W) = SubSeq(t, a + n - 1, p)
        BY <1>3, <2>1
    <2>3. IsPrefix(SubSeq(t, a + n - 1, p), options.prefix) <=> Begins(t, options.prefix, a + n - 1, p)
        BY <1>1, <2>1, PrefixIs
    <2> QED BY <2>2, <2>3
<1>5. W + 1 \in places
    <2>1. a + (W + 1) - 1 = p + 1 /\ W + 1 \in 1..(W + 1)
        BY <1>1, <1>2
    <2>2. Begins(t, options.prefix, p + 1, p)
        BY <1>1 DEF Begins
    <2> QED BY <1>4, <2>1, <2>2
<1>6. from = Min(places)
    BY DEF WindowFrom
<1>7. places \subseteq Nat
    BY <1>1, <1>2
<1>8. PICK x \in places : \A y \in places : x <= y
    BY <1>5, <1>7, LeastNumber
<1>9. from \in places /\ \A y \in places : from <= y
    BY <1>6, <1>8 DEF Min
<1>10. from \in 1..(W + 1)
    BY <1>9
<1> HIDE DEF places
<1>11. /\ from \in Nat \ {0} /\ c \in a..(p + 1)
    BY <1>1, <1>2, <1>10
<1>12. Begins(t, options.prefix, c, p) /\ SubSeq(window, from, W) = SubSeq(t, c, p)
    BY <1>4, <1>9, <1>10
<1>13. ASSUME NEW n \in a..(c - 1), Begins(t, options.prefix, n, p) PROVE FALSE
    <2>1. n - a + 1 \in 1..(W + 1) /\ a + (n - a + 1) - 1 = n
        BY <1>1, <1>2, <1>10
    <2>2. n - a + 1 \in places
        BY <1>4, <1>13, <2>1
    <2> QED BY <1>1, <1>9, <1>10, <2>2
<1>14. SubSeq(window, 1, from - 1) = SubSeq(t, a, c - 1)
    <2>1. 1 \in 1..(W + 1) /\ from - 1 \in (1 - 1)..W /\ a + 1 - 1 = a /\ a + (from - 1) - 1 = c - 1
        BY <1>1, <1>2, <1>10
    <2>2. SubSeq(window, 1, from - 1) = SubSeq(t, a + 1 - 1, a + (from - 1) - 1)
        BY <1>3, <2>1
    <2> QED BY <2>1, <2>2
<1> QED BY <1>11, <1>12, <1>13, <1>14 DEF WindowBegins

\* Consumed: the state s that follows the text up to p becomes one that follows it up to q.
Consumed(o, t, s, r, p, a) ==
    \E e \in Text : \E c \in Nat :
        r.out = s.out \o e /\ Emits(o, t, e, p, a, c) /\ Follows(o, t, r, p, c)

\* Bytes that are given out because no prefix begins there are what the reference has for them.
LEMMA LiteralEmits ==
    ASSUME NEW o \in Usable, NEW t \in Text, NEW p \in Nat, p < Len(t), NEW a \in 1..(p + 1),
           p + 1 - a < Len(o.prefix), NEW c \in a..(p + 2),
           \A n \in a..(c - 1) : ~Begins(t, o.prefix, n, p + 1)
    PROVE  Emits(o, t, SubSeq(t, a, c - 1), p + 1, a, c)
<1>1. /\ Len(o.prefix) \in Nat /\ Len(o.prefix) > 0 /\ o.prefix \in Text /\ Len(t) \in Nat
      /\ a \in Nat \ {0} /\ c \in Nat
    BY Lengths, LenProperties DEF Text
<1>2. SubSeq(t, a, c - 1) \in Text
    <2>1. c - 1 \in 0..Len(t)
        BY <1>1
    <2> QED BY <1>1, <2>1, PartIs DEF Text
<1>3. ASSUME NEW q \in (p + 1)..Len(t), NEW n \in a..(c - 1), At(t, o.prefix, n, q) PROVE FALSE
    <2> DEFINE e == n + Len(o.prefix) - 1
    <2>1. Begins(t, o.prefix, n, e) /\ n \in Int /\ e \in Int /\ p + 1 \in Int /\ p + 1 <= e
        BY <1>1, <1>3 DEF At
    <2>2. Begins(t, o.prefix, n, p + 1)
        BY <1>1, <2>1, BeginsShorter
    <2> QED BY <1>3, <2>2
<1>4. ASSUME NEW q \in (p + 1)..Len(t), NEW f, Rule(o, SubSeq(t, 1, q), f)
      PROVE  f[a] = SubSeq(t, a, c - 1) \o f[c]
    <2>1. q \in 0..Len(t) /\ a \in 1..(q + 1) /\ c \in a..(q + 1)
        BY <1>1
    <2>2. KeptUpTo(t, f, a, c)
        BY <1>3, <1>4, <2>1, LiteralRun
    <2> QED BY <2>2 DEF KeptUpTo
<1>5. Becomes(o, t, SubSeq(t, a, c - 1), p + 1, a, c)
    BY <1>4 DEF Becomes
<1> QED BY <1>2, <1>5 DEF Emits

\* A byte outside a token
LEMMA LiteralStep ==
    ASSUME options \in Usable, NEW t \in Text, NEW p \in Nat, p < Len(t), NEW a \in 1..(p + 1),
           NEW s \in Scanners, InLiteral(options, t, s, p, a)
    PROVE  Consumed(options, t, s, LiteralByte(s, t[p + 1]), p + 1, a)
<1> DEFINE window == SubSeq(t, a, p + 1)
           from == WindowFrom(window)
           c == a + from - 1
           e == SubSeq(t, a, c - 1)
           kept == SubSeq(t, c, p + 1)
           r == LiteralByte(s, t[p + 1])
           x == c + Len(options.prefix)
<1>1. /\ Len(options.prefix) \in Nat /\ Len(options.prefix) > 0 /\ options.prefix \in Text
      /\ Len(options.suffix) \in Nat /\ Len(options.suffix) > 0 /\ options.suffix \in Text
      /\ options.maxTokenBytes \in Nat /\ options.maxTokenBytes > 0
      /\ Len(t) \in Nat /\ p + 1 \in 0..Len(t) /\ a \in 1..((p + 1) + 1) /\ p + 1 \in Nat
    BY Lengths, LenProperties DEF Text
<1>2. Append(s.prefix, t[p + 1]) = window /\ t[p + 1] \in STRING
    <2>1. t \in Seq(STRING)
        BY DEF Text
    <2> QED BY <2>1, NextByte DEF InLiteral
<1>3. /\ from \in Nat \ {0} /\ c \in a..((p + 1) + 1) /\ Begins(t, options.prefix, c, p + 1)
      /\ \A n \in a..(c - 1) : ~Begins(t, options.prefix, n, p + 1)
      /\ SubSeq(window, 1, from - 1) = e
      /\ SubSeq(window, from, Len(window)) = kept
    <2>1. PICK m : m = WindowFrom(window)
        OBVIOUS
    <2>2. WindowBegins(t, p + 1, a, m, a + m - 1)
        BY <1>1, <2>1, WindowIs
    <2> QED BY <2>1, <2>2 DEF WindowBegins
<1>4. r = IF kept = options.prefix THEN Scanner(s.out \o e, TRUE, <<>>, <<>>, <<>>)
          ELSE Scanner(s.out \o e, FALSE, kept, s.token, s.suffix)
    <2> HIDE DEF window
    <2> QED BY <1>2, <1>3 DEF LiteralByte
<1> HIDE DEF r, from, window, c
<1>5. c \in a..(p + 2) /\ c \in Nat \ {0} /\ c \in 1..((p + 1) + 1)
    BY <1>1, <1>3, SMTT(30)
<1>6. Emits(options, t, e, p + 1, a, c)
    <2>1. p + 1 - a < Len(options.prefix)
        BY DEF InLiteral
    <2> QED BY <1>3, <1>5, <2>1, LiteralEmits
<1>7. e \in Text
    BY <1>6 DEF Emits
<1>8. kept \in Text /\ <<>> \in Text
    BY <1>1, <1>5, PartIs, EmptySeq DEF Text
<1>9. s.out \in Text
    BY DEF Scanners
<1>10. s.out \o e \in Text
    BY <1>7, <1>9, ConcatProperties DEF Text
<1>11. /\ kept = options.prefix => (p + 1) - c + 1 = Len(options.prefix)
       /\ (p + 1) - c + 1 = Len(options.prefix) => kept = options.prefix /\ At(t, options.prefix, c, p + 1)
    BY <1>1, <1>3, <1>5, WordRead
<1>12. (p + 1) - c + 1 <= Len(options.prefix)
    BY <1>3 DEF Begins
<1> HIDE DEF e, kept
<1>13. CASE kept = options.prefix
    <2>1. r = Scanner(s.out \o e, TRUE, <<>>, <<>>, <<>>)
        BY <1>4, <1>13
    <2>2. /\ r \in Scanners /\ r.out = s.out \o e /\ r.reading = TRUE /\ r.prefix = <<>>
          /\ r.token = <<>> /\ r.suffix = <<>>
        BY <1>8, <1>10, <2>1 DEF Scanner, Scanners
    <2>3. At(t, options.prefix, c, p + 1) /\ x = p + 2
        BY <1>1, <1>5, <1>11, <1>13
    <2>4. SubSeq(t, x, x - 1) = <<>> /\ SubSeq(t, x, p + 1) = <<>>
        <3>1. x - 1 < x /\ p + 1 < x /\ x \in Int /\ x - 1 \in Int /\ p + 1 \in Int
            BY <1>1, <2>3
        <3> QED BY <3>1, SubSeqEmpty
    <2>5. Begins(t, options.suffix, x, p + 1)
        BY <1>1, <2>3 DEF Begins
    <2>6. InToken(options, t, r, p + 1, c, x)
        <3>1. x \in x..((p + 1) + 1) /\ (p + 1) + 1 - x < Len(options.suffix)
              /\ (p + 1) + 1 - x <= options.maxTokenBytes
            BY <1>1, <2>3, SMTT(30)
        <3> QED BY <2>2, <2>3, <2>4, <2>5, <3>1 DEF InToken
    <2>7. NoneEarlier(options, t, p + 1, x, x) /\ NoneYet(options, t, p + 1, x)
        BY <1>1, <2>3 DEF NoneEarlier, NoneYet
    <2>8. Follows(options, t, r, p + 1, c)
        <3>1. x \in Nat
            BY <1>1, <2>3
        <3> QED BY <1>5, <2>2, <2>6, <2>7, <3>1 DEF Follows
    <2> QED BY <1>5, <1>6, <1>7, <2>2, <2>8 DEF Consumed, r
<1>14. CASE kept # options.prefix
    <2>1. r = Scanner(s.out \o e, FALSE, kept, <<>>, <<>>)
        BY <1>4, <1>14 DEF InLiteral
    <2>2. /\ r \in Scanners /\ r.out = s.out \o e /\ r.reading = FALSE /\ r.prefix = kept
          /\ r.token = <<>> /\ r.suffix = <<>>
        BY <1>8, <1>10, <2>1 DEF Scanner, Scanners
    <2>3. (p + 1) + 1 - c < Len(options.prefix)
        BY <1>1, <1>5, <1>11, <1>12, <1>14, SMTT(30)
    <2>4. InLiteral(options, t, r, p + 1, c)
        BY <1>3, <2>2, <2>3 DEF InLiteral, kept
    <2>5. Follows(options, t, r, p + 1, c)
        BY <1>5, <2>2, <2>4 DEF Follows
    <2> QED BY <1>5, <1>6, <1>7, <2>2, <2>5 DEF Consumed, r
<1> QED BY <1>13, <1>14

-----------------------------------------------------------------------------
(* A byte of a token *)

\* A suffix that does not overlap itself cannot begin in what has been matched of it.
LEMMA NoneEarlierKept ==
    ASSUME NEW o \in Usable, NEW t \in Text, NEW p \in Nat, p < Len(t), NEW x \in Nat \ {0},
           NEW u \in x..(p + 1), NEW v \in u..(p + 2),
           ~OverlapsItself(o.suffix), NoneEarlier(o, t, p, x, u),
           Begins(t, o.suffix, u, p), p + 1 - u < Len(o.suffix),
           v # u => ~Begins(t, o.suffix, u, p + 1),
           v = p + 2 => ~Begins(t, o.suffix, p + 1, p + 1)
    PROVE  NoneEarlier(o, t, p + 1, x, v)
<1> DEFINE w == o.suffix
<1>1. w \in Text /\ Len(w) \in Nat /\ Len(w) > 0 /\ u \in Nat /\ v \in Nat /\ x \in Nat /\ w \in Seq(STRING)
      /\ Len(t) \in Nat /\ t \in Seq(STRING)
    BY Lengths, LenProperties DEF Text
<1> HIDE DEF w
<1> SUFFICES ASSUME NEW m \in x..(v - 1), Begins(t, w, m, p + 1) PROVE FALSE
    BY DEF NoneEarlier, w
<1>2. m \in Int /\ p + 1 \in Int /\ p <= p + 1 /\ m \in Nat \ {0}
    BY <1>1
<1>3. CASE m < u
    <2>1. Begins(t, w, m, p)
        BY <1>1, <1>2, BeginsShorter
    <2>2. m \in x..(u - 1)
        BY <1>1, <1>3
    <2> QED BY <2>1, <2>2 DEF NoneEarlier, w
<1>4. CASE m = u
    BY <1>1, <1>4 DEF w
<1>5. CASE m = p + 1
    <2>1. v = p + 2
        BY <1>1, <1>5
    <2> QED BY <1>5, <2>1 DEF w
<1>6. CASE m > u /\ m <= p
    <2> DEFINE n == p - u + 1
               k == p - m + 1
    <2>1. n \in 2..(Len(w) - 1) /\ k \in 1..(n - 1)
        BY <1>1, <1>6 DEF w
    <2>2. Begins(t, w, m, p)
        BY <1>1, <1>2, BeginsShorter
    <2>3. \A j \in m..p : t[j] = w[j - m + 1] /\ t[j] = w[j - u + 1]
        <3>1. \A j \in m..p : t[j] = w[j - m + 1]
            BY <2>2 DEF Begins
        <3>2. \A j \in u..p : t[j] = w[j - u + 1]
            BY DEF Begins, w
        <3>3. \A j \in m..p : j \in u..p
            BY <1>1, <1>6
        <3> QED BY <3>1, <3>2, <3>3
    <2>4. \A i \in 1..k : w[i] = w[n - k + i]
        <3> TAKE i \in 1..k
        <3>1. m + i - 1 \in m..p /\ (m + i - 1) - m + 1 = i /\ (m + i - 1) - u + 1 = n - k + i
            BY <1>1, <1>2
        <3> QED BY <2>3, <3>1
    <2> DEFINE f == SubSeq(w, 1, k)
               g == SubSeq(w, n - k + 1, n)
    <2>5. n \in Nat /\ k \in Nat /\ n <= Len(w) /\ k >= 1 /\ k < n /\ k \in 0..Len(w) /\ n \in 0..Len(w)
          /\ n - k + 1 \in Nat \ {0}
        BY <1>1, <2>1
    <2> HIDE DEF n, k
    <2>6. f \in Seq(STRING) /\ Len(f) = k /\ \A i \in 1..k : f[i] = w[i]
        BY <1>1, <2>5, FirstIs
    <2>7. g \in Seq(STRING) /\ Len(g) = k /\ \A i \in 1..k : g[i] = w[n - k + i]
        <3>1. /\ g \in Seq(STRING) /\ Len(g) = (IF n - k + 1 <= n THEN n - (n - k + 1) + 1 ELSE 0)
              /\ \A i \in 1..(n - (n - k + 1) + 1) : g[i] = w[(n - k + 1) + i - 1]
            BY <1>1, <2>5, PartIs, SMTT(30)
        <3>2. n - (n - k + 1) + 1 = k /\ n - k + 1 <= n
              /\ \A i \in 1..k : (n - k + 1) + i - 1 = n - k + i
            BY <2>5
        <3> HIDE DEF g
        <3> QED BY <3>1, <3>2
    <2> HIDE DEF f, g
    <2>8. \A i \in 1..k : f[i] = g[i]
        BY <2>4, <2>6, <2>7
    <2>9. f = g
        BY <2>6, <2>7, <2>8, SeqEqual
    <2>10. n \in 2..(Len(w) - 1) /\ k \in 1..(n - 1)
        BY <2>1 DEF n, k
    <2> QED BY <2>9, <2>10 DEF OverlapsItself, f, g, w
<1> QED BY <1>1, <1>2, <1>3, <1>4, <1>5, <1>6

\* The state after a byte of a token, before it is looked at
Stepped(t, s, r, p, x, u, v) ==
    /\ r = Scanner(s.out, TRUE, <<>>, SubSeq(t, x, v - 1), SubSeq(t, v, p + 1))
    /\ v \in u..(p + 2) /\ Begins(t, options.suffix, v, p + 1)
    /\ v # u => ~Begins(t, options.suffix, u, p + 1)
    /\ v = p + 2 => ~Begins(t, options.suffix, p + 1, p + 1)

Looked(r) ==
    IF r.suffix = options.suffix THEN Closed(r)
    ELSE IF Len(r.token) + Len(r.suffix) > options.maxTokenBytes THEN Aborted(r)
    ELSE r

\* A byte in a token makes one of three states; then the state is looked at.
LEMMA TokenByteIs ==
    ASSUME options \in Usable, NEW t \in Text, NEW p \in Nat, p < Len(t), NEW a \in 1..(p + 1),
           NEW s \in Scanners, NEW u \in Nat, InToken(options, t, s, p, a, u)
    PROVE  \E r : \E v \in Nat :
                /\ TokenByte(s, t[p + 1]) = Looked(r)
                /\ Stepped(t, s, r, p, a + Len(options.prefix), u, v)
<1> DEFINE w == options.suffix
           x == a + Len(options.prefix)
           byte == t[p + 1]
           matches == Append(s.suffix, byte)
           extends == IsPrefix(matches, w)
           token == IF extends THEN s.token ELSE s.token \o s.suffix
           next == IF extends THEN Scanner(s.out, TRUE, s.prefix, token, matches)
                   ELSE IF byte = w[1] THEN Scanner(s.out, TRUE, s.prefix, token, <<byte>>)
                   ELSE Scanner(s.out, TRUE, s.prefix, Append(token, byte), <<>>)
<1>1. /\ w \in Text /\ Len(w) \in Nat /\ Len(w) > 0 /\ u \in x..(p + 1) /\ x \in Nat \ {0}
      /\ Len(t) \in Nat /\ t \in Seq(STRING) /\ w \in Seq(STRING) /\ p + 1 \in 0..Len(t)
      /\ u \in 1..((p + 1) + 1) /\ u \in 1..(p + 1)
    BY Lengths, LenProperties DEF Text, InToken
<1>2. s.prefix = <<>> /\ s.token = SubSeq(t, x, u - 1) /\ s.suffix = SubSeq(t, u, p)
      /\ Begins(t, w, u, p) /\ p + 1 - u < Len(w)
    BY DEF InToken
<1>3. matches = SubSeq(t, u, p + 1) /\ byte \in STRING
    BY <1>1, <1>2, NextByte, SMTT(30)
<1>4. extends <=> Begins(t, w, u, p + 1)
    BY <1>1, <1>3, PrefixIs
<1>5. s.token \o s.suffix = SubSeq(t, x, p)
    <2>1. u - 1 \in (x - 1)..Len(t) /\ p \in (u - 1)..Len(t) /\ (u - 1) + 1 = u
        BY <1>1
    <2>2. SubSeq(t, x, u - 1) \o SubSeq(t, (u - 1) + 1, p) = SubSeq(t, x, p)
        BY <1>1, <2>1, Join
    <2> QED BY <1>2, <2>1, <2>2
<1>6. Begins(t, w, p + 1, p + 1) <=> byte = w[1]
    <2>1. (p + 1) - (p + 1) + 1 = 1 /\ 1 <= Len(w)
        BY <1>1
    <2>2. \A j \in (p + 1)..(p + 1) : j = p + 1
        BY <1>1
    <2>3. p + 1 \in (p + 1)..(p + 1)
        BY <1>1
    <2> QED BY <2>1, <2>2, <2>3 DEF Begins
<1>7. TokenByte(s, byte) = Looked(next)
    BY DEF TokenByte, Looked
<1>8. CASE Begins(t, w, u, p + 1)
    <2>1. next = Scanner(s.out, TRUE, <<>>, SubSeq(t, x, u - 1), SubSeq(t, u, p + 1))
        BY <1>2, <1>3, <1>4, <1>8
    <2>2. u \in u..(p + 2) /\ u # p + 2
        BY <1>1
    <2> HIDE DEF next, byte, x
    <2>3. Stepped(t, s, next, p, x, u, u)
        BY <1>8, <2>1, <2>2 DEF Stepped
    <2> QED BY <1>7, <2>3 DEF byte, x
<1>9. CASE ~Begins(t, w, u, p + 1) /\ byte = w[1]
    <2>1. SubSeq(t, p + 1, p + 1) = <<byte>>
        <3>1. SubSeq(t, p + 1, p) \o <<t[p + 1]>> = SubSeq(t, p + 1, p + 1)
            <4>1. p + 1 \in 1..(p + 1)
                OBVIOUS
            <4> QED BY <1>1, <4>1, NextByte
        <3>2. SubSeq(t, p + 1, p) = <<>>
            <4>1. p < p + 1 /\ p \in Int /\ p + 1 \in Int
                OBVIOUS
            <4> QED BY <4>1, SubSeqEmpty
        <3>3. <<byte>> \in Seq(STRING)
            BY <1>3
        <3>4. <<>> \o <<byte>> = <<byte>>
            BY <3>3, ConcatEmptySeq
        <3> QED BY <3>1, <3>2, <3>4
    <2>2. next = Scanner(s.out, TRUE, <<>>, SubSeq(t, x, p), SubSeq(t, p + 1, p + 1))
        BY <1>2, <1>4, <1>5, <1>9, <2>1
    <2>3. p + 1 \in u..(p + 2) /\ p + 1 # p + 2 /\ (p + 1) - 1 = p /\ p + 1 \in Nat
        BY <1>1
    <2>4. Begins(t, w, p + 1, p + 1)
        BY <1>6, <1>9
    <2> HIDE DEF next, byte, x
    <2>5. Stepped(t, s, next, p, x, u, p + 1)
        BY <1>9, <2>2, <2>3, <2>4 DEF Stepped
    <2> QED BY <1>7, <2>3, <2>5 DEF byte, x
<1>10. CASE ~Begins(t, w, u, p + 1) /\ byte # w[1]
    <2>1. Append(SubSeq(t, x, p), byte) = SubSeq(t, x, p + 1)
        <3>1. x \in 1..(p + 1)
            BY <1>1
        <3> QED BY <1>1, <3>1, NextByte
    <2>2. SubSeq(t, p + 2, p + 1) = <<>>
        <3>1. p + 1 < p + 2 /\ p + 1 \in Int /\ p + 2 \in Int
            OBVIOUS
        <3> QED BY <3>1, SubSeqEmpty
    <2>3. next = Scanner(s.out, TRUE, <<>>, SubSeq(t, x, p + 1), SubSeq(t, p + 2, p + 1))
        BY <1>2, <1>4, <1>5, <1>10, <2>1, <2>2
    <2>4. p + 2 \in u..(p + 2) /\ (p + 2) - 1 = p + 1 /\ p + 2 \in Nat
        BY <1>1
    <2>5. Begins(t, w, p + 2, p + 1)
        BY <1>1 DEF Begins
    <2>6. ~Begins(t, w, p + 1, p + 1)
        BY <1>6, <1>10
    <2> HIDE DEF next, byte, x
    <2>7. Stepped(t, s, next, p, x, u, p + 2)
        BY <1>10, <2>3, <2>4, <2>5, <2>6 DEF Stepped
    <2> QED BY <1>7, <2>4, <2>7 DEF byte, x
<1> QED BY <1>8, <1>9, <1>10

\* A scanner that holds nothing back
LEMMA NothingHeldBack ==
    ASSUME NEW o \in Usable, NEW t \in Text, NEW p \in Nat, p <= Len(t), NEW r \in Scanners,
           r.reading = FALSE, r.prefix = <<>>, r.token = <<>>, r.suffix = <<>>
    PROVE  Follows(o, t, r, p, p + 1)
<1>1. Len(o.prefix) \in Nat /\ Len(o.prefix) > 0
    BY Lengths
<1>2. SubSeq(t, p + 1, p) = <<>>
    <2>1. p < p + 1 /\ p \in Int /\ p + 1 \in Int
        OBVIOUS
    <2> QED BY <2>1, SubSeqEmpty
<1>3. Begins(t, o.prefix, p + 1, p)
    BY <1>1 DEF Begins
<1>4. InLiteral(o, t, r, p, p + 1)
    BY <1>1, <1>2, <1>3 DEF InLiteral
<1>5. p + 1 \in 1..(p + 1)
    OBVIOUS
<1> QED BY <1>4, <1>5 DEF Follows

\* What is known of the scanner in a token, when a byte has been added
InTokenStepped(t, s, r, p, a, u, v) ==
    /\ InToken(options, t, s, p, a, u) /\ Stepped(t, s, r, p, a + Len(options.prefix), u, v)
    /\ ~OverlapsItself(options.suffix) =>
        /\ NoneEarlier(options, t, p, a + Len(options.prefix), u)
        /\ NoneYet(options, t, p, a + Len(options.prefix))

SteppedIs(t, s, r, p, a, v) ==
    LET x == a + Len(options.prefix)
    IN  /\ r \in Scanners /\ r.out = s.out /\ r.reading = TRUE /\ r.prefix = <<>>
        /\ r.token = SubSeq(t, x, v - 1) /\ r.suffix = SubSeq(t, v, p + 1)
        /\ Len(r.token) = v - x /\ Len(r.suffix) = p + 2 - v
        /\ v \in x..(p + 2) /\ p + 2 - v <= Len(options.suffix)
        /\ r.suffix = options.suffix <=> p + 2 - v = Len(options.suffix)
        /\ Begins(t, options.suffix, v, p + 1)
        /\ options.prefix \o r.token \o r.suffix = SubSeq(t, a, p + 1)
        /\ At(t, options.prefix, a, p + 1)
        /\ ~OverlapsItself(options.suffix) => NoneEarlier(options, t, p + 1, x, v)

\* Each of them still follows the text, and no suffix has been passed over.
LEMMA SteppedFacts ==
    ASSUME options \in Usable, NEW t \in Text, NEW p \in Nat, p < Len(t), NEW a \in 1..(p + 1),
           NEW s \in Scanners, NEW u \in Nat, NEW r, NEW v \in Nat,
           InTokenStepped(t, s, r, p, a, u, v)
    PROVE  SteppedIs(t, s, r, p, a, v)
<1> DEFINE w == options.suffix
           x == a + Len(options.prefix)
<1>1. /\ w \in Text /\ Len(w) \in Nat /\ Len(w) > 0 /\ u \in x..(p + 1) /\ x \in Nat \ {0}
      /\ Len(t) \in Nat /\ t \in Seq(STRING) /\ p + 1 \in 0..Len(t) /\ Len(options.prefix) \in Nat
      /\ a \in Nat \ {0} /\ p + 1 \in Nat
    <2>1. InToken(options, t, s, p, a, u)
        BY DEF InTokenStepped
    <2>2. u \in x..(p + 1)
        BY <2>1 DEF InToken
    <2>3. w \in Text /\ Len(w) \in Nat /\ Len(w) > 0 /\ Len(options.prefix) \in Nat
        BY Lengths
    <2>4. t \in Seq(STRING) /\ Len(t) \in Nat
        BY LenProperties DEF Text
    <2> QED BY <2>2, <2>3, <2>4
<1>2. /\ r = Scanner(s.out, TRUE, <<>>, SubSeq(t, x, v - 1), SubSeq(t, v, p + 1))
      /\ v \in u..(p + 2) /\ Begins(t, w, v, p + 1)
      /\ v # u => ~Begins(t, w, u, p + 1)
      /\ v = p + 2 => ~Begins(t, w, p + 1, p + 1)
    BY DEF InTokenStepped, Stepped
<1>3. v \in x..(p + 2) /\ v \in Nat \ {0} /\ v - 1 \in 0..Len(t) /\ v \in 1..((p + 1) + 1)
    BY <1>1, <1>2
<1>4. SubSeq(t, x, v - 1) \in Text /\ Len(SubSeq(t, x, v - 1)) = v - x
    <2>1. /\ SubSeq(t, x, v - 1) \in Text
          /\ Len(SubSeq(t, x, v - 1)) = IF x <= v - 1 THEN (v - 1) - x + 1 ELSE 0
        BY <1>1, <1>3, PartIs DEF Text
    <2>2. x <= v - 1 \/ v = x
        BY <1>1, <1>3, SMTT(30)
    <2> HIDE DEF x
    <2> QED BY <1>1, <1>3, <2>1, <2>2
<1>5. SubSeq(t, v, p + 1) \in Text /\ Len(SubSeq(t, v, p + 1)) = p + 2 - v
    <2>1. /\ SubSeq(t, v, p + 1) \in Text
          /\ Len(SubSeq(t, v, p + 1)) = IF v <= p + 1 THEN (p + 1) - v + 1 ELSE 0
        BY <1>1, <1>3, PartIs DEF Text
    <2>2. v <= p + 1 \/ v = p + 2
        BY <1>1, <1>3
    <2> QED BY <1>1, <1>3, <2>1, <2>2
<1>6. /\ r \in Scanners /\ r.out = s.out /\ r.reading = TRUE /\ r.prefix = <<>>
      /\ r.token = SubSeq(t, x, v - 1) /\ r.suffix = SubSeq(t, v, p + 1)
    <2>1. <<>> \in Text /\ s.out \in Text
        BY EmptySeq DEF Text, Scanners
    <2> QED BY <1>2, <1>4, <1>5, <2>1 DEF Scanner, Scanners
<1>7. p + 2 - v <= Len(w)
    BY <1>1, <1>2, <1>3, SMTT(30) DEF Begins
<1>8. SubSeq(t, v, p + 1) = w <=> p + 2 - v = Len(w)
    <2>1. /\ SubSeq(t, v, p + 1) = w => (p + 1) - v + 1 = Len(w)
          /\ (p + 1) - v + 1 = Len(w) => SubSeq(t, v, p + 1) = w
        <3>1. p + 1 \in 0..Len(t) /\ v \in 1..((p + 1) + 1) /\ Begins(t, w, v, p + 1)
            BY <1>1, <1>2, <1>3
        <3> HIDE DEF w
        <3> QED BY ONLY <3>1, <1>1, t \in Text, WordRead
    <2>2. (p + 1) - v + 1 = p + 2 - v
        BY <1>3
    <2> QED BY <2>1, <2>2
<1>9. At(t, options.prefix, a, p + 1)
    BY <1>1, SMTT(30) DEF At, InToken, InTokenStepped
<1>10. options.prefix \o SubSeq(t, x, v - 1) \o SubSeq(t, v, p + 1) = SubSeq(t, a, p + 1)
    <2>1. v \in x..((p + 1) + 1)
        BY <1>3
    <2> QED BY <1>1, <1>9, <2>1, TokenIsText
<1>11. ~OverlapsItself(w) => NoneEarlier(options, t, p + 1, x, v)
    <2> SUFFICES ASSUME ~OverlapsItself(w) PROVE NoneEarlier(options, t, p + 1, x, v)
        OBVIOUS
    <2>1. NoneEarlier(options, t, p, x, u) /\ Begins(t, w, u, p) /\ p + 1 - u < Len(w)
        BY DEF InTokenStepped, InToken
    <2> QED BY <1>1, <1>2, <2>1, NoneEarlierKept
<1> QED BY <1>2, <1>3, <1>4, <1>5, <1>6, <1>7, <1>8, <1>9, <1>10, <1>11 DEF SteppedIs

NoSuffixYet(t, p, a) ==
    ~OverlapsItself(options.suffix) => NoneYet(options, t, p + 1, a + Len(options.prefix))
Continuing(t, s, r, p, a, u, v) ==
    /\ options \in Usable /\ t \in Text /\ p \in Nat /\ p < Len(t) /\ a \in 1..(p + 1)
    /\ s \in Scanners /\ u \in Nat /\ v \in Nat
    /\ InTokenStepped(t, s, r, p, a, u, v) /\ r.suffix # options.suffix

\* If the suffix is not complete, no suffix ends here.
LEMMA TokenContinues ==
    ASSUME NEW t, NEW s, NEW r, NEW p, NEW a, NEW u, NEW v, Continuing(t, s, r, p, a, u, v)
    PROVE  NoSuffixYet(t, p, a)
<1>0. /\ options \in Usable /\ t \in Text /\ p \in Nat /\ p < Len(t) /\ a \in 1..(p + 1)
      /\ s \in Scanners /\ u \in Nat /\ v \in Nat
      /\ InTokenStepped(t, s, r, p, a, u, v) /\ r.suffix # options.suffix
    BY DEF Continuing
<1> USE <1>0
<1> DEFINE w == options.suffix
           x == a + Len(options.prefix)
<1> SUFFICES ASSUME ~OverlapsItself(w), NEW m \in x..(p + 1), At(t, w, m, p + 1) PROVE FALSE
    BY DEF NoneYet, NoSuffixYet
<1>1. /\ v \in x..(p + 2) /\ p + 2 - v <= Len(w) /\ p + 2 - v # Len(w)
      /\ NoneEarlier(options, t, p + 1, x, v)
    <2>1. SteppedIs(t, s, r, p, a, v)
        BY SteppedFacts
    <2> QED BY <2>1 DEF SteppedIs
<1>2. Len(w) \in Nat /\ Len(w) > 0 /\ x \in Nat
    BY Lengths
<1>3. NoneYet(options, t, p, x)
    BY DEF InTokenStepped
<1>4. m + Len(w) - 1 <= p + 1 /\ Begins(t, w, m, m + Len(w) - 1)
    BY DEF At
<1>5. CASE m + Len(w) - 1 <= p
    <2>1. At(t, w, m, p) /\ m \in x..p
        BY <1>2, <1>4, <1>5 DEF At
    <2> QED BY <1>3, <2>1 DEF NoneYet
<1>6. CASE m + Len(w) - 1 = p + 1
    <2>1. Begins(t, w, m, p + 1)
        BY <1>4, <1>6
    <2>2. ~(m \in x..(v - 1))
        BY <1>1, <2>1 DEF NoneEarlier
    <2> HIDE DEF w, x
    <2> QED BY <1>1, <1>2, <1>6, <2>2, SMTT(30)
<1> QED BY <1>2, <1>4, <1>5, <1>6, SMTT(30)

LEMMA AbortedText ==
    ASSUME options \in Usable, NEW r \in Scanners
    PROVE  /\ Aborted(r) = Scanner(r.out \o (options.prefix \o r.token \o r.suffix),
                                   FALSE, r.prefix, <<>>, <<>>)
           /\ options.prefix \o r.token \o r.suffix \in Text
<1> DEFINE a == r.out
           b == options.prefix
           c == r.token
           d == r.suffix
<1>1. a \in Seq(STRING) /\ b \in Seq(STRING) /\ c \in Seq(STRING) /\ d \in Seq(STRING)
    BY DEF Scanners, Usable, Text
<1> DEFINE f == a \o b
           g == b \o c
<1>2. Aborted(r) = Scanner((f \o c) \o d, FALSE, r.prefix, <<>>, <<>>)
    BY DEF Aborted
<1> HIDE DEF a, b, c, d
<1>3. f \in Seq(STRING) /\ g \in Seq(STRING)
    BY <1>1, ConcatProperties
<1>4. f \o c = a \o g
    <2>1. a \in Seq(STRING) /\ b \in Seq(STRING) /\ c \in Seq(STRING)
        BY <1>1
    <2>2. Grouped(a, b, c)
        BY <2>1, Regrouped
    <2> QED BY <2>2 DEF Grouped
<1>5. g \o d \in Seq(STRING)
    BY <1>1, <1>3, ConcatProperties
<1> HIDE DEF f, g
<1>6. (a \o g) \o d = a \o (g \o d)
    <2>1. a \in Seq(STRING) /\ g \in Seq(STRING) /\ d \in Seq(STRING)
        BY <1>1, <1>3
    <2>2. Grouped(a, g, d)
        BY <2>1, Regrouped
    <2> QED BY <2>2 DEF Grouped
<1>7. Aborted(r) = Scanner(a \o (g \o d), FALSE, r.prefix, <<>>, <<>>)
    BY <1>2, <1>4, <1>6
<1> QED BY <1>5, <1>7 DEF a, b, c, d, g, Text

\* The token goes on.
LEMMA ContinueStep ==
    ASSUME options \in Usable, NEW t \in Text, NEW p \in Nat, p < Len(t), NEW a \in 1..(p + 1),
           NEW s \in Scanners, NEW u \in Nat, NEW r, NEW v \in Nat,
           InTokenStepped(t, s, r, p, a, u, v), r.suffix # options.suffix,
           ~(Len(r.token) + Len(r.suffix) > options.maxTokenBytes)
    PROVE  Consumed(options, t, s, r, p + 1, a)
<1> DEFINE w == options.suffix
           x == a + Len(options.prefix)
<1>1. /\ r \in Scanners /\ r.out = s.out /\ r.reading = TRUE /\ r.prefix = <<>>
      /\ r.token = SubSeq(t, x, v - 1) /\ r.suffix = SubSeq(t, v, p + 1)
      /\ Len(r.token) = v - x /\ Len(r.suffix) = p + 2 - v
      /\ v \in x..(p + 2) /\ p + 2 - v <= Len(w)
      /\ p + 2 - v # Len(w)
      /\ At(t, options.prefix, a, p + 1) /\ Begins(t, w, v, p + 1)
      /\ ~OverlapsItself(w) => NoneEarlier(options, t, p + 1, x, v)
    <2>1. SteppedIs(t, s, r, p, a, v)
        BY SteppedFacts
    <2> QED BY <2>1 DEF SteppedIs
<1>2. Len(w) \in Nat /\ x \in Nat /\ a \in Nat \ {0} /\ options.maxTokenBytes \in Nat
    BY Lengths, SMTT(30)
<1>3. ~OverlapsItself(w) => NoneYet(options, t, p + 1, x)
    <2>1. Continuing(t, s, r, p, a, u, v)
        BY DEF Continuing
    <2>2. NoSuffixYet(t, p, a)
        BY ONLY <2>1, TokenContinues, Zenon
    <2> QED BY <2>2 DEF NoSuffixYet
<1>4. v \in x..((p + 1) + 1) /\ (p + 1) + 1 - v < Len(w) /\ (p + 1) + 1 - x <= options.maxTokenBytes
    <2>1. PICK k \in Nat : k = Len(w)
        BY <1>2
    <2>2. PICK y \in Nat : y = x
        BY <1>2
    <2>3. PICK m \in Nat : m = options.maxTokenBytes
        BY <1>2
    <2>4. /\ v \in y..(p + 2) /\ p + 2 - v <= k /\ p + 2 - v # k /\ (v - y) + (p + 2 - v) <= m
        <3>1. Len(r.token) + Len(r.suffix) = (v - x) + (p + 2 - v)
            BY <1>1
        <3>2. ~((v - x) + (p + 2 - v) > options.maxTokenBytes)
            BY <3>1
        <3>3. v \in x..(p + 2) /\ p + 2 - v <= Len(w) /\ p + 2 - v # Len(w)
            BY <1>1
        <3> HIDE DEF w, x
        <3> QED BY <2>1, <2>2, <2>3, <3>2, <3>3
    <2> HIDE DEF w, x
    <2>5. v \in y..((p + 1) + 1) /\ (p + 1) + 1 - v < k /\ (p + 1) + 1 - y <= m
        BY <2>4
    <2> QED BY <2>1, <2>2, <2>3, <2>5
<1>5. InToken(options, t, r, p + 1, a, v)
    BY <1>1, <1>4 DEF InToken
<1>6. Follows(options, t, r, p + 1, a)
    <2>1. a \in 1..((p + 1) + 1)
        BY <1>2
    <2> QED BY <1>1, <1>3, <1>5, <2>1 DEF Follows
<1>7. Emits(options, t, <<>>, p + 1, a, a)
    <2>1. SubSeq(t, a, a - 1) = <<>>
        <3>1. a - 1 < a /\ a - 1 \in Int /\ a \in Int
            BY <1>2
        <3> QED BY <3>1, SubSeqEmpty
    <2>2. ASSUME NEW q \in (p + 1)..Len(t), NEW f, Rule(options, SubSeq(t, 1, q), f)
          PROVE  f[a] = <<>> \o f[a]
        <3>1. q \in 0..Len(t) /\ a \in 1..(q + 1) /\ Len(t) \in Nat
            BY <1>2, LenProperties DEF Text
        <3>2. Len(SubSeq(t, 1, q)) = q
            BY <3>1, ReadIs
        <3>3. f[a] \in Seq(STRING)
            BY <2>2, <3>1, <3>2 DEF Rule, Text
        <3> QED BY <3>3, ConcatEmptySeq
    <2>3. Becomes(options, t, <<>>, p + 1, a, a)
        BY <2>2 DEF Becomes
    <2>4. <<>> \in Text /\ a \in a..((p + 1) + 1)
        BY <1>2, EmptySeq DEF Text
    <2> QED BY <2>1, <2>3, <2>4 DEF Emits
<1>8. r.out = s.out \o <<>> /\ <<>> \in Text
    <2>1. s.out \in Seq(STRING)
        BY DEF Scanners, Text
    <2> QED BY <1>1, <2>1, ConcatEmptySeq, EmptySeq DEF Text
<1>9. a \in Nat
    BY <1>2
<1> QED BY <1>6, <1>7, <1>8, <1>9 DEF Consumed

\* The token has become too long.
LEMMA AbortStep ==
    ASSUME options \in Usable, NEW t \in Text, NEW p \in Nat, p < Len(t), NEW a \in 1..(p + 1),
           NEW s \in Scanners, NEW u \in Nat, NEW r, NEW v \in Nat,
           InTokenStepped(t, s, r, p, a, u, v), r.suffix # options.suffix,
           Len(r.token) + Len(r.suffix) > options.maxTokenBytes
    PROVE  Consumed(options, t, s, Aborted(r), p + 1, a)
<1> DEFINE w == options.suffix
           x == a + Len(options.prefix)
           e == SubSeq(t, a, p + 1)
<1>1. /\ r \in Scanners /\ r.out = s.out /\ r.prefix = <<>>
      /\ Len(r.token) = v - x /\ Len(r.suffix) = p + 2 - v
      /\ v \in x..(p + 2)
      /\ options.prefix \o r.token \o r.suffix = e
      /\ At(t, options.prefix, a, p + 1)
    <2>1. SteppedIs(t, s, r, p, a, v)
        BY SteppedFacts
    <2> QED BY <2>1 DEF SteppedIs
<1>2. /\ x \in Nat /\ a \in Nat \ {0} /\ options.maxTokenBytes \in Nat /\ Len(t) \in Nat
    BY Lengths, LenProperties DEF Text
<1>3. ~OverlapsItself(w) => NoneYet(options, t, p + 1, x)
    <2>1. Continuing(t, s, r, p, a, u, v)
        BY DEF Continuing
    <2>2. NoSuffixYet(t, p, a)
        BY ONLY <2>1, TokenContinues, Zenon
    <2> QED BY <2>2 DEF NoSuffixYet
<1>4. p + 1 = x + options.maxTokenBytes
    <2>1. p + 1 - x <= options.maxTokenBytes
        BY DEF InTokenStepped, InToken
    <2>2. (v - x) + (p + 2 - v) > options.maxTokenBytes
        BY <1>1
    <2> HIDE DEF x
    <2> QED BY <1>1, <1>2, <2>1, <2>2
<1> DEFINE z == Aborted(r)
<1>5. z = Scanner(s.out \o e, FALSE, <<>>, <<>>, <<>>) /\ e \in Text
    BY <1>1, AbortedText
<1> HIDE DEF e, z
<1>6. /\ z \in Scanners /\ z.out = s.out \o e /\ z.reading = FALSE /\ z.prefix = <<>>
      /\ z.token = <<>> /\ z.suffix = <<>>
    <2>1. <<>> \in Text /\ s.out \in Text
        BY EmptySeq DEF Text, Scanners
    <2>2. s.out \o e \in Text
        BY <1>5, <2>1, ConcatProperties DEF Text
    <2> QED BY <1>5, <2>1, <2>2 DEF Scanner, Scanners
<1>7. Follows(options, t, z, p + 1, (p + 1) + 1)
    <2>1. p + 1 \in Nat /\ p + 1 <= Len(t)
        BY <1>2
    <2> QED BY <1>6, <2>1, NothingHeldBack
<1>8. ASSUME ~OverlapsItself(w), NEW q \in (p + 1)..Len(t), NEW f, Rule(options, SubSeq(t, 1, q), f)
      PROVE  f[a] = e \o f[(p + 1) + 1]
    <2>1. q \in 0..Len(t) /\ p + 1 \in Nat /\ p + 1 <= q
        BY <1>2
    <2>2. At(t, options.prefix, a, q)
        <3>1. Len(options.prefix) \in Nat
            BY Lengths
        <3> QED BY <1>1, <1>2, <2>1, <3>1 DEF At
    <2>3. NoneYet(options, t, p + 1, x)
        BY <1>3, <1>8
    <2>4. PICK n \in Nat : n = p + 1
        BY <2>1
    <2>5. n = a + Len(options.prefix) + options.maxTokenBytes /\ n <= q
          /\ NoneYet(options, t, n, a + Len(options.prefix))
        BY <1>4, <2>1, <2>3, <2>4
    <2>6. Turns(f, a, SubSeq(t, a, n), n + 1)
        BY <1>2, <1>8, <2>1, <2>2, <2>5, AbortRule
    <2> QED BY <2>4, <2>6 DEF e, Turns
<1>9. Emits(options, t, e, p + 1, a, (p + 1) + 1)
    <2>1. (p + 1) + 1 \in a..((p + 1) + 1) /\ ((p + 1) + 1) - 1 = p + 1
        BY <1>2
    <2>2. ~OverlapsItself(w) => Becomes(options, t, e, p + 1, a, (p + 1) + 1)
        BY <1>8 DEF Becomes
    <2>3. e = SubSeq(t, a, ((p + 1) + 1) - 1)
        BY <2>1 DEF e
    <2> QED BY <1>5, <2>1, <2>2, <2>3 DEF Emits
<1>10. (p + 1) + 1 \in Nat
    OBVIOUS
<1> QED BY <1>5, <1>6, <1>7, <1>9, <1>10 DEF Consumed, z

\* The suffix is complete.
LEMMA CloseStep ==
    ASSUME options \in Usable, NEW t \in Text, NEW p \in Nat, p < Len(t), NEW a \in 1..(p + 1),
           NEW s \in Scanners, NEW u \in Nat, NEW r, NEW v \in Nat,
           InTokenStepped(t, s, r, p, a, u, v), r.suffix = options.suffix
    PROVE  Consumed(options, t, s, Closed(r), p + 1, a)
<1> DEFINE w == options.suffix
           x == a + Len(options.prefix)
           key == SubSeq(t, x, v - 1)
           e == InPlaceOf(options, key)
           z == Closed(r)
<1>1. /\ r \in Scanners /\ r.out = s.out /\ r.prefix = <<>>
      /\ r.token = key /\ Len(key) = v - x
      /\ v \in x..(p + 2) /\ p + 2 - v = Len(w)
      /\ options.prefix \o key \o w = SubSeq(t, a, p + 1)
      /\ At(t, options.prefix, a, p + 1) /\ Begins(t, w, v, p + 1)
    <2>1. SteppedIs(t, s, r, p, a, v)
        BY SteppedFacts
    <2> QED BY <2>1 DEF SteppedIs
<1>2. /\ x \in Nat \ {0} /\ a \in Nat \ {0} /\ options.maxTokenBytes \in Nat /\ Len(t) \in Nat
      /\ Len(w) \in Nat /\ Len(w) > 0
    BY Lengths, LenProperties DEF Text
<1>3. /\ v + Len(w) - 1 = p + 1 /\ v + Len(w) = (p + 1) + 1 /\ v - 1 \in 0..Len(t) /\ v <= p + 1
      /\ v \in Nat
    <2>1. PICK k \in Nat : k = Len(w)
        BY <1>2
    <2>2. PICK y \in Nat : y = x
        BY <1>2
    <2>3. /\ v \in y..(p + 2) /\ p + 2 - v = k /\ k > 0 /\ y > 0 /\ Len(t) \in Nat
        BY <1>1, <1>2, <2>1, <2>2, SMTT(30)
    <2> HIDE DEF w, x, key, e, z
    <2>4. /\ v + k - 1 = p + 1 /\ v + k = (p + 1) + 1 /\ v - 1 \in 0..Len(t) /\ v <= p + 1
        BY <2>3
    <2> QED BY <2>1, <2>4
<1>4. key \in Text
    BY <1>2, <1>3, PartIs DEF Text
<1>5. e \in Text
    BY <1>4, PlaceOfTyped
<1>6. z = Scanner(s.out \o e, FALSE, <<>>, <<>>, <<>>)
    <2>1. Replacement(key) = e
        BY DEF Replacement, InPlaceOf
    <2> HIDE DEF key, e
    <2> QED BY <1>1, <2>1 DEF Closed
<1> HIDE DEF e, z
<1>7. /\ z \in Scanners /\ z.out = s.out \o e /\ z.reading = FALSE /\ z.prefix = <<>>
      /\ z.token = <<>> /\ z.suffix = <<>>
    <2>1. <<>> \in Text /\ s.out \in Text
        BY EmptySeq DEF Text, Scanners
    <2>2. s.out \o e \in Text
        BY <1>5, <2>1, ConcatProperties DEF Text
    <2> QED BY <1>6, <2>1, <2>2 DEF Scanner, Scanners
<1>8. Follows(options, t, z, p + 1, (p + 1) + 1)
    <2>1. p + 1 \in Nat /\ p + 1 <= Len(t)
        BY <1>2
    <2> QED BY <1>7, <2>1, NothingHeldBack
<1>9. ASSUME ~OverlapsItself(w), NEW q \in (p + 1)..Len(t), NEW f, Rule(options, SubSeq(t, 1, q), f)
      PROVE  f[a] = e \o f[(p + 1) + 1]
    <2>1. q \in 0..Len(t) /\ p + 1 <= q /\ q \in Nat
        BY <1>2
    <2>2. At(t, options.prefix, a, q)
        <3>1. Len(options.prefix) \in Nat
            BY Lengths
        <3> QED BY <1>1, <1>2, <2>1, <3>1, SMTT(30) DEF At
    <2>3. At(t, w, v, q)
        BY <1>1, <1>3, <2>1 DEF At
    <2>4. ASSUME NEW m \in x..(v - 1), At(t, w, m, q) PROVE FALSE
        <3>1. NoneYet(options, t, p, x)
            BY <1>9 DEF InTokenStepped
        <3>2. m + Len(w) - 1 <= p /\ m \in x..p
            <4> HIDE DEF w, x
            <4> QED BY <1>2, <1>3
        <3>3. At(t, w, m, p)
            BY <2>4, <3>2 DEF At
        <3> QED BY <3>1, <3>2, <3>3 DEF NoneYet
    <2>5. v - x <= Room(options)
        <3>1. p + 1 - x <= options.maxTokenBytes
            BY DEF InTokenStepped, InToken
        <3>2. \A i, j, k, l, m \in Int : l + k - 1 = i /\ i - m <= j => l - m <= j - k + 1
            OBVIOUS
        <3>3. Room(options) = options.maxTokenBytes - Len(w) + 1
            BY DEF Room
        <3>4. p + 1 \in Int /\ options.maxTokenBytes \in Int /\ Len(w) \in Int /\ v \in Int /\ x \in Int
            BY <1>2, <1>3
        <3> HIDE DEF w, x
        <3> QED BY <1>3, <3>1, <3>2, <3>3, <3>4, SMTT(30)
    <2>6. v \in Nat /\ v >= x
        BY <1>1, <1>2
    <2>7. NoneBefore(options, t, q, x, v)
        BY <2>4 DEF NoneBefore
    <2>8. Turns(f, a, InPlaceOf(options, key), v + Len(w))
        BY <1>2, <1>9, <2>1, <2>2, <2>3, <2>5, <2>6, <2>7, CloseRule
    <2> QED BY <1>3, <2>8 DEF e, Turns
<1>10. ASSUME NothingKnown(options, t, p + 1) PROVE e = SubSeq(t, a, p + 1)
    <2>1. Found(key) = {}
        <3> SUFFICES ASSUME NEW val \in Values, val.key = key PROVE FALSE
            BY DEF Found
        <3>1. At(t, key, x, p + 1)
            <4>1. x + Len(key) - 1 = v - 1 /\ v - 1 <= p + 1
                <5> HIDE DEF key, x
                <5> QED BY <1>1, <1>2, <1>3
            <4>2. Begins(t, key, x, v - 1)
                <5>1. v - 1 \in 0..Len(t) /\ x \in 1..((v - 1) + 1) /\ t \in Seq(STRING)
                    BY <1>1, <1>2, <1>3, SMTT(30) DEF Text
                <5>2. IsPrefix(key, key)
                    BY DEF IsPrefix
                <5> QED BY <1>4, <5>1, <5>2, PrefixIs DEF Text
            <4> QED BY <4>1, <4>2 DEF At
        <3>2. p + 1 \in 0..Len(t)
            BY <1>2, SMTT(30)
        <3>3. Occurs(key, SubSeq(t, 1, p + 1), x) /\ Len(SubSeq(t, 1, p + 1)) = p + 1
            BY <1>2, <1>4, <3>1, <3>2, ReadIs
        <3>4. x \in 1..((p + 1) + 1)
            BY <1>1, <1>2, SMTT(30)
        <3>5. x \in Occurrences(val.key, SubSeq(t, 1, p + 1))
            BY <3>3, <3>4 DEF Occurrences
        <3> QED BY <1>10, <3>5 DEF NothingKnown
    <2>2. ~options.replaceWithEmpty
        BY <1>10 DEF NothingKnown
    <2> QED BY <1>1, <2>1, <2>2 DEF e, InPlaceOf
<1>11. Emits(options, t, e, p + 1, a, (p + 1) + 1)
    <2>1. (p + 1) + 1 \in a..((p + 1) + 1) /\ ((p + 1) + 1) - 1 = p + 1
        BY <1>2
    <2>2. ~OverlapsItself(w) => Becomes(options, t, e, p + 1, a, (p + 1) + 1)
        BY <1>9 DEF Becomes
    <2> QED BY <1>5, <1>10, <2>1, <2>2 DEF Emits
<1>12. (p + 1) + 1 \in Nat
    OBVIOUS
<1> QED BY <1>5, <1>7, <1>8, <1>11, <1>12 DEF Consumed, z

\* Whatever the scanner is in, a byte more is a step of the reference or none.
LEMMA ByteStep ==
    ASSUME options \in Usable, NEW t \in Text, NEW p \in Nat, p < Len(t), NEW a \in Nat, NEW s,
           Follows(options, t, s, p, a)
    PROVE  Consumed(options, t, s, ConsumeByte(s, t[p + 1]), p + 1, a)
<1>1. s \in Scanners /\ a \in 1..(p + 1)
    BY DEF Follows
<1>2. CASE InLiteral(options, t, s, p, a)
    <2>1. s.reading = FALSE
        BY <1>2 DEF InLiteral
    <2>2. ConsumeByte(s, t[p + 1]) = LiteralByte(s, t[p + 1])
        BY <2>1 DEF ConsumeByte
    <2> QED BY <1>1, <1>2, <2>2, LiteralStep
<1>3. ASSUME NEW u \in Nat, InToken(options, t, s, p, a, u),
             ~OverlapsItself(options.suffix) =>
                /\ NoneEarlier(options, t, p, a + Len(options.prefix), u)
                /\ NoneYet(options, t, p, a + Len(options.prefix))
      PROVE  Consumed(options, t, s, ConsumeByte(s, t[p + 1]), p + 1, a)
    <2>1. s.reading = TRUE
        BY <1>3 DEF InToken
    <2>2. ConsumeByte(s, t[p + 1]) = TokenByte(s, t[p + 1])
        BY <2>1 DEF ConsumeByte
    <2>3. PICK r : \E v \in Nat : /\ TokenByte(s, t[p + 1]) = Looked(r)
                                  /\ Stepped(t, s, r, p, a + Len(options.prefix), u, v)
        BY <1>1, <1>3, TokenByteIs
    <2>4. PICK v \in Nat : /\ TokenByte(s, t[p + 1]) = Looked(r)
                           /\ Stepped(t, s, r, p, a + Len(options.prefix), u, v)
        BY <2>3
    <2>5. InTokenStepped(t, s, r, p, a, u, v)
        BY <1>3, <2>4 DEF InTokenStepped
    <2>6. CASE r.suffix = options.suffix
        <3>1. ConsumeByte(s, t[p + 1]) = Closed(r)
            BY <2>2, <2>4, <2>6 DEF Looked
        <3>2. Consumed(options, t, s, Closed(r), p + 1, a)
            BY <1>1, <2>5, <2>6, CloseStep
        <3> QED BY <3>1, <3>2
    <2>7. CASE r.suffix # options.suffix /\ Len(r.token) + Len(r.suffix) > options.maxTokenBytes
        <3>1. ConsumeByte(s, t[p + 1]) = Aborted(r)
            BY <2>2, <2>4, <2>7 DEF Looked
        <3>2. Consumed(options, t, s, Aborted(r), p + 1, a)
            BY <1>1, <2>5, <2>7, AbortStep
        <3> QED BY <3>1, <3>2
    <2>8. CASE r.suffix # options.suffix /\ ~(Len(r.token) + Len(r.suffix) > options.maxTokenBytes)
        <3>1. ConsumeByte(s, t[p + 1]) = r
            BY <2>2, <2>4, <2>8 DEF Looked
        <3>2. Consumed(options, t, s, r, p + 1, a)
            BY <1>1, <2>5, <2>8, ContinueStep
        <3> QED BY <3>1, <3>2
    <2> QED BY <2>6, <2>7, <2>8
<1> QED BY <1>2, <1>3 DEF Follows

-----------------------------------------------------------------------------
(* The end of the body *)

\* flushPendingParserState gives out what is held back.
LEMMA FlushIs ==
    ASSUME options \in Usable, NEW t \in Text, NEW p \in Nat, p <= Len(t), NEW a \in Nat, NEW s,
           Follows(options, t, s, p, a)
    PROVE  /\ Flushed(s) = Scanner(s.out \o SubSeq(t, a, p), FALSE, <<>>, <<>>, <<>>)
           /\ SubSeq(t, a, p) \in Text
<1>1. s \in Scanners /\ a \in 1..(p + 1) /\ Len(t) \in Nat /\ a \in Nat \ {0} /\ p \in 0..Len(t)
    BY LenProperties DEF Follows, Text
<1>2. SubSeq(t, a, p) \in Text
    BY <1>1, PartIs DEF Text
<1>3. CASE InLiteral(options, t, s, p, a)
    BY <1>2, <1>3 DEF InLiteral, Flushed
<1>4. ASSUME NEW u \in Nat, InToken(options, t, s, p, a, u)
      PROVE  Flushed(s) = Scanner(s.out \o SubSeq(t, a, p), FALSE, <<>>, <<>>, <<>>)
    <2> DEFINE x == a + Len(options.prefix)
    <2>1. /\ s.reading = TRUE /\ s.prefix = <<>> /\ At(t, options.prefix, a, p) /\ u \in x..(p + 1)
          /\ s.token = SubSeq(t, x, u - 1) /\ s.suffix = SubSeq(t, u, p)
        BY <1>4 DEF InToken
    <2>2. options.prefix \o s.token \o s.suffix = SubSeq(t, a, p)
        <3>1. options.prefix \o SubSeq(t, x, u - 1) \o SubSeq(t, u, p) = SubSeq(t, a, p)
            BY <1>1, <2>1, TokenIsText
        <3> HIDE DEF x
        <3> QED BY <2>1, <3>1
    <2>3. Aborted(s) = Scanner(s.out \o SubSeq(t, a, p), FALSE, <<>>, <<>>, <<>>)
        BY <1>1, <2>1, <2>2, AbortedText
    <2> DEFINE e == SubSeq(t, a, p)
    <2>4. s.out \o e \in Seq(STRING)
        <3>1. s.out \in Seq(STRING) /\ e \in Seq(STRING)
            BY <1>1, <1>2 DEF Scanners, Text
        <3> HIDE DEF e
        <3> QED BY <3>1, ConcatProperties
    <2> HIDE DEF e
    <2>5. (s.out \o e) \o <<>> = s.out \o e
        BY <2>4, ConcatEmptySeq
    <2>6. Aborted(s).out = s.out \o e /\ Aborted(s).prefix = <<>>
        <3>1. PICK d : d = s.out \o e
            OBVIOUS
        <3>2. PICK z : z = Aborted(s)
            OBVIOUS
        <3>3. z = Scanner(d, FALSE, <<>>, <<>>, <<>>)
            BY <2>3, <3>1, <3>2 DEF e
        <3>4. z.out = d /\ z.prefix = <<>>
            BY <3>3 DEF Scanner
        <3> QED BY <3>1, <3>2, <3>4
    <2>7. Flushed(s) = Scanner(Aborted(s).out \o Aborted(s).prefix, FALSE, <<>>, <<>>, <<>>)
        BY <2>1 DEF Flushed
    <2> QED BY <2>5, <2>6, <2>7 DEF e
<1> QED BY <1>2, <1>3, <1>4 DEF Follows

\* What is held back is no more than text, if no more is to come.
LEMMA PendingIs ==
    ASSUME NEW o \in Usable, NEW t \in Text, NEW p \in Nat, p <= Len(t), NEW a \in Nat, NEW s,
           Follows(o, t, s, p, a), ~OverlapsItself(o.suffix), NEW f, Rule(o, SubSeq(t, 1, p), f)
    PROVE  f[a] = SubSeq(t, a, p)
<1>1. /\ s \in Scanners /\ a \in 1..(p + 1) /\ Len(t) \in Nat /\ a \in Nat \ {0} /\ p \in 0..Len(t)
      /\ Len(o.prefix) \in Nat /\ Len(o.prefix) > 0 /\ o.maxTokenBytes \in Nat
    BY LenProperties, Lengths DEF Follows, Text
<1>2. CASE InLiteral(o, t, s, p, a)
    <2>1. p + 1 - a < Len(o.prefix)
        BY <1>2 DEF InLiteral
    <2>2. \A n \in a..((p + 1) - 1) : ~At(t, o.prefix, n, p)
        BY <1>1, <2>1 DEF At
    <2>3. p + 1 \in a..(p + 1)
        BY <1>1
    <2>4. KeptUpTo(t, f, a, p + 1)
        BY <1>1, <2>2, <2>3, LiteralRun
    <2>5. f[p + 1] = <<>> /\ (p + 1) - 1 = p
        BY <1>1, ReadIs DEF Rule
    <2>6. f[a] = SubSeq(t, a, p) \o <<>>
        BY <2>4, <2>5 DEF KeptUpTo
    <2>7. SubSeq(t, a, p) \in Seq(STRING)
        BY <1>1, PartIs DEF Text
    <2> QED BY <2>6, <2>7, ConcatEmptySeq
<1>3. ASSUME NEW u \in Nat, InToken(o, t, s, p, a, u), NoneYet(o, t, p, a + Len(o.prefix))
      PROVE  f[a] = SubSeq(t, a, p)
    <2>1. At(t, o.prefix, a, p) /\ p + 1 - (a + Len(o.prefix)) <= o.maxTokenBytes
        BY <1>3 DEF InToken
    <2>2. a + Len(o.prefix) + o.maxTokenBytes > p
        <3>1. \A i, j, k, l \in Int : l + 1 - (i + j) <= k => i + j + k > l
            OBVIOUS
        <3>2. a \in Int /\ p \in Int /\ Len(o.prefix) \in Int /\ o.maxTokenBytes \in Int
            BY <1>1
        <3> QED BY <2>1, <3>1, <3>2
    <2> QED BY <1>1, <1>3, <2>1, <2>2, RestRule
<1> QED BY <1>2, <1>3 DEF Follows

-----------------------------------------------------------------------------
(* What has been given and is to be given *)

\* What has no token at the end had none before.
LEMMA KnownBefore ==
    ASSUME NEW o, NEW t \in Text, NEW p \in Nat, NEW q \in Nat, p <= q, q <= Len(t),
           NothingKnown(o, t, q)
    PROVE  NothingKnown(o, t, p)
<1>1. p \in 0..Len(t) /\ q \in 0..Len(t)
    BY LenProperties DEF Text
<1> SUFFICES ASSUME NEW v \in Values, NEW n \in Occurrences(v.key, SubSeq(t, 1, p)) PROVE FALSE
    BY DEF NothingKnown
<1>2. v.key \in Text
    BY CasesAssumption
<1>3. Len(SubSeq(t, 1, p)) = p /\ Len(SubSeq(t, 1, q)) = q
    BY <1>1, ReadIs
<1>4. n \in 1..(p + 1) /\ Occurs(v.key, SubSeq(t, 1, p), n)
    BY <1>3 DEF Occurrences
<1>5. n \in Nat \ {0} /\ n \in 1..(q + 1)
    BY <1>1, <1>4
<1>6. At(t, v.key, n, p)
    BY <1>1, <1>2, <1>4, <1>5, ReadIs
<1>7. Len(v.key) \in Nat
    BY <1>2, LenProperties DEF Text
<1>8. At(t, v.key, n, q)
    BY <1>5, <1>6, <1>7 DEF At
<1>9. Occurs(v.key, SubSeq(t, 1, q), n)
    BY <1>1, <1>2, <1>5, <1>8, ReadIs
<1>10. n \in Occurrences(v.key, SubSeq(t, 1, q))
    BY <1>3, <1>5, <1>9 DEF Occurrences
<1> QED BY <1>10 DEF NothingKnown

\* What the reference has for two parts of the text is what it has for both.
LEMMA EmitsMore ==
    ASSUME NEW o \in Usable, NEW t \in Text, NEW p \in Nat, NEW q \in Nat, p <= q, q <= Len(t),
           NEW e, NEW d, NEW a \in Nat, NEW c \in Nat,
           Emits(o, t, e, p, 1, a), Emits(o, t, d, q, a, c)
    PROVE  Emits(o, t, e \o d, q, 1, c)
<1>1. /\ e \in Seq(STRING) /\ d \in Seq(STRING) /\ a \in 1..(p + 1) /\ c \in a..(q + 1)
      /\ Len(t) \in Nat /\ t \in Seq(STRING)
    BY LenProperties DEF Emits, Text
<1>2. e \o d \in Text
    BY <1>1, ConcatProperties DEF Text
<1>3. c \in 1..(q + 1)
    BY <1>1
<1>4. ASSUME ~OverlapsItself(o.suffix), NEW z \in q..Len(t), NEW f, Rule(o, SubSeq(t, 1, z), f)
      PROVE  f[1] = (e \o d) \o f[c]
    <2>1. z \in p..Len(t) /\ z \in 0..Len(t) /\ c \in 1..(z + 1)
        BY <1>1
    <2>2. f[1] = e \o f[a]
        BY <1>4, <2>1 DEF Emits, Becomes
    <2>3. f[a] = d \o f[c]
        BY <1>4 DEF Emits, Becomes
    <2>4. Len(SubSeq(t, 1, z)) = z
        BY <2>1, ReadIs
    <2>5. PICK g \in Seq(STRING) : g = f[c]
        BY <1>4, <2>1, <2>4 DEF Rule, Text
    <2>6. (e \o d) \o g = e \o (d \o g)
        <3>1. e \in Seq(STRING) /\ d \in Seq(STRING) /\ g \in Seq(STRING)
            BY <1>1, <2>5
        <3>2. Grouped(e, d, g)
            BY <3>1, Regrouped
        <3> QED BY <3>2 DEF Grouped
    <2> QED BY <2>2, <2>3, <2>5, <2>6
<1>5. ASSUME NothingKnown(o, t, q) PROVE e \o d = SubSeq(t, 1, c - 1)
    <2>1. e = SubSeq(t, 1, a - 1)
        BY <1>5, KnownBefore DEF Emits
    <2>2. d = SubSeq(t, a, c - 1)
        BY <1>5 DEF Emits
    <2>3. 1 \in Nat \ {0} /\ a - 1 \in (1 - 1)..Len(t) /\ c - 1 \in (a - 1)..Len(t) /\ (a - 1) + 1 = a
        BY <1>1
    <2>4. SubSeq(t, 1, a - 1) \o SubSeq(t, (a - 1) + 1, c - 1) = SubSeq(t, 1, c - 1)
        BY <1>1, <2>3, Join
    <2> QED BY <2>1, <2>2, <2>3, <2>4
<1>6. ~OverlapsItself(o.suffix) => Becomes(o, t, e \o d, q, 1, c)
    BY <1>4 DEF Becomes
<1> QED BY <1>2, <1>3, <1>5, <1>6 DEF Emits

\* With the bytes given and the scanner s, p bytes of the text are dealt with.
DealtWith(o, t, given, s, p) ==
    /\ given \in Text /\ p \in 0..Len(t)
    /\ \E a \in Nat : Follows(o, t, s, p, a) /\ Emits(o, t, given \o s.out, p, 1, a)

\* One byte more, or the end, keeps the relation.
LEMMA ByteDealtWith ==
    ASSUME options \in Usable, NEW t \in Text, NEW given, NEW s, NEW p \in Nat, p < Len(t),
           DealtWith(options, t, given, s, p)
    PROVE  DealtWith(options, t, given, ConsumeByte(s, t[p + 1]), p + 1)
<1>1. PICK a \in Nat : Follows(options, t, s, p, a) /\ Emits(options, t, given \o s.out, p, 1, a)
    BY DEF DealtWith
<1>2. given \in Text /\ s \in Scanners /\ s.out \in Text
    BY <1>1 DEF DealtWith, Follows, Scanners
<1>3. PICK r : r = ConsumeByte(s, t[p + 1])
    OBVIOUS
<1>4. Consumed(options, t, s, r, p + 1, a)
    BY <1>1, <1>3, ByteStep
<1>5. PICK e \in Text, c \in Nat : /\ r.out = s.out \o e /\ Emits(options, t, e, p + 1, a, c)
                                   /\ Follows(options, t, r, p + 1, c)
    BY <1>4 DEF Consumed
<1>6. given \o r.out = (given \o s.out) \o e
    <2>1. given \o (s.out \o e) = (given \o s.out) \o e
        <3>1. given \in Seq(STRING) /\ s.out \in Seq(STRING) /\ e \in Seq(STRING)
            BY <1>2, <1>5 DEF Text
        <3>2. Grouped(given, s.out, e)
            BY <3>1, Regrouped
        <3> QED BY <3>2 DEF Grouped
    <2> QED BY <1>5, <2>1
<1>7. p + 1 \in Nat /\ p <= p + 1 /\ p + 1 <= Len(t) /\ p + 1 \in 0..Len(t)
    BY LenProperties DEF Text
<1>8. Emits(options, t, (given \o s.out) \o e, p + 1, 1, c)
    <2> DEFINE g == given \o s.out
    <2>1. Emits(options, t, g, p, 1, a)
        BY <1>1
    <2> HIDE DEF g
    <2>2. Emits(options, t, g \o e, p + 1, 1, c)
        BY <1>5, <1>7, <2>1, EmitsMore
    <2> QED BY <2>2 DEF g
<1>9. Emits(options, t, given \o r.out, p + 1, 1, c)
    BY <1>6, <1>8
<1> QED BY <1>2, <1>3, <1>5, <1>7, <1>9 DEF DealtWith

LEMMA EndDealtWith ==
    ASSUME options \in Usable, NEW t \in Text, NEW given, NEW s,
           DealtWith(options, t, given, s, Len(t))
    PROVE  DealtWith(options, t, given, Flushed(s), Len(t))
<1>0. PICK p \in Nat : p = Len(t)
    BY LenProperties DEF Text
<1>1. PICK a \in Nat : Follows(options, t, s, p, a) /\ Emits(options, t, given \o s.out, p, 1, a)
    BY <1>0 DEF DealtWith
<1>2. given \in Text /\ s \in Scanners /\ s.out \in Text /\ a \in 1..(p + 1)
    BY <1>1 DEF DealtWith, Follows, Scanners
<1>3. PICK e : e = SubSeq(t, a, p)
    OBVIOUS
<1>4. PICK r : r = Flushed(s)
    OBVIOUS
<1>5. r = Scanner(s.out \o e, FALSE, <<>>, <<>>, <<>>) /\ e \in Text
    <2>1. p <= Len(t)
        BY <1>0
    <2> QED BY <1>1, <1>3, <1>4, <2>1, FlushIs
<1>6. /\ r \in Scanners /\ r.out = s.out \o e /\ r.reading = FALSE /\ r.prefix = <<>>
      /\ r.token = <<>> /\ r.suffix = <<>>
    <2>1. <<>> \in Text
        BY EmptySeq DEF Text
    <2>2. s.out \o e \in Text
        BY <1>2, <1>5, ConcatProperties DEF Text
    <2> QED BY <1>5, <2>1, <2>2 DEF Scanner, Scanners
<1>7. Follows(options, t, r, p, p + 1)
    <2>1. p <= Len(t)
        BY <1>0
    <2> QED BY <1>6, <2>1, NothingHeldBack
<1>8. Emits(options, t, e, p, a, p + 1)
    <2>1. ASSUME ~OverlapsItself(options.suffix), NEW q \in p..Len(t), NEW f,
                 Rule(options, SubSeq(t, 1, q), f)
          PROVE  f[a] = e \o f[p + 1]
        <3>1. q = p
            BY <1>0
        <3>2. f[a] = e
            BY <1>0, <1>1, <1>3, <2>1, <3>1, PendingIs
        <3>3. f[p + 1] = <<>>
            BY <1>0, <2>1, <3>1, ReadIs DEF Rule
        <3>4. e \o <<>> = e
            BY <1>5, ConcatEmptySeq DEF Text
        <3> QED BY <3>2, <3>3, <3>4
    <2>2. ~OverlapsItself(options.suffix) => Becomes(options, t, e, p, a, p + 1)
        BY <2>1 DEF Becomes
    <2>3. p + 1 \in a..(p + 1) /\ (p + 1) - 1 = p
        BY <1>2
    <2> QED BY <1>3, <1>5, <2>2, <2>3 DEF Emits
<1>9. given \o r.out = (given \o s.out) \o e
    <2>1. given \o (s.out \o e) = (given \o s.out) \o e
        <3>1. given \in Seq(STRING) /\ s.out \in Seq(STRING) /\ e \in Seq(STRING)
            BY <1>2, <1>5 DEF Text
        <3>2. Grouped(given, s.out, e)
            BY <3>1, Regrouped
        <3> QED BY <3>2 DEF Grouped
    <2> QED BY <1>6, <2>1
<1>10. Emits(options, t, (given \o s.out) \o e, p, 1, p + 1)
    <2> DEFINE g == given \o s.out
    <2>1. Emits(options, t, g, p, 1, a)
        BY <1>1
    <2> HIDE DEF g
    <2>2. p <= p /\ p <= Len(t) /\ p + 1 \in Nat
        BY <1>0
    <2>3. Emits(options, t, g \o e, p, 1, p + 1)
        BY <1>8, <2>1, <2>2, EmitsMore
    <2> QED BY <2>3 DEF g
<1>11. p + 1 \in Nat /\ p \in 0..Len(t)
    BY <1>0
<1>12. DealtWith(options, t, given, r, p)
    BY <1>2, <1>7, <1>9, <1>10, <1>11 DEF DealtWith
<1> QED BY <1>0, <1>4, <1>12

-----------------------------------------------------------------------------
(* The invariant of the filter *)

Options == [prefix : Text, suffix : Text, maxTokenBytes : Nat,
            replaceWithEmpty : BOOLEAN, restrictToText : BOOLEAN]

\* What the wrapped response says
Announced ==
    /\ page.contentLength = FALSE /\ page.contentEncoding # "gzip"
    /\ ~(options.restrictToText /\ page.contentType = "binary")

Filtering ==
    /\ options \in Usable /\ Announced
    /\ DealtWith(options, text, result, Now, position)
    /\ streamExhausted => position = Len(text) /\ readingToken = FALSE /\ prefixMatch = <<>>

Passing ==
    /\ position \in 0..Len(text) /\ result = SubSeq(text, 1, position)
    /\ streamExhausted => position = Len(text)

FilterInv ==
    /\ text \in Text /\ options \in Options
    /\ filtered => Filtering
    /\ ~filtered => Passing

LEMMA FilterInit == ReplaceInit => FilterInv
<1> SUFFICES ASSUME ReplaceInit PROVE FilterInv
    OBVIOUS
<1>1. PICK c \in Cases :
        /\ options = c.options /\ text = c.body
        /\ filtered = ShouldApply(c.response, c.options)
        /\ page = IF filtered THEN Rewritten(c.response) ELSE c.response
    BY DEF ReplaceInit
<1>2. /\ position = 0 /\ output = <<>> /\ readingToken = FALSE
      /\ prefixMatch = <<>> /\ tokenBuffer = <<>> /\ suffixMatch = <<>>
      /\ streamExhausted = FALSE /\ result = <<>>
    BY DEF ReplaceInit, Unread
<1>3. text \in Text /\ options \in Options
    BY <1>1, CasesAssumption DEF Options
<1>4. 0 \in 0..Len(text) /\ SubSeq(text, 1, 0) = <<>> /\ Len(text) \in Nat
    <2>1. Len(text) \in Nat
        BY <1>3, LenProperties DEF Text
    <2>2. SubSeq(text, 1, 0) = <<>>
        BY SubSeqEmpty
    <2> QED BY <2>1, <2>2
<1>5. Passing
    BY <1>2, <1>4 DEF Passing
<1>6. ASSUME filtered PROVE Filtering
    <2>1. options \in Usable
        BY <1>1, <1>3, <1>6 DEF ShouldApply, Usable, Options
    <2>2. page = [c.response EXCEPT !.contentLength = FALSE, !.transferEncoding = "chunked"]
        BY <1>1, <1>6 DEF Rewritten
    <2>3. c.response \in [status : STRING, contentEncoding : STRING, transferEncoding : STRING,
                          contentType : STRING, contentLength : BOOLEAN]
        BY CasesAssumption
    <2>4. /\ page.contentLength = FALSE /\ page.contentEncoding = c.response.contentEncoding
          /\ page.contentType = c.response.contentType
        BY <2>2, <2>3
    <2>5. Announced
        BY <1>1, <1>6, <2>4 DEF ShouldApply, TextTypes, Announced
    <2>6. Now \in Scanners /\ Now.out = <<>> /\ Now.reading = FALSE /\ Now.prefix = <<>>
          /\ Now.token = <<>> /\ Now.suffix = <<>>
        <3>1. <<>> \in Text
            BY EmptySeq DEF Text
        <3> QED BY <1>2, <3>1 DEF Now, Scanner, Scanners
    <2>7. Follows(options, text, Now, 0, 1)
        <3>1. 0 \in Nat /\ 0 <= Len(text) /\ 0 + 1 = 1
            BY <1>4
        <3>2. Follows(options, text, Now, 0, 0 + 1)
            BY <1>3, <2>1, <2>6, <3>1, NothingHeldBack
        <3> QED BY <3>1, <3>2
    <2>8. Emits(options, text, <<>>, 0, 1, 1)
        <3>1. ASSUME NEW q \in 0..Len(text), NEW f, Rule(options, SubSeq(text, 1, q), f)
              PROVE  f[1] = <<>> \o f[1]
            <4>1. Len(SubSeq(text, 1, q)) = q
                BY <1>3, ReadIs
            <4>2. 1 \in 1..(q + 1)
                BY <1>4
            <4>3. f[1] \in Seq(STRING)
                BY <3>1, <4>1, <4>2 DEF Rule, Text
            <4> QED BY <4>3, ConcatEmptySeq
        <3>2. Becomes(options, text, <<>>, 0, 1, 1)
            BY <3>1 DEF Becomes
        <3>3. 1 \in 1..(0 + 1) /\ <<>> \in Text /\ 1 - 1 = 0
            BY EmptySeq DEF Text
        <3> QED BY <1>4, <3>2, <3>3 DEF Emits
    <2>9. <<>> \o <<>> = <<>> /\ <<>> \in Text /\ 1 \in Nat
        <3>1. <<>> \in Seq(STRING)
            BY EmptySeq
        <3> QED BY <3>1, ConcatEmptySeq DEF Text
    <2>10. DealtWith(options, text, result, Now, position)
        <3>1. result \o Now.out = <<>>
            BY <1>2, <2>6, <2>9
        <3> QED BY <1>2, <1>4, <2>7, <2>8, <2>9, <3>1 DEF DealtWith
    <2> QED BY <1>2, <2>1, <2>5, <2>10 DEF Filtering
<1> QED BY <1>3, <1>5, <1>6 DEF FilterInv

-----------------------------------------------------------------------------
(* fillOutput *)

\* However many bytes are scanned at once, each keeps it.
LEMMA ScannedIs ==
    ASSUME FilterInv, filtered
    PROVE  \A n \in 0..(Len(text) - position) :
                DealtWith(options, text, result, Scanned[n], position + n)
<1> DEFINE left == Len(text) - position
           Is(g) == g = [n \in 0..left |-> IF n = 0 THEN Now
                                           ELSE ConsumeByte(g[n - 1], text[position + n])]
           Good(n, s) == DealtWith(options, text, result, s, position + n)
           F == [x \in Nat \X Scanners |->
                    IF ConsumeByte(x[2], text[position + x[1]]) \in Scanners
                    THEN ConsumeByte(x[2], text[position + x[1]]) ELSE x[2]]
<1>1. /\ text \in Text /\ options \in Usable /\ position \in 0..Len(text) /\ Len(text) \in Nat
      /\ DealtWith(options, text, result, Now, position)
    BY LenProperties DEF FilterInv, Filtering, DealtWith, Text
<1>2. left \in Nat /\ position \in Nat
    BY <1>1
<1>3. \A n \in Nat : \A s : Good(n, s) => s \in Scanners
    BY DEF DealtWith, Follows
<1>4. ASSUME NEW n \in 1..left, NEW s, Good(n - 1, s)
      PROVE  Good(n, ConsumeByte(s, text[position + n]))
    <2>1. PICK p \in Nat : p = position + (n - 1)
        BY <1>2
    <2>2. p < Len(text) /\ p + 1 = position + n
        BY <1>1, <2>1
    <2>3. DealtWith(options, text, result, s, p)
        BY <1>4, <2>1
    <2>4. DealtWith(options, text, result, ConsumeByte(s, text[p + 1]), p + 1)
        BY <1>1, <2>2, <2>3, ByteDealtWith
    <2> QED BY <2>2, <2>4
<1>5. Good(0, Now)
    <2>1. position + 0 = position
        BY <1>2
    <2> QED BY <1>1, <2>1
<1> HIDE DEF Good, left
<1>6. ASSUME NEW g, g[0] = Now, \A n \in 1..left : Good(n - 1, g[n - 1]) => Good(n, g[n])
      PROVE  \A n \in 0..left : Good(n, g[n])
    <2> DEFINE K == {n \in Nat : n <= left => Good(n, g[n])}
    <2>1. 0 \in K
        BY <1>5, <1>6
    <2>2. ASSUME NEW n \in Nat, n \in K PROVE n + 1 \in K
        <3> SUFFICES ASSUME n + 1 <= left PROVE Good(n + 1, g[n + 1])
            OBVIOUS
        <3>1. n + 1 \in 1..left /\ (n + 1) - 1 = n /\ n <= left
            BY <1>2
        <3>2. Good(n, g[n])
            BY <2>2, <3>1
        <3> QED BY <1>6, <3>1, <3>2
    <2>3. \A n \in Nat : n \in K
        <3> HIDE DEF K
        <3> QED BY <2>1, <2>2, Counting
    <2> QED BY <1>2, <2>3
<1>7. \E g : Is(g)
    <2>1. ASSUME NEW k \in Nat, NEW v \in Scanners
          PROVE  /\ F[<<k, v>>] \in Scanners
                 /\ ConsumeByte(v, text[position + k]) \in Scanners =>
                        F[<<k, v>>] = ConsumeByte(v, text[position + k])
        <3>1. <<k, v>> \in Nat \X Scanners
            OBVIOUS
        <3>2. F[<<k, v>>] = IF ConsumeByte(v, text[position + k]) \in Scanners
                            THEN ConsumeByte(v, text[position + k]) ELSE v
            BY <3>1
        <3> HIDE DEF F
        <3> QED BY <3>2
    <2>2. StaysIn(F, Scanners)
        BY <2>1 DEF StaysIn
    <2>3. Now \in Scanners
        BY <1>3, <1>5
    <2> HIDE DEF F
    <2>4. PICK s : Recursive(s, left, Scanners, Now, F)
        BY <1>2, <2>2, <2>3, Recursion
    <2>5. s \in [0..left -> Scanners] /\ s[0] = Now /\ \A k \in 1..left : s[k] = F[<<k, s[k - 1]>>]
        BY <2>4 DEF Recursive
    <2>6. ASSUME NEW n \in 1..left, Good(n - 1, s[n - 1])
          PROVE  s[n] = ConsumeByte(s[n - 1], text[position + n]) /\ Good(n, s[n])
        <3>1. n - 1 \in 0..left /\ n \in Nat
            BY <1>2
        <3>2. s[n - 1] \in Scanners
            BY <2>5, <3>1
        <3>3. Good(n, ConsumeByte(s[n - 1], text[position + n]))
            BY <1>4, <2>6
        <3>4. ConsumeByte(s[n - 1], text[position + n]) \in Scanners
            BY <1>3, <3>1, <3>3
        <3> QED BY <2>1, <2>5, <3>1, <3>2, <3>3, <3>4
    <2>7. \A n \in 0..left : Good(n, s[n])
        BY <1>6, <2>5, <2>6
    <2>8. ASSUME NEW n \in 0..left
          PROVE  s[n] = IF n = 0 THEN Now ELSE ConsumeByte(s[n - 1], text[position + n])
        <3>1. CASE n = 0
            BY <2>5, <3>1
        <3>2. CASE n # 0
            <4>1. n \in 1..left /\ n - 1 \in 0..left
                BY <1>2, <3>2
            <4> QED BY <2>6, <2>7, <3>2, <4>1
        <3> QED BY <3>1, <3>2
    <2>9. Is(s)
        BY <2>5, <2>8
    <2> QED BY <2>9
<1>8. Is(Scanned)
    <2>1. Scanned = CHOOSE g : Is(g)
        BY DEF Scanned, left
    <2> HIDE DEF Is
    <2> QED BY <1>7, <2>1
<1>9. Scanned[0] = Now /\ \A n \in 1..left : Scanned[n] = ConsumeByte(Scanned[n - 1], text[position + n])
    <2>1. PICK g : g = Scanned
        OBVIOUS
    <2>2. \A n \in 0..left : g[n] = IF n = 0 THEN Now ELSE ConsumeByte(g[n - 1], text[position + n])
        BY <1>8, <2>1
    <2>3. 0 \in 0..left /\ \A n \in 1..left : n \in 0..left /\ n # 0
        BY <1>2
    <2> QED BY <2>1, <2>2, <2>3
<1>10. \A n \in 0..left : Good(n, Scanned[n])
    BY <1>4, <1>6, <1>9
<1> QED BY <1>10 DEF Good, left

\* A state that is left when the output has been filled
Filled(f) ==
    /\ DealtWith(options, text, result, f.scanner, f.taken)
    /\ f.exhausted => f.taken = Len(text) /\ f.scanner.reading = FALSE /\ f.scanner.prefix = <<>>

\* Wherever fillOutput stops
LEMMA FillingsAre ==
    ASSUME FilterInv, filtered, NEW target, NEW f \in Fillings(target)
    PROVE  Filled(f)
<1> DEFINE left == Len(text) - position
<1>1. /\ text \in Text /\ options \in Usable /\ position \in 0..Len(text) /\ Len(text) \in Nat
      /\ DealtWith(options, text, result, Now, position)
      /\ streamExhausted => position = Len(text) /\ readingToken = FALSE /\ prefixMatch = <<>>
    BY LenProperties DEF FilterInv, Filtering, DealtWith, Text
<1>2. \A n \in 0..left : DealtWith(options, text, result, Scanned[n], position + n)
    BY ScannedIs
<1>3. CASE streamExhausted
    <2>1. f = Filling(Now, position, TRUE)
        BY <1>3 DEF Fillings
    <2>2. f.scanner = Now /\ f.taken = position
        BY <2>1 DEF Filling
    <2>3. Now.reading = FALSE /\ Now.prefix = <<>>
        BY <1>1, <1>3 DEF Now, Scanner
    <2> QED BY <1>1, <1>3, <2>2, <2>3 DEF Filled
<1>4. ASSUME NEW n \in 0..left, f = Filling(Scanned[n], position + n, FALSE) PROVE Filled(f)
    <2>1. f.scanner = Scanned[n] /\ f.taken = position + n /\ f.exhausted = FALSE
        BY <1>4 DEF Filling
    <2> QED BY <1>2, <2>1 DEF Filled
<1>5. ASSUME f = Filling(Flushed(Scanned[left]), position + left, TRUE) PROVE Filled(f)
    <2>1. PICK s : s = Scanned[left]
        OBVIOUS
    <2>2. PICK r : r = Flushed(s)
        OBVIOUS
    <2>3. f.scanner = r /\ f.taken = position + left
        BY <1>5, <2>1, <2>2 DEF Filling
    <2>4. left \in 0..left /\ position + left = Len(text)
        BY <1>1
    <2>5. DealtWith(options, text, result, s, Len(text))
        BY <1>2, <2>1, <2>4
    <2>6. DealtWith(options, text, result, r, Len(text))
        BY <1>1, <2>2, <2>5, EndDealtWith
    <2>7. r.reading = FALSE /\ r.prefix = <<>>
        BY <2>2 DEF Flushed, Scanner
    <2> QED BY <2>3, <2>4, <2>6, <2>7 DEF Filled
<1>6. CASE ~streamExhausted
    <2>1. \/ \E n \in 0..left : f = Filling(Scanned[n], position + n, FALSE)
          \/ \E n \in {left} : f = Filling(Flushed(Scanned[n]), position + n, TRUE)
        BY <1>6 DEF Fillings
    <2> QED BY <1>4, <1>5, <2>1
<1> QED BY <1>3, <1>6

-----------------------------------------------------------------------------
(* The steps of the reader *)

LEMMA UptoIs ==
    ASSUME NEW bytes \in Text, NEW n \in Nat
    PROVE  /\ Upto(n, bytes) = SubSeq(bytes, 1, Len(Upto(n, bytes)))
           /\ Len(Upto(n, bytes)) \in 0..Len(bytes) /\ Upto(n, bytes) \in Text
           /\ SubSeq(bytes, Len(Upto(n, bytes)) + 1, Len(bytes)) \in Text
           /\ Upto(n, bytes) \o SubSeq(bytes, Len(Upto(n, bytes)) + 1, Len(bytes)) = bytes
<1>1. bytes \in Seq(STRING) /\ Len(bytes) \in Nat
    BY LenProperties DEF Text
<1>2. PICK m \in 0..Len(bytes) : Upto(n, bytes) = SubSeq(bytes, 1, m)
    <2>1. (IF n < Len(bytes) THEN n ELSE Len(bytes)) \in 0..Len(bytes)
        BY <1>1
    <2> QED BY <2>1 DEF Upto
<1>3. PICK u : u = Upto(n, bytes)
    OBVIOUS
<1>4. u = SubSeq(bytes, 1, m) /\ u \in Seq(STRING) /\ Len(u) = m
    BY <1>1, <1>2, <1>3, FirstIs
<1>5. SubSeq(bytes, m + 1, Len(bytes)) \in Seq(STRING)
    <2>1. m + 1 \in Nat \ {0} /\ Len(bytes) \in 0..Len(bytes)
        BY <1>1
    <2> QED BY <1>1, <2>1, PartIs
<1>6. SubSeq(bytes, 1, m) \o SubSeq(bytes, m + 1, Len(bytes)) = bytes
    <2>1. 1 \in Nat \ {0} /\ m \in (1 - 1)..Len(bytes) /\ Len(bytes) \in m..Len(bytes)
        BY <1>1
    <2>2. SubSeq(bytes, 1, m) \o SubSeq(bytes, m + 1, Len(bytes)) = SubSeq(bytes, 1, Len(bytes))
        BY <1>1, <2>1, Join
    <2>3. SubSeq(bytes, 1, Len(bytes)) = bytes
        BY <1>1, SubSeqFull
    <2> QED BY <2>2, <2>3
<1> QED BY <1>3, <1>4, <1>5, <1>6 DEF Text

\* Giving a part of the output to the reader
LEMMA GivenDealtWith ==
    ASSUME NEW o, NEW t, NEW given, NEW s, NEW p, DealtWith(o, t, given, s, p),
           NEW copied \in Text, NEW rest \in Text, s.out = copied \o rest
    PROVE  DealtWith(o, t, given \o copied, Scanner(rest, s.reading, s.prefix, s.token, s.suffix), p)
<1> DEFINE r == Scanner(rest, s.reading, s.prefix, s.token, s.suffix)
<1>1. PICK a \in Nat : Follows(o, t, s, p, a) /\ Emits(o, t, given \o s.out, p, 1, a)
    BY DEF DealtWith
<1>2. given \in Text /\ s \in Scanners /\ p \in 0..Len(t)
    BY <1>1 DEF DealtWith, Follows
<1>3. /\ r \in Scanners /\ r.out = rest /\ r.reading = s.reading /\ r.prefix = s.prefix
      /\ r.token = s.token /\ r.suffix = s.suffix
    BY <1>2 DEF Scanner, Scanners
<1> HIDE DEF r
<1>4. Follows(o, t, r, p, a)
    <2>1. InLiteral(o, t, s, p, a) => InLiteral(o, t, r, p, a)
        BY <1>3 DEF InLiteral
    <2>2. \A u \in Nat : InToken(o, t, s, p, a, u) => InToken(o, t, r, p, a, u)
        BY <1>3 DEF InToken
    <2> QED BY <1>1, <1>3, <2>1, <2>2 DEF Follows
<1>5. given \o (copied \o rest) = (given \o copied) \o rest
    <2>1. given \in Seq(STRING) /\ copied \in Seq(STRING) /\ rest \in Seq(STRING)
        BY <1>2 DEF Text
    <2>2. Grouped(given, copied, rest)
        BY <2>1, Regrouped
    <2> QED BY <2>2 DEF Grouped
<1>6. (given \o copied) \o r.out = given \o s.out
    BY <1>3, <1>5
<1>7. given \o copied \in Text
    BY <1>2, ConcatProperties DEF Text
<1>8. Emits(o, t, (given \o copied) \o r.out, p, 1, a)
    BY <1>1, <1>6
<1>9. DealtWith(o, t, given \o copied, r, p)
    BY <1>2, <1>4, <1>7, <1>8 DEF DealtWith
<1> QED BY <1>9 DEF r

LEMMA ReadStep ==
    ASSUME FilterInv, NEW n \in Nat, Read(n)
    PROVE  FilterInv'
<1>1. filtered /\ UNCHANGED <<options, text, page, filtered>>
    BY DEF Read
<1>2. PICK f \in Fillings(n) :
        LET copied == Upto(n, f.scanner.out)
        IN  /\ result' = result \o copied
            /\ output' = SubSeq(f.scanner.out, Len(copied) + 1, Len(f.scanner.out))
            /\ position' = f.taken /\ streamExhausted' = f.exhausted
            /\ readingToken' = f.scanner.reading /\ prefixMatch' = f.scanner.prefix
            /\ tokenBuffer' = f.scanner.token /\ suffixMatch' = f.scanner.suffix
    BY DEF Read
<1>3. Filled(f)
    BY <1>1, FillingsAre
<1>4. PICK s, p, out, copied : s = f.scanner /\ p = f.taken /\ out = s.out /\ copied = Upto(n, out)
    OBVIOUS
<1>5. PICK rest : rest = SubSeq(out, Len(copied) + 1, Len(out))
    OBVIOUS
<1>6. DealtWith(options, text, result, s, p)
    BY <1>3, <1>4 DEF Filled
<1>7. out \in Text
    BY <1>4, <1>6 DEF DealtWith, Follows, Scanners
<1>8. copied \in Text /\ rest \in Text /\ s.out = copied \o rest
    BY <1>4, <1>5, <1>7, UptoIs
<1>9. DealtWith(options, text, result \o copied, Scanner(rest, s.reading, s.prefix, s.token, s.suffix), p)
    BY <1>6, <1>8, GivenDealtWith
<1>10. Now' = Scanner(rest, s.reading, s.prefix, s.token, s.suffix)
    BY <1>2, <1>4, <1>5 DEF Now, Scanner
<1>11. DealtWith(options, text, result, Now, position)'
    BY <1>1, <1>2, <1>4, <1>9, <1>10
<1>12. (streamExhausted => position = Len(text) /\ readingToken = FALSE /\ prefixMatch = <<>>)'
    BY <1>1, <1>2, <1>3 DEF Filled
<1>13. options \in Usable /\ Announced /\ text \in Text /\ options \in Options
    BY <1>1 DEF FilterInv, Filtering
<1>14. Announced'
    BY <1>1, <1>13 DEF Announced
<1> HIDE DEF Now
<1>15. Filtering'
    BY <1>1, <1>11, <1>12, <1>13, <1>14 DEF Filtering
<1> QED BY <1>1, <1>13, <1>15 DEF FilterInv

LEMMA FillStep ==
    ASSUME FilterInv, filtered, NEW target, Fill(target),
           UNCHANGED <<options, text, page, filtered, result>>
    PROVE  FilterInv'
<1>1. PICK f \in Fillings(target) :
        /\ position' = f.taken /\ streamExhausted' = f.exhausted
        /\ readingToken' = f.scanner.reading /\ prefixMatch' = f.scanner.prefix
        /\ tokenBuffer' = f.scanner.token /\ suffixMatch' = f.scanner.suffix
        /\ output' = f.scanner.out
    BY DEF Fill
<1>2. Filled(f)
    BY FillingsAre
<1>3. PICK s : s = f.scanner
    OBVIOUS
<1>4. DealtWith(options, text, result, s, f.taken)
    BY <1>2, <1>3 DEF Filled
<1>5. s \in Scanners
    BY <1>4 DEF DealtWith, Follows
<1>6. s = Scanner(s.out, s.reading, s.prefix, s.token, s.suffix)
    BY <1>5 DEF Scanner, Scanners
<1>7. Now' = Scanner(s.out, s.reading, s.prefix, s.token, s.suffix)
    BY <1>1, <1>3 DEF Now, Scanner
<1>8. DealtWith(options, text, result, Now, position)'
    BY <1>1, <1>4, <1>6, <1>7
<1>9. (streamExhausted => position = Len(text) /\ readingToken = FALSE /\ prefixMatch = <<>>)'
    BY <1>1, <1>2 DEF Filled
<1>10. options \in Usable /\ Announced /\ text \in Text /\ options \in Options
    BY DEF FilterInv, Filtering
<1>11. Announced'
    BY <1>10 DEF Announced
<1>12. Filtering'
    BY <1>8, <1>9, <1>10, <1>11 DEF Filtering
<1> QED BY <1>10, <1>12 DEF FilterInv

LEMMA ReadBodyStep ==
    ASSUME FilterInv, NEW n \in Nat, ReadBody(n)
    PROVE  FilterInv'
<1>1. /\ ~filtered /\ UNCHANGED <<options, text, page, filtered>>
      /\ result' = result \o Upto(n, SubSeq(text, position + 1, Len(text)))
      /\ position' = Len(result') /\ streamExhausted' = (Len(result') = Len(text))
    BY DEF ReadBody
<1>2. /\ text \in Text /\ options \in Options /\ position \in 0..Len(text)
      /\ result = SubSeq(text, 1, position) /\ Len(text) \in Nat /\ text \in Seq(STRING)
    BY <1>1, LenProperties DEF FilterInv, Passing, Text
<1>3. PICK left, copied, m : /\ left = SubSeq(text, position + 1, Len(text)) /\ copied = Upto(n, left)
                             /\ m = Len(copied)
    OBVIOUS
<1>4. left \in Text /\ Len(left) = Len(text) - position
    <2>1. position + 1 \in Nat \ {0} /\ Len(text) \in 0..Len(text)
        BY <1>2
    <2>2. left \in Text /\ Len(left) = (IF position + 1 <= Len(text) THEN Len(text) - (position + 1) + 1 ELSE 0)
        BY <1>2, <1>3, <2>1, PartIs DEF Text
    <2> QED BY <1>2, <2>2
<1>5. copied = SubSeq(left, 1, m) /\ m \in 0..Len(left)
    BY <1>3, <1>4, UptoIs
<1>6. copied = SubSeq(text, position + 1, position + m)
    <2>1. /\ Len(text) \in 0..Len(text) /\ position + 1 \in 1..(Len(text) + 1)
          /\ 1 \in 1..(Len(text) - (position + 1) + 2) /\ m \in (1 - 1)..(Len(text) - (position + 1) + 1)
          /\ (position + 1) + 1 - 1 = position + 1 /\ (position + 1) + m - 1 = position + m
        BY <1>2, <1>4, <1>5
    <2>2. SubSeq(SubSeq(text, position + 1, Len(text)), 1, m)
            = SubSeq(text, (position + 1) + 1 - 1, (position + 1) + m - 1)
        BY <1>2, <2>1, PartOfPart
    <2> QED BY <1>3, <1>5, <2>1, <2>2
<1>7. position + m \in 0..Len(text)
    BY <1>2, <1>4, <1>5
<1>8. result' = SubSeq(text, 1, position + m)
    <2>1. 1 \in Nat \ {0} /\ position \in (1 - 1)..Len(text) /\ position + m \in position..Len(text)
        BY <1>2, <1>4, <1>5
    <2>2. SubSeq(text, 1, position) \o SubSeq(text, position + 1, position + m)
            = SubSeq(text, 1, position + m)
        BY <1>2, <2>1, Join
    <2> QED BY <1>1, <1>2, <1>3, <1>6, <2>2
<1>9. Len(result') = position + m
    BY <1>2, <1>7, <1>8, FirstIs
<1>10. Passing'
    BY <1>1, <1>7, <1>8, <1>9 DEF Passing
<1> QED BY <1>1, <1>2, <1>10 DEF FilterInv

LEMMA FilterNext == FilterInv /\ [ReplaceNext]_replaceVars => FilterInv'
<1> SUFFICES ASSUME FilterInv, [ReplaceNext]_replaceVars PROVE FilterInv'
    OBVIOUS
<1>0. 1..MaxRead \subseteq Nat
    BY CasesAssumption
<1>1. ASSUME NEW n \in 1..MaxRead, Read(n) PROVE FilterInv'
    BY <1>0, <1>1, ReadStep
<1>2. ASSUME NEW n \in 1..MaxRead, Peek(n) PROVE FilterInv'
    BY <1>2, FillStep DEF Peek
<1>3. ASSUME NEW n \in 1..MaxRead, ReadBody(n) PROVE FilterInv'
    BY <1>0, <1>3, ReadBodyStep
<1>4. CASE Ask
    BY <1>4, FillStep DEF Ask
<1>5. CASE UNCHANGED replaceVars
    BY <1>5 DEF replaceVars, parserVars, FilterInv, Filtering, Passing, Announced, Now
<1> QED BY <1>1, <1>2, <1>3, <1>4, <1>5 DEF ReplaceNext

\* What has been read of a body with its tokens replaced is what has been given, what is to
\* be given and what is held back.
THEOREM TokensAreReplaced == ReplaceSpec => []TextIsSubstituted
<1>1. FilterInv => TextIsSubstituted
    <2> SUFFICES ASSUME FilterInv, filtered PROVE TextIsSubstituted
        BY DEF TextIsSubstituted
    <2>1. /\ text \in Text /\ options \in Usable /\ position \in 0..Len(text) /\ Len(text) \in Nat
          /\ DealtWith(options, text, result, Now, position)
          /\ streamExhausted => position = Len(text) /\ readingToken = FALSE /\ prefixMatch = <<>>
        BY LenProperties DEF FilterInv, Filtering, DealtWith, Text
    <2>2. PICK s, p : s = Now /\ p = position
        OBVIOUS
    <2>3. PICK a \in Nat : Follows(options, text, s, p, a) /\ Emits(options, text, result \o s.out, p, 1, a)
        BY <2>1, <2>2 DEF DealtWith
    <2>4. result \in Text /\ s \in Scanners /\ s.out \in Text /\ a \in 1..(p + 1) /\ p \in Nat /\ p <= Len(text)
        BY <2>1, <2>2, <2>3 DEF DealtWith, Follows, Scanners
    <2>5. PICK e : e = SubSeq(text, a, p)
        OBVIOUS
    <2>6. Flushed(s) = Scanner(s.out \o e, FALSE, <<>>, <<>>, <<>>) /\ e \in Text
        BY <2>1, <2>3, <2>4, <2>5, FlushIs
    <2>7. Flushed(s).out = s.out \o e
        BY <2>6 DEF Scanner
    <2>8. result \o Flushed(s).out = (result \o s.out) \o e
        <3>1. result \o (s.out \o e) = (result \o s.out) \o e
            <4>1. result \in Seq(STRING) /\ s.out \in Seq(STRING) /\ e \in Seq(STRING)
                BY <2>4, <2>6 DEF Text
            <4>2. Grouped(result, s.out, e)
                BY <4>1, Regrouped
            <4> QED BY <4>2 DEF Grouped
        <3> QED BY <2>7, <3>1
    <2>9. PICK read : read = SubSeq(text, 1, p)
        OBVIOUS
    <2>10. ASSUME ~Overlapping PROVE result \o Flushed(s).out = Substitution(read)
        <3>1. ~OverlapsItself(options.suffix)
            BY <2>10 DEF Overlapping, OverlapsItself
        <3>2. read \in Text /\ p \in 0..Len(text)
            BY <2>1, <2>2, <2>9, ReadIs
        <3>3. PICK f : f = Substituted(read)
            OBVIOUS
        <3>4. Rule(options, SubSeq(text, 1, p), f)
            BY <2>1, <2>9, <3>2, <3>3, SubstitutedIs
        <3>5. f[1] = (result \o s.out) \o f[a]
            <4>1. p \in p..Len(text)
                BY <2>1, <2>4
            <4> QED BY <2>3, <3>1, <3>4, <4>1 DEF Emits, Becomes
        <3>6. f[a] = e
            BY <2>1, <2>3, <2>4, <2>5, <3>1, <3>4, PendingIs
        <3> QED BY <2>8, <3>3, <3>5, <3>6 DEF Substitution
    <2>11. ASSUME (\A v \in Values : Occurrences(v.key, read) = {}) /\ ~options.replaceWithEmpty
           PROVE  result \o Flushed(s).out = read
        <3>1. NothingKnown(options, text, p)
            BY <2>9, <2>11 DEF NothingKnown
        <3>2. result \o s.out = SubSeq(text, 1, a - 1)
            BY <2>3, <3>1 DEF Emits
        <3>3. SubSeq(text, 1, a - 1) \o SubSeq(text, (a - 1) + 1, p) = SubSeq(text, 1, p) /\ (a - 1) + 1 = a
            <4>1. 1 \in Nat \ {0} /\ a - 1 \in (1 - 1)..Len(text) /\ p \in (a - 1)..Len(text) /\ (a - 1) + 1 = a
                BY <2>1, <2>4
            <4>2. text \in Seq(STRING)
                BY <2>1 DEF Text
            <4> QED BY <4>1, <4>2, Join
        <3> QED BY <2>5, <2>8, <2>9, <3>2, <3>3
    <2>12. ASSUME streamExhausted
           PROVE  position = Len(text) /\ result \o Flushed(s).out = result \o output
        <3>1. s.reading = FALSE /\ s.prefix = <<>> /\ s.out = output
            BY <2>1, <2>2, <2>12 DEF Now, Scanner
        <3>2. s.out \o <<>> = s.out
            BY <2>4, ConcatEmptySeq DEF Text
        <3>3. Flushed(s).out = s.out
            BY <3>1, <3>2 DEF Flushed, Scanner
        <3> QED BY <2>1, <2>12, <3>1, <3>3
    <2> QED BY <2>2, <2>9, <2>10, <2>11, <2>12 DEF TextIsSubstituted
<1> QED BY <1>1, FilterInit, FilterNext, PTL DEF ReplaceSpec

\* The response that the filter has wrapped announces no length, and is neither encoded nor
\* kept from it by its type; one that it has not wrapped gives its body as it is.
THEOREM HeadersStayTrue == ReplaceSpec => []HeadersFitTheBody
<1>1. FilterInv => HeadersFitTheBody
    <2> SUFFICES ASSUME FilterInv PROVE HeadersFitTheBody
        OBVIOUS
    <2>1. CASE filtered
        BY <2>1 DEF FilterInv, Filtering, Announced, HeadersFitTheBody
    <2>2. CASE ~filtered
        <3>1. /\ text \in Seq(STRING) /\ position \in 0..Len(text) /\ result = SubSeq(text, 1, position)
              /\ streamExhausted => position = Len(text)
            BY <2>2 DEF FilterInv, Passing, Text
        <3>2. Len(result) = position /\ Len(text) \in Nat /\ result \in Seq(STRING)
            BY <3>1, FirstIs
        <3>3. IsPrefix(result, text)
            <4>1. SubSeq(result, 1, Len(result)) = result
                BY <3>2, SubSeqFull
            <4> QED BY <3>1, <3>2, <4>1 DEF IsPrefix
        <3> QED BY <3>1, <3>2, <3>3 DEF HeadersFitTheBody
    <2> QED BY <2>1, <2>2
<1> QED BY <1>1, FilterInit, FilterNext, PTL DEF ReplaceSpec

-----------------------------------------------------------------------------
(* Transcoding: what is taken of a sequence first and what is left *)

\* What First takes and Behind leaves.
LEMMA FirstOf ==
    ASSUME NEW S, NEW s \in Seq(S), NEW n \in Nat
    PROVE  /\ First(n, s) \in Seq(S) /\ Len(First(n, s)) = IF n < Len(s) THEN n ELSE Len(s)
           /\ \A i \in 1..Len(First(n, s)) : First(n, s)[i] = s[i]
<1> DEFINE b == IF n < Len(s) THEN n ELSE Len(s)
<1>1. b \in 0..Len(s)
    OBVIOUS
<1>2. First(n, s) = SubSeq(s, 1, b)
    BY DEF First
<1> HIDE DEF b
<1>3. /\ SubSeq(s, 1, b) \in Seq(S) /\ Len(SubSeq(s, 1, b)) = b
      /\ \A i \in 1..b : SubSeq(s, 1, b)[i] = s[i]
    BY <1>1, FirstIs
<1> QED BY <1>2, <1>3 DEF b

LEMMA BehindOf ==
    ASSUME NEW S, NEW s \in Seq(S), NEW n \in Nat
    PROVE  /\ Behind(n, s) \in Seq(S) /\ Len(Behind(n, s)) = IF n < Len(s) THEN Len(s) - n ELSE 0
           /\ \A i \in 1..Len(Behind(n, s)) : Behind(n, s)[i] = s[n + i]
<1>0. Len(s) \in 0..Len(s) /\ Len(s) \in Nat
    OBVIOUS
<1> PICK a \in Nat \ {0} : a = n + 1
    OBVIOUS
<1>1. /\ SubSeq(s, a, Len(s)) \in Seq(S) /\ Len(s) \in Nat
      /\ Len(SubSeq(s, a, Len(s))) = IF a <= Len(s) THEN Len(s) - a + 1 ELSE 0
      /\ \A i \in 1..(Len(s) - a + 1) : SubSeq(s, a, Len(s))[i] = s[a + i - 1]
    BY <1>0, PartIs
<1>2. Behind(n, s) = SubSeq(s, a, Len(s))
    BY DEF Behind
<1> DEFINE t == SubSeq(s, a, Len(s))
<1> HIDE DEF t
<1>3. Len(t) = IF n < Len(s) THEN Len(s) - n ELSE 0
    BY <1>1 DEF t
<1>4. ASSUME NEW i \in 1..Len(t) PROVE t[i] = s[n + i]
    <2>1. i \in 1..(Len(s) - a + 1)
        BY <1>3, <1>0
    <2>2. t[i] = s[a + i - 1]
        BY <1>1, <2>1 DEF t
    <2>3. a + i - 1 = n + i
        OBVIOUS
    <2> QED BY <2>2, <2>3
<1> QED BY <1>1, <1>2, <1>3, <1>4 DEF t

LEMMA SplitAt ==
    ASSUME NEW S, NEW s \in Seq(S), NEW n \in Nat
    PROVE  First(n, s) \o Behind(n, s) = s
<1> DEFINE u == First(n, s)
           v == Behind(n, s)
<1>1. u \in Seq(S) /\ Len(u) = (IF n < Len(s) THEN n ELSE Len(s)) /\ \A i \in 1..Len(u) : u[i] = s[i]
    BY FirstOf
<1>2. v \in Seq(S) /\ Len(v) = (IF n < Len(s) THEN Len(s) - n ELSE 0) /\ \A i \in 1..Len(v) : v[i] = s[n + i]
    BY BehindOf
<1> HIDE DEF u, v
<1>3. Len(u \o v) = Len(s)
    BY <1>1, <1>2
<1>4. ASSUME NEW i \in 1..Len(s) PROVE (u \o v)[i] = s[i]
    <2>1. CASE i <= Len(u)
        BY <1>1, <1>2, <2>1
    <2>2. CASE ~(i <= Len(u))
        <3>1. n < Len(s) /\ Len(u) = n
            BY <1>1, <2>2
        <3>2. PICK j \in 1..Len(v) : i = n + j
            <4>1. i - n \in 1..Len(v) /\ i = n + (i - n)
                BY <1>2, <2>2, <3>1
            <4> QED BY <4>1
        <3>3. (u \o v)[i] = v[j]
            BY <1>1, <1>2, <3>1, <3>2
        <3> QED BY <1>2, <3>2, <3>3
    <2> QED BY <2>1, <2>2
<1>5. u \o v \in Seq(S)
    BY <1>1, <1>2
<1>6. u \o v = s
    BY <1>3, <1>4, <1>5, SeqEqual
<1> QED BY <1>6 DEF u, v

\* A sequence that is put together comes apart at the same place.
LEMMA FirstOfConcat ==
    ASSUME NEW S, NEW u \in Seq(S), NEW v \in Seq(S)
    PROVE  First(Len(u), u \o v) = u
<1>1. u \o v \in Seq(S) /\ Len(u \o v) = Len(u) + Len(v) /\ Len(u) \in Nat /\ Len(v) \in Nat
    OBVIOUS
<1>2. /\ First(Len(u), u \o v) \in Seq(S)
      /\ Len(First(Len(u), u \o v)) = IF Len(u) < Len(u \o v) THEN Len(u) ELSE Len(u \o v)
      /\ \A i \in 1..Len(First(Len(u), u \o v)) : First(Len(u), u \o v)[i] = (u \o v)[i]
    BY <1>1, FirstOf
<1> DEFINE w == First(Len(u), u \o v)
<1> HIDE DEF w
<1>3. w \in Seq(S) /\ Len(w) = Len(u)
    BY <1>1, <1>2 DEF w
<1>4. \A i \in 1..Len(u) : w[i] = u[i]
    BY <1>1, <1>2, <1>3 DEF w
<1>5. w = u
    BY <1>3, <1>4, SeqEqual
<1> QED BY <1>5 DEF w

LEMMA BehindOfConcat ==
    ASSUME NEW S, NEW u \in Seq(S), NEW v \in Seq(S)
    PROVE  Behind(Len(u), u \o v) = v
<1>1. u \o v \in Seq(S) /\ Len(u \o v) = Len(u) + Len(v) /\ Len(u) \in Nat /\ Len(v) \in Nat
    OBVIOUS
<1>2. /\ Behind(Len(u), u \o v) \in Seq(S)
      /\ Len(Behind(Len(u), u \o v)) = IF Len(u) < Len(u \o v) THEN Len(u \o v) - Len(u) ELSE 0
      /\ \A i \in 1..Len(Behind(Len(u), u \o v)) : Behind(Len(u), u \o v)[i] = (u \o v)[Len(u) + i]
    BY <1>1, BehindOf
<1> DEFINE w == Behind(Len(u), u \o v)
<1> HIDE DEF w
<1>3. w \in Seq(S) /\ Len(w) = Len(v)
    BY <1>1, <1>2 DEF w
<1>4. \A i \in 1..Len(v) : w[i] = v[i]
    BY <1>1, <1>2, <1>3 DEF w
<1>5. w = v
    BY <1>3, <1>4, SeqEqual
<1> QED BY <1>5 DEF w

-----------------------------------------------------------------------------
(* Base64: a block of bytes and its characters *)

\* A byte in two parts
LEMMA PartsOfOctet ==
    ASSUME NEW x \in 0..255
    PROVE  /\ x \div 4 \in 0..63 /\ x % 4 \in 0..3 /\ x = (x \div 4) * 4 + (x % 4)
           /\ x \div 16 \in 0..15 /\ x % 16 \in 0..15 /\ x = (x \div 16) * 16 + (x % 16)
           /\ x \div 64 \in 0..3 /\ x % 64 \in 0..63 /\ x = (x \div 64) * 64 + (x % 64)
OBVIOUS

\* Three bytes as a number, and the two characters that are cut across bytes
NumberOf(x, y, z) == (x * 256 + y) * 256 + z
SecondOf(x, y) == (x % 4) * 16 + y \div 16
ThirdOf(y, z) == (y % 16) * 4 + z \div 64

SextetsFit(x, y, z) ==
    /\ ((NumberOf(x, y, z) \div 64) \div 64) \div 64 = x \div 4
    /\ ((NumberOf(x, y, z) \div 64) \div 64) % 64 = SecondOf(x, y)
    /\ (NumberOf(x, y, z) \div 64) % 64 = ThirdOf(y, z)
    /\ NumberOf(x, y, z) % 64 = z % 64
    /\ x \div 4 \in 0..63 /\ SecondOf(x, y) \in 0..63 /\ ThirdOf(y, z) \in 0..63 /\ z % 64 \in 0..63

LEMMA SextetsOfNumber ==
    ASSUME NEW x \in 0..255, NEW y \in 0..255, NEW z \in 0..255
    PROVE  SextetsFit(x, y, z)
<1>1. PICK a \in 0..63, b \in 0..3 : a = x \div 4 /\ b = x % 4 /\ x = a * 4 + b
    BY PartsOfOctet
<1>2. PICK c \in 0..15, d \in 0..15 : c = y \div 16 /\ d = y % 16 /\ y = c * 16 + d
    BY PartsOfOctet
<1>3. PICK e \in 0..3, f \in 0..63 : e = z \div 64 /\ f = z % 64 /\ z = e * 64 + f
    BY PartsOfOctet
<1>4. PICK second \in 0..63 : second = b * 16 + c
    OBVIOUS
<1>5. PICK third \in 0..63 : third = d * 4 + e
    OBVIOUS
<1>6. PICK p \in Int : p = a * 64 + second
    OBVIOUS
<1>7. PICK q \in Int : q = p * 64 + third
    OBVIOUS
<1>8. PICK n \in Int : n = q * 64 + f
    OBVIOUS
<1>9. n = (x * 256 + y) * 256 + z
    BY <1>1, <1>2, <1>3, <1>4, <1>5, <1>6, <1>7, <1>8
<1>10. n \div 64 = q /\ n % 64 = f
    BY ONLY <1>8
<1>14. q \div 64 = p /\ q % 64 = third
    BY ONLY <1>7
<1>15. p \div 64 = a /\ p % 64 = second
    BY ONLY <1>6
<1>11. n = NumberOf(x, y, z) /\ second = SecondOf(x, y) /\ third = ThirdOf(y, z)
    BY <1>1, <1>2, <1>3, <1>4, <1>5, <1>9 DEF NumberOf, SecondOf, ThirdOf
<1> HIDE DEF NumberOf, SecondOf, ThirdOf
<1>12. /\ ((n \div 64) \div 64) \div 64 = x \div 4 /\ ((n \div 64) \div 64) % 64 = SecondOf(x, y)
       /\ (n \div 64) % 64 = ThirdOf(y, z) /\ n % 64 = z % 64
    BY <1>1, <1>3, <1>10, <1>14, <1>15, <1>11
<1>16. SecondOf(x, y) \in 0..63 /\ ThirdOf(y, z) \in 0..63
    BY <1>11
<1>17. x \div 4 \in 0..63 /\ z % 64 \in 0..63
    BY <1>1, <1>3
<1> QED BY <1>11, <1>12, <1>16, <1>17 DEF SextetsFit

\* What decodeNextBlock makes of four characters
OctetsOf(a, b, c, d) == <<(a * 4 + b \div 16) % 256, (b % 16) * 16 + c \div 4, ((c % 4) * 64 + d) % 256>>

LEMMA OctetsOfSextets ==
    ASSUME NEW x \in 0..255, NEW y \in 0..255, NEW z \in 0..255
    PROVE  OctetsOf(x \div 4, SecondOf(x, y), ThirdOf(y, z), z % 64) = <<x, y, z>>
<1>1. PICK a \in 0..63, b \in 0..3 : a = x \div 4 /\ b = x % 4 /\ x = a * 4 + b
    BY PartsOfOctet
<1>2. PICK c \in 0..15, d \in 0..15 : c = y \div 16 /\ d = y % 16 /\ y = c * 16 + d
    BY PartsOfOctet
<1>3. PICK e \in 0..3, f \in 0..63 : e = z \div 64 /\ f = z % 64 /\ z = e * 64 + f
    BY PartsOfOctet
<1>4. PICK second \in 0..63 : second = b * 16 + c
    OBVIOUS
<1>5. PICK third \in 0..63 : third = d * 4 + e
    OBVIOUS
<1>6. second \div 16 = b /\ second % 16 = c
    BY ONLY <1>4
<1>7. third \div 4 = d /\ third % 4 = e
    BY ONLY <1>5
<1>8. second = SecondOf(x, y) /\ third = ThirdOf(y, z)
    BY <1>1, <1>2, <1>3, <1>4, <1>5 DEF SecondOf, ThirdOf
<1>9. \A n \in 0..255 : n % 256 = n
    OBVIOUS
<1> HIDE DEF SecondOf, ThirdOf
<1>10. (a * 4 + b) % 256 = x /\ c * 16 + d = y /\ (e * 64 + f) % 256 = z
    BY <1>1, <1>2, <1>3, <1>9
<1>11. OctetsOf(a, second, third, f) = <<x, y, z>>
    BY ONLY <1>6, <1>7, <1>10 DEF OctetsOf
<1> QED BY ONLY <1>1, <1>3, <1>8, <1>11

\* The first of a few numbers
LEMMA FewAre ==
    ASSUME NEW t \in Seq(Int)
    PROVE  /\ Len(t) = 1 => t = <<t[1]>>
           /\ Len(t) = 2 => t = <<t[1], t[2]>>
           /\ Len(t) = 3 => t = <<t[1], t[2], t[3]>>
           /\ Len(t) = 4 => t = <<t[1], t[2], t[3], t[4]>>
OBVIOUS

LEMMA FirstOfFew ==
    ASSUME NEW s \in Seq(Int), NEW n \in 1..4, n <= Len(s)
    PROVE  /\ n = 1 => First(n, s) = <<s[1]>>
           /\ n = 2 => First(n, s) = <<s[1], s[2]>>
           /\ n = 3 => First(n, s) = <<s[1], s[2], s[3]>>
           /\ n = 4 => First(n, s) = <<s[1], s[2], s[3], s[4]>>
<1>1. /\ First(n, s) \in Seq(Int) /\ Len(First(n, s)) = IF n < Len(s) THEN n ELSE Len(s)
      /\ \A i \in 1..Len(First(n, s)) : First(n, s)[i] = s[i]
    <2>1. n \in Nat
        OBVIOUS
    <2> QED BY <2>1, FirstOf
<1> DEFINE t == First(n, s)
<1> HIDE DEF t
<1>2. t \in Seq(Int) /\ Len(t) = n /\ Len(s) \in Nat /\ \A i \in 1..n : t[i] = s[i]
    BY <1>1 DEF t
<1>3. n = 1 => t = <<s[1]>>
    BY <1>2
<1>4. n = 2 => t = <<s[1], s[2]>>
    BY <1>2
<1>5. n = 3 => t = <<s[1], s[2], s[3]>>
    BY <1>2
<1>6. n = 4 => t = <<s[1], s[2], s[3], s[4]>>
    BY <1>2
<1> QED BY <1>3, <1>4, <1>5, <1>6 DEF t

\* Sequences that are long enough, and what is taken of them first
AtLeast(s, n) == n <= Len(s)

LEMMA FirstOne ==
    ASSUME NEW s \in Seq(Int), AtLeast(s, 1)
    PROVE  First(1, s) = <<s[1]>>
<1>1. PICK n \in 1..4 : n = 1
    OBVIOUS
<1>2. n <= Len(s)
    BY <1>1 DEF AtLeast
<1>3. First(n, s) = <<s[1]>>
    BY <1>1, <1>2, FirstOfFew
<1> QED BY <1>1, <1>3

LEMMA FirstTwo ==
    ASSUME NEW s \in Seq(Int), AtLeast(s, 2)
    PROVE  First(2, s) = <<s[1], s[2]>>
<1>1. PICK n \in 1..4 : n = 2
    OBVIOUS
<1>2. n <= Len(s)
    BY <1>1 DEF AtLeast
<1>3. First(n, s) = <<s[1], s[2]>>
    BY <1>1, <1>2, FirstOfFew
<1> QED BY <1>1, <1>3

LEMMA FirstThree ==
    ASSUME NEW s \in Seq(Int), AtLeast(s, 3)
    PROVE  First(3, s) = <<s[1], s[2], s[3]>>
<1>1. PICK n \in 1..4 : n = 3
    OBVIOUS
<1>2. n <= Len(s)
    BY <1>1 DEF AtLeast
<1>3. First(n, s) = <<s[1], s[2], s[3]>>
    BY <1>1, <1>2, FirstOfFew
<1> QED BY <1>1, <1>3

LEMMA FirstFour ==
    ASSUME NEW s \in Seq(Int), AtLeast(s, 4)
    PROVE  First(4, s) = <<s[1], s[2], s[3], s[4]>>
<1>1. PICK n \in 1..4 : n = 4
    OBVIOUS
<1>2. n <= Len(s)
    BY <1>1 DEF AtLeast
<1>3. First(n, s) = <<s[1], s[2], s[3], s[4]>>
    BY <1>1, <1>2, FirstOfFew
<1> QED BY <1>1, <1>3

\* What decodeNextBlock makes of a character, and how many bytes of a block
Unpadded(v) == IF v = Padding THEN -1 ELSE v
IsCount(n, c) == n = IF c[3] = 64 THEN 1 ELSE IF c[4] = 64 THEN 2 ELSE 3
Charactered(c) == c[1] \in 0..63 /\ c[2] \in 0..63 /\ c[3] \in 0..64 /\ c[4] \in 0..64
DecodedTo(c, n) == DecodedBlock(c) = First(n, OctetsOf(c[1], c[2], Unpadded(c[3]), Unpadded(c[4])))

LEMMA DecodedIs ==
    ASSUME NEW c, Charactered(c), NEW n, IsCount(n, c)
    PROVE  DecodedTo(c, n)
<1>2. PICK vp \in Int, vq \in Int, vr \in Int, vs \in Int :
        vp = Unpadded(c[1]) /\ vq = Unpadded(c[2]) /\ vr = Unpadded(c[3]) /\ vs = Unpadded(c[4])
    <2>1. Unpadded(c[1]) \in Int /\ Unpadded(c[2]) \in Int
        BY DEF Unpadded, Charactered
    <2>2. Unpadded(c[3]) \in Int /\ Unpadded(c[4]) \in Int
        BY DEF Unpadded, Charactered
    <2> QED BY <2>1, <2>2
<1>3. DecodedBlock(c) = First(IF vr = -1 THEN 1 ELSE IF vs = -1 THEN 2 ELSE 3,
                              <<IF vq = -1 THEN 255 ELSE (vp * 4 + vq \div 16) % 256,
                                (vq % 16) * 16 + vr \div 4, ((vr % 4) * 64 + vs) % 256>>)
    BY <1>2 DEF DecodedBlock, Unpadded
<1>4. vp = c[1] /\ vq = c[2] /\ vq # -1 /\ (vr = -1 <=> c[3] = 64) /\ (vs = -1 <=> c[4] = 64)
    BY <1>2 DEF Unpadded, Padding, Charactered
<1> QED BY <1>2, <1>3, <1>4 DEF OctetsOf, IsCount, DecodedTo

CodeOf(x, y, z) == <<x \div 4, SecondOf(x, y), ThirdOf(y, z), z % 64>>

LEMMA SextetsAre ==
    ASSUME NEW x, NEW y, NEW z
    PROVE  Sextets(<<x, y, z>>) = CodeOf(x, y, z)
BY DEF Sextets, CodeOf, SecondOf, ThirdOf

LEMMA UnpaddedIs ==
    ASSUME NEW v \in 0..63
    PROVE  Unpadded(v) = v /\ v # 64 /\ v \in 0..64 /\ v \in Int
BY DEF Unpadded, Padding

LEMMA PaddingIs == Unpadded(64) = -1
BY DEF Unpadded, Padding

\* Block, encodeNextBlock and decodeNextBlock agree on a block of one, two or three bytes.
Encodes(b, c) == Block(b) = c /\ EncodedBlock(b, TRUE) = c /\ DecodedBlock(c) = b

LEMMA BlockOfThree ==
    ASSUME NEW x \in 0..255, NEW y \in 0..255, NEW z \in 0..255
    PROVE  Encodes(<<x, y, z>>, CodeOf(x, y, z))
<1>0. SextetsFit(x, y, z)
    BY SextetsOfNumber
<1> DEFINE p == x \div 4
           q == SecondOf(x, y)
           r == ThirdOf(y, z)
           s == z % 64
           b == <<x, y, z>>
           c == <<p, q, r, s>>
<1>1. p \in 0..63 /\ q \in 0..63 /\ r \in 0..63 /\ s \in 0..63
    BY <1>0 DEF SextetsFit
<1>2. b \in Seq(Int) /\ Len(b) = 3 /\ b[1] = x /\ b[2] = y /\ b[3] = z
    OBVIOUS
<1>3. OctetsOf(p, q, r, s) = b
    BY OctetsOfSextets
<1>4. Sextets(b) = c
    BY SextetsAre DEF CodeOf
<1>5. Block(b) = c
    <2>1. Block(b) = <<((NumberOf(x, y, z) \div 64) \div 64) \div 64, ((NumberOf(x, y, z) \div 64) \div 64) % 64,
                       (NumberOf(x, y, z) \div 64) % 64, NumberOf(x, y, z) % 64>>
        <3> HIDE DEF b
        <3> QED BY <1>2 DEF Block, NumberOf
    <2> QED BY <1>0, <2>1 DEF SextetsFit
<1>6. CodeOf(x, y, z) = c
    BY DEF CodeOf
<1> HIDE DEF p, q, r, s
<1>7. c \in Seq(Int) /\ c[1] = p /\ c[2] = q /\ c[3] = r /\ c[4] = s /\ Len(c) = 4
    BY <1>1
<1>8. DecodedBlock(c) = First(3, OctetsOf(p, q, r, s))
    <2>1. Unpadded(r) = r /\ Unpadded(s) = s /\ r # 64 /\ s # 64 /\ r \in 0..64 /\ s \in 0..64
        BY <1>1, UnpaddedIs
    <2> HIDE DEF b, c
    <2>2. Charactered(c) /\ IsCount(3, c)
        BY <1>1, <1>7, <2>1 DEF Charactered, IsCount
    <2>3. DecodedTo(c, 3)
        BY <2>2, DecodedIs
    <2> QED BY <1>7, <2>1, <2>3 DEF DecodedTo
<1> HIDE DEF b, c
<1>9. EncodedBlock(b, TRUE) = c
    <2>1. b \o [n \in 1..3 - Len(b) |-> 0] = b
        BY <1>2
    <2>2. [n \in 1..3 - Len(b) |-> Padding] = <<>>
        BY <1>2
    <2>3. Len(b) + 1 = 4 /\ c \o <<>> = c
        BY <1>2, <1>7
    <2>4. EncodedBlock(b, TRUE) = First(4, c) \o <<>>
        BY <1>4, <2>1, <2>2, <2>3 DEF EncodedBlock
    <2>5. First(4, c) = <<c[1], c[2], c[3], c[4]>>
        <3>1. c \in Seq(Int) /\ AtLeast(c, 4)
            BY <1>7 DEF AtLeast
        <3> QED BY <3>1, FirstFour
    <2>6. c = <<c[1], c[2], c[3], c[4]>>
        BY <1>7, FewAre
    <2> QED BY <2>3, <2>4, <2>5, <2>6
<1>10. DecodedBlock(c) = b
    <2>1. First(3, b) = <<b[1], b[2], b[3]>>
        <3>1. b \in Seq(Int) /\ AtLeast(b, 3)
            BY <1>2 DEF AtLeast
        <3> QED BY <3>1, FirstThree
    <2>2. b = <<b[1], b[2], b[3]>>
        BY <1>2, FewAre
    <2> QED BY <1>3, <1>8, <2>1, <2>2
<1>11. Encodes(b, c)
    BY <1>5, <1>9, <1>10 DEF Encodes
<1> QED BY <1>6, <1>11 DEF b

LEMMA BlockOfTwo ==
    ASSUME NEW x \in 0..255, NEW y \in 0..255
    PROVE  Encodes(<<x, y>>, <<x \div 4, SecondOf(x, y), ThirdOf(y, 0), Padding>>)
<1>0. SextetsFit(x, y, 0)
    <2>1. 0 \in 0..255
        OBVIOUS
    <2> QED BY <2>1, SextetsOfNumber
<1> DEFINE p == x \div 4
           q == SecondOf(x, y)
           r == ThirdOf(y, 0)
           b == <<x, y>>
           c == <<p, q, r, Padding>>
           f == <<p, q, r, 0>>
<1>1. p \in 0..63 /\ q \in 0..63 /\ r \in 0..63
    BY <1>0 DEF SextetsFit
<1>2. b \in Seq(Int) /\ Len(b) = 2 /\ b[1] = x /\ b[2] = y
    OBVIOUS
<1>3. /\ (p * 4 + q \div 16) % 256 = x /\ (q % 16) * 16 + r \div 4 = y
    <2>1. 0 \in 0..255
        OBVIOUS
    <2>2. OctetsOf(p, q, r, 0 % 64) = <<x, y, 0>>
        BY <2>1, OctetsOfSextets
    <2> QED BY <2>2 DEF OctetsOf
<1>4. Sextets(<<x, y, 0>>) = f
    <2>1. Sextets(<<x, y, 0>>) = CodeOf(x, y, 0)
        BY SextetsAre
    <2>2. 0 % 64 = 0
        OBVIOUS
    <2> QED BY <2>1, <2>2 DEF CodeOf
<1>5. Block(b) = c
    <2>1. Block(b) = <<((NumberOf(x, y, 0) \div 64) \div 64) \div 64, ((NumberOf(x, y, 0) \div 64) \div 64) % 64,
                       (NumberOf(x, y, 0) \div 64) % 64, Padding>>
        <3> HIDE DEF b
        <3> QED BY <1>2 DEF Block, NumberOf
    <2> QED BY <1>0, <2>1 DEF SextetsFit
<1> HIDE DEF p, q, r
<1>7. c \in Seq(Int) /\ c[1] = p /\ c[2] = q /\ c[3] = r /\ c[4] = Padding /\ Len(c) = 4
    BY <1>1 DEF Padding
<1>8. f \in Seq(Int) /\ f[1] = p /\ f[2] = q /\ f[3] = r /\ Len(f) = 4
    BY <1>1
<1> HIDE DEF b, c, f
<1>9. EncodedBlock(b, TRUE) = c
    <2>1. b \o [n \in 1..3 - Len(b) |-> 0] = <<x, y, 0>>
        <3>1. [n \in 1..3 - Len(b) |-> 0] = <<0>>
            BY <1>2
        <3>2. b \o <<0>> \in Seq(Int) /\ Len(b \o <<0>>) = 3 /\ (b \o <<0>>)[1] = x /\ (b \o <<0>>)[2] = y
              /\ (b \o <<0>>)[3] = 0
            <4> DEFINE u == <<0>>
            <4>1. u \in Seq(Int) /\ Len(u) = 1 /\ u[1] = 0
                OBVIOUS
            <4> HIDE DEF u
            <4>2. /\ b \o u \in Seq(Int) /\ Len(b \o u) = Len(b) + Len(u)
                  /\ \A i \in 1..Len(b) + Len(u) : (b \o u)[i] = IF i <= Len(b) THEN b[i] ELSE u[i - Len(b)]
                BY <1>2, <4>1, ConcatProperties
            <4>3. b \o u \in Seq(Int) /\ Len(b \o u) = 3
                BY <1>2, <4>1, <4>2
            <4>4. (b \o u)[1] = x /\ (b \o u)[2] = y /\ (b \o u)[3] = 0
                BY <1>2, <4>1, <4>2
            <4> QED BY <4>3, <4>4 DEF u
        <3>3. b \o <<0>> = <<x, y, 0>>
            BY <3>2, FewAre
        <3> QED BY <3>1, <3>3
    <2>2. [n \in 1..3 - Len(b) |-> Padding] = <<Padding>>
        BY <1>2
    <2>3. Len(b) + 1 = 3
        BY <1>2
    <2>4. EncodedBlock(b, TRUE) = First(3, f) \o <<Padding>>
        BY <1>4, <2>1, <2>2, <2>3 DEF EncodedBlock
    <2>5. First(3, f) = <<p, q, r>>
        <3>1. f \in Seq(Int) /\ AtLeast(f, 3)
            BY <1>8 DEF AtLeast
        <3> QED BY <1>8, <3>1, FirstThree
    <2>6. <<p, q, r>> \o <<Padding>> = c
        <3> DEFINE t == <<p, q, r>> \o <<Padding>>
        <3>1. t \in Seq(Int) /\ Len(t) = 4 /\ t[1] = p /\ t[2] = q /\ t[3] = r /\ t[4] = Padding
            BY <1>1 DEF Padding
        <3> HIDE DEF t
        <3>2. t = <<p, q, r, Padding>>
            BY <3>1, FewAre
        <3> QED BY <3>2 DEF t, c
    <2> QED BY <2>4, <2>5, <2>6
<1>10. DecodedBlock(c) = b
    <2>1. Unpadded(r) = r /\ r # 64 /\ r \in 0..64 /\ Unpadded(Padding) = -1 /\ Padding = 64
        BY <1>1, UnpaddedIs, PaddingIs DEF Padding
    <2>2. Charactered(c) /\ IsCount(2, c)
        BY <1>1, <1>7, <2>1 DEF Charactered, IsCount
    <2>3. DecodedTo(c, 2)
        BY <2>2, DecodedIs
    <2>4. DecodedBlock(c) = First(2, OctetsOf(p, q, r, -1))
        BY <1>7, <2>1, <2>3 DEF DecodedTo
    <2>5. PICK last \in Int : last = ((r % 4) * 64 + -1) % 256
        BY <1>1
    <2>6. OctetsOf(p, q, r, -1) = <<x, y, last>>
        BY <1>3, <2>5 DEF OctetsOf
    <2>7. First(2, <<x, y, last>>) = <<x, y>>
        <3> DEFINE t == <<x, y, last>>
        <3>1. t \in Seq(Int) /\ Len(t) = 3 /\ t[1] = x /\ t[2] = y
            OBVIOUS
        <3> HIDE DEF t
        <3>2. AtLeast(t, 2)
            BY <3>1 DEF AtLeast
        <3>3. First(2, t) = <<t[1], t[2]>>
            BY <3>1, <3>2, FirstTwo
        <3> QED BY <3>1, <3>3 DEF t
    <2> QED BY <2>4, <2>6, <2>7 DEF b
<1>11. Encodes(b, c)
    BY <1>5, <1>9, <1>10 DEF Encodes
<1> QED BY <1>11 DEF b, c, p, q, r

LEMMA BlockOfOne ==
    ASSUME NEW x \in 0..255
    PROVE  Encodes(<<x>>, <<x \div 4, SecondOf(x, 0), Padding, Padding>>)
<1>0. SextetsFit(x, 0, 0)
    <2>1. 0 \in 0..255
        OBVIOUS
    <2> QED BY <2>1, SextetsOfNumber
<1> DEFINE p == x \div 4
           q == SecondOf(x, 0)
           b == <<x>>
           c == <<p, q, Padding, Padding>>
           f == <<p, q, ThirdOf(0, 0), 0>>
<1>1. p \in 0..63 /\ q \in 0..63 /\ ThirdOf(0, 0) \in 0..63
    BY <1>0 DEF SextetsFit
<1>2. b \in Seq(Int) /\ Len(b) = 1 /\ b[1] = x
    OBVIOUS
<1>3. (p * 4 + q \div 16) % 256 = x
    <2>1. 0 \in 0..255
        OBVIOUS
    <2>2. OctetsOf(p, q, ThirdOf(0, 0), 0 % 64) = <<x, 0, 0>>
        BY <2>1, OctetsOfSextets
    <2> QED BY <2>2 DEF OctetsOf
<1>4. Sextets(<<x, 0, 0>>) = f
    <2>1. Sextets(<<x, 0, 0>>) = CodeOf(x, 0, 0)
        BY SextetsAre
    <2>2. 0 % 64 = 0
        OBVIOUS
    <2> QED BY <2>1, <2>2 DEF CodeOf
<1>5. Block(b) = c
    <2>1. Block(b) = <<((NumberOf(x, 0, 0) \div 64) \div 64) \div 64, ((NumberOf(x, 0, 0) \div 64) \div 64) % 64,
                       Padding, Padding>>
        <3> HIDE DEF b
        <3> QED BY <1>2 DEF Block, NumberOf
    <2> QED BY <1>0, <2>1 DEF SextetsFit
<1> HIDE DEF p, q
<1>7. c \in Seq(Int) /\ c[1] = p /\ c[2] = q /\ c[3] = Padding /\ c[4] = Padding /\ Len(c) = 4
    BY <1>1 DEF Padding
<1>8. f \in Seq(Int) /\ f[1] = p /\ f[2] = q /\ Len(f) = 4
    BY <1>1
<1> HIDE DEF b, c, f
<1>9. EncodedBlock(b, TRUE) = c
    <2>1. b \o [n \in 1..3 - Len(b) |-> 0] = <<x, 0, 0>>
        <3>1. [n \in 1..3 - Len(b) |-> 0] = <<0, 0>>
            BY <1>2
        <3> DEFINE t == b \o <<0, 0>>
        <3>2. t \in Seq(Int) /\ Len(t) = 3 /\ t[1] = x /\ t[2] = 0 /\ t[3] = 0
            <4> DEFINE u == <<0, 0>>
            <4>1. u \in Seq(Int) /\ Len(u) = 2 /\ u[1] = 0 /\ u[2] = 0
                OBVIOUS
            <4> HIDE DEF u, t
            <4>2. /\ b \o u \in Seq(Int) /\ Len(b \o u) = Len(b) + Len(u)
                  /\ \A i \in 1..Len(b) + Len(u) : (b \o u)[i] = IF i <= Len(b) THEN b[i] ELSE u[i - Len(b)]
                BY <1>2, <4>1, ConcatProperties
            <4>3. b \o u \in Seq(Int) /\ Len(b \o u) = 3
                BY <1>2, <4>1, <4>2
            <4>4. (b \o u)[1] = x /\ (b \o u)[2] = 0 /\ (b \o u)[3] = 0
                BY <1>2, <4>1, <4>2
            <4> QED BY <4>3, <4>4 DEF u, t
        <3> HIDE DEF t
        <3>3. t = <<x, 0, 0>>
            BY <3>2, FewAre
        <3> QED BY <3>1, <3>3 DEF t
    <2>2. [n \in 1..3 - Len(b) |-> Padding] = <<Padding, Padding>>
        BY <1>2
    <2>3. Len(b) + 1 = 2
        BY <1>2
    <2>4. EncodedBlock(b, TRUE) = First(2, f) \o <<Padding, Padding>>
        BY <1>4, <2>1, <2>2, <2>3 DEF EncodedBlock
    <2>5. First(2, f) = <<p, q>>
        <3>1. f \in Seq(Int) /\ AtLeast(f, 2)
            BY <1>8 DEF AtLeast
        <3> QED BY <1>8, <3>1, FirstTwo
    <2>6. <<p, q>> \o <<Padding, Padding>> = c
        <3> DEFINE t == <<p, q>> \o <<Padding, Padding>>
        <3>1. t \in Seq(Int) /\ Len(t) = 4 /\ t[1] = p /\ t[2] = q /\ t[3] = Padding /\ t[4] = Padding
            BY <1>1 DEF Padding
        <3> HIDE DEF t
        <3>2. t = <<p, q, Padding, Padding>>
            BY <3>1, FewAre
        <3> QED BY <3>2 DEF t, c
    <2> QED BY <2>4, <2>5, <2>6
<1>10. DecodedBlock(c) = b
    <2>1. Unpadded(Padding) = -1 /\ Padding = 64
        BY PaddingIs DEF Padding
    <2>2. Charactered(c) /\ IsCount(1, c)
        BY <1>1, <1>7, <2>1 DEF Charactered, IsCount
    <2>3. DecodedTo(c, 1)
        BY <2>2, DecodedIs
    <2>4. DecodedBlock(c) = First(1, OctetsOf(p, q, -1, -1))
        BY <1>7, <2>1, <2>3 DEF DecodedTo
    <2>5. PICK mid \in Int, last \in Int : mid = (q % 16) * 16 + (-1) \div 4 /\ last = (((-1) % 4) * 64 + -1) % 256
        BY <1>1
    <2>6. OctetsOf(p, q, -1, -1) = <<x, mid, last>>
        BY <1>3, <2>5 DEF OctetsOf
    <2>7. First(1, <<x, mid, last>>) = <<x>>
        <3> DEFINE t == <<x, mid, last>>
        <3>1. t \in Seq(Int) /\ Len(t) = 3 /\ t[1] = x
            OBVIOUS
        <3> HIDE DEF t
        <3>2. AtLeast(t, 1)
            BY <3>1 DEF AtLeast
        <3>3. First(1, t) = <<t[1]>>
            BY <3>1, <3>2, FirstOne
        <3> QED BY <3>1, <3>3 DEF t
    <2> QED BY <2>4, <2>6, <2>7 DEF b
<1>11. Encodes(b, c)
    BY <1>5, <1>9, <1>10 DEF Encodes
<1> QED BY <1>11 DEF b, c, p, q

\* A block of bytes is four characters of the dictionary, encodeNextBlock makes them of it and
\* decodeNextBlock makes the bytes of them again.
Coded(c) == c \in Seq(0..64) /\ Len(c) = 4

Blocked(b) == Coded(Block(b)) /\ EncodedBlock(b, TRUE) = Block(b) /\ DecodedBlock(Block(b)) = b

LEMMA EncodedIsBlocked ==
    ASSUME NEW b, NEW c, Encodes(b, c), Coded(c)
    PROVE  Blocked(b)
BY Zenon DEF Encodes, Blocked

LEMMA BlockOf ==
    ASSUME NEW b \in Seq(0..255), Len(b) \in 1..3
    PROVE  Blocked(b)
<1>0. b \in Seq(Int) /\ \A i \in 1..Len(b) : b[i] \in 0..255
    <2>1. 0..255 \subseteq Int
        OBVIOUS
    <2>2. b \in Seq(Int)
        BY <2>1, SeqMonotonic
    <2> QED BY <2>2, ElementOfSeq
<1>1. CASE Len(b) = 1
    <2>1. PICK x \in 0..255 : x = b[1]
        BY <1>0, <1>1
    <2>2. b = <<x>>
        BY <1>0, <1>1, <2>1, FewAre
    <2> DEFINE c == <<x \div 4, SecondOf(x, 0), Padding, Padding>>
    <2>3. Encodes(b, c)
        BY <2>2, BlockOfOne
    <2>4. SextetsFit(x, 0, 0)
        <3>1. 0 \in 0..255
            OBVIOUS
        <3> QED BY <3>1, SextetsOfNumber
    <2>5. x \div 4 \in 0..64 /\ SecondOf(x, 0) \in 0..64 /\ Padding \in 0..64
        BY <2>4 DEF SextetsFit, Padding
    <2>6. c \in Seq(0..64) /\ Len(c) = 4
        BY <2>5
    <2> HIDE DEF c
    <2>7. Coded(c)
        BY <2>6 DEF Coded
    <2> QED BY <2>3, <2>7, EncodedIsBlocked
<1>2. CASE Len(b) = 2
    <2>0. b[1] \in 0..255 /\ b[2] \in 0..255
        BY <1>0, <1>2
    <2>1. PICK x \in 0..255, y \in 0..255 : x = b[1] /\ y = b[2]
        BY <2>0
    <2>2. b = <<x, y>>
        BY <1>0, <1>2, <2>1, FewAre
    <2> DEFINE c == <<x \div 4, SecondOf(x, y), ThirdOf(y, 0), Padding>>
    <2>3. Encodes(b, c)
        BY <2>2, BlockOfTwo
    <2>4. SextetsFit(x, y, 0)
        <3>1. 0 \in 0..255
            OBVIOUS
        <3> QED BY <3>1, SextetsOfNumber
    <2>5. x \div 4 \in 0..64 /\ SecondOf(x, y) \in 0..64 /\ ThirdOf(y, 0) \in 0..64 /\ Padding \in 0..64
        BY <2>4 DEF SextetsFit, Padding
    <2>6. c \in Seq(0..64) /\ Len(c) = 4
        BY <2>5
    <2> HIDE DEF c
    <2>7. Coded(c)
        BY <2>6 DEF Coded
    <2> QED BY <2>3, <2>7, EncodedIsBlocked
<1>3. CASE Len(b) = 3
    <2>0. b[1] \in 0..255 /\ b[2] \in 0..255 /\ b[3] \in 0..255
        BY <1>0, <1>3
    <2>1. PICK x \in 0..255, y \in 0..255, z \in 0..255 : x = b[1] /\ y = b[2] /\ z = b[3]
        BY <2>0
    <2>2. b = <<x, y, z>>
        BY <1>0, <1>3, <2>1, FewAre
    <2> DEFINE c == CodeOf(x, y, z)
    <2>3. Encodes(b, c)
        BY <2>2, BlockOfThree
    <2>4. SextetsFit(x, y, z)
        BY SextetsOfNumber
    <2>5. x \div 4 \in 0..64 /\ SecondOf(x, y) \in 0..64 /\ ThirdOf(y, z) \in 0..64 /\ z % 64 \in 0..64
        BY <2>4 DEF SextetsFit
    <2>6. c \in Seq(0..64) /\ Len(c) = 4
        BY <2>5 DEF CodeOf
    <2> HIDE DEF c
    <2>7. Coded(c)
        BY <2>6 DEF Coded
    <2> QED BY <2>3, <2>7, EncodedIsBlocked
<1> QED BY <1>1, <1>2, <1>3

\* Three bytes at a time: what is behind them is shorter.
LEMMA FirstThreeOf ==
    ASSUME NEW bytes \in Seq(0..255), bytes # <<>>
    PROVE  /\ First(3, bytes) \in Seq(0..255) /\ Len(First(3, bytes)) \in 1..3
           /\ Behind(3, bytes) \in Seq(0..255) /\ Len(Behind(3, bytes)) < Len(bytes)
           /\ Blocked(First(3, bytes))
<1>0. Len(bytes) \in Nat \ {0}
    OBVIOUS
<1> PICK n \in Nat : n = 3
    OBVIOUS
<1>1. /\ First(n, bytes) \in Seq(0..255) /\ Len(First(n, bytes)) = (IF n < Len(bytes) THEN n ELSE Len(bytes))
      /\ \A i \in 1..Len(First(n, bytes)) : First(n, bytes)[i] = bytes[i]
    <2> DEFINE S == 0..255
    <2> HIDE DEF S
    <2>1. bytes \in Seq(S)
        BY DEF S
    <2>2. /\ First(n, bytes) \in Seq(S) /\ Len(First(n, bytes)) = (IF n < Len(bytes) THEN n ELSE Len(bytes))
          /\ \A i \in 1..Len(First(n, bytes)) : First(n, bytes)[i] = bytes[i]
        BY <2>1, FirstOf
    <2> QED BY <2>2 DEF S
<1>2. Behind(n, bytes) \in Seq(0..255) /\ Len(Behind(n, bytes)) = IF n < Len(bytes) THEN Len(bytes) - n ELSE 0
    BY BehindOf
<1>3. Len(First(n, bytes)) \in 1..3
    <2>1. PICK k \in Nat : k = Len(bytes) /\ k >= 1
        BY <1>0
    <2>2. Len(First(n, bytes)) = IF n < k THEN n ELSE k
        BY <1>1, <2>1
    <2>3. (IF n < k THEN n ELSE k) \in 1..3
        BY <2>1
    <2> QED BY <2>2, <2>3
<1>4. Len(Behind(n, bytes)) < Len(bytes)
    BY <1>0, <1>2
<1>5. Blocked(First(n, bytes))
    BY <1>1, <1>3, BlockOf
<1> QED BY <1>1, <1>2, <1>3, <1>4, <1>5

\* The encoding of all of the data is defined block by block.
Base64Is(bytes) == Base64[bytes] = IF bytes = <<>> THEN <<>> ELSE Block(First(3, bytes)) \o Base64[Behind(3, bytes)]

LEMMA Base64Exists == Base64 \in [Seq(0..255) -> Seq(0..64)] /\ \A bytes \in Seq(0..255) : Base64Is(bytes)
<1> DEFINE X == Seq(0..255)
           V == Seq(0..64)
           Value(bytes, g) == IF bytes = <<>> THEN <<>> ELSE Block(First(3, bytes)) \o g[Behind(3, bytes)]
           measure == [bytes \in X |-> Len(bytes)]
           F == [w \in X \X [X -> V] |-> Value(w[1], w[2])]
           Is(f) == f = [bytes \in X |-> Value(bytes, f)]
<1>1. ASSUME NEW bytes \in X, NEW g \in [X -> V] PROVE Value(bytes, g) \in V
    <2>1. CASE bytes = <<>>
        BY <2>1
    <2>2. CASE bytes # <<>>
        <3>1. Blocked(First(3, bytes)) /\ Behind(3, bytes) \in X
            BY <2>2, FirstThreeOf
        <3>2. Block(First(3, bytes)) \in V
            BY <3>1 DEF Blocked, Coded
        <3>3. g[Behind(3, bytes)] \in V
            BY <3>1
        <3>4. Block(First(3, bytes)) \o g[Behind(3, bytes)] \in V
            <4> HIDE DEF V
            <4>1. \A u, v \in V : u \o v \in V
                BY ConcatProperties DEF V
            <4> QED BY <3>2, <3>3, <4>1
        <3> QED BY <2>2, <3>4
    <2> QED BY <2>1, <2>2
<1> HIDE DEF Value, X, V
<1>2. F \in [X \X [X -> V] -> V]
    BY <1>1
<1>3. measure \in [X -> Nat] /\ <<>> \in V
    BY DEF X, V
<1>4. LooksDown(F, X, V, measure)
    <2>1. ASSUME NEW bytes \in X, NEW g \in [X -> V], NEW h \in [X -> V],
                 \A b \in X : measure[b] < measure[bytes] => g[b] = h[b]
          PROVE  F[<<bytes, g>>] = F[<<bytes, h>>]
        <3>1. F[<<bytes, g>>] = Value(bytes, g) /\ F[<<bytes, h>>] = Value(bytes, h)
            OBVIOUS
        <3>2. CASE bytes = <<>>
            BY <3>1, <3>2 DEF Value
        <3>3. CASE bytes # <<>>
            <4>1. Behind(3, bytes) \in X /\ Len(Behind(3, bytes)) < Len(bytes)
                BY <3>3, FirstThreeOf DEF X
            <4>2. measure[Behind(3, bytes)] < measure[bytes]
                BY <4>1
            <4>3. g[Behind(3, bytes)] = h[Behind(3, bytes)]
                BY <2>1, <4>1, <4>2
            <4>4. Value(bytes, g) = Value(bytes, h)
                BY <3>3, <4>3 DEF Value
            <4> HIDE DEF F
            <4> QED BY <3>1, <4>4
        <3> QED BY <3>2, <3>3
    <2> HIDE DEF F, measure
    <2> QED BY <2>1 DEF LooksDown
<1>5. PICK f : Recurses(f, X, V, F)
    <2> HIDE DEF F, measure
    <2> QED BY <1>2, <1>3, <1>4, RecursionDown
<1>6. f \in [X -> V] /\ \A bytes \in X : f[bytes] = Value(bytes, f)
    <2>1. f \in [X -> V] /\ \A bytes \in X : f[bytes] = F[<<bytes, f>>]
        BY <1>5 DEF Recurses
    <2>2. \A bytes \in X : F[<<bytes, f>>] = Value(bytes, f)
        BY <2>1
    <2> HIDE DEF F
    <2> QED BY <2>1, <2>2
<1>7. Is(f)
    BY <1>6
<1>8. Base64 = CHOOSE g : Is(g)
    BY DEF Base64, Value, X
<1> DEFINE B == Base64
<1>9. Is(B)
    <2> HIDE DEF Is
    <2> QED BY <1>7, <1>8
<1>10. B = [bytes \in X |-> Value(bytes, B)]
    BY <1>9
<1> HIDE DEF B, Is
<1>11. \A bytes \in X : B[bytes] = Value(bytes, B)
    BY <1>10
<1>12. B \in [X -> V]
    <2> DEFINE T == {k \in Nat : \A bytes \in X : Len(bytes) <= k => B[bytes] = f[bytes]}
    <2>0. \A bytes \in X : Len(bytes) \in Nat
        BY DEF X
    <2>1. ASSUME NEW bytes \in X, bytes # <<>> => B[Behind(3, bytes)] = f[Behind(3, bytes)]
          PROVE  B[bytes] = f[bytes]
        <3>1. Value(bytes, B) = Value(bytes, f)
            BY <2>1 DEF Value
        <3> QED BY <1>6, <1>11, <3>1
    <2>2. 0 \in T
        <3> SUFFICES ASSUME NEW bytes \in X, Len(bytes) <= 0 PROVE B[bytes] = f[bytes]
            OBVIOUS
        <3>1. bytes = <<>>
            BY DEF X
        <3> QED BY <2>1, <3>1
    <2>3. ASSUME NEW k \in Nat, k \in T PROVE k + 1 \in T
        <3> SUFFICES ASSUME NEW bytes \in X, Len(bytes) <= k + 1 PROVE B[bytes] = f[bytes]
            OBVIOUS
        <3>1. CASE bytes = <<>>
            BY <2>1, <3>1
        <3>2. CASE bytes # <<>>
            <4>1. Behind(3, bytes) \in X /\ Len(Behind(3, bytes)) < Len(bytes)
                BY <3>2, FirstThreeOf DEF X
            <4>2. Len(Behind(3, bytes)) <= k
                BY <2>0, <4>1
            <4>3. B[Behind(3, bytes)] = f[Behind(3, bytes)]
                BY <2>3, <4>1, <4>2
            <4> QED BY <2>1, <4>3
        <3> QED BY <3>1, <3>2
    <2> HIDE DEF T
    <2>4. \A k \in Nat : k \in T
        BY <2>2, <2>3, Counting
    <2>5. ASSUME NEW bytes \in X PROVE B[bytes] = f[bytes]
        <3>1. Len(bytes) \in T /\ Len(bytes) <= Len(bytes)
            BY <2>0, <2>4
        <3> QED BY <3>1 DEF T
    <2>6. [bytes \in X |-> Value(bytes, B)] = [bytes \in X |-> f[bytes]]
        BY <1>11, <2>5
    <2> QED BY <1>6, <1>10, <2>6
<1> QED BY <1>11, <1>12 DEF B, X, V, Value, Base64Is

-----------------------------------------------------------------------------
(* Base64: the streams *)

\* A stream, and a step of it
StreamStates == {"Normal", "eof", "Percent1", "Percent2", "EncodedPercent", "EncodedHex1"}

IsStream(s) ==
    /\ s = Stream(s.inner, s.buffer, s.state)
    /\ s.inner \in Seq(Nat) /\ s.buffer \in Seq(Nat) /\ s.state \in StreamStates

StreamHas(t, i, b, st) == IsStream(t) /\ t.inner = i /\ t.buffer = b /\ t.state = st
StepHas(r, t, v) == r.stream = t /\ r.value = v

LEMMA StreamIs ==
    ASSUME NEW i \in Seq(Nat), NEW b \in Seq(Nat), NEW st \in StreamStates
    PROVE  StreamHas(Stream(i, b, st), i, b, st)
BY DEF Stream, IsStream, StreamHas

LEMMA StepIs ==
    ASSUME NEW t, NEW v
    PROVE  StepHas(Step(t, v), t, v)
BY DEF Step, StepHas

\* What a stream of each kind still gives
GivesCharacters(s, rest) ==
    s.inner \in Seq(0..255) /\ rest = s.buffer \o Base64[s.inner]

Decoding(s, rest, bytes) ==
    /\ bytes \in Seq(0..255) /\ s.inner = Base64[bytes] /\ rest = s.buffer \o bytes
    /\ s.state = "eof" => bytes = <<>>

GivesBytes(s, rest) == \E bytes : Decoding(s, rest, bytes)

\* A step makes a block and gives it next, or ends at the end, or gives the next byte.
EncoderGives(s, r, rest) ==
    \/ s.buffer = <<>> /\ rest # <<>> /\ r.value = Again /\ r.stream.buffer # <<>> /\ GivesCharacters(r.stream, rest)
    \/ rest = <<>> /\ r.value = Nothing /\ GivesCharacters(r.stream, <<>>)
    \/ rest # <<>> /\ r.value = rest[1] /\ GivesCharacters(r.stream, Tail(rest))

\* The encoder of Base64 gives what is in its buffer and the encoding of what is left.
LEMMA EncoderSteps ==
    ASSUME NEW s, IsStream(s), NEW rest, GivesCharacters(s, rest)
    PROVE  /\ EncoderGives(s, Base64EncoderStep(s, TRUE), rest) /\ IsStream(Base64EncoderStep(s, TRUE).stream)
           /\ rest \in Seq(Nat)
<1> DEFINE r == Base64EncoderStep(s, TRUE)
<1>0. /\ s.inner \in Seq(0..255) /\ s.inner \in Seq(Nat) /\ s.buffer \in Seq(Nat) /\ s.state \in StreamStates
      /\ rest = s.buffer \o Base64[s.inner] /\ Base64[s.inner] \in Seq(Nat)
    <2>1. Base64[s.inner] \in Seq(0..64)
        BY Base64Exists DEF GivesCharacters
    <2>2. 0..64 \subseteq Nat
        OBVIOUS
    <2>3. Base64[s.inner] \in Seq(Nat)
        BY <2>1, <2>2, SeqMonotonic
    <2> QED BY <2>3 DEF GivesCharacters, IsStream
<1>4. rest \in Seq(Nat)
    BY <1>0, ConcatProperties
<1>1. CASE s.buffer # <<>>
    <2>1. r = Step(Stream(s.inner, Tail(s.buffer), s.state), s.buffer[1])
        BY <1>1 DEF Base64EncoderStep
    <2> DEFINE t == Stream(s.inner, Tail(s.buffer), s.state)
    <2>2. StepHas(r, t, s.buffer[1])
        BY <2>1, StepIs
    <2>3. Tail(s.buffer) \in Seq(Nat)
        BY <1>0, <1>1, HeadIsFirst
    <2>4. StreamHas(t, s.inner, Tail(s.buffer), s.state)
        BY <1>0, <2>3, StreamIs
    <2> HIDE DEF t, r
    <2>5. TakenFrom(rest, s.buffer, Base64[s.inner])
        BY <1>0, <1>1, TakenFromFirst
    <2>7. GivesCharacters(t, Tail(rest))
        BY <1>0, <2>4, <2>5 DEF GivesCharacters, StreamHas, TakenFrom
    <2>8. EncoderGives(s, r, rest)
        BY <2>2, <2>5, <2>7 DEF EncoderGives, StepHas, TakenFrom
    <2> QED BY <1>4, <2>2, <2>4, <2>8 DEF r, StepHas, StreamHas
<1>2. CASE s.buffer = <<>> /\ s.inner = <<>>
    <2> DEFINE t == Stream(<<>>, <<>>, "eof")
    <2>1. r = Step(t, Nothing)
        BY <1>2 DEF Base64EncoderStep
    <2>2. StepHas(r, t, Nothing)
        BY <2>1, StepIs
    <2>3. <<>> \in Seq(Nat) /\ <<>> \in Seq(0..255) /\ "eof" \in StreamStates
        BY DEF StreamStates
    <2>4. StreamHas(t, <<>>, <<>>, "eof")
        BY <2>3, StreamIs
    <2> HIDE DEF t, r
    <2>5. Base64[<<>>] = <<>>
        BY <2>3, Base64Exists DEF Base64Is
    <2>6. rest = <<>>
        BY <1>0, <1>2, <2>5
    <2>7. GivesCharacters(t, <<>>)
        BY <2>3, <2>4, <2>5 DEF GivesCharacters, StreamHas
    <2>8. EncoderGives(s, r, rest)
        BY <2>2, <2>6, <2>7 DEF EncoderGives, StepHas
    <2> QED BY <1>4, <2>2, <2>4, <2>8 DEF r, StepHas, StreamHas
<1>3. CASE s.buffer = <<>> /\ s.inner # <<>>
    <2> DEFINE f == First(3, s.inner)
               b == Behind(3, s.inner)
               st == IF Len(s.inner) < 3 THEN "eof" ELSE s.state
               t == Stream(b, EncodedBlock(f, TRUE), st)
    <2>1. r = Step(t, Again)
        BY <1>3 DEF Base64EncoderStep
    <2>2. StepHas(r, t, Again)
        <3> HIDE DEF t
        <3> QED BY <2>1, StepIs
    <2>3. Blocked(f) /\ b \in Seq(0..255)
        BY <1>0, <1>3, FirstThreeOf
    <2>4. b \in Seq(Nat)
        <3>1. 0..255 \subseteq Nat
            OBVIOUS
        <3> QED BY <2>3, <3>1, SeqMonotonic
    <2>5. EncodedBlock(f, TRUE) = Block(f) /\ Coded(Block(f))
        BY <2>3, Zenon DEF Blocked
    <2>6. Block(f) \in Seq(Nat) /\ Block(f) # <<>>
        <3>1. Block(f) \in Seq(0..64) /\ Len(Block(f)) = 4
            BY <2>5 DEF Coded
        <3>2. 0..64 \subseteq Nat
            OBVIOUS
        <3>3. Block(f) \in Seq(Nat)
            BY <3>1, <3>2, SeqMonotonic
        <3>4. Block(f) # <<>>
            <4> DEFINE c == Block(f)
            <4>1. Len(c) = 4
                BY <3>1
            <4> HIDE DEF c
            <4>2. c # <<>>
                BY <4>1
            <4> QED BY <4>2 DEF c
        <3> QED BY <3>3, <3>4
    <2>7. st \in StreamStates
        BY <1>0 DEF StreamStates
    <2>8. StreamHas(t, b, Block(f), st)
        <3>1. t = Stream(b, Block(f), st)
            BY <2>5
        <3> HIDE DEF f, b, st, t
        <3> QED BY <2>4, <2>6, <2>7, <3>1, StreamIs
    <2>9. Base64[s.inner] = Block(f) \o Base64[b]
        BY <1>0, <1>3, Base64Exists DEF Base64Is
    <2> HIDE DEF t, r, f, b, st
    <2>10. rest = t.buffer \o Base64[t.inner]
        BY <1>0, <1>3, <2>8, <2>9 DEF StreamHas
    <2>11. rest # <<>>
        <3>1. Base64[b] \in Seq(Nat)
            <4>1. Base64[b] \in Seq(0..64)
                BY <2>3, Base64Exists
            <4>2. 0..64 \subseteq Nat
                OBVIOUS
            <4> QED BY <4>1, <4>2, SeqMonotonic
        <3>2. rest = Block(f) \o Base64[b]
            BY <2>8, <2>10 DEF StreamHas
        <3> QED BY <2>6, <3>1, <3>2, HeadOfConcat
    <2>12. GivesCharacters(t, rest)
        BY <2>3, <2>8, <2>10 DEF GivesCharacters, StreamHas
    <2>13. EncoderGives(s, r, rest)
        BY <1>3, <2>2, <2>6, <2>8, <2>11, <2>12 DEF EncoderGives, StepHas, StreamHas
    <2> QED BY <1>4, <2>2, <2>8, <2>13 DEF r, StepHas, StreamHas
<1> QED BY <1>1, <1>2, <1>3

DecoderGives(s, r, rest) ==
    \/ s.buffer = <<>> /\ rest # <<>> /\ r.value = Again /\ r.stream.buffer # <<>> /\ GivesBytes(r.stream, rest)
    \/ rest = <<>> /\ r.value = Nothing /\ GivesBytes(r.stream, <<>>)
    \/ rest # <<>> /\ r.value = rest[1] /\ GivesBytes(r.stream, Tail(rest))

\* Bytes and characters are numbers.
LEMMA NaturalBytes ==
    ASSUME NEW bytes \in Seq(0..255)
    PROVE  bytes \in Seq(Nat)
<1>1. 0..255 \subseteq Nat
    OBVIOUS
<1> QED BY <1>1, SeqMonotonic

LEMMA NaturalBase64 ==
    ASSUME NEW bytes \in Seq(0..255)
    PROVE  Base64[bytes] \in Seq(Nat)
<1>1. Base64[bytes] \in Seq(0..64)
    BY Base64Exists
<1>2. 0..64 \subseteq Nat
    OBVIOUS
<1> QED BY <1>1, <1>2, SeqMonotonic

LEMMA NaturalBlock ==
    ASSUME NEW c, Coded(c)
    PROVE  c \in Seq(Nat) /\ c # <<>> /\ {n \in DOMAIN c : c[n] = Foreign} = {}
<1>1. c \in Seq(0..64) /\ Len(c) = 4
    BY DEF Coded
<1>2. 0..64 \subseteq Nat
    OBVIOUS
<1>3. c \in Seq(Nat)
    BY <1>1, <1>2, SeqMonotonic
<1>4. \A n \in DOMAIN c : c[n] # Foreign
    <2>1. DOMAIN c = 1..Len(c)
        BY <1>1, LenProperties
    <2>2. \A n \in 1..Len(c) : c[n] \in 0..64
        BY <1>1, ElementOfSeq
    <2>3. \A x \in 0..64 : x # Foreign
        BY DEF Foreign
    <2> QED BY <2>1, <2>2, <2>3
<1> QED BY <1>1, <1>3, <1>4

\* The decoder of Base64 gives what is in its buffer and the bytes that are left encoded.
LEMMA DecoderSteps ==
    ASSUME NEW s, IsStream(s), NEW rest, GivesBytes(s, rest)
    PROVE  /\ DecoderGives(s, Base64DecoderStep(s), rest) /\ IsStream(Base64DecoderStep(s).stream)
           /\ rest \in Seq(Nat)
<1> DEFINE r == Base64DecoderStep(s)
<1>0. PICK bytes : Decoding(s, rest, bytes)
    BY DEF GivesBytes
<1>a. /\ s.inner \in Seq(Nat) /\ s.buffer \in Seq(Nat) /\ s.state \in StreamStates
      /\ bytes \in Seq(0..255) /\ s.inner = Base64[bytes] /\ rest = s.buffer \o bytes
      /\ (s.state = "eof" => bytes = <<>>) /\ bytes \in Seq(Nat)
    BY <1>0, NaturalBytes DEF Decoding, IsStream
<1>4. rest \in Seq(Nat)
    BY <1>a, ConcatProperties
<1>n. <<>> \in Seq(Nat) /\ <<>> \in Seq(0..255) /\ "eof" \in StreamStates /\ Base64[<<>>] = <<>>
    <2>1. <<>> \in Seq(0..255) /\ <<>> \in Seq(Nat)
        OBVIOUS
    <2>2. "eof" \in StreamStates
        BY DEF StreamStates
    <2>3. Base64Is(<<>>)
        BY <2>1, Base64Exists
    <2>4. Base64[<<>>] = <<>>
        BY <2>3 DEF Base64Is
    <2> QED BY <2>1, <2>2, <2>4
<1>1. CASE s.buffer # <<>>
    <2> DEFINE t == Stream(s.inner, Tail(s.buffer), s.state)
    <2>1. r = Step(t, s.buffer[1])
        BY <1>1 DEF Base64DecoderStep
    <2>2. StepHas(r, t, s.buffer[1])
        BY <2>1, StepIs
    <2>3. Tail(s.buffer) \in Seq(Nat)
        BY <1>a, <1>1, HeadIsFirst
    <2>4. StreamHas(t, s.inner, Tail(s.buffer), s.state)
        BY <1>a, <2>3, StreamIs
    <2> HIDE DEF t, r
    <2>5. TakenFrom(rest, s.buffer, bytes)
        BY <1>a, <1>1, TakenFromFirst
    <2>7. Decoding(t, Tail(rest), bytes)
        BY <1>a, <2>4, <2>5 DEF Decoding, StreamHas, TakenFrom
    <2>8. DecoderGives(s, r, rest)
        BY <2>2, <2>5, <2>7 DEF DecoderGives, StepHas, TakenFrom, GivesBytes
    <2> QED BY <1>4, <2>2, <2>4, <2>8 DEF r, StepHas, StreamHas
<1>2. CASE s.buffer = <<>> /\ s.state = "eof"
    <2>1. r = Step(s, Nothing)
        BY <1>2 DEF Base64DecoderStep
    <2>2. StepHas(r, s, Nothing)
        BY <2>1, StepIs
    <2> HIDE DEF r
    <2>6. bytes = <<>> /\ rest = <<>>
        BY <1>a, <1>2
    <2>7. GivesBytes(s, <<>>)
        BY <2>6, <1>0 DEF GivesBytes
    <2>8. DecoderGives(s, r, rest)
        BY <2>2, <2>6, <2>7 DEF DecoderGives, StepHas
    <2> QED BY <1>4, <2>2, <2>8 DEF r, StepHas
<1>3. CASE s.buffer = <<>> /\ s.state # "eof" /\ bytes = <<>>
    <2> DEFINE t == Stream(<<>>, <<>>, "eof")
    <2>1. r = Step(t, Nothing)
        <3>1. First(4, s.inner) = <<>>
            <4>1. s.inner = <<>>
                BY <1>a, <1>3, <1>n
            <4>2. First(4, <<>>) = <<>>
                BY DEF First
            <4> QED BY <4>1, <4>2
        <3>2. {n \in DOMAIN <<>> : <<>>[n] = Foreign} = {} /\ Len(<<>>) < 4
            OBVIOUS
        <3> HIDE DEF t
        <3> QED BY <1>3, <3>1, <3>2 DEF Base64DecoderStep, t
    <2>2. StepHas(r, t, Nothing)
        BY <2>1, StepIs
    <2>4. StreamHas(t, <<>>, <<>>, "eof")
        BY <1>n, StreamIs
    <2> HIDE DEF t, r
    <2>6. rest = <<>>
        BY <1>a, <1>3
    <2>7. Decoding(t, <<>>, <<>>)
        BY <1>n, <2>4 DEF Decoding, StreamHas
    <2>8. DecoderGives(s, r, rest)
        BY <2>2, <2>6, <2>7 DEF DecoderGives, StepHas, GivesBytes
    <2> QED BY <1>4, <2>2, <2>4, <2>8 DEF r, StepHas, StreamHas
<1>5. CASE s.buffer = <<>> /\ bytes # <<>>
    <2> DEFINE f == First(3, bytes)
               b == Behind(3, bytes)
               t == Stream(Base64[b], f, s.state)
    <2>1. Blocked(f) /\ b \in Seq(0..255) /\ f \in Seq(0..255) /\ f # <<>>
        <3>1. /\ f \in Seq(0..255) /\ Len(f) \in 1..3 /\ b \in Seq(0..255) /\ Len(b) < Len(bytes) /\ Blocked(f)
            BY <1>a, <1>5, FirstThreeOf
        <3>2. f # <<>>
            <4> HIDE DEF f, b, t, r
            <4>0. Len(f) \in 1..3
                BY ONLY <3>1, Zenon
            <4>1. Len(f) # 0
                BY ONLY <4>0
            <4>2. Len(<<>>) = 0
                OBVIOUS
            <4> QED BY <4>1, <4>2
        <3> QED BY <3>1, <3>2
    <2>2. Coded(Block(f)) /\ DecodedBlock(Block(f)) = f
        BY <2>1, Zenon DEF Blocked
    <2>3. Block(f) \in Seq(Nat) /\ Base64[b] \in Seq(Nat) /\ f \in Seq(Nat) /\ Len(Block(f)) = 4
          /\ {n \in DOMAIN Block(f) : Block(f)[n] = Foreign} = {}
        <3>1. f \in Seq(Nat)
            BY <2>1, NaturalBytes
        <3>2. Base64[b] \in Seq(Nat)
            BY <2>1, NaturalBase64
        <3>3. Len(Block(f)) = 4
            BY <2>2 DEF Coded
        <3> QED BY <2>2, <3>1, <3>2, <3>3, NaturalBlock
    <2>4. s.inner = Block(f) \o Base64[b]
        BY <1>a, <1>5, Base64Exists DEF Base64Is
    <2> HIDE DEF f, b
    <2>5. First(4, s.inner) = Block(f) /\ Behind(4, s.inner) = Base64[b]
        <3>1. First(Len(Block(f)), s.inner) = Block(f)
            BY <2>3, <2>4, FirstOfConcat
        <3>2. Behind(Len(Block(f)), s.inner) = Base64[b]
            BY <2>3, <2>4, BehindOfConcat
        <3> QED BY <2>3, <3>1, <3>2
    <2>6. r = Step(t, Again)
        <3>1. s.state # "eof"
            BY <1>a, <1>5
        <3>2. ~(Len(Block(f)) < 4)
            BY <2>3
        <3> HIDE DEF t
        <3> QED BY <1>5, <2>2, <2>3, <2>5, <3>1, <3>2 DEF Base64DecoderStep, t
    <2>7. StepHas(r, t, Again)
        <3> HIDE DEF t, r
        <3> QED BY <2>6, StepIs
    <2>8. StreamHas(t, Base64[b], f, s.state)
        BY <1>a, <2>3, StreamIs
    <2> HIDE DEF t, r
    <2>9. f \o b = bytes
        <3>1. 3 \in Nat
            OBVIOUS
        <3> QED BY <1>a, <3>1, SplitAt DEF f, b
    <2>10. rest = bytes
        BY <1>a, <1>5
    <2>12. Decoding(t, rest, b)
        <3>1. t.state # "eof"
            BY <1>a, <1>5, <2>8 DEF StreamHas
        <3> QED BY <2>1, <2>8, <2>9, <2>10, <3>1 DEF Decoding, StreamHas
    <2>13. DecoderGives(s, r, rest)
        BY <1>5, <2>1, <2>7, <2>8, <2>10, <2>12 DEF DecoderGives, StepHas, StreamHas, GivesBytes
    <2> QED BY <1>4, <2>7, <2>8, <2>13 DEF r, StepHas, StreamHas
<1> QED BY <1>1, <1>2, <1>3, <1>5

-----------------------------------------------------------------------------
(* Percent encoding: the streams *)

\* The digits of a byte, and what percent encoding makes of each byte
High(b) == HexDigit(b \div 16)
Low(b) == HexDigit(b % 16)
PercentCode(b) == IF IsUnreserved(b) THEN <<b>> ELSE <<Percent, High(b), Low(b)>>
PercentCodes == [b \in 0..255 |-> PercentCode(b)]

LEMMA HexDigitsAre ==
    ASSUME NEW b \in 0..255
    PROVE  High(b) \in 48..70 /\ Low(b) \in 48..70
<1>1. PICK h \in 0..15, l \in 0..15 : h = b \div 16 /\ l = b % 16
    BY PartsOfOctet
<1>2. HexDigit(h) \in 48..70 /\ HexDigit(l) \in 48..70
    BY DEF HexDigit
<1> QED BY <1>1, <1>2 DEF High, Low

LEMMA PercentCodesAre == PercentCodes \in [0..255 -> Seq(Nat)]
<1> SUFFICES ASSUME NEW b \in 0..255 PROVE PercentCode(b) \in Seq(Nat)
    BY DEF PercentCodes
<1>1. High(b) \in Nat /\ Low(b) \in Nat /\ Percent \in Nat /\ b \in Nat
    <2>1. 48..70 \subseteq Nat
        OBVIOUS
    <2>2. High(b) \in 48..70 /\ Low(b) \in 48..70
        BY HexDigitsAre
    <2> QED BY <2>1, <2>2 DEF Percent
<1>2. <<b>> \in Seq(Nat) /\ <<Percent, High(b), Low(b)>> \in Seq(Nat)
    BY <1>1
<1> QED BY <1>2 DEF PercentCode

\* The encoding of all of the data begins with that of its first byte.
LEMMA PercentEncodingIs ==
    ASSUME NEW bytes \in Seq(0..255)
    PROVE  PercentEncoding(bytes) = FlattenSeq(Mapped(PercentCodes, bytes))
<1>1. DOMAIN bytes = 1..Len(bytes) /\ \A n \in 1..Len(bytes) : bytes[n] \in 0..255
    BY LenProperties, ElementOfSeq
<1>2. \A n \in DOMAIN bytes : PercentCodes[bytes[n]] = PercentCode(bytes[n])
    BY <1>1 DEF PercentCodes
<1>3. Mapped(PercentCodes, bytes) = [n \in DOMAIN bytes |-> PercentCode(bytes[n])]
    BY <1>2 DEF Mapped
<1>4. PercentEncoding(bytes) = FlattenSeq([n \in DOMAIN bytes |-> PercentCode(bytes[n])])
    BY DEF PercentEncoding, PercentCode, High, Low
<1> QED BY <1>3, <1>4

LEMMA PercentEncodingEmpty == PercentEncoding(<<>>) = <<>>
<1>1. [n \in DOMAIN <<>> |-> IF IsUnreserved(<<>>[n]) THEN <<(<<>>[n])>>
          ELSE <<Percent, HexDigit(<<>>[n] \div 16), HexDigit(<<>>[n] % 16)>>] = <<>>
    OBVIOUS
<1> QED BY <1>1, FlattenNone DEF PercentEncoding

StartsWith(written, code, other) == written = code \o other /\ code \in Seq(Nat) /\ other \in Seq(Nat)

LEMMA PercentEncodingHead ==
    ASSUME NEW bytes \in Seq(0..255), bytes # <<>>
    PROVE  StartsWith(PercentEncoding(bytes), PercentCode(bytes[1]), PercentEncoding(Tail(bytes)))
<1>1. bytes[1] \in 0..255 /\ Tail(bytes) \in Seq(0..255)
    BY HeadIsFirst
<1> DEFINE D == 0..255
           C == PercentCodes
<1> HIDE DEF D, C
<1>2. C \in [D -> Seq(Nat)] /\ bytes \in Seq(D)
    BY PercentCodesAre DEF D, C
<1>3. /\ FlattenSeq(Mapped(C, bytes)) = C[bytes[1]] \o FlattenSeq(Mapped(C, Tail(bytes)))
      /\ C[bytes[1]] \in Seq(Nat) /\ FlattenSeq(Mapped(C, Tail(bytes))) \in Seq(Nat)
    BY <1>2, MappedHead
<1>4. C[bytes[1]] = PercentCode(bytes[1])
    BY <1>1 DEF C, PercentCodes
<1>5. PercentEncoding(bytes) = FlattenSeq(Mapped(C, bytes))
    BY PercentEncodingIs DEF C
<1>6. PercentEncoding(Tail(bytes)) = FlattenSeq(Mapped(C, Tail(bytes)))
    BY <1>1, PercentEncodingIs DEF C
<1> QED BY <1>3, <1>4, <1>5, <1>6 DEF StartsWith

\* What an encoder of URIs still gives, also in the middle of an escape
Escapes(s, rest) ==
    LET first == s.inner[1]
        others == PercentEncoding(Tail(s.inner))
    IN  \/ s.state = "Normal" /\ rest = PercentEncoding(s.inner)
        \/ s.state = "EncodedPercent" /\ s.inner # <<>> /\ rest = <<High(first), Low(first)>> \o others
        \/ s.state = "EncodedHex1" /\ s.inner # <<>> /\ rest = <<Low(first)>> \o others

GivesEscapes(s, rest) == s.inner \in Seq(0..255) /\ Escapes(s, rest)

EscaperGives(r, rest) ==
    \/ rest = <<>> /\ r.value = Nothing /\ GivesEscapes(r.stream, <<>>)
    \/ rest # <<>> /\ r.value = rest[1] /\ GivesEscapes(r.stream, Tail(rest))

\* One character of a code is taken, and the others of it are left.
LEMMA TakenFromCode ==
    ASSUME NEW a \in Nat, NEW b \in Nat, NEW c \in Nat, NEW v \in Seq(Nat)
    PROVE  /\ TakenFrom(<<a>> \o v, <<a>>, v) /\ <<a>>[1] = a /\ Tail(<<a>>) = <<>> /\ Tail(<<a>>) \o v = v
           /\ TakenFrom(<<a, b>> \o v, <<a, b>>, v) /\ <<a, b>>[1] = a /\ Tail(<<a, b>>) = <<b>>
           /\ TakenFrom(<<a, b, c>> \o v, <<a, b, c>>, v) /\ <<a, b, c>>[1] = a /\ Tail(<<a, b, c>>) = <<b, c>>
<1>1. <<a>> \in Seq(Nat) /\ <<a, b>> \in Seq(Nat) /\ <<a, b, c>> \in Seq(Nat)
    OBVIOUS
<1>2. <<a>> # <<>> /\ <<a, b>> # <<>> /\ <<a, b, c>> # <<>>
    OBVIOUS
<1>3. <<a>>[1] = a /\ <<a, b>>[1] = a /\ <<a, b, c>>[1] = a
    OBVIOUS
<1>4. Tail(<<a>>) = <<>> /\ Tail(<<a, b>>) = <<b>> /\ Tail(<<a, b, c>>) = <<b, c>>
    OBVIOUS
<1>5. <<>> \o v = v
    OBVIOUS
<1>6. TakenFrom(<<a>> \o v, <<a>>, v)
    BY <1>1, <1>2, TakenFromFirst
<1>7. TakenFrom(<<a, b>> \o v, <<a, b>>, v)
    BY <1>1, <1>2, TakenFromFirst
<1>8. TakenFrom(<<a, b, c>> \o v, <<a, b, c>>, v)
    BY <1>1, <1>2, TakenFromFirst
<1> QED BY <1>3, <1>4, <1>5, <1>6, <1>7, <1>8

LEMMA OctetIs == 0..255 \subseteq Nat
OBVIOUS

LEMMA PercentEncodingTyped ==
    ASSUME NEW bytes \in Seq(0..255)
    PROVE  PercentEncoding(bytes) \in Seq(Nat)
<1>1. CASE bytes = <<>>
    <2>1. <<>> \in Seq(Nat)
        OBVIOUS
    <2> QED BY <1>1, <2>1, PercentEncodingEmpty
<1>2. CASE bytes # <<>>
    <2>1. StartsWith(PercentEncoding(bytes), PercentCode(bytes[1]), PercentEncoding(Tail(bytes)))
        BY <1>2, PercentEncodingHead
    <2> QED BY <2>1, ConcatProperties DEF StartsWith
<1> QED BY <1>1, <1>2

\* An encoder of URIs gives the next character, wherever it is in an escape.
LEMMA EscaperSteps ==
    ASSUME NEW s, IsStream(s), NEW rest, GivesEscapes(s, rest)
    PROVE  /\ EscaperGives(UriEncoderStep(s), rest) /\ IsStream(UriEncoderStep(s).stream)
           /\ rest \in Seq(Nat)
<1> DEFINE r == UriEncoderStep(s)
           first == s.inner[1]
           left == Tail(s.inner)
           others == PercentEncoding(left)
<1>0. /\ s.inner \in Seq(0..255) /\ s.inner \in Seq(Nat) /\ s.buffer \in Seq(Nat) /\ s.state \in StreamStates
      /\ Escapes(s, rest)
    BY DEF GivesEscapes, IsStream
<1>1. CASE s.inner = <<>>
    <2>1. r = Step(s, Nothing)
        BY <1>1 DEF UriEncoderStep
    <2>2. StepHas(r, s, Nothing)
        BY <2>1, StepIs
    <2>3. rest = <<>>
        BY <1>0, <1>1, PercentEncodingEmpty DEF Escapes
    <2>4. GivesEscapes(s, <<>>)
        BY <2>3
    <2> HIDE DEF r
    <2>5. EscaperGives(r, rest) /\ IsStream(r.stream)
        BY <2>2, <2>3, <2>4 DEF EscaperGives, StepHas
    <2>6. rest \in Seq(Nat)
        BY <2>3
    <2> QED BY <2>5, <2>6 DEF r
<1>2. CASE s.inner # <<>>
    <2>1. first \in 0..255 /\ first \in Nat /\ left \in Seq(0..255) /\ left \in Seq(Nat)
        <3>1. first \in 0..255 /\ left \in Seq(0..255)
            BY <1>0, <1>2, HeadIsFirst
        <3> QED BY <3>1, OctetIs, SeqMonotonic
    <2>2. High(first) \in Nat /\ Low(first) \in Nat /\ others \in Seq(Nat) /\ Percent \in Nat
        <3>1. High(first) \in 48..70 /\ Low(first) \in 48..70
            BY <2>1, HexDigitsAre
        <3>2. 48..70 \subseteq Nat
            OBVIOUS
        <3>3. others \in Seq(Nat)
            BY <2>1, PercentEncodingTyped
        <3> QED BY <3>1, <3>2, <3>3 DEF Percent
    <2>3. "Normal" \in StreamStates /\ "EncodedPercent" \in StreamStates /\ "EncodedHex1" \in StreamStates
        BY DEF StreamStates
    <2>4. PercentEncoding(s.inner) = PercentCode(first) \o others
        <3>1. StartsWith(PercentEncoding(s.inner), PercentCode(first), others)
            BY <1>0, <1>2, PercentEncodingHead
        <3> QED BY <3>1 DEF StartsWith
    <2>b. <<>> \in Seq(Nat)
        OBVIOUS
    <2> DEFINE behind == Stream(left, <<>>, "Normal")
               one == Stream(s.inner, <<>>, "EncodedPercent")
               two == Stream(s.inner, <<>>, "EncodedHex1")
    <2>5. StreamHas(behind, left, <<>>, "Normal")
        BY <2>1, <2>3, <2>b, StreamIs
    <2>6. StreamHas(one, s.inner, <<>>, "EncodedPercent")
        BY <1>0, <2>3, <2>b, StreamIs
    <2>7. StreamHas(two, s.inner, <<>>, "EncodedHex1")
        BY <1>0, <2>3, <2>b, StreamIs
    <2>8. s.state = "Normal" /\ IsUnreserved(first) => r = Step(behind, first)
        BY <1>2 DEF UriEncoderStep
    <2>9. s.state = "Normal" /\ ~IsUnreserved(first) => r = Step(one, Percent)
        BY <1>2 DEF UriEncoderStep
    <2>10. s.state = "EncodedPercent" => r = Step(two, High(first))
        BY <1>2 DEF UriEncoderStep, High
    <2>11. s.state = "EncodedHex1" => r = Step(behind, Low(first))
        BY <1>2 DEF UriEncoderStep, Low
    <2> HIDE DEF r, behind, one, two, first, left, others
    <2>12. /\ TakenFrom(<<Percent, High(first), Low(first)>> \o others, <<Percent, High(first), Low(first)>>, others)
           /\ <<Percent, High(first), Low(first)>>[1] = Percent
           /\ Tail(<<Percent, High(first), Low(first)>>) = <<High(first), Low(first)>>
        BY <2>2, TakenFromCode
    <2>13. /\ TakenFrom(<<High(first), Low(first)>> \o others, <<High(first), Low(first)>>, others)
           /\ <<High(first), Low(first)>>[1] = High(first) /\ Tail(<<High(first), Low(first)>>) = <<Low(first)>>
        BY <2>2, TakenFromCode
    <2>14. TakenFrom(<<Low(first)>> \o others, <<Low(first)>>, others) /\ <<Low(first)>>[1] = Low(first)
           /\ Tail(<<Low(first)>>) \o others = others
        BY <2>2, TakenFromCode
    <2>15. TakenFrom(<<first>> \o others, <<first>>, others) /\ <<first>>[1] = first
           /\ Tail(<<first>>) \o others = others
        BY <2>1, <2>2, TakenFromCode
    <2>16. GivesEscapes(behind, others)
        BY <2>1, <2>5 DEF GivesEscapes, Escapes, StreamHas, others
    <2>17. CASE s.state = "Normal" /\ IsUnreserved(first)
        <3>1. rest = <<first>> \o others
            BY <1>0, <2>4, <2>17 DEF Escapes, PercentCode
        <3>2. rest # <<>> /\ rest[1] = first /\ Tail(rest) = others
            BY <2>15, <3>1 DEF TakenFrom
        <3>3. StepHas(r, behind, first)
            BY <2>8, <2>17, StepIs
        <3>4. EscaperGives(r, rest) /\ IsStream(r.stream)
            BY <2>5, <2>16, <3>2, <3>3 DEF EscaperGives, StepHas, StreamHas
        <3>5. rest \in Seq(Nat)
            BY <2>1, <2>2, <3>1
        <3> QED BY <3>4, <3>5 DEF r
    <2>18. CASE s.state = "Normal" /\ ~IsUnreserved(first)
        <3>1. rest = <<Percent, High(first), Low(first)>> \o others
            BY <1>0, <2>4, <2>18 DEF Escapes, PercentCode
        <3>2. rest # <<>> /\ rest[1] = Percent /\ Tail(rest) = <<High(first), Low(first)>> \o others
            BY <2>12, <3>1 DEF TakenFrom
        <3>3. StepHas(r, one, Percent)
            BY <2>9, <2>18, StepIs
        <3>6. GivesEscapes(one, Tail(rest))
            BY <1>0, <1>2, <2>6, <3>2 DEF GivesEscapes, Escapes, StreamHas, others, left, first
        <3>4. EscaperGives(r, rest) /\ IsStream(r.stream)
            BY <2>6, <3>2, <3>3, <3>6 DEF EscaperGives, StepHas, StreamHas
        <3>5. rest \in Seq(Nat)
            BY <2>1, <2>2, <3>1
        <3> QED BY <3>4, <3>5 DEF r
    <2>19. CASE s.state = "EncodedPercent"
        <3>1. rest = <<High(first), Low(first)>> \o others
            BY <1>0, <2>19 DEF Escapes, others, left, first
        <3>2. rest # <<>> /\ rest[1] = High(first) /\ Tail(rest) = <<Low(first)>> \o others
            BY <2>13, <3>1 DEF TakenFrom
        <3>3. StepHas(r, two, High(first))
            BY <2>10, <2>19, StepIs
        <3>6. GivesEscapes(two, Tail(rest))
            BY <1>0, <1>2, <2>7, <3>2 DEF GivesEscapes, Escapes, StreamHas, others, left, first
        <3>4. EscaperGives(r, rest) /\ IsStream(r.stream)
            BY <2>7, <3>2, <3>3, <3>6 DEF EscaperGives, StepHas, StreamHas
        <3>5. rest \in Seq(Nat)
            BY <2>1, <2>2, <3>1
        <3> QED BY <3>4, <3>5 DEF r
    <2>20. CASE s.state = "EncodedHex1"
        <3>1. rest = <<Low(first)>> \o others
            BY <1>0, <2>20 DEF Escapes, others, left, first
        <3>2. rest # <<>> /\ rest[1] = Low(first) /\ Tail(rest) = others
            BY <2>14, <3>1 DEF TakenFrom
        <3>3. StepHas(r, behind, Low(first))
            BY <2>11, <2>20, StepIs
        <3>4. EscaperGives(r, rest) /\ IsStream(r.stream)
            BY <2>5, <2>16, <3>2, <3>3 DEF EscaperGives, StepHas, StreamHas
        <3>5. rest \in Seq(Nat)
            BY <2>1, <2>2, <3>1
        <3> QED BY <3>4, <3>5 DEF r
    <2> QED BY <1>0, <2>17, <2>18, <2>19, <2>20 DEF Escapes
<1> QED BY <1>1, <1>2

\* A digit has the value it was made of.
LEMMA HexValueIs ==
    ASSUME NEW n \in 0..15
    PROVE  HexValue(HexDigit(n)) = n
<1>1. CASE n \in 0..9
    <2>1. HexDigit(n) = 48 + n
        BY <1>1 DEF HexDigit
    <2>2. HexDigit(n) \in 48..57 /\ HexDigit(n) - 48 = n
        BY <1>1, <2>1
    <2> HIDE DEF HexDigit
    <2> QED BY <2>2 DEF HexValue
<1>2. CASE n \in 10..15
    <2>1. HexDigit(n) = 55 + n
        BY <1>2 DEF HexDigit
    <2>2. HexDigit(n) \in 65..70 /\ HexDigit(n) - 55 = n /\ HexDigit(n) \notin 48..57
        BY <1>2, <2>1
    <2> QED BY <2>2 DEF HexValue
<1> QED BY <1>1, <1>2

\* What is escaped comes back, below 128.
LEMMA UnescapedIs ==
    ASSUME NEW b \in 0..127
    PROVE  Unescaped(High(b), Low(b)) = b
<1>0. b \in 0..255
    OBVIOUS
<1>1. PICK h \in 0..15, l \in 0..15 : h = b \div 16 /\ l = b % 16 /\ b = 16 * h + l
    BY <1>0, PartsOfOctet
<1>2. HexValue(High(b)) = h /\ HexValue(Low(b)) = l
    BY <1>1, HexValueIs DEF High, Low
<1>3. h # -1 /\ l # -1 /\ ~(16 * h + l > 127)
    BY <1>1
<1> HIDE DEF High, Low
<1> QED BY <1>1, <1>2, <1>3 DEF Unescaped

\* A character of its own, a plus for a blank, or an escape
IsCode(c, b) ==
    \/ c = <<b>> /\ b # Percent /\ b # Plus
    \/ c = <<Plus>> /\ b = Space
    \/ c = <<Percent, High(b), Low(b)>>

IsCodebook(C) == C \in [0..127 -> Seq(Nat)] /\ \A b \in 0..127 : IsCode(C[b], b)

\* What a decoder of URIs still gives, between two codes
Spelling(C, s, rest) ==
    IsCodebook(C) /\ rest \in Seq(0..127) /\ s.inner = FlattenSeq(Mapped(C, rest)) /\ s.state = "Normal"

GivesDecoded(s, rest) == \E C : Spelling(C, s, rest)

UnescaperGives(r, rest) ==
    \/ rest = <<>> /\ r.value = Nothing /\ GivesDecoded(r.stream, <<>>)
    \/ rest # <<>> /\ r.value = rest[1] /\ GivesDecoded(r.stream, Tail(rest))

\* No byte is taken for the end or for the middle of a byte.
LEMMA NothingOrAgain ==
    /\ Nothing # Again /\ Nothing \in Int /\ Again \in Int
    /\ \A n \in Nat : n # Nothing /\ n # Again
BY DEF Nothing, Again

\* A byte is read with the first step, the second or the third.
LEMMA ReadsOne ==
    ASSUME NEW k, NEW s, NEW t, NEW v, StepHas(StepOf(k, s), t, v), v # Again
    PROVE  StepHas(ReadSingleByte(k, s), t, v)
BY DEF ReadSingleByte, StepHas

LEMMA ReadsTwo ==
    ASSUME NEW k, NEW s, NEW u, StepHas(StepOf(k, s), u, Again),
           NEW t, NEW v, StepHas(StepOf(k, u), t, v), v # Again
    PROVE  StepHas(ReadSingleByte(k, s), t, v)
BY DEF ReadSingleByte, StepHas

LEMMA ReadsThree ==
    ASSUME NEW k, NEW s, NEW u, StepHas(StepOf(k, s), u, Again),
           NEW w, StepHas(StepOf(k, u), w, Again), NEW t, NEW v, StepHas(StepOf(k, w), t, v)
    PROVE  StepHas(ReadSingleByte(k, s), t, v)
BY DEF ReadSingleByte, StepHas

LEMMA KindsOfSteps ==
    ASSUME NEW s
    PROVE  /\ StepOf("base64", s) = Base64EncoderStep(s, TRUE)
           /\ StepOf("decode64", s) = Base64DecoderStep(s)
           /\ StepOf("uri", s) = UriEncoderStep(s)
           /\ StepOf("decodeUri", s) = UriDecoderStep(s)
BY DEF StepOf

\* The steps of a decoder of URIs
LEMMA UnescaperSteps ==
    ASSUME NEW first \in Nat, NEW left \in Seq(Nat), NEW b \in Seq(Nat), NEW st
    PROVE  LET s == Stream(<<first>> \o left, b, st)
           IN  /\ st = "Normal" /\ first = Percent
                    => StepHas(StepOf("decodeUri", s), Stream(left, <<>>, "Percent1"), Again)
               /\ st = "Normal" /\ first # Percent
                    => StepHas(StepOf("decodeUri", s), Stream(left, <<>>, "Normal"), IF first = Plus THEN Space ELSE first)
               /\ st = "Percent1"
                    => StepHas(StepOf("decodeUri", s), Stream(left, <<first>>, "Percent2"), Again)
               /\ st = "Percent2" /\ Unescaped(b[1], first) \in Nat
                    => StepHas(StepOf("decodeUri", s), Stream(left, <<>>, "Normal"), Unescaped(b[1], first))
<1> DEFINE s == Stream(<<first>> \o left, b, st)
           w == <<first>> \o left
<1>1. w # <<>> /\ w[1] = first /\ Tail(w) = left
    <2>1. TakenFrom(<<first>> \o left, <<first>>, left) /\ <<first>>[1] = first /\ Tail(<<first>>) \o left = left
        BY TakenFromCode
    <2> QED BY <2>1 DEF TakenFrom
<1>2. s.inner = w /\ s.buffer = b /\ s.state = st
    BY DEF Stream
<1>3. StepOf("decodeUri", s) = UriDecoderStep(s)
    BY KindsOfSteps
<1> HIDE DEF w, s
<1>4. st = "Normal" /\ first = Percent => UriDecoderStep(s) = Step(Stream(left, <<>>, "Percent1"), Again)
    BY <1>1, <1>2 DEF UriDecoderStep
<1>5. st = "Normal" /\ first # Percent
        => UriDecoderStep(s) = Step(Stream(left, <<>>, "Normal"), IF first = Plus THEN Space ELSE first)
    BY <1>1, <1>2 DEF UriDecoderStep
<1>6. st = "Percent1" => UriDecoderStep(s) = Step(Stream(left, <<first>>, "Percent2"), Again)
    BY <1>1, <1>2 DEF UriDecoderStep
<1>7. st = "Percent2" /\ Unescaped(b[1], first) \in Nat
        => UriDecoderStep(s) = Step(Stream(left, <<>>, "Normal"), Unescaped(b[1], first))
    <2> SUFFICES ASSUME st = "Percent2", Unescaped(b[1], first) \in Nat
                 PROVE  UriDecoderStep(s) = Step(Stream(left, <<>>, "Normal"), Unescaped(b[1], first))
        OBVIOUS
    <2>1. Unescaped(s.buffer[1], s.inner[1]) \in Nat
        BY <1>1, <1>2
    <2>2. Unescaped(s.buffer[1], s.inner[1]) # -1 /\ ~(Unescaped(s.buffer[1], s.inner[1]) < 0)
        BY <2>1
    <2> QED BY <1>1, <1>2, <2>2 DEF UriDecoderStep
<1> QED BY <1>3, <1>4, <1>5, <1>6, <1>7, StepIs DEF s, w

\* A text that is not over begins with a code of its first byte.
Spelled(C, rest, b, others) ==
    /\ b = rest[1] /\ b \in 0..127 /\ IsCode(C[b], b) /\ Tail(rest) \in Seq(0..127)
    /\ others = FlattenSeq(Mapped(C, Tail(rest))) /\ others \in Seq(Nat)
    /\ FlattenSeq(Mapped(C, rest)) = C[b] \o others

LEMMA SpelledFirst ==
    ASSUME NEW C, IsCodebook(C), NEW rest \in Seq(0..127), rest # <<>>
    PROVE  Spelled(C, rest, rest[1], FlattenSeq(Mapped(C, Tail(rest))))
<1> DEFINE D == 0..127
<1>1. rest[1] \in D /\ Tail(rest) \in Seq(D)
    BY HeadIsFirst
<1>2. C \in [D -> Seq(Nat)] /\ rest \in Seq(D)
    BY DEF IsCodebook
<1>3. IsCode(C[rest[1]], rest[1])
    BY <1>1 DEF IsCodebook
<1> HIDE DEF D
<1>4. /\ FlattenSeq(Mapped(C, rest)) = C[rest[1]] \o FlattenSeq(Mapped(C, Tail(rest)))
      /\ C[rest[1]] \in Seq(Nat) /\ FlattenSeq(Mapped(C, Tail(rest))) \in Seq(Nat)
    BY <1>2, MappedHead
<1> QED BY <1>1, <1>3, <1>4 DEF D, Spelled

InTurn(x, y, z, v) == <<x, y, z>> \o v = <<x>> \o (<<y>> \o (<<z>> \o v))

LEMMA OneByOne ==
    ASSUME NEW x \in Nat, NEW y \in Nat, NEW z \in Nat, NEW v \in Seq(Nat)
    PROVE  InTurn(x, y, z, v)
<1>1. <<x>> \in Seq(Nat) /\ <<y>> \in Seq(Nat) /\ <<z>> \in Seq(Nat) /\ <<y, z>> \in Seq(Nat)
    OBVIOUS
<1>2. Grouped(<<y>>, <<z>>, v) /\ Grouped(<<x>>, <<y, z>>, v)
    BY <1>1, Regrouped
<1>3. <<y>> \o <<z>> = <<y, z>> /\ <<x>> \o <<y, z>> = <<x, y, z>>
    <2>1. <<y, z>> # <<>> /\ <<x, y, z>> # <<>> /\ <<x, y, z>> \in Seq(Nat)
        OBVIOUS
    <2>2. <<y, z>>[1] = y /\ Tail(<<y, z>>) = <<z>> /\ <<x, y, z>>[1] = x /\ Tail(<<x, y, z>>) = <<y, z>>
        OBVIOUS
    <2> DEFINE two == <<y, z>>
               three == <<x, y, z>>
    <2> HIDE DEF two, three
    <2>3. two = <<two[1]>> \o Tail(two) /\ three = <<three[1]>> \o Tail(three)
        <3>1. two \in Seq(Nat) /\ two # <<>> /\ three \in Seq(Nat) /\ three # <<>>
            BY <1>1, <2>1 DEF two, three
        <3> QED BY <3>1, HeadIsFirst
    <2> QED BY <2>2, <2>3, Zenon DEF two, three
<1>4. <<y>> \o (<<z>> \o v) = <<y, z>> \o v
    BY <1>2, <1>3, Zenon DEF Grouped
<1>5. <<x>> \o (<<y, z>> \o v) = <<x, y, z>> \o v
    BY <1>2, <1>3, Zenon DEF Grouped
<1> QED BY <1>4, <1>5, Zenon DEF InTurn

\* A decoder of URIs gives the next byte, and what is left of the code with it.
LEMMA UnescaperReads ==
    ASSUME NEW s, IsStream(s), NEW rest, GivesDecoded(s, rest)
    PROVE  /\ UnescaperGives(ReadSingleByte("decodeUri", s), rest)
           /\ IsStream(ReadSingleByte("decodeUri", s).stream) /\ rest \in Seq(Nat)
<1> DEFINE r == ReadSingleByte("decodeUri", s)
<1>0. PICK C : Spelling(C, s, rest)
    BY DEF GivesDecoded
<1>a. /\ IsCodebook(C) /\ rest \in Seq(0..127) /\ s.inner = FlattenSeq(Mapped(C, rest)) /\ s.state = "Normal"
      /\ s.buffer \in Seq(Nat) /\ s = Stream(s.inner, s.buffer, "Normal") /\ "Normal" \in StreamStates
    BY <1>0 DEF Spelling, IsStream
<1>b. rest \in Seq(Nat)
    <2>1. 0..127 \subseteq Nat
        OBVIOUS
    <2> QED BY <1>a, <2>1, SeqMonotonic
<1>n. <<>> \in Seq(Nat) /\ <<>> \in Seq(0..127)
    OBVIOUS
<1>1. CASE rest = <<>>
    <2>1. s.inner = <<>>
        BY <1>a, <1>1, MappedEmpty
    <2>2. StepOf("decodeUri", s) = Step(s, Nothing)
        <3>1. UriDecoderStep(s) = Step(s, Nothing)
            BY <2>1 DEF UriDecoderStep
        <3> QED BY <3>1, KindsOfSteps
    <2>3. StepHas(r, s, Nothing)
        <3>1. StepHas(StepOf("decodeUri", s), s, Nothing)
            BY <2>2, StepIs
        <3> QED BY <3>1, ReadsOne, NothingOrAgain
    <2>4. GivesDecoded(s, <<>>)
        BY <1>1
    <2> HIDE DEF r
    <2>5. UnescaperGives(r, rest)
        BY <1>1, <2>3, <2>4 DEF UnescaperGives, StepHas
    <2> QED BY <1>b, <2>3, <2>5 DEF r, StepHas
<1>2. CASE rest # <<>>
    <2> DEFINE b == rest[1]
               others == FlattenSeq(Mapped(C, Tail(rest)))
               behind == Stream(others, <<>>, "Normal")
    <2>1. Spelled(C, rest, b, others)
        BY <1>a, <1>2, SpelledFirst
    <2> HIDE DEF r, b, others
    <2>2. /\ b = rest[1] /\ b \in 0..127 /\ b \in Nat /\ IsCode(C[b], b) /\ Tail(rest) \in Seq(0..127)
          /\ others \in Seq(Nat) /\ s.inner = C[b] \o others
        <3>1. FlattenSeq(Mapped(C, rest)) = C[b] \o others
            BY <2>1 DEF Spelled
        <3>2. s.inner = C[b] \o others
            BY <1>a, <3>1, Zenon
        <3>3. /\ b = rest[1] /\ b \in 0..127 /\ IsCode(C[b], b) /\ Tail(rest) \in Seq(0..127)
              /\ others \in Seq(Nat)
            BY <2>1, Zenon DEF Spelled
        <3>4. b \in Nat
            <4>1. 0..127 \subseteq Nat
                OBVIOUS
            <4> QED BY <3>3, <4>1
        <3> QED BY <3>2, <3>3, <3>4, Zenon
    <2>3. StreamHas(behind, others, <<>>, "Normal")
        BY <1>a, <1>n, <2>2, StreamIs
    <2>4. GivesDecoded(behind, Tail(rest))
        BY <1>a, <2>1, <2>3 DEF GivesDecoded, Spelling, Spelled, StreamHas
    <2> SUFFICES StepHas(r, behind, b)
        <3> HIDE DEF behind
        <3>1. UnescaperGives(r, rest)
            BY <1>2, <2>2, <2>4 DEF UnescaperGives, StepHas
        <3> QED BY <1>b, <2>3, <3>1 DEF r, StepHas, StreamHas
    <2>5. b # Again
        BY <2>2, NothingOrAgain
    <2>6. CASE C[b] = <<b>> /\ b # Percent /\ b # Plus
        <3>1. s = Stream(<<b>> \o others, s.buffer, "Normal")
            BY <1>a, <2>2, <2>6
        <3>2. StepHas(StepOf("decodeUri", s), behind, IF b = Plus THEN Space ELSE b)
            BY <1>a, <2>2, <2>6, <3>1, UnescaperSteps
        <3>3. StepHas(StepOf("decodeUri", s), behind, b)
            BY <2>6, <3>2
        <3> QED BY <2>5, <3>3, ReadsOne DEF r
    <2>7. CASE C[b] = <<Plus>> /\ b = Space
        <3>1. s = Stream(<<Plus>> \o others, s.buffer, "Normal")
            BY <1>a, <2>2, <2>7
        <3>2. Plus \in Nat /\ Plus # Percent
            BY DEF Plus, Percent
        <3>3. StepHas(StepOf("decodeUri", s), behind, IF Plus = Plus THEN Space ELSE Plus)
            BY <1>a, <2>2, <3>1, <3>2, UnescaperSteps
        <3>4. StepHas(StepOf("decodeUri", s), behind, b)
            BY <2>7, <3>3
        <3> QED BY <2>5, <3>4, ReadsOne DEF r
    <2>8. CASE C[b] = <<Percent, High(b), Low(b)>>
        <3>1. High(b) \in Nat /\ Low(b) \in Nat /\ Percent \in Nat
            <4>1. b \in 0..255
                BY <2>2
            <4>2. High(b) \in 48..70 /\ Low(b) \in 48..70
                BY <4>1, HexDigitsAre
            <4>3. 48..70 \subseteq Nat
                OBVIOUS
            <4> QED BY <4>2, <4>3 DEF Percent
        <3> DEFINE lows == <<Low(b)>> \o others
                   digits == <<High(b)>> \o lows
                   one == Stream(digits, <<>>, "Percent1")
                   two == Stream(lows, <<High(b)>>, "Percent2")
        <3>2. lows \in Seq(Nat) /\ digits \in Seq(Nat) /\ <<High(b)>> \in Seq(Nat) /\ <<High(b)>>[1] = High(b)
            <4> HIDE DEF High, Low
            <4> QED BY <2>2, <3>1
        <3>3. <<Percent, High(b), Low(b)>> \o others = <<Percent>> \o digits
            <4> HIDE DEF lows, digits
            <4>1. InTurn(Percent, High(b), Low(b), others)
                <5> HIDE DEF InTurn, High, Low, Percent
                <5> QED BY <2>2, <3>1, OneByOne
            <4> QED BY <4>1, Zenon DEF InTurn, digits, lows
        <3>4. s = Stream(<<Percent>> \o digits, s.buffer, "Normal")
            BY <1>a, <2>2, <2>8, <3>3
        <3> HIDE DEF lows, digits
        <3>5. StepHas(StepOf("decodeUri", s), one, Again)
            BY <1>a, <3>1, <3>2, <3>4, UnescaperSteps
        <3>6. StepHas(StepOf("decodeUri", one), two, Again)
            <4>1. one = Stream(<<High(b)>> \o lows, <<>>, "Percent1")
                BY DEF digits
            <4> HIDE DEF one
            <4> QED BY <1>n, <3>1, <3>2, <4>1, UnescaperSteps
        <3>7. StepHas(StepOf("decodeUri", two), behind, b)
            <4>1. two = Stream(<<Low(b)>> \o others, <<High(b)>>, "Percent2")
                BY DEF lows
            <4>2. Unescaped(<<High(b)>>[1], Low(b)) = b
                BY <2>2, <3>2, UnescapedIs
            <4>3. Unescaped(<<High(b)>>[1], Low(b)) \in Nat
                BY <2>2, <4>2
            <4> HIDE DEF two
            <4>4. StepHas(StepOf("decodeUri", two), behind, Unescaped(<<High(b)>>[1], Low(b)))
                BY <2>2, <3>1, <3>2, <4>1, <4>3, UnescaperSteps
            <4> QED BY <4>2, <4>4
        <3> HIDE DEF one, two, behind
        <3> QED BY <3>5, <3>6, <3>7, ReadsThree DEF r
    <2> QED BY <2>2, <2>6, <2>7, <2>8 DEF IsCode
<1> QED BY <1>1, <1>2

-----------------------------------------------------------------------------
(* Reading *)

\* What a stream still gives, of each kind
Giving(k, s, rest) ==
    /\ IsStream(s)
    /\ \/ k = "base64" /\ GivesCharacters(s, rest)
       \/ k = "decode64" /\ GivesBytes(s, rest)
       \/ k = "uri" /\ GivesEscapes(s, rest)
       \/ k = "decodeUri" /\ GivesDecoded(s, rest)

\* A single byte that is read is the next, or there is none.
Served(k, r, rest) ==
    /\ rest \in Seq(Nat)
    /\ \/ rest = <<>> /\ r.value = Nothing /\ Giving(k, r.stream, <<>>)
       \/ rest # <<>> /\ r.value = rest[1] /\ Giving(k, r.stream, Tail(rest))

LEMMA ServedValue ==
    ASSUME NEW k, NEW r, NEW rest, Served(k, r, rest)
    PROVE  r.value # Again
<1>1. CASE rest = <<>>
    BY <1>1, NothingOrAgain DEF Served
<1>2. CASE rest # <<>>
    <2>1. rest[1] \in Nat /\ r.value = rest[1]
        BY <1>2, HeadIsFirst DEF Served
    <2> QED BY <2>1, NothingOrAgain
<1> QED BY <1>1, <1>2

\* Every single byte that is read is the next of what the stream gives.
LEMMA ReadGives ==
    ASSUME NEW k, NEW s, NEW rest, Giving(k, s, rest)
    PROVE  Served(k, ReadSingleByte(k, s), rest)
<1> DEFINE one == StepOf(k, s)
           two == StepOf(k, one.stream)
           r == ReadSingleByte(k, s)
<1>0. IsStream(s)
    BY DEF Giving
<1>1. CASE k = "base64" /\ GivesCharacters(s, rest)
    <2>1. EncoderGives(s, one, rest) /\ IsStream(one.stream) /\ rest \in Seq(Nat)
        BY <1>0, <1>1, EncoderSteps, KindsOfSteps
    <2>2. GivesCharacters(one.stream, rest) => EncoderGives(one.stream, two, rest) /\ IsStream(two.stream)
        BY <1>1, <2>1, EncoderSteps, KindsOfSteps
    <2> HIDE DEF one, two, r
    <2>3. CASE s.buffer = <<>> /\ rest # <<>> /\ one.value = Again /\ one.stream.buffer # <<>>
               /\ GivesCharacters(one.stream, rest)
        <3>1. Served(k, two, rest)
            BY <1>1, <2>1, <2>2, <2>3 DEF EncoderGives, Served, Giving
        <3>2. two.value # Again
            BY <3>1, ServedValue
        <3>3. r = two
            BY <2>3, <3>2 DEF r, one, two, ReadSingleByte
        <3> QED BY <3>1, <3>3 DEF r
    <2>4. CASE ~(s.buffer = <<>> /\ rest # <<>> /\ one.value = Again /\ one.stream.buffer # <<>>
               /\ GivesCharacters(one.stream, rest))
        <3>1. Served(k, one, rest)
            BY <1>1, <2>1, <2>4 DEF EncoderGives, Served, Giving
        <3>2. one.value # Again
            BY <3>1, ServedValue
        <3>3. r = one
            BY <3>2 DEF r, one, ReadSingleByte
        <3> QED BY <3>1, <3>3 DEF r
    <2> QED BY <2>3, <2>4
<1>2. CASE k = "decode64" /\ GivesBytes(s, rest)
    <2>1. DecoderGives(s, one, rest) /\ IsStream(one.stream) /\ rest \in Seq(Nat)
        BY <1>0, <1>2, DecoderSteps, KindsOfSteps
    <2>2. GivesBytes(one.stream, rest) => DecoderGives(one.stream, two, rest) /\ IsStream(two.stream)
        BY <1>2, <2>1, DecoderSteps, KindsOfSteps
    <2> HIDE DEF one, two, r
    <2>3. CASE s.buffer = <<>> /\ rest # <<>> /\ one.value = Again /\ one.stream.buffer # <<>>
               /\ GivesBytes(one.stream, rest)
        <3>1. Served(k, two, rest)
            BY <1>2, <2>1, <2>2, <2>3 DEF DecoderGives, Served, Giving
        <3>2. two.value # Again
            BY <3>1, ServedValue
        <3>3. r = two
            BY <2>3, <3>2 DEF r, one, two, ReadSingleByte
        <3> QED BY <3>1, <3>3 DEF r
    <2>4. CASE ~(s.buffer = <<>> /\ rest # <<>> /\ one.value = Again /\ one.stream.buffer # <<>>
               /\ GivesBytes(one.stream, rest))
        <3>1. Served(k, one, rest)
            BY <1>2, <2>1, <2>4 DEF DecoderGives, Served, Giving
        <3>2. one.value # Again
            BY <3>1, ServedValue
        <3>3. r = one
            BY <3>2 DEF r, one, ReadSingleByte
        <3> QED BY <3>1, <3>3 DEF r
    <2> QED BY <2>3, <2>4
<1>3. CASE k = "uri" /\ GivesEscapes(s, rest)
    <2>1. EscaperGives(one, rest) /\ IsStream(one.stream) /\ rest \in Seq(Nat)
        BY <1>0, <1>3, EscaperSteps, KindsOfSteps
    <2> HIDE DEF one, r
    <2>2. Served(k, one, rest)
        BY <1>3, <2>1 DEF EscaperGives, Served, Giving
    <2>3. one.value # Again
        BY <2>2, ServedValue
    <2>4. r = one
        BY <2>3 DEF r, one, ReadSingleByte
    <2> QED BY <2>2, <2>4 DEF r
<1>4. CASE k = "decodeUri" /\ GivesDecoded(s, rest)
    <2>1. UnescaperGives(r, rest) /\ IsStream(r.stream) /\ rest \in Seq(Nat)
        BY <1>0, <1>4, UnescaperReads
    <2> HIDE DEF r
    <2>2. Served(k, r, rest)
        BY <1>4, <2>1 DEF UnescaperGives, Served, Giving
    <2> QED BY <2>2 DEF r
<1> QED BY <1>1, <1>2, <1>3, <1>4 DEF Giving

\* What has been taken is what is given first, and the stream gives what is left.
Left(k, rest, w, more) ==
    /\ w.bytes \in Seq(Nat) /\ w.short \in BOOLEAN /\ w = Taking(w.stream, w.bytes, w.short)
    /\ rest = w.bytes \o more /\ more \in Seq(Nat) /\ Giving(k, w.stream, more)
    /\ w.short => more = <<>>

\* read() takes one more byte.
NextTaking(k, before) ==
    LET byte == ReadSingleByte(k, before.stream)
    IN  IF before.short THEN before
        ELSE IF byte.value = Nothing THEN Taking(byte.stream, before.bytes, TRUE)
        ELSE Taking(byte.stream, Append(before.bytes, byte.value), FALSE)

TakingHas(w, s, bytes, short) == w.stream = s /\ w.bytes = bytes /\ w.short = short /\ w = Taking(w.stream, w.bytes, w.short)

LEMMA TakingIs ==
    ASSUME NEW s, NEW bytes, NEW short
    PROVE  TakingHas(Taking(s, bytes, short), s, bytes, short)
BY DEF Taking, TakingHas

Counts(v, w) == ~v.short => ~w.short /\ Len(v.bytes) = Len(w.bytes) + 1

LEMMA NextTakingLeft ==
    ASSUME NEW k, NEW rest, NEW w, NEW more, Left(k, rest, w, more)
    PROVE  (\E others : Left(k, rest, NextTaking(k, w), others)) /\ Counts(NextTaking(k, w), w)
<1> DEFINE byte == ReadSingleByte(k, w.stream)
           v == NextTaking(k, w)
<1>0. /\ w.bytes \in Seq(Nat) /\ w.short \in BOOLEAN /\ rest = w.bytes \o more /\ more \in Seq(Nat)
      /\ Giving(k, w.stream, more)
    BY DEF Left
<1>1. CASE w.short
    <2>1. v = w
        BY <1>1 DEF NextTaking
    <2> HIDE DEF v
    <2>2. Left(k, rest, v, more) /\ Counts(v, w)
        BY <1>1, <2>1 DEF Counts
    <2> QED BY <2>2 DEF v
<1>2. CASE ~w.short
    <2>1. Served(k, byte, more)
        BY <1>0, ReadGives
    <2>2. byte.value = Nothing => v = Taking(byte.stream, w.bytes, TRUE)
        BY <1>2 DEF NextTaking
    <2>3. byte.value # Nothing => v = Taking(byte.stream, Append(w.bytes, byte.value), FALSE)
        BY <1>2 DEF NextTaking
    <2> HIDE DEF byte, v
    <2>4. CASE more = <<>>
        <3>1. byte.value = Nothing /\ Giving(k, byte.stream, <<>>)
            BY <2>1, <2>4 DEF Served
        <3>2. TakingHas(v, byte.stream, w.bytes, TRUE)
            BY <2>2, <3>1, TakingIs
        <3>3. Left(k, rest, v, <<>>)
            BY <1>0, <2>4, <3>1, <3>2 DEF Left, TakingHas
        <3>4. Counts(v, w)
            BY <3>2 DEF TakingHas, Counts
        <3> QED BY <3>3, <3>4 DEF v
    <2>5. CASE more # <<>>
        <3>1. byte.value = more[1] /\ Giving(k, byte.stream, Tail(more))
            BY <2>1, <2>5 DEF Served
        <3>2. more[1] \in Nat /\ Tail(more) \in Seq(Nat) /\ more = <<more[1]>> \o Tail(more)
            BY <1>0, <2>5, HeadIsFirst
        <3>3. byte.value # Nothing
            BY <3>1, <3>2, NothingOrAgain
        <3> DEFINE longer == Append(w.bytes, byte.value)
                   c == <<byte.value>>
        <3>4. TakingHas(v, byte.stream, longer, FALSE)
            <4> HIDE DEF longer
            <4> QED BY <2>3, <3>3, TakingIs DEF longer
        <3>5. longer \in Seq(Nat) /\ longer = w.bytes \o c /\ c \in Seq(Nat) /\ Len(longer) = Len(w.bytes) + 1
            <4>1. byte.value \in Nat
                BY <3>1, <3>2
            <4> HIDE DEF longer, c
            <4>2. Appended(w.bytes, byte.value)
                BY <1>0, <4>1, AppendedIs
            <4> QED BY <4>2, Zenon DEF Appended, longer, c
        <3>6. Grouped(w.bytes, c, Tail(more))
            <4> HIDE DEF c, longer
            <4> QED BY <1>0, <3>2, <3>5, Regrouped
        <3>7. more = c \o Tail(more)
            BY <3>1, <3>2
        <3> HIDE DEF longer, c
        <3>8. rest = longer \o Tail(more)
            BY <1>0, <3>5, <3>6, <3>7, Zenon DEF Grouped
        <3>9. Left(k, rest, v, Tail(more))
            BY <3>1, <3>2, <3>4, <3>5, <3>8 DEF Left, TakingHas
        <3>10. Counts(v, w)
            BY <1>2, <3>4, <3>5 DEF TakingHas, Counts
        <3> QED BY <3>9, <3>10 DEF v
    <2> QED BY <2>4, <2>5
<1> QED BY <1>0, <1>1, <1>2

\* All that read() may have taken of a stream
Takings == [stream : [inner : Seq(Nat), buffer : Seq(Nat), state : StreamStates], bytes : Seq(Nat), short : BOOLEAN]
LeftSet(k, rest) == {w \in Takings : \E more : Left(k, rest, w, more)}

LEMMA LeftIsTaking ==
    ASSUME NEW k, NEW rest, NEW w, NEW more, Left(k, rest, w, more)
    PROVE  w \in LeftSet(k, rest)
<1>1. /\ w.bytes \in Seq(Nat) /\ w.short \in BOOLEAN /\ w = [stream |-> w.stream, bytes |-> w.bytes, short |-> w.short]
      /\ IsStream(w.stream)
    BY DEF Left, Taking, Giving
<1>2. w.stream \in [inner : Seq(Nat), buffer : Seq(Nat), state : StreamStates]
    <2> DEFINE s == w.stream
    <2>1. s = [inner |-> s.inner, buffer |-> s.buffer, state |-> s.state]
          /\ s.inner \in Seq(Nat) /\ s.buffer \in Seq(Nat) /\ s.state \in StreamStates
        BY <1>1 DEF IsStream, Stream
    <2> HIDE DEF s
    <2>2. s \in [inner : Seq(Nat), buffer : Seq(Nat), state : StreamStates]
        BY <2>1
    <2> QED BY <2>2 DEF s
<1>3. w \in Takings
    <2> DEFINE s == w.stream
    <2> HIDE DEF s
    <2>1. w = [stream |-> s, bytes |-> w.bytes, short |-> w.short]
        BY <1>1 DEF s
    <2>2. s \in [inner : Seq(Nat), buffer : Seq(Nat), state : StreamStates]
        BY <1>2 DEF s
    <2> QED BY <1>1, <2>1, <2>2 DEF Takings
<1> QED BY <1>3 DEF LeftSet

\* What is taken with a number of single reads: what is left is given on, and a read that was
\* not short has taken as many bytes as it was asked for.
TakenIs(k, w, rest, n) == (\E more : Left(k, rest, w, more)) /\ (~w.short => Len(w.bytes) = n)

\* read() gives what the stream gives first, and leaves the stream with the rest.
LEMMA TakenGives ==
    ASSUME NEW k, NEW s, NEW rest, Giving(k, s, rest), NEW count \in Nat
    PROVE  TakenIs(k, Taken(k, s, count), rest, count)
<1> DEFINE X == Nat
           V == LeftSet(k, rest)
           start == Taking(s, <<>>, FALSE)
           Value(n, g) == IF n = 0 THEN start ELSE NextTaking(k, g[n - 1])
           measure == [n \in X |-> n]
           F == [w \in X \X [X -> V] |-> Value(w[1], w[2])]
           Is(f) == f = [n \in X |-> Value(n, f)]
<1>0. Left(k, rest, start, rest)
    <2>1. TakingHas(start, s, <<>>, FALSE)
        BY TakingIs
    <2> HIDE DEF start
    <2>2. <<>> \in Seq(Nat) /\ rest \in Seq(Nat) /\ <<>> \o rest = rest
        <3>1. rest \in Seq(Nat)
            BY ReadGives DEF Served
        <3> QED BY <3>1
    <2> QED BY <2>1, <2>2 DEF Left, TakingHas
<1>a. TakingHas(start, s, <<>>, FALSE)
    BY TakingIs
<1> HIDE DEF start
<1>1. ASSUME NEW v \in V PROVE NextTaking(k, v) \in V /\ Counts(NextTaking(k, v), v)
    <2>1. PICK more : Left(k, rest, v, more)
        BY DEF LeftSet
    <2>2. PICK others : Left(k, rest, NextTaking(k, v), others)
        BY <2>1, NextTakingLeft
    <2>3. NextTaking(k, v) \in V
        BY <2>2, LeftIsTaking
    <2>4. Counts(NextTaking(k, v), v)
        BY <2>1, NextTakingLeft
    <2> QED BY <2>3, <2>4
<1>2. start \in V
    BY <1>0, LeftIsTaking
<1> HIDE DEF V
<1>3. ASSUME NEW n \in X, NEW g \in [X -> V] PROVE Value(n, g) \in V
    <2>1. CASE n = 0
        BY <1>2, <2>1
    <2>2. CASE n # 0
        <3>1. n - 1 \in X
            BY <2>2
        <3>2. g[n - 1] \in V
            BY <3>1
        <3> HIDE DEF X
        <3> QED BY <1>1, <2>2, <3>2
    <2> QED BY <2>1, <2>2
<1>4. F \in [X \X [X -> V] -> V]
    <2> HIDE DEF Value, X
    <2> QED BY <1>3
<1>5. measure \in [X -> Nat]
    OBVIOUS
<1>6. LooksDown(F, X, V, measure)
    <2>1. ASSUME NEW n \in X, NEW g \in [X -> V], NEW h \in [X -> V],
                 \A b \in X : measure[b] < measure[n] => g[b] = h[b]
          PROVE  F[<<n, g>>] = F[<<n, h>>]
        <3>1. F[<<n, g>>] = Value(n, g) /\ F[<<n, h>>] = Value(n, h)
            <4> HIDE DEF Value, X
            <4> QED OBVIOUS
        <3>2. CASE n = 0
            BY <3>1, <3>2 DEF Value
        <3>3. CASE n # 0
            <4>1. n - 1 \in X /\ measure[n - 1] < measure[n]
                BY <3>3
            <4>3. g[n - 1] = h[n - 1]
                BY <2>1, <4>1
            <4>4. Value(n, g) = Value(n, h)
                BY <3>3, <4>3 DEF Value
            <4> HIDE DEF F, Value
            <4> QED BY <3>1, <4>4
        <3> QED BY <3>2, <3>3
    <2> HIDE DEF F, measure, X
    <2> QED BY <2>1 DEF LooksDown
<1>7. PICK f : Recurses(f, X, V, F)
    <2> HIDE DEF F, measure, X
    <2> QED BY <1>2, <1>4, <1>5, <1>6, RecursionDown
<1>8. f \in [X -> V] /\ \A n \in X : f[n] = Value(n, f)
    <2> HIDE DEF Value, X
    <2>1. f \in [X -> V] /\ \A n \in X : f[n] = F[<<n, f>>]
        BY <1>7 DEF Recurses
    <2>2. \A n \in X : F[<<n, f>>] = Value(n, f)
        BY <2>1
    <2> HIDE DEF F
    <2> QED BY <2>1, <2>2
<1>9. Is(f)
    <2> HIDE DEF Value, X
    <2> QED BY <1>8
<1> DEFINE B == CHOOSE g : Is(g)
<1>10. Taken(k, s, count) = B[count]
    BY DEF Taken, NextTaking, start
<1>11. Is(B)
    <2> HIDE DEF Is
    <2> QED BY <1>9
<1> HIDE DEF B
<1>12. B = [n \in X |-> Value(n, B)]
    BY <1>11
<1> HIDE DEF Is
<1>13. \A n \in X : B[n] = Value(n, B)
    <2> HIDE DEF Value, X
    <2> QED BY <1>12
<1> DEFINE T == {n \in Nat : B[n] \in V /\ (~B[n].short => Len(B[n].bytes) = n)}
<1>14. 0 \in T
    <2>1. B[0] = start
        BY <1>13
    <2>2. start.bytes = <<>> /\ Len(<<>>) = 0
        BY <1>a DEF TakingHas
    <2> QED BY <1>2, <2>1, <2>2
<1>15. ASSUME NEW n \in Nat, n \in T PROVE n + 1 \in T
    <2>1. B[n + 1] = NextTaking(k, B[n])
        <3>1. n + 1 \in X /\ n + 1 # 0 /\ (n + 1) - 1 = n
            OBVIOUS
        <3>2. B[n + 1] = Value(n + 1, B)
            BY <1>13, <3>1
        <3> QED BY <3>1, <3>2
    <2>2. B[n] \in V /\ (~B[n].short => Len(B[n].bytes) = n)
        BY <1>15
    <2>3. B[n + 1] \in V /\ Counts(B[n + 1], B[n])
        BY <1>1, <2>1, <2>2
    <2>4. ~B[n + 1].short => Len(B[n + 1].bytes) = n + 1
        BY <2>2, <2>3 DEF Counts
    <2> QED BY <2>3, <2>4
<1> HIDE DEF T
<1>16. \A n \in Nat : n \in T
    BY <1>14, <1>15, Counting
<1>17. B[count] \in V /\ (~B[count].short => Len(B[count].bytes) = count)
    BY <1>16 DEF T
<1> QED BY <1>10, <1>17 DEF TakenIs, V, LeftSet

-----------------------------------------------------------------------------
(* The invariant of the streams *)

IsPair(form) == form \in Seq([key : Ascii, value : Ascii])

\* What was delivered and what the stream still gives are together what is expected.
Flowing(rest) ==
    /\ delivered \in Seq(Nat) /\ rest \in Seq(Nat) /\ Expected = delivered \o rest
    /\ Giving(kind, Current, rest) /\ ended \in BOOLEAN /\ (ended => rest = <<>>)

\* The invariant: the streams flow, and a form is the one its body was built of.
TranscodingInv ==
    /\ kind # "form" => \E rest : Flowing(rest)
    /\ kind = "form" => IsPair(data) /\ inner = FormBody(data)

\* The variables are a stream.
LEMMA CurrentHas ==
    ASSUME NEW i \in Seq(Nat), NEW b \in Seq(Nat), NEW st \in StreamStates,
           inner = i, buffer = b, state = st
    PROVE  StreamHas(Current, i, b, st)
BY StreamIs DEF Current

LEMMA ContinuesAs ==
    ASSUME NEW t, IsStream(t), Continues(t)
    PROVE  Current' = t
BY DEF Current, Continues, IsStream

\* Percent encoding below 128 is a codebook: it can be decoded.
AsciiCodes == [b \in 0..127 |-> PercentCode(b)]

LEMMA AsciiCodebook == IsCodebook(AsciiCodes)
<1> SUFFICES ASSUME NEW b \in 0..127 PROVE AsciiCodes[b] \in Seq(Nat) /\ IsCode(AsciiCodes[b], b)
    BY DEF IsCodebook, AsciiCodes
<1>1. b \in 0..255 /\ b \in Nat
    OBVIOUS
<1>2. PercentCode(b) \in Seq(Nat)
    <2>1. High(b) \in 48..70 /\ Low(b) \in 48..70
        BY <1>1, HexDigitsAre
    <2>2. 48..70 \subseteq Nat
        OBVIOUS
    <2>3. High(b) \in Nat /\ Low(b) \in Nat /\ Percent \in Nat
        BY <2>1, <2>2 DEF Percent
    <2> HIDE DEF High, Low, Percent
    <2>4. <<b>> \in Seq(Nat) /\ <<Percent, High(b), Low(b)>> \in Seq(Nat)
        BY <1>1, <2>3
    <2> QED BY <2>4 DEF PercentCode
<1>3. AsciiCodes[b] = PercentCode(b)
    BY DEF AsciiCodes
<1>4. IsUnreserved(b) => b # Percent /\ b # Plus
    BY DEF IsUnreserved, Percent, Plus
<1> HIDE DEF High, Low
<1>5. IsCode(PercentCode(b), b)
    BY <1>4 DEF IsCode, PercentCode
<1> QED BY <1>2, <1>3, <1>5

LEMMA AsciiIsOctets ==
    ASSUME NEW bytes \in Ascii
    PROVE  bytes \in Seq(0..255) /\ bytes \in Seq(Nat) /\ bytes \in Seq(0..127)
<1> DEFINE small == 0..127
           octets == 0..255
<1>1. small \subseteq octets /\ small \subseteq Nat
    OBVIOUS
<1>2. bytes \in Seq(small)
    BY DEF Ascii
<1> HIDE DEF small, octets
<1>3. bytes \in Seq(octets) /\ bytes \in Seq(Nat)
    BY <1>1, <1>2, SeqMonotonic
<1> QED BY <1>2, <1>3 DEF small, octets

LEMMA AsciiEncoding ==
    ASSUME NEW bytes \in Ascii
    PROVE  PercentEncoding(bytes) = FlattenSeq(Mapped(AsciiCodes, bytes))
<1>1. bytes \in Seq(0..127) /\ bytes \in Seq(0..255)
    BY AsciiIsOctets
<1>2. DOMAIN bytes = 1..Len(bytes) /\ \A n \in 1..Len(bytes) : bytes[n] \in 0..127
    BY <1>1, LenProperties, ElementOfSeq
<1>3. \A n \in DOMAIN bytes : PercentCodes[bytes[n]] = PercentCode(bytes[n])
                              /\ AsciiCodes[bytes[n]] = PercentCode(bytes[n])
    <2> HIDE DEF PercentCode
    <2>1. \A b \in 0..127 : b \in 0..255
        OBVIOUS
    <2>2. \A b \in 0..127 : PercentCodes[b] = PercentCode(b) /\ AsciiCodes[b] = PercentCode(b)
        BY <2>1 DEF PercentCodes, AsciiCodes
    <2> QED BY <1>2, <2>2
<1>4. Mapped(PercentCodes, bytes) = Mapped(AsciiCodes, bytes)
    <2> HIDE DEF PercentCodes, AsciiCodes, PercentCode
    <2> QED BY <1>3 DEF Mapped
<1>5. PercentEncoding(bytes) = FlattenSeq(Mapped(PercentCodes, bytes))
    BY <1>1, PercentEncodingIs
<1> QED BY <1>4, <1>5

\* The invariant holds when a stream is opened,
LEMMA FlowsFirst ==
    ASSUME TranscodingInit
    PROVE  TranscodingInv
<1>1. PICK s \in Sources :
        /\ kind = s.kind /\ data = s.data
        /\ inner = CASE s.kind = "decode64" -> Base64[s.data]
                     [] s.kind = "decodeUri" -> PercentEncoding(s.data)
                     [] s.kind = "form" -> FormBody(s.data)
                     [] OTHER -> s.data
    BY DEF TranscodingInit
<1>2. buffer = <<>> /\ state = "Normal" /\ delivered = <<>> /\ ended = FALSE
    BY DEF TranscodingInit
<1>3. \/ s.kind \in {"base64", "decode64", "uri"} /\ s.data \in Seq(0..255)
      \/ s.kind = "decodeUri" /\ s.data \in Ascii
      \/ s.kind = "form" /\ s.data \in Seq([key : Ascii, value : Ascii])
    BY SourcesAssumption DEF SourcesAssumption
<1>4. <<>> \in Seq(Nat) /\ "Normal" \in StreamStates
    BY DEF StreamStates
<1>5. ASSUME NEW rest \in Seq(Nat), Expected = rest, Giving(kind, Current, rest) PROVE Flowing(rest)
    <2>1. <<>> \o rest = rest
        OBVIOUS
    <2> QED BY <1>2, <1>4, <1>5, <2>1 DEF Flowing
<1>6. CASE s.kind = "base64"
    <2>1. data \in Seq(0..255) /\ inner = data /\ kind = "base64" /\ Expected = Base64[data]
        BY <1>1, <1>3, <1>6 DEF Expected
    <2>2. data \in Seq(Nat) /\ Base64[data] \in Seq(Nat)
        BY <2>1, NaturalBytes, NaturalBase64
    <2>3. StreamHas(Current, data, <<>>, "Normal")
        BY <1>2, <1>4, <2>1, <2>2, CurrentHas
    <2>4. <<>> \o Base64[data] = Base64[data]
        BY <2>2
    <2>5. Giving(kind, Current, Base64[data])
        BY <2>1, <2>3, <2>4 DEF Giving, GivesCharacters, StreamHas
    <2>6. Flowing(Base64[data])
        BY <1>5, <2>1, <2>2, <2>5
    <2> QED BY <2>1, <2>6 DEF TranscodingInv
<1>7. CASE s.kind = "decode64"
    <2>1. data \in Seq(0..255) /\ inner = Base64[data] /\ kind = "decode64" /\ Expected = data
        BY <1>1, <1>3, <1>7 DEF Expected
    <2>2. data \in Seq(Nat) /\ Base64[data] \in Seq(Nat)
        BY <2>1, NaturalBytes, NaturalBase64
    <2>3. StreamHas(Current, Base64[data], <<>>, "Normal")
        BY <1>2, <1>4, <2>1, <2>2, CurrentHas
    <2>4. <<>> \o data = data
        BY <2>2
    <2>5. Decoding(Current, data, data)
        BY <2>1, <2>3, <2>4 DEF Decoding, StreamHas
    <2>6. Giving(kind, Current, data)
        BY <2>1, <2>3, <2>5 DEF Giving, GivesBytes, StreamHas
    <2>7. Flowing(data)
        BY <1>5, <2>1, <2>2, <2>6
    <2> QED BY <2>1, <2>7 DEF TranscodingInv
<1>8. CASE s.kind = "uri"
    <2>1. data \in Seq(0..255) /\ inner = data /\ kind = "uri" /\ Expected = PercentEncoding(data)
        BY <1>1, <1>3, <1>8 DEF Expected
    <2>2. data \in Seq(Nat) /\ PercentEncoding(data) \in Seq(Nat)
        BY <2>1, NaturalBytes, PercentEncodingTyped
    <2>3. StreamHas(Current, data, <<>>, "Normal")
        BY <1>2, <1>4, <2>1, <2>2, CurrentHas
    <2>5. Giving(kind, Current, PercentEncoding(data))
        BY <2>1, <2>3 DEF Giving, GivesEscapes, Escapes, StreamHas
    <2>6. Flowing(PercentEncoding(data))
        BY <1>5, <2>1, <2>2, <2>5
    <2> QED BY <2>1, <2>6 DEF TranscodingInv
<1>9. CASE s.kind = "decodeUri"
    <2>1. data \in Ascii /\ inner = PercentEncoding(data) /\ kind = "decodeUri" /\ Expected = data
        BY <1>1, <1>3, <1>9 DEF Expected
    <2>2. data \in Seq(0..127) /\ data \in Seq(Nat) /\ PercentEncoding(data) \in Seq(Nat)
        BY <2>1, AsciiIsOctets, PercentEncodingTyped
    <2>3. StreamHas(Current, PercentEncoding(data), <<>>, "Normal")
        BY <1>2, <1>4, <2>1, <2>2, CurrentHas
    <2>4. Spelling(AsciiCodes, Current, data)
        BY <2>1, <2>2, <2>3, AsciiCodebook, AsciiEncoding DEF Spelling, StreamHas
    <2>5. Giving(kind, Current, data)
        BY <2>1, <2>3, <2>4 DEF Giving, GivesDecoded, StreamHas
    <2>6. Flowing(data)
        BY <1>5, <2>1, <2>2, <2>5
    <2> QED BY <2>1, <2>6 DEF TranscodingInv
<1>10. CASE s.kind = "form"
    BY <1>1, <1>3, <1>10 DEF TranscodingInv, IsPair
<1> QED BY <1>3, <1>6, <1>7, <1>8, <1>9, <1>10

\* every read and every peek() preserves it,
LEMMA FlowsOn ==
    ASSUME TranscodingInv, [TranscodingNext]_transcodingVars
    PROVE  TranscodingInv'
<1>1. CASE UNCHANGED transcodingVars
    BY <1>1 DEF transcodingVars, TranscodingInv, Flowing, Expected, Current
<1>2. ASSUME NEW n \in 1..MaxTake, ReadStream(n) PROVE TranscodingInv'
    <2> DEFINE w == Taken(kind, Current, n)
    <2>1. /\ kind # "form" /\ ~ended /\ Continues(w.stream) /\ delivered' = delivered \o w.bytes
          /\ ended' = w.short /\ kind' = kind /\ data' = data
        BY <1>2 DEF ReadStream
    <2>2. PICK rest : Flowing(rest)
        BY <2>1 DEF TranscodingInv
    <2>3. n \in Nat
        BY SourcesAssumption DEF SourcesAssumption
    <2>4. TakenIs(kind, w, rest, n)
        BY <2>2, <2>3, TakenGives DEF Flowing
    <2> HIDE DEF w
    <2>5. PICK more : Left(kind, rest, w, more)
        BY <2>4 DEF TakenIs
    <2>6. Current' = w.stream
        BY <2>1, <2>5, ContinuesAs DEF Left, Giving
    <2>7. Grouped(delivered, w.bytes, more)
        BY <2>2, <2>5, Regrouped DEF Flowing, Left
    <2>8. Expected' = Expected
        BY <2>1 DEF Expected
    <2>9. Expected' = delivered' \o more
        BY <2>1, <2>2, <2>5, <2>7, <2>8, Zenon DEF Flowing, Left, Grouped
    <2>10. delivered' \in Seq(Nat) /\ more \in Seq(Nat)
        BY <2>1, <2>2, <2>5, ConcatProperties DEF Flowing, Left
    <2>11. Giving(kind, w.stream, more) /\ w.short \in BOOLEAN /\ (w.short => more = <<>>)
        BY <2>5 DEF Left
    <2>12. Giving(kind, w.stream, more) = Giving(kind', Current', more)
        BY <2>1, <2>6
    <2>13. Flowing(more)'
        BY <2>1, <2>9, <2>10, <2>11, <2>12 DEF Flowing
    <2> QED BY <2>1, <2>13 DEF TranscodingInv
<1>3. CASE PeekStream
    <2> DEFINE one == StepOf(kind, Current)
    <2>1. /\ kind \in {"base64", "decode64"} /\ ~ended /\ one.value = Again /\ Continues(one.stream)
          /\ kind' = kind /\ data' = data /\ delivered' = delivered /\ ended' = ended
        BY <1>3 DEF PeekStream
    <2>2. PICK rest : Flowing(rest)
        BY <2>1 DEF TranscodingInv
    <2>3. Giving(kind, Current, rest) /\ rest \in Seq(Nat)
        BY <2>2 DEF Flowing
    <2>4. Giving(kind, one.stream, rest)
        <3>0. rest # <<>> => rest[1] # Again /\ Nothing # Again
            BY <2>3, HeadIsFirst, NothingOrAgain
        <3>1. CASE kind = "base64"
            <4>1. IsStream(Current) /\ GivesCharacters(Current, rest)
                BY <2>3, <3>1 DEF Giving
            <4>2. EncoderGives(Current, one, rest) /\ IsStream(one.stream)
                BY <3>1, <4>1, EncoderSteps, KindsOfSteps
            <4> HIDE DEF one
            <4>3. GivesCharacters(one.stream, rest)
                BY <2>1, <3>0, <4>2, NothingOrAgain DEF EncoderGives
            <4> QED BY <3>1, <4>2, <4>3 DEF Giving
        <3>2. CASE kind = "decode64"
            <4>1. IsStream(Current) /\ GivesBytes(Current, rest)
                BY <2>3, <3>2 DEF Giving
            <4>2. DecoderGives(Current, one, rest) /\ IsStream(one.stream)
                BY <3>2, <4>1, DecoderSteps, KindsOfSteps
            <4> HIDE DEF one
            <4>3. GivesBytes(one.stream, rest)
                BY <2>1, <3>0, <4>2, NothingOrAgain DEF DecoderGives
            <4> QED BY <3>2, <4>2, <4>3 DEF Giving
        <3> QED BY <2>1, <3>1, <3>2
    <2> HIDE DEF one
    <2>5. Current' = one.stream
        BY <2>1, <2>4, ContinuesAs DEF Giving
    <2>6. Expected' = Expected
        BY <2>1 DEF Expected
    <2>7. Giving(kind, one.stream, rest) = Giving(kind', Current', rest)
        BY <2>1, <2>5
    <2>8. Flowing(rest)'
        BY <2>1, <2>2, <2>4, <2>6, <2>7 DEF Flowing
    <2> QED BY <2>1, <2>8 DEF TranscodingInv
<1> QED BY <1>1, <1>2, <1>3 DEF TranscodingNext

\* and what it says of a stream is that nothing of it is lost or given twice.
LEMMA FlowIsExact ==
    ASSUME TranscodingInv
    PROVE  StreamIsExact
<1> SUFFICES ASSUME kind # "form" PROVE IsPrefix(delivered, Expected) /\ (ended => delivered = Expected)
    BY DEF StreamIsExact
<1>1. PICK rest : Flowing(rest)
    BY DEF TranscodingInv
<1>2. delivered \in Seq(Nat) /\ rest \in Seq(Nat) /\ Expected = delivered \o rest /\ (ended => rest = <<>>)
    BY <1>1 DEF Flowing
<1>3. First(Len(delivered), Expected) = delivered
    BY <1>2, FirstOfConcat
<1>4. Len(Expected) = Len(delivered) + Len(rest) /\ Len(delivered) \in Nat /\ Len(rest) \in Nat
    BY <1>2, ConcatProperties
<1>5. SubSeq(Expected, 1, Len(delivered)) = delivered
    <2>1. (IF Len(delivered) < Len(Expected) THEN Len(delivered) ELSE Len(Expected)) = Len(delivered)
        BY <1>4
    <2> QED BY <1>3, <2>1 DEF First
<1>6. SubSeq(delivered, 1, Len(delivered)) = delivered
    BY <1>2
<1>7. Len(delivered) <= Len(Expected)
    BY <1>4
<1>8. IsPrefix(delivered, Expected)
    BY <1>5, <1>6, <1>7 DEF IsPrefix
<1>9. ended => delivered = Expected
    BY <1>2
<1> QED BY <1>8, <1>9

-----------------------------------------------------------------------------
(* Forms *)

\* The characters that have no meaning of their own in a query
Plain == (0..127) \ {Ampersand, Equals}

\* What encodeFormComponent makes of a byte: a codebook of plain characters
FormCode(b) ==
    CASE IsUnreserved(b) \/ b = 42 -> <<b>>
      [] b = Space -> <<Plus>>
      [] OTHER -> <<Percent, High(b), Low(b)>>

FormCodes == [b \in 0..127 |-> FormCode(b)]

LEMMA PlainIs == Plain \subseteq 0..127 /\ Plain \subseteq 0..255 /\ Plain \subseteq Nat
BY DEF Plain

LEMMA HexDigitsArePlain ==
    ASSUME NEW b \in 0..255
    PROVE  High(b) \in Plain /\ Low(b) \in Plain /\ Percent \in Plain
<1>1. PICK h \in 0..15, l \in 0..15 : h = b \div 16 /\ l = b % 16
    BY PartsOfOctet
<1>2. ASSUME NEW n \in 0..15 PROVE HexDigit(n) \in Plain
    <2>1. CASE n < 10
        <3>1. HexDigit(n) = 48 + n
            BY <2>1 DEF HexDigit
        <3> QED BY <2>1, <3>1 DEF Plain, Ampersand, Equals
    <2>2. CASE ~(n < 10)
        <3>1. HexDigit(n) = 55 + n
            BY <2>2 DEF HexDigit
        <3> QED BY <2>2, <3>1 DEF Plain, Ampersand, Equals
    <2> QED BY <2>1, <2>2
<1>3. High(b) \in Plain /\ Low(b) \in Plain
    BY <1>1, <1>2 DEF High, Low
<1>4. Percent \in Plain
    BY DEF Percent, Plain, Ampersand, Equals
<1> QED BY <1>3, <1>4

LEMMA FormCodesAre ==
    ASSUME NEW b \in 0..127
    PROVE  FormCode(b) \in Seq(Plain) /\ IsCode(FormCode(b), b) /\ FormCode(b) # <<>>
<1>1. CASE IsUnreserved(b) \/ b = 42
    <2>1. FormCode(b) = <<b>>
        <3>1. b # Space
            BY <1>1 DEF IsUnreserved, Space
        <3> QED BY <1>1, <3>1 DEF FormCode
    <2>2. b # Percent /\ b # Plus /\ b \in Plain
        BY <1>1 DEF IsUnreserved, Percent, Plus, Plain, Ampersand, Equals
    <2>3. <<b>> \in Seq(Plain) /\ <<b>> # <<>>
        BY <2>2
    <2> QED BY <2>1, <2>2, <2>3 DEF IsCode
<1>2. CASE ~(IsUnreserved(b) \/ b = 42) /\ b = Space
    <2>1. FormCode(b) = <<Plus>>
        BY <1>2 DEF FormCode
    <2>2. Plus \in Plain
        BY DEF Plus, Plain, Ampersand, Equals
    <2>3. <<Plus>> \in Seq(Plain) /\ <<Plus>> # <<>>
        BY <2>2
    <2> QED BY <1>2, <2>1, <2>3 DEF IsCode
<1>3. CASE ~(IsUnreserved(b) \/ b = 42) /\ b # Space
    <2>1. FormCode(b) = <<Percent, High(b), Low(b)>>
        BY <1>3 DEF FormCode
    <2>2. High(b) \in Plain /\ Low(b) \in Plain /\ Percent \in Plain
        <3>1. b \in 0..255
            OBVIOUS
        <3> QED BY <3>1, HexDigitsArePlain
    <2>3. <<Percent, High(b), Low(b)>> \in Seq(Plain) /\ <<Percent, High(b), Low(b)>> # <<>>
        <3> HIDE DEF High, Low, Percent, Plain
        <3> QED BY <2>2
    <2> QED BY <2>1, <2>3 DEF IsCode
<1> QED BY <1>1, <1>2, <1>3

LEMMA FormCodebook == FormCodes \in [0..127 -> Seq(Plain)] /\ IsCodebook(FormCodes)
<1>1. \A b \in 0..127 : FormCodes[b] = FormCode(b)
    BY DEF FormCodes
<1>2. \A b \in 0..127 : FormCode(b) \in Seq(Plain) /\ IsCode(FormCode(b), b)
    BY FormCodesAre
<1>3. \A b \in 0..127 : FormCode(b) \in Seq(Nat)
    BY <1>2, PlainIs, SeqMonotonic
<1> HIDE DEF FormCode, Plain, IsCode
<1>4. FormCodes \in [0..127 -> Seq(Plain)] /\ FormCodes \in [0..127 -> Seq(Nat)]
    BY <1>2, <1>3 DEF FormCodes
<1> QED BY <1>1, <1>2, <1>4 DEF IsCodebook

LEMMA FormComponentIs ==
    ASSUME NEW bytes \in Ascii
    PROVE  /\ FormComponent(bytes) = FlattenSeq(Mapped(FormCodes, bytes))
           /\ FormComponent(bytes) \in Seq(Plain) /\ Len(FormComponent(bytes)) >= Len(bytes)
<1> DEFINE m == Mapped(FormCodes, bytes)
           D == 0..127
           S == Plain
<1>1. bytes \in Seq(D)
    BY AsciiIsOctets
<1>2. DOMAIN bytes = 1..Len(bytes) /\ Len(bytes) \in Nat /\ \A n \in 1..Len(bytes) : bytes[n] \in D
    BY <1>1, LenProperties, ElementOfSeq
<1>3. FormCodes \in [D -> Seq(S)]
    BY FormCodebook
<1>4. m = [n \in DOMAIN bytes |-> FormCode(bytes[n])]
    BY <1>2 DEF Mapped, FormCodes
<1>5. FormComponent(bytes) = FlattenSeq([n \in DOMAIN bytes |-> FormCode(bytes[n])])
    BY DEF FormComponent, FormCode, High, Low
<1>6. \A n \in 1..Len(bytes) : FormCode(bytes[n]) \in Seq(Plain) /\ FormCode(bytes[n]) # <<>>
    BY <1>2, FormCodesAre
<1>7. \A n \in 1..Len(bytes) : m[n] = FormCode(bytes[n])
    <2> HIDE DEF m, FormCode
    <2> QED BY <1>2, <1>4
<1>8. FormComponent(bytes) = FlattenSeq(m)
    BY <1>4, <1>5
<1> HIDE DEF m, D, S
<1>9. m \in Seq(Seq(S)) /\ Len(m) = Len(bytes)
    <2>1. IsMapped(m, bytes, S)
        BY <1>1, <1>3, MappedIs DEF m
    <2> QED BY <2>1 DEF IsMapped
<1>10. FlattenSeq(m) \in Seq(S)
    BY <1>9, FlattenTyped
<1>11. \A n \in 1..Len(m) : Len(m[n]) >= 1
    <2> SUFFICES ASSUME NEW n \in 1..Len(m) PROVE Len(m[n]) >= 1
        OBVIOUS
    <2>1. m[n] \in Seq(Plain) /\ m[n] # <<>>
        BY <1>6, <1>7, <1>9
    <2> DEFINE x == m[n]
    <2> HIDE DEF x
    <2>2. x \in Seq(Plain) /\ x # <<>>
        BY <2>1 DEF x
    <2>3. Len(x) >= 1
        BY <2>2, EmptySeq, LenProperties
    <2> QED BY <2>3 DEF x
<1>12. Len(FlattenSeq(m)) >= Len(m)
    BY <1>9, <1>11, FlattenCount
<1>13. FormComponent(bytes) = FlattenSeq(Mapped(FormCodes, bytes))
    BY <1>8 DEF m
<1> QED BY <1>8, <1>9, <1>10, <1>12, <1>13 DEF S

\* What a form writes of a key or of a value is decoded to it.
LEMMA ComponentComesBack ==
    ASSUME NEW bytes \in Ascii
    PROVE  DecodeURIComponent(FormComponent(bytes)) = bytes
<1> DEFINE written == FormComponent(bytes)
           s == Stream(written, <<>>, "Normal")
           n == Len(written) + 1
           w == Taken("decodeUri", s, n)
<1>1. written = FlattenSeq(Mapped(FormCodes, bytes)) /\ written \in Seq(Plain) /\ Len(written) >= Len(bytes)
    BY FormComponentIs
<1>2. written \in Seq(Nat)
    BY <1>1, PlainIs, SeqMonotonic
<1> HIDE DEF written
<1>3. bytes \in Seq(0..127) /\ bytes \in Seq(Nat)
    BY AsciiIsOctets
<1>4. StreamHas(s, written, <<>>, "Normal")
    <2>1. <<>> \in Seq(Nat) /\ "Normal" \in StreamStates
        BY DEF StreamStates
    <2> QED BY <1>2, <2>1, StreamIs
<1> HIDE DEF s
<1>5. Spelling(FormCodes, s, bytes)
    BY <1>1, <1>3, <1>4, FormCodebook DEF Spelling, StreamHas
<1>6. Giving("decodeUri", s, bytes)
    BY <1>4, <1>5 DEF Giving, GivesDecoded, StreamHas
<1>7. n \in Nat /\ Len(written) \in Nat /\ Len(bytes) \in Nat
    BY <1>2, <1>3, LenProperties
<1>8. TakenIs("decodeUri", w, bytes, n)
    <2> HIDE DEF n
    <2> QED BY <1>6, <1>7, TakenGives
<1> HIDE DEF w
<1>9. PICK more : Left("decodeUri", bytes, w, more)
    BY <1>8 DEF TakenIs
<1>10. w.bytes \in Seq(Nat) /\ more \in Seq(Nat) /\ bytes = w.bytes \o more /\ (w.short => more = <<>>)
    BY <1>9 DEF Left
<1>11. Len(bytes) = Len(w.bytes) + Len(more) /\ Len(w.bytes) \in Nat /\ Len(more) \in Nat
    BY <1>10, ConcatProperties, LenProperties
<1>12. w.short
    <2> SUFFICES ASSUME ~w.short PROVE FALSE
        BY <1>9 DEF Left
    <2>1. Len(w.bytes) = n
        BY <1>8 DEF TakenIs
    <2> QED BY <1>1, <1>7, <1>11, <2>1
<1>13. w.bytes = bytes
    BY <1>10, <1>12
<1> QED BY <1>13 DEF DecodeURIComponent, w, s, written, n

\* The pairs of a form, and what is written of one
Forms == [key : Ascii, value : Ascii]
PairText(p) == FormComponent(p.key) \o (IF p.value = <<>> THEN <<>> ELSE <<Equals>> \o FormComponent(p.value))

\* The first place of a character parts what is before it from what is behind it.
SplitBy(c, w, u, v) ==
    PlacesOf(c, w) # {} /\ First(Min(PlacesOf(c, w)) - 1, w) = u /\ Behind(Min(PlacesOf(c, w)), w) = v
    /\ Min(PlacesOf(c, w)) \in Nat \ {0}

Lacks(c, u) == u \in Seq(Nat) /\ PlacesOf(c, u) = {}

LEMMA FirstPlace ==
    ASSUME NEW c \in Nat, NEW u, Lacks(c, u), NEW v \in Seq(Nat)
    PROVE  SplitBy(c, u \o (<<c>> \o v), u, v)
<1> DEFINE t == <<c>> \o v
           w == u \o t
           places == PlacesOf(c, w)
<1>0. u \in Seq(Nat) /\ <<c>> \in Seq(Nat) /\ Len(u) \in Nat /\ <<c>> # <<>> /\ <<c>>[1] = c /\ Len(<<c>>) = 1
    BY DEF Lacks
<1>1. t \in Seq(Nat) /\ t[1] = c /\ t # <<>> /\ Len(t) = Len(v) + 1 /\ Len(v) \in Nat
    BY <1>0, HeadOfConcat, ConcatProperties
<1>2. w \in Seq(Nat) /\ Len(w) = Len(u) + Len(t) /\ DOMAIN w = 1..Len(w) /\ DOMAIN u = 1..Len(u)
      /\ \A i \in 1..Len(w) : w[i] = IF i <= Len(u) THEN u[i] ELSE t[i - Len(u)]
    <2> HIDE DEF t
    <2>1. /\ w \in Seq(Nat) /\ Len(w) = Len(u) + Len(t)
          /\ \A i \in 1..Len(w) : w[i] = IF i <= Len(u) THEN u[i] ELSE t[i - Len(u)]
        <3>1. /\ w \in Seq(Nat) /\ Len(w) = Len(u) + Len(t)
              /\ \A i \in 1..Len(u) + Len(t) : w[i] = IF i <= Len(u) THEN u[i] ELSE t[i - Len(u)]
            <4>1. u \in Seq(Nat) /\ t \in Seq(Nat)
                BY <1>0, <1>1
            <4> QED BY ONLY <4>1, ConcatProperties
        <3> HIDE DEF w
        <3> QED BY <3>1
    <2> HIDE DEF w
    <2>2. DOMAIN w = 1..Len(w) /\ DOMAIN u = 1..Len(u)
        BY <1>0, <2>1, LenProperties
    <2> QED BY <2>1, <2>2
<1> PICK n \in Nat \ {0} : n = Len(u) + 1
    BY <1>0
<1>3. n \in places
    <2>1. n \in 1..Len(w) /\ ~(n <= Len(u)) /\ n - Len(u) = 1
        BY <1>0, <1>1, <1>2
    <2>2. w[n] = c
        BY <1>1, <1>2, <2>1
    <2> QED BY <1>2, <2>1, <2>2 DEF PlacesOf
<1>4. \A i \in places : i >= n
    <2> SUFFICES ASSUME NEW i \in places, ~(i >= n) PROVE FALSE
        OBVIOUS
    <2>1. i \in 1..Len(w) /\ w[i] = c
        BY <1>2 DEF PlacesOf
    <2>2. i \in 1..Len(u) /\ i <= Len(u)
        BY <1>0, <1>2, <2>1
    <2>3. u[i] = c
        BY <1>2, <2>1, <2>2
    <2> QED BY <1>2, <2>2, <2>3 DEF Lacks, PlacesOf
<1>5. places \subseteq Nat
    BY <1>2 DEF PlacesOf
<1> HIDE DEF places, w, t
<1>6. Min(places) = n
    <2>1. \A i \in places : n <= i
        BY <1>4, <1>5
    <2> QED BY <1>3, <1>5, <2>1, LeastIsOne
<1>7. First(Len(u), w) = u
    BY <1>0, <1>1, FirstOfConcat DEF w
<1>8. Behind(n, w) = v
    <2> DEFINE x == u \o <<c>>
    <2>1. x \in Seq(Nat) /\ Len(x) = n
        BY <1>0, ConcatProperties
    <2>2. Grouped(u, <<c>>, v)
        BY <1>0, Regrouped
    <2>3. w = x \o v
        BY <2>2 DEF Grouped, w, t
    <2> HIDE DEF x
    <2>4. Behind(Len(x), x \o v) = v
        BY <2>1, BehindOfConcat
    <2> QED BY <2>1, <2>3, <2>4
<1>9. n - 1 = Len(u)
    BY <1>0
<1> QED BY <1>3, <1>6, <1>7, <1>8, <1>9 DEF SplitBy, w, t, places

LEMMA PlainLacks ==
    ASSUME NEW u \in Seq(Plain)
    PROVE  Lacks(Ampersand, u) /\ Lacks(Equals, u)
<1>1. u \in Seq(Nat) /\ DOMAIN u = 1..Len(u) /\ \A i \in 1..Len(u) : u[i] \in Plain
    BY PlainIs, SeqMonotonic, LenProperties, ElementOfSeq
<1>2. Ampersand \notin Plain /\ Equals \notin Plain
    BY DEF Plain
<1>3. \A i \in DOMAIN u : u[i] # Ampersand /\ u[i] # Equals
    BY <1>1, <1>2
<1> QED BY <1>1, <1>3 DEF Lacks, PlacesOf

\* What is written of a pair
PairTextIs(p) ==
    /\ PairText(p) \in Seq(0..255) /\ Lacks(Ampersand, PairText(p))
    /\ \A query : QueryPair(PairText(p), query) = p
    /\ PairText(p) = <<>> => p = Pair(<<>>, <<>>)

LEMMA PairComesBack ==
    ASSUME NEW p \in Forms
    PROVE  PairTextIs(p)
<1> DEFINE k == FormComponent(p.key)
           v == FormComponent(p.value)
           written == PairText(p)
<1>1. p.key \in Ascii /\ p.value \in Ascii /\ p = Pair(p.key, p.value)
    BY DEF Forms, Pair
<1>2. k \in Seq(Plain) /\ v \in Seq(Plain) /\ Len(k) >= Len(p.key) /\ Len(v) >= Len(p.value)
    BY <1>1, FormComponentIs
<1>3. k \in Seq(Nat) /\ v \in Seq(Nat) /\ k \in Seq(0..255) /\ v \in Seq(0..255)
    <2> DEFINE octets == 0..255
    <2>1. Plain \subseteq octets
        BY PlainIs
    <2> HIDE DEF octets, k, v
    <2>2. k \in Seq(octets) /\ v \in Seq(octets) /\ k \in Seq(Nat) /\ v \in Seq(Nat)
        BY <1>2, <2>1, PlainIs, SeqMonotonic
    <2> QED BY <2>2 DEF octets
<1>4. DecodeURIComponent(k) = p.key /\ DecodeURIComponent(v) = p.value
    BY <1>1, ComponentComesBack
<1>5. written = k \o (IF p.value = <<>> THEN <<>> ELSE <<Equals>> \o v)
    BY DEF PairText
<1>6. Lacks(Ampersand, k) /\ Lacks(Equals, k) /\ Lacks(Ampersand, v)
    BY <1>2, PlainLacks
<1> HIDE DEF k, v, written
<1>7. CASE p.value = <<>>
    <2>1. written = k
        <3>1. k \o <<>> = k
            BY <1>3
        <3> QED BY <1>5, <1>7, <3>1
    <2>2. \A query : QueryPair(written, query) = p
        <3>1. PlacesOf(Equals, k) = {}
            BY <1>6 DEF Lacks
        <3>2. Pair(DecodeURIComponent(k), <<>>) = p
            BY <1>1, <1>4, <1>7
        <3> QED BY <2>1, <3>1, <3>2 DEF QueryPair
    <2>3. written = <<>> => p = Pair(<<>>, <<>>)
        <3> SUFFICES ASSUME k = <<>> PROVE p = Pair(<<>>, <<>>)
            BY <2>1
        <3>1. Len(p.key) <= 0
            BY <1>2
        <3>2. p.key = <<>>
            <4>1. p.key \in Seq(Nat)
                BY <1>1, AsciiIsOctets
            <4>2. Len(p.key) = 0
                BY <3>1, <4>1, LenProperties
            <4> QED BY <4>1, <4>2, EmptySeq
        <3> QED BY <1>1, <1>7, <3>2
    <2> QED BY <1>3, <1>6, <2>1, <2>2, <2>3 DEF PairTextIs, written
<1>8. CASE p.value # <<>>
    <2>0. Equals \in Nat /\ Equals \in 0..255 /\ Equals # Ampersand
        BY DEF Equals, Ampersand
    <2>1. written = k \o (<<Equals>> \o v)
        BY <1>5, <1>8
    <2>2. SplitBy(Equals, written, k, v)
        BY <1>3, <1>6, <2>0, <2>1, FirstPlace
    <2>3. \A query : QueryPair(written, query) = p
        <3>1. PlacesOf(Equals, written) # {} /\ First(Min(PlacesOf(Equals, written)) - 1, written) = k
              /\ Behind(Min(PlacesOf(Equals, written)), written) = v
            BY <2>2 DEF SplitBy
        <3>2. Pair(DecodeURIComponent(k), DecodeURIComponent(v)) = p
            BY <1>1, <1>4
        <3> QED BY <3>1, <3>2, Zenon DEF QueryPair
    <2>4. written \in Seq(0..255) /\ written # <<>>
        <3> DEFINE octets == 0..255
        <3>1. <<Equals>> \in Seq(octets) /\ k \in Seq(octets) /\ v \in Seq(octets)
            BY <1>3, <2>0
        <3> HIDE DEF octets
        <3>2. <<Equals>> \o v \in Seq(octets)
            BY <3>1, ConcatProperties
        <3>3. written \in Seq(octets)
            BY <2>1, <3>1, <3>2, ConcatProperties
        <3>4. written # <<>>
            <4>1. PlacesOf(Equals, <<>>) = {}
                BY DEF PlacesOf
            <4> QED BY <2>2, <4>1 DEF SplitBy
        <3> QED BY <3>3, <3>4 DEF octets
    <2>5. Lacks(Ampersand, written)
        <3> DEFINE t == <<Equals>> \o v
        <3>1. <<Equals>> \in Seq(Nat) /\ Len(<<Equals>>) = 1 /\ <<Equals>>[1] = Equals
            BY <2>0
        <3>2. t \in Seq(Nat) /\ Len(t) = Len(v) + 1 /\ Len(v) \in Nat
              /\ \A i \in 1..Len(t) : t[i] = IF i <= 1 THEN <<Equals>>[i] ELSE v[i - 1]
            BY <1>3, <3>1, ConcatProperties
        <3>3. \A i \in 1..Len(v) : v[i] # Ampersand
            BY <1>3, <1>6, LenProperties DEF Lacks, PlacesOf
        <3>4. \A i \in 1..Len(k) : k[i] # Ampersand
            BY <1>3, <1>6, LenProperties DEF Lacks, PlacesOf
        <3>5. ASSUME NEW i \in 1..Len(t) PROVE t[i] # Ampersand
            <4>1. CASE i = 1
                BY <2>0, <3>1, <3>2, <4>1
            <4>2. CASE i # 1
                <5>1. i - 1 \in 1..Len(v) /\ ~(i <= 1)
                    BY <3>2, <4>2
                <5>2. t[i] = v[i - 1]
                    BY <3>2, <5>1
                <5> QED BY <3>3, <5>1, <5>2
            <4> QED BY <4>1, <4>2
        <3> HIDE DEF t
        <3>6. written \in Seq(Nat) /\ Len(written) = Len(k) + Len(t) /\ Len(k) \in Nat /\ Len(t) \in Nat
              /\ \A i \in 1..Len(written) : written[i] = IF i <= Len(k) THEN k[i] ELSE t[i - Len(k)]
            BY <1>3, <2>1, <3>2, ConcatProperties, LenProperties DEF t
        <3>7. ASSUME NEW i \in 1..Len(written) PROVE written[i] # Ampersand
            <4>1. CASE i <= Len(k)
                BY <3>4, <3>6, <4>1
            <4>2. CASE ~(i <= Len(k))
                <5>1. i - Len(k) \in 1..Len(t)
                    BY <3>6, <4>2
                <5> QED BY <3>5, <3>6, <4>2, <5>1
            <4> QED BY <4>1, <4>2
        <3>8. DOMAIN written = 1..Len(written)
            BY <3>6, LenProperties
        <3> QED BY <3>6, <3>7, <3>8 DEF Lacks, PlacesOf
    <2> QED BY <2>3, <2>4, <2>5 DEF PairTextIs, written
<1> QED BY <1>7, <1>8

\* What is written of the pairs that are not the first
Octets == 0..255
Joined == [p \in Forms |-> <<Ampersand>> \o PairText(p)]
Others(form) == FlattenSeq(Mapped(Joined, form))

LEMMA PairTextTyped ==
    ASSUME NEW p \in Forms
    PROVE  /\ PairText(p) \in Seq(Octets) /\ <<Ampersand>> \in Seq(Octets)
           /\ <<Ampersand>> \o PairText(p) \in Seq(Octets)
           /\ FormComponent(p.key) \in Seq(Octets)
           /\ (IF p.value = <<>> THEN <<>> ELSE <<Equals>> \o FormComponent(p.value)) \in Seq(Octets)
<1>1. PairText(p) \in Seq(Octets)
    BY PairComesBack DEF PairTextIs, Octets
<1>2. Ampersand \in Octets /\ Equals \in Octets /\ Plain \subseteq Octets
    BY PlainIs DEF Ampersand, Equals, Octets
<1>3. p.key \in Ascii /\ p.value \in Ascii
    BY DEF Forms
<1>4. FormComponent(p.key) \in Seq(Plain) /\ FormComponent(p.value) \in Seq(Plain)
    BY <1>3, FormComponentIs
<1>5. FormComponent(p.key) \in Seq(Octets) /\ FormComponent(p.value) \in Seq(Octets)
    <2> HIDE DEF Plain, Octets
    <2> QED BY <1>2, <1>4, SeqMonotonic
<1>6. <<Ampersand>> \in Seq(Octets) /\ <<Equals>> \in Seq(Octets) /\ <<>> \in Seq(Octets)
    <2> HIDE DEF Octets
    <2> QED BY <1>2
<1>7. <<Ampersand>> \o PairText(p) \in Seq(Octets)
    BY <1>1, <1>6, ConcatProperties
<1>8. <<Equals>> \o FormComponent(p.value) \in Seq(Octets)
    BY <1>5, <1>6, ConcatProperties
<1> QED BY <1>1, <1>5, <1>6, <1>7, <1>8

LEMMA JoinedIs == Joined \in [Forms -> Seq(Octets)]
<1>1. \A p \in Forms : <<Ampersand>> \o PairText(p) \in Seq(Octets)
    BY PairTextTyped
<1> QED BY <1>1 DEF Joined

Bodied(form) ==
    /\ FormBody(form) = PairText(form[1]) \o Others(Tail(form))
    /\ Others(Tail(form)) \in Seq(Octets) /\ form[1] \in Forms /\ Tail(form) \in Seq(Forms)

\* The body of a form is the text of its first pair and what the others add.
LEMMA FormBodyIs ==
    ASSUME NEW form \in Seq(Forms), form # <<>>
    PROVE  Bodied(form)
<1> DEFINE Amp(n) == IF n = 1 THEN <<>> ELSE <<Ampersand>>
           Val(p) == IF p.value = <<>> THEN <<>> ELSE <<Equals>> \o FormComponent(p.value)
           Part(n) == Amp(n) \o FormComponent(form[n].key) \o Val(form[n])
           pieces == [n \in DOMAIN form |-> Part(n)]
           m == Mapped(Joined, Tail(form))
           S == Octets
<1>0. form[1] \in Forms /\ Tail(form) \in Seq(Forms) /\ Len(Tail(form)) = Len(form) - 1 /\ Len(form) \in Nat \ {0}
      /\ DOMAIN form = 1..Len(form) /\ DOMAIN Tail(form) = 1..Len(Tail(form))
    <2>1. form[1] \in Forms /\ Tail(form) \in Seq(Forms) /\ Len(Tail(form)) = Len(form) - 1
        BY HeadIsFirst
    <2>2. Len(form) \in Nat \ {0}
        BY EmptySeq, LenProperties
    <2> QED BY <2>1, <2>2, LenProperties
<1>1. FormBody(form) = FlattenSeq(pieces)
    BY DEF FormBody
<1>2. ASSUME NEW n \in 1..Len(form)
      PROVE  Part(n) = Amp(n) \o PairText(form[n]) /\ Part(n) \in Seq(S)
    <2>1. form[n] \in Forms
        BY ElementOfSeq
    <2>2. FormComponent(form[n].key) \in Seq(S) /\ Val(form[n]) \in Seq(S) /\ <<Ampersand>> \in Seq(S)
          /\ PairText(form[n]) \in Seq(S)
        BY <2>1, PairTextTyped
    <2>3. Amp(n) \in Seq(S)
        BY <2>2
    <2>4. PairText(form[n]) = FormComponent(form[n].key) \o Val(form[n])
        BY DEF PairText
    <2> HIDE DEF Amp, Val, S
    <2>5. Grouped(Amp(n), FormComponent(form[n].key), Val(form[n]))
        BY <2>2, <2>3, Regrouped
    <2>6. Part(n) = Amp(n) \o PairText(form[n])
        BY <2>4, <2>5, Zenon DEF Grouped
    <2>7. Amp(n) \o PairText(form[n]) \in Seq(S)
        BY <2>2, <2>3, ConcatProperties
    <2> QED BY <2>6, <2>7
<1> HIDE DEF Part, S
<1>3. pieces \in Seq(Seq(S)) /\ Len(pieces) = Len(form) /\ \A n \in 1..Len(form) : pieces[n] = Part(n)
    <2>1. pieces = [n \in 1..Len(form) |-> Part(n)]
        BY <1>0
    <2> HIDE DEF pieces
    <2>2. \A n \in 1..Len(form) : pieces[n] = Part(n)
        BY <2>1
    <2>3. pieces \in [1..Len(form) -> Seq(S)]
        BY <1>2, <2>1
    <2>4. pieces \in Seq(Seq(S)) /\ Len(pieces) = Len(form)
        BY <1>0, <2>3
    <2> QED BY <2>2, <2>4
<1>4. m \in Seq(Seq(S)) /\ Len(m) = Len(form) - 1
    <2>1. IsMapped(m, Tail(form), S)
        <3> HIDE DEF m
        <3> QED BY <1>0, JoinedIs, MappedIs DEF m, S
    <2> QED BY <1>0, <2>1 DEF IsMapped
<1>5. \A i \in 1..(Len(form) - 1) : Tail(form)[i] = form[i + 1]
    BY HeadTailProperties
<1>6. \A i \in 1..(Len(form) - 1) : m[i] = <<Ampersand>> \o PairText(form[i + 1])
    <2> SUFFICES ASSUME NEW i \in 1..(Len(form) - 1) PROVE m[i] = <<Ampersand>> \o PairText(form[i + 1])
        OBVIOUS
    <2>1. i \in DOMAIN Tail(form) /\ Tail(form)[i] = form[i + 1] /\ i + 1 \in 1..Len(form)
        BY <1>0, <1>5
    <2>2. form[i + 1] \in Forms
        BY <2>1, ElementOfSeq
    <2>3. m[i] = Joined[Tail(form)[i]]
        BY <2>1 DEF Mapped
    <2> QED BY <2>1, <2>2, <2>3 DEF Joined
<1> HIDE DEF pieces, m
<1>7. pieces # <<>> /\ Tail(pieces) \in Seq(Seq(S)) /\ Len(Tail(pieces)) = Len(form) - 1
      /\ \A i \in 1..(Len(form) - 1) : Tail(pieces)[i] = pieces[i + 1]
    <2>1. pieces # <<>>
        BY <1>0, <1>3
    <2> QED BY <1>0, <1>3, <2>1, HeadTailProperties
<1>8. Tail(pieces) = m
    <2>1. Len(Tail(pieces)) = Len(m)
        BY <1>4, <1>7
    <2>2. ASSUME NEW i \in 1..(Len(form) - 1) PROVE Tail(pieces)[i] = m[i]
        <3>1. i + 1 \in 1..Len(form) /\ i + 1 # 1
            BY <1>0
        <3>2. Part(i + 1) = <<Ampersand>> \o PairText(form[i + 1])
            BY <1>2, <3>1
        <3> QED BY <1>3, <1>6, <1>7, <3>1, <3>2
    <2> QED BY <1>4, <1>7, <2>1, <2>2, SeqEqual
<1>9. FlattenSeq(pieces) = pieces[1] \o FlattenSeq(Tail(pieces))
    BY <1>3, <1>7, FlattenHead
<1>10. pieces[1] = PairText(form[1])
    <2>1. 1 \in 1..Len(form)
        BY <1>0
    <2>2. Part(1) = <<>> \o PairText(form[1])
        BY <1>2, <2>1
    <2>3. <<>> \o PairText(form[1]) = PairText(form[1])
        <3>1. PairText(form[1]) \in Seq(S)
            BY <1>0, PairTextTyped DEF S
        <3> QED BY <3>1
    <2> QED BY <1>3, <2>1, <2>2, <2>3
<1>11. FlattenSeq(m) \in Seq(S)
    BY <1>4, FlattenTyped
<1> QED BY <1>0, <1>1, <1>8, <1>9, <1>10, <1>11, Zenon DEF Bodied, Others, m, S

FollowedBy(form) == FormBody(form) = PairText(form[1]) \o (<<Ampersand>> \o FormBody(Tail(form)))
                    /\ FormBody(Tail(form)) \in Seq(Octets)

\* and the others add an ampersand and their own body.
LEMMA FormBodyGoesOn ==
    ASSUME NEW form \in Seq(Forms), form # <<>>, Tail(form) # <<>>
    PROVE  FollowedBy(form)
<1> DEFINE t == Tail(form)
           behind == FormBody(t)
<1>1. Bodied(form)
    BY FormBodyIs
<1>2. t \in Seq(Forms)
    BY <1>1 DEF Bodied
<1>3. Bodied(t)
    BY <1>2, FormBodyIs
<1> HIDE DEF t
<1>4. behind = PairText(t[1]) \o Others(Tail(t)) /\ Others(Tail(t)) \in Seq(Octets) /\ t[1] \in Forms
    BY <1>3 DEF Bodied
<1>5. PairText(t[1]) \in Seq(Octets) /\ <<Ampersand>> \in Seq(Octets)
    BY <1>4, PairTextTyped
<1>6. Others(t) = Joined[t[1]] \o Others(Tail(t))
    <2>1. t # <<>>
        BY DEF t
    <2> HIDE DEF Joined
    <2>2. FlattenSeq(Mapped(Joined, t)) = Joined[t[1]] \o FlattenSeq(Mapped(Joined, Tail(t)))
        <3> DEFINE C == Joined
                   D == Forms
                   S == Octets
        <3>1. C \in [D -> Seq(S)] /\ t \in Seq(D)
            BY <1>2, JoinedIs
        <3> HIDE DEF C, D, S
        <3>2. /\ FlattenSeq(Mapped(C, t)) = C[t[1]] \o FlattenSeq(Mapped(C, Tail(t)))
              /\ C[t[1]] \in Seq(S) /\ FlattenSeq(Mapped(C, Tail(t))) \in Seq(S)
            BY <2>1, <3>1, MappedHead
        <3> QED BY <3>2 DEF C
    <2> QED BY <2>2 DEF Others
<1>7. Joined[t[1]] = <<Ampersand>> \o PairText(t[1])
    BY <1>4 DEF Joined
<1>8. Grouped(<<Ampersand>>, PairText(t[1]), Others(Tail(t)))
    BY <1>4, <1>5, Regrouped
<1>9. Others(t) = <<Ampersand>> \o behind
    BY <1>4, <1>6, <1>7, <1>8, Zenon DEF Grouped
<1>10. behind \in Seq(Octets)
    BY <1>4, <1>5, ConcatProperties
<1> QED BY <1>1, <1>9, <1>10, Zenon DEF Bodied, FollowedBy, t

-----------------------------------------------------------------------------
(* Queries *)

\* ParseQueryParameters, as it goes on with g behind the first ampersand
PairsFound(query, g) ==
    LET ends == PlacesOf(Ampersand, query)
    IN  IF query = <<>> THEN <<>>
        ELSE IF ends = {} THEN <<QueryPair(query, query)>>
        ELSE <<QueryPair(First(Min(ends) - 1, query), query)>> \o g[Behind(Min(ends), query)]

\* What is behind an ampersand is shorter.
LEMMA PlacesAre ==
    ASSUME NEW S, NEW bytes \in Seq(S), NEW c, PlacesOf(c, bytes) # {}
    PROVE  /\ Min(PlacesOf(c, bytes)) \in Nat /\ Min(PlacesOf(c, bytes)) - 1 \in Nat
           /\ Behind(Min(PlacesOf(c, bytes)), bytes) \in Seq(S) /\ First(Min(PlacesOf(c, bytes)) - 1, bytes) \in Seq(S)
           /\ Len(Behind(Min(PlacesOf(c, bytes)), bytes)) < Len(bytes)
<1> DEFINE places == PlacesOf(c, bytes)
           n == Min(places)
<1>1. places \subseteq 1..Len(bytes) /\ Len(bytes) \in Nat /\ places \subseteq Nat
    BY LenProperties DEF PlacesOf
<1> HIDE DEF places
<1>2. n \in places
    BY <1>1, LeastIs DEF places
<1> HIDE DEF n
<1>3. n \in Nat /\ n - 1 \in Nat /\ n <= Len(bytes) /\ n >= 1
    BY <1>1, <1>2
<1>4. Behind(n, bytes) \in Seq(S) /\ Len(Behind(n, bytes)) = (IF n < Len(bytes) THEN Len(bytes) - n ELSE 0)
    BY <1>3, BehindOf
<1> DEFINE m == n - 1
<1>5. m \in Nat
    BY <1>3
<1> HIDE DEF m
<1>6. First(m, bytes) \in Seq(S)
    BY <1>5, FirstOf
<1>7. Len(Behind(n, bytes)) < Len(bytes)
    BY <1>1, <1>3, <1>4
<1> QED BY <1>3, <1>4, <1>6, <1>7 DEF m, n, places

\* ParseQueryParameters goes on behind each ampersand.
LEMMA QueryParametersAre == \A query \in Seq(0..255) : QueryParameters[query] = PairsFound(query, QueryParameters)
<1> DEFINE X == Seq(0..255)
           P == {QueryPair(w[1], w[2]) : w \in X \X X}
           V == Seq(P)
           measure == [query \in X |-> Len(query)]
           F == [w \in X \X [X -> V] |-> PairsFound(w[1], w[2])]
           Is(f) == f = [query \in X |-> PairsFound(query, f)]
<1>0. ASSUME NEW u \in X, NEW v \in X PROVE QueryPair(u, v) \in P
    <2> DEFINE w == <<u, v>>
    <2>1. w \in X \X X /\ w[1] = u /\ w[2] = v
        OBVIOUS
    <2> HIDE DEF w, X
    <2> QED BY <2>1
<1>s. ASSUME NEW query \in X, PlacesOf(Ampersand, query) # {}
      PROVE  /\ Behind(Min(PlacesOf(Ampersand, query)), query) \in X
             /\ First(Min(PlacesOf(Ampersand, query)) - 1, query) \in X
             /\ Len(Behind(Min(PlacesOf(Ampersand, query)), query)) < Len(query)
    <2> DEFINE S == 0..255
    <2>1. query \in Seq(S)
        OBVIOUS
    <2> HIDE DEF S
    <2>2. /\ Behind(Min(PlacesOf(Ampersand, query)), query) \in Seq(S)
          /\ First(Min(PlacesOf(Ampersand, query)) - 1, query) \in Seq(S)
          /\ Len(Behind(Min(PlacesOf(Ampersand, query)), query)) < Len(query)
        BY <1>s, <2>1, PlacesAre
    <2> QED BY <2>2 DEF S
<1>l. \A query \in X : Len(query) \in Nat
    BY LenProperties
<1> HIDE DEF P, X
<1>e. <<>> \in V /\ (\A p \in P : <<p>> \in V) /\ \A u, v \in V : u \o v \in V
    <2>1. <<>> \in V /\ \A p \in P : <<p>> \in V
        OBVIOUS
    <2>2. \A u, v \in V : u \o v \in V
        BY ConcatProperties
    <2> QED BY <2>1, <2>2
<1> HIDE DEF V
<1>1. ASSUME NEW query \in X, NEW g \in [X -> V] PROVE PairsFound(query, g) \in V
    <2> DEFINE ends == PlacesOf(Ampersand, query)
               u == First(Min(ends) - 1, query)
               v == Behind(Min(ends), query)
    <2>1. CASE query = <<>>
        BY <1>e, <2>1 DEF PairsFound
    <2>2. CASE query # <<>> /\ ends = {}
        <3>1. <<QueryPair(query, query)>> \in V
            BY <1>0, <1>e
        <3> QED BY <2>2, <3>1 DEF PairsFound
    <2>3. CASE query # <<>> /\ ends # {}
        <3>1. u \in X /\ v \in X
            BY <1>s, <2>3
        <3>2. PairsFound(query, g) = <<QueryPair(u, query)>> \o g[v]
            BY <2>3 DEF PairsFound
        <3> HIDE DEF u, v
        <3>3. <<QueryPair(u, query)>> \in V /\ g[v] \in V
            BY <1>0, <1>e, <3>1
        <3> QED BY <1>e, <3>2, <3>3
    <2> QED BY <2>1, <2>2, <2>3
<1>2. F \in [X \X [X -> V] -> V]
    BY <1>1
<1>3. measure \in [X -> Nat]
    BY <1>l
<1>4. LooksDown(F, X, V, measure)
    <2>1. ASSUME NEW query \in X, NEW g \in [X -> V], NEW h \in [X -> V],
                 \A b \in X : measure[b] < measure[query] => g[b] = h[b]
          PROVE  F[<<query, g>>] = F[<<query, h>>]
        <3>1. F[<<query, g>>] = PairsFound(query, g) /\ F[<<query, h>>] = PairsFound(query, h)
            OBVIOUS
        <3> DEFINE ends == PlacesOf(Ampersand, query)
                   v == Behind(Min(ends), query)
        <3>2. CASE query = <<>> \/ ends = {}
            <4>1. PairsFound(query, g) = PairsFound(query, h)
                BY <3>2 DEF PairsFound
            <4> HIDE DEF F
            <4> QED BY <3>1, <4>1
        <3>3. CASE query # <<>> /\ ends # {}
            <4>1. v \in X /\ measure[v] < measure[query]
                BY <1>s, <3>3
            <4>3. g[v] = h[v]
                BY <2>1, <4>1
            <4>4. PairsFound(query, g) = PairsFound(query, h)
                BY <3>3, <4>3, Zenon DEF PairsFound
            <4> HIDE DEF F
            <4> QED BY <3>1, <4>4
        <3> QED BY <3>2, <3>3
    <2> HIDE DEF F, measure
    <2> QED BY <2>1 DEF LooksDown
<1>5. PICK f : Recurses(f, X, V, F)
    <2> HIDE DEF F, measure
    <2> QED BY <1>2, <1>3, <1>4, <1>e, RecursionDown
<1>6. f \in [X -> V] /\ \A query \in X : f[query] = PairsFound(query, f)
    <2>1. f \in [X -> V] /\ \A query \in X : f[query] = F[<<query, f>>]
        BY <1>5 DEF Recurses
    <2>2. \A query \in X : F[<<query, f>>] = PairsFound(query, f)
        BY <2>1
    <2> HIDE DEF F
    <2> QED BY <2>1, <2>2
<1>7. Is(f)
    BY <1>6
<1>8. QueryParameters = CHOOSE g : Is(g)
    BY DEF QueryParameters, PairsFound, X
<1> DEFINE B == QueryParameters
<1>9. Is(B)
    <2> HIDE DEF Is
    <2> QED BY <1>7, <1>8
<1>10. B = [query \in X |-> PairsFound(query, B)]
    BY <1>9
<1> HIDE DEF B, Is
<1>11. \A query \in X : B[query] = PairsFound(query, B)
    BY <1>10
<1> QED BY <1>11 DEF B, X

\* A form of one pair comes back, and with it every longer one.
ComesBack(form) == QueryParameters[FormBody(form)] = form

LEMMA LastComesBack ==
    ASSUME NEW form \in Seq(Forms), Len(form) = 1, form[1] # Pair(<<>>, <<>>)
    PROVE  ComesBack(form)
<1> DEFINE written == PairText(form[1])
           query == FormBody(form)
<1>1. form # <<>> /\ Len(Tail(form)) = 0 /\ Tail(form) \in Seq(Forms) /\ form = <<form[1]>> \o Tail(form) /\ form[1] \in Forms
    <2>1. form # <<>>
        OBVIOUS
    <2>2. form[1] \in Forms /\ Tail(form) \in Seq(Forms) /\ Len(Tail(form)) = Len(form) - 1 /\ form = <<form[1]>> \o Tail(form)
        BY <2>1, HeadIsFirst
    <2>3. Len(Tail(form)) = 0
        BY <2>2
    <2> QED BY <2>1, <2>2, <2>3, Zenon
<1>2. Tail(form) = <<>>
    BY <1>1, EmptySeq
<1>3. PairTextIs(form[1])
    BY <1>1, PairComesBack
<1>4. Bodied(form)
    BY <1>1, FormBodyIs
<1>5. Others(<<>>) = <<>>
    BY MappedEmpty DEF Others
<1>6. query = written
    <2>1. written \in Seq(0..255)
        BY <1>3 DEF PairTextIs
    <2>2. written \o <<>> = written
        <3> HIDE DEF written
        <3> QED BY <2>1
    <2> QED BY <1>2, <1>4, <1>5, <2>2, Zenon DEF Bodied
<1> HIDE DEF query, written
<1>7. written \in Seq(0..255) /\ written # <<>> /\ PlacesOf(Ampersand, written) = {} /\ QueryPair(written, written) = form[1]
    BY <1>3, Zenon DEF PairTextIs, Lacks, written
<1>8. QueryParameters[written] = <<QueryPair(written, written)>>
    <2>1. QueryParameters[written] = PairsFound(written, QueryParameters)
        BY <1>7, QueryParametersAre
    <2> QED BY <1>7, <2>1, Zenon DEF PairsFound
<1>9. <<form[1]>> = form
    <2>1. <<form[1]>> \in Seq(Forms)
        BY <1>1
    <2>2. <<form[1]>> \o <<>> = <<form[1]>>
        BY <2>1
    <2> QED BY <1>1, <1>2, <2>2, Zenon
<1> QED BY <1>6, <1>7, <1>8, <1>9, Zenon DEF ComesBack, query

LEMMA NextComesBack ==
    ASSUME NEW form \in Seq(Forms), form # <<>>, Tail(form) # <<>>, ComesBack(Tail(form))
    PROVE  ComesBack(form)
<1> DEFINE u == PairText(form[1])
           v == FormBody(Tail(form))
           query == FormBody(form)
           ends == PlacesOf(Ampersand, query)
<1>1. form[1] \in Forms /\ form = <<form[1]>> \o Tail(form)
    BY HeadIsFirst
<1>2. PairTextIs(form[1])
    BY <1>1, PairComesBack
<1>3. query = u \o (<<Ampersand>> \o v) /\ v \in Seq(Octets)
    BY FormBodyGoesOn DEF FollowedBy
<1>4. v \in Seq(Nat)
    <2>1. Octets \subseteq Nat
        BY DEF Octets
    <2> HIDE DEF v
    <2> QED BY <1>3, <2>1, SeqMonotonic
<1>5. Lacks(Ampersand, u)
    BY <1>2 DEF PairTextIs
<1>6. SplitBy(Ampersand, query, u, v)
    <2>1. Ampersand \in Nat
        BY DEF Ampersand
    <2> HIDE DEF u, v, query
    <2> QED BY <1>3, <1>4, <1>5, <2>1, FirstPlace
<1>7. query \in Seq(0..255) /\ query # <<>>
    <2>1. u \in Seq(Octets) /\ <<Ampersand>> \in Seq(Octets)
        BY <1>1, PairTextTyped
    <2> HIDE DEF u, v, query
    <2>2. query \in Seq(Octets)
        BY <1>3, <2>1, ConcatProperties
    <2>3. PlacesOf(Ampersand, <<>>) = {}
        BY DEF PlacesOf
    <2> QED BY <1>6, <2>2, <2>3 DEF SplitBy, Octets
<1> HIDE DEF u, v, query
<1>8. QueryParameters[query] = <<QueryPair(First(Min(ends) - 1, query), query)>> \o QueryParameters[Behind(Min(ends), query)]
    <2>1. QueryParameters[query] = PairsFound(query, QueryParameters)
        BY <1>7, QueryParametersAre
    <2>2. ends # {}
        BY <1>6 DEF SplitBy
    <2> QED BY <1>7, <2>1, <2>2, Zenon DEF PairsFound
<1>9. QueryParameters[query] = <<QueryPair(u, query)>> \o QueryParameters[v]
    BY <1>6, <1>8, Zenon DEF SplitBy
<1>10. QueryPair(u, query) = form[1]
    BY <1>2, Zenon DEF PairTextIs, u
<1>11. QueryParameters[v] = Tail(form)
    BY Zenon DEF ComesBack, v
<1> QED BY <1>1, <1>9, <1>10, <1>11, Zenon DEF ComesBack, query

\* A form comes back from its body, unless it ends with an empty pair.
LEMMA FormComesBack ==
    \A form \in Seq(Forms) : form # <<>> /\ Last(form) # Pair(<<>>, <<>>) => ComesBack(form)
<1> DEFINE T == {n \in Nat : \A form \in Seq(Forms) :
                    Len(form) = n /\ form # <<>> /\ form[n] # Pair(<<>>, <<>>) => ComesBack(form)}
<1>1. 0 \in T
    <2> HIDE DEF ComesBack
    <2>1. \A form \in Seq(Forms) : Len(form) = 0 => form = <<>>
        BY EmptySeq
    <2> QED BY <2>1
<1>2. ASSUME NEW n \in Nat, n \in T PROVE n + 1 \in T
    <2> PICK m \in Nat : m = n + 1
        OBVIOUS
    <2> SUFFICES ASSUME NEW form \in Seq(Forms), Len(form) = m, form # <<>>, form[m] # Pair(<<>>, <<>>)
                 PROVE  ComesBack(form)
        <3> HIDE DEF ComesBack
        <3> QED OBVIOUS
    <2>1. CASE n = 0
        <3>1. m = 1
            BY <2>1
        <3> QED BY <3>1, LastComesBack
    <2>2. CASE n # 0
        <3>1. Tail(form) \in Seq(Forms) /\ Len(Tail(form)) = n
            <4>1. Tail(form) \in Seq(Forms) /\ Len(Tail(form)) = Len(form) - 1
                BY HeadIsFirst
            <4> QED BY <4>1
        <3>2. Tail(form)[n] = form[m]
            <4>1. n \in 1..(Len(form) - 1)
                BY <2>2
            <4>2. Tail(form)[n] = form[n + 1]
                BY <4>1, HeadTailProperties
            <4> QED BY <4>2
        <3>3. Tail(form) # <<>>
            <4> DEFINE t == Tail(form)
            <4>1. Len(t) = n
                BY <3>1
            <4> HIDE DEF t
            <4>2. t # <<>>
                BY <2>2, <4>1
            <4> QED BY <4>2 DEF t
        <3>4. ComesBack(Tail(form))
            <4> DEFINE t == Tail(form)
            <4>1. t \in Seq(Forms) /\ Len(t) = n /\ t # <<>> /\ t[n] # Pair(<<>>, <<>>)
                BY <3>1, <3>2, <3>3
            <4> HIDE DEF t, ComesBack
            <4>2. ComesBack(t)
                BY <1>2, <4>1
            <4> QED BY <4>2 DEF t
        <3> QED BY <3>3, <3>4, NextComesBack
    <2> QED BY <2>1, <2>2
<1> HIDE DEF T
<1>3. \A n \in Nat : n \in T
    BY <1>1, <1>2, Counting
<1> SUFFICES ASSUME NEW form \in Seq(Forms), form # <<>>, Last(form) # Pair(<<>>, <<>>) PROVE ComesBack(form)
    OBVIOUS
<1>4. Len(form) \in T /\ form[Len(form)] # Pair(<<>>, <<>>)
    BY <1>3, LenProperties DEF Last
<1> QED BY <1>4 DEF T

LEMMA FormsComeBack ==
    ASSUME TranscodingInv
    PROVE  FormIsReadBack
<1> SUFFICES ASSUME kind = "form", data # <<>>, Last(data) # Pair(<<>>, <<>>) PROVE QueryParameters[inner] = data
    BY DEF FormIsReadBack
<1>1. data \in Seq(Forms) /\ inner = FormBody(data)
    BY DEF TranscodingInv, IsPair, Forms
<1>2. ComesBack(data)
    BY <1>1, FormComesBack
<1> QED BY <1>1, <1>2 DEF ComesBack

\* Whatever data goes through the streams of Base64Stream.cpp and UriStream.cpp, and however
\* many bytes each read asks for: every byte is given once and in its place, and a form of any
\* length comes back from the body that buildFormBody makes of it.
THEOREM StreamsGiveAll == TranscodingSpec => []StreamsAreExact
<1>1. TranscodingInit => TranscodingInv
    BY FlowsFirst
<1>2. TranscodingInv /\ [TranscodingNext]_transcodingVars => TranscodingInv'
    BY FlowsOn
<1>3. TranscodingInv => StreamsAreExact
    BY FlowIsExact, FormsComeBack DEF StreamsAreExact
<1> HIDE DEF TranscodingInit, TranscodingNext, TranscodingInv, StreamsAreExact, transcodingVars
<1> QED BY <1>1, <1>2, <1>3, PTL DEF TranscodingSpec
=============================================================================
