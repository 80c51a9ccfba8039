---------------------------- MODULE ResponseStream ----------------------------
(***************************************************************************)
(* How a response becomes bytes: HttpPipelineResponseSource::buildSource and *)
(* EnsureRequiredHeaders (response/HttpResponseIterators.cpp) decide on its  *)
(* framing, ChunkedHttpResponseBodyStream frames the body while it is read,  *)
(* and the pipeline reads as much as it is told is available.                *)
(*                                                                           *)
(* The source of the body is the application's: its bytes may be there from  *)
(* the start, come while they are read, or stop coming.  "client" is what    *)
(* the receiver makes of the bytes, read the way the headers tell it to.     *)
(*                                                                           *)
(* A byte is a pair: the kind and, for a data byte, its number.  The digits  *)
(* of a chunk size are one byte that holds the size.                         *)
(***************************************************************************)
EXTENDS Integers, Sequences

CONSTANTS
    ChunkSize,      \* chunkDataSize_
    BufferSize,     \* PIPELINE_STACK_BUFFER_SIZE
    HeadSize,       \* bytes of start line, headers and the empty line
    MaxBody         \* bytes of a body (environment bound)

ASSUME SizesAssumption ==
    /\ ChunkSize \in Nat \ {0} /\ BufferSize \in Nat \ {0} /\ HeadSize \in Nat \ {0}
    /\ MaxBody \in Nat

VARIABLES
    response,               \* the application's response: status, headers, body, total bytes
    produced, open, broken, \* the body source: bytes so far, whether it may go on, has failed
    taken,                  \* bytes read from it
    built,                  \* the response source has been constructed
    chunked, announced,     \* Transfer-Encoding and Content-Length as sent
    body,                   \* the last source of the chain: "absent", "plain" or "chunked"
    head,                   \* bytes before the body that have not been read yet
    stream,                 \* the members of ChunkedHttpResponseBodyStream; header_ is the
                            \* size it promises, 0 while it is empty
    reader, want,           \* the pipeline: "ask", "read" or "over"; bytes left to read
    client                  \* history: the receiver

source  == <<response, produced, open, broken>>
framing == <<built, chunked, announced, body>>
pipeline == <<reader, want>>
vars == <<source, taken, framing, head, stream, pipeline, client>>

-----------------------------------------------------------------------------
CR      == <<"cr", 0>>
LF      == <<"lf", 0>>
Size(n) == <<"size", n>>
Data(i) == <<"data", i>>

\* Of 3, 2 and 5 bytes
Header(n)  == <<Size(n), CR, LF>>
Trailer    == <<CR, LF>>
FinalChunk == <<Size(0), CR, LF, CR, LF>>

Lesser(a, b) == IF a < b THEN a ELSE b
Ready     == IF broken THEN 0 ELSE produced - taken
Exhausted == ~open /\ ~broken /\ produced = taken

\* bodyless: a status that has no body; length, chunked: the headers the application sets.
Responses ==
    {r \in [bodyless : BOOLEAN, hasBody : BOOLEAN, length : BOOLEAN, chunked : BOOLEAN,
            total : 0..MaxBody] : r.hasBody \/ r.total = 0}

\* Where the receiver is: in the headers, in a body of a known length, or in a chunk
Places == {"head", "length", "size", "sizeCR", "sizeLF", "chunk", "chunkCR", "chunkLF",
           "lastCR", "lastLF", "end", "confused"}

\* The type of the state; the stream never reads past the end of one of its strings.
TypeOK ==
    /\ response \in Responses /\ produced \in 0..response.total /\ taken \in 0..produced
    /\ open \in BOOLEAN /\ broken \in BOOLEAN
    /\ built \in BOOLEAN /\ chunked \in BOOLEAN /\ announced \in 0..MaxBody
    /\ body \in {"absent", "plain", "chunked"} /\ head \in 0..HeadSize
    /\ stream.state \in {"Header", "Body", "Trailer", "Final", "Done"}
    /\ stream.chunkRemaining \in 0..ChunkSize /\ stream.currentChunkIsLast \in BOOLEAN
    /\ stream.header \in 0..ChunkSize /\ stream.headerPos \in 0..3
    /\ stream.trailerPos \in 0..2 /\ (stream.state = "Trailer" => stream.trailerPos < 2)
    /\ stream.finalPos \in 0..5 /\ (stream.state = "Final" => stream.finalPos < 5)
    /\ reader \in {"ask", "read", "over"} /\ want \in 0..BufferSize
    /\ client \in [at : Places, left : Nat, got : 0..produced]

Init ==
    /\ response \in Responses
    /\ produced = 0 /\ open = response.hasBody /\ broken = FALSE /\ taken = 0
    /\ built = FALSE /\ chunked = FALSE /\ announced = 0 /\ body = "absent" /\ head = HeadSize
    /\ stream = [state |-> "Header", chunkRemaining |-> 0, currentChunkIsLast |-> FALSE,
                 header |-> 0, headerPos |-> 0, trailerPos |-> 0, finalPos |-> 0]
    /\ reader = "ask" /\ want = 0
    /\ client = [at |-> "head", left |-> 0, got |-> 0]

-----------------------------------------------------------------------------
(* The source of the body, at any time while there is a response *)

Alive == open /\ ~broken /\ reader # "over"

Produces ==
    /\ Alive /\ produced < response.total
    /\ produced' = produced + 1
    /\ UNCHANGED <<response, open, broken, taken, framing, head, stream, pipeline, client>>

Ends ==
    /\ Alive /\ produced = response.total
    /\ open' = FALSE
    /\ UNCHANGED <<response, produced, broken, taken, framing, head, stream, pipeline, client>>

\* From here on it has nothing to give, and does not say that it has ended.
Breaks ==
    /\ Alive
    /\ broken' = TRUE
    /\ UNCHANGED <<response, produced, open, taken, framing, head, stream, pipeline, client>>

-----------------------------------------------------------------------------
(* The receiver *)

\* What it expects when it has the headers
AfterHead ==
    IF response.bodyless THEN [client EXCEPT !.at = "end"]
    ELSE IF chunked      THEN [client EXCEPT !.at = "size"]
    ELSE [client EXCEPT !.at = IF announced = 0 THEN "end" ELSE "length", !.left = announced]

Confused == [client EXCEPT !.at = "confused"]

\* A data byte that leaves it "at" when it was the last one it expects
TakesData(at, byte) ==
    IF byte # Data(client.got + 1) THEN Confused
    ELSE [at |-> IF client.left = 1 THEN at ELSE client.at,
          left |-> client.left - 1, got |-> client.got + 1]

Expects(byte, expected, next) ==
    IF byte = expected THEN [client EXCEPT !.at = next] ELSE Confused

Takes(byte) ==
    CASE client.at = "length"  -> TakesData("end", byte)
      [] client.at = "chunk"   -> TakesData("chunkCR", byte)
      [] client.at = "size"    -> IF byte[1] = "size"
                                  THEN [client EXCEPT !.at = "sizeCR", !.left = byte[2]]
                                  ELSE Confused
      [] client.at = "sizeCR"  -> Expects(byte, CR, "sizeLF")
      [] client.at = "sizeLF"  -> Expects(byte, LF, IF client.left = 0 THEN "lastCR" ELSE "chunk")
      [] client.at = "chunkCR" -> Expects(byte, CR, "chunkLF")
      [] client.at = "chunkLF" -> Expects(byte, LF, "size")
      [] client.at = "lastCR"  -> Expects(byte, CR, "lastLF")
      [] client.at = "lastLF"  -> Expects(byte, LF, "end")
      [] OTHER                 -> Confused

-----------------------------------------------------------------------------
(* buildSource *)

\* EnsureRequiredHeaders announces what the source has at this moment; a source that has
\* nothing and has not ended is chunked.
Build ==
    /\ ~built
    /\ built' = TRUE
    /\ LET framed == response.length \/ response.chunked
           known  == ~response.hasBody \/ Ready > 0 \/ Exhausted
       IN /\ chunked' = (response.chunked \/ (~framed /\ ~known))
          /\ announced' = IF response.length THEN response.total
                          ELSE IF framed \/ ~known THEN 0 ELSE Ready
    /\ body' = IF response.bodyless \/ ~response.hasBody THEN "absent"
               ELSE IF chunked' THEN "chunked" ELSE "plain"
    /\ UNCHANGED <<source, taken, head, stream, pipeline, client>>

-----------------------------------------------------------------------------
(* ChunkedHttpResponseBodyStream *)

\* Mutant of Prepared: the header promises all there is, not what the chunk will hold.
BugUncapped(s) ==
    IF Ready > 0
    THEN [s EXCEPT !.chunkRemaining = Lesser(Ready, ChunkSize),
                   !.currentChunkIsLast = Ready <= ChunkSize,
                   !.header = Ready, !.headerPos = 0]
    ELSE IF Exhausted THEN [s EXCEPT !.state = "Final", !.finalPos = 0,
                                     !.currentChunkIsLast = FALSE]
    ELSE s

\* Mutant of Prepared: the end of the source passes for a pause.
BugWaitsOn(s) ==
    IF Ready > 0
    THEN [s EXCEPT !.chunkRemaining = Lesser(Ready, ChunkSize),
                   !.currentChunkIsLast = Ready <= ChunkSize,
                   !.header = Lesser(Ready, ChunkSize), !.headerPos = 0]
    ELSE s

\* prepareHeader: a chunk holds what the source has now.
Prepared(s) ==
    IF Ready > 0
    THEN [s EXCEPT !.chunkRemaining = Lesser(Ready, ChunkSize),
                   !.currentChunkIsLast = Ready <= ChunkSize,
                   !.header = Lesser(Ready, ChunkSize), !.headerPos = 0]
    ELSE IF Exhausted THEN [s EXCEPT !.state = "Final", !.finalPos = 0,
                                     !.currentChunkIsLast = FALSE]
    ELSE s

\* available, peek and read alike begin with a header, if it is time for one.
Settled == IF stream.state = "Header" /\ stream.header = 0 THEN Prepared(stream) ELSE stream

\* The number of bytes available() reports; the last chunk, as it seems, counts the final one.
Available(s) ==
    LET final == IF s.currentChunkIsLast THEN 5 ELSE 0 IN
    CASE s.state = "Header"  -> 3 - s.headerPos + s.chunkRemaining + 2
                                + final
      [] s.state = "Body"    -> s.chunkRemaining + 2 - s.trailerPos + final
      [] s.state = "Trailer" -> 2 - s.trailerPos + final
      [] s.state = "Final"   -> 5 - s.finalPos

-----------------------------------------------------------------------------
(* The pipeline asks and reads *)

Asking == reader = "ask" /\ built
WillRead(n) == want' = Lesser(n, BufferSize) /\ reader' = "read"
Rest == UNCHANGED <<source, framing>>

\* How much of the following sources is counted is up to ConcatByteSource.
AskHead ==
    /\ Asking /\ head > 0
    /\ \E n \in 1..BufferSize : WillRead(n)
    /\ Rest /\ UNCHANGED <<taken, head, stream, client>>

AskPlain ==
    /\ Asking /\ head = 0 /\ body = "plain" /\ Ready > 0
    /\ WillRead(Ready)
    /\ Rest /\ UNCHANGED <<taken, head, stream, client>>

AskChunked ==
    /\ Asking /\ head = 0 /\ body = "chunked"
    /\ stream' = Settled
    /\ stream'.state # "Done" /\ (stream'.state = "Header" => stream'.header # 0)
    /\ WillRead(Available(stream'))
    /\ Rest /\ UNCHANGED <<taken, head, client>>

\* There is nothing for now; the pipeline asks again in its next call.
AskLater ==
    /\ Asking /\ head = 0
    /\ \/ body = "plain" /\ Ready = 0 /\ ~Exhausted
       \/ body = "chunked" /\ Settled.state = "Header" /\ Settled.header = 0
    /\ UNCHANGED vars

\* The pipeline is done with a response whose sources are exhausted.
AskExhausted ==
    /\ Asking /\ head = 0
    /\ \/ body = "absent"
       \/ body = "plain" /\ Exhausted
       \/ body = "chunked" /\ stream.state = "Done"
    /\ reader' = "over"
    /\ Rest /\ UNCHANGED <<taken, head, stream, want, client>>

Reading == reader = "read" /\ want > 0

\* One byte more, until there are as many as were asked for
OneMore     == want' = want - 1 /\ reader' = IF want = 1 THEN "ask" ELSE "read"
Gives(byte) == client' = Takes(byte) /\ OneMore

HeadByte ==
    /\ Reading /\ head > 0
    /\ head' = head - 1
    /\ client' = IF head = 1 THEN AfterHead ELSE client
    /\ OneMore
    /\ Rest /\ UNCHANGED <<taken, stream>>

PlainByte ==
    /\ Reading /\ head = 0 /\ body = "plain" /\ Ready > 0
    /\ taken' = taken + 1
    /\ Gives(Data(taken'))
    /\ Rest /\ UNCHANGED <<head, stream>>

ReadingChunked == Reading /\ head = 0 /\ body = "chunked"

HeaderByte ==
    /\ ReadingChunked /\ Settled.state = "Header" /\ Settled.header # 0
    /\ stream' = [Settled EXCEPT !.headerPos = @ + 1,
                                 !.state = IF Settled.headerPos + 1 = 3
                                           THEN "Body" ELSE "Header"]
    /\ Gives(Header(Settled.header)[Settled.headerPos + 1])
    /\ Rest /\ UNCHANGED <<taken, head>>

BodyByte ==
    /\ ReadingChunked /\ stream.state = "Body" /\ Ready > 0
    /\ taken' = taken + 1
    /\ stream' = IF stream.chunkRemaining = 1
                 THEN [stream EXCEPT !.chunkRemaining = 0, !.state = "Trailer", !.trailerPos = 0]
                 ELSE [stream EXCEPT !.chunkRemaining = @ - 1]
    /\ Gives(Data(taken'))
    /\ Rest /\ UNCHANGED head

\* Mutant of TrailerByte: what seemed the last chunk is taken for the last one.
BugTrustsLast ==
    /\ ReadingChunked /\ stream.state = "Trailer"
    /\ LET s == [stream EXCEPT !.trailerPos = @ + 1] IN
       stream' = IF s.trailerPos < 2 THEN s
                 ELSE IF s.currentChunkIsLast THEN [s EXCEPT !.state = "Final", !.finalPos = 0]
                 ELSE LET t == [s EXCEPT !.header = 0, !.state = "Header"] IN Prepared(t)
    /\ Gives(Trailer[stream.trailerPos + 1])
    /\ Rest /\ UNCHANGED <<taken, head>>

TrailerByte ==
    /\ ReadingChunked /\ stream.state = "Trailer"
    /\ LET s == [stream EXCEPT !.trailerPos = @ + 1] IN
       stream' = IF s.trailerPos < 2 THEN s
                 ELSE Prepared([s EXCEPT !.header = 0, !.state = "Header"])
    /\ Gives(Trailer[stream.trailerPos + 1])
    /\ Rest /\ UNCHANGED <<taken, head>>

FinalByte ==
    /\ ReadingChunked /\ Settled.state = "Final"
    /\ stream' = [Settled EXCEPT !.finalPos = @ + 1,
                                 !.state = IF Settled.finalPos + 1 = 5
                                           THEN "Done" ELSE "Final"]
    /\ Gives(FinalChunk[Settled.finalPos + 1])
    /\ Rest /\ UNCHANGED <<taken, head>>

\* read() returns what it has, if anything; the pipeline asks again, now or in its next call.
ReadsShort ==
    /\ Reading /\ head = 0
    /\ \/ body = "absent"
       \/ body = "plain" /\ Ready = 0
       \/ body = "chunked" /\ \/ Settled.state = "Header" /\ Settled.header = 0
                              \/ stream.state = "Body" /\ Ready = 0
                              \/ stream.state = "Done"
    /\ reader' = "ask" /\ want' = 0
    /\ Rest /\ UNCHANGED <<taken, head, stream, client>>

-----------------------------------------------------------------------------
Pipeline ==
    \/ Build \/ AskHead \/ AskPlain \/ AskChunked \/ AskLater \/ AskExhausted
    \/ HeadByte \/ PlainByte \/ HeaderByte \/ BodyByte \/ TrailerByte \/ FinalByte
    \/ ReadsShort

\* All is sent.
Over == reader = "over" /\ UNCHANGED vars

Next == Produces \/ Ends \/ Breaks \/ Pipeline \/ Over
Spec == Init /\ [][Next]_vars

\* The pipeline goes on asking; nothing is assumed of the source.
FairSpec == Spec /\ WF_vars(Pipeline)

-----------------------------------------------------------------------------
(* Properties *)

\* The headers tell the length of the body, if they tell one.
HeadersAreRight == built => chunked \/ announced = response.total

\* The receiver can read every byte it gets as the headers told it to, and gets the bytes
\* of the body in their order, whenever they come and however the reader's buffer cuts them.
ClientFollows == HeadersAreRight => client.at # "confused"

\* When the pipeline takes the response for sent, the receiver has all of it and knows it;
\* a body that broke off never looks complete.  (A response whose headers promise chunks
\* but which has no body is sent without any.)
CompleteWhenSent ==
    reader = "over" /\ HeadersAreRight /\ (body = "absent" => response.bodyless \/ ~chunked)
        => client.at = "end" /\ (response.bodyless \/ client.got = response.total)

\* A response whose body comes to its end is sent to its end.
IsSent == ~open ~> reader = "over"
=============================================================================
