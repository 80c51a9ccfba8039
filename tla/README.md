# LumaLink HTTP in TLA+

This directory holds a formal model of the HTTP server library in `src/src/lumalink/http`:
TLA+ modules translated from the C++ source, TLC configurations that check them on small
instances, and proofs, checked by TLAPS, that hold for every value of the constants.

## The system

The library is a single-threaded server for small devices. An application calls
`HttpServerBase::handleClient()` from its main loop, for ever. Everything else follows from that
call, so there are no threads to interleave. What does interleave with the code is the outside:
the peer sends, stops reading or disconnects, and the clock moves, between any two statements
that look at them. The second source of trouble is re-entry: the parser calls the handler, the
handler calls the application, the application calls back into a session, all inside one call.

| Component (under `src/src/lumalink/http`) | State it keeps | Operations | What makes it correct |
|---|---|---|---|
| Server loop, `server/HttpServerBase` | the vector of pipelines | accept up to `MAX_CONCURRENT_CONNECTIONS`, service and erase, begin, end | slots are exactly the live connections; none skipped while erasing; everyone gets a slot in the end |
| Connection pipeline, `pipeline/HttpPipeline`, `pipeline/HttpProtocolExecution` | connection state, execution, response stream or session, notification flags, two clock readings | `handleClient` (five state checks and four stages), abort, abortReadingRequest, abortWritingResponse | owned objects fit the state; the handler hears of each event once and in order; responses are not truncated; every connection ends |
| Request context and runner, `core/HttpContext*` | phase flags, pending result, the handler | adapter callbacks, handler steps, taking the result | every message gets a result; the first result wins; no step on a request that was cut short |
| Handlers, `handlers/`, `routing/HandlerProviderRegistry` | a body buffer, a response kept | `handleStep`, `handleBodyChunk` | whole bodies; being called again is harmless |
| WebSocket session, `websocket/WebSocketProtocolExecution`, `WebSocketContext` | close state, context state, one-frame write slot, parser state, message being assembled | `handle`, sendText, sendBinary, close, onError, onDisconnect | handshake first; ordered close; the application sees the true state and hears of the end |
| Frame codec, `websocket/WebSocketFrameCodec` | bytes of the frame being parsed, continuation flag | parse, serialize | any chunking of the bytes gives the same frames |
| WebSocket upgrade, `websocket/WebSocketUpgradeHandler` | none | validate headers, compute the accept key, make the session | the right handshakes are upgraded, and nothing else |
| Request parser, `pipeline/RequestParser` around `llhttp` | one fixed buffer with offsets into it, current event, header count | execute, callbacks, reset | limits enforced; offsets stay inside the buffer; events in order |
| Response and streams, `response/`, `streams/` | position in a chain of byte sources, a chunk being framed | available, read, peek | what is read is the whole response, however small the reader's buffer |
| Routing, `routing/` | providers, filters, interceptors | add, canHandle, createContextHandler | first match wins; filters and interceptors in the order they were added |
| Multipart forms, `handlers/MultipartFormDataHandler` | a window over the body, the part being read | `handleBodyChunk`, `handleStep` | parts get their own bytes, in order, wherever the body is cut |
| Static files, `staticfiles/` | none per request | locate, answer | a body is what its headers say; only urls of its own are answered |
| Variables in responses, `routing/ReplaceVariables` | a scanner over the body, output not yet read | wrap, available, read, peek | the text with its tokens replaced, under headers that still hold |
| Transcoding, `streams/`, `util/HttpUtility` | the rest of a group or an escape | read | every byte once, whatever a read asks for |
| llhttp, `src/llhttp` | state of the generated machine, framing flags, content length | execute, finish | a request ends where its sender means it to end |
| Values, builders, OpenAPI, `core/`, `util/`, `server/` | configuration | built once | |

How they interact. The server loop owns the pipelines and calls each once per pass; a final
result makes it erase the pipeline. A pipeline owns one execution per request, which owns a
parser and a handler (the adapter and its runner). The parser calls the handler for every part of
the message it recognises; the handler queues a result; the pipeline looks for it after each
buffer, and after taking it tells the parser that the input ends here. A response is then pulled
from its stream and the handler is notified when it starts and when it is completed. An upgrade
replaces request and response by a session, which the pipeline drives through the same interface
(`IProtocolExecution`) until it completes, aborts or fails.

The hard behaviours: state checked, then changed from outside, then used; notifications that must
come once although five checks look for their cause; results queued at one moment and looked for
at another; writes that are cut short, fatal in one protocol and resumed in the other; callbacks
that change the state of the function that makes them; three timeouts, each reset by something
else; erasing from a vector during a walk over it.

## The modules

| Module | Models | Runs |
|---|---|---|
| `HttpPipeline` | `HttpPipeline.cpp` with `HttpProtocolExecution.cpp`, one connection | `HttpPipeline.cfg`, `HttpPipelineActivity.cfg`, `HttpPipelineKeepAlive.cfg` |
| `ConnectionLifecycle` | what a connection promises to whoever owns it (abstract) | as a property of `HttpPipeline`, as a part of `HttpServer` |
| `HttpServer` | `HttpServerBase.cpp`, over connections that follow `ConnectionLifecycle` | `Server.cfg` |
| `WebSocketSession` | `WebSocketProtocolExecution.cpp`, `WebSocketContext.cpp`, one session | `Server.cfg`, `WebSocketPing.cfg` |
| `MCServer` | puts `HttpServer` and `WebSocketSession` side by side | `Server.cfg` |
| `HttpMessages`, `MCLLHttp` | requests as clients send them, and what RFC 9112 says they mean; the ones that are tried | with `LLHttp` |
| `LLHttp` | `llhttp.c` and `http.c`: where a request and its body end | `RequestParser.cfg` |
| `ParserCallbacks` | the order of llhttp's callbacks, which `RequestParser` and `LLHttp` are both held to | in proofs |
| `RequestParser`, `MCRequestParser` | `RequestParser.cpp` with the loop of `HttpProtocolExecution.cpp` around it, one connection's input | `RequestParser.cfg`, `RequestParserField.cfg` |
| `FrameFormat`, `FrameCodec`, `MCFrameCodec` | `WebSocketFrameCodec.cpp`: frames as bytes and the serializer; the parser; the frames that are tried | `RequestParser.cfg`, `FrameLengths.cfg` |
| `Multipart` | `MultipartFormDataHandler.h`, one body | `RequestParser.cfg` |
| `MCParsers` | puts the four that take input apart side by side | `RequestParser.cfg` |
| `RequestHandling` | `HttpContext.cpp`, `HttpContextPipelineAdapter.cpp`, the registry's handlers, one request | `RequestHandling.cfg`, `RequestHandlingAgain.cfg` |
| `Routing`, `MCRouting` | `HandlerProviderRegistry`, `ProviderRegistryBuilder`, `HandlerBuilder`, `BasicAuthentication`, the handshake check of `WebSocketUpgradeHandler.cpp` | `RequestHandling.cfg`, `RoutingUpgrades.cfg` |
| `HandlerMatcher` | `HandlerMatcher.cpp`: paths and patterns, route parameters | `RequestHandling.cfg` |
| `StaticFiles` | `staticfiles/`: which file answers a request, and as what | `RequestHandling.cfg` |
| `MCRequest` | puts `RequestHandling`, `Routing`, `HandlerMatcher` and `StaticFiles` side by side, the matcher being the one that `Routing` uses | `RequestHandling.cfg` |
| `ResponseStream` | `HttpResponseIterators.cpp` and `ChunkedHttpResponseBodyStream.cpp`, read by the write loop of `HttpPipeline.cpp`, one response | `ResponseStream.cfg` |
| `ReplaceVariables` | `ReplaceVariables.cpp`: the filter and its byte source | `ResponseStream.cfg` |
| `Transcoding` | `Base64Stream.cpp`, `UriStream.cpp`, forms and query strings of `HttpUtility.cpp` | `ResponseStream.cfg` |
| `MCResponse` | puts the three that give output side by side | `ResponseStream.cfg` |
| `...Proofs` | theorems about `HttpPipeline`, `HttpServer`, `WebSocketSession`, `RequestParser`, `ResponseStream`; in `FramingProofs` about `FrameCodec` and `Multipart`, in `RequestProofs` about `RequestHandling`, `Routing`, `StaticFiles` and `HandlerMatcher`, in `ResponseStreamProofs` about `ReplaceVariables` and `Transcoding` as well | |
| `DataLemmas` | lemmas about numbers, sequences and folds that several of these need | |

`MCServer`, `MCParsers`, `MCRequest` and `MCResponse` are no compositions: a behaviour is one of one component,
which the variable `component` names, while the variables of the others keep their first value (in `MCServer`, a session that was dropped before it began). They
let one run ask the same question of several components that do not touch each other's state.

A definition whose name starts with `Bug` is not part of the model. It is a variant of the
definition that follows it, with a mistake someone could make in that code; each checked property
is violated when one of these takes the place of the original, which shows that the property
depends on the code.

### HttpPipeline

One variable per member of the class that the control depends on, under the same name where there
is one (`connectionState_` is `state`, `responseStream_` is `stream`, a count of the chunks it
still holds). `pc` says where `handleClient` stands. A call is split at every look at the client
or the clock: entry (`HandleClient`), the state checks (`CheckTotalTimeout`, `CheckTerminal`,
`CheckDisconnect`, `CheckPasses`, run five times in a call), the read loop buffer by buffer
(`BeginRead`, `ReadBuffer`, `ReadRejected`, `ReadDrained`), the taking of the result (`Take...`,
`NoResultYet`), the write loop chunk by chunk (`BeginWrite`, `WriteChunk`, `WriteShort`,
`ActivityCheck`, `WriteStalls`, `ResponseSent`), the next request (`NextRequest`, `LastRequest`),
a turn of the session (`Session...`) and the idle timeout (`IdleCheck`). The peer and the clock
(`ClientSends`, `ClientDisconnects`, `Tick`) act between any two of them. Calls from outside
(`Abort`, `AbortReadingRequest`, `AbortWriting...`, `ServerEnds`) come between two calls of
`handleClient`.

The handler is the result it queues: any result, at any callback, when none is queued, and one at
the latest when the message is complete. `RequestHandling` shows this of the library's own
handlers (`EveryMessageIsAnswered`, `FirstResultWins`).

`ConnectionLifecycle` is the view from outside: a connection reads, writes or is upgraded, ends in
one of a few ways, its end is told at most once, and it is removed with the verdict that its end
explains. `ImplementsLifecycle` says that `HttpPipeline` implements it under the mapping `Phase`.

### HttpServer

`slots` is `pipelines_`, `i` the index of the service loop, `backlog` the connections `accept()`
has not returned yet. A connection takes the steps of `ConnectionLifecycle` while it is in
service, so this module stands on what the pipeline is shown to implement. `due` and `served`
record what a pass started with and serviced.

### RequestHandling

Every callback of the adapter puts the calls the runner will make on its handler on an `agenda`
(`onBody` of the first piece: a step, the piece, a step), which is worked off before the parser or
the pipeline acts. Each kind of handler has its actions: the default filter of `HttpHandler`
(`StepGet`), a filter that lets everything pass (`StepFiltered`), the prebuilt 404
(`StepDefault`), the buffering base (`StepBuffered`, `ChunkBuffered`, `ChunkHandsOver`) and the
raw-body handler (`StepRaw...`, `ChunkRaw`). Handlers compare the phase flags as numbers
(`ReadingIsDone`). The pipeline takes a result at any moment between callbacks, which covers every
way the bytes can be cut into buffers.

### RequestParser

Seen from here `llhttp` is external (`LLHttp` models it on its own). Its grammar is `at`, the kind of token it expects next, and its promises are
those the compiled library keeps: a token comes in pieces cut anywhere, a completion callback
follows the last piece (`due`), an empty header value comes as a piece of no byte, the next message
is parsed in the same call, an upgrade pauses it, and bytes after the last message are an error.
Fields may also come behind the last chunk of a body (`trailing`), for which llhttp has no callback of its own, and
a request of HTTP/0.9 has no version. `ParserCallbacks` has the order of the callbacks in one table.
Every callback of `RequestParser` is an action: the appending ones are `Keep` and `Overflow`, by kind
of token, the completion callbacks `MethodComplete`, `UrlComplete`, `VersionComplete`,
`FieldComplete`, and `ValueEmpty`, `ValueComplete`, `TooManyHeaders`; the rest bear the callback's
name. `execute` ends as `ExecuteReturns`, `ExecutePauses` or `ExecuteFails`, and with no input it is
`MarkRead`. `caller` is the position in `HttpProtocolExecution::handle`.

A byte in the buffer is the number of the token it belongs to, so a view (`View`) shows which tokens
it really covers. `whole` keeps what the client sent of each kind. The module shows what the code
does in three places that no document speaks of: `onMessageBegin` comes before the version is read
and always says 1.1 (`UrlComplete`); the method, URL and headers share one buffer, so a request
within every single limit may be rejected (`Overflow`); a second message in the buffer is parsed
into the positions of the first and goes to the first one's handler (`MessageBegin` after
`MessageComplete`).

### ResponseStream

`Build` is `buildSource` with `EnsureRequiredHeaders`: it decides from the headers the application
set and from what the body's source has at that moment whether the length is announced or the body
is chunked. `stream` holds the members of `ChunkedHttpResponseBodyStream`, `header_` as the size it
promises. `available`, `peek` and `read` begin alike (`Settled`, `prepareHeader`), so a peek needs
no action: it is an `Ask...` whose answer nobody acts on. Reading is byte by byte, an action per
state (`HeaderByte`, `BodyByte`, `TrailerByte`, `FinalByte`); the pipeline asks how much there is
(`Ask...`), reads up to its buffer, and stops short where there is nothing (`ReadsShort`).

The source of the body is the application's and acts at any time: it has more (`Produces`), has
ended (`Ends`), or has nothing and will not say so (`Breaks`). It keeps a `Content-Length` that the
application set. `client` is the receiver, who reads each byte the way the headers and the bytes
before it tell it to; it is `confused` by one it does not expect. A byte is its kind and, in the
body, its number; the digits of a chunk size are one byte. Start line and headers are `HeadSize`
bytes; how many bytes `ConcatByteSource`, which is external, reports of them is left open.

When a source has some bytes and more to come, `EnsureRequiredHeaders` announces the bytes it has
as the length of the whole, and the response is sent longer than announced. `HeadersAreRight`
excludes this case; no document says which sources a body may have.

### WebSocketSession

`pc` is the position in `handle()` or the callback the application is in; `pending` is the one
frame in `pendingWrite_`. The application may send or close from any callback (from elsewhere it
may not, `LIBRARY_DOCUMENTATION.md` says). The peer's frames are chosen when they are parsed,
within what the parser's `expectingContinuation_` allows. A parser that has rejected a frame for
a protocol violation repeats the error (`stuck`).

The peer may send for ever: a buffer that is read makes room for another. `SessionEnds` therefore has two cases.
A session ends, or its peer goes on sending without end while one call of `handle()` reads in the open session, for the
read loop looks at no clock until a Close or an error leaves it. Every other peer, one that is
silent, slow, or sends a finite number of bytes, does not keep a session from ending.

A session completes when the peer's Close is in and its own output is out. Its own Close need not be among that output: when
another frame is still in the slot, the Close is refused and the result is not looked at.

### LLHttp

A variable `state` holds the state of the generated machine, and an action is what the machine does
in it with the byte at hand; a `goto` without `p++` leaves the byte to the next action. The
callbacks in `http.c` (`Upgrades`, `AfterHeaders`, `ShouldKeepAlive`) are
operators on the flags. A symbol is a byte, or a word that the machine matches as one; `x` is any
other letter. `HttpMessages` says what a request means without looking at the machine: which
requests are faulty, how long they are, whether the connection stays open, whether they ask for
another protocol. Where RFC 9112 leaves something open, it has the word of llhttp's comments.

The model shows what a reader of the code may want to know. A request for an upgrade, or `CONNECT`,
with a transfer coding that is not `chunked` is let through, although a comment in `http.c` says that
a server must answer 400. An empty `Transfer-Encoding` counts as none. A URL that ends its line is
an HTTP/0.9 request, for which no version callback comes. `CONNECT` may have an empty target, and
then `RequestParser` never calls `onMessageBegin`. The trailers of a chunked body are reported as
headers, after the body.

### FrameCodec

One step is what one byte makes of the parser; `FrameEnds` hands over a frame, which may need no
byte. `left` says how many bytes the input still has, and inputs end anywhere. A byte is what the
parser takes out of it: flags and opcode, mask bit and length, a digit of a length, a byte of the
key, a byte of payload under a byte of the key, so that a payload byte is right only if the right
byte of the key was applied to it. The reference is the sender's list of frames, and `Faults`, what RFC 6455 forbids
of each. A sender may write any length in any form, also one with the first bit set.

The parser does not keep which form a length has: it takes eight bytes for two when the third to the sixth are
zero (`WebSocketFrameCodec.cpp:169`). So its check for a length that two bytes could hold (`:176`) is made only where it cannot fail, and
a frame whose length of 126 to 65535 is written in eight bytes is returned like any other; a first bit that is set is
missed under the same zeros. `LengthsAreRight` says what the check means, and is violated;
`FramesAreWhole` asks of the length of a returned frame only that the basic header could not have held it.

### Multipart

`window` is `buffer_`; `Processed` is one look at it, in a piece (`BodyChunk`) or at the end
(`EndOfMessage`). A unit of a body is its place in its part: the headers of a part are `head` units, the first of which tells
the name, and an empty line. A piece that does not fit is cut to the room that
is left, and one boundary is looked for in each piece, so small parts in one large piece are lost. A piece for which
there is no room at all does what the end of the message does (`NoMore`): the application is told that the form is complete in
the middle of its body, again in every step until it answers, which is recorded once. So `CompletedMeansAll`,
which a comment in the handler suggests, does not hold, and `PartsAreGenuine` speaks of what is told as long as nothing was dropped.
The boundary is taken to come with its leading hyphens, as the repository's tests pass it.

### Routing

`routes` is `factories_`; registrations come in any order, then requests. `Claims` is the set of
routes that can handle a request, the least of which answers. A handler's answer is a pair, to a
first and to a second call, since interceptors may try the next step twice (`CurryAround`,
`Around`): the second call of a route's handler finds the parameters moved away (`"Bare"`), the
second call of the default handler finds no response. `UpgradeFailure` is the handler's check in its
order; `RightHandshake` says apart from it what RFC 6455 (4.2.1) asks of method, `Connection`, `Upgrade`, version and key,
with one difference: the code wants `Upgrade` to name `websocket` and nothing else, where the RFC lets other protocols stand beside it.
`Host` and the version of HTTP are asked by no code here, and of a repeated header the last one counts (`HttpContext.h:70`). A
request is a candidate by `Sec-WebSocket-Protocol` alone, too (`IsCandidate`). `spent` are the websocket routes whose factory has given
its callbacks away.

Things that show here and that no document speaks of: the move constructor of `HandlerBuilder`
leaves the response filter behind; `ProviderRegistryBuilder::on` for a handler type restricts
a copy of the matcher, so the restriction is not applied; static files are added at position 0, in
front of the websocket routes, and claim every url that their locator is for once the page for what is not found is there.
So routes have an order in three parts only where nothing is placed elsewhere: `RoutePriority` says that websocket routes come before
ordinary ones, ordinary ones in the order of registration, and a route added at the beginning before all that were there;
a route at another position has no promise of its own.

### HandlerMatcher

`MatchPathSegments` follows the code: segment by segment (`Attempt`), with the loop that returns to the last `*` of
a segment (`GlobMatches`, a `Round` at a time) and the search for the end of a `**` (`GlobStar`). Both are recursive functions,
of the place in segment and pattern and of the arguments of `matchPathSegments` (`Attempts`). `Means` is the reference: there is a way to cut the
path up along the pattern. The second match, which sets the parameters, is that of `Parameters`. What texts are made of is a
constant, `Characters`; the digits of the keys are among them, and nothing else is assumed.

### StaticFiles

The server answers a request in one go, so the module is a function of the setup (`site`), the disk and the request:
`Locate` (the locators in their order, directories, packed variants), `Resolved` (restrictions and the
page for what is not found), `FileAnswer` (status, body, coding, type). A site is what `StaticFilesBuilder` makes: a `DefaultFileLocator` by itself, or
an aggregate that the application gives it. The difference shows. Both ask in `canHandle` whether a url is theirs, but in
`getFile` only the aggregate asks again (`Locate`): so a locator by itself, with the prefix `/static` and the default page `/404.html`,
finds the page outside its prefix, and an aggregate of the same locator does not. A prefix is a beginning of the text, not of the
segments (`Under`): the exclude prefix `/api`, which `setRequestPathPrefixes` of the builder has by default, takes `/apidocs`, too (`Begins`). `getFile` asks only of the first name it looks
for whether it is a directory, so a directory that is named like a packed form or an index is taken for a file;
the property says that a body is no directory on a disk where none is named so (`DirectoriesAreNamedApart`).

### ReplaceVariables

The scanner is one operator per state of `parserState_`; `Fillings` are the states that `fillOutput` can
stop in, having fed it blocks of any size byte by byte (`Scanned`). The reader asks, peeks and reads in any order, and the
body may have nothing for now. `Substitution` is the reference, which looks at the whole text at once: what becomes of
the text from each place on, by recursion from its end.

### Transcoding

The streams read groups of three or four bytes, or an escape, and keep what a read did not take.
`StepOf` is one turn of a stream, `ReadSingleByte` the turns up to a byte, and `Taken` a read of several bytes,
which stops where one is negative. `Base64`, `PercentEncoding` are the references; a form is built and read back.
`Base64`, `QueryParameters` and `Taken` are recursive functions. Without padding the
encoder loses a character of each group of two or three bytes, and a byte of 128 or more ends a
read of `UriDecodingStream`; both are left out of the inputs (`SourcesAssumption`), and `available()`, which counts padding as
bytes, is not part of the model.

## What the runs check and show

| Run | Configuration | Shows |
|---|---|---|
| `pipeline` | `HttpPipeline.cfg` | `Ownership` (execution, stream and session are there exactly when the state's code uses them without asking), `OneResultPerRequest`, `ResponseNotifications`, `DisconnectIsTold`, `TimeoutTellsAndStops`, `ResponseNotTruncated`, the refinement `ImplementsLifecycle`; `Terminates` for a peer whose bytes come to an end. All hold |
| `pipeline_activity` | `HttpPipelineActivity.cfg` | the activity clock is reset by session turns that move no byte |
| `pipeline_keep_alive` | `HttpPipelineKeepAlive.cfg` | the total time is counted from the start of the connection, not of the request |
| `server` | `Server.cfg` | of the server's loop `SlotsHoldTheLive` and `EveryoneOncePerPass`, with erasures anywhere in the walk, and `EveryoneIsAccepted`; of a session `ContextAgrees`, `MessagesInSession`, `EndIsNotified`, `NoDataAfterClose`, `CompletionIsMutual`, and `SessionEnds` for a peer that may send for ever. All hold |
| `websocket_ping` | `WebSocketPing.cfg` | a pong is lost when a frame is pending. The Close that rejects a message is lost in the same way |
| `request` | `RequestHandling.cfg` | of a request's handler `EveryMessageIsAnswered`, `FirstResultWins`, `BodyIsWhole`, `CutRequestIsSilent`; of the choice of it `RoutePriority`, `GuardsHold`, `MatchIsExact`; of files `BodyIsWhatItSays`, `OnlyItsOwnUrls`. All hold |
| `request_again` | `RequestHandlingAgain.cfg` | a raw-body (or multipart) handler that has given its response at the end of the message is stepped again when the response starts, returns a result whose response was moved out, and the runner builds a stream from a null pointer |
| `routing_upgrades` | `RoutingUpgrades.cfg` | the factory of a websocket route moves its callbacks into the first handler it makes; the sessions of later handshakes have none |
| `parser` | `RequestParser.cfg` | `RequestParser`: `InBounds`, `HandlerIsGivenTheTokens`, `ErrorIsTheLastWord`, `CutRequestIsReported`, for every cut of the input. llhttp: `RequestsAreFramed`, `GoodRequestsAreTaken`. Frames: `FramesAreWhole`, of which `ErrorsAreDeserved` is a part. Forms: `PartsAreGenuine`. All hold |
| `frame_lengths` | `FrameLengths.cfg` | a frame whose length is in eight bytes though two could hold it is returned: the check for it is dead |
| `parser_field` | `RequestParserField.cfg` | the field of a header without a value is run together with the next field: `X-Empty:` followed by `Host: a` is handed over as `X-EmptyHost` |
| `response` | `ResponseStream.cfg` | `ClientFollows`, `CompleteWhenSent` and `ResponseIsSent`, for every way the body arrives; `TextIsSubstituted`, `HeadersFitTheBody`, `StreamsAreExact`. All hold |

`ToldOnce`, `TerminalIsFinal`, `HandshakeFirst` and the modules' `TypeOK` are proved and not run.

The runs that end in a violation are disagreements between the code and a document, comment or check
beside it; `PROJECT.json` quotes both.

### Bounds

`MaxUnread`, `MaxSend`, `MaxChunks`, `MaxFrames`, `MaxBody` bound the environment and nothing else. Of these `MaxSend`,
in `HttpPipeline` only, bounds a whole behaviour, and `Terminates` rests on it; the others bound what there is at one moment.
Two buffers let a request be cut, completed, and followed by the next one on the same connection;
one chunk tells a stream that is full, stalled and exhausted apart. The timeouts of `HttpPipeline` are
distinct (3, 2, 1), so each can pass before the others; clocks saturate one above the largest
limit, where no comparison changes any more. Two whole frames in a buffer let a frame be lost
behind another. Capacity 2 with bodies up to 3 covers a body below, at and above the capacity, in
every cutting. Three connections with two slots let the first and the last slot be erased, and
the two in one pass, while another client waits. Pieces of two bytes with limits of two (three for
the URL) and a buffer of nine let a token meet its limit, exceed it, or fit while the buffer has
no room left; two headers reach the header limit, and a second message follows in the same buffer.
Requests to `LLHttp` vary every part on its own, right and wrong, and combine the headers that concern
the framing by twos and threes, with the first word of another request behind the body; a length may be below 20.
Frames have payloads of up to six bytes with `Short = 2` and `Radix = 2`, which reach all three forms of
a length and the second turn of the key, and lengths of 128 and 132, of which the first of eight digits is set; every script of three frames tries the fragments. Parts of
none to eight bytes with a window of 14 and pieces of up to nine put a delimiter anywhere in a window, and overrun it.
Three registrations make every pair of routes with a filter or interceptor between them; requests are right handshakes, the
same with any one thing wrong, and plain ones. Setups of static files (`SomeSites`) are two locators by themselves and an aggregate of two, with prefixes that end with a
segment and within one, with and without a page. Two requests in `RoutingUpgrades.cfg` let a route be used again. Paths of up to five segments and patterns of three let two `**` share out a path, and one
segment has up to four characters for several `*`. The delimiters of `ReplaceVariables` begin alike,
overlap the text and themselves; bodies of six letters in blocks of three cut a token twice.
Transcoded data of up to five bytes, read by up to three at a time (`MaxTake`), ends at every place of a group.
Chunks of two bytes, a buffer of three and bodies up to five cover a body that is empty, smaller than
a chunk, one or two chunks exactly and longer, with the buffer ending everywhere in the framing.
History counters saturate at 2, since the properties ask for "at most once".

### Fairness

The application calls `handleClient` for ever and each call runs on: weak fairness of the steps of
the code (`Service`, `Session`, `Loop`), which one thread in a loop justifies. Time passes: weak fairness
of `Tick` and `Expires`. Nothing is assumed of the peer, nor that a stream that stalls goes on: it may
send for ever, which `HttpPipeline` alone excludes (below) and `SessionEnds` names.
`ResponseStream` has weak fairness of the pipeline's steps and none of the source.
`HttpServer` uses strong fairness of `Erase(c)` (`ServerFairness`; `MCSpec` of `MCServer` says the same of its behaviours): a connection that is serviced again and again
ends. That is what `Terminates` says of `HttpPipeline`, under its assumption that the
peer's bytes end. The assumption is needed: the read loop of `HttpProtocolExecution::handle` looks at no
clock, so a peer whose bytes never run out keeps it past the total time. The behaviours of the other components end, and their runs allow it.

## What is proved

The theorems hold for all values of the constants, of which numbers are assumed to be
natural and nothing else; `PROJECT.json` lists them with the properties of the runs that they state. Each rests on
an inductive invariant, which TLC checked before where it can be evaluated. What the data is assumed to be is said
where it matters: of the frames, forms and transcoded bytes.

`HttpPipelineProofs`, for all timeouts and bounds of the environment, everything `HttpPipeline.cfg`
checks but liveness:

- `TypeInvariant`: `TypeOK`, in two parts (`FlagsStep`, `ValuesStep`) because Boolean flags and
  arithmetic suit different provers.
- `Invariant`: the inductive invariant `Inv`. `Ownership` alone is not inductive. `Inv` adds that
  each stage (`pc`) runs in its own connection state, that a live connection has told nobody of its
  end and has not timed out, and that `calls` is what the state implies: nothing
  taken while reading, started and completed in step with `responseStartedNotified_`. From it follow
  `OwnershipHolds`, `ResultsAreTakenOnce`, `NotificationsAreInOrder`, `EndIsToldOnce`,
  `DisconnectsAreTold`.
- `TimeoutsAreTold`, `TerminalStaysTerminal`, `NoTruncation`: action properties, by the actions that
  can change the variables they speak of.
- `PipelineImplementsLifecycle`: initial states map to initial states (`LifecycleInit`), and every
  step to a step of `ConnectionLifecycle` or a stutter (`LifecycleChecks`, `LifecycleApi`,
  `LifecycleService`).

`HttpServerProofs`, for any set of connections and any limit: `TypeInvariant`, `SlotsAreTheLive` and
`EveryoneIsServiced`. `Places` says that vector and listen queue hold who has a pipeline and who waits,
each once; `Passing`, that in the middle of a pass whoever was there at its start stands at the index
or behind it unserviced, or has been serviced once. The work is in three lemmas about sequences
without repetition (`Removing`, `Appending`, `TakingHead`): what an erasure at the index leaves behind it.

`WebSocketProofs`, for all bounds: `TypeInvariant`, and from one invariant `HandshakeComesFirst`, `ApplicationSeesTheState`,
`MessagesComeInSession`, `EndsAreNotified`, `CloseIsLast`, `ClosingIsMutual`. No one of these is inductive:
that onClose comes once needs where a session may end (`ClosedAtEnd`), that no data follows a Close
needs that a pending Close is that of a closing session (`ClosingOnly`), and before the handshake is out only
few places are reachable (`BeforeHandshake`).

`RequestParserProofs`, for every buffer length, every limit, every size of piece and number of messages:

- `BufferIsSafe`: `InBounds`, inductive together with the types of the store (`Stored`). A piece starts
  at the end of what is written unless its token has begun (`PieceIsSafe`), is kept only if it fits
  (`KeepIsSafe`), a handed-over header gives back its lengths (`HeaderIsSafe`), and a reset clears
  content and lengths at once (`ResetIsSafe`).
- `ErrorIsLast`: `ErrorIsTheLastWord`. The invariant `ErrorInv` says that once an error was
  reported, the last event is the error and the parser is on its way out or done. Without it, the
  check `currentEvent_ != Error` in `execute` would not tell that an error was reported before.
- `CutIsReported`: `CutRequestIsReported`. `CutInv` adds that a parser whose place is the error has
  reported it or is just returning from `llhttp_execute` with it.
- `TypeInvariant`: `TypeOK`, from the invariants above and from that a view of a token is a text
  (`ViewIsText`), for which the bounds of the store are needed.

- `TokensAreGiven`: `HandlerIsGivenTheTokens`. The invariant `TokensInv` says, for the token that is
  being read and the ones before it, that what is kept of a token is what has been seen of it
  (`InMethod`, ..., `InValue`): the view of a kind in the buffer is the client's token, or as much of it as
  has come, and a field may have the fields without a value before it in front. It speaks of the first message
  only, as the property does; no step of that message resets the buffer before it is complete (`InsideNext`).

The same module has the two sides of the seam to llhttp, each held to the table `Order` of `ParserCallbacks`, and what
can be proved of llhttp's framing. No run checks these properties; they are proved for all constants.

- `OrderIsExpected`: `CallsAreExpected`. The parser moves from one token to the next as the table says, or to
  the error; `TrailingInv` says where fields may be those of the trailers.
- `LLHttpCallsInOrder`: `CallsInOrder` of `LLHttp`, for all bytes. `Awaits` says what is expected in each of the machine's
  states; a step tells nothing and leaves that alone, or tells the callback that the table has for it, or is
  an error. Headers that end a message without a body are two calls in one step. `TrailersInv` keeps the flag of the
  trailers out of the request line, `ToldInv` says that the history is a record.
- `FramedOnce`: `OneFraming` of `LLHttp`, for all bytes: never a length and a transfer coding, chunks only if `chunked` was
  announced, a body by its length only if there is one, and no length beyond what holds it. The flags are not inductive: what
  is announced by a header is in `header_state` and in the state until its value ends, so `HeaderInv` says which
  of them can be on their way with which flags already set. `LengthFits` is the check against overflow.

`RequestProofs`, for any capacity and body: `TypeInvariant`, `MessagesAreAnswered`,
`TheFirstResultWins`, `CutRequestsAreSilent`, `BodiesAreWhole`. `Course` ties the agenda to where the parser and the
pipeline are, `Unanswered` says that a request without a result was not answered or has been read
whole; `Buffering` says that a buffer holds what its handler was given, which is what has arrived but for
a piece that is still on the agenda. The same module has what is proved of the choice of the handler, for every order of
registration, every position, filter and matcher:

- `RoutesHavePriority`: `RoutePriority`, which says which routes an answer had before it: no websocket route and no earlier
  ordinary one before an ordinary one, and before no route one that was added at the beginning after it. `CountIsAPlace` says that the count of websocket routes is a position before every
  ordinary route, also when routes were placed between, and `InOrder` that registration keeps the order.
- `GuardsAreKept`: `GuardsHold`. What a chain of interceptors makes of an answer is a fold over their
  sequence, so the proof is an induction along it (`ThroughStays`): a set of pairs of answers that each interceptor keeps
  is kept by all of them. It is applied to the answers that may pass for a given request and route
  (`Within`), to the marks a response bears when it leaves (`MarkedStays`), and to what is no upgrade. That the code's
  check finds nothing wrong with the right handshakes and with no others is `RightIsWithoutFailure`, by the parts of a request. `GuardsInv` adds to the
  property where routes stand and that only ordinary routes have guards of their own. `RequestsAssumption` says what a request is.

and of static files, for every disk, list of locators, target and rules (`DisksAssumption`: a file without a name has no suffix):

- `BodiesAreWhatTheySay`: `BodyIsWhatItSays`. A request changes nothing, so the work is in the search, not in an
  invariant: what a locator finds is a form of what it seeks (`GetIs`), an aggregate finds nothing only if no locator for the url
  does, and a locator by itself only if its file is not there (`LocateIs`), and what is sought is the file asked for or the index of a directory (`SoughtIsNamed`).
- `OnlyOwnUrls`: `OnlyItsOwnUrls`. What is answered is where `IsThere` says a form of the file or of the page is. Two urls that differ in the slashes at their ends are sought by the same locators in the
  same places.

and of the matcher, for every path and pattern over any characters:

- `MatchesAreExact`: `MatchIsExact`. A call changes nothing, so the work is in two recursions, that go down and therefore are
  defined (`LoopExists`, `SearchExists`). A way to cut up what is left is a `Chain`, one piece in front of another chain
  (`ChainStep`). `GlobIsExact` is about the loop over a segment: once a `*` has been passed, its text may begin nowhere else but where the loop is
  or further on (`Consistent`), because between two `*` the first place that fits is as good as any other; so giving up the earlier
  `*` loses no way. `SearchTells` is about the search, by induction from the last segment of the pattern to the first
  (`AttemptTold`): what is found from a place on is found if and only if the rest of the path can be cut up from there (`Leads`) and no
  key that is left is taken (`Fresh`), and what it adds to the parameters is the texts of one such cut (`Caught`). From one cut follow the keys and that
  the texts put back give the path (`TextIs`, `PiecesMakeIt`).

`ResponseStreamProofs`, for every chunk size, buffer, length of the headers and body:

- `ResponseCanBeRead`: `ClientFollows`, and `SentIsComplete`: `CompleteWhenSent`. The invariant `Inv`
  says that stream and receiver are in step: `InStep(s, c)` gives for each position of the stream the
  place where the receiver must be, and how many bytes of the chunk it still expects. Neither property
  is inductive without it, nor without what `Build` decided (`Decided`). A step that reads a byte
  moves both (`HeaderByteStep`, `BodyByteStep`, `TrailerByteStep`, `FinalByteStep`), `prepareHeader`
  moves the stream alone between two positions that mean the same (`PreparedInStep`), and the source
  acting in between changes neither (`SourceStep`).
- `TypeInvariant`: `TypeOK`, which says also that no string of the framing is read past its end and no
  chunk is larger than allowed (`StreamBounds`), and that a receiver in the middle of data expects
  some (`ClientBounds`). Both need `Inv`.

The same module has the filter that replaces variables, for every text, delimiters, limit of a token, values and block:

- `TokensAreReplaced`: `TextIsSubstituted`. `FilterInv` (`DealtWith`) says that there is a place `a` in the text such that what has been given
  and what is in `output_` are what the reference has for the text up to `a`, whatever comes later (`Emits`), and that the
  scanner holds back exactly the bytes from `a` on (`Follows`): the beginning of a prefix (`InLiteral`), or a prefix, a token
  and the beginning of a suffix, no suffix having been passed over (`InToken`). `ByteStep` is the heart of it: each byte moves `a` to a
  place where the reference goes on, or leaves it (`LiteralStep`, `ContinueStep`, `AbortStep`, `CloseStep`). How many bytes are
  fed at once (`ScannedIs`) and which of them the reader takes (`GivenDealtWith`) does not matter. The condition that
  no suffix overlaps itself is used in one place, `NoneEarlierKept`: the scanner gives up what it has matched of a suffix
  when the match fails, and no other match may have begun in it. Without the condition the second
  half of the property holds, by the same invariant: where nothing is to be replaced, nothing is changed (`NothingKnown`).
- The reference is a recursion from the end of the text. That it exists is `BackwardRecursion`; of it the proof uses the
  rules `LiteralRule`, `CloseRule`, `AbortRule` and `RestRule`, one for each thing that can stand at a place of a text.
- `HeadersStayTrue`: `HeadersFitTheBody`, from the same invariant: a wrapped response has no length any more, and one that
  is not wrapped is given as it is read (`Passing`).

And it has the streams that encode and decode, for all data, however long, and every number of bytes asked for:

- `StreamsGiveAll`: `StreamsAreExact`. The invariant `TranscodingInv` says (`Flowing`) that there is a `rest` such that
  what was delivered and `rest` are together what is expected, and that the stream, from its buffer, its state and
  the bytes it has left, still gives `rest` (`Giving`, a form of its own for each kind: `EncoderGives`, `DecoderGives`,
  `EscaperGives`, `UnescaperGives`). The property alone is not inductive: it does not say that a group that was cut
  is still there. A turn of a stream takes the first byte of `rest` or leaves it (`EncoderSteps`, `DecoderSteps`, `EscaperSteps`,
  `UnescaperSteps`), a byte takes at most three turns (`ReadGives`), a read is an induction on its bytes (`TakenGives`).
- The bits are lemmas about division: three bytes are the number of four sextets and give it back (`SextetsAre`,
  `OctetsOfSextets`, `BlockOfThree`, and `BlockOfTwo`, `BlockOfOne` for the groups with padding). An escape gives its byte back
  because a codebook tells for each byte how its code begins (`AsciiCodebook`, `FormCodebook`).
- A form comes back by induction on its pairs (`FormComesBack`): neither `&` nor `=` is in a component that was encoded
  (`PlainLacks`), so the first of them is the one that `buildFormBody` put there (`FirstPlace`). The exception of the property is
  used for the last pair only (`LastComesBack`): an empty one leaves no trace behind the `&` before it.
- Assumed is what `SourcesAssumption` says: the data are bytes, below 128 where percent encoding is decoded.

`FramingProofs`, for frames of every length, any number of them and any base of the digits: `FramesComeWhole`
(`FramesAreWhole`). The invariant `CodecInv` says where in the bytes of which frame the parser is: the stage, with what it has gathered,
gives the number of the bytes of the current frame that it has read (`InBasicHeader`, `InLength`, `InKey`, `InPayload`),
and what it has gathered is what these bytes say. It rests on three facts about data: the digits of a length
give the length back (`DigitsGiveBack`), so a length that the parser lets pass is longer than the basic header holds (`Passes`), and one that
it refuses is wrong by the protocol (`MalformedIs`); the bytes on the wire are those of the frames, one behind the other (`WireIs`); whether a message is open
depends on the frame before (`WithinStep`). Assumed is that a length byte has more than one value and that the short
lengths fit two digits (`SizesAssumption`), and that a sender writes a length in digits that hold it (`ScriptsAssumption`).

The same module has the forms, for every form, size of the buffer and cutting of the body (`FormsAssumption` says what a form is and
nothing else): `FormsAreReadRight` (`PartsAreGenuine`). The invariant `FormTold` says, as long as nothing was dropped, where in
the body the window begins (`Somewhere`): in the data of a part of whose units the first d are gone (`InData`), or before a
part, behind what is left of the delimiter before it (`InHeaders`), the flags `parsingHeaders` and `partStarted` being what that place makes them; and
that the application has been told all parts before it and d units of this one (`Story`, `AllTold`). The work is in what one look at the
window sees. Headers are found where they end (`HeadedIs`). The first delimiter in the window is the one that ends the part
(`BoundaryFound`), and as long as the window does not reach its last unit there is none (`NoBoundaryYet`), so that
what is handed over before it is found is data: the bytes kept back are as many as a delimiter can be short of its end.

`DataLemmas` has what these proofs need of data. The induction theorems of the library take a predicate, which the
provers cannot instantiate; `Counting` states induction for a set of numbers, from the well-foundedness of `<`. `Recursion` and
`SetRecursion` say that a function defined by recursion exists, with the step given as a function, which makes
`FoldLeft`, `FlattenSeq` and recursive functions of the model usable in a proof; `RecursionDown` says it of any function whose value at a place is
told by its values where a measure is less. Each fold costs an induction of its own.

Model-checked only: `RequestsAreFramed` and `GoodRequestsAreTaken`, which compare llhttp with what its sender means; it is the state machine of a
parser with many states: its invariant would name what each of them has read and kept, for a reference that splits
the whole input at once. All liveness
(`Terminates`, `EveryoneIsAccepted`, `SessionEnds`, `ResponseIsSent`): liveness under fairness is out of this prover's
reach.

## What is not modelled

Header values, status texts, close codes and wording. Of llhttp the lenient flags, which are off,
responses, letter case, tabs, most methods and the preface of HTTP/2. Of the upgrade the accept key (SHA-1 of the client's key).
`peek()` of the Uri streams, which consumes the beginning of an escape (`UriStream.cpp:153-199`, `277-316`), and so would
lose it to the next read.
Of static files the hash in an ETag and `decorateHandler`; of matchers the methods and content types;
cross-origin headers; JSON, which an external library reads. Builders and OpenAPI run before the server starts and
give configuration or text. `RequestParser::reset()`
is called by nothing in the system; the distinction of error codes is left out. The platform's
transport and clock are outside the repository and modelled by how the code uses them. A call of `end()` from inside a
handler destroys the vector being walked; that is undefined behaviour and excluded.

## Plan

Done: everything in the table of modules, with the proofs above. What is left, in this order:

1. `Connection`: `HttpPipeline` with `RequestHandling` in the place of its free handler, with
   `WebSocketSession` in the place of its free session, and `RequestParser` with `RequestHandling`. Today the
   seams are properties on one side that the other side assumes: `EveryMessageIsAnswered` and
   `FirstResultWins` stand for the free handler, `ErrorIsTheLastWord` for the parser.
2. The seam between `RequestParser` and `LLHttp` is proved for the order of the callbacks; that a token comes in pieces
   with a completion callback after the last one is a promise of llhttp's spans, which `LLHttp` has as one callback.
3. Matchers with methods and content types, cross-origin requests, ETags.

Proofs: `RequestsAreFramed` and `GoodRequestsAreTaken`, with an invariant by the states of llhttp.
