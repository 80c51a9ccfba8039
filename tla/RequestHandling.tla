--------------------------- MODULE RequestHandling ---------------------------
(***************************************************************************)
(* One request, seen by its handler: HttpContextPipelineAdapter with the     *)
(* DefaultHttpContextRunner it owns (core/HttpContext.cpp), the deferred     *)
(* registry handler and the handler it finds (handlers/, routing/            *)
(* HandlerProviderRegistry.cpp).                                             *)
(*                                                                           *)
(* The parser and the pipeline call the adapter; each of their calls becomes *)
(* an agenda of calls the runner makes on the handler, worked off before     *)
(* anything else happens.  The pipeline looks at the pending result between  *)
(* two buffers only, which may be many callbacks later.                      *)
(*                                                                           *)
(* A body is a number of units that arrive in pieces of any size.  What the  *)
(* application returns is free.  Requests are chosen at the start.           *)
(***************************************************************************)
EXTENDS Integers, Sequences

CONSTANTS
    Capacity,   \* MaxBuffered of the buffering handlers, in units; 0 disables them
    MaxBody     \* units in a body (environment bound)

ASSUME SizesAssumption == Capacity \in Nat /\ MaxBody \in Nat

VARIABLES
    stage,      \* what the pipeline does with the request
    progress,   \* how far the parser is
    size,       \* units in the request's body
    declared,   \* it has a Content-Length (else it is chunked)
    arrived,    \* bodyBytesReceived_
    piece,      \* the piece of the body being handed over
    agenda,     \* calls the runner still has to make on the handler
    phases,     \* completedPhases_
    pending,    \* pendingResult_
    handler,    \* the handler the registry made, "None" before
    buffer,     \* BufferingHttpHandlerBase::bodyBuffer_, its size
    limit,      \* BufferingHttpHandlerBase::contentLength_, 0 until known
    held,       \* response_ of a RawBodyHandler, or the prebuilt response of the default one
    calls       \* history: how often application code was called

request == <<size, declared>>
body    == <<arrived, piece>>
inner   == <<handler, buffer, limit, held>>
vars == <<stage, progress, request, body, agenda, phases, pending, inner, calls>>

-----------------------------------------------------------------------------
Phases     == {"StartingLine", "Headers", "Body", "Message", "ResponseStarted",
               "ResponseCompleted"}
Handlers   == {"Get", "Filtered", "Default", "Buffered", "Raw"}
AppResults == {"None", "Response", "Upgrade"}
Jobs       == {"step", "chunk"}

\* The type of the state: in particular a buffer never exceeds the configured capacity.
TypeOK ==
    /\ stage \in {"reading", "writing", "sending", "sent", "upgraded", "ended", "crashed"}
    /\ progress \in {"start", "line", "headers", "complete"}
    /\ size \in 0..MaxBody /\ declared \in BOOLEAN
    /\ arrived \in 0..size /\ piece \in 0..size
    /\ agenda \in Seq(Jobs) /\ phases \subseteq Phases
    /\ pending \in {"None", "Response", "Upgrade", "NoResponse"}
    /\ handler \in Handlers \cup {"None"}
    /\ buffer \in 0..Capacity /\ limit \in 0..Capacity
    /\ held \in AppResults \cup {"Moved"}
    /\ calls \in Nat

Init ==
    /\ stage = "reading" /\ progress = "start"
    /\ size \in 0..MaxBody /\ declared \in BOOLEAN
    /\ arrived = 0 /\ piece = 0
    /\ agenda = <<>> /\ phases = {} /\ pending = "None"
    /\ handler = "None" /\ buffer = 0 /\ limit = 0 /\ held = "None"
    /\ calls = 0

-----------------------------------------------------------------------------
(* Helpers of the runner and of the handlers *)

\* completedPhases() >= CompletedReadingMessage, compared as numbers
ReadingIsDone == phases \cap {"Message", "ResponseStarted", "ResponseCompleted"} # {}

\* The result of a step becomes the pending one; a response counts as started.
Queue(result) ==
    /\ pending' = result
    /\ phases' = IF result = "Response" THEN phases \cup {"ResponseStarted"} ELSE phases

\* Mutant of NoAnswer: a handler that never answers leaves nothing.
BugLeavesNothing == UNCHANGED <<pending, phases>>

\* A step without a result, after the end of the message
NoAnswer ==
    /\ pending' = IF "Message" \in phases THEN "NoResponse" ELSE "None"
    /\ UNCHANGED phases

Answer(result) == IF result = "None" THEN NoAnswer ELSE Queue(result)

\* onError answers a request that has no answer yet.
OnError == IF pending = "None" THEN Queue("Response") ELSE UNCHANGED <<pending, phases>>

Least(a, b) == IF a < b THEN a ELSE b
AtRest == agenda = <<>> /\ stage # "crashed"

-----------------------------------------------------------------------------
(* The parser calls the adapter *)

Parsing == stage = "reading" /\ agenda = <<>>

StartLine ==
    /\ Parsing /\ progress = "start"
    /\ progress' = "line"
    /\ phases' = phases \cup {"StartingLine"}
    /\ agenda' = <<"step">>
    /\ UNCHANGED <<stage, request, body, pending, inner, calls>>

\* The step that follows makes the handler.
HeadersComplete ==
    /\ Parsing /\ progress = "line"
    /\ progress' = "headers"
    /\ phases' = phases \cup {"Headers"}
    /\ agenda' = <<"step">>
    /\ handler' \in Handlers
    /\ held' = IF handler' = "Default" THEN "Response" ELSE "None"
    /\ UNCHANGED <<stage, request, body, pending, buffer, limit, calls>>

Body ==
    /\ Parsing /\ progress = "headers"
    /\ piece' \in 1..size - arrived
    /\ arrived' = arrived + piece'
    /\ IF arrived = 0
       THEN phases' = phases \cup {"Body"} /\ agenda' = <<"step", "chunk", "step">>
       ELSE UNCHANGED phases /\ agenda' = <<"chunk", "step">>
    /\ UNCHANGED <<stage, progress, request, pending, inner, calls>>

MessageComplete ==
    /\ Parsing /\ progress = "headers" /\ arrived = size
    /\ progress' = "complete"
    /\ phases' = phases \cup {"Message"}
    /\ agenda' = <<"step">>
    /\ UNCHANGED <<stage, request, body, pending, inner, calls>>

-----------------------------------------------------------------------------
(* The runner calls the handler: handleStep *)

Job(job) == stage # "crashed" /\ agenda # <<>> /\ Head(agenda) = job /\ agenda' = Tail(agenda)

\* Mutant of Step: it does not look for a result that is pending.
BugStepAnyway(kind) == Job("step") /\ handler = kind

Step(kind) == Job("step") /\ pending = "None" /\ handler = kind
AppIsCalled == calls' = calls + 1

StepAnswered ==
    /\ Job("step") /\ pending # "None"
    /\ UNCHANGED <<stage, progress, request, body, phases, pending, inner, calls>>

StepNobody ==
    /\ Step("None")
    /\ NoAnswer
    /\ UNCHANGED <<stage, progress, request, body, inner, calls>>

\* HttpHandler with its default filter: the headers are read, and nothing else.
StepGet ==
    /\ Step("Get") /\ phases = {"StartingLine", "Headers"}
    /\ \E result \in AppResults : Answer(result)
    /\ AppIsCalled
    /\ UNCHANGED <<stage, progress, request, body, inner>>

StepGetOff ==
    /\ Step("Get") /\ phases # {"StartingLine", "Headers"}
    /\ NoAnswer
    /\ UNCHANGED <<stage, progress, request, body, inner, calls>>

\* HttpHandler with a filter that lets every phase pass, as the registry adds a
\* callback: it is called by every step that finds no result.
StepFiltered ==
    /\ Step("Filtered")
    /\ \E result \in AppResults : Answer(result)
    /\ AppIsCalled
    /\ UNCHANGED <<stage, progress, request, body, inner>>

\* The prebuilt 404 is given away once.
StepDefault ==
    /\ Step("Default")
    /\ Answer(IF held = "Moved" THEN "None" ELSE held)
    /\ held' = "Moved"
    /\ UNCHANGED <<stage, progress, request, body, handler, buffer, limit, calls>>

\* Mutant of StepBuffered: whatever has come of the body is handed over.
BugBufferedTooEarly ==
    /\ Step("Buffered") /\ "Body" \in phases /\ buffer > 0
    /\ \E result \in AppResults : Answer(result)
    /\ AppIsCalled
    /\ UNCHANGED <<stage, progress, request, body, inner>>

\* handleBody; the buffer is not emptied by it.
StepBuffered ==
    /\ Step("Buffered") /\ ReadingIsDone /\ buffer > 0
    /\ \E result \in AppResults : Answer(result)
    /\ AppIsCalled
    /\ UNCHANGED <<stage, progress, request, body, inner>>

StepBufferedOff ==
    /\ Step("Buffered") /\ (~ReadingIsDone \/ buffer = 0)
    /\ NoAnswer
    /\ UNCHANGED <<stage, progress, request, body, inner, calls>>

\* The end of the body is handed over as an empty piece.
StepRawEnd ==
    /\ Step("Raw") /\ held = "None" /\ ReadingIsDone
    /\ \E result \in AppResults :
          /\ Answer(result)
          /\ held' = IF result = "None" THEN "None" ELSE "Moved"
    /\ AppIsCalled
    /\ UNCHANGED <<stage, progress, request, body, handler, buffer, limit>>

StepRawOff ==
    /\ Step("Raw") /\ held = "None" /\ ~ReadingIsDone
    /\ NoAnswer
    /\ UNCHANGED <<stage, progress, request, body, inner, calls>>

\* The result of an earlier piece is moved out; the handler still counts it as there.
StepRawGives ==
    /\ Step("Raw") /\ held \in {"Response", "Upgrade"}
    /\ Queue(held)
    /\ held' = "Moved"
    /\ UNCHANGED <<stage, progress, request, body, handler, buffer, limit, calls>>

\* What is left says it is a response and holds none: CreateResponseStream calls
\* getBody() on a null pointer.
StepRawAgain ==
    /\ Step("Raw") /\ held = "Moved"
    /\ stage' = "crashed"
    /\ UNCHANGED <<progress, request, body, phases, pending, inner, calls>>

-----------------------------------------------------------------------------
(* The runner calls the handler: handleBodyChunk *)

ChunkIgnored ==
    /\ Job("chunk") /\ (handler \in {"Get", "Filtered", "Default"} \/ held # "None")
    /\ UNCHANGED <<stage, progress, request, body, phases, pending, inner, calls>>

\* contentLength_ is set by the first piece that finds a Content-Length.
KnownLimit == IF limit = 0 /\ declared THEN Least(size, Capacity) ELSE limit

Filled == LET all == Least(buffer + piece, Capacity)
          IN  IF KnownLimit > 0 THEN Least(all, KnownLimit) ELSE all

ChunkBuffered ==
    /\ Job("chunk") /\ handler = "Buffered"
    /\ limit' = KnownLimit
    /\ buffer' = Filled
    /\ buffer >= Capacity \/ KnownLimit = 0 \/ Filled < KnownLimit
    /\ UNCHANGED <<stage, progress, request, body, phases, pending, handler, held, calls>>

\* The declared length is reached: handleBody, its result thrown away.
ChunkHandsOver ==
    /\ Job("chunk") /\ handler = "Buffered"
    /\ limit' = KnownLimit
    /\ buffer' = Filled
    /\ buffer < Capacity /\ KnownLimit > 0 /\ Filled = KnownLimit
    /\ AppIsCalled
    /\ UNCHANGED <<stage, progress, request, body, phases, pending, handler, held>>

ChunkRaw ==
    /\ Job("chunk") /\ handler = "Raw" /\ held = "None"
    /\ held' \in AppResults
    /\ AppIsCalled
    /\ UNCHANGED <<stage, progress, request, body, phases, pending, handler, buffer, limit>>

-----------------------------------------------------------------------------
(* The pipeline *)

\* Mutant of MarkRead: the parser is not told that the input ends here.
BugNoFinish == pending' = "None" /\ UNCHANGED phases

\* llhttp_finish, called with the result taken: in the middle of a message an error
MarkRead ==
    IF progress = "complete"
    THEN pending' = "None" /\ UNCHANGED phases
    ELSE Queue("Response")

TakeResult ==
    /\ AtRest /\ stage = "reading" /\ pending # "None"
    /\ MarkRead
    /\ stage' = CASE pending = "Response"   -> "writing"
                  [] pending = "Upgrade"    -> "upgraded"
                  [] pending = "NoResponse" -> "ended"
    /\ UNCHANGED <<progress, request, body, agenda, inner, calls>>

ResponseStarted ==
    /\ AtRest /\ stage = "writing"
    /\ stage' = "sending"
    /\ phases' = phases \cup {"ResponseStarted"}
    /\ agenda' = <<"step">>
    /\ UNCHANGED <<progress, request, body, pending, inner, calls>>

ResponseCompleted ==
    /\ AtRest /\ stage = "sending"
    /\ stage' = "sent"
    /\ phases' = phases \cup {"ResponseCompleted"}
    /\ agenda' = <<"step">>
    /\ UNCHANGED <<progress, request, body, pending, inner, calls>>

\* The parser rejects the input, or the connection times out: the handler is told and
\* the pipeline drops it with whatever it has queued.
Fails ==
    /\ AtRest /\ stage \in {"reading", "writing", "sending"}
    /\ OnError
    /\ stage' = "ended"
    /\ UNCHANGED <<progress, request, body, agenda, inner, calls>>

\* onClientDisconnected does nothing; after the response the next request has a
\* handler of its own.
Ends ==
    /\ AtRest /\ stage \in {"reading", "writing", "sending", "sent"}
    /\ stage' = "ended"
    /\ UNCHANGED <<progress, request, body, agenda, phases, pending, inner, calls>>

Gone == stage \in {"upgraded", "ended", "crashed"} /\ UNCHANGED vars

-----------------------------------------------------------------------------
Parser == StartLine \/ HeadersComplete \/ Body \/ MessageComplete
Steps ==
    \/ StepAnswered \/ StepNobody \/ StepGet \/ StepGetOff \/ StepFiltered \/ StepDefault
    \/ StepBuffered \/ StepBufferedOff \/ StepRawEnd \/ StepRawOff \/ StepRawGives
    \/ StepRawAgain
Chunks == ChunkIgnored \/ ChunkBuffered \/ ChunkHandsOver \/ ChunkRaw
Pipeline == TakeResult \/ ResponseStarted \/ ResponseCompleted \/ Fails \/ Ends

Next == Parser \/ Steps \/ Chunks \/ Pipeline \/ Gone
Spec == Init /\ [][Next]_vars

-----------------------------------------------------------------------------
(* Properties *)

\* A message that has been read is answered, if only by "no response":
\* HttpProtocolExecution treats a complete message without a result as a violation.
EveryMessageIsAnswered ==
    stage = "reading" /\ progress = "complete" /\ agenda = <<>> => pending # "None"

\* The first result wins: nothing replaces it, and only the pipeline takes it.
FirstResultWins ==
    [][pending # "None" /\ pending' # pending => TakeResult]_vars

\* A buffering handler is given the whole body, up to its capacity, however the body
\* was cut into pieces and whether its length was declared.
BodyIsWhole ==
    [][calls' # calls /\ handler = "Buffered" => buffer' = Least(size, Capacity)]_vars

\* Once a request was answered before its end the application is not called again:
\* the phases look complete then, and the rest of the body will not come.
CutRequestIsSilent ==
    [][calls' # calls /\ stage # "reading" => progress = "complete"]_vars

\* IHttpHandler.h: "depending on when the handler is invoked in the pipeline, it can be
\* called many times per context", also after it has given its response.
CanBeCalledAgain == stage # "crashed"
=============================================================================
