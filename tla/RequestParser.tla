---------------------------- MODULE RequestParser ----------------------------
(***************************************************************************)
(* RequestParser (pipeline/RequestParser.cpp), driven by                     *)
(* HttpProtocolExecution::handle and markRequestReadCompleted.               *)
(*                                                                           *)
(* llhttp calls the parser back for pieces of tokens: method, URL, version,  *)
(* header fields and values.  The parser copies the pieces into one buffer   *)
(* of fixed length that all tokens of a message share, and hands its handler *)
(* views into it.  Of llhttp there is what it expects (at, trailing) and the *)
(* order of its callbacks (ParserCallbacks).                                 *)
(*                                                                           *)
(* A byte is the number of the token it belongs to, so that a view shows     *)
(* which tokens it covers.  writePos_ is the length of the buffer's content. *)
(***************************************************************************)
EXTENDS Integers, SequencesExt, ParserCallbacks

CONSTANTS
    BufferLength,   \* REQUEST_PARSER_BUFFER_LENGTH
    Limit,          \* by kind of token: the maxAllowed its callback passes
    MaxHeaders,     \* MAX_REQUEST_HEADER_COUNT
    MaxPiece,       \* bytes llhttp hands over in one callback (environment bound)
    MaxMessages     \* messages the client sends (environment bound)

Kinds == {"method", "url", "version", "field", "value"}

ASSUME LimitsAssumption ==
    /\ BufferLength \in Nat /\ MaxHeaders \in Nat
    /\ Limit \in [Kinds -> Nat]
    /\ MaxPiece \in Nat /\ MaxMessages \in Nat

VARIABLES
    caller,             \* where HttpProtocolExecution is
    readDone,           \* requestReadCompleted_
    at,                 \* what llhttp expects next
    trailing,           \* its fields are those behind a chunked body
    due,                \* the last piece of a token is in, its completion callback is due
    result,             \* what llhttp_execute returns
    buffer,             \* buffer_ up to writePos_
    pos, len,           \* urlPos_ and urlLen_, methodPos_ and methodLen_, ... by kind
    method, version,    \* method_; versionMajor_ and versionMinor_, <<>> for their initial 1.1
    event,              \* currentEvent_
    headers,            \* headerCount_
    finished,           \* finished_
    pending,            \* the handler has a pending result
    token, whole,       \* history: tokens so far; the bytes of the newest one of each kind
    bare,               \* history: the last header had no value
    messages,           \* history: messages begun
    heard, errors       \* history: the last call on the handler; how often it was onError

store   == <<buffer, pos, len>>
strings == <<method, version>>
tokens  == <<token, whole, bare, messages, trailing>>
handler == <<pending, heard, errors>>
vars == <<caller, readDone, at, due, result, store, strings, event, headers, finished, tokens,
          handler>>

-----------------------------------------------------------------------------
Events == {"None", "MessageBegin", "Url", "HeaderField", "HeaderValue", "HeadersComplete",
           "Body", "MessageComplete", "Error"}
Calls  == {"None", "onMessageBegin", "onHeader", "onHeadersComplete", "onBody",
           "onMessageComplete", "onError"}
Bytes  == Seq(Nat)

\* The type of the state; no more headers are counted than are allowed.
TypeOK ==
    /\ caller \in {"between", "loop", "executing", "executed", "answered", "unanswered",
                   "failed", "done"}
    /\ readDone \in BOOLEAN
    /\ at \in Kinds \cup {"start", "body", "closed", "upgraded", "error"}
    /\ trailing \in BOOLEAN /\ due \in BOOLEAN /\ result \in {"ok", "paused", "error"}
    /\ buffer \in Bytes /\ pos \in [Kinds -> Nat] /\ len \in [Kinds -> Nat]
    /\ method \in Bytes /\ version \in Bytes /\ event \in Events
    /\ headers \in 0..MaxHeaders /\ finished \in BOOLEAN
    /\ token \in Nat /\ whole \in [Kinds -> Bytes] /\ bare \in BOOLEAN
    /\ messages \in 0..MaxMessages
    /\ pending \in BOOLEAN /\ heard \in [call : Calls, args : Seq(Bytes)] /\ errors \in Nat

Init ==
    /\ caller = "between" /\ readDone = FALSE
    /\ at = "start" /\ trailing = FALSE /\ due = FALSE /\ result = "ok"
    /\ buffer = <<>> /\ pos = [k \in Kinds |-> 0] /\ len = [k \in Kinds |-> 0]
    /\ method = <<>> /\ version = <<>> /\ event = "None" /\ headers = 0 /\ finished = FALSE
    /\ token = 0 /\ whole = [k \in Kinds |-> <<>>] /\ bare = FALSE /\ messages = 0
    /\ pending = FALSE /\ heard = [call |-> "None", args |-> <<>>] /\ errors = 0

-----------------------------------------------------------------------------
(* Helpers *)

View(k) == SubSeq(buffer, pos[k] + 1, pos[k] + len[k])

\* The handler may come up with a result in any call but onHeader.
Hears(call, args) ==
    /\ heard' = [call |-> call, args |-> args]
    /\ pending' \in IF call = "onHeader" THEN {pending} ELSE {pending, TRUE}
    /\ errors' = IF call = "onError" THEN errors + 1 ELSE errors

\* Mutant of ReportError: the error is reported although a callback has done so.
BugReportsTwice == event' = "Error" /\ Hears("onError", <<>>)

\* What execute does with an error of llhttp
ReportError ==
    /\ event' = "Error"
    /\ IF event = "Error" THEN UNCHANGED handler ELSE Hears("onError", <<>>)

ResetBuffer == buffer' = <<>> /\ len' = [k \in Kinds |-> 0] /\ UNCHANGED pos

\* llhttp_execute returns.
Stop(code) == result' = code /\ caller' = "executed"

\* A callback tells the handler of an error itself and stops llhttp.
Rejects == event' = "Error" /\ Hears("onError", <<>>) /\ at' = "error" /\ Stop("error")

Goes(next) == at' = next /\ UNCHANGED <<result, caller>>

\* A call on the handler returns zero, or it does not, and llhttp stops.
Returned(next) ==
    \/ Goes(next)
    \/ at' = "error" /\ Stop("error")

-----------------------------------------------------------------------------
(* HttpProtocolExecution *)

\* handle() reads a buffer and has it parsed; a parser that has finished takes nothing.
Execute ==
    /\ caller \in {"between", "loop"} /\ ~readDone
    /\ caller' = IF finished THEN "failed" ELSE "executing"
    /\ result' = "ok"
    /\ UNCHANGED <<readDone, at, due, store, strings, event, headers, finished, tokens, handler>>

\* The socket has no more bytes; if the client is gone, reading is over.
NoMoreBytes ==
    /\ caller = "loop"
    /\ caller' = "between" /\ readDone' \in BOOLEAN
    /\ UNCHANGED <<at, due, result, store, strings, event, headers, finished, tokens, handler>>

\* What handle() makes of a buffer that was parsed to its end
Parsed == caller' = IF pending THEN "answered"
                    ELSE IF event = "MessageComplete" THEN "unanswered" ELSE "loop"

ExecuteReturns ==
    /\ caller = "executed" /\ result = "ok"
    /\ IF event = "MessageComplete" THEN headers' = 0 /\ ResetBuffer
                                    ELSE UNCHANGED <<headers, store>>
    /\ Parsed
    /\ UNCHANGED <<readDone, at, due, result, strings, event, finished, tokens, handler>>

\* The rest of the buffer belongs to the next protocol: it counts as parsed.
ExecutePauses ==
    /\ caller = "executed" /\ result = "paused"
    /\ finished' = TRUE
    /\ Parsed
    /\ UNCHANGED <<readDone, at, due, result, store, strings, event, headers, tokens, handler>>

ExecuteFails ==
    /\ caller = "executed" /\ result = "error"
    /\ ReportError
    /\ headers' = 0 /\ ResetBuffer
    /\ caller' = "failed"
    /\ UNCHANGED <<readDone, at, due, result, strings, finished, tokens>>

\* Mutant of CutShort: a message cut in its body passes for a whole one.
BugBodyIsOver == at \in Kinds

\* llhttp_finish: no complaint between two messages, nor after an error.
CutShort == at \in Kinds \cup {"body"}

\* execute(nullptr, 0): by the pipeline that has taken the result or aborts the reading,
\* or by handle() when a complete message has none.
MarkRead ==
    /\ caller \in {"answered", "unanswered", "between"} /\ ~readDone
    /\ readDone' = TRUE
    /\ IF CutShort /\ ~finished THEN ReportError ELSE UNCHANGED <<event, handler>>
    /\ finished' = TRUE
    /\ caller' = IF caller = "unanswered" THEN "failed" ELSE "done"
    /\ UNCHANGED <<at, due, result, store, strings, headers, tokens>>

-----------------------------------------------------------------------------
(* The callbacks for the pieces of a token *)

Executing == caller = "executing" /\ ~due

\* llhttp is inside a token of this kind.
Started(k) == whole[k] # <<>> /\ whole[k][1] = token

\* Mutant of Fits: the length of the buffer is forgotten.
BugNoBufferLimit(k, n) == n = 0 \/ len[k] + n <= Limit[k]

\* appendToBuffer has room for n more bytes.
Fits(k, n) == n = 0 \/ (Len(buffer) + n <= BufferLength /\ len[k] + n <= Limit[k])

\* A token has at least a byte, but for a value and the URL of a CONNECT; a later piece may be
\* empty.
Piece(k, n) ==
    /\ Executing /\ at = k
    /\ n > 0 \/ k \in {"url", "value"} \/ Started(k)
    /\ token' = IF Started(k) THEN token ELSE token + 1
    /\ whole' = [whole EXCEPT ![k] = (IF Started(k) THEN @ ELSE <<>>) \o [b \in 1..n |-> token']]
    /\ pos' = IF len[k] = 0 THEN [pos EXCEPT ![k] = Len(buffer)] ELSE pos
    /\ UNCHANGED <<readDone, strings, headers, finished, bare, messages, trailing>>

EventOf(k) == CASE k = "url" -> "Url" [] k = "field" -> "HeaderField"
                [] k = "value" -> "HeaderValue" [] OTHER -> event

\* Either the token ends here, or llhttp's input does.
Keep(k, n) ==
    /\ Piece(k, n) /\ Fits(k, n)
    /\ buffer' = buffer \o [b \in 1..n |-> token']
    /\ len' = [len EXCEPT ![k] = @ + n]
    /\ event' = EventOf(k)
    /\ due' \in {TRUE, n = 0}
    /\ IF due' THEN UNCHANGED <<result, caller>> ELSE Stop("ok")
    /\ UNCHANGED <<at, handler>>

Overflow(k, n) ==
    /\ Piece(k, n) /\ ~Fits(k, n)
    /\ Rejects
    /\ UNCHANGED <<due, buffer, len>>

-----------------------------------------------------------------------------
(* The completion callbacks of the tokens *)

Complete(k) == caller = "executing" /\ due /\ at = k /\ due' = FALSE
Elsewhere   == UNCHANGED <<readDone, finished, token, whole, messages, trailing>>

MethodComplete ==
    /\ Complete("method")
    /\ method' = IF len["method"] > 0 THEN View("method") ELSE method
    /\ Goes("url")
    /\ Elsewhere /\ UNCHANGED <<store, version, event, headers, bare, handler>>

\* The handler is told of the message before its version has been read, and not at all without
\* a URL.  A request of HTTP/0.9 has no version.
UrlComplete ==
    /\ Complete("url")
    /\ \E next \in {"version", "field"} :
          IF len["url"] > 0
          THEN Hears("onMessageBegin", <<method, version, View("url")>>) /\ Returned(next)
          ELSE UNCHANGED handler /\ Goes(next)
    /\ Elsewhere /\ UNCHANGED <<store, strings, event, headers, bare>>

VersionComplete ==
    /\ Complete("version")
    /\ version' = IF len["version"] > 0 THEN View("version") ELSE version
    /\ Goes("field")
    /\ Elsewhere /\ UNCHANGED <<store, method, event, headers, bare, handler>>

FieldComplete ==
    /\ Complete("field")
    /\ Goes("value")
    /\ Elsewhere /\ UNCHANGED <<store, strings, event, headers, bare, handler>>

\* A header without a value is left out, and its field stays where it is.
ValueEmpty ==
    /\ Complete("value") /\ (len["field"] = 0 \/ len["value"] = 0)
    /\ bare' = TRUE
    /\ Goes("field")
    /\ Elsewhere /\ UNCHANGED <<store, strings, event, headers, handler>>

\* Mutant of ValueComplete: one header more than the limit.
BugOneTooMany ==
    /\ Complete("value") /\ len["field"] > 0 /\ len["value"] > 0 /\ headers <= MaxHeaders
    /\ headers' = headers + 1
    /\ Hears("onHeader", <<View("field"), View("value")>>)
    /\ len' = [len EXCEPT !["field"] = 0, !["value"] = 0]
    /\ bare' = FALSE
    /\ Returned("field")
    /\ Elsewhere /\ UNCHANGED <<buffer, pos, strings, event>>

\* Mutant of ValueComplete: the field's length is not reset for the next header.
BugKeepsField ==
    /\ Complete("value") /\ len["field"] > 0 /\ len["value"] > 0 /\ headers < MaxHeaders
    /\ headers' = headers + 1
    /\ Hears("onHeader", <<View("field"), View("value")>>)
    /\ len' = [len EXCEPT !["value"] = 0]
    /\ bare' = FALSE
    /\ Returned("field")
    /\ Elsewhere /\ UNCHANGED <<buffer, pos, strings, event>>

ValueComplete ==
    /\ Complete("value") /\ len["field"] > 0 /\ len["value"] > 0 /\ headers < MaxHeaders
    /\ headers' = headers + 1
    /\ Hears("onHeader", <<View("field"), View("value")>>)
    /\ len' = [len EXCEPT !["field"] = 0, !["value"] = 0]
    /\ bare' = FALSE
    /\ Returned("field")
    /\ Elsewhere /\ UNCHANGED <<buffer, pos, strings, event>>

TooManyHeaders ==
    /\ Complete("value") /\ len["field"] > 0 /\ len["value"] > 0 /\ headers >= MaxHeaders
    /\ Rejects
    /\ Elsewhere /\ UNCHANGED <<store, strings, headers, bare>>

-----------------------------------------------------------------------------
(* The other callbacks *)

Aside == UNCHANGED <<readDone, due, store, strings, headers, finished, token, whole, bare>>
Ongoing == UNCHANGED <<messages, trailing>>

MessageBegin ==
    /\ Executing /\ at = "start" /\ messages < MaxMessages
    /\ messages' = messages + 1
    /\ event' = "MessageBegin"
    /\ Goes("method")
    /\ Aside /\ UNCHANGED <<trailing, handler>>

HeadersComplete ==
    /\ Executing /\ at = "field" /\ ~Started("field") /\ ~trailing
    /\ event' = "HeadersComplete"
    /\ Hears("onHeadersComplete", <<>>)
    /\ Returned("body")
    /\ Aside /\ Ongoing

Body ==
    /\ Executing /\ at = "body"
    /\ event' = "Body"
    /\ Hears("onBody", <<>>)
    /\ Returned("body")
    /\ Aside /\ Ongoing

\* Behind the last chunk fields may come, for which there is no callback of their own.
TrailersBegin ==
    /\ Executing /\ at = "body"
    /\ trailing' = TRUE
    /\ Goes("field")
    /\ Aside /\ UNCHANGED <<event, messages, handler>>

\* llhttp goes on with the next message, wants no more, or pauses for an upgrade.
MessageComplete ==
    /\ Executing
    /\ at = "body" \/ (trailing /\ at = "field" /\ ~Started("field"))
    /\ event' = "MessageComplete"
    /\ trailing' = FALSE
    /\ Hears("onMessageComplete", <<>>)
    /\ \/ Returned("start")
       \/ Goes("closed")
       \/ at' = "upgraded" /\ Stop("paused")
    /\ Aside /\ UNCHANGED messages

\* The bytes are no HTTP request, or there are some after the last message.
Malformed ==
    /\ Executing
    /\ at' = "error" /\ Stop("error")
    /\ Aside /\ Ongoing /\ UNCHANGED <<event, handler>>

\* The buffer ends between two callbacks.
BufferEnds ==
    /\ Executing /\ ~(at \in Kinds /\ Started(at))
    /\ Stop("ok")
    /\ Aside /\ Ongoing /\ UNCHANGED <<at, event, handler>>

-----------------------------------------------------------------------------
\* Nothing is left to do.
Over ==
    /\ readDone \/ caller = "failed"
    /\ UNCHANGED vars

Token == \E k \in Kinds, n \in 0..MaxPiece : Keep(k, n) \/ Overflow(k, n)
Next ==
    \/ Execute \/ NoMoreBytes \/ ExecuteReturns \/ ExecutePauses \/ ExecuteFails \/ MarkRead
    \/ Token
    \/ MethodComplete \/ UrlComplete \/ VersionComplete \/ FieldComplete
    \/ ValueEmpty \/ ValueComplete \/ TooManyHeaders
    \/ MessageBegin \/ HeadersComplete \/ Body \/ TrailersBegin \/ MessageComplete \/ Malformed \/ BufferEnds
    \/ Over
Spec == Init /\ [][Next]_vars

-----------------------------------------------------------------------------
(* Properties *)

\* The buffer is never written past its end, no token exceeds its limit, and whatever is
\* kept of a token lies in the part that has been written since the last reset.
InBounds ==
    /\ Len(buffer) <= BufferLength
    /\ \A k \in Kinds : len[k] <= Limit[k] /\ (len[k] > 0 => pos[k] + len[k] <= Len(buffer))

\* The handler is given the tokens of its message, however they were cut into pieces:
\* method and URL, and of every header field and value.  A field may only have the fields
\* of headers without a value before it.
HandlerIsGivenTheTokens ==
    [][heard' # heard /\ messages = 1 =>
         /\ heard'.call = "onMessageBegin" =>
                heard'.args[1] = whole["method"] /\ heard'.args[3] = whole["url"]
         /\ heard'.call = "onHeader" =>
                /\ heard'.args[2] = whole["value"]
                /\ IF bare THEN IsSuffix(whole["field"], heard'.args[1])
                           ELSE heard'.args[1] = whole["field"]]_vars

\* The parser reports one error at most, whichever of its callbacks, llhttp or the end of
\* the input finds it, and the handler hears nothing of the request after it.
ErrorIsTheLastWord ==
    [][errors > 0 => errors' = 1 /\ heard' = heard]_vars

\* A request whose reading is over in its middle is reported to the handler, once, whether
\* the parser fails in it or the pipeline cuts it short.
CutRequestIsReported ==
    (finished \/ caller = "failed") /\ at \notin {"start", "closed", "upgraded"} => errors = 1

\* What llhttp expects, in the words of ParserCallbacks
Awaits == IF trailing /\ at = "field" THEN "trailer field"
           ELSE IF trailing /\ at = "value" THEN "trailer value" ELSE at

\* The parser expects no other order of llhttp's callbacks than has been agreed on.
CallsAreExpected ==
    [][Awaits' \in {Awaits, "error"} \/ \E o \in Order : o[1] = Awaits /\ o[3] = Awaits']_vars

\* As the comment at onHeader has it: the field is the header's own.
FieldIsItsOwn ==
    [][heard' # heard /\ heard'.call = "onHeader" => heard'.args[1] = whole["field"]]_vars
=============================================================================
