---------------------------- MODULE HttpPipeline ----------------------------
(***************************************************************************)
(* One connection of the server: HttpPipeline with the HttpProtocolExecution *)
(* it owns (pipeline/HttpPipeline.cpp, pipeline/HttpProtocolExecution.cpp).  *)
(*                                                                           *)
(* The server's loop calls handleClient() again and again.  One call is a    *)
(* sequence of steps (`pc`), because the peer and the clock move while it    *)
(* runs: bytes arrive, the link drops, time passes between two reads of the  *)
(* clock.  Every step below is one private function of the class, or one     *)
(* turn of its loop.                                                         *)
(*                                                                           *)
(* Data is abstracted to what the control tells apart.  A buffer read from   *)
(* the socket is only how far it takes the parser; a handler is only the     *)
(* result it queues; a response is the number of chunks its stream still     *)
(* holds.  Time is relative: `age` counts milliseconds since startMillis_,   *)
(* `quiet` since lastActivityMillis_, both saturating just above the largest *)
(* limit they are compared with.                                             *)
(***************************************************************************)
EXTENDS Integers

CONSTANTS
    TotalLength,      \* HttpTimeouts::getTotalRequestLengthMs
    ActivityTimeout,  \* HttpTimeouts::getActivityTimeout
    ReadTimeout,      \* HttpTimeouts::getReadTimeout
    MaxUnread,        \* buffers waiting in the socket (environment bound)
    MaxSend,          \* buffers the peer sends in all (environment bound)
    MaxChunks         \* writes a response takes (environment bound)

ASSUME TimeoutsAssumption ==
    /\ TotalLength \in Nat /\ ActivityTimeout \in Nat /\ ReadTimeout \in Nat
ASSUME BoundsAssumption ==
    /\ MaxUnread \in Nat \ {0} /\ MaxSend \in Nat /\ MaxChunks \in Nat

VARIABLES
    pc,                 \* where handleClient stands; "idle" between calls
    verdict,            \* the last value handleClient returned
    state,              \* connectionState_
    execution,          \* requestExecution_ # nullptr
    readCompleted,      \* requestReadCompleted_ of that execution
    consumedInput,      \* consumedInput_ of that execution
    message,            \* how far its parser is: currentEvent_, coarsened
    pending,            \* the result its handler has queued
    stream,             \* responseStream_: chunks left, NoStream if null
    session,            \* activeSession_: "None", or whether it is notified
    startedNotified,    \* responseStartedNotified_
    disconnectNotified, \* disconnectNotified_
    timedOut,           \* timedOutUnrecoverably_
    firstLoop,          \* loopCount_ = 0
    age, quiet,         \* clock readings, relative
    connected,          \* IClient::connected()
    unread,             \* buffers IClient::available() reports
    toSend,             \* buffers the peer still has to send
    calls,              \* history: calls made on the execution in charge
    moved,              \* history: the last session turn moved bytes
    requestAge          \* history: milliseconds since the request's handler was created

execVars  == <<execution, readCompleted, consumedInput, message, pending>>
ownVars   == <<stream, session>>
flagVars  == <<startedNotified, disconnectNotified, timedOut, firstLoop>>
clockVars == <<age, quiet, requestAge>>
netVars   == <<connected, unread, toSend>>
vars == <<pc, verdict, state, execVars, ownVars, flagVars, clockVars, netVars,
          calls, moved>>

-----------------------------------------------------------------------------
(* Values *)

NoStream == -1
LiveStates     == {"Reading", "Writing", "Upgraded"}
TerminalStates == {"Completed", "Aborted", "Error", "Closing"}    \* isTerminalState
States         == LiveStates \cup TerminalStates

Results  == {"Response", "NullResponse", "Upgrade", "NullUpgrade", "NoResponse", "Failure"}
Sessions == {"Aware", "Opaque"}  \* whether protocolExecution() returns the session
Checks   == {"checkEntry", "checkRead", "checkWrite", "checkSession", "checkFinal"}
Pcs      == Checks \cup {"idle", "beginRead", "read", "readDone", "beginWrite", "write",
                         "activityCheck", "nextRead", "nextWrite",
                         "session", "idleTimeout", "erased"}
FinalVerdicts == {"Completed", "ClientDisconnected", "ErroredUnrecoverably",
                  "TimedOutUnrecoverably", "Aborted", "Dropped"}

NoCalls == [taken |-> 0, started |-> 0, completed |-> 0, told |-> 0]
Bump(n) == IF n < 2 THEN n + 1 ELSE n

QuietLimit == IF ActivityTimeout > ReadTimeout THEN ActivityTimeout ELSE ReadTimeout
AgeUp(n, limit) == IF n > limit THEN n ELSE n + 1

Flags ==
    /\ execution \in BOOLEAN /\ readCompleted \in BOOLEAN /\ consumedInput \in BOOLEAN
    /\ startedNotified \in BOOLEAN /\ disconnectNotified \in BOOLEAN
    /\ timedOut \in BOOLEAN /\ firstLoop \in BOOLEAN
    /\ connected \in BOOLEAN /\ moved \in BOOLEAN

Values ==
    /\ pc \in Pcs /\ verdict \in FinalVerdicts \cup {"Processing"}
    /\ state \in States
    /\ message \in {"None", "Partial", "Complete", "Error"}
    /\ pending \in Results \cup {"None"}
    /\ stream \in 0..MaxChunks \cup {NoStream} /\ session \in Sessions \cup {"None"}
    /\ age \in 0..TotalLength + 1 /\ quiet \in 0..QuietLimit + 1
    /\ requestAge \in 0..TotalLength + 1
    /\ unread \in 0..MaxUnread /\ toSend \in 0..MaxSend
    /\ calls \in [taken : 0..2, started : 0..2, completed : 0..2, told : 0..2]

\* The type of the state (HttpPipeline.h): in particular no counter of the environment
\* goes below zero and both clocks stay within the limits they saturate at.
TypeOK == Flags /\ Values

-----------------------------------------------------------------------------
(* The peer and the clock move at any moment, also inside handleClient. *)

ClientSends ==
    /\ pc # "erased" /\ connected /\ unread < MaxUnread
    /\ toSend > 0
    /\ unread' = unread + 1
    /\ toSend' = toSend - 1
    /\ UNCHANGED <<pc, verdict, state, execVars, ownVars, flagVars, clockVars,
                   connected, calls, moved>>

ClientDisconnects ==
    /\ pc # "erased" /\ connected
    /\ connected' = FALSE
    /\ UNCHANGED <<pc, verdict, state, execVars, ownVars, flagVars, clockVars,
                   unread, toSend, calls, moved>>

Tick ==
    /\ pc # "erased"
    /\ age' = AgeUp(age, TotalLength)
    /\ quiet' = AgeUp(quiet, QuietLimit)
    /\ requestAge' = AgeUp(requestAge, TotalLength)
    /\ UNCHANGED <<pc, verdict, state, execVars, ownVars, flagVars, netVars, calls, moved>>

-----------------------------------------------------------------------------
(* Helpers of the class *)

\* A call into the handler lets it queue a result, unless one is queued already.
HandlerMayQueue ==
    pending' \in IF pending = "None" THEN Results \cup {"None"} ELSE {pending}

\* currentProtocolExecution() # nullptr
InCharge ==
    \/ state \in {"Reading", "Writing"} /\ execution
    \/ state = "Upgraded" /\ session = "Aware"

\* execution->onError(Timeout) or execution->onDisconnect() on the one in charge.
\* Only a request's handler can queue a result from it.
Tell ==
    /\ calls' = IF InCharge THEN [calls EXCEPT !.told = Bump(@)] ELSE calls
    /\ IF state # "Upgraded" /\ InCharge THEN HandlerMayQueue ELSE pending' = pending
    /\ UNCHANGED <<execution, readCompleted, consumedInput, message>>

\* createRequestHandler with a handler from the factory
FreshRequest ==
    /\ state' = "Reading"
    /\ execution' = TRUE /\ readCompleted' = FALSE /\ consumedInput' = FALSE
    /\ message' = "None" /\ pending' = "None"
    /\ stream' = NoStream /\ session' = "None"
    /\ startedNotified' = FALSE /\ disconnectNotified' = FALSE
    /\ calls' = NoCalls /\ requestAge' = 0
    /\ UNCHANGED timedOut

\* setErroredUnrecoverably
Errored ==
    /\ state' = "Error"
    /\ stream' = NoStream /\ session' = "None"
    /\ execution' = FALSE /\ readCompleted' = FALSE /\ consumedInput' = FALSE
    /\ message' = "None" /\ pending' = "None"
    /\ UNCHANGED <<startedNotified, disconnectNotified, timedOut, calls, requestAge>>

\* markRequestReadCompleted, with the result p queued: llhttp_finish in the middle
\* of a message is an error, and onError lets the handler queue another result.
MarkRead(p) ==
    LET cut == execution /\ ~readCompleted /\ message = "Partial"
    IN  /\ readCompleted' = execution
        /\ message' = IF cut THEN "Error" ELSE message
        /\ pending' \in IF cut /\ p = "None" THEN Results \cup {"None"} ELSE {p}
        /\ UNCHANGED <<execution, consumedInput>>

\* A timeout found by checkActivityTimeout or checkIdleTimeout
TimedOutNow ==
    /\ Tell
    /\ timedOut' = TRUE
    /\ connected' = (connected /\ state = "Reading")   \* client_->stop()
    /\ state' = "Error"

-----------------------------------------------------------------------------
(* handleClient: entry and the state checks between its stages *)

\* The constructor; a factory without a handler leaves the pipeline in Error.
Init ==
    /\ pc = "idle" /\ verdict = "Processing"
    /\ \E made \in BOOLEAN : /\ state = IF made THEN "Reading" ELSE "Error"
                             /\ execution = made
    /\ readCompleted = FALSE /\ consumedInput = FALSE
    /\ message = "None" /\ pending = "None"
    /\ stream = NoStream /\ session = "None"
    /\ startedNotified = FALSE /\ disconnectNotified = FALSE
    /\ timedOut = FALSE /\ firstLoop = TRUE
    /\ age = 0 /\ quiet = 0 /\ requestAge = 0
    /\ connected = TRUE /\ unread = 0 /\ toSend = MaxSend
    /\ calls = NoCalls /\ moved = FALSE

\* Mutant of HandleClient: the clocks are set up by every call.
BugSetupEveryCall ==
    /\ pc = "idle"
    /\ pc' = "checkEntry"
    /\ firstLoop' = FALSE
    /\ age' = 0 /\ quiet' = 0
    /\ UNCHANGED <<verdict, state, execVars, ownVars, startedNotified, disconnectNotified,
                   timedOut, requestAge, netVars, calls, moved>>

HandleClient ==
    /\ pc = "idle"
    /\ pc' = "checkEntry"
    /\ firstLoop' = FALSE
    /\ age' = IF firstLoop THEN 0 ELSE age            \* setupPipeline
    /\ quiet' = IF firstLoop THEN 0 ELSE quiet
    /\ UNCHANGED <<verdict, state, execVars, ownVars, startedNotified, disconnectNotified,
                   timedOut, requestAge, netVars, calls, moved>>

FromSession == IF state = "Upgraded" THEN "session" ELSE "idleTimeout"
FromWrite   == IF state = "Writing" THEN "beginWrite" ELSE FromSession
FromRead    == IF state = "Reading" THEN "beginRead" ELSE FromWrite
Stage == CASE pc = "checkEntry"   -> FromRead
           [] pc = "checkRead"    -> FromWrite
           [] pc = "checkWrite"   -> FromSession
           [] pc = "checkSession" -> "idleTimeout"
           [] OTHER               -> "idle"

\* A final verdict makes the server erase the pipeline (HttpServerBase::handleClient).
Return(v) == pc' = "erased" /\ verdict' = v

\* Mutant of CheckTotalTimeout: the state is set before it is asked whether to stop.
BugErrorBeforeStop ==
    /\ pc \in Checks /\ age > TotalLength
    /\ Tell
    /\ timedOut' = TRUE
    /\ state' = "Error"
    /\ Return("TimedOutUnrecoverably")
    /\ UNCHANGED <<ownVars, startedNotified, disconnectNotified, firstLoop, clockVars,
                   netVars, moved>>

CheckTotalTimeout ==
    /\ pc \in Checks /\ age > TotalLength
    /\ Tell
    /\ timedOut' = TRUE
    /\ connected' = (connected /\ state \notin {"Writing", "Upgraded"})
    /\ state' = "Error"
    /\ Return("TimedOutUnrecoverably")
    /\ UNCHANGED <<ownVars, startedNotified, disconnectNotified, firstLoop, clockVars,
                   unread, toSend, moved>>

OwnVerdict == CASE state = "Aborted"   -> "Aborted"
                [] state = "Error"     -> "ErroredUnrecoverably"
                [] state = "Completed" -> "Completed"

\* Mutant of CheckTerminal: the state is reported before a timeout is.
BugStateBeforeTimeout ==
    /\ pc \in Checks /\ age <= TotalLength
    /\ timedOut \/ state \in {"Aborted", "Error", "Completed"}
    /\ Return(OwnVerdict)
    /\ UNCHANGED <<state, execVars, ownVars, flagVars, clockVars, netVars, calls, moved>>

CheckTerminal ==
    /\ pc \in Checks /\ age <= TotalLength
    /\ timedOut \/ state \in {"Aborted", "Error", "Completed"}
    /\ Return(IF timedOut THEN "TimedOutUnrecoverably" ELSE OwnVerdict)
    /\ UNCHANGED <<state, execVars, ownVars, flagVars, clockVars, netVars, calls, moved>>

\* Mutant of CheckDisconnect: the state is Closing before anyone is looked for.
BugCloseBeforeTelling ==
    /\ pc \in Checks /\ age <= TotalLength /\ ~timedOut
    /\ state \notin {"Aborted", "Error", "Completed"}
    /\ ~connected \/ state = "Closing"
    /\ disconnectNotified' = TRUE
    /\ state' = "Closing"
    /\ Return("ClientDisconnected")
    /\ UNCHANGED <<execVars, calls, ownVars, startedNotified, timedOut, firstLoop, clockVars,
                   netVars, moved>>

CheckDisconnect ==
    /\ pc \in Checks /\ age <= TotalLength /\ ~timedOut
    /\ state \notin {"Aborted", "Error", "Completed"}
    /\ ~connected \/ state = "Closing"
    /\ IF connected \/ disconnectNotified THEN UNCHANGED <<execVars, calls>> ELSE Tell
    /\ disconnectNotified' = (disconnectNotified \/ ~connected)
    /\ state' = "Closing"
    /\ Return("ClientDisconnected")
    /\ UNCHANGED <<ownVars, startedNotified, timedOut, firstLoop, clockVars, netVars, moved>>

CheckPasses ==
    /\ pc \in Checks /\ age <= TotalLength /\ ~timedOut
    /\ state \in LiveStates /\ connected
    /\ pc' = Stage
    /\ verdict' = "Processing"
    /\ UNCHANGED <<state, execVars, ownVars, flagVars, clockVars, netVars, calls, moved>>

-----------------------------------------------------------------------------
(* readFromClientIntoParser and the loop of HttpProtocolExecution::handle *)

BeginRead ==
    /\ pc = "beginRead"
    /\ pc' = IF ~execution THEN "checkRead" ELSE IF readCompleted THEN "readDone" ELSE "read"
    /\ consumedInput' = FALSE
    /\ UNCHANGED <<verdict, state, execution, readCompleted, message, pending, ownVars,
                   flagVars, clockVars, netVars, calls, moved>>

\* A buffer is parsed to its end.  The loop leaves once a result is queued.
ReadBuffer ==
    /\ pc = "read" /\ unread > 0
    /\ unread' = unread - 1
    /\ consumedInput' = TRUE
    /\ message' \in {"Partial", "Complete"}
    /\ HandlerMayQueue
    /\ message' = "Complete" => pending' # "None"
    /\ pc' = IF pending' = "None" THEN "read" ELSE "readDone"
    /\ UNCHANGED <<verdict, state, execution, readCompleted, ownVars, flagVars, clockVars,
                   connected, toSend, calls, moved>>

\* The parser stops short of the end of the buffer, or the message is complete
\* and the handler has queued nothing.
ReadRejected ==
    /\ pc = "read" /\ unread > 0
    /\ unread' = unread - 1
    /\ Errored
    /\ pc' = "checkRead"
    /\ UNCHANGED <<verdict, firstLoop, age, quiet, connected, toSend, moved>>

\* available() has no more bytes, or read() returns none.
ReadDrained ==
    /\ pc = "read"
    /\ readCompleted' \in {FALSE, unread = 0 /\ ~connected}
    /\ pc' = "readDone"
    /\ UNCHANGED <<verdict, state, execution, consumedInput, message, pending, ownVars,
                   flagVars, clockVars, netVars, calls, moved>>

\* The rest of readFromClientIntoParser: startActivity, then the queued result.
AfterRead(next) ==
    /\ pc = "readDone"
    /\ quiet' = IF consumedInput THEN 0 ELSE quiet
    /\ pc' = next
    /\ UNCHANGED <<verdict, firstLoop, age, netVars, moved>>

NoResultYet ==
    /\ AfterRead("checkRead") /\ pending = "None"
    /\ UNCHANGED <<state, execVars, ownVars, startedNotified, disconnectNotified, timedOut,
                   requestAge, calls>>

\* takeResult, whatever comes of it
Taken == calls' = [calls EXCEPT !.taken = Bump(@)]

\* Mutant of TakeResponse: the stream is not tested for null.
BugNullResponse ==
    /\ AfterRead("checkRead") /\ pending \in {"Response", "NullResponse"}
    /\ MarkRead("None") /\ Taken
    /\ stream' \in IF pending = "Response" THEN 0..MaxChunks ELSE {NoStream}
    /\ state' = "Writing"
    /\ UNCHANGED <<session, startedNotified, disconnectNotified, timedOut, requestAge>>

TakeResponse ==
    /\ AfterRead("checkRead") /\ pending = "Response"
    /\ MarkRead("None") /\ Taken
    /\ stream' \in 0..MaxChunks
    /\ state' = "Writing"
    /\ UNCHANGED <<session, startedNotified, disconnectNotified, timedOut, requestAge>>

\* From here on the session is the execution in charge.
TakeUpgrade ==
    /\ AfterRead("checkRead") /\ pending = "Upgrade"
    /\ MarkRead("None")
    /\ calls' = [NoCalls EXCEPT !.taken = Bump(calls.taken)]
    /\ session' \in Sessions
    /\ state' = "Upgraded"
    /\ UNCHANGED <<stream, startedNotified, disconnectNotified, timedOut, requestAge>>

TakeFailure ==
    /\ AfterRead("checkRead") /\ pending \in {"Failure", "NullResponse", "NullUpgrade"}
    /\ Errored

TakeNoResponse ==
    /\ AfterRead("nextRead") /\ pending = "NoResponse"
    /\ MarkRead("None") /\ Taken
    /\ UNCHANGED <<state, ownVars, startedNotified, disconnectNotified, timedOut, requestAge>>

-----------------------------------------------------------------------------
(* writeResponseToClientFromStream *)

\* Mutant of BeginWrite: the handler is notified by every call that writes.
BugNotifyEveryWrite ==
    /\ pc = "beginWrite"
    /\ pc' = IF stream = NoStream THEN "checkWrite" ELSE "write"
    /\ IF stream = NoStream
       THEN UNCHANGED <<startedNotified, pending, calls>>
       ELSE /\ startedNotified' = TRUE
            /\ IF execution
               THEN calls' = [calls EXCEPT !.started = Bump(@)] /\ HandlerMayQueue
               ELSE UNCHANGED <<calls, pending>>
    /\ UNCHANGED <<verdict, state, execution, readCompleted, consumedInput, message, ownVars,
                   disconnectNotified, timedOut, firstLoop, clockVars, netVars, moved>>

BeginWrite ==
    /\ pc = "beginWrite"
    /\ pc' = IF stream = NoStream THEN "checkWrite" ELSE "write"
    /\ IF startedNotified \/ stream = NoStream
       THEN UNCHANGED <<startedNotified, pending, calls>>
       ELSE /\ startedNotified' = TRUE
            /\ IF execution
               THEN calls' = [calls EXCEPT !.started = Bump(@)] /\ HandlerMayQueue
               ELSE UNCHANGED <<calls, pending>>
    /\ UNCHANGED <<verdict, state, execution, readCompleted, consumedInput, message, ownVars,
                   disconnectNotified, timedOut, firstLoop, clockVars, netVars, moved>>

WriteChunk ==
    /\ pc = "write" /\ stream > 0
    /\ stream' = stream - 1
    /\ quiet' = 0
    /\ pc' = "activityCheck"
    /\ UNCHANGED <<verdict, state, execVars, session, flagVars, age, requestAge, netVars,
                   calls, moved>>

\* The client takes less than it was given.
WriteShort ==
    /\ pc = "write" /\ stream > 0
    /\ Errored
    /\ quiet' = 0
    /\ pc' = "checkWrite"
    /\ UNCHANGED <<verdict, firstLoop, age, netVars, moved>>

\* checkActivityTimeout in the write loop
ActivityCheck ==
    /\ pc = "activityCheck"
    /\ IF quiet > ActivityTimeout
       THEN TimedOutNow /\ pc' = "checkWrite"
       ELSE UNCHANGED <<state, execVars, timedOut, connected, calls>> /\ pc' = "write"
    /\ UNCHANGED <<verdict, ownVars, startedNotified, disconnectNotified, firstLoop, clockVars,
                   unread, toSend, moved>>

\* The stream has nothing to give for now.
WriteStalls ==
    /\ pc = "write"
    /\ pc' = "checkWrite"
    /\ UNCHANGED <<verdict, state, execVars, ownVars, flagVars, clockVars, netVars, calls, moved>>

\* Mutant of ResponseSent: a stream with nothing to give is taken for an exhausted one.
BugStallIsEnd ==
    /\ pc = "write"
    /\ stream' = NoStream
    /\ IF execution /\ startedNotified
       THEN calls' = [calls EXCEPT !.completed = Bump(@)] /\ HandlerMayQueue
       ELSE UNCHANGED <<calls, pending>>
    /\ startedNotified' = FALSE
    /\ pc' = "nextWrite"
    /\ UNCHANGED <<verdict, state, execution, readCompleted, consumedInput, message, session,
                   disconnectNotified, timedOut, firstLoop, clockVars, netVars, moved>>

ResponseSent ==
    /\ pc = "write" /\ stream = 0
    /\ stream' = NoStream
    /\ IF execution /\ startedNotified
       THEN calls' = [calls EXCEPT !.completed = Bump(@)] /\ HandlerMayQueue
       ELSE UNCHANGED <<calls, pending>>
    /\ startedNotified' = FALSE
    /\ pc' = "nextWrite"
    /\ UNCHANGED <<verdict, state, execution, readCompleted, consumedInput, message, session,
                   disconnectNotified, timedOut, firstLoop, clockVars, netVars, moved>>

-----------------------------------------------------------------------------
(* beginNextKeepAliveRequest, after a response or after a NoResponse *)

AfterNext == pc' = CASE pc = "nextRead" -> "checkRead" [] pc = "nextWrite" -> "checkWrite"

\* Mutant of NextRequest: the execution of the last request is kept.
BugSameExecution ==
    /\ pc \in {"nextRead", "nextWrite"}
    /\ execution /\ connected
    /\ state' = "Reading"
    /\ readCompleted' = FALSE /\ message' = "None"
    /\ stream' = NoStream /\ session' = "None"
    /\ startedNotified' = FALSE /\ disconnectNotified' = FALSE
    /\ AfterNext
    /\ UNCHANGED <<execution, consumedInput, pending, timedOut, calls, requestAge,
                   verdict, firstLoop, age, quiet, netVars, moved>>

\* llhttp says the connection is kept and the factory returns a handler.
NextRequest ==
    /\ pc \in {"nextRead", "nextWrite"}
    /\ execution /\ connected
    /\ FreshRequest
    /\ AfterNext
    /\ UNCHANGED <<verdict, firstLoop, age, quiet, netVars, moved>>

\* Otherwise the connection is done; a factory that returns no handler ends here
\* too, its Error overwritten by the caller.
LastRequest ==
    /\ pc \in {"nextRead", "nextWrite"}
    /\ state' = "Completed"
    /\ AfterNext
    /\ UNCHANGED <<verdict, execVars, ownVars, flagVars, clockVars, netVars, calls, moved>>

-----------------------------------------------------------------------------
(* handleActiveSession, one turn of the session it owns.  activeSession_ is never *)
(* null here (Ownership), so its null check is not a step.                       *)

SessionTurn ==
    /\ pc = "session" /\ session # "None"
    /\ unread' \in 0..unread
    /\ moved' \in BOOLEAN /\ (unread' # unread => moved')
    /\ quiet' = 0
    /\ pc' = "checkSession"
    /\ UNCHANGED <<verdict, firstLoop, age, toSend>>

SessionContinues ==
    /\ SessionTurn
    /\ UNCHANGED <<state, execVars, ownVars, startedNotified, disconnectNotified, timedOut,
                   requestAge, connected, calls>>

SessionCompletes ==
    /\ SessionTurn
    /\ session' = "None" /\ state' = "Completed"
    /\ UNCHANGED <<execVars, stream, startedNotified, disconnectNotified, timedOut,
                   requestAge, connected, calls>>

SessionAborts ==
    /\ SessionTurn
    /\ connected' = FALSE /\ state' = "Aborted"
    /\ UNCHANGED <<execVars, ownVars, startedNotified, disconnectNotified, timedOut,
                   requestAge, calls>>

SessionFails ==
    /\ SessionTurn
    /\ Errored
    /\ UNCHANGED connected

-----------------------------------------------------------------------------
(* checkIdleTimeout *)

IdleLimit == IF state \in {"Writing", "Upgraded"} THEN ActivityTimeout ELSE ReadTimeout

IdleCheck ==
    /\ pc = "idleTimeout"
    /\ IF state \in LiveStates /\ quiet > IdleLimit
       THEN TimedOutNow
       ELSE UNCHANGED <<state, execVars, timedOut, connected, calls>>
    /\ pc' = "checkFinal"
    /\ UNCHANGED <<verdict, ownVars, startedNotified, disconnectNotified, firstLoop, clockVars,
                   unread, toSend, moved>>

-----------------------------------------------------------------------------
(* Calls from outside, between two calls of handleClient *)

Abort ==
    /\ pc = "idle"
    /\ state' = "Aborted"
    /\ MarkRead(pending)
    /\ stream' = NoStream /\ session' = "None"
    /\ UNCHANGED <<pc, verdict, flagVars, clockVars, netVars, calls, moved>>

AbortReadingRequest ==
    /\ pc = "idle" /\ execution
    /\ MarkRead(pending)
    /\ UNCHANGED <<pc, verdict, state, ownVars, flagVars, clockVars, netVars, calls, moved>>

\* abortWritingResponse, the next request accepted on the same connection
AbortWritingNext ==
    /\ pc = "idle" /\ state \in {"Writing", "Upgraded"}
    /\ execution /\ connected
    /\ FreshRequest
    /\ UNCHANGED <<pc, verdict, firstLoop, age, quiet, netVars, moved>>

AbortWritingLast ==
    /\ pc = "idle"
    /\ stream' = NoStream /\ session' = "None"
    /\ state' = IF state \in {"Writing", "Upgraded"} THEN "Completed" ELSE state
    /\ UNCHANGED <<pc, verdict, execVars, flagVars, clockVars, netVars, calls, moved>>

\* HttpServerBase::end drops the pipeline as it is.
ServerEnds ==
    /\ pc = "idle"
    /\ Return("Dropped")
    /\ UNCHANGED <<state, execVars, ownVars, flagVars, clockVars, netVars, calls, moved>>

-----------------------------------------------------------------------------
Environment == ClientSends \/ ClientDisconnects \/ Tick
Api == Abort \/ AbortReadingRequest \/ AbortWritingNext \/ AbortWritingLast \/ ServerEnds
Service ==
    \/ HandleClient
    \/ CheckTotalTimeout \/ CheckTerminal \/ CheckDisconnect \/ CheckPasses
    \/ BeginRead \/ ReadBuffer \/ ReadRejected \/ ReadDrained
    \/ NoResultYet \/ TakeResponse \/ TakeUpgrade \/ TakeFailure \/ TakeNoResponse
    \/ BeginWrite \/ WriteChunk \/ WriteShort \/ ActivityCheck \/ WriteStalls \/ ResponseSent
    \/ NextRequest \/ LastRequest
    \/ SessionContinues \/ SessionCompletes \/ SessionAborts \/ SessionFails
    \/ IdleCheck

\* The pipeline is gone: nothing is left to do.
Gone == pc = "erased" /\ UNCHANGED vars

Next == Environment \/ Api \/ Service \/ Gone
Spec == Init /\ [][Next]_vars

\* The server's loop calls handleClient for ever and each call runs on; time passes.
Fairness == WF_vars(Service) /\ WF_vars(Tick)
FairSpec == Spec /\ Fairness

-----------------------------------------------------------------------------
(* Properties *)

\* What the pipeline owns fits its state: a request being read has its execution and
\* nothing else, a response being written has its stream (dropped only in the step
\* before the next request), an upgraded connection has its session and no stream.
\* Every use of these pointers in HttpPipeline.cpp rests on it.
Ownership ==
    /\ state = "Reading" => execution /\ stream = NoStream /\ session = "None"
    /\ state = "Writing" => /\ execution /\ session = "None"
                            /\ stream = NoStream <=> pc = "nextWrite"
    /\ state = "Upgraded" => execution /\ session # "None" /\ stream = NoStream

\* A request's handler gives its result at most once, although it is called again
\* (onResponseStarted, onResponseCompleted, llhttp_finish) and may queue another.
OneResultPerRequest == calls.taken <= 1

\* onResponseStarted reaches a handler at most once, however many calls of
\* handleClient the response takes, and onResponseCompleted only after it.
ResponseNotifications == calls.started <= 1 /\ calls.completed <= calls.started

\* The execution in charge of the connection hears of its end at most once: one
\* timeout or one disconnect, never both, over all the checks of a call.
ToldOnce == calls.told <= 1

\* When handleClient reports that the client went away, the handler or session that
\* was in charge has heard of it (a session without a protocol execution cannot).
DisconnectIsTold == verdict = "ClientDisconnected" => calls.told = 1 \/ session = "Opaque"

\* A timeout that ends a live connection is told to whoever is in charge, and a
\* client that was being written to is stopped in the same step.
TimeoutTellsAndStops ==
    [][~timedOut /\ timedOut' /\ state \in LiveStates =>
          /\ session # "Opaque" => calls'.told = calls.told + 1
          /\ state # "Reading" => ~connected']_vars

\* Inside handleClient a response stream is dropped only when all of it was written
\* or the connection fails: no next request starts after half a response.
ResponseNotTruncated ==
    [][stream # NoStream /\ stream' = NoStream /\ pc # "idle" =>
          stream = 0 \/ state' = "Error"]_vars

\* A connection that has ended never comes back to life, whatever is called on it.
TerminalIsFinal ==
    [][(state \in TerminalStates) => (state' \in TerminalStates)]_vars

\* Every connection ends, by one of its verdicts.
Terminates == <>(pc = "erased")

\* Defines.h: the activity timeout "resets on each successful read/write".
ActivityClockFollowsIO ==
    [][quiet > 0 /\ quiet' = 0 /\ pc # "idle" =>
          \/ pc = "readDone" /\ consumedInput
          \/ stream' # stream
          \/ moved']_vars

\* Defines.h: the total length is the "maximum total time allowed for a complete
\* HTTP request in a pipeline": a request that has had less is not timed out by it.
TotalTimeIsPerRequest ==
    [][~timedOut /\ timedOut' /\ pc \in Checks => requestAge > TotalLength]_vars

-----------------------------------------------------------------------------
(* The lifecycle a connection promises, and how this module implements it *)

Phase ==
    CASE pc = "erased"                   -> "Gone"
      [] pc # "erased" /\ state = "Error" -> IF timedOut THEN "TimedOut" ELSE "Failed"
      [] OTHER                           -> state

Lifecycle == INSTANCE ConnectionLifecycle
                 WITH phase <- Phase, told <- calls.told > 0, verdict <- verdict
ImplementsLifecycle == Lifecycle!Spec
=============================================================================
