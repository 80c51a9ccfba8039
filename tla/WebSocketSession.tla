-------------------------- MODULE WebSocketSession --------------------------
(***************************************************************************)
(* An upgraded connection: WebSocketProtocolExecution with the              *)
(* WebSocketContext it owns (websocket/WebSocketProtocolExecution.cpp,      *)
(* websocket/WebSocketContext.cpp), as HttpPipeline drives it.              *)
(*                                                                          *)
(* A call of handle() is a sequence of steps (`pc`), because it calls the   *)
(* application back in the middle of it, and the application may send or    *)
(* close from any callback.  Writing is one slot, pendingWrite_, that holds *)
(* at most one frame and may block for any number of calls.                 *)
(*                                                                          *)
(* Frames are abstracted to what they make the session do; what the peer    *)
(* sends is chosen when a frame is parsed, within what the state of         *)
(* WebSocketFrameParser lets through.  A buffer read from the socket is the *)
(* number of whole frames in it.  Close codes and reasons are left out.     *)
(***************************************************************************)
EXTENDS Integers

CONSTANTS
    MaxUnread,  \* buffers waiting in the socket (environment bound)
    MaxFrames   \* whole frames in one buffer (environment bound)

ASSUME BoundsAssumption ==
    MaxUnread \in Nat \ {0} /\ MaxFrames \in Nat \ {0}

VARIABLES
    pc,              \* where handle() stands, or the callback it is in
    verdict,         \* what handle() returned last, or how the session was ended
    closeState,      \* closeState_
    context,         \* WebSocketContext::state_
    pending,         \* the frame in pendingWrite_
    handshakeWritten,\* handshakeWritten_
    received,        \* receivedCloseFrame_
    openNotified,    \* WebSocketContext::openNotified_
    closeNotified,   \* WebSocketContext::closeNotified_
    expecting,       \* the parser's expectingContinuation_
    stuck,           \* the parser repeats its last error: its frame is never reset
    assembling,      \* assemblingMessage_
    left,            \* frames left in the buffer being parsed
    connected,       \* IClient::connected()
    unread,          \* buffers IClient::available() reports
    expired,         \* the pipeline's total time has passed
    closeWritten     \* history: a Close frame went out whole

closeVars    == <<closeState, context, received, openNotified, closeNotified>>
writeVars    == <<pending, handshakeWritten, closeWritten>>
parserVars   == <<expecting, stuck, assembling, left>>
networkVars  == <<connected, unread, expired>>
vars == <<pc, verdict, closeVars, writeVars, parserVars, networkVars>>

-----------------------------------------------------------------------------
CallbackPcs == {"onOpen", "onMessage", "onErrorFinal", "onErrorViolation", "onErrorOrphan",
                "onErrorTooBig", "onClose"}
Pcs == CallbackPcs \cup {"idle", "flush", "read", "parse", "frameDone", "drained", "ended"}
Frames == {"Handshake", "Data", "Pong", "Close"}

\* The type of the state: in particular the slot holds one frame and no buffer is
\* read that is not there.
TypeOK ==
    /\ pc \in Pcs
    /\ verdict \in {"Continue", "Completed", "Abort", "Told", "Dropped"}
    /\ closeState \in {"Open", "CloseQueued", "CloseSent", "Closed"}
    /\ context \in {"Handshaking", "Open", "Closing", "Closed"}
    /\ pending \in Frames \cup {"None"}
    /\ {handshakeWritten, received, openNotified, closeNotified, expecting, stuck,
        assembling, connected, expired, closeWritten} \subseteq BOOLEAN
    /\ left \in 0..MaxFrames /\ unread \in 0..MaxUnread

Init ==
    /\ pc = "idle" /\ verdict = "Continue"
    /\ closeState = "Open" /\ context = "Handshaking"
    /\ pending = "Handshake" /\ handshakeWritten = FALSE
    /\ received = FALSE /\ openNotified = FALSE /\ closeNotified = FALSE
    /\ expecting = FALSE /\ stuck = FALSE /\ assembling = FALSE /\ left = 0
    /\ connected = TRUE /\ unread = 0 /\ expired = FALSE
    /\ closeWritten = FALSE

-----------------------------------------------------------------------------
(* The peer and the clock *)

\* The peer may go on for ever; the socket holds so much at a time.
PeerSends ==
    /\ pc # "ended" /\ connected /\ unread < MaxUnread
    /\ unread' = unread + 1
    /\ UNCHANGED <<pc, verdict, closeVars, writeVars, parserVars, connected, expired>>

PeerDisconnects ==
    /\ pc # "ended" /\ connected
    /\ connected' = FALSE
    /\ UNCHANGED <<pc, verdict, closeVars, writeVars, parserVars, unread, expired>>

Expires ==
    /\ pc # "ended" /\ ~expired
    /\ expired' = TRUE
    /\ UNCHANGED <<pc, verdict, closeVars, writeVars, parserVars, connected, unread>>

-----------------------------------------------------------------------------
(* Helpers of the class *)

\* queueSerializedFrame: a frame is queued into an empty slot or not at all.
Queue(frame) == pending' = IF pending = "None" THEN frame ELSE pending

\* flushPendingWrite, all of it written
Flushed ==
    /\ pending' = "None"
    /\ closeWritten' = (closeWritten \/ pending = "Close")

\* flushPendingWrite, the client takes no more
Blocked == pending # "None" /\ UNCHANGED <<pending, closeWritten>>

\* beginClosing; context_.markClosing leaves a closed context alone.
BeginClosing ==
    /\ closeState' = "CloseQueued"
    /\ context' = IF context = "Closed" THEN context ELSE "Closing"

\* context_.notifyClose, up to the callback
NotifyClose ==
    /\ closeNotified' = TRUE
    /\ context' = "Closed"
    /\ pc' = "onClose"

\* The queued frame is out and a close was queued: CloseSent, and done if the peer's
\* Close has come.
CloseIsOut ==
    /\ closeState' = "CloseSent"
    /\ IF received
       THEN NotifyClose /\ verdict' = "Completed"
       ELSE UNCHANGED <<context, closeNotified, verdict>>

-----------------------------------------------------------------------------
(* The application, from inside a callback.  The calls that return an error change *)
(* nothing and are no steps.                                                      *)

MayCall ==
    /\ pc \in CallbackPcs
    /\ closeState = "Open" /\ handshakeWritten /\ context = "Open"
    /\ pending = "None"

\* Mutant of AppSends: a closing session still takes data.
BugSendWhileClosing ==
    /\ pc \in CallbackPcs /\ handshakeWritten /\ pending = "None"
    /\ pending' = "Data"
    /\ UNCHANGED <<pc, verdict, closeVars, handshakeWritten, closeWritten, parserVars,
                   networkVars>>

AppSends ==
    /\ MayCall
    /\ pending' = "Data"
    /\ UNCHANGED <<pc, verdict, closeVars, handshakeWritten, closeWritten, parserVars,
                   networkVars>>

AppCloses ==
    /\ MayCall
    /\ Queue("Close")
    /\ BeginClosing
    /\ UNCHANGED <<pc, verdict, received, openNotified, closeNotified, handshakeWritten,
                   closeWritten, parserVars, networkVars>>

-----------------------------------------------------------------------------
(* The pipeline, between two calls of handle *)

\* Mutant of Handle: the total time does not apply to an upgraded connection.
BugHandleExpired ==
    /\ pc = "idle" /\ connected
    /\ pc' = "flush"
    /\ UNCHANGED <<verdict, closeVars, writeVars, parserVars, networkVars>>

Handle ==
    /\ pc = "idle" /\ ~expired /\ connected
    /\ pc' = "flush"
    /\ UNCHANGED <<verdict, closeVars, writeVars, parserVars, networkVars>>

\* The client is found gone by handle itself.
HandleLost ==
    /\ pc = "idle" /\ ~expired /\ ~connected
    /\ pc' = "onErrorFinal" /\ verdict' = "Abort"
    /\ UNCHANGED <<closeVars, writeVars, parserVars, networkVars>>

\* onError(Timeout) or onDisconnect from the pipeline's state check
Told ==
    /\ pc = "idle" /\ (expired \/ ~connected)
    /\ closeState # "Closed"
    /\ pc' = "onErrorFinal" /\ verdict' = "Told"
    /\ UNCHANGED <<closeVars, writeVars, parserVars, networkVars>>

\* The pipeline is aborted, or the server ends: the session is destroyed as it is.
Dropped ==
    /\ pc = "idle"
    /\ pc' = "ended" /\ verdict' = "Dropped"
    /\ UNCHANGED <<closeVars, writeVars, parserVars, networkVars>>

-----------------------------------------------------------------------------
(* handle: what is pending goes first *)

\* Mutant of FlushBlocked: the loop reads although the handshake has not gone out.
BugReadWhileBlocked ==
    /\ pc = "flush" /\ Blocked
    /\ pc' = "read"
    /\ UNCHANGED <<verdict, closeVars, handshakeWritten, parserVars, networkVars>>

FlushBlocked ==
    /\ pc = "flush" /\ Blocked
    /\ pc' = "idle" /\ verdict' = "Continue"
    /\ UNCHANGED <<closeVars, handshakeWritten, parserVars, networkVars>>

FlushOpens ==
    /\ pc = "flush" /\ ~handshakeWritten
    /\ Flushed /\ handshakeWritten' = TRUE
    /\ openNotified' = TRUE /\ context' = "Open"
    /\ pc' = "onOpen"
    /\ UNCHANGED <<verdict, closeState, received, closeNotified, parserVars, networkVars>>

FlushGoesOn ==
    /\ pc = "flush" /\ handshakeWritten
    /\ pending = "None" \/ closeState # "CloseQueued"
    /\ Flushed
    /\ pc' = "read"
    /\ UNCHANGED <<verdict, closeVars, handshakeWritten, parserVars, networkVars>>

FlushedClose ==
    /\ pc = "flush" /\ handshakeWritten
    /\ pending # "None" /\ closeState = "CloseQueued"
    /\ Flushed /\ CloseIsOut
    /\ ~received => pc' = "read"
    /\ UNCHANGED <<received, openNotified, handshakeWritten, parserVars, networkVars>>

-----------------------------------------------------------------------------
(* handle: the read loop *)

ReadBuffer ==
    /\ pc = "read" /\ unread > 0
    /\ unread' = unread - 1
    /\ left' \in IF stuck THEN {1} ELSE 0..MaxFrames
    /\ pc' = "parse"
    /\ UNCHANGED <<verdict, closeVars, writeVars, expecting, stuck, assembling,
                   connected, expired>>

ReadNothing ==
    /\ pc = "read"
    /\ pc' = "drained"
    /\ UNCHANGED <<verdict, closeVars, writeVars, parserVars, networkVars>>

\* Only an open session reads another buffer.
NextBuffer == IF closeState = "Open" THEN "read" ELSE "drained"

BufferEnds ==
    /\ pc = "parse" /\ left = 0
    /\ pc' = NextBuffer
    /\ UNCHANGED <<verdict, closeVars, writeVars, parserVars, networkVars>>

Parse == pc = "parse" /\ left > 0
ParseFrame == Parse /\ ~stuck /\ left' = left - 1 /\ stuck' = stuck

\* A frame that cannot be parsed ends the session without a closing handshake.
ParseMalformed ==
    /\ ParseFrame
    /\ pc' = "onErrorFinal" /\ verdict' = "Abort"
    /\ UNCHANGED <<closeVars, writeVars, expecting, assembling, networkVars>>

\* A protocol violation.  Unless it is found in the frame's first two bytes the
\* parser stays at the end of the frame's payload and finds it again and again.
ParseViolation ==
    /\ Parse
    /\ left' = 0
    /\ stuck' \in {stuck, TRUE}
    /\ pc' = "onErrorViolation"
    /\ UNCHANGED <<verdict, closeVars, writeVars, expecting, assembling, networkVars>>

ParsePing ==
    /\ ParseFrame
    /\ Queue("Pong")
    /\ pc' = "frameDone"
    /\ UNCHANGED <<verdict, closeVars, handshakeWritten, closeWritten, expecting, assembling,
                   networkVars>>

ParsePong ==
    /\ ParseFrame
    /\ pc' = "frameDone"
    /\ UNCHANGED <<verdict, closeVars, writeVars, expecting, assembling, networkVars>>

ParseClose ==
    /\ ParseFrame
    /\ received' = TRUE
    /\ IF closeState = "Open"
       THEN Queue("Close") /\ BeginClosing
       ELSE UNCHANGED <<pending, closeState, context>>
    /\ pc' = "frameDone"
    /\ UNCHANGED <<verdict, openNotified, closeNotified, handshakeWritten, closeWritten,
                   expecting, assembling, networkVars>>

\* A whole message: one frame, or the last fragment of it.
ParseMessage ==
    /\ ParseFrame
    /\ expecting => assembling
    /\ expecting' = FALSE /\ assembling' = FALSE
    /\ pc' = "onMessage"
    /\ UNCHANGED <<verdict, closeVars, writeVars, networkVars>>

\* The first fragment of a message or one in the middle.
ParseFragment ==
    /\ ParseFrame
    /\ expecting => assembling
    /\ expecting' = TRUE /\ assembling' = TRUE
    /\ pc' = "frameDone"
    /\ UNCHANGED <<verdict, closeVars, writeVars, networkVars>>

\* The parser expects a continuation, the session does not: the first fragment was
\* rejected for its size.
ParseOrphan ==
    /\ ParseFrame
    /\ expecting /\ ~assembling
    /\ expecting' \in BOOLEAN
    /\ pc' = "onErrorOrphan"
    /\ UNCHANGED <<verdict, closeVars, writeVars, assembling, networkVars>>

\* A frame, or the message it belongs to, exceeds its limit.
ParseTooBig ==
    /\ ParseFrame
    /\ expecting' \in BOOLEAN
    /\ assembling' \in {assembling, assembling \/ (~expecting /\ expecting')}
    /\ pc' = "onErrorTooBig"
    /\ UNCHANGED <<verdict, closeVars, writeVars, networkVars>>

\* After each frame.  A blocked write leaves the rest of the buffer behind.
FrameFlushed ==
    /\ pc = "frameDone"
    /\ Flushed
    /\ IF closeState = "Open"
       THEN pc' = "parse" /\ left' = left
       ELSE pc' = "drained" /\ left' = 0
    /\ UNCHANGED <<verdict, closeVars, handshakeWritten, expecting, stuck, assembling,
                   networkVars>>

FrameBlocked ==
    /\ pc = "frameDone" /\ Blocked
    /\ pc' = NextBuffer
    /\ left' = 0
    /\ UNCHANGED <<verdict, closeVars, handshakeWritten, expecting, stuck, assembling,
                   networkVars>>

-----------------------------------------------------------------------------
(* handle: after the read loop *)

DrainedOpen ==
    /\ pc = "drained" /\ closeState = "Open"
    /\ Flushed \/ Blocked
    /\ pc' = "idle" /\ verdict' = "Continue"
    /\ UNCHANGED <<closeVars, handshakeWritten, parserVars, networkVars>>

DrainedBlocked ==
    /\ pc = "drained" /\ closeState = "CloseQueued"
    /\ Blocked
    /\ pc' = "idle" /\ verdict' = "Continue"
    /\ UNCHANGED <<closeVars, handshakeWritten, parserVars, networkVars>>

\* Mutant of DrainedClose: done as soon as its own Close is out.
BugCompletesAlone ==
    /\ pc = "drained" /\ closeState = "CloseQueued"
    /\ Flushed
    /\ closeState' = "CloseSent"
    /\ NotifyClose /\ verdict' = "Completed"
    /\ UNCHANGED <<received, openNotified, handshakeWritten, parserVars, networkVars>>

DrainedClose ==
    /\ pc = "drained" /\ closeState = "CloseQueued"
    /\ Flushed /\ CloseIsOut
    /\ ~received => pc' = "idle"
    /\ UNCHANGED <<received, openNotified, handshakeWritten, parserVars, networkVars>>

\* A Close frame of its own is out and the peer's, if it has come, changes nothing.
DrainedSent ==
    /\ pc = "drained" /\ closeState = "CloseSent"
    /\ pc' = "idle" /\ verdict' = "Continue"
    /\ UNCHANGED <<closeVars, writeVars, parserVars, networkVars>>

-----------------------------------------------------------------------------
(* The callbacks return *)

OpenReturns ==
    /\ pc = "onOpen"
    /\ pc' = "idle" /\ verdict' = "Continue"
    /\ UNCHANGED <<closeVars, writeVars, parserVars, networkVars>>

MessageReturns ==
    /\ pc = "onMessage"
    /\ pc' = "frameDone"
    /\ UNCHANGED <<verdict, closeVars, writeVars, parserVars, networkVars>>

\* Mutant of FinalErrorReturns: the session ends without onClose.
BugNoOnClose ==
    /\ pc = "onErrorFinal"
    /\ closeState' = "Closed" /\ context' = "Closed"
    /\ pc' = "ended"
    /\ UNCHANGED <<verdict, received, openNotified, closeNotified, writeVars, parserVars,
                   networkVars>>

FinalErrorReturns ==
    /\ pc = "onErrorFinal"
    /\ NotifyClose
    /\ UNCHANGED <<verdict, closeState, received, openNotified, writeVars, parserVars,
                   networkVars>>

ViolationReturns ==
    /\ pc = "onErrorViolation"
    /\ Queue("Close") /\ BeginClosing
    /\ pc' = "drained"
    /\ UNCHANGED <<verdict, received, openNotified, closeNotified, handshakeWritten,
                   closeWritten, parserVars, networkVars>>

\* Mutant of FrameErrorReturns: the context is not told that the session closes.
BugSilentClosing ==
    /\ pc \in {"onErrorOrphan", "onErrorTooBig"}
    /\ Queue("Close") /\ closeState' = "CloseQueued"
    /\ pc' = "frameDone"
    /\ UNCHANGED <<verdict, context, received, openNotified, closeNotified, handshakeWritten,
                   closeWritten, parserVars, networkVars>>

FrameErrorReturns ==
    /\ pc \in {"onErrorOrphan", "onErrorTooBig"}
    /\ Queue("Close") /\ BeginClosing
    /\ pc' = "frameDone"
    /\ UNCHANGED <<verdict, received, openNotified, closeNotified, handshakeWritten,
                   closeWritten, parserVars, networkVars>>

CloseReturns ==
    /\ pc = "onClose"
    /\ closeState' = "Closed"
    /\ pc' = "ended"
    /\ UNCHANGED <<verdict, context, received, openNotified, closeNotified, writeVars,
                   parserVars, networkVars>>

Gone == pc = "ended" /\ UNCHANGED vars

-----------------------------------------------------------------------------
Environment == PeerSends \/ PeerDisconnects \/ Expires
Application == AppSends \/ AppCloses
Returns ==
    \/ OpenReturns \/ MessageReturns \/ FinalErrorReturns \/ ViolationReturns
    \/ FrameErrorReturns \/ CloseReturns
\* What the server does by itself; whether a session that takes these steps comes to its end
\* depends on the peer: ReadBuffer has no bound while bytes come.
Session ==
    \/ Handle \/ HandleLost \/ Told
    \/ FlushBlocked \/ FlushOpens \/ FlushGoesOn \/ FlushedClose
    \/ ReadBuffer \/ ReadNothing \/ BufferEnds
    \/ ParseMalformed \/ ParseViolation \/ ParsePing \/ ParsePong \/ ParseClose
    \/ ParseMessage \/ ParseFragment \/ ParseOrphan \/ ParseTooBig
    \/ FrameFlushed \/ FrameBlocked
    \/ DrainedOpen \/ DrainedBlocked \/ DrainedClose \/ DrainedSent
    \/ Returns

Next == Environment \/ Application \/ Dropped \/ Session \/ Gone
Spec == Init /\ [][Next]_vars

\* The pipeline calls handle for ever, callbacks return, and its time runs out.
Fairness == WF_vars(Session) /\ WF_vars(Expires)

-----------------------------------------------------------------------------
(* Properties *)

\* Nothing goes out and nobody is called before the 101 response is written whole:
\* the slot holds it until then.
HandshakeFirst ==
    handshakeWritten = openNotified /\ (~handshakeWritten <=> pending = "Handshake")

\* The state the application sees (isOpen, isClosing) is the session's own, in every
\* callback: onClose alone runs before the session itself is closed.
ContextAgrees ==
    CASE closeState = "Open"   -> context = (IF pc = "onClose" THEN "Closed"
                                             ELSE IF handshakeWritten THEN "Open"
                                             ELSE "Handshaking")
      [] closeState = "Closed" -> context = "Closed"
      [] OTHER                 -> context = (IF pc = "onClose" THEN "Closed" ELSE "Closing")

\* Messages reach the application between onOpen and onClose only.
MessagesInSession == pc = "onMessage" => openNotified /\ ~closeNotified

\* A session that ends has called onClose, however it ended, unless it is destroyed
\* from outside while it runs.
EndIsNotified == pc = "ended" => (closeNotified <=> verdict # "Dropped")

\* Once a Close frame is out no data frame follows it, not even one queued earlier.
NoDataAfterClose == closeWritten => pending # "Data"

\* A session completes only after the peer's Close came and its own output is out.
CompletionIsMutual == verdict = "Completed" => received /\ pending = "None"

\* Whatever the peer sends, answers or leaves unanswered, and whatever the application does,
\* the session ends, but for one case: a peer that sends for ever can keep one call of handle
\* from returning.  The total time is looked at between two calls only, and the read loop
\* of an open session looks at no clock while there are bytes.
SessionEnds ==
    \/ <>(pc = "ended")
    \/ []<><<PeerSends>>_vars /\ <>[](closeState = "Open" /\ pc # "idle")

\* LIBRARY_DOCUMENTATION.md: "Automatic PONG generation for inbound PING".
PingIsAnswered == [][ParsePing => pending' = "Pong"]_vars
=============================================================================
