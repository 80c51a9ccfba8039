-------------------------- MODULE WebSocketProofs --------------------------
(***************************************************************************)
(* What holds in every session, whatever the peer sends, the application    *)
(* calls and the socket takes.  One inductive invariant ties the state of   *)
(* the session to the state the application sees, to what it has been told  *)
(* and to the frame in the slot.                                            *)
(***************************************************************************)
EXTENDS WebSocketSession, TLAPS

-----------------------------------------------------------------------------
(* Types *)

Flags ==
    {handshakeWritten, received, openNotified, closeNotified, expecting, stuck, assembling,
     connected, expired, closeWritten} \subseteq BOOLEAN

Values ==
    /\ pc \in Pcs
    /\ verdict \in {"Continue", "Completed", "Abort", "Told", "Dropped"}
    /\ closeState \in {"Open", "CloseQueued", "CloseSent", "Closed"}
    /\ context \in {"Handshaking", "Open", "Closing", "Closed"}
    /\ pending \in Frames \cup {"None"}
    /\ left \in 0..MaxFrames /\ unread \in 0..MaxUnread

USE DEF vars, closeVars, writeVars, parserVars, networkVars

LEMMA FlagsStep == Flags /\ [Next]_vars => Flags'
<1> SUFFICES ASSUME Flags, [Next]_vars PROVE Flags'
  OBVIOUS
<1> USE DEF Flags
<1>1. CASE PeerSends
  BY <1>1 DEF PeerSends
<1>2. CASE PeerDisconnects
  BY <1>2 DEF PeerDisconnects
<1>3. CASE Expires
  BY <1>3 DEF Expires
<1>4. CASE AppSends
  BY <1>4 DEF AppSends, MayCall, CallbackPcs
<1>5. CASE AppCloses
  BY <1>5 DEF AppCloses, Queue, BeginClosing, MayCall, CallbackPcs
<1>6. CASE Dropped
  BY <1>6 DEF Dropped
<1>7. CASE Handle
  BY <1>7 DEF Handle
<1>8. CASE HandleLost
  BY <1>8 DEF HandleLost
<1>9. CASE Told
  BY <1>9 DEF Told
<1>10. CASE FlushBlocked
  BY <1>10 DEF FlushBlocked, Blocked
<1>11. CASE FlushOpens
  BY <1>11 DEF FlushOpens, Flushed
<1>12. CASE FlushGoesOn
  BY <1>12 DEF FlushGoesOn, Flushed
<1>13. CASE FlushedClose
  <2>1. closeWritten' \in BOOLEAN
    BY <1>13 DEF FlushedClose, Flushed
  <2>2. closeNotified' \in BOOLEAN
    BY <1>13 DEF FlushedClose, CloseIsOut, NotifyClose
  <2>3. {handshakeWritten, received, openNotified, expecting, stuck, assembling, connected, expired}'
          \subseteq BOOLEAN
    BY <1>13 DEF FlushedClose
  <2> QED BY <2>1, <2>2, <2>3
<1>14. CASE ReadBuffer
  BY <1>14 DEF ReadBuffer
<1>15. CASE ReadNothing
  BY <1>15 DEF ReadNothing
<1>16. CASE BufferEnds
  BY <1>16 DEF BufferEnds, NextBuffer
<1>17. CASE ParseMalformed
  BY <1>17 DEF ParseMalformed, Parse, ParseFrame
<1>18. CASE ParseViolation
  BY <1>18 DEF ParseViolation, Parse
<1>19. CASE ParsePing
  BY <1>19 DEF ParsePing, Parse, ParseFrame, Queue
<1>20. CASE ParsePong
  BY <1>20 DEF ParsePong, Parse, ParseFrame
<1>21. CASE ParseClose
  BY <1>21 DEF ParseClose, Parse, ParseFrame, Queue, BeginClosing
<1>22. CASE ParseMessage
  BY <1>22 DEF ParseMessage, Parse, ParseFrame
<1>23. CASE ParseFragment
  BY <1>23 DEF ParseFragment, Parse, ParseFrame
<1>24. CASE ParseOrphan
  BY <1>24 DEF ParseOrphan, Parse, ParseFrame
<1>25. CASE ParseTooBig
  BY <1>25 DEF ParseTooBig, Parse, ParseFrame
<1>26. CASE FrameFlushed
  BY <1>26 DEF FrameFlushed, Flushed
<1>27. CASE FrameBlocked
  BY <1>27 DEF FrameBlocked, Blocked, NextBuffer
<1>28. CASE DrainedOpen
  BY <1>28 DEF DrainedOpen, Flushed, Blocked
<1>29. CASE DrainedBlocked
  BY <1>29 DEF DrainedBlocked, Blocked
<1>30. CASE DrainedClose
  <2>1. closeWritten' \in BOOLEAN
    BY <1>30 DEF DrainedClose, Flushed
  <2>2. closeNotified' \in BOOLEAN
    BY <1>30 DEF DrainedClose, CloseIsOut, NotifyClose
  <2> QED
    BY <1>30, <2>1, <2>2 DEF DrainedClose
<1>31. CASE DrainedSent
  BY <1>31 DEF DrainedSent
<1>32. CASE OpenReturns
  BY <1>32 DEF OpenReturns
<1>33. CASE MessageReturns
  BY <1>33 DEF MessageReturns
<1>34. CASE FinalErrorReturns
  BY <1>34 DEF FinalErrorReturns, NotifyClose
<1>35. CASE ViolationReturns
  BY <1>35 DEF ViolationReturns, Queue, BeginClosing
<1>36. CASE FrameErrorReturns
  BY <1>36 DEF FrameErrorReturns, Queue, BeginClosing
<1>37. CASE CloseReturns
  BY <1>37 DEF CloseReturns
<1>38. CASE Gone
  BY <1>38 DEF Gone
<1>39. CASE UNCHANGED vars
  BY <1>39
<1> QED
  BY <1>1, <1>2, <1>3, <1>4, <1>5, <1>6, <1>7, <1>8, <1>9, <1>10, <1>11, <1>12, <1>13, <1>14,
     <1>15, <1>16, <1>17, <1>18, <1>19, <1>20, <1>21, <1>22, <1>23, <1>24, <1>25, <1>26, <1>27, <1>28,
     <1>29, <1>30, <1>31, <1>32, <1>33, <1>34, <1>35, <1>36, <1>37, <1>38, <1>39
  DEF Next, Environment, Application, Session, Returns

LEMMA ValuesStep == Values /\ [Next]_vars => Values'
<1> SUFFICES ASSUME Values, [Next]_vars PROVE Values'
  OBVIOUS
<1> USE BoundsAssumption DEF Values, Pcs, Frames, CallbackPcs
<1>1. CASE PeerSends
  BY <1>1 DEF PeerSends
<1>2. CASE PeerDisconnects
  BY <1>2 DEF PeerDisconnects
<1>3. CASE Expires
  BY <1>3 DEF Expires
<1>4. CASE AppSends
  BY <1>4 DEF AppSends, MayCall, CallbackPcs
<1>5. CASE AppCloses
  BY <1>5 DEF AppCloses, Queue, BeginClosing, MayCall, CallbackPcs
<1>6. CASE Dropped
  BY <1>6 DEF Dropped
<1>7. CASE Handle
  BY <1>7 DEF Handle
<1>8. CASE HandleLost
  BY <1>8 DEF HandleLost
<1>9. CASE Told
  BY <1>9 DEF Told
<1>10. CASE FlushBlocked
  BY <1>10 DEF FlushBlocked, Blocked
<1>11. CASE FlushOpens
  BY <1>11 DEF FlushOpens, Flushed
<1>12. CASE FlushGoesOn
  BY <1>12 DEF FlushGoesOn, Flushed
<1>13. CASE FlushedClose
  BY <1>13 DEF FlushedClose, Flushed, NotifyClose, CloseIsOut
<1>14. CASE ReadBuffer
  BY <1>14 DEF ReadBuffer
<1>15. CASE ReadNothing
  BY <1>15 DEF ReadNothing
<1>16. CASE BufferEnds
  BY <1>16 DEF BufferEnds, NextBuffer
<1>17. CASE ParseMalformed
  BY <1>17 DEF ParseMalformed, Parse, ParseFrame
<1>18. CASE ParseViolation
  BY <1>18 DEF ParseViolation, Parse
<1>19. CASE ParsePing
  BY <1>19 DEF ParsePing, Parse, ParseFrame, Queue
<1>20. CASE ParsePong
  BY <1>20 DEF ParsePong, Parse, ParseFrame
<1>21. CASE ParseClose
  BY <1>21 DEF ParseClose, Parse, ParseFrame, Queue, BeginClosing
<1>22. CASE ParseMessage
  BY <1>22 DEF ParseMessage, Parse, ParseFrame
<1>23. CASE ParseFragment
  BY <1>23 DEF ParseFragment, Parse, ParseFrame
<1>24. CASE ParseOrphan
  BY <1>24 DEF ParseOrphan, Parse, ParseFrame
<1>25. CASE ParseTooBig
  BY <1>25 DEF ParseTooBig, Parse, ParseFrame
<1>26. CASE FrameFlushed
  BY <1>26 DEF FrameFlushed, Flushed
<1>27. CASE FrameBlocked
  BY <1>27 DEF FrameBlocked, Blocked, NextBuffer
<1>28. CASE DrainedOpen
  BY <1>28 DEF DrainedOpen, Flushed, Blocked
<1>29. CASE DrainedBlocked
  BY <1>29 DEF DrainedBlocked, Blocked
<1>30. CASE DrainedClose
  BY <1>30 DEF DrainedClose, Flushed, NotifyClose, CloseIsOut
<1>31. CASE DrainedSent
  BY <1>31 DEF DrainedSent
<1>32. CASE OpenReturns
  BY <1>32 DEF OpenReturns
<1>33. CASE MessageReturns
  BY <1>33 DEF MessageReturns
<1>34. CASE FinalErrorReturns
  BY <1>34 DEF FinalErrorReturns, NotifyClose
<1>35. CASE ViolationReturns
  BY <1>35 DEF ViolationReturns, Queue, BeginClosing
<1>36. CASE FrameErrorReturns
  BY <1>36 DEF FrameErrorReturns, Queue, BeginClosing
<1>37. CASE CloseReturns
  BY <1>37 DEF CloseReturns
<1>38. CASE Gone
  BY <1>38 DEF Gone
<1>39. CASE UNCHANGED vars
  BY <1>39
<1> QED
  BY <1>1, <1>2, <1>3, <1>4, <1>5, <1>6, <1>7, <1>8, <1>9, <1>10, <1>11, <1>12, <1>13, <1>14,
     <1>15, <1>16, <1>17, <1>18, <1>19, <1>20, <1>21, <1>22, <1>23, <1>24, <1>25, <1>26, <1>27, <1>28,
     <1>29, <1>30, <1>31, <1>32, <1>33, <1>34, <1>35, <1>36, <1>37, <1>38, <1>39
  DEF Next, Environment, Application, Session, Returns

-----------------------------------------------------------------------------
(* The inductive invariant *)

\* Until the handshake is out nothing else happens: nobody but an error or the end has its turn.
BeforeHandshake ==
    ~handshakeWritten =>
        /\ pc \in {"idle", "flush", "onErrorFinal", "onClose", "ended"}
        /\ closeState \in {"Open", "Closed"}

\* onClose is called where a session ends, there only, and once.
Notified == closeNotified <=> pc = "onClose" \/ (pc = "ended" /\ verdict # "Dropped")

ClosedAtEnd ==
    /\ closeState = "Closed" => pc = "ended"
    /\ pc = "ended" /\ verdict # "Dropped" => closeState = "Closed"
    /\ verdict = "Dropped" => pc = "ended"

CompletedLast ==
    verdict = "Completed" => pc \in {"onClose", "ended"} /\ received /\ pending = "None"

\* A Close frame is queued by a session that is closing, and what is queued after one has gone
\* out is no data.
ClosingOnly ==
    /\ pending = "Close" => closeState # "Open"
    /\ closeWritten => pending # "Data" /\ closeState # "Open"

Inv ==
    /\ HandshakeFirst /\ BeforeHandshake
    /\ ContextAgrees
    /\ Notified /\ ClosedAtEnd /\ CompletedLast
    /\ ClosingOnly

USE DEF Inv, HandshakeFirst, BeforeHandshake, ContextAgrees, Notified, ClosedAtEnd, CompletedLast,
        ClosingOnly

LEMMA Initially == Init => Inv
BY DEF Init

LEMMA Inductive == Inv /\ [Next]_vars => Inv'
<1> SUFFICES ASSUME Inv, [Next]_vars PROVE Inv'
  OBVIOUS
<1>1. CASE PeerSends
  BY <1>1 DEF PeerSends
<1>2. CASE PeerDisconnects
  BY <1>2 DEF PeerDisconnects
<1>3. CASE Expires
  BY <1>3 DEF Expires
<1>4. CASE AppSends
  BY <1>4 DEF AppSends, MayCall, CallbackPcs
<1>5. CASE AppCloses
  BY <1>5 DEF AppCloses, Queue, BeginClosing, MayCall, CallbackPcs
<1>6. CASE Dropped
  BY <1>6 DEF Dropped
<1>7. CASE Handle
  BY <1>7 DEF Handle
<1>8. CASE HandleLost
  BY <1>8 DEF HandleLost
<1>9. CASE Told
  BY <1>9 DEF Told
<1>10. CASE FlushBlocked
  BY <1>10 DEF FlushBlocked, Blocked
<1>11. CASE FlushOpens
  BY <1>11 DEF FlushOpens, Flushed
<1>12. CASE FlushGoesOn
  BY <1>12 DEF FlushGoesOn, Flushed
<1>13. CASE FlushedClose
  BY <1>13 DEF FlushedClose, Flushed, NotifyClose, CloseIsOut
<1>14. CASE ReadBuffer
  BY <1>14 DEF ReadBuffer
<1>15. CASE ReadNothing
  BY <1>15 DEF ReadNothing
<1>16. CASE BufferEnds
  BY <1>16 DEF BufferEnds, NextBuffer
<1>17. CASE ParseMalformed
  BY <1>17 DEF ParseMalformed, Parse, ParseFrame
<1>18. CASE ParseViolation
  BY <1>18 DEF ParseViolation, Parse
<1>19. CASE ParsePing
  BY <1>19 DEF ParsePing, Parse, ParseFrame, Queue
<1>20. CASE ParsePong
  BY <1>20 DEF ParsePong, Parse, ParseFrame
<1>21. CASE ParseClose
  BY <1>21 DEF ParseClose, Parse, ParseFrame, Queue, BeginClosing
<1>22. CASE ParseMessage
  BY <1>22 DEF ParseMessage, Parse, ParseFrame
<1>23. CASE ParseFragment
  BY <1>23 DEF ParseFragment, Parse, ParseFrame
<1>24. CASE ParseOrphan
  BY <1>24 DEF ParseOrphan, Parse, ParseFrame
<1>25. CASE ParseTooBig
  BY <1>25 DEF ParseTooBig, Parse, ParseFrame
<1>26. CASE FrameFlushed
  BY <1>26 DEF FrameFlushed, Flushed
<1>27. CASE FrameBlocked
  BY <1>27 DEF FrameBlocked, Blocked, NextBuffer
<1>28. CASE DrainedOpen
  <2>1. CASE Flushed
    <3>1. ~closeWritten'
      BY <1>28, <2>1 DEF DrainedOpen, Flushed
    <3> QED
      BY <1>28, <2>1, <3>1 DEF DrainedOpen, Flushed
  <2>2. CASE Blocked
    BY <1>28, <2>2 DEF DrainedOpen, Blocked
  <2> QED
    BY <1>28, <2>1, <2>2 DEF DrainedOpen
<1>29. CASE DrainedBlocked
  BY <1>29 DEF DrainedBlocked, Blocked
<1>30. CASE DrainedClose
  BY <1>30 DEF DrainedClose, Flushed, NotifyClose, CloseIsOut
<1>31. CASE DrainedSent
  BY <1>31 DEF DrainedSent
<1>32. CASE OpenReturns
  BY <1>32 DEF OpenReturns
<1>33. CASE MessageReturns
  BY <1>33 DEF MessageReturns
<1>34. CASE FinalErrorReturns
  BY <1>34 DEF FinalErrorReturns, NotifyClose
<1>35. CASE ViolationReturns
  BY <1>35 DEF ViolationReturns, Queue, BeginClosing
<1>36. CASE FrameErrorReturns
  BY <1>36 DEF FrameErrorReturns, Queue, BeginClosing
<1>37. CASE CloseReturns
  BY <1>37 DEF CloseReturns
<1>38. CASE Gone
  BY <1>38 DEF Gone
<1>39. CASE UNCHANGED vars
  BY <1>39
<1> QED
  BY <1>1, <1>2, <1>3, <1>4, <1>5, <1>6, <1>7, <1>8, <1>9, <1>10, <1>11, <1>12, <1>13, <1>14,
     <1>15, <1>16, <1>17, <1>18, <1>19, <1>20, <1>21, <1>22, <1>23, <1>24, <1>25, <1>26, <1>27, <1>28,
     <1>29, <1>30, <1>31, <1>32, <1>33, <1>34, <1>35, <1>36, <1>37, <1>38, <1>39
  DEF Next, Environment, Application, Session, Returns

-----------------------------------------------------------------------------
(* Theorems *)

HIDE DEF vars, closeVars, writeVars, parserVars, networkVars, Inv, HandshakeFirst, BeforeHandshake,
         ContextAgrees, Notified, ClosedAtEnd, CompletedLast, ClosingOnly

\* WebSocketProtocolExecution: every member keeps its type; the slot holds one frame at most, and
\* no buffer is read that is not there.
THEOREM TypeInvariant == Spec => []TypeOK
<1>1. Init => Flags /\ Values
  <2>1. Init => Flags
    BY DEF Init, Flags
  <2>2. Init => Values
    BY BoundsAssumption DEF Init, Values, Pcs, CallbackPcs, Frames
  <2> QED
    BY <2>1, <2>2
<1>2. Flags /\ Values => TypeOK
  BY DEF Flags, Values, TypeOK
<1> QED
  BY <1>1, <1>2, FlagsStep, ValuesStep, PTL DEF Spec

LEMMA Invariant == Spec => []Inv
BY Initially, Inductive, PTL DEF Spec

\* handle(): the application is told that the session is open when the 101 response has been
\* written, which is in the slot until then.
THEOREM HandshakeComesFirst == Spec => []HandshakeFirst
<1>1. Inv => HandshakeFirst
  BY DEF Inv
<1> QED
  BY <1>1, Invariant, PTL

\* WebSocketContext: the state that the application sees is the session's, in every callback.
THEOREM ApplicationSeesTheState == Spec => []ContextAgrees
<1>1. Inv => ContextAgrees
  BY DEF Inv
<1> QED
  BY <1>1, Invariant, PTL

\* handleParsedFrame: messages come after onOpen and before onClose.
THEOREM MessagesComeInSession == Spec => []MessagesInSession
<1>1. Inv => MessagesInSession
  BY DEF Inv, HandshakeFirst, BeforeHandshake, Notified, MessagesInSession
<1> QED
  BY <1>1, Invariant, PTL

\* WebSocketContext::notifyClose: whichever way a session ends, onClose has been called.
THEOREM EndsAreNotified == Spec => []EndIsNotified
<1>1. Inv => EndIsNotified
  BY DEF Inv, Notified, EndIsNotified
<1> QED
  BY <1>1, Invariant, PTL

\* flushPendingWrite: no data goes out behind a Close frame.
THEOREM CloseIsLast == Spec => []NoDataAfterClose
<1>1. Inv => NoDataAfterClose
  BY DEF Inv, ClosingOnly, NoDataAfterClose
<1> QED
  BY <1>1, Invariant, PTL

\* handle(): a session that completes has the peer's Close and has written all it had to.
THEOREM ClosingIsMutual == Spec => []CompletionIsMutual
<1>1. Inv => CompletionIsMutual
  BY DEF Inv, CompletedLast, CompletionIsMutual
<1> QED
  BY <1>1, Invariant, PTL
=============================================================================
