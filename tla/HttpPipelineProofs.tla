------------------------- MODULE HttpPipelineProofs -------------------------
(***************************************************************************)
(* Proofs about HttpPipeline, for every value of its constants: the type    *)
(* invariant, the safety invariants by one inductive invariant, the action  *)
(* properties, and that the pipeline implements ConnectionLifecycle.        *)
(***************************************************************************)
EXTENDS HttpPipeline, TLAPS

-----------------------------------------------------------------------------
(* The inductive invariant.  The properties are not inductive alone: that a handler is *)
(* told once needs that a live connection has told nobody, which needs to know that    *)
(* every stage runs in its own state.                                                 *)

\* The stages of handleClient run in the state they are for: nobody but the stage
\* itself changes the state while it runs.
StageFitsState ==
    /\ pc \in {"beginRead", "read", "readDone", "nextRead"} => state = "Reading"
    /\ pc \in {"beginWrite", "write", "activityCheck", "nextWrite"} => state = "Writing"
    /\ pc = "session" => state = "Upgraded"

\* Until the pipeline is erased no final verdict was given and no disconnect seen.
BeforeTheEnd ==
    pc # "erased" => verdict = "Processing" /\ ~disconnectNotified /\ state # "Closing"

\* A live connection has not timed out, and nobody was told that it ended.
LiveIsUntold == state \in LiveStates => ~timedOut /\ calls.told = 0

\* What the execution in charge has been called for, by the state it is in.
CallsSoFar ==
    /\ state = "Reading" =>
          /\ ~startedNotified /\ calls.started = 0 /\ calls.completed = 0
          /\ pc # "nextRead" => calls.taken = 0
    /\ state = "Writing" /\ pc # "nextWrite" =>
          calls.started = (IF startedNotified THEN 1 ELSE 0) /\ calls.completed = 0

Inv ==
    /\ TypeOK
    /\ StageFitsState /\ Ownership
    /\ BeforeTheEnd /\ LiveIsUntold /\ CallsSoFar
    /\ OneResultPerRequest /\ ResponseNotifications /\ ToldOnce /\ DisconnectIsTold

-----------------------------------------------------------------------------
\* No step gives a flag a value that is not a Boolean.
LEMMA FlagsStep == TypeOK /\ [Next]_vars => Flags'
<1> SUFFICES ASSUME TypeOK, [Next]_vars PROVE Flags'
  OBVIOUS
<1> USE DEF TypeOK, Flags, execVars, ownVars, flagVars, clockVars, netVars
<1>1. CASE ClientSends
  BY <1>1 DEF ClientSends
<1>2. CASE ClientDisconnects
  BY <1>2 DEF ClientDisconnects
<1>3. CASE Tick
  BY <1>3 DEF Tick
<1>4. CASE Abort
  BY <1>4 DEF Abort, MarkRead
<1>5. CASE AbortReadingRequest
  BY <1>5 DEF AbortReadingRequest, MarkRead
<1>6. CASE AbortWritingNext
  BY <1>6 DEF AbortWritingNext, FreshRequest
<1>7. CASE AbortWritingLast
  BY <1>7 DEF AbortWritingLast
<1>8. CASE ServerEnds
  BY <1>8 DEF ServerEnds
<1>9. CASE HandleClient
  BY <1>9 DEF HandleClient
<1>10. CASE CheckTotalTimeout
  BY <1>10 DEF CheckTotalTimeout, Tell
<1>11. CASE CheckTerminal
  BY <1>11 DEF CheckTerminal
<1>12. CASE CheckDisconnect
  BY <1>12 DEF CheckDisconnect, Tell
<1>13. CASE CheckPasses
  BY <1>13 DEF CheckPasses
<1>14. CASE BeginRead
  BY <1>14 DEF BeginRead
<1>15. CASE ReadBuffer
  BY <1>15 DEF ReadBuffer
<1>16. CASE ReadRejected
  BY <1>16 DEF ReadRejected, Errored
<1>17. CASE ReadDrained
  BY <1>17 DEF ReadDrained
<1>18. CASE NoResultYet
  BY <1>18 DEF NoResultYet, AfterRead
<1>19. CASE TakeResponse
  BY <1>19 DEF TakeResponse, AfterRead, MarkRead
<1>20. CASE TakeUpgrade
  BY <1>20 DEF TakeUpgrade, AfterRead, MarkRead
<1>21. CASE TakeFailure
  BY <1>21 DEF TakeFailure, AfterRead, Errored
<1>22. CASE TakeNoResponse
  BY <1>22 DEF TakeNoResponse, AfterRead, MarkRead
<1>23. CASE BeginWrite
  BY <1>23 DEF BeginWrite
<1>24. CASE WriteChunk
  BY <1>24 DEF WriteChunk
<1>25. CASE WriteShort
  BY <1>25 DEF WriteShort, Errored
<1>26. CASE ActivityCheck
  BY <1>26 DEF ActivityCheck, TimedOutNow, Tell
<1>27. CASE WriteStalls
  BY <1>27 DEF WriteStalls
<1>28. CASE ResponseSent
  BY <1>28 DEF ResponseSent
<1>29. CASE NextRequest
  BY <1>29 DEF NextRequest, FreshRequest
<1>30. CASE LastRequest
  BY <1>30 DEF LastRequest
<1>31. CASE SessionContinues
  BY <1>31 DEF SessionContinues, SessionTurn
<1>32. CASE SessionCompletes
  BY <1>32 DEF SessionCompletes, SessionTurn
<1>33. CASE SessionAborts
  BY <1>33 DEF SessionAborts, SessionTurn
<1>34. CASE SessionFails
  BY <1>34 DEF SessionFails, SessionTurn, Errored
<1>35. CASE IdleCheck
  BY <1>35 DEF IdleCheck, TimedOutNow, Tell
<1>36. CASE Gone
  BY <1>36 DEF Gone, vars
<1>37. CASE UNCHANGED vars
  BY <1>37 DEF vars
<1>38. QED
  BY <1>1, <1>2, <1>3, <1>4, <1>5, <1>6, <1>7, <1>8, <1>9, <1>10, <1>11, <1>12,
       <1>13, <1>14, <1>15, <1>16, <1>17, <1>18, <1>19, <1>20, <1>21, <1>22, <1>23,
       <1>24, <1>25, <1>26, <1>27, <1>28, <1>29, <1>30, <1>31, <1>32, <1>33, <1>34,
       <1>35, <1>36, <1>37
       DEF Next, Environment, Api, Service

\* Every step keeps the other variables within their ranges.
LEMMA ValuesStep == TypeOK /\ [Next]_vars => Values'
<1> SUFFICES ASSUME TypeOK, [Next]_vars PROVE Values'
  OBVIOUS
<1> USE TimeoutsAssumption, BoundsAssumption
<1> USE DEF TypeOK, Values, States, LiveStates, TerminalStates, Pcs, Checks, NoCalls, NoStream,
            QuietLimit, FinalVerdicts, Results, Sessions,
            execVars, ownVars, flagVars, clockVars, netVars
<1>1. CASE ClientSends
  BY <1>1 DEF ClientSends
<1>2. CASE ClientDisconnects
  BY <1>2 DEF ClientDisconnects
<1>3. CASE Tick
  BY <1>3 DEF Tick, AgeUp
<1>4. CASE Abort
  BY <1>4 DEF Abort, MarkRead
<1>5. CASE AbortReadingRequest
  BY <1>5 DEF AbortReadingRequest, MarkRead
<1>6. CASE AbortWritingNext
  BY <1>6 DEF AbortWritingNext, FreshRequest
<1>7. CASE AbortWritingLast
  BY <1>7 DEF AbortWritingLast
<1>8. CASE ServerEnds
  BY <1>8 DEF ServerEnds, Return
<1>9. CASE HandleClient
  BY <1>9 DEF HandleClient
<1>10. CASE CheckTotalTimeout
  BY <1>10 DEF CheckTotalTimeout, Return, Tell, HandlerMayQueue, InCharge, Bump
<1>11. CASE CheckTerminal
  BY <1>11 DEF CheckTerminal, OwnVerdict, Return
<1>12. CASE CheckDisconnect
  BY <1>12 DEF CheckDisconnect, Return, Tell, HandlerMayQueue, InCharge, Bump
<1>13. CASE CheckPasses
  BY <1>13 DEF CheckPasses, Stage, FromRead, FromWrite, FromSession
<1>14. CASE BeginRead
  BY <1>14 DEF BeginRead
<1>15. CASE ReadBuffer
  BY <1>15 DEF ReadBuffer, HandlerMayQueue
<1>16. CASE ReadRejected
  BY <1>16 DEF ReadRejected, Errored
<1>17. CASE ReadDrained
  BY <1>17 DEF ReadDrained
<1>18. CASE NoResultYet
  BY <1>18 DEF NoResultYet, AfterRead
<1>19. CASE TakeResponse
  BY <1>19 DEF TakeResponse, AfterRead, MarkRead, Taken, Bump
<1>20. CASE TakeUpgrade
  BY <1>20 DEF TakeUpgrade, AfterRead, MarkRead, Bump
<1>21. CASE TakeFailure
  BY <1>21 DEF TakeFailure, AfterRead, Errored
<1>22. CASE TakeNoResponse
  BY <1>22 DEF TakeNoResponse, AfterRead, MarkRead, Taken, Bump
<1>23. CASE BeginWrite
  BY <1>23 DEF BeginWrite, HandlerMayQueue, Bump
<1>24. CASE WriteChunk
  BY <1>24 DEF WriteChunk
<1>25. CASE WriteShort
  BY <1>25 DEF WriteShort, Errored
<1>26. CASE ActivityCheck
  BY <1>26 DEF ActivityCheck, TimedOutNow, Tell, HandlerMayQueue, InCharge, Bump
<1>27. CASE WriteStalls
  BY <1>27 DEF WriteStalls
<1>28. CASE ResponseSent
  BY <1>28 DEF ResponseSent, HandlerMayQueue, Bump
<1>29. CASE NextRequest
  BY <1>29 DEF NextRequest, FreshRequest, AfterNext
<1>30. CASE LastRequest
  BY <1>30 DEF LastRequest, AfterNext
<1>31. CASE SessionContinues
  BY <1>31 DEF SessionContinues, SessionTurn
<1>32. CASE SessionCompletes
  BY <1>32 DEF SessionCompletes, SessionTurn
<1>33. CASE SessionAborts
  BY <1>33 DEF SessionAborts, SessionTurn
<1>34. CASE SessionFails
  BY <1>34 DEF SessionFails, SessionTurn, Errored
<1>35. CASE IdleCheck
  BY <1>35 DEF IdleCheck, TimedOutNow, Tell, HandlerMayQueue, InCharge, Bump
<1>36. CASE Gone
  BY <1>36 DEF Gone, vars
<1>37. CASE UNCHANGED vars
  BY <1>37 DEF vars
<1>38. QED
  BY <1>1, <1>2, <1>3, <1>4, <1>5, <1>6, <1>7, <1>8, <1>9, <1>10, <1>11, <1>12,
       <1>13, <1>14, <1>15, <1>16, <1>17, <1>18, <1>19, <1>20, <1>21, <1>22, <1>23,
       <1>24, <1>25, <1>26, <1>27, <1>28, <1>29, <1>30, <1>31, <1>32, <1>33, <1>34,
       <1>35, <1>36, <1>37
       DEF Next, Environment, Api, Service

\* The type invariant is kept; flags and values apart, for different provers.
LEMMA TypeStep == TypeOK /\ [Next]_vars => TypeOK'
  BY FlagsStep, ValuesStep DEF TypeOK

\* Every step keeps the inductive invariant.
LEMMA InvStep == Inv /\ [Next]_vars => Inv'
<1> SUFFICES ASSUME Inv, [Next]_vars PROVE Inv'
  OBVIOUS
<1>0. TypeOK /\ TypeOK'
  BY TypeStep DEF Inv
<1> USE <1>0
<1> USE DEF Inv, StageFitsState, Ownership, BeforeTheEnd, LiveIsUntold, CallsSoFar, OneResultPerRequest,
  ResponseNotifications, ToldOnce, DisconnectIsTold, TypeOK, Values, Flags,
   States, LiveStates, TerminalStates, Pcs, Checks, NoCalls, NoStream, FinalVerdicts, Results, Sessions,
            execVars, ownVars, flagVars, clockVars, netVars
<1>1. CASE ClientSends
  BY <1>1 DEF ClientSends
<1>2. CASE ClientDisconnects
  BY <1>2 DEF ClientDisconnects
<1>3. CASE Tick
  BY <1>3 DEF Tick, AgeUp
<1>4. CASE Abort
  BY <1>4 DEF Abort, MarkRead
<1>5. CASE AbortReadingRequest
  BY <1>5 DEF AbortReadingRequest, MarkRead
<1>6. CASE AbortWritingNext
  BY <1>6 DEF AbortWritingNext, FreshRequest
<1>7. CASE AbortWritingLast
  BY <1>7 DEF AbortWritingLast
<1>8. CASE ServerEnds
  BY <1>8 DEF ServerEnds, Return
<1>9. CASE HandleClient
  BY <1>9 DEF HandleClient
<1>10. CASE CheckTotalTimeout
  BY <1>10 DEF CheckTotalTimeout, Return, Tell, HandlerMayQueue, InCharge, Bump
<1>11. CASE CheckTerminal
  BY <1>11 DEF CheckTerminal, OwnVerdict, Return
<1>12. CASE CheckDisconnect
  BY <1>12 DEF CheckDisconnect, Return, Tell, HandlerMayQueue, InCharge, Bump
<1>13. CASE CheckPasses
  BY <1>13 DEF CheckPasses, Stage, FromRead, FromWrite, FromSession
<1>14. CASE BeginRead
  BY <1>14 DEF BeginRead
<1>15. CASE ReadBuffer
  BY <1>15 DEF ReadBuffer, HandlerMayQueue
<1>16. CASE ReadRejected
  BY <1>16 DEF ReadRejected, Errored
<1>17. CASE ReadDrained
  BY <1>17 DEF ReadDrained
<1>18. CASE NoResultYet
  BY <1>18 DEF NoResultYet, AfterRead
<1>19. CASE TakeResponse
  BY <1>19 DEF TakeResponse, AfterRead, MarkRead, Taken, Bump
<1>20. CASE TakeUpgrade
  BY <1>20 DEF TakeUpgrade, AfterRead, MarkRead, Bump
<1>21. CASE TakeFailure
  BY <1>21 DEF TakeFailure, AfterRead, Errored
<1>22. CASE TakeNoResponse
  BY <1>22 DEF TakeNoResponse, AfterRead, MarkRead, Taken, Bump
<1>23. CASE BeginWrite
  BY <1>23 DEF BeginWrite, HandlerMayQueue, Bump
<1>24. CASE WriteChunk
  BY <1>24 DEF WriteChunk
<1>25. CASE WriteShort
  BY <1>25 DEF WriteShort, Errored
<1>26. CASE ActivityCheck
  <2>1. CASE ~(quiet > ActivityTimeout)
    BY <1>26, <2>1 DEF ActivityCheck
  <2>2. CASE quiet > ActivityTimeout
    <3>1. InCharge /\ pc' = "checkWrite" /\ state' = "Error"
      BY <1>26, <2>2 DEF ActivityCheck, TimedOutNow, InCharge
    <3>2. calls' = [calls EXCEPT !.told = Bump(@)]
      BY <1>26, <2>2, <3>1 DEF ActivityCheck, TimedOutNow, Tell
    <3>3. QED
      BY <1>26, <2>2, <3>1, <3>2 DEF ActivityCheck, TimedOutNow, Bump
  <2>3. QED
    BY <2>1, <2>2
<1>27. CASE WriteStalls
  BY <1>27 DEF WriteStalls
<1>28. CASE ResponseSent
  BY <1>28 DEF ResponseSent, HandlerMayQueue, Bump
<1>29. CASE NextRequest
  BY <1>29 DEF NextRequest, FreshRequest, AfterNext
<1>30. CASE LastRequest
  BY <1>30 DEF LastRequest, AfterNext
<1>31. CASE SessionContinues
  BY <1>31 DEF SessionContinues, SessionTurn
<1>32. CASE SessionCompletes
  BY <1>32 DEF SessionCompletes, SessionTurn
<1>33. CASE SessionAborts
  BY <1>33 DEF SessionAborts, SessionTurn
<1>34. CASE SessionFails
  BY <1>34 DEF SessionFails, SessionTurn, Errored
<1>35. CASE IdleCheck
  BY <1>35 DEF IdleCheck, TimedOutNow, Tell, HandlerMayQueue, InCharge, Bump
<1>36. CASE Gone
  BY <1>36 DEF Gone, vars
<1>37. CASE UNCHANGED vars
  BY <1>37 DEF vars
<1>38. QED
  BY <1>1, <1>2, <1>3, <1>4, <1>5, <1>6, <1>7, <1>8, <1>9, <1>10, <1>11, <1>12,
       <1>13, <1>14, <1>15, <1>16, <1>17, <1>18, <1>19, <1>20, <1>21, <1>22, <1>23,
       <1>24, <1>25, <1>26, <1>27, <1>28, <1>29, <1>30, <1>31, <1>32, <1>33, <1>34,
       <1>35, <1>36, <1>37
       DEF Next, Environment, Api, Service

-----------------------------------------------------------------------------
\* The constructor leaves a well-typed pipeline.
LEMMA InitType == Init => TypeOK
<1>1. Init => Flags
  BY DEF Init, Flags
<1>2. Init => Values
  BY TimeoutsAssumption, BoundsAssumption
     DEF Init, Values, Pcs, Checks, States, LiveStates, TerminalStates, FinalVerdicts,
         Results, Sessions, NoStream, NoCalls, QuietLimit
<1>3. QED
  BY <1>1, <1>2 DEF TypeOK

\* The constructor establishes the inductive invariant.
LEMMA InitInv == Init => Inv
<1> SUFFICES ASSUME Init PROVE Inv
  OBVIOUS
<1>1. TypeOK
  BY InitType
<1>2. StageFitsState /\ BeforeTheEnd /\ LiveIsUntold /\ CallsSoFar
  BY DEF Init, StageFitsState, BeforeTheEnd, LiveIsUntold, CallsSoFar, NoCalls
<1>3. Ownership
  BY DEF Init, Ownership
<1>4. OneResultPerRequest /\ ResponseNotifications /\ ToldOnce /\ DisconnectIsTold
  BY DEF Init, OneResultPerRequest, ResponseNotifications, ToldOnce, DisconnectIsTold, NoCalls
<1>5. QED
  BY <1>1, <1>2, <1>3, <1>4 DEF Inv

-----------------------------------------------------------------------------
(* The invariants *)

\* Every variable keeps its type, for any timeouts and any environment.
THEOREM TypeInvariant == Spec => []TypeOK
  BY InitType, TypeStep, PTL DEF Spec

\* The inductive invariant holds: what each stage of handleClient may rely on.
THEOREM Invariant == Spec => []Inv
  BY InitInv, InvStep, PTL DEF Spec

\* The pointers of the pipeline fit its state: execution while reading, stream while
\* writing, session once upgraded (HttpPipeline.cpp uses them unchecked).
THEOREM OwnershipHolds == Spec => []Ownership
  BY Invariant, PTL DEF Inv

\* consumePendingRequestResult takes one result of each request's handler.
THEOREM ResultsAreTakenOnce == Spec => []OneResultPerRequest
  BY Invariant, PTL DEF Inv

\* onResponseStarted comes once and before onResponseCompleted.
THEOREM NotificationsAreInOrder == Spec => []ResponseNotifications
  BY Invariant, PTL DEF Inv

\* Of all the timeouts and disconnects a connection can see, its handler hears one.
THEOREM EndIsToldOnce == Spec => []ToldOnce
  BY Invariant, PTL DEF Inv

\* A handler or session in charge hears of the disconnect its pipeline reports.
THEOREM DisconnectsAreTold == Spec => []DisconnectIsTold
  BY Invariant, PTL DEF Inv

-----------------------------------------------------------------------------
(* The action properties *)

\* Only three steps time a connection out.
LEMMA WhoTimesOut ==
    [Next]_vars => timedOut' = timedOut \/ CheckTotalTimeout \/ TimedOutNow
<1> SUFFICES ASSUME [Next]_vars
             PROVE  timedOut' = timedOut \/ CheckTotalTimeout \/ TimedOutNow
  OBVIOUS
<1>1. CASE ActivityCheck \/ IdleCheck
  BY <1>1 DEF ActivityCheck, IdleCheck
<1>2. CASE Environment \/ Api
  BY <1>2 DEF Environment, Api, ClientSends, ClientDisconnects, Tick, Abort, AbortReadingRequest, AbortWritingNext,
     AbortWritingLast, ServerEnds, FreshRequest, flagVars
<1>3. CASE HandleClient \/ CheckTerminal \/ CheckDisconnect \/ CheckPasses
  BY <1>3 DEF HandleClient, CheckTerminal, CheckDisconnect, CheckPasses, flagVars
<1>4. CASE \/ BeginRead \/ ReadBuffer \/ ReadRejected \/ ReadDrained
           \/ NoResultYet \/ TakeResponse \/ TakeUpgrade \/ TakeFailure \/ TakeNoResponse
  BY <1>4 DEF BeginRead, ReadBuffer, ReadRejected, ReadDrained, NoResultYet, TakeResponse, TakeUpgrade,
        TakeFailure, TakeNoResponse, Errored, flagVars
<1>5. CASE \/ BeginWrite \/ WriteChunk \/ WriteShort \/ WriteStalls \/ ResponseSent
           \/ NextRequest \/ LastRequest
  BY <1>5 DEF BeginWrite, WriteChunk, WriteShort, WriteStalls, ResponseSent, NextRequest, LastRequest,
     Errored, FreshRequest, flagVars
<1>6. CASE \/ SessionContinues \/ SessionCompletes \/ SessionAborts \/ SessionFails
  BY <1>6 DEF SessionContinues, SessionCompletes, SessionAborts, SessionFails, Errored
<1>7. CASE Gone \/ UNCHANGED vars
  BY <1>7 DEF Gone, vars, flagVars
<1>8. QED
  BY <1>1, <1>2, <1>3, <1>4, <1>5, <1>6, <1>7 DEF Next, Service

\* A timeout is told to whoever is in charge, and stops a client being written to.
THEOREM TimeoutsAreTold == Spec => TimeoutTellsAndStops
<1> DEFINE Step == ~timedOut /\ timedOut' /\ state \in LiveStates =>
                      /\ session # "Opaque" => calls'.told = calls.told + 1
                      /\ state # "Reading" => ~connected'
<1>1. Inv /\ [Next]_vars => [Step]_vars
  <2> SUFFICES ASSUME Inv, [Next]_vars, ~timedOut, timedOut', state \in LiveStates
               PROVE  /\ session # "Opaque" => calls'.told = calls.told + 1
                      /\ state # "Reading" => ~connected'
    OBVIOUS
  <2>1. calls \in [taken : 0..2, started : 0..2, completed : 0..2, told : 0..2]
    BY DEF Inv, TypeOK, Values
  <2>2. calls.told = 0 /\ session \in Sessions \cup {"None"}
    BY DEF Inv, LiveIsUntold, TypeOK, Values
  <2>3. session # "Opaque" => InCharge
    BY <2>2 DEF Inv, Ownership, InCharge, LiveStates, Sessions
  <2>4. CheckTotalTimeout \/ TimedOutNow
    BY WhoTimesOut DEF Inv
  <2>5. Tell /\ (state # "Reading" => ~connected')
    BY <2>4 DEF CheckTotalTimeout, TimedOutNow, LiveStates
  <2>6. QED
    BY <2>1, <2>2, <2>3, <2>5 DEF Tell, Bump
<1>2. QED
  BY <1>1, Invariant, PTL DEF Spec, TimeoutTellsAndStops

\* A connection that has ended stays ended.
THEOREM TerminalStaysTerminal == Spec => TerminalIsFinal
<1> DEFINE Step == state \in TerminalStates => state' \in TerminalStates
<1>1. Inv /\ [Next]_vars => [Step]_vars
  <2> SUFFICES ASSUME Inv, [Next]_vars, state \in TerminalStates
               PROVE  state' \in TerminalStates
    OBVIOUS
  <2>1. /\ state \notin {"Reading", "Writing", "Upgraded"}
        /\ pc \in {"idle", "idleTimeout", "erased"} \cup Checks
    BY DEF Inv, StageFitsState, TypeOK, Values, Pcs, TerminalStates
  <2>2. CASE Environment \/ Gone \/ UNCHANGED vars
    BY <2>2 DEF Environment, ClientSends, ClientDisconnects, Tick, Gone, vars
  <2>3. CASE Api
    BY <2>1, <2>3 DEF Api, Abort, AbortReadingRequest, AbortWritingNext, AbortWritingLast,
                      ServerEnds, TerminalStates
  <2>4. CASE HandleClient \/ CheckTotalTimeout \/ CheckTerminal \/ CheckDisconnect \/ CheckPasses
    BY <2>4 DEF HandleClient, CheckTotalTimeout, CheckTerminal, CheckDisconnect, CheckPasses,
                TerminalStates
  <2>5. CASE IdleCheck
    BY <2>5 DEF IdleCheck, TimedOutNow, TerminalStates
  <2>6. ~ (\/ BeginRead \/ ReadBuffer \/ ReadRejected \/ ReadDrained
           \/ NoResultYet \/ TakeResponse \/ TakeUpgrade \/ TakeFailure \/ TakeNoResponse)
    BY <2>1 DEF BeginRead, ReadBuffer, ReadRejected, ReadDrained, NoResultYet, TakeResponse,
                TakeUpgrade, TakeFailure, TakeNoResponse, AfterRead, Checks
  <2>7. ~ (\/ BeginWrite \/ WriteChunk \/ WriteShort \/ ActivityCheck \/ WriteStalls
           \/ ResponseSent \/ NextRequest \/ LastRequest)
    BY <2>1 DEF BeginWrite, WriteChunk, WriteShort, ActivityCheck, WriteStalls, ResponseSent,
                NextRequest, LastRequest, Checks
  <2>8. ~ (SessionContinues \/ SessionCompletes \/ SessionAborts \/ SessionFails)
    BY <2>1 DEF SessionContinues, SessionCompletes, SessionAborts, SessionFails, SessionTurn,
                Checks
  <2>9. QED
    BY <2>2, <2>3, <2>4, <2>5, <2>6, <2>7, <2>8 DEF Next, Service
<1>2. QED
  BY <1>1, Invariant, PTL DEF Spec, TerminalIsFinal

\* A stream is dropped when it is empty or with the connection, never before.
THEOREM NoTruncation == Spec => ResponseNotTruncated
<1> DEFINE Step == stream # NoStream /\ stream' = NoStream /\ pc # "idle" =>
                      stream = 0 \/ state' = "Error"
<1>1. Inv /\ [Next]_vars => [Step]_vars
  <2> SUFFICES ASSUME Inv, [Next]_vars,
                      stream # NoStream, stream' = NoStream, pc # "idle"
               PROVE  stream = 0 \/ state' = "Error"
    OBVIOUS
  <2>1. stream \in Nat /\ state \notin {"Reading", "Upgraded"} /\ pc # "nextWrite"
    BY BoundsAssumption DEF Inv, TypeOK, Values, NoStream, Ownership, StageFitsState
  <2>2. CASE Environment \/ Api \/ Gone \/ UNCHANGED vars
    BY <2>2 DEF Environment, ClientSends, ClientDisconnects, Tick, Gone, vars, ownVars,
                Api, Abort, AbortReadingRequest, AbortWritingNext, AbortWritingLast, ServerEnds
  <2>3. CASE \/ HandleClient \/ CheckTotalTimeout \/ CheckTerminal \/ CheckDisconnect
             \/ CheckPasses \/ IdleCheck
    BY <2>3 DEF HandleClient, CheckTotalTimeout, CheckTerminal, CheckDisconnect, CheckPasses,
                IdleCheck, ownVars
  <2>4. ~ (\/ BeginRead \/ ReadBuffer \/ ReadRejected \/ ReadDrained \/ NoResultYet
           \/ TakeResponse \/ TakeUpgrade \/ TakeFailure \/ TakeNoResponse)
    BY <2>1 DEF Inv, StageFitsState, BeginRead, ReadBuffer, ReadRejected, ReadDrained,
                NoResultYet, TakeResponse, TakeUpgrade, TakeFailure, TakeNoResponse, AfterRead
  <2>5. ~ (SessionContinues \/ SessionCompletes \/ SessionAborts \/ SessionFails)
    BY <2>1 DEF Inv, StageFitsState, SessionContinues, SessionCompletes, SessionAborts,
                SessionFails, SessionTurn
  <2>6. CASE BeginWrite \/ ActivityCheck \/ WriteStalls
    BY <2>6 DEF BeginWrite, ActivityCheck, WriteStalls, ownVars
  <2>7. CASE WriteChunk
    BY <2>1, <2>7 DEF WriteChunk, NoStream
  <2>8. CASE WriteShort \/ ResponseSent
    BY <2>8 DEF WriteShort, Errored, ResponseSent
  <2>9. ~ (NextRequest \/ LastRequest)
    BY <2>1 DEF Inv, StageFitsState, NextRequest, LastRequest, ownVars
  <2>10. QED
    BY <2>2, <2>3, <2>4, <2>5, <2>6, <2>7, <2>8, <2>9 DEF Next, Service
<1>2. QED
  BY <1>1, Invariant, PTL DEF Spec, ResponseNotTruncated

-----------------------------------------------------------------------------
(* HttpPipeline implements ConnectionLifecycle *)

\* Steps the lifecycle does not see: they keep the state, who was told and the
\* verdict, and neither time the connection out nor erase it.
LEMMA Unseen ==
    ASSUME pc # "erased", pc' # "erased", state' = state, timedOut' = timedOut,
           calls'.told = calls.told, verdict' = verdict
    PROVE  UNCHANGED Lifecycle!vars
  BY DEF Lifecycle!vars, Phase

\* The end of a live connection from within.
LEMMA EndsWithin ==
    ASSUME Inv, state \in LiveStates, pc # "erased", pc' # "erased", timedOut' = timedOut,
           calls'.told = calls.told, verdict' = verdict,
           state' \in {"Completed", "Aborted", "Error"}
    PROVE  Lifecycle!End
<1>1. ~timedOut
  BY DEF Inv, LiveIsUntold
<1>2. Phase \in {"Reading", "Writing", "Upgraded"}
  BY DEF Phase, LiveStates
<1>3. Phase' \in {"Completed", "Failed", "Aborted"}
  BY <1>1 DEF Phase
<1>4. QED
  BY <1>2, <1>3 DEF Lifecycle!End, Lifecycle!Live

\* Whoever is in charge of a live connection is told of its end, unless it is a
\* session that cannot be told.
LEMMA ToldAtTheEnd ==
    ASSUME Inv, state \in LiveStates, pc # "erased", Tell
    PROVE  Lifecycle!EndsFromOutside
<1>1. calls \in [taken : 0..2, started : 0..2, completed : 0..2, told : 0..2]
  BY DEF Inv, TypeOK, Values
<1>2. calls.told = 0
  BY DEF Inv, LiveIsUntold
<1>3. state # "Upgraded" => InCharge
  BY DEF Inv, Ownership, InCharge, LiveStates
<1>4. state # "Upgraded" => calls'.told > 0
  BY <1>1, <1>2, <1>3 DEF Tell, Bump
<1>5. Phase = state /\ (calls'.told > 0) \in BOOLEAN
  BY DEF Phase, LiveStates
<1>6. QED
  BY <1>2, <1>4, <1>5 DEF Lifecycle!EndsFromOutside, Lifecycle!Live, LiveStates

\* A new pipeline is a new connection, or one that failed at once.
LEMMA LifecycleInit == Init => Lifecycle!Init
  BY DEF Init, Lifecycle!Init, Phase, NoCalls

\* The three verdicts given by the state checks.
LEMMA LifecycleChecks ==
    ASSUME Inv, CheckTotalTimeout \/ CheckTerminal \/ CheckDisconnect
    PROVE  Lifecycle!Next
<1>1. pc # "erased" /\ pc' = "erased" /\ Phase' = "Gone"
  BY DEF CheckTotalTimeout, CheckTerminal, CheckDisconnect, Checks, Return, Phase
<1>2. CASE CheckTotalTimeout /\ state \in LiveStates
  <2>1. Lifecycle!EndsFromOutside
    BY <1>1, <1>2, ToldAtTheEnd DEF CheckTotalTimeout
  <2>2. verdict' = "TimedOutUnrecoverably"
    BY <1>2 DEF CheckTotalTimeout, Return
  <2>3. QED
    BY <1>1, <2>1, <2>2 DEF Lifecycle!Next, Lifecycle!RemovedLive
<1>3. CASE CheckTotalTimeout /\ state \notin LiveStates
  <2>1. Phase \in Lifecycle!Ends
    BY <1>1, <1>3 DEF Inv, TypeOK, Values, BeforeTheEnd, States, LiveStates, TerminalStates, Phase,
                      Lifecycle!Ends
  <2>2. calls' = calls /\ verdict' = "TimedOutUnrecoverably"
    BY <1>3 DEF CheckTotalTimeout, Tell, InCharge, LiveStates, Return
  <2>3. QED
    BY <1>1, <2>1, <2>2 DEF Lifecycle!Next, Lifecycle!Removed
<1>4. CASE CheckTerminal
  <2>1. state \in {"Aborted", "Error", "Completed"}
    BY <1>1, <1>4 DEF Inv, LiveIsUntold, BeforeTheEnd, TypeOK, Values, States, TerminalStates,
                      CheckTerminal
  <2>2. Phase \in Lifecycle!Ends
    BY <1>1, <2>1 DEF Phase, Lifecycle!Ends
  <2>3. calls' = calls
    BY <1>4 DEF CheckTerminal
  <2>4. verdict' \in {Lifecycle!VerdictOf(Phase), "TimedOutUnrecoverably"}
    <3>1. CASE timedOut
      BY <1>4, <3>1 DEF CheckTerminal, Return
    <3>2. CASE ~timedOut /\ state = "Aborted"
      BY <1>1, <1>4, <3>2 DEF CheckTerminal, OwnVerdict, Return, Phase, Lifecycle!VerdictOf
    <3>3. CASE ~timedOut /\ state = "Error"
      BY <1>1, <1>4, <3>3 DEF CheckTerminal, OwnVerdict, Return, Phase, Lifecycle!VerdictOf
    <3>4. CASE ~timedOut /\ state = "Completed"
      BY <1>1, <1>4, <3>4 DEF CheckTerminal, OwnVerdict, Return, Phase, Lifecycle!VerdictOf
    <3>5. QED
      BY <2>1, <3>1, <3>2, <3>3, <3>4
  <2>5. QED
    BY <1>1, <2>2, <2>3, <2>4 DEF Lifecycle!Next, Lifecycle!Removed
<1>5. CASE CheckDisconnect
  <2>1. state \in LiveStates /\ ~connected /\ ~disconnectNotified
    BY <1>1, <1>5 DEF Inv, BeforeTheEnd, TypeOK, Values, States, TerminalStates, CheckDisconnect
  <2>2. Lifecycle!EndsFromOutside
    BY <1>1, <1>5, <2>1, ToldAtTheEnd DEF CheckDisconnect
  <2>3. verdict' = "ClientDisconnected"
    BY <1>5 DEF CheckDisconnect, Return
  <2>4. QED
    BY <1>1, <2>2, <2>3 DEF Lifecycle!Next, Lifecycle!RemovedLive
<1>6. QED
  BY <1>2, <1>3, <1>4, <1>5

\* Calls from outside.
LEMMA LifecycleApi ==
    ASSUME Inv, Api PROVE [Lifecycle!Next]_Lifecycle!vars
<1>1. CASE ServerEnds
  <2>1. pc # "erased" /\ Phase # "Gone"
    BY <1>1 DEF ServerEnds, Phase, Inv, TypeOK, Values, States, LiveStates, TerminalStates
  <2>2. Phase' = "Gone" /\ verdict' = "Dropped" /\ calls' = calls
    BY <1>1 DEF ServerEnds, Return, Phase
  <2>3. QED
    BY <2>1, <2>2 DEF Lifecycle!Next, Lifecycle!Dropped
<1>2. CASE Abort
  <2>1. /\ pc = "idle" /\ pc' = "idle" /\ state' = "Aborted" /\ timedOut' = timedOut
        /\ calls' = calls /\ verdict' = verdict
    BY <1>2 DEF Abort, flagVars
  <2>2. CASE state \in LiveStates
    <3>1. Lifecycle!End
      BY <2>1, <2>2, EndsWithin
    <3>2. QED
      BY <3>1 DEF Lifecycle!Next
  <2>3. CASE state \notin LiveStates
    <3>1. state \in {"Completed", "Aborted", "Error"}
      BY <2>1, <2>3 DEF Inv, TypeOK, Values, BeforeTheEnd, States, LiveStates, TerminalStates
    <3>2. Phase \in Lifecycle!Ends /\ Phase' = "Aborted"
      BY <2>1, <3>1 DEF Phase, Lifecycle!Ends
    <3>3. QED
      BY <2>1, <3>2 DEF Lifecycle!Next, Lifecycle!AbortEnded
  <2>4. QED
    BY <2>2, <2>3
<1>3. CASE AbortReadingRequest
  BY <1>3, Unseen DEF AbortReadingRequest, flagVars
<1>4. CASE AbortWritingNext
  <2>1. Phase \in {"Writing", "Upgraded"} /\ Phase' = "Reading" /\ verdict' = verdict
    BY <1>4 DEF AbortWritingNext, FreshRequest, Phase
  <2>2. calls.told = 0 /\ calls'.told = 0
    BY <1>4 DEF Inv, LiveIsUntold, LiveStates, AbortWritingNext, FreshRequest, NoCalls
  <2>3. QED
    BY <2>1, <2>2 DEF Lifecycle!Next, Lifecycle!NextRequest
<1>5. CASE AbortWritingLast
  <2>1. /\ pc = "idle" /\ pc' = "idle" /\ timedOut' = timedOut
        /\ calls' = calls /\ verdict' = verdict
    BY <1>5 DEF AbortWritingLast, flagVars
  <2>2. CASE state \in {"Writing", "Upgraded"}
    <3>1. state' = "Completed"
      BY <1>5, <2>2 DEF AbortWritingLast
    <3>2. Lifecycle!End
      BY <2>1, <2>2, <3>1, EndsWithin DEF LiveStates
    <3>3. QED
      BY <3>2 DEF Lifecycle!Next
  <2>3. CASE state \notin {"Writing", "Upgraded"}
    BY <1>5, <2>1, <2>3, Unseen DEF AbortWritingLast
  <2>4. QED
    BY <2>2, <2>3
<1>6. QED
  BY <1>1, <1>2, <1>3, <1>4, <1>5 DEF Api

\* The steps of handleClient that read and write.
LEMMA LifecycleService ==
    ASSUME Inv, Service PROVE [Lifecycle!Next]_Lifecycle!vars
<1>1. CASE CheckTotalTimeout \/ CheckTerminal \/ CheckDisconnect
  BY <1>1, LifecycleChecks
<1>2. CASE HandleClient \/ CheckPasses
  <2>1. pc # "erased" /\ pc' # "erased"
    BY <1>2 DEF HandleClient, CheckPasses, Stage, FromRead, FromWrite, FromSession, Checks
  <2>2. verdict' = verdict
    BY <1>2, <2>1 DEF HandleClient, CheckPasses, Inv, BeforeTheEnd
  <2>3. state' = state /\ timedOut' = timedOut /\ calls' = calls
    BY <1>2 DEF HandleClient, CheckPasses, flagVars
  <2>4. QED
    BY <2>1, <2>2, <2>3, Unseen
<1>3. CASE BeginRead \/ ReadBuffer \/ ReadDrained \/ NoResultYet
  BY <1>3, Unseen DEF BeginRead, ReadBuffer, ReadDrained, NoResultYet, AfterRead, flagVars
<1>4. CASE TakeNoResponse
  <2>1. calls'.told = calls.told
    BY <1>4 DEF TakeNoResponse, Taken, Inv, TypeOK, Values
  <2>2. QED
    BY <1>4, <2>1, Unseen DEF TakeNoResponse, AfterRead
<1>5. CASE WriteChunk \/ WriteStalls
  BY <1>5, Unseen DEF WriteChunk, WriteStalls, flagVars
<1>6. CASE BeginWrite \/ ResponseSent
  <2>1. calls'.told = calls.told
    BY <1>6 DEF BeginWrite, ResponseSent, Inv, TypeOK, Values
  <2>2. QED
    BY <1>6, <2>1, Unseen DEF BeginWrite, ResponseSent
<1>7. CASE ReadRejected \/ TakeFailure \/ WriteShort \/ SessionFails
  <2>1. state \in LiveStates /\ pc # "erased"
    BY <1>7 DEF Inv, StageFitsState, LiveStates, ReadRejected, TakeFailure, WriteShort,
                SessionFails, SessionTurn, AfterRead
  <2>2. /\ state' = "Error" /\ pc' # "erased" /\ timedOut' = timedOut
        /\ calls' = calls /\ verdict' = verdict
    BY <1>7 DEF ReadRejected, TakeFailure, WriteShort, SessionFails, SessionTurn, AfterRead,
                Errored
  <2>3. QED
    BY <2>1, <2>2, EndsWithin DEF Lifecycle!Next
<1>8. CASE TakeResponse \/ TakeUpgrade
  <2>1. state = "Reading" /\ pc = "readDone" /\ pc' = "checkRead" /\ verdict' = verdict
    BY <1>8 DEF Inv, StageFitsState, TakeResponse, TakeUpgrade, AfterRead
  <2>2. calls.told = 0 /\ calls'.told = 0
    BY <1>8, <2>1 DEF Inv, LiveIsUntold, LiveStates, TypeOK, Values, TakeResponse, TakeUpgrade,
                      Taken, NoCalls
  <2>3. CASE TakeResponse
    BY <2>1, <2>2, <2>3 DEF TakeResponse, Phase, Lifecycle!Next, Lifecycle!Respond
  <2>4. CASE TakeUpgrade
    BY <2>1, <2>2, <2>4 DEF TakeUpgrade, Phase, Lifecycle!Next, Lifecycle!Upgrade
  <2>5. QED
    BY <1>8, <2>3, <2>4
<1>9. CASE NextRequest
  <2>1. state \in {"Reading", "Writing"} /\ pc # "erased" /\ pc' # "erased"
    BY <1>9 DEF Inv, StageFitsState, NextRequest, AfterNext
  <2>2. state' = "Reading" /\ verdict' = verdict /\ timedOut' = timedOut
    BY <1>9 DEF NextRequest, FreshRequest
  <2>3. calls.told = 0 /\ calls'.told = 0
    BY <1>9, <2>1 DEF Inv, LiveIsUntold, LiveStates, NextRequest, FreshRequest, NoCalls
  <2>4. CASE state = "Reading"
    BY <2>1, <2>2, <2>3, <2>4, Unseen
  <2>5. CASE state = "Writing"
    BY <2>1, <2>2, <2>3, <2>5 DEF Phase, Lifecycle!Next, Lifecycle!NextRequest
  <2>6. QED
    BY <2>1, <2>4, <2>5
<1>10. CASE LastRequest \/ SessionCompletes \/ SessionAborts
  <2>1. state \in LiveStates /\ pc # "erased"
    BY <1>10 DEF Inv, StageFitsState, LiveStates, LastRequest, SessionCompletes, SessionAborts,
                 SessionTurn
  <2>2. /\ state' \in {"Completed", "Aborted"} /\ pc' # "erased" /\ timedOut' = timedOut
        /\ calls' = calls /\ verdict' = verdict
    BY <1>10 DEF LastRequest, SessionCompletes, SessionAborts, SessionTurn, AfterNext, flagVars
  <2>3. QED
    BY <2>1, <2>2, EndsWithin DEF Lifecycle!Next
<1>11. CASE SessionContinues
  BY <1>11, Unseen DEF SessionContinues, SessionTurn
<1>12. CASE ActivityCheck \/ IdleCheck
  <2>1. pc # "erased" /\ pc' # "erased" /\ verdict' = verdict
    BY <1>12 DEF ActivityCheck, IdleCheck
  <2>2. CASE state \in LiveStates /\ TimedOutNow
    <3>1. Lifecycle!EndsFromOutside
      BY <2>1, <2>2, ToldAtTheEnd DEF TimedOutNow
    <3>2. Phase' = "TimedOut"
      BY <2>1, <2>2 DEF TimedOutNow, Phase
    <3>3. QED
      BY <2>1, <3>1, <3>2 DEF Lifecycle!Next, Lifecycle!TimeOut
  <2>3. CASE UNCHANGED <<state, timedOut, calls>>
    BY <2>1, <2>3, Unseen
  <2>4. QED
    BY <1>12, <2>2, <2>3 DEF ActivityCheck, IdleCheck, Inv, StageFitsState, LiveStates
<1>13. QED
  BY <1>1, <1>2, <1>3, <1>4, <1>5, <1>6, <1>7, <1>8, <1>9, <1>10, <1>11, <1>12 DEF Service

\* Every step of the pipeline is a step of the lifecycle or none.
LEMMA LifecycleStep == Inv /\ [Next]_vars => [Lifecycle!Next]_Lifecycle!vars
<1> SUFFICES ASSUME Inv, [Next]_vars PROVE [Lifecycle!Next]_Lifecycle!vars
  OBVIOUS
<1>1. CASE Environment
  BY <1>1, Unseen DEF Environment, ClientSends, ClientDisconnects, Tick, flagVars
<1>2. CASE Gone \/ UNCHANGED vars
  BY <1>2 DEF Gone, vars, flagVars, Lifecycle!vars, Phase
<1>3. QED
  BY <1>1, <1>2, LifecycleApi, LifecycleService DEF Next

\* Whatever peer, clock and handlers do, a connection keeps the lifecycle it promises.
THEOREM PipelineImplementsLifecycle == Spec => ImplementsLifecycle
  BY LifecycleInit, LifecycleStep, Invariant, PTL DEF Spec, Lifecycle!Spec, ImplementsLifecycle
=============================================================================
