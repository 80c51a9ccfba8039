SPECIFICATION MCSpec
CONSTANTS
    Connections = {c1, c2, c3}
    MaxConcurrent = 2
    MaxUnread = 1
    MaxFrames = 2
INVARIANTS
    SlotsHoldTheLive
    ContextAgrees
    MessagesInSession
    EndIsNotified
    NoDataAfterClose
    CompletionIsMutual
PROPERTIES
    EveryoneOncePerPass
    EveryoneIsAccepted
    SessionEnds
