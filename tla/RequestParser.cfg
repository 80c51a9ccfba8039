SPECIFICATION ParsersSpec
\* Inputs end.
CHECK_DEADLOCK FALSE
CONSTANTS
    BufferLength = 9
    Limit <- SmallLimits
    MaxHeaders = 2
    MaxPiece = 2
    MaxMessages = 2
    Short = 2
    Radix = 2
    Scripts <- SomeScripts
    Forms <- SomeForms
    Room = 14
    MaxPart = 9
INVARIANTS
    InBounds
    CutRequestIsReported
    RequestsAreFramed
    GoodRequestsAreTaken
    FramesAreWhole
    PartsAreGenuine
PROPERTIES
    HandlerIsGivenTheTokens
    ErrorIsTheLastWord
