SPECIFICATION FairSpec
CONSTANTS
    TotalLength = 3
    ActivityTimeout = 2
    ReadTimeout = 1
    MaxUnread = 1
    MaxSend = 2
    MaxChunks = 1
INVARIANTS
    Ownership
    OneResultPerRequest
    ResponseNotifications
    DisconnectIsTold
PROPERTIES
    TimeoutTellsAndStops
    ResponseNotTruncated
    ImplementsLifecycle
    Terminates
