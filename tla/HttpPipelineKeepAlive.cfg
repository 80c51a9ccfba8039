SPECIFICATION Spec
CONSTANTS
    TotalLength = 3
    ActivityTimeout = 2
    ReadTimeout = 1
    MaxUnread = 1
    MaxSend = 3
    MaxChunks = 1
PROPERTIES
    TotalTimeIsPerRequest
