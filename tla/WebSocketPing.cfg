SPECIFICATION Spec
CONSTANTS
    MaxUnread = 1
    MaxFrames = 2
PROPERTIES
    PingIsAnswered
