SPECIFICATION StreamsSpec
\* Bodies end.
CHECK_DEADLOCK FALSE
CONSTANTS
    ChunkSize = 2
    BufferSize = 3
    HeadSize = 2
    MaxBody = 5
    Cases <- SomeCases
    Values <- SomeValues
    BlockSize = 3
    MaxRead = 2
    Sources <- SomeSources
    MaxTake = 3
INVARIANTS
    ClientFollows
    CompleteWhenSent
    TextIsSubstituted
    HeadersFitTheBody
    StreamsAreExact
PROPERTIES
    ResponseIsSent
