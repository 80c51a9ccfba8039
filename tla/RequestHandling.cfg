SPECIFICATION RequestSpec
\* The requests to Routing end.
CHECK_DEADLOCK FALSE
CONSTANTS
    Capacity = 2
    MaxBody = 3
    Paths <- SomePaths
    Patterns <- SomePatterns
    Matches <- PathMatches
    Predicates <- SomePredicates
    Positions <- SomePositions
    Requests <- SomeRequests
    MaxRegistrations = 3
    MaxRequests = 1
    Characters <- SomeCharacters
    Lookups <- SomeLookups
    Disks <- SomeDisks
    Calls <- SomeCalls
    Sites <- SomeSites
    Begins <- BeginsWith
INVARIANTS
    EveryMessageIsAnswered
    RoutePriority
    GuardsHold
    MatchIsExact
    BodyIsWhatItSays
    OnlyItsOwnUrls
PROPERTIES
    FirstResultWins
    BodyIsWhole
    CutRequestIsSilent
