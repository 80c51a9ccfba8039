SPECIFICATION RoutingSpec
CHECK_DEADLOCK FALSE
CONSTANTS
    Paths <- SomePaths
    Patterns <- SomePatterns
    Matches <- PathMatches
    Predicates <- SomePredicates
    Positions <- SomePositions
    Requests <- SomeRequests
    MaxRegistrations = 1
    MaxRequests = 2
INVARIANTS
    EveryUpgradeIsHeard
