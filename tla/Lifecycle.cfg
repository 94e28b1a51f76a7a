SPECIFICATION FairSpec
CONSTANTS
    MaxInit = 2
    Readers = {1, 2}
    Builds <- AllBuilds
INVARIANTS
    NoAssertion
    NothingSurvives
    OneTicker
    ClockExclusive
PROPERTIES
    DeletedAtRest
    CleanupReturns
