\* Two calls, over two replicas of which one answers one request at a time.
SPECIFICATION FairSpec
CONSTANTS
    MaxCalls = 2
    a1 = a1
    a2 = a2
    i1 = i1
    Adapters = {a1, a2}
    Interfaces = {i1}
    Serves <- MCServes
    Concurrency <- MCConcurrency
    Deadline = 2
    RetryDelay = 1
    Nothing = Nothing
INVARIANTS
    AtMostOnce
    VerdictIsTrue
    NothingIsLost
    GivesUpNoSooner
CHECK_DEADLOCK FALSE
PROPERTY OnlyGuestsLast
