\* Every host of up to three components, loaded by one plan or several, and
\* two callers.
CONSTANTS
    c1 = c1  c2 = c2
    Callers = {c1, c2}
    Plans <- MCPlans
    HasProxy = TRUE
    MaxLoaded = 3
    MaxStores = 4
    MaxCalls = 2
SPECIFICATION Spec
SYMMETRY CallerSymmetry
CHECK_DEADLOCK FALSE
INVARIANTS
    TogetherOnlyIfBound
    RefusedOnlyForTwoStores
    InsideHoldsTheStore
    NoLockIsLost
    TrapIsContained
    DeadlockNeedsCyclicStores
