SPECIFICATION FairSpec
CONSTANTS
    Caller = {c1, c2}
    Key = {k1, k2}
    MaxCallbacks = 1
INVARIANTS TypeOK TrackedUnlessRaced
PROPERTIES EveryCallReturns
CHECK_DEADLOCK FALSE
