SPECIFICATION FairSpec
CONSTANTS
    Host = {h1}
    Slot = {s1}
    Client = {c1}
    Job = {j1, j2}
    Key = {k1}
    NoKey = NoKey
    NoHost = NoHost
    Priority = {0}
    MaxAttempts = 2
    MaxClaimRetries = 1
    Environment <- CrashEnvironment
    MaxVersion = 2
INVARIANTS OneActiveJobPerKeyInWindow
PROPERTIES EveryJobSettles
CHECK_DEADLOCK FALSE
