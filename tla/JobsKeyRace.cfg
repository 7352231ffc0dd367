SPECIFICATION Spec
CONSTANTS
    Host = {h1}
    Slot = {s1}
    Client = {c1, c2}
    Job = {j1, j2}
    Key = {k1}
    NoKey = NoKey
    NoHost = NoHost
    Priority = {0}
    MaxAttempts = 1
    MaxClaimRetries = 1
    Environment <- CalmEnvironment
    MaxVersion = 3
INVARIANTS OneActiveJobPerKey
CHECK_DEADLOCK FALSE
