SPECIFICATION Spec
CONSTANTS
    Host = {h1}
    Slot = {s1}
    Client = {c1}
    Job = {j1}
    Key = {}
    NoKey = NoKey
    NoHost = NoHost
    Priority = {0}
    MaxAttempts = 1
    MaxClaimRetries = 1
    Environment <- CalmEnvironment
    MaxVersion = 3
PROPERTIES SucceededIsNotFailed
CHECK_DEADLOCK FALSE
