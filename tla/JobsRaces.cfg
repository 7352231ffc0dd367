SPECIFICATION Spec
CONSTANTS
    Host = {h1, h2}
    Slot = {s1}
    Client = {c1}
    Job = {j1}
    Key = {}
    NoKey = NoKey
    NoHost = NoHost
    Priority = {0}
    MaxAttempts = 2
    MaxClaimRetries = 2
    Environment <- RaceEnvironments
    MaxVersion = 50
SYMMETRY HostSymmetry
VIEW JobsView
INVARIANTS
    TypeOK
    NoLostUpdate
    AttemptsBounded
    FailedIsExhausted
    OneExecutionPerAttempt
    OwnerRunsCurrentAttempt
    ExclusiveExecution
PROPERTIES EveryWriteIsVersioned ImplementsLifecycle TerminalIsFinal
CHECK_DEADLOCK FALSE
