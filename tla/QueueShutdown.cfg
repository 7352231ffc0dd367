SPECIFICATION Spec
CONSTANTS
    Task = {t1, t2}
    Cancellable = {t1}
    Null = Null
    MaxSignals = 1
INVARIANTS ShutdownProcessesAll
CHECK_DEADLOCK FALSE
