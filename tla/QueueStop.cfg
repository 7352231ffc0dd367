SPECIFICATION FairSpec
CONSTANTS
    Task = {t1, t2}
    Cancellable = {t1}
    Null = Null
    MaxSignals = 1
INVARIANTS TypeOK EachTaskInOnePlace ReturnedStopProcessedAll ShutdownCancels
PROPERTIES EveryTaskIsProcessed StopEnds
CHECK_DEADLOCK FALSE
