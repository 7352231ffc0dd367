SPECIFICATION FairSpec
CONSTANTS
    beat = beat
    late = late
    Event <- Jobs
    WorkerOf <- WorkerNames
    Interval <- Seconds
    Matches <- Minutes
    Exclusive = {beat}
    Once = {late}
    AtStart = {late}
    AtRuntime = {beat}
    Callback = {c1, c2}
    Throwing = TRUE
    StartSecond = 59
    MaxTime = 2
INVARIANTS TypeOK TicksAccounted OneFirstTick NoOverlap
PROPERTIES StopEnds
CHECK_DEADLOCK FALSE
