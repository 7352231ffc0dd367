SPECIFICATION Spec
CONSTANTS
    Host = {h1, h2}
    NoHost = NoHost
    Client = {c1}
    Schedule = {s1}
    Cron = {s1}
    Run = {e1, e2}
    MaxClaimRetries = 1
    Environment <- RaceEnvironments
SYMMETRY ScheduleSymmetry
VIEW SchedulesView
INVARIANTS TypeOK ContextsKnowLockAndActivity TimedIffActive NoOverlap
PROPERTIES SettledIsFinal
CHECK_DEADLOCK FALSE
