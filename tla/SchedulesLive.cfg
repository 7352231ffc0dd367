SPECIFICATION FairSpec
CONSTANTS
    Host = {h1, h2}
    NoHost = NoHost
    Client = {c1}
    Schedule = {s1}
    Cron = {s1}
    Run = {e1, e2}
    MaxClaimRetries = 2
    Environment <- CrashEnvironments
PROPERTIES DueIsExecuted EveryRunSettles
CHECK_DEADLOCK FALSE
