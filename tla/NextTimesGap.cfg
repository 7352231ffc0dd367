SPECIFICATION Spec
CONSTANTS
    Sizes <- CalendarSizes
    Rules <- MinuteRule
    Zones = {"spring"}
    Change = 10
    Horizon = 40
    MaxTime = 18
    Null = Null
    Endless = Endless
    Texts <- EventTexts
    Times <- EventTimes
    MaxDays = 2
    BaseDelays <- RetryDelays
    MaxDelay = 1800
    MaxLong = 100000
    UtcNow = 7000
    MaxFailures = 14
    Throws = Throws
INVARIANTS EveryMinuteGoesOn
CHECK_DEADLOCK FALSE
