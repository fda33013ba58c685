\* Limits of 0 to 3 missed pings.
SPECIFICATION FairSpec
CONSTANTS
    Interval = 3
    Timeout = 2
    MissLimits = {0, 1, 2, 3}
    Delay = 1
INVARIANTS
    TypeOK
    NoticedInTime
    SilentWhenGivenUp
    PromptIsKept
PROPERTIES
    DeadIsNoticed
CHECK_DEADLOCK FALSE
