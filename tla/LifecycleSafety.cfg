SPECIFICATION MCSpec
CONSTANTS
    Topics = {"a"}
    MaxTasks = 3
    MaxConn = 2
    Limited = TRUE
    MaxAttempts = 1
    Env = {"clean", "fatal", "close", "unsub", "crash"}
    MaxLosses = 2
INVARIANTS
    TypeOK
    ReconnectIsPending
    OneConnection
    DownMeansPaused
PROPERTIES
    TerminalIsFinalOnceQuiet
CHECK_DEADLOCK FALSE
