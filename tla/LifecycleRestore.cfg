SPECIFICATION UndoubledFairSpec
CONSTANTS
    Topics = {"a", "b"}
    MaxTasks = 4
    MaxConn = 2
    Limited = TRUE
    MaxAttempts = 1
    Env = {"clean", "fatal", "close", "estop"}
    MaxLosses = 3
PROPERTIES
    RestoredBeforeReady
    OutageEnds
CHECK_DEADLOCK FALSE
