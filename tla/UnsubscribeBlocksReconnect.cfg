SPECIFICATION MCFairSpec
CONSTANTS
    Topics = {"a"}
    MaxTasks = 4
    MaxConn = 2
    Limited = TRUE
    MaxAttempts = 1
    Env = {"unsub"}
    MaxLosses = 1
PROPERTIES
    ReconnectConcludes
CHECK_DEADLOCK FALSE
