SPECIFICATION MCFairSpec
CONSTANTS
    Topics = {"a"}
    MaxTasks = 4
    MaxConn = 2
    Limited = TRUE
    MaxAttempts = 1
    Env = {"fatal"}
    MaxLosses = 2
PROPERTIES
    ReconnectConcludes
CHECK_DEADLOCK FALSE
