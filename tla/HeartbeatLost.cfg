SPECIFICATION Spec
CONSTANTS
    Topics = {"a"}
    MaxTasks = 2
    MaxConn = 1
    Limited = FALSE
    MaxAttempts = 0
    Env = {}

INVARIANTS
    ReadyHasHeartbeat
CHECK_DEADLOCK FALSE
