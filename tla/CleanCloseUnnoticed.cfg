SPECIFICATION FairSpec
CONSTANTS
    Topics = {}
    MaxTasks = 2
    MaxConn = 1
    Limited = FALSE
    MaxAttempts = 0
    Env = {"clean"}

PROPERTIES
    DeadLinkIsNoticed
CHECK_DEADLOCK FALSE
