\* One call of each kind over two connections.
SPECIFICATION FairSpec
CONSTANTS
    user = user
    replay = replay
    ping = ping
    NoCall = NoCall
    Calls <- MCCalls
    Internal <- MCInternal
    Pings <- MCPings
    MaxConn = 2
INVARIANTS
    TypeOK
    NoLostWakeup
    AnswerMatchesCall
    NoEntryLeak
    NoCallerLeftBehind
PROPERTIES
    FutureSettledOnce
    CallReturns
CHECK_DEADLOCK FALSE
