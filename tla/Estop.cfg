\* Three calls, engaging or releasing, over three connections.
SPECIFICATION Spec
CONSTANTS
    c1 = c1
    c2 = c2
    c3 = c3
    Replay = Replay
    Calls <- MCCalls
    MaxConns = 3
INVARIANTS
    TypeOK
    StoppedInReady
    IntentIsLast
CHECK_DEADLOCK FALSE
