\* One topic over two connections, seven configurations.
SPECIFICATION FairSpec
CONSTANTS
    Configs <- MCConfigs
    QueueSize = 2
    History = 1
    MaxSeq = 3
    MaxConns = 2
    ChanSize = 2
INVARIANTS
    TypeOK
PROPERTIES
    KeepsPromise
    NothingAfterClosed
    Settles
CHECK_DEADLOCK FALSE
