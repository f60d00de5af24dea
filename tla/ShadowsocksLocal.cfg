SPECIFICATION FairSpec
CONSTANTS
    BUF_SIZE = 2
    SockBuf = 2
    MaxRequest = 1
    MaxReply = 3
INVARIANTS
    TypeOK
    NoDanglingWatcher
    OneWatcherPerDirection
    StreamsIntact
PROPERTIES
    ConnectEnds
    ClosedIsFreed
    ReplyDelivered
    KeepsPromise
