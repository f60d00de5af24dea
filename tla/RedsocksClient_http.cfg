\* A connection through an HTTP CONNECT proxy, with authentication retries.
CONSTANTS
    Proto = "http-connect"
    HALFBUFF = 2
    SockBuf = 2
    MaxSend = 4
SPECIFICATION FairSpec
PROPERTIES
    KeepsPromise
    ReplyDelivered
    ClosedIsDropped
CHECK_DEADLOCK FALSE
