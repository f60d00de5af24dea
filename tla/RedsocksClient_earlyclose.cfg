\* A client that closes while the relay is being connected.
CONSTANTS
    Proto = "socks5"
    HALFBUFF = 2
    SockBuf = 1
    MaxSend = 1
SPECIFICATION FairSpec
PROPERTY
    EarlyCloseHandled
CHECK_DEADLOCK FALSE
