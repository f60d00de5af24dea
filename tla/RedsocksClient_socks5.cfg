\* A connection through a SOCKS5 proxy: five payload units fill every buffer of a direction.
CONSTANTS
    Proto = "socks5"
    HALFBUFF = 2
    SockBuf = 1
    MaxSend = 5
SPECIFICATION Spec
INVARIANTS
    NoUseAfterFree
    EofIsForwarded
    StreamsIntact
    EofAfterData
    DirectionAlive
PROPERTIES
    BoundedBuffers
CHECK_DEADLOCK FALSE
