\* The default configuration: 100 ms to 60000 ms, in 16 bits.
CONSTANTS
    N = 1
    Fds = 1
    MaxWaiting = 1
    MIN = 100
    MAX = 60000
    U16 = 65536
SPECIFICATION Spec
PROPERTY
    BackoffGrows
CHECK_DEADLOCK FALSE
