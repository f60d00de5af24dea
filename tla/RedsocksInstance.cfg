\* Three instances; beside their listening sockets there is room for two clients.
CONSTANTS
    N = 3
    Fds = 7
    MaxWaiting = 1
    MIN = 1
    MAX = 13
    U16 = 16
SPECIFICATION FairSpec
INVARIANTS
    ListensOrBacksOff
    DescriptorsReturned
PROPERTIES
    ShrinksByOverflow
    ListensAgain
    TearsDown
CHECK_DEADLOCK FALSE
