CONSTANTS
    Addrs = {c1, c2}
    Dests = {d1, d2}
    TProxy = TRUE
    ConfDest = d1
    Login = TRUE
    max_pktqueue = 2
    Fds = 6
    MaxPkts = 3
SPECIFICATION FairSpec
CHECK_DEADLOCK FALSE
INVARIANTS SendersCounted DescriptorsAccounted NotOvertaken QueueDrained
PROPERTIES ClientsExpire
