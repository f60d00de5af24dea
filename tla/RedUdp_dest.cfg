CONSTANTS
    Addrs = {c1, c2}
    Dests = {d1, d2}
    TProxy = TRUE
    ConfDest = d1
    Login = TRUE
    max_pktqueue = 2
    Fds = 6
    MaxPkts = 2
SPECIFICATION Spec
CHECK_DEADLOCK FALSE
INVARIANTS ForwardedWhereSent
