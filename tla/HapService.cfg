\* Two ports, so that a second daemon can start beside the first.
CONSTANTS
    Mode = {m1}
    Port = {q1, q2}
    Pid = {p1, p2}
    NoPid = NoPid
    NoCfg = NoCfg
    MaxTap = 2
    MaxLate = 1
    MaxShell = 3
SPECIFICATION FairSpec
CHECK_DEADLOCK FALSE
INVARIANTS PidFileNamesDaemon NoStaleDaemon OwnCommands
PROPERTIES StopEnds TasksEnd
