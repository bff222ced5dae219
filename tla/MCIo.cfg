CONSTANTS
    Fds = {f1, f2}
    MaxId = 4
    RecvMax = 2
    SendMax = 1
    WriteMax = 2
SPECIFICATION IoSpec
INVARIANTS NoLostEdge ChannelWaiters GuardedIsSafe
PROPERTIES IoEnds
