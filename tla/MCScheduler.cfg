CONSTANTS
    Threads = {p1, p2}
    Tasks = {t1, t2, t3}
    None = None
    LongSleepers = {t3}
    Delays = {0, 3}
    LongDelay = 4
    TicksPerMs = 2
    DefaultTimeout = 1
    IntMax = 1
    Fds = {f1, f2}
    MaxId = 3
    Producers = {q1, q2, q3}
    Values = {v1, v2}
    Nodes = {n1, n2, n3, n4}
    Null = Null
    Nullopt = Nullopt
SYMMETRY Symmetry
SPECIFICATION LoopSpec
INVARIANTS NoLostWakeup HandlesAccounted NoOversleep  QueueNodesAccounted
PROPERTIES QueueIsFifo
