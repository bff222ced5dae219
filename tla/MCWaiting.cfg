CONSTANTS
    Depth = 3
    Null = Null
    Closed = Closed
    Nobody = Nobody
    Owner = Owner
    Futures = {w1, w2, w3}
    Setters = {s1, s2}
    FutureOnLoop = {w1, w2, s1, Owner}
    Regs = {r1, r2, r3}
    Cancelled = {v1, v2}
    Cancellers = {c1, c2}
    CancelOnLoop = {r1, r2, v1, c1}
    Threads = {p1}
    Tasks = {t1, t2}
SPECIFICATION WaitingSpec
INVARIANTS WinnerDecides WaitersAccounted FutureReceives
PROPERTIES ResumedOnce CallbackOnce WaitsEnd LoopServes
CHECK_DEADLOCK FALSE
