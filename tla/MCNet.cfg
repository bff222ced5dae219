CONSTANTS
    Conns = {c1, c2}
    Starters = {a1, a2}
    Stoppers = {s1}
    Workers = {w1, w2}
    Callers = {r1, r2}
    Keys = {"k1", "k2"}
    TTL = 1
    PurgeEvery = 2
    MaxTime = 2
SPECIFICATION NetSpec
INVARIANTS StoppedIsQuiet   LookupsAccounted 
PROPERTIES NetCallsEnd
CHECK_DEADLOCK FALSE
