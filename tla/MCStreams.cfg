CONSTANTS
    Coros = {c1, c2, c3, c4}
    Null = Null
    Unlocked = Unlocked
    Writers = {w1, w2}
    PerWrite = 2
    Roles = {"server", "client"}
SPECIFICATION StreamsSpec
INVARIANTS MutualExclusion LockAccounted WaitersAccounted TlsExact HttpExact
PROPERTIES IsFifoLock WaiterEventuallyOwns StreamsEnd
