CONSTANTS
    Acquirers = {a1, a2}
    Conns = {c1, c2, c3}
    MaxSize = 1
SPECIFICATION Spec
INVARIANT CancelThrows
CHECK_DEADLOCK FALSE
