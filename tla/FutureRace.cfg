CONSTANTS
    Waiters = {w1}
    Setters = {s1}
    OnLoop = {w1}
    Owner = Owner
    Null = Null
    Closed = Closed
SPECIFICATION Spec
INVARIANT ReceivesWhatWasSet
CHECK_DEADLOCK FALSE
