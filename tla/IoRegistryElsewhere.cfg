CONSTANTS
    Fds = {f1, f2}
    MaxId = 2
    Guarded = TRUE
    Elsewhere = TRUE
    Callbacks = FALSE
SPECIFICATION Spec
INVARIANT RemoveFindsContext
CHECK_DEADLOCK FALSE
