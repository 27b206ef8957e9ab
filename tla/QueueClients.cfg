CONSTANTS
    Capacity = 2
    Pushers = {p1, p2}
    Poppers = {r1, r2}
    Closers = {k1, k2}
    MaxPushes = 2
SPECIFICATION Spec
INVARIANTS DrainedBeforeEnd
PROPERTY CloseReleasesWaiters
CHECK_DEADLOCK FALSE
