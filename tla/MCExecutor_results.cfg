SPECIFICATION Spec
SYMMETRY Symmetry
CHECK_DEADLOCK FALSE
CONSTANTS
    Pids = {p1, p2}
    ReusePids = FALSE
    MaxConcurrency = 1
    PoolSize = 1
    Grants = {g1}
    Waiters = {w1, w2}
    MaxTasks = 2
    MaxRefs = 2
INVARIANTS ConcurrencyRespected ResultsAreComplete
