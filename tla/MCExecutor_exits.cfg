SPECIFICATION FairSpec
CHECK_DEADLOCK FALSE
CONSTANTS
    Pids = {p1, p2}
    ReusePids = FALSE
    MaxConcurrency = 2
    PoolSize = 1
    Grants = {g1}
    Waiters = {}
    MaxTasks = 2
    MaxRefs = 1
INVARIANTS SlotsExact WaitFindsChild
PROPERTIES ExitsAreAnnounced EndedTasksLeave WaiterEnds
