SPECIFICATION Spec
SYMMETRY Symmetry
CONSTANTS
    Daemons <- OneDaemon
    Mortal = {}
    Locations = {"l1"}
    Observed <- OneObserved
    Reported <- OneObserved
    Envs = {"gcc"}
    ServantIds = {s1, s2}
    Beats <- OneSlotLeaving
    Callers = {r1}
    Asks <- AskOne
    Handlers = {h1, h2}
    MinDaemonVersion = 1
    SizeMod = 16
    MaxTasks = 2
INVARIANTS RunningTasksExact TasksOfLiveServants KillsOnlyDeadGrants
           OneServantPerLocation BookkeeperOfLiveServants
PROPERTIES GrantsWithinCapacity LiveGrantsAreKept GrantsFormALedger
