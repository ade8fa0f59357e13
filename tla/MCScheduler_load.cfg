SPECIFICATION Spec
CONSTANTS
    Daemons <- OneDaemon
    Mortal = {}
    Locations = {"l1"}
    Observed <- OneObserved
    Reported <- OneObserved
    Envs = {"gcc"}
    ServantIds = {s1}
    Beats <- Overloaded
    Callers = {r1}
    Asks <- AskOne
    Handlers = {h1}
    MinDaemonVersion = 1
    SizeMod = 16
    MaxTasks = 1
PROPERTIES GrantsOnlyWithLoadToSpare
