SPECIFICATION RecoverySpec
CONSTANTS
    Daemons <- OneDaemon
    Mortal = {"d1"}
    Locations = {"l1"}
    Observed <- OneObserved
    Reported <- OneObserved
    Envs = {"gcc"}
    ServantIds = {s1}
    Beats <- OneSlotLowMemory
    Callers = {r1}
    Asks <- AskBoth
    Handlers = {h1}
    MinDaemonVersion = 1
    SizeMod = 16
    MaxTasks = 2
PROPERTIES RequestsAreAnswered AbandonedGrantsAreFreed OrphansAreStopped
           SleepersAreWoken
