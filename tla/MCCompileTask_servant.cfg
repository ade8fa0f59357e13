SPECIFICATION FairSpec
CONSTANTS
    t1 = t1
    t2 = t2
    timed = timed
    plain = plain
    args1 = args1
    Tasks = {t1, t2}
    Timed = {timed}
    Overridden = {}
    Request <- TwoRequests
    Slots = 1
    Lossy = {t1}
    Upgradable = {1}
    MaxVersion = 2
    MaxSecond = 1
INVARIANTS OwnOutput CacheHoldsItsKey
PROPERTY EveryTaskIsAnnounced
CHECK_DEADLOCK FALSE
