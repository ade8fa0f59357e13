SPECIFICATION FairSpec
CONSTANTS
    Threads = {t1, t2}
    KeptFor = 1
    MaxGrants = 4
INVARIANTS GrantsInOnePlace WaitersExact
PROPERTIES WaitersAreServed
