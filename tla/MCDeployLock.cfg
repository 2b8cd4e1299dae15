CONSTANTS
    Procs = {p1, p2, p3}
    MaxAttempts = 2
    MaxFaults = 2
    SlowHolders = TRUE
    NoFile = NoFile
    Orphan = Orphan
SPECIFICATION FairSpec
INVARIANTS TypeOK ExclusiveUnlessExcused
PROPERTIES EveryWaiterAnswered AbandonedLockRecovered ImplementsMutex
