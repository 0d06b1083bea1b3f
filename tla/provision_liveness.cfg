\* One request and its task, nobody else takes the lock.
SPECIFICATION FairProvisioningSpec
CONSTANTS
    s1 = s1 s2 = s2 t1 = t1 t2 = t2
    Savers = {s1}
    Tasks = {t1}
    BatchSize = 2
    MaxRetries = 1
    MaxErrorRetries = 2
    MaxDesired = 5
    Freezable = TRUE
    Assigning = FALSE
    AcquireRace = FALSE
    OutliveLock = FALSE
    SyncOverlap = FALSE
    Faults = FALSE
PROPERTIES DesiredReached
