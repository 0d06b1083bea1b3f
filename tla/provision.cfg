\* Two requests, two tasks, faults and assignments; the lock has no open window.
SPECIFICATION ProvisioningSpec
CONSTANTS
    s1 = s1 s2 = s2 t1 = t1 t2 = t2
    Savers = {s1, s2}
    Tasks = {t1, t2}
    BatchSize = 2
    MaxRetries = 1
    MaxErrorRetries = 2
    MaxDesired = 4
    Freezable = FALSE
    Assigning = TRUE
    AcquireRace = FALSE
    OutliveLock = FALSE
    SyncOverlap = FALSE
    Faults = TRUE
SYMMETRY ProvisioningSymmetry
INVARIANTS NeverMoreThanAsked
