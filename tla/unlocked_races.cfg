\* One request of each kind that may race with the others; every window of the lock is open.
SPECIFICATION Spec
CONSTANTS
    l1 = l1 l2 = l2 l3 = l3 l4 = l4 l5 = l5 e1 = e1 e2 = e2
    a1 = a1 a2 = a2 p1 = p1 p2 = p2 v1 = v1 v2 = v2 k1 = k1 k2 = k2 f1 = f1
    NoEmail = NoEmail
    Licenses = {l1, l2, l3}
    Provisioned = {l1, l2, l3}
    Emails = {e1, e2}
    Assigners = {a1}
    AutoAppliers = {p1}
    Activators = {k1}
    Revokers = {}
    Freezers = {f1}
    AcquireRace = TRUE
    OutliveLock = TRUE
    RevocationCap = FALSE
    RevokeMaxPercentage = 0
SYMMETRY Symmetry
INVARIANTS HoldersCoherent
