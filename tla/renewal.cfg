\* The nightly command, the endpoint and the admin action, one after the other.
SPECIFICATION RenewalSpec
CONSTANTS
    l1 = l1 l2 = l2 s1 = s1 s2 = s2 s3 = s3 s4 = s4 p1 = p1 p2 = p2
    j1 = j1 n1 = n1 d1 = d1
    Prior = Prior
    None = None
    Learners = {l1, l2}
    Slots = {s1, s2, s3, s4}
    Plans = {p1, p2}
    Jobs = {j1}
    Endpoints = {n1}
    Admins = {d1}
    MaxLicenses = 3
    Overlap = FALSE
SYMMETRY RenewalSymmetry
INVARIANTS RenewalInv RenewedSize
PROPERTIES ReprocessingHarmless CarriedOverExactly
