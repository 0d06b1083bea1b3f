\* The nightly commands with requests among them, failing calls and crashes.
SPECIFICATION NightlySpec
CONSTANTS
    p1 = p1 p2 = p2 p3 = p3 u1 = u1 u2 = u2
    None = None
    Pks = {1, 2, 3}
    Learners = {u1}
    Plans <- MCPlans
    PlanOf <- MCPlanOf
    Expires <- MCExpires
    RenewalOf <- MCRenewalOf
    RenewedTo <- MCRenewedTo
    MaxDay = 3
    MaxCalls = 2
    ChunkSize = 1
    CallsFail = TRUE
    PageSize = 1
    UnlinkAfter = 1
    UnlinkFails = TRUE
    BatchSize = 1
    PurgeAfter = 1
    Crashes = TRUE
    Refreshing = {u1}
    Overlap = TRUE
INVARIANTS EnrollmentsSound
