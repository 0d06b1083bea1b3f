\* The nightly commands with requests between them.
SPECIFICATION FairNightlySpec
CONSTANTS
    p1 = p1 p2 = p2 p3 = p3 u1 = u1 u2 = u2
    None = None
    Pks = {1, 2, 3, 4}
    Learners = {u1}
    Plans <- MCPlans
    PlanOf <- MCPlanOf
    Expires <- MCExpires
    RenewalOf <- MCRenewalOf
    RenewedTo <- MCRenewedTo
    MaxDay = 4
    MaxCalls = 2
    ChunkSize = 1
    CallsFail = FALSE
    PageSize = 1
    UnlinkAfter = 1
    UnlinkFails = FALSE
    BatchSize = 1
    PurgeAfter = 1
    Crashes = FALSE
    Refreshing = {u1}
    Overlap = FALSE
INVARIANTS CurrentLearnersLinked NoDataLeftBehind
PROPERTIES ExpiredPlansProcessed RunForgetsNobody DueDataPurged
