\* Two or three of everything; one failure, or two where a task may retry once.
SPECIFICATION OutboundSpec
CONSTANTS
    Pks = {1, 2}
    Learners = {u1}
    None = None
    PlanExpires <- MCPlanExpires
    MailBatchSize = 1
    DaysBefore = 1
    DaysSince = 2
    MaxDay = 4
    MaxChanges = 2
    MaxLost = 1
    UTasks = {1, 2}
    MaxLicenses = 4
    InitialAfter = 2
    MaxErrors = 1
    MaxURetries = 1
    TasksOverlap = FALSE
    Staff = {s1, s2}
    Jobs = {1, 2, 3}
    MaxJobRetries = 1
    MaxJobFaults = 1
    MaxRequests = 2
    Seats = {1, 2}
    People = {p1, p2}
    Nobody = Nobody
    Calls = {c1, c2}
    Caps = {1, 9}
    NoCap = 9
    MaxTaskRetries = 1
    MaxBreaks = 1
    MaxEmails = 3
    MaxCourses = 2
    ChunkSize = 2
    RequestLimit = 3
    MaxOutages = 1
    MaxRoster = 1
    TLicenses = {1, 2}
    EventPage = 1
    MaxTRetries = 1
    MaxTFaults = 2
    MaxTOps = 3
INVARIANTS NoDuplicateMail MailsInOrder AuditTrail ResultsComplete
PROPERTIES ExpiryMailsSent AlarmsSound AssignedEventuallyTold RevocationFollowed JobAnswered HalfYearTold AssignmentTold
CHECK_DEADLOCK FALSE
