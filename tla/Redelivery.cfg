CONSTANTS
    Workers = {w1, w2}
    Tasks = {1}
    MaxDeliveries = 2
    ClaimCount = 1
    ReclaimEvery = 1
    MaxJobs = 1
    MaxCrashes = 1
    Domains = {d1}
    Clients = {c1}
    Scheduler = scheduler
    Bulk = bulk
SPECIFICATION FairSpec
INVARIANT
    ResultsPerAttempt
PROPERTIES
    UnlessRedelivered
    EnqueuedAuditEnds
