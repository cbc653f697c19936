CONSTANTS
    Workers = {w1}
    Tasks = {1, 2}
    MaxDeliveries = 2
    ClaimCount = 1
    ReclaimEvery = 1
    MaxJobs = 2
    MaxCrashes = 0
    Domains = {d1}
    Clients = {c1, c2}
    Scheduler = scheduler
    Bulk = bulk
SYMMETRY ClientSymmetry
VIEW SubmissionView
SPECIFICATION Spec
INVARIANTS
    TypeOK
    OneFreshSubmission
    SubmittedAuditIsAnswered
PROPERTY UsesTheQueue
