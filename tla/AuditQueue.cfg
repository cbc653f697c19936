CONSTANTS
    Workers = {w1, w2}
    Tasks = {t1}
    MaxDeliveries = 2
    ClaimCount = 2
    ReclaimEvery = 1
    MaxJobs = 2
    MaxCrashes = 1
SPECIFICATION FairQueueSpec
INVARIANTS
    QueueTypeOK
    NoLostJob
    PoisonCutoff
PROPERTY DeliversEveryJob
