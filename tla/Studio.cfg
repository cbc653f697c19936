CONSTANTS
    Requests = {q1, q2}
    Admins = {q2}
    Publishers = {p1, p2}
    Quota = 1
    MaxRefines = 2
    MaxRuns = 2
    MaxSlugs = 2
SYMMETRY MCSymmetry
SPECIFICATION StudioSpec
INVARIANTS
    QuotaHolds
    ShowcaseHolds
CHECK_DEADLOCK FALSE
