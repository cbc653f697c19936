\* One domain with two schedules, a daily and a longer cadence, two schedulers
\* in a rollout and two verifications at a time; two requests for pages, two
\* administrators and three decisions, limits on both sides of the depths.
SPECIFICATION OfficersSpec
CONSTANTS
    Sites        = {d1}
    Monitors     = {s1, s2}
    Pollers      = {p1, p2}
    Checks       = {v1, v2}
    Cadences     = {1, 2}
    LastDay      = 2
    Asks         = {s1, s2}
    Admins       = {a1, a2}
    Submissions  = {u1}
    Depths       = {3, 4}
    FreeDefault  = 2
    MaxDecisions = 3
SYMMETRY MCSymmetry
CONSTRAINTS
    MCOverlaps
    MCMethods
INVARIANTS
    OwnershipHolds
    OneScheduledAudit
    TrailMatchesRow
    DeepAuditsWereApproved
PROPERTY
    CadenceKept
