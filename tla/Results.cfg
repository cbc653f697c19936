\* AuditVerdict: two workers may hold deliveries of the audit at the same time;
\* three deliveries: a result, a half-failed one and another result; one review.
\* EngineRun: three sections of up to three pages, four pages audited.
SPECIFICATION ResultsSpec
CONSTANTS
    Workers    = {w1, w2}
    Reviewers  = {r1}
    MaxCalls   = 3
    MaxReviews = 1
    RoundedUp <- MCRoundedUp
    TiesUp    <- MCTiesUp
    Previous  <- MCPrevious
    Outcomes  <- MCOutcomes
    Rules        = {a1, a2}
    Pages       <- MCPages
    NumSections  = 3
    PoolSizes    = {0, 1, 3}
    LabScores    = {0, 90}
    VisionScores <- MCVision
    FieldScores  <- MCField
    MAX_CRAWL    = 4
SYMMETRY MCSymmetry
CONSTRAINTS
    MCOverlaps
    MCResized
\* An audit and a run of the engine end.
CHECK_DEADLOCK FALSE
INVARIANTS
    VerdictTypeOK
    CertificateHolds
    ReportHolds
    ExplanationHolds
    DiverseSample
    RestsOnEvidence
PROPERTY
    NeverWorseOnBetterEvidence
