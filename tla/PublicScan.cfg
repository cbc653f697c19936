CONSTANTS
    Requests = {q1, q2}
    Free = 1
    MaxScans = 2
    MaxHits = 2
SPECIFICATION FairPublicSpec
INVARIANTS
    ServedInTurn
    LimitsHold
PROPERTY
    ScansEnd
CHECK_DEADLOCK FALSE
