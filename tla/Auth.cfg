\* Two requests that verify codes; two browsers with two tabs each.
SPECIFICATION AuthSpec
CONSTANTS
    Requests  = {t1, t2}
    Threshold = 2
    OtpMax    = 2
    MaxCodes  = 2
    Devices   = {d1, d2}
    Tabs      = {t1, t2}
    MaxTokens = 3
SYMMETRY MCSymmetry
CONSTRAINT MCWhole
CHECK_DEADLOCK FALSE
INVARIANTS
    SingleUse
    LockoutFollowsFailures
    LiveTokens
    ErasedStaysErased
    SentToLoginForAReason
