\* One request after the other.
SPECIFICATION AuthSpec
CONSTANTS
    Requests  = {t1}
    Threshold = 2
    OtpMax    = 2
    MaxCodes  = 2
    Devices   = {}
    Tabs      = {t1}
    MaxTokens = 0
CHECK_DEADLOCK FALSE
INVARIANT FurtherFailureLocks
