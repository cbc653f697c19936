CONSTANTS
    Readers = {r1, r2}
    Writers = {w1, w2}
    Ttl = 2
    MaxFill = 1
    MaxWrites = 2
SPECIFICATION FairSettingsSpec
INVARIANTS
    SettingsAreRecent
PROPERTY
    ChangesTakeEffect
