CONSTANTS
    Readers = {r1, r2}
    Writers = {w1}
    Keys = {"national", "domains", "report"}
    Ttls = {0, 2}
    MaxTtl = 2
    LockTtl = 1
    MaxFill = 1
    MaxWrites = 1
SPECIFICATION FairCacheSpec
INVARIANTS
    CacheTypeOK
    HitsSeeSettledWrites
    SingleFlight
PROPERTIES
    ReadsAreRecent
    ReadsEnd
