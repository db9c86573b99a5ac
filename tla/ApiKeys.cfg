SPECIFICATION FairSpec
CONSTANTS
    s1 = s1  s2 = s2  r1 = r1  r2 = r2  a1 = a1
    NoSecret = NoSecret
    Free = Free
    Secrets = {s1, s2}
    Admins = {a1}
    ArgonSlots = 1
    MaxId = 2
    Requests = {r1, r2}
INVARIANTS
    CacheInv
PROPERTIES
    VerifyReturns
