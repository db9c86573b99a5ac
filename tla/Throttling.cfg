SPECIFICATION ThrottleSpec
CONSTANTS
    i1 = i1  i2 = i2  i3 = i3  r1 = r1  r2 = r2
    NoIP = NoIP
    IPs = {i1, i2, i3}
    Attempts = {r1, r2}
    Window = 2
    MaxFails = 2
    Lockout = 2
    Stale = 3
    MaxEntries = 2
    RecordDelay = 1
    MaxTime = 6
SYMMETRY Symmetry
INVARIANTS
    ThrottleTypeOK
PROPERTIES
    ForgetsOnlyAtTheCap
    LockoutHolds
