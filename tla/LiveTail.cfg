SPECIFICATION FairSpec
CONSTANTS
    c1 = c1  s1 = s1  s2 = s2
    NoSession = NoSession
    Streams = {s1, s2}
    Sessions = {c1}
    BufSize = 1
    MaxLogs = 2
INVARIANTS
    SubscriberInv
PROPERTIES
    DropsOnlyForFullBuffers
    StreamsEnd
