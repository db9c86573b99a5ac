SPECIFICATION FairSpec
CONSTANTS
    h1 = h1  h2 = h2  t1 = t1  j1 = j1  j2 = j2
    LogPosts = {h1}
    OtlpPosts = {h2}
    Tails = {t1}
    Jobs = {j1, j2}
    MaxRows = 2
    BatchSize = 2
INVARIANTS
    StageOrder
    CleanShutdownAccountsForAll
PROPERTIES
    ShutdownTerminates
    PromptShutdownIsClean
