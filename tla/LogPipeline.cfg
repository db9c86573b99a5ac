CONSTANTS
    p1 = p1
    p2 = p2
    p3 = p3
    w1 = w1
    w2 = w2
    NoJob = NoJob
    Payloads = {p1, p2, p3}
    Workers = {w1, w2}
    Size <- MCSize
    LineCount <- MCLineCount
    IngestChanSize = 1
    ParsedChanSize = 1
    BatchInputChanSize = 1
    BatchSize = 3
    MaxBufferedBytes = 4
SPECIFICATION FairSpec
INVARIANTS
    PipelineInv
    NoSendOnClosedChannel
    ByteBudget
    NoLineLost
    DrainedWhenDown
PROPERTIES
    ImplementsContract
    AcceptedIsStored
    ShutdownCompletes
