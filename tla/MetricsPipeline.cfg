SPECIFICATION MetricsFairSpec
CONSTANTS
    b1 = b1  b2 = b2  b3 = b3  b4 = b4
    Batches = {b1, b2, b3, b4}
    RowCount <- MCRowCount
    BatchChanSize = 2
    InsertSize = 2
    MaxBufferedRows = 4
INVARIANTS
    MetricsInv
PROPERTIES
    ImplementsMetricsContract
    AcceptedBatchIsStored
