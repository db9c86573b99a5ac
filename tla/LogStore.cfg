SPECIFICATION StoreSpec
CONSTANTS
    MaxRows = 3
    Chunk = 1
    PollLimit = 1
    FirstLimit = 1
    PageSize = 1
    MaxTs = 2
    Sweeps = 2
INVARIANTS
    TailFollowsArrival
    PagesCoverHistory
PROPERTIES
    SweepDeletesExactlyExpired
