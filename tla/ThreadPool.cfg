SPECIFICATION FairSpec
CONSTANTS
    a = a
    b = b
    NumThreads <- PoolSizes
    MaxQueueSize = {0, 1}
    Caller = {a, b}
    Scripts <- TwoCallers
    MaxThreads = 3
    MaxJobs = 3
INVARIANTS RunsOnce
PROPERTIES SyncMeansFinished BarrierMeansFinished WaitMeansOver PoolCallsReturn
CHECK_DEADLOCK FALSE
