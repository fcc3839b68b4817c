CONSTANTS
    MaxTimestamp = 5
    MaxValue = 2
    NaN = NaN
    None = None
    Compressed = FALSE
    ChunkCapacity = 3
    LinearScanMax = 16
    MaxTimeDelta = 0
    MaxValueDelta = 0
    k1 = k1
    k2 = k2
    Keys = {k1, k2}
    InputKeys = {k1}
    MaxWrites = 3
    Clients = {c1}
    c1 = c1
    Foreign = Foreign
    Bad = Bad
    Retentions = {0, 2}
    KeyPolicies <- MCPolicies
    InputSamples <- MCSamples
    InputBatches <- MCBatches
    InputBulks <- MCBulks
    InputIncrements <- MCIncrements
    InputRemovals <- MCRemovals
    InputRequests <- MCRequests
SPECIFICATION Spec
INVARIANTS WritesExact NoLostWakeup ReadsExact
CHECK_DEADLOCK FALSE
