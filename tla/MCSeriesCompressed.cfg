CONSTANTS
    MaxTimestamp = 6
    MaxValue = 1
    NaN = NaN
    None = None
    Compressed = TRUE
    ChunkCapacity = 3
    LinearScanMax = 1
    MaxTimeDelta = 1
    MaxValueDelta = 0
    Retentions = {0, 3, 5}
    InputPolicies = {"first", "last", "sum", "block"}
    InputValues = {1, NaN}
    InputTimes = {0, 1, 3, 6}
SPECIFICATION Spec
INVARIANTS ChunksOrdered MetadataExact ReadsExact
PROPERTIES FloorNeverResurrects ImplementsMap
