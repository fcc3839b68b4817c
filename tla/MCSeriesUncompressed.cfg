CONSTANTS
    MaxTimestamp = 6
    MaxValue = 0
    NaN = NaN
    None = None
    Compressed = FALSE
    ChunkCapacity = 3
    LinearScanMax = 16
    MaxTimeDelta = 0
    MaxValueDelta = 0
    Retentions = {0, 2, 4}
    InputPolicies = {"last", "block"}
    InputValues = {0}
    InputTimes = {0, 1, 2, 3, 4, 5, 6}
SPECIFICATION Spec
INVARIANTS TrimsEagerly
