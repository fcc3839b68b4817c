SPECIFICATION MCSpec
CONSTANTS
    Keys = {k1, k2}
    NumLabels = 2
    MaxId = 3
    DrainIds = 2
    NoKey = NoKey
    NoPass = NoPass
    NoSeries = NoSeries
    Dbs <- MCDbs
    InputLabels <- MCInputLabels
    NameLabels = {1}
    BatchSize = 1
INVARIANTS IdsUnique DirectoryExact AllStaleFree DrainKeepsLookups
PROPERTIES StaleIdsLeave
