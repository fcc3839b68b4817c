SPECIFICATION MCSpec
CONSTANTS
    NaN = NaN
    None = None
    WireWidth = 1024
    MaxAggregations = 2
    Configs <- MCConfigs
    Window = 2000
    Queries <- MCQueries
    Values <- MCValues
    Gaps = {1, 3}
    OpenGaps = {2}
    OpenValues <- MCOpenValues
    Settings <- MCSettings
    ChunkCapacity = 2
    MaxSamples = 3
    MaxTimestamp = 60
    Joins <- MCJoins
    LeftValues <- MCLeft
    RightValues <- MCRight
    JoinGaps = {1, 2}
    JoinSettings = {0, 2}
    JoinCapacity = 2
    MaxSide = 3
    Now = 8
    Shards = {1, 2}
    Home <- MCHome
    Databases <- MCDatabases
    MRangeQueries <- MCMRangeQueries
    Pivots <- MCPivots
    LateValues <- MCLateValues
    MaxLate = 1
    Reading <- MCReading
    MaxTsValues = 3
    MaxLabels = 3
    MaxLimit = 5
    DefaultLimit = 2
    Clock = 8
    MinChunkSize = 48
    MaxChunkSize = 8192
    MaxDecimalDigits = 16
    MaxSignificantDigits = 16
    MaxRetention = 50
    SeriesClauseSet <- MCSeriesClauses
    ConfigWords <- MCConfigWords
    MaxWork = 2
    CommandClauses <- MCCommandClauses
    Heads <- MCHeads
    MaxClauses = 2
INVARIANT NeverExact
CHECK_DEADLOCK FALSE
