SPECIFICATION MCSpec
CONSTANTS
    Chars <- MCChars
    DotChar <- MCDot
    MaxOrValues = 4
    MaxPrefix = 3
    NameLabel <- MCNameLabel
    NoLabel <- MCNoLabel
    LabelNames <- MCLabelNames
    EqualsByte <- MCEquals
    SkipByte <- MCSkip
    DefaultLimit = 3
    LimitMax = 6
    Similarity <- MCSimilarity
    Of <- MCOf
    InRange <- MCInRange
    Shards <- MCShards
    ShardOf <- MCShardOf
    BatchSize = 2
    HeapLength = 3
    Starts <- MCStarts
    Requests <- MCRequests
    MaxServed = 1
CHECK_DEADLOCK FALSE
INVARIANTS   CacheExact
PROPERTIES LiveStaysIndexed
