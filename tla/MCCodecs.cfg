SPECIFICATION MCSpec
CONSTANTS
    ByteBits = 2
    WordBits = 8
    SoftCapSlack = 2
    Fields <- MCFields
    SoftCaps = {3, 100}
    MaxFields = 3
    ClearAt = 1
    Timestamps = {1, 3, 4, 40}
    Values = {4, 5, 255}
    Batches <- MCBatches
    Policies = {"block", "last"}
    MaxSize = 12
    SampleBytes = 8
    MinForEstimate = 2
    WireCompression = 2
    MaxParts = 3
    MaxHeld <- MCMaxHeld
    VarbitBuckets <- MCBuckets
    LeadBits = 2
    SigBits = 3
    ChimpLeads <- MCLeads
    CodeBits = 2
    Threshold = 1
    TsLengths <- MCTsLengths
    TsEscape = 6
    BetaBits = 2
    Erasure <- MCErasure
    Recover <- MCRecover
    Verbatim = {0, 255}
INVARIANTS  ChunksExact
CHECK_DEADLOCK FALSE
