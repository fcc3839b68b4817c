SPECIFICATION FairSlotSpec
CONSTANTS
    k1 = k1
    k2 = k2
    k3 = k3
    s1 = s1
    s2 = s2
    Keys = {k1, k2, k3}
    NumLabels = 1
    MaxId = 5
    NoKey = NoKey
    NoPass = NoPass
    NoSeries = NoSeries
    Dbs <- OneDb
    InputLabels <- OneLabel
    NameLabels = {}
    Slots = {s1, s2}
    SlotOf <- TwoSlots
    Db = 0
    NumForeign = 3
    ForeignSlot <- ThreeForeign
    CleanupBatch = 1
    MaxMigrations = 2
INVARIANTS NothingStranded NoDeadIds
PROPERTIES ImportedSeriesFound
