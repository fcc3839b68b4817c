SPECIFICATION LoadSpec
CONSTANTS
    Keys = {k1, k2}
    NumLabels = 1
    MaxId = 4
    NoKey = NoKey
    NoPass = NoPass
    NoSeries = NoSeries
    Dbs = {0}
    InputLabels = {{1}}
    NameLabels = {}
    LoadDb = 0
    WindowSize = 1
    MaxLoaded = 3
INVARIANTS ReconciledExact NoPhantomAfterLoad
CHECK_DEADLOCK FALSE
