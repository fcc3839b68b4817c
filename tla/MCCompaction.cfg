CONSTANTS
    Keys = {"a", "b", "c", "d", "e"}
    None = None
    MaxTimestamp = 12
    RuleSpecs <- MCRuleSpecs
    Policies <- MCPolicies
    Topologies <- MCTopologies
    Writable = {"a", "d"}
    InputTimes = {0, 1, 4}
    InputValues = {1}
    Selections <- MCSelections
    Batches <- MCBatches
    Retentions <- MCRetentions
    Renames <- MCRenames
    MaxWrites = 2
    MaxCommands = 2
    MaxFaults = 1
SPECIFICATION Spec
INVARIANTS  DestinationExact BatchAgrees 
CHECK_DEADLOCK FALSE
