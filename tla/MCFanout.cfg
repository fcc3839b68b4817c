CONSTANTS
    NumSlots = 4
    NoNode = NoNode
    NoAddr = NoAddr
    None = None
    a = a
    b = b
    c = c
    x = x
    y = y
    Nodes <- MCNodes
    Clients = {x, y}
    Home <- MCHome
    Command <- MCCommand
    Replies <- MCReplies
    Layouts = 2
    Handlers <- MCHandlers
    Newer <- MCNewer
    PeerCapacity = 1
    LocalCapacity = 1
    IntervalFloor = 1
    IntervalCap = 2
    MaxFaults = 1
SPECIFICATION Spec
CHECK_DEADLOCK FALSE
INVARIANTS TypeOK  OneLayout 
PROPERTIES CompletedIsFinal RequestsEnd
