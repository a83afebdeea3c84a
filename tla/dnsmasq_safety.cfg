SPECIFICATION Spec
CONSTANTS
    Handlers = {h1, h2}
    MaxPid = 2
    MaxVersion = 2
    Unusable = {2}
    MaxCalls = 3
    MaxCrashes = 1
    Idle = Idle
SYMMETRY Symmetry
INVARIANTS
    TypeOK
    NoStaleServer
    ShutdownLeavesNothing
PROPERTIES
    UpdateRepairs
    StopStops
CHECK_DEADLOCK FALSE
