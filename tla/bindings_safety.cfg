SPECIFICATION Spec
CONSTANTS
    Macs = {m1, m2}
    IPs = {i1, i2}
    Handlers = {h1, h2, h3}
    MaxCalls = 4
    MaxStarts = 2
    Idle = Idle
    Fragment = Fragment
SYMMETRY Symmetry
INVARIANTS
    TypeOK
    TableIsExact
    ServesTheFile
PROPERTIES
    ImplementsTable
CHECK_DEADLOCK FALSE
