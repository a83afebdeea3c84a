SPECIFICATION Spec
CONSTANTS
    b1 = b1
    b2 = b2
    s1 = s1
    x1 = x1
    v1 = v1
    Templates = {b1, b2}
    Scripts = {s1}
    Extras = {x1}
    Values = {Empty, v1}
    Empty = Empty
    Refs <- MCRefs
    Seeds <- MCSeeds
    Handlers = {h1, h2}
    MaxCalls = 3
    MayFail = TRUE
    NoRow = NoRow
    Idle = Idle
SYMMETRY Symmetry
INVARIANTS
    TypeOK
    RowsAsMeant
    SeedsResolve
CHECK_DEADLOCK FALSE
