SPECIFICATION Spec
CONSTANTS
    b1 = b1
    s1 = s1
    x1 = x1
    v1 = v1
    v2 = v2
    i1 = i1
    p1 = p1
    n1 = n1
    n2 = n2
    Templates = {b1}
    Scripts = {s1}
    Extras = {x1}
    Values = {Empty, v1, v2}
    Empty = Empty
    Refs <- MCRefs
    Seeds <- MCSeeds
    Handlers = {h1}
    MaxCalls = 1
    MayFail = FALSE
    NoRow = NoRow
    Idle = Idle
    SNs = {t1}
    Admitters = {a1, a2}
    Names = {n1, n2}
    IsoOf <- MCIsoOf
    PathOf <- MCPathOf
    NameOf <- MCNameOf
    BootOf <- MCBootOf
    Base <- MCBase
    Fallbacks <- MCFallbacks
    Unpacked = {}
    MaxCreates = 2
    MaxAsks = 4
    Isos = {i1}
    Paths = {p1}
    Mounters = {m1, m2}
    MaxMounts = 4
    MaxReboots = 1
SYMMETRY Symmetry
INVARIANTS
    TypeOK
    PromiseHolds
    BootsAsPromised
    OneMountPerPath
CHECK_DEADLOCK FALSE
