SPECIFICATION Spec
CONSTANTS
    s1 = s1
    s2 = s2
    f1 = f1
    SNs = {s1, s2}
    Files = {f1}
    Handlers = {h1}
    MaxVersion = 3
    Pushed <- MCPushed
    Malformed <- MCMalformed
    Brings <- MCBrings
    Rejected = {2}
    MayOverlap = FALSE
    MaxFailures = 2
    MayCrash = TRUE
    Idle = Idle
INVARIANTS
    TypeOK
    RecordedIsApplied
PROPERTIES
    NoResurrection
CHECK_DEADLOCK FALSE
