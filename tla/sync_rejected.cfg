SPECIFICATION Spec
CONSTANTS
    s1 = s1
    s2 = s2
    f1 = f1
    SNs = {s1, s2}
    Files = {f1}
    Handlers = {h1}
    MaxVersion = 3
    Pushed <- MCPushed
    Malformed <- NoneMalformed
    Brings <- MCBrings
    Rejected = {2}
    MayOverlap = FALSE
    MaxFailures = 0
    MayCrash = FALSE
    Idle = Idle
INVARIANTS
    SkippedIsApplied
CHECK_DEADLOCK FALSE
