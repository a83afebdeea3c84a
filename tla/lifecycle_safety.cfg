SPECIFICATION Spec
CONSTANTS
    SNs = {s1, s2}
    Handlers = {h1, h2}
    Stages = {"pkg_installing", "partitioning"}
    Reports = {"components"}
    OperatorStatuses = {"installed"}
    MayCrash = TRUE
    DbMayFail = FALSE
    MaxId = 3
    MaxBatch = 2
    MaxCalls = 5
    NoTask = NoTask
    Idle = Idle
SYMMETRY Symmetry
INVARIANTS
    TypeOK
    IdsAreNeverReused
    CompletedIsInHistory
    ArchiveBackedByHistory
    StatusExplained
PROPERTIES
    ImplementsContract
CHECK_DEADLOCK FALSE
