SPECIFICATION Spec
CONSTANTS
    SNs = {s1}
    Handlers = {h1, h2}
    Stages = {"pkg_installing"}
    Reports = {"components"}
    OperatorStatuses = {"installed"}
    MayCrash = FALSE
    DbMayFail = FALSE
    MaxId = 2
    MaxBatch = 1
    MaxCalls = 4
    NoTask = NoTask
    Idle = Idle
INVARIANTS
    CompletesItsOwnTask
CHECK_DEADLOCK FALSE
