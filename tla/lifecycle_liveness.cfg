SPECIFICATION FairSpec
CONSTANTS
    SNs = {s1}
    Handlers = {h1, h2}
    Stages = {"pkg_installing"}
    Reports = {"components"}
    OperatorStatuses = {"installed"}
    MayCrash = FALSE
    DbMayFail = FALSE
    MaxId = 3
    MaxBatch = 2
    MaxCalls = 4
    NoTask = NoTask
    Idle = Idle
PROPERTIES
    CompletionEndsTask
CHECK_DEADLOCK FALSE
