SPECIFICATION Spec
CONSTANTS
    Files = {f1}
    Workers = {w1, w2, w3}
    Chunks = 2
    MaxCalls = 4
    MaxCrashes = 1
    Absent = Absent
    Idle = Idle
SYMMETRY Symmetry
INVARIANTS
    TypeOK
    ServedIsComplete
    DownloadingIsAlive
CHECK_DEADLOCK FALSE
