SPECIFICATION Spec
CONSTANTS
    Projects = {p1, p2}
    TaskIds = {t1}
    ViewIds = {v1}
    MaxBucket = 3
    Limits = {0}
    Positions = {0}
    BulkColumns = {{"done"}}
    MaxConfig = 0
    OtherPaths = FALSE
    OtherProjects = TRUE
    NoView = NoView
    NoTx = NoTx
INVARIANTS
    RowsFollowTask
CHECK_DEADLOCK FALSE
