SPECIFICATION Spec
CONSTANTS
    Projects = {p1}
    TaskIds = {t1}
    ViewIds = {v1}
    MaxBucket = 4
    Limits = {0}
    Positions = {0}
    BulkColumns = {{"done"}}
    MaxConfig = 1
    OtherPaths = FALSE
    OtherProjects = FALSE
    NoView = NoView
    NoTx = NoTx
INVARIANTS
    NoRowOfDeletedBucket
CHECK_DEADLOCK FALSE
