SPECIFICATION Spec
CONSTANTS
    Projects = {p1, p2}
    TaskIds = {t1, t2}
    ViewIds = {v1, v2}
    MaxBucket = 6
    Limits = {0, 1}
    Positions = {0}
    BulkColumns = {{"done"}}
    MaxConfig = 3
    OtherPaths = FALSE
    OtherProjects = FALSE
    NoView = NoView
    NoTx = NoTx
CONSTRAINT Explored
SYMMETRY Symmetry
INVARIANTS
    RowsInView
    RowsFollowTask
    BoardsFaithful
PROPERTIES
    KeepsItsPlace
    DoneReachesEveryBoard
    DoneStaysInDoneBucket
    RepeatingTasksReopen
    OrdinaryBucketsKeepLimit
CHECK_DEADLOCK FALSE
