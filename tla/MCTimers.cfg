SPECIFICATION Spec
CONSTANTS
    EntryIds = {e1, e2}
    Requests = {r1, r2}
    MaxTime = 2
    Snapshots = TRUE
    NoEntry = NoEntry
SYMMETRY Symmetry
INVARIANTS
    OneRunningTimer
PROPERTIES
    EndedStaysEnded
    KeepsAnOutbox
CHECK_DEADLOCK FALSE
