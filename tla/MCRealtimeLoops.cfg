SPECIFICATION Spec
CONSTANTS
    Conns = {c1}
    Users = {u1, u2}
    Topics = {t1, t2}
    BufSize = 2
    NoUser = NoUser
INVARIANTS
    OwnEventsOnly
PROPERTIES
    ConnectionsEnd
    ListenersFinish
CHECK_DEADLOCK FALSE
