SPECIFICATION Spec
CONSTANTS
    Conns = {c1, c2}
    Users = {u1}
    Topics = {t1}
    BufSize = 1
    NoUser = NoUser
SYMMETRY Symmetry
INVARIANTS
    RegistrationsLive
    WalksTheHubsList
PROPERTIES
    ServesAFeed
CHECK_DEADLOCK FALSE
