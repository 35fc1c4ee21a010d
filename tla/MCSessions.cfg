SPECIFICATION Spec
CONSTANTS
  Tabs = {t1, t2}
  Users = {u1, u2}
  None = None
  Locks = TRUE
  Reliable = TRUE
  MaxLogins = 2
  MaxRefreshes = 2
  MaxActs = 4
INVARIANTS TypeOK CookieSpentOnce RetryKeepsIdentity
PROPERTIES SignOutHolds NobodyWaitsForever
CHECK_DEADLOCK FALSE
