SPECIFICATION Spec
CONSTANTS
  Notes = {n1, n2}
  Entries = {e1, e2}
  None = None
  MaxActs = 5
INVARIANTS TypeOK
PROPERTIES PushedStays AcknowledgedStays BadgeKeepsUp Reconnects NotificationsArrive
CHECK_DEADLOCK FALSE
