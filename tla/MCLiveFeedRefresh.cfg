SPECIFICATION Spec
CONSTANTS
  Notes = {n1}
  Entries = {e1}
  None = None
  MaxActs = 3
PROPERTIES PushedIsShown
CHECK_DEADLOCK FALSE
