SPECIFICATION Spec
CONSTANTS
  Values = {0, 1, 2}
  Initial = 0
  MaxActs = 4
INVARIANTS TypeOK RecordIsAccepted FlushedBeforeGone
PROPERTIES SavesKeepTheRest EveryEditIsTried DraftsStay
CHECK_DEADLOCK FALSE
