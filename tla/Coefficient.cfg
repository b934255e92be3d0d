CONSTANTS
  SERVER_STOCK = 3
  ARRAY_LENGTH = 5
  Number = {0, 1, 3}
  MAX_FAILED = 1
  NaN = NaN
  UNINIT = UNINIT
SPECIFICATION Spec
INVARIANTS
  ReportIsMinimum
  WrongIsStale
CHECK_DEADLOCK FALSE
