CONSTANTS
  ARRAY_LENGTH = 2
  Number = {0, 1, 2}
  UNINIT = UNINIT
SPECIFICATION Spec
INVARIANT FormulaAsDocumented
CHECK_DEADLOCK FALSE
