CONSTANTS
  THREAD_NUM = 8
  ARRAY_LENGTH = 10
  threadsPerBlock = 9
  UNINIT = UNINIT
SPECIFICATION Spec
INVARIANT SumComplete
CHECK_DEADLOCK FALSE
