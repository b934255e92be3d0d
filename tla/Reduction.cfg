CONSTANTS
  THREAD_NUM = 8
  ARRAY_LENGTH = 10
  threadsPerBlock = 9
  UNINIT = UNINIT
SPECIFICATION FairSpec
INVARIANTS
  ReadsInitialised
  OutputLanes
PROPERTY Terminates
CHECK_DEADLOCK FALSE
