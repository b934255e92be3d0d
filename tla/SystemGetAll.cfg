CONSTANTS
  STOCK_COUNT = 4
  GROUP_STOCK = 2
  LOOP_COUNT = 4
  SERVER_STOCK = 3
  PRICE_LIST_SIZE = 2
  SERVER_STOCK_COUNT = 8
  RING_SLOTS = 3
  BACKLOG = 1
  KERNEL = KERNEL
SPECIFICATION Spec
INVARIANT GetAllMeansAll
CHECK_DEADLOCK FALSE
