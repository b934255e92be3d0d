CONSTANTS
  STOCK_COUNT = 4
  GROUP_STOCK = 2
  LOOP_COUNT = 2
  SERVER_STOCK = 2
  PRICE_LIST_SIZE = 3
  SERVER_STOCK_COUNT = 3
  RING_SLOTS = 2
  BACKLOG = 2
  KERNEL = KERNEL
SPECIFICATION FairSpec
INVARIANT NeverReady
PROPERTIES
  ServerStops
  Drained
CHECK_DEADLOCK FALSE
