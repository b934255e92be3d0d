CONSTANTS
  GROUP_STOCK = 2
  SERVER_STOCK = 3
  PRICE_LIST_SIZE = 2
  SERVER_STOCK_COUNT = 6
  Price <- MCPrice
  Datagram <- MCDatagram
SPECIFICATION Spec
INVARIANTS
  WindowExact
  WindowIsNewest
  GrowthNeedsStarvation
  FileReplaysPrices
  RoundIsCount
PROPERTY SlideByOne
CHECK_DEADLOCK FALSE
