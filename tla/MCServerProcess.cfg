SPECIFICATION ServerSpec
CONSTANTS
  ARPTYPES = {"loopback", "ether", "isdn", "cooked"}
  NETDEVS = {"lo", "eth0", "eth1"}
  ADDRESSED = {"lo", "eth1"}
  LOOPBACKS = {"lo"}
  USBDEVS = {"usbmon1"}
  instance <- MCInstance
  ADDRESSES = 2
  sockaddrs <- MCSockaddrs
  CHANGES = 1
  SNAPSHOTS = {1, 29, 189, 600}
  MTUS = {68, 576}
  BUFFER_SIZE = 3000
  PAGE = 256
  RING_SLOTS = 3
  KERNEL = KERNEL
  FRAMES = 4
  IN_FLIGHT = 2
INVARIANTS
  SteadyListed
  NothingLost
  NoBadFree
  NothingLeft
  PromiscRestored
  SlotsDisjoint
  ForeignOnlyLate
  TotalOnlyIfStuck
PROPERTIES
  StartEnds
  RingDrained
CHECK_DEADLOCK FALSE
