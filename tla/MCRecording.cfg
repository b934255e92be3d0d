SPECIFICATION RecordingSpec
CONSTANTS
  GROUP_STOCK = 2
  SNAPLEN = 126
  FOREIGN_LENS = {0, 13, 14, 33, 34, 41, 42, 46, 66, 86, 93, 94, 102, 126, 200}
  MAX_FRAMES = 2
  Datagrams <- MCDatagrams
  PAYLOAD = 3
  BUFFER = 4
  WRITTEN = 10
  RUNS = 2
INVARIANTS
  LengthTracksPacket
  DecodeInsideSlot
  ClientRecordsOwn
  RoundTrip
  DiskInOrder
  CrashLosesTail
  CleanEndComplete
CHECK_DEADLOCK FALSE
