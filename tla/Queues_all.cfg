CONSTANTS
  Disciplines = {"infinite", "droptail", "drophead"}
  PacketLimit = 4
  ByteLimit = 0
  Sizes = {1, 2}
  MaxArrivals = 6
  PacketSize = 1
  MaxClock = 12
  PieSizes = {2}
  MaxToPie = 8
  QdelayRef = 2
  MaxBurst = 12
  TUpdate = 1
  DqThreshold = 2
  PUnit = 100
  CodelSizes = {1}
  MaxToCodel = 7
  CodelClock = 7
  Target = 1
  Interval = 2
SPECIFICATION QueuesSpec
INVARIANTS NoAssertionFails PieSparesBursts OnlyPacketIsKept
PROPERTIES AnyFifoSpec
CHECK_DEADLOCK FALSE
