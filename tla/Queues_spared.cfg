CONSTANTS
  Disciplines = {"droptail"}
  PacketLimit = 0
  ByteLimit = 8
  Sizes = {1, 2}
  MaxArrivals = 6
  PacketSize = 2
  MaxClock = 12
  PieSizes = {2}
  MaxToPie = 8
  QdelayRef = 2
  MaxBurst = 12
  TUpdate = 1
  DqThreshold = 2
  PUnit = 100
  CodelSizes = {1, 2}
  MaxToCodel = 7
  CodelClock = 5
  Target = 1
  Interval = 2
SPECIFICATION QueuesSpec
INVARIANTS DropsAreDecided
CHECK_DEADLOCK FALSE
