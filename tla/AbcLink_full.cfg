CONSTANTS
  PacketLimit = 2
  ByteLimit = 0
  Schedule <- MCSchedule
  Repeat = TRUE
  PacketSize = 2
  Sizes = {2}
  Ecns = {"ect"}
  MaxArrivals = 3
  MaxClock = 2
  QdelayRef = 1
  Delta = 2
  Window = 1
  TokenLimit = 1
  Scale = 100
  Wrap = 4
  MaxSamples = 12
SPECIFICATION AbcSpec
INVARIANTS AcceleratesWithinTrace NoPacketIsLate
PROPERTIES LeavesWhenDue
