CONSTANTS
  PacketLimit = 2
  ByteLimit = 0
  QdelayRef = 1
  Delta = 2
  Window = 2
  TokenLimit = 1
  Scale = 100
  Wrap = 16
  MaxSamples = 4
  Sizes = {1}
  Ecns = {"not_ect", "ect", "ce"}
  MaxArrivals = 4
  MaxClock = 5
  Jumps = {1, 3}
  Kinds = {"cellular", "weighted", "rcp", "vcp", "xcp"}
  Long = 2
  Short = 1
  Alpha = 40
  Beta = 60
  Modes = {1, 3}
  Unit = 8
  Bits = 4
  ByteSpace = 8
  Fill = 1
  MinCoded = 2
  Lengths = {1, 3}
  MaxCoded = 2
  Targets = {1, 2}
  Hops = 2
  Ports = {5100, 5198, 5300, 5301}
  Decay = 4
  Step = 4
  Cent = 100
  MixedEcns = {"not_ect", "ect"}
  MaxMixed = 3
  MixedClock = 3
SPECIFICATION RoutersSpec
INVARIANTS AccelerationWithinBudget PathDecides WaterLevelIsFair
CHECK_DEADLOCK FALSE
