CONSTANTS
  InitCwnd = 8
  Segment = 1448
  RcvMss = 536
  SeqSpace = 8688
  Acked = {0, 1448, 2896, 4344}
  Second = 1000
  Rtts = {5, 700, 1001, 14501, 29000, 30000}
  RateSpace = 5000000
  MaxCwnd = 16
  MaxAcks = 9
  Hz = 2
  JiffySpace = 16
  Starts = {14}
  MsPerJiffy = 500
  MsSpace = 7600
  BetaPermil = 717
  BetaBase = 1024
  BicScale = 410
  CurveUnit = 2
  WordBits = 30
  Clamp = 14
  LowWindow = 6
  MinSamples = 1
  AckDelta = 2
  DelayMin = 32
  DelayMax = 128
  Advances = {0, 2}
  Inflights = {0, 8}
  CubicRtts = {5, 600}
  MaxEvents = 5
  MaxTicks = 3
  Modules = {"abc", "abccubic"}
SPECIFICATION EndpointsSpec
INVARIANTS WindowFloor IncreaseIsSlow NeitherWindowExceeded CubicGrowthIsBounded
PROPERTIES PacingFollowsWindow
CHECK_DEADLOCK FALSE
