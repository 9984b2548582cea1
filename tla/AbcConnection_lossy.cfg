CONSTANTS
  MaxSegments = 7
  MaxData = 1
  InitCwnd = 4
  Segment = 1448
  RcvMss = 1448
  SeqSpace = 14480
  RateSpace = 30000
  MaxCwnd = 40
  MaxLost = 1
SPECIFICATION ConnSpec
INVARIANTS WindowFollowsMarks EchoIsExact
PROPERTIES TransferCompletes
