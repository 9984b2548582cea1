CONSTANTS
  Kinds = {"delay", "iid", "switching", "meter", "graph", "setup"}
  Delay = 2
  Samples = {0, 1, 3}
  Longest = 2
  LongestWait = 2
  MaxDatagrams = 2
  MaxTime = 4
  Graphs = {"throughput", "delay", "none"}
  BinWidth = 5
  Window = 0
  Instants = {0, 4, 5, 9, 10}
  MaxCalls = 2
  Assigned = {{2}, {1, 3}}
  LastOctet = 3
  MaxKills = 1
SPECIFICATION ShellsSpec
INVARIANTS LateOnlyWhileAwake OtherDirectionLosesNothing ValuesAreConserved BinsInOrder UserRunsUnprivileged LeavesNothingBehind
PROPERTIES GraphEnds FailureEndsShell
CHECK_DEADLOCK FALSE
