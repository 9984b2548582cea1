CONSTANTS
  N = 2
  ContinueStatuses <- ShellOrFerry
  Statuses = {0, 1, 77}
  MaxStops = 2
  MaxSignals = 2
SPECIFICATION Spec
INVARIANTS ExitsAreNotLost StopsAreNotLost
PROPERTIES ShutdownCompletes
CHECK_DEADLOCK FALSE
