CONSTANTS
  N = 2
  ContinueStatuses <- Shell
  Statuses = {77}
  MaxStops = 0
  MaxSignals = 0
SPECIFICATION Spec
PROPERTIES QuitsWhenAllHaveQuit
CHECK_DEADLOCK FALSE
