CONSTANTS
  PacketLimit = 0
  ByteLimit = 5
  Schedule <- MCSchedule
  Repeat = FALSE
  PacketSize = 3
  Sizes = {2, 3}
  Ecns = {"ect"}
  MaxArrivals = 3
  MaxClock = 4
SPECIFICATION FerrySpec
INVARIANTS ExitsFlushed NeverThrows AssertionsHold
PROPERTIES FerryExits
CHECK_DEADLOCK FALSE
