CONSTANTS
  Disciplines = {"drophead"}
  PacketLimit = 0
  ByteLimit = 3
  Sizes = {1, 2, 3}
  MaxArrivals = 6
SPECIFICATION Spec
INVARIANTS NoAssertionFails
CHECK_DEADLOCK FALSE
