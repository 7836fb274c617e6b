SPECIFICATION Spec
CONSTANTS
  Carriers = {"fifo"}
  Items <- Relayed
  Relays = {"relay"}
  Breaks = FALSE
INVARIANTS OctetsAreItsOwn
CHECK_DEADLOCK FALSE
