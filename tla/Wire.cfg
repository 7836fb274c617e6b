SPECIFICATION FairSpec
CONSTANTS
  Carriers = {"pipe", "socket", "fifo", "websocket"}
  Items <- PumpAndCaller
  Relays = {}
  Breaks = TRUE
INVARIANT ReadAsWritten
PROPERTIES SentArrives EndIsHeardOnce
CHECK_DEADLOCK FALSE
