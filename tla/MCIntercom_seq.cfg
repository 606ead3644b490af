SPECIFICATION Spec
CONSTANTS
  Events = {e1, e2}
  NoEvent = NoEvent
  MaxHeight = 4
  Finality = 1
  Confirmations = 1
  Parallel = FALSE
  TornWrites = TRUE
  Torn = Torn
  MaxCrashes = 1
INVARIANTS IInv NoEventSkipped OnlyFinalEventsHandled
PROPERTIES InOrder GracefulStop ImplementsFeed
CHECK_DEADLOCK FALSE
