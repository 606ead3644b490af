SPECIFICATION FairSpec
CONSTANTS
  Events = {e1, e2}
  NoEvent = NoEvent
  MaxHeight = 4
  Finality = 1
  Confirmations = 1
  Parallel = TRUE
  TornWrites = FALSE
  Torn = Torn
  MaxCrashes = 1
PROPERTY FinalEventsHandled
