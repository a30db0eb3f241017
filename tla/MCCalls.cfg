SPECIFICATION FairCallsSpec
CONSTANTS
  CallId = {1, 2}
  MaxEvents = 5
INVARIANTS
  CallsConverge
  EveryEndTold
PROPERTIES
  CallsCatchUp
CHECK_DEADLOCK FALSE
