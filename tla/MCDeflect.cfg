SPECIFICATION FairSpec
CONSTANTS
  CallId = {1, 2, 3}
  MAX_CALL_PARTIES = 2
  MaxEvents = 3
  Turns <- MCTurns
CHECK_DEADLOCK FALSE
INVARIANTS
  DeflectsRinging
