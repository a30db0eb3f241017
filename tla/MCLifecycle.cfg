SPECIFICATION Spec
CONSTANTS
  Path = {p1, p2}
  MaxEvents = 4
  MaxSessions = 2
INVARIANTS
  WatchesMatch
  ProgramFollows
CHECK_DEADLOCK FALSE
