SPECIFICATION Spec
CONSTANTS
  MaxChanges = 4
INVARIANTS
  ViewConverges
  ReadyMeansUsable
CHECK_DEADLOCK FALSE
