SPECIFICATION FairSpec
CONSTANTS
  Cb = {c1, c2}
  MaxRegister = 3
  MaxEvents = 3
INVARIANTS
  TypeOK
  WatchesWhileListening
  RegisteredWhenAvailable
PROPERTIES
  RegistersInTheEnd
  ServiceSpec
CHECK_DEADLOCK FALSE
