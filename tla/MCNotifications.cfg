SPECIFICATION FairSpec
CONSTANTS
  Noti <- MCNoti
  Cb = {c1, c2}
  Signal <- MCSignal
  MaxRegister = 3
  MaxSignals = 2
INVARIANTS
  TypeOK
  SubscriptionsMatchLists
  RegistryIsMap
  UserDataFreedOnce
PROPERTIES
  ServiceSpec
  WaitingSignalServed
CHECK_DEADLOCK FALSE
