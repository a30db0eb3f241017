SPECIFICATION Spec
CONSTANTS
  Noti <- RoutedNoti
  Cb = {c1}
  Signal <- RoutedSignal
  MaxRegister = 2
  MaxSignals = 1
INVARIANTS
  ForeignSignalsFiltered
  RoutedToSubscriber
CHECK_DEADLOCK FALSE
