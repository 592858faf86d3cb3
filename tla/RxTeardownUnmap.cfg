CONSTANTS
  RingSize = 4
  NapiBudget = 2
  Kinds = {"data", "ctrl"}
  MaxRx = 6
  MaxInits = 2
SPECIFICATION Spec
INVARIANT NoDmaMisuse
CHECK_DEADLOCK FALSE
