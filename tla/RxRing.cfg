CONSTANTS
  RingSize = 4
  NapiBudget = 2
  Kinds = {"data", "ctrl"}
  MaxRx = 6
  MaxInits = 2
SPECIFICATION FairSpec
INVARIANT TypeOK
INVARIANT ReapBehindDevice
INVARIANT RxSlotOwnership
INVARIANT SkbConservation
CHECK_DEADLOCK FALSE
