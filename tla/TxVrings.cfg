CONSTANTS
  Vrings <- MCVrings
  Cids <- MCCids
  Connected <- MCCids
  NumFrames = 2
  Dests <- MCDests
  Protos <- MCProtos
  IfTypes <- MCIfTypes
  RingSize = 2
  MaxCopies = 2
  MaxInits = 3
  NoPeer = NoPeer
  Bcast = Bcast
  NoVring = NoVring
SPECIFICATION Spec
INVARIANTS TypeOK RoutedToPeer FrameRefs
CHECK_DEADLOCK FALSE
