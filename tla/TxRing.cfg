CONSTANTS
  RingSize = 8
  NumFrames = 4
  FragChoices = {0, 1, 2}
  NoSkb = NoSkb
  GsoChoices <- MCGsoChoices
  NoTso = NoTso
  Mss = 2
  TsoFailPoints = {0}
SPECIFICATION Spec
INVARIANT TypeOK
INVARIANT SlotOwnership
INVARIANT FrameRefs
INVARIANT TailBehindHardware
CHECK_DEADLOCK FALSE
