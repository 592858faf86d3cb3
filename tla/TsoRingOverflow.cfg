CONSTANTS
  RingSize = 8
  NoSkb = NoSkb
  NoTso = NoTso
  Mss = 2
  NumFrames = 4
  FragChoices = {2}
  GsoChoices <- MCGsoLinearOnly
  TsoFailPoints = {}
SPECIFICATION Spec
INVARIANT SlotOwnership
CHECK_DEADLOCK FALSE
