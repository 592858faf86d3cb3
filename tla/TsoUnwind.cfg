CONSTANTS
  RingSize = 8
  NoSkb = NoSkb
  NoTso = NoTso
  Mss = 2
  NumFrames = 1
  FragChoices = {0}
  GsoChoices <- MCGsoLinear
  TsoFailPoints = {1, 2}
SPECIFICATION Spec
INVARIANT UnmapMatchesMap
CHECK_DEADLOCK FALSE
