CONSTANTS
  RingSize = 8
  NoSkb = NoSkb
  NoTso = NoTso
  Mss = 2
  NumFrames = 1
  FragChoices = {0}
  GsoChoices <- MCGsoFragsOnly
  TsoFailPoints = {}
SPECIFICATION FairSpec
PROPERTY ReclaimCatchesUp
CHECK_DEADLOCK FALSE
