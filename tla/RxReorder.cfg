CONSTANTS
  BufSize = 4
  Ssn = 0
  HeadInit <- MCHeadInit
  SeqIn <- MCSeqIn
  MaxArrivals = 5
  NoFrame = NoFrame
SPECIFICATION Spec
INVARIANT TypeOK
PROPERTY ImplementsWindow
INVARIANT WindowSlots
INVARIANT NoFrameLost
CHECK_DEADLOCK FALSE
