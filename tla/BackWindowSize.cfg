CONSTANTS
  MaxCid = 8
  CidIn <- MCCidIn
  Connected <- MCConnected
  TidIn = {0, 3}
  WinIn = {0, 3, 64}
  SsnIn = {0}
  MaxRequests = 3
  Null = Null
SPECIFICATION Spec
INVARIANT ReorderableWindow
CHECK_DEADLOCK FALSE
