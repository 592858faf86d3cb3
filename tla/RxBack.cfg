CONSTANTS
  MaxCid = 8
  CidIn <- MCCidIn
  Connected <- MCConnected
  TidIn = {0, 3}
  WinIn = {0, 64}
  SsnIn = {0}
  MaxRequests = 3
  Null = Null
SPECIFICATION FairSpec
INVARIANT TypeOK
INVARIANT HandledInOrder
INVARIANT NoDanglingAtRest
INVARIANT SessionsReachable
PROPERTY RequestEventuallyHandled
CHECK_DEADLOCK FALSE
