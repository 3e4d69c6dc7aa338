SPECIFICATION Spec
CONSTANTS
  Users = {u1, u2}
  MaxThreads = 2
  Ids = {1, 2}
  Null = Null
  DwordBits = 3
  TicksPerMsec = 2
  MaxTimeoutMsec = 2
  Clock = {0, 3, 9}
INVARIANTS
  WinTypeOK
  ResourcesAccounted
  JoinedHasEnded
PROPERTY JoinReturns
