CONSTANTS
  Clients = {k1, k2}
  MaxReads = 2
  MaxSends = 2
  AllocCanFail = TRUE
  AcceptCanFail = FALSE
  ShutdownCanOccur = FALSE
SPECIFICATION FairSpec
INVARIANT TypeOK
INVARIANT NoFreeWhileRegistered
INVARIANT OnCloseBalanced
PROPERTY ClosedClientsReleased
CHECK_DEADLOCK FALSE
