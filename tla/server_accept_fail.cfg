CONSTANTS
  Clients = {k1, k2}
  MaxReads = 1
  MaxSends = 1
  AllocCanFail = FALSE
  AcceptCanFail = TRUE
  ShutdownCanOccur = FALSE
SPECIFICATION Spec
INVARIANT NoFreeWhileRegistered
CHECK_DEADLOCK FALSE
