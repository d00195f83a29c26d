CONSTANTS
  Clients = {k1, k2}
  MaxReads = 2
  MaxSends = 1
  AllocCanFail = TRUE
  AcceptCanFail = TRUE
  ShutdownCanOccur = TRUE
SPECIFICATION Spec
INVARIANT OnCloseBalanced
CHECK_DEADLOCK FALSE
