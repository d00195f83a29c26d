CONSTANTS
  Clients = {k1, k2}
  MaxReads = 1
  MaxSends = 1
  AllocCanFail = FALSE
  AcceptCanFail = FALSE
  ShutdownCanOccur = TRUE
SPECIFICATION Spec
INVARIANT ShutdownReleasesClients
CHECK_DEADLOCK FALSE
