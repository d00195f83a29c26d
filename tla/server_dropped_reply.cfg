CONSTANTS
  Clients = {k1, k2}
  MaxReads = 2
  MaxSends = 2
  AllocCanFail = FALSE
  AcceptCanFail = FALSE
  ShutdownCanOccur = FALSE
SPECIFICATION Spec
INVARIANT ReportedSendsQueued
CHECK_DEADLOCK FALSE
