SPECIFICATION Spec
CONSTANTS
  Procs = {p1, p2, p3, p4}
  Nobody = Nobody
  Freed = Freed
  MaxFailures = 1
  MaxHiccups = 1
  MaxRushed = 3
SYMMETRY Symmetry
INVARIANT TypeOK
INVARIANT ChainAgreesAtRest
INVARIANT NextIsLater
INVARIANT OnlyFailuresStopServers
INVARIANT FailureSpreadsUpstream
CHECK_DEADLOCK FALSE
