SPECIFICATION Spec
CONSTANTS
  Procs = {p1, p2, p3}
  Nobody = Nobody
  Freed = Freed
  MaxFailures = 2
  MaxHiccups = 0
  MaxRushed = 0
  Puts = {w1, w2}
SYMMETRY Symmetry
INVARIANT TypeOK
INVARIANT UpstreamHoldsMore
INVARIANT ReadsSurvive
INVARIANT StaleReadsSurvive
INVARIANT AckedOnAll
CHECK_DEADLOCK FALSE
