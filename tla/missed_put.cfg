SPECIFICATION Spec
CONSTANTS
  Procs = {p1, p2}
  Nobody = Nobody
  Freed = Freed
  MaxFailures = 0
  MaxHiccups = 0
  MaxRushed = 0
  Puts = {w1}
INVARIANT TablesAgreeAtRest
CHECK_DEADLOCK FALSE
