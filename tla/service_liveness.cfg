SPECIFICATION FairSpec
CONSTANTS
  Procs = {p1, p2, p3}
  Nobody = Nobody
  Freed = Freed
  MaxFailures = 1
  MaxHiccups = 0
  MaxRushed = 0
  Puts = {w1}
PROPERTY PutsEnd
PROPERTY ChainSettles
CHECK_DEADLOCK FALSE
