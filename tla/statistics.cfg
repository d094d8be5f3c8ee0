SPECIFICATION Spec
CONSTANTS
  Threads = {t1, t2, t3, t4}
  Nobody = nobody
  Elapsed <- Times
  Half = 5
  MaxOps = 6
SYMMETRY Symmetry
INVARIANTS StatsExact AnswerIsSnapshot
