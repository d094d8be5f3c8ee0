SPECIFICATION Spec
CONSTANTS
  Conns = {c1, c2, c3}
  Link = link
  Nobody = nobody
  Fds <- Descriptors
  MaxThreads = 2
  MaxDisorder = 1
  Enders = {"main", "callback"}
  MaxLinks = 1
INVARIANTS TypeOK OwnAnswers OpenIsServed TableOutlivesCounted JoinedIsWoken
CHECK_DEADLOCK FALSE
SYMMETRY Symmetry
