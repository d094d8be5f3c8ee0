SPECIFICATION FairSpec
CONSTANTS
  Clients = {c1, c2}
  Keys = {k1}
  Values = {v1}
  N = 2
  None = None
PROPERTY ReadsAnswered
PROPERTY WritesAnswered
