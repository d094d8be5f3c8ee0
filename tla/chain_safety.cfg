SPECIFICATION Spec
CONSTANTS
  Clients = {c1, c2}
  Keys = {k1, k2}
  Values = {v1, v2}
  N = 3
  None = None
INVARIANT TypeOK
INVARIANT LockOK
INVARIANT CallsNest
INVARIANT ReplicasLag
INVARIANT AckedWriteReplicated
INVARIANT ListingIsCurrent
PROPERTY Linearizable
