\* Liveness on a small instance, without symmetry.
SPECIFICATION FairSpec
CONSTANTS
  Users = {u1}
  Accounts = {a1, a2}
  Calls = {c1, c2}
  NonceIds = {n1, n2}
  None = None
  Ops <- MCNoLabel
  TTL = 1
  MaxTime = 0
PROPERTIES
  EveryCallReturns
CHECK_DEADLOCK FALSE
