\* Overlapping binds of an unbound wallet: does the restoration leave a default?
SPECIFICATION Spec
CONSTANTS
  Users = {u1}
  Accounts = {a1}
  Calls = {c1, c2}
  NonceIds = {n1, n2, n3}
  None = None
  Ops <- MCBindOps
  TTL = 1
  MaxTime = 0
PROPERTIES
  RestoreLeavesADefault
CHECK_DEADLOCK FALSE
