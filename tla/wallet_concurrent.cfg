\* Two concurrent calls.  One user, two accounts, three challenges: a bind, an
\* unbind and two overlapping binds of one account, next to changes of the
\* default.  Or two users who race for one account while challenges expire.
SPECIFICATION Spec
CONSTANTS
  Users = {u1, u2}
  Accounts = {a1, a2}
  Calls = {c1, c2}
  NonceIds = {n1, n2, n3}
  None = None
  Ops <- MCAllOps
  TTL = 1
  MaxTime = 1
CONSTRAINT OneAlone
SYMMETRY Symmetry
INVARIANTS
  AtMostOneDefault
  DefaultIsActive
  OneWritePerChallenge
  BindTakesEffect
  ProvenControl
PROPERTIES
  ImplementsRegistry
  OwnerIsPermanent
CHECK_DEADLOCK FALSE
