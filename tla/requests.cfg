\* One service at a time.  The index: two instances scan the same chain while a
\* client asks for transactions, RPC nodes may lag, the chain does not reorganise.
\* What is interchangeable in the other parts shares the names of the instances,
\* so that one symmetry serves them all.
SPECIFICATION RequestsSpec
CONSTANTS
  t1 = t1
  t2 = t2
  l1 = l1
  w1 = w1
  w2 = w2
  Txs <- MCTxs
  Logs = {}
  TxOf <- NoLogs
  Parties <- NativeParty
  From <- NoLogs
  To <- NoLogs
  Reverted <- MCReverted
  Wallets <- OneWallet
  Scanners = {x1, x2}
  Queries = {q1}
  Confirmations = 2
  MaxReorg = 0
  BatchSize = 2
  StartBlock = 1
  MaxHeight = 3
  None = None
  Nodes <- MCNodes
  Subjects = {x1, x2}
  Logins = {o1, o2, o3}
  Sequences = 2
  Capacity = 2
  Shards = 2
  MaxClock = 2
  Mishaps = 1
  Nothing = Nothing
  Admins = {m1, m2}
  Accounts = {k1, k2}
  Lookups = {x1, x2}
  TTL = 1
  Timeout = 1
  Lag = 1
  MaxNow = 3
  Changes = 1
  Nobody = Nobody
  Requests = {x1, x2, x3}
  Rules <- MCRules
  Narrowest = 4
  Skew = 1
  RedisTimeout = 1
  MaxTime = 3
  NodeCount = 3
  Attempts = 3
  Askers = {x1, x2}
  RpcFaults = 4
SYMMETRY Interchangeable
VIEW Moving
INVARIANTS
  NothingMissed
  VerdictIsTrue
  IdsUnique
  OneAccount
  ServedIsMine
  StaleForAtMost
  WithinLimit
  OneNode
CHECK_DEADLOCK FALSE
