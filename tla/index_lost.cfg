\* A log that a node which lags does not show: is its block done all the same?
SPECIFICATION Spec
CONSTANTS
  t1 = t1
  t2 = t2
  l1 = l1
  w1 = w1
  w2 = w2
  Txs <- MCTxs
  Logs <- MCLogs
  TxOf <- MCTxOf
  Parties <- MCParties
  From <- MCFrom
  To <- MCTo
  Reverted <- MCReverted
  Wallets <- MCWallets
  Scanners = {s1}
  Queries = {}
  Confirmations = 2
  MaxReorg = 0
  BatchSize = 1
  StartBlock = 1
  MaxHeight = 3
  None = None
INVARIANTS
  BlocksAreComplete
CHECK_DEADLOCK FALSE
