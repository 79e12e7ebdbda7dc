\* One scanner, a chain that reorganises, failures anywhere.
SPECIFICATION FairSpec
CONSTANTS
  t1 = t1
  t2 = t2
  l1 = l1
  w1 = w1
  w2 = w2
  Txs <- MCTxs
  Logs <- MCLogs
  TxOf <- MCTxOf
  Parties <- MCParties
  From <- MCFrom
  To <- MCTo
  Reverted <- MCReverted
  Wallets <- MCWallets
  Scanners = {s1}
  Queries = {}
  Confirmations = 2
  MaxReorg = 1
  BatchSize = 1
  StartBlock = 0
  MaxHeight = 3
  None = None
INVARIANTS
  NothingMissed
  ReceiptsSettled
PROPERTIES
  CatchesUp
CHECK_DEADLOCK FALSE
