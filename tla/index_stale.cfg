\* A query that saw the transaction pending, and a scanner that sees it mined.
SPECIFICATION Spec
CONSTANTS
  t1 = t1
  t2 = t2
  l1 = l1
  w1 = w1
  w2 = w2
  Txs <- MCTxs
  Logs = {}
  TxOf <- NoLogs
  Parties <- NativeParty
  From <- NoLogs
  To <- NoLogs
  Reverted <- MCReverted
  Wallets <- OneWallet
  Scanners = {s1}
  Queries = {q1}
  Confirmations = 2
  MaxReorg = 0
  BatchSize = 2
  StartBlock = 1
  MaxHeight = 3
  None = None
PROPERTIES
  FinalStaysFinal
CHECK_DEADLOCK FALSE
