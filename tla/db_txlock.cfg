CONSTANTS
  g1 = g1
  g2 = g2
  t1 = t1
  r1 = r1
  Goroutines <- MCGoroutines
  Txs <- MCTxs
  Rowsets <- MCRowsets
  None = None
  Autocommit = Autocommit
  MaxRows = 1
  ErrCodes <- MCOneErrCode
  RowsDiscipline = TRUE
  CloseDiscipline = TRUE
SPECIFICATION Spec
INVARIANTS TxHoldsMutex
