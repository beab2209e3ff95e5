CONSTANTS
  g1 = g1
  g2 = g2
  r1 = r1
  s1 = s1
  Goroutines <- MCGoroutines
  Txs <- MCTxs
  Rowsets <- MCRowsets
  Protocols <- MCProtocols
  Sessions <- MCSessions
  None = None
  Autocommit = Autocommit
  MaxRows = 0
  ErrCodes <- MCErrCodes
  RowsDiscipline = TRUE
  CloseDiscipline = FALSE
SPECIFICATION DevFairSpec
INVARIANTS DevTypeOK NothingOutlivesHandle StoppedWhenTold
PROPERTIES CallsReturn StillDatabase
