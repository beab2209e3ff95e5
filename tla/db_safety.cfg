CONSTANTS
  g1 = g1
  g2 = g2
  t1 = t1
  r1 = r1
  Goroutines <- MCGoroutines
  Txs <- MCTxs
  Rowsets <- MCRowsets
  None = None
  Autocommit = Autocommit
  MaxRows = 1
  ErrCodes <- MCErrCodes
  RowsDiscipline = FALSE
  CloseDiscipline = TRUE
SPECIFICATION Spec
SYMMETRY MCSymmetry
CHECK_DEADLOCK FALSE
INVARIANTS TypeOK OneAtATime NoDanglingStatement NoLeakedStatement OwnOutcome NoSilentTruncation TxEndsOnce
PROPERTIES SerialSpec NoWorkAfterEnd
