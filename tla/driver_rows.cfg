CONSTANTS
  s1 = s1
  s2 = s2
  t1 = t1
  t2 = t2
  r1 = r1
  r2 = r2
  h1 = h1
  h2 = h2
  h3 = h3
  Stmts <- MCStmts
  Txs <- MCOneTx
  Rowsets <- MCRowsets
  Handles <- MCTwoHandles
  None = None
  MaxRows = 2
SPECIFICATION Spec
SYMMETRY MCSymmetry
INVARIANTS OwnRows NoSilentTruncation
