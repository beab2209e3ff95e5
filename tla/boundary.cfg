CONSTANTS
  Wide = 8
  Narrow = 4
  Step32 = 3
  Day = 6
  Ticks = 2
  Params = 2
  ArgLists <- MCArgLists
  Cells <- MCCells
  DestLists <- MCDestLists
  Tables <- MCTables
  Lookups <- MCLookups
SPECIFICATION Spec
INVARIANTS TypeOK OwnParams  ReadsAsStored CatalogFaithful
