SPECIFICATION FairConnSpec
CONSTANTS
  main = main
  c1 = c1
  c2 = c2
  Callers     <- MCCallers
  Main        = main
  Storages    <- MCStorages
  MaxConnects = 3
INVARIANTS
  NoNilHandle
  ConnInv
PROPERTY ResetReturns
