SPECIFICATION FairSpec
CHECK_DEADLOCK FALSE
CONSTANTS
  p1 = p1
  p2 = p2
  t1 = t1
  t2 = t2
  t3 = t3
  Programs   <- MCPrograms
  Tables     <- MCTables
  UniqueType <- MixedUnique
  Adapters   <- MCAdapters
  MaxFaults  = 2
  NoTable    = NoTable
INVARIANTS
  ReadyMeansCreated
  UniqueWhereDeclared
  IInv
PROPERTY EventuallyReady
