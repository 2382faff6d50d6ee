SPECIFICATION FairSpec
CONSTANTS
  None = None
  Goroutines = {g1, g2}
  Names = {t1}
  Ops = {"Scylla", "AddTable"}
PROPERTY EveryCallReturns
CHECK_DEADLOCK FALSE
