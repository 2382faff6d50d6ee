SPECIFICATION FairSpec
CONSTANTS
  None = None
  Goroutines = {g1, g2, g3}
  Names = {t1, t2}
  Ops = {"GetTable", "AddTable", "CreateTables", "Scylla"}
INVARIANT NoRace
PROPERTY OnlyScyllaBlocks
CHECK_DEADLOCK FALSE
