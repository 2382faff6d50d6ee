SPECIFICATION FairSpec
CONSTANTS
  v = v
  w = w
  a = a
  b = b
  Cols = {v}
  Cells = {a}
  Null = Null
  NoRow = NoRow
  Untouched = Untouched
  None = None
  Callers = {c1, c2}
  TxCallers = {}
  Ids = {1, 2}
  PageSize = 1
  Writes <- MCShared
  Faults = {"put", "get"}
  Resets = TRUE
INVARIANT KeptIsAhead
PROPERTY DepartsAsKnown
PROPERTY CreatedIsTruthful
PROPERTY EveryCallReturns
CHECK_DEADLOCK FALSE
