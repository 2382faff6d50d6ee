SPECIFICATION Spec
CONSTANTS
  v = v
  w = w
  a = a
  b = b
  Cols = {v, w}
  Cells = {a, b}
  Null = Null
  NoRow = NoRow
  Untouched = Untouched
  None = None
  Callers = {c1}
  TxCallers = {c1}
  Ids = {1, 2, 3}
  PageSize = 2
  Writes <- MCWrites
  Faults = {"check", "put", "list"}
  Resets = TRUE
PROPERTY DropsOnlyFields
CHECK_DEADLOCK FALSE
