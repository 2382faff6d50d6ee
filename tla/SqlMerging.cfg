SPECIFICATION Spec
CONSTANTS
  k = k
  v = v
  a = a
  Callers = {c1, c2}
  Ids = {i1, i2}
  Cols = {k, v}
  Unique = {k}
  Cells = {a}
  Null = Null
  NoRow = NoRow
  Untouched = Untouched
  None = None
  Writes <- MCWrites
  Adapters = {"postgres", "cockroach", "sqlserver"}
SYMMETRY MCSymmetry
VIEW MCView
INVARIANT UniqueKeys
PROPERTY ImplementsContract
CHECK_DEADLOCK FALSE
