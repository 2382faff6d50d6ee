SPECIFICATION Spec
CONSTANTS
  k = k
  v = v
  a = a
  Callers = {c1, c2}
  Ids = {i1, i2}
  Cols = {k, v}
  Unique = {k}
  Cells = {a}
  Null = Null
  NoRow = NoRow
  Untouched = Untouched
  None = None
  Writes <- MCWrites
  Adapters = {"sqlite", "tidb", "oracle", "yugabyte"}
SYMMETRY MCSymmetry
VIEW MCView
INVARIANT IInv
PROPERTY StoredOrIdle
PROPERTY EvictsOnlyRivals
PROPERTY OmittedFieldsKept
PROPERTY DepartsAsKnown
CHECK_DEADLOCK FALSE
