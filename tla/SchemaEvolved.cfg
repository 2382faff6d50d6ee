SPECIFICATION Spec
CHECK_DEADLOCK FALSE
CONSTANTS
  old = old
  new = new
  name = name
  mail = mail
  Programs = {old, new}
  Columns = {name, mail}
  Declared <- MCDeclared
  Altered <- MCAltered
  Cells = {v, w}
  Default = v
  Adapters <- MCAdapters
  Null = Null
  None = None
INVARIANT TypeOK
INVARIANT ParsedReads
INVARIANT ParsedIsDeclared
 
PROPERTY NobodyLockedOut
