SPECIFICATION Spec
CONSTANTS
  b1 = b1
  b2 = b2
  Bases   <- MCBases
  Studied <- MCStudied
  MaxDepth = 4
  Null = Null
  None = None
INVARIANTS
  IInv
  FoundIsSaved
  Readable
  PathsAgree
PROPERTY ResaveIsIdle
