SPECIFICATION Spec
CONSTANTS
  n = n
  e1 = e1
  e2 = e2
  p1 = p1
  p2 = p2
  Tabs = {t1, t2}
  UserIds = {u1, u2}
  SessionIds = {s1, s2}
  PageIds = {g1, g2}
  Signups <- MCSignups
  Titles = {home, news}
  Texts = {x}
  Asked = {home}
  None = None
CONSTRAINT OneEnds
SYMMETRY Symmetry
INVARIANT SessionKeepsAccount
PROPERTY ImplementsContract
PROPERTY DuplicatesAreUnseen
