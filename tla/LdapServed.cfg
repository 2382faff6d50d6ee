SPECIFICATION FairSpec
CONSTANTS
  base = base
  admin = admin
  ous = ous
  groups = groups
  Clients = {c1, c2}
  DNs = {base, admin, ous, groups}
  baseDN = base
  bindDN = admin
  usersOU = ous
  groupsOU = groups
  Served <- MCServed
  Classes <- MCClasses
  Attrs = {x}
  Passwords = {p1, p2}
  bindPW = p1
  MaxFaults = 2
  None = None
INVARIANT AccountsFollowEntries
INVARIANT InitialTreeStands
 
PROPERTY RestartKeepsChanges
PROPERTY StartsAgain
