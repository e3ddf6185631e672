SPECIFICATION Spec
CONSTANTS
  Requests = {a1, a2}
  Indexers = {i1}
  Users = {boot, u1}
  Bootstrap = boot
  Groups = {admins, g1, g2}
  AdminsGroup = admins
  Depth = 1
  MaxChanges = 3
  None = None
  a1 = a1
  a2 = a2
  g1 = g1
  g2 = g2
SYMMETRY Symmetry
INVARIANTS ATypeOK NoVisibleCycle GroupsAsRequested SearchMatchesAccess
CHECK_DEADLOCK FALSE
