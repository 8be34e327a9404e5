SPECIFICATION Spec
CONSTANTS
  Users = {u1, u2}
  Sessions = {s1, s2}
  Dormancy = 1
  MaxTime = 5
  NoRow = NoRow
SYMMETRY Symmetry
INVARIANTS
  TypeOK
  NoOrphanSession
PROPERTIES
  OverForGood
