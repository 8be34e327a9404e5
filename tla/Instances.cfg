SPECIFICATION Spec
CONSTANTS
  Processes = {p1, p2, p3}
  MaxStarts = 4
SYMMETRY MCSymmetry
INVARIANTS
  TypeOK
  ServingIsRegistered
  StaleRowsAreOfCrashes
PROPERTY DeletesOnlyOwnRow
CHECK_DEADLOCK FALSE
