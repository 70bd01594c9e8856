SPECIFICATION Spec
CONSTANTS
  n1 = n1
  n2 = n2
  n3 = n3
  n4 = n4
  Node = {n1, n2, n3, n4}
  Faulty = {}
  Leader = n1
  MaxCounting = 1
SYMMETRY Symmetry
CONSTRAINT CountingBound
INVARIANT DocGHolds
CHECK_DEADLOCK FALSE
