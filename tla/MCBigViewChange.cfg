SPECIFICATION BigSpec
CONSTANTS
  n1 = n1
  n2 = n2
  n3 = n3
  n4 = n4
  Node = {n1, n2, n3, n4}
  Faulty = {}
  Leader = n1
  MaxCounting = 1
SYMMETRY Symmetry
CONSTRAINT CountingBound
INVARIANT LevelTold
CHECK_DEADLOCK FALSE
