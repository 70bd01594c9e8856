SPECIFICATION ViewSpec
CONSTANTS
  n1 = n1
  n2 = n2
  n3 = n3
  n4 = n4
  Node = {n1, n2, n3, n4}
  Faulty = {}
  Leader = n1
SYMMETRY Symmetry
INVARIANTS ViewTypeOK WeakCommitCarried StuckAtMostF EarlySpeedCarried
CHECK_DEADLOCK FALSE
