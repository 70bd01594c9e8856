SPECIFICATION Spec
CONSTANTS
  n1 = n1
  n2 = n2
  n3 = n3
  n4 = n4
  Node = {n1, n2, n3, n4}
  Faulty = {}
  Proposer = n1
  Leavers = {n2}
SYMMETRY Symmetry
INVARIANTS TypeOK QCBacked NestedCerts NoLostWakeup CountedOnce
PROPERTY RefinesStaged
CHECK_DEADLOCK FALSE
