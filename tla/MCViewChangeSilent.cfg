SPECIFICATION FairSpec
CONSTANTS
  n1 = n1
  n2 = n2
  n3 = n3
  n4 = n4
  n5 = n5
  Node = {n1, n2, n3, n4, n5}
  Faulty = {n5}
  Leader = n5
  MaxCounting = 5
PROPERTIES SilentLeaderAdvances
CHECK_DEADLOCK FALSE
