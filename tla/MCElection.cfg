SPECIFICATION BigFairSpec
CONSTANTS
  n1 = n1
  n2 = n2
  n3 = n3
  n4 = n4
  n5 = n5
  Node = {n1, n2, n3, n4, n5}
  Faulty = {n5}
  Absent = {n4}
  Leader = n1
INVARIANTS TypeOK CoinNeedsQuorum ReportsOnce
PROPERTIES CoinTotality CoinRevealed
CHECK_DEADLOCK FALSE
