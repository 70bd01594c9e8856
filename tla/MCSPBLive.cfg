SPECIFICATION FairSpec
CONSTANTS
  n1 = n1
  n2 = n2
  Node = {n1, n2}
  Faulty = {}
  Proposer = n1
  Leavers = {n1, n2}
PROPERTIES Completion EventuallyStored
CHECK_DEADLOCK FALSE
