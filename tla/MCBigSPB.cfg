SPECIFICATION FairSpec
CONSTANTS
  n1 = n1
  n2 = n2
  n3 = n3
  n4 = n4
  n5 = n5
  Node = {n1, n2, n3, n4, n5}
  Faulty = {n5}
  Proposer = n1
  Observer = n2
INVARIANTS TypeOK CountedOnce QCBacked SpeedVotesOfProposer
PROPERTIES Completion
CHECK_DEADLOCK FALSE
