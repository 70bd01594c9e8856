SPECIFICATION FairSpec
CONSTANTS
  n1 = n1
  n2 = n2
  n3 = n3
  n4 = n4
  Node = {n1, n2, n3, n4}
  Faulty = {n4}
  Leader = n1
  MaxCounting = 4
INVARIANTS TypeOK ReportsBacked ProposalBacked CommitBacked DocGExclusive
PROPERTIES EarlyCommitSurvives EarlySpeedCommitSurvives DecisiveAdvances
CHECK_DEADLOCK FALSE
