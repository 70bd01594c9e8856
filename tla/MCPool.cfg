SPECIFICATION FairSpec
CONSTANTS
  g1 = g1
  g2 = g2
  MaxQueueSize = 4
  BatchSize = 3
  TxCap = 2
  BatchCap = 2
  Getter = {g1, g2}
  Wrap = 16
INVARIANTS Stream NeverFull
PROPERTIES GetReturns
