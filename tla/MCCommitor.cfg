SPECIFICATION FairSpec
CONSTANTS
  p1 = p1
  p2 = p2
  q1 = q1
  q2 = q2
  r1 = r1
  r2 = r2
  s1 = s1
  NoBlock = NoBlock
  Block <- MCBlock
  Parent <- MCParent
  References <- MCReferences
  ViewOf <- MCViewOf
  HeightOf <- MCHeightOf
  ChanCap = 1
INVARIANTS TypeOK LeanAncestorsFirst HistoryClosed
PROPERTIES EventuallyCommitted
CHECK_DEADLOCK FALSE
