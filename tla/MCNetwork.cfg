SPECIFICATION NetFairSpec
CONSTANTS
  p1 = p1
  p2 = p2
  p3 = p3
  Peer = {p1, p2, p3}
  Deaf = {p2}
  Fragile = {p3}
  SendCap = 1
  ConnCap = 1
  RecvCap = 1
  MaxMsgs = 3
INVARIANTS LinkOrder
PROPERTIES Handled
CHECK_DEADLOCK FALSE
