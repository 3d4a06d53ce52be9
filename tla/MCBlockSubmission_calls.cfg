\* Submissions, updates and reports at once, every answer of the node.
SPECIFICATION FairSpec
CONSTANTS
  t1 = t1  t2 = t2  t3 = t3
  Tasks = {t1, t2, t3}
  None = None
  Hashes = {zero, other}
  ZeroHash = zero
  Heights = {1, 2}
  Ops <- CallsOps
  MaxTips = 3
INVARIANTS PairCoherent OvertakenOnly
PROPERTIES LocalCallsReturn
CHECK_DEADLOCK FALSE
