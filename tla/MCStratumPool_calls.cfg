\* Two miners, HTTP and the periodic sync, every answer of the node.
SPECIFICATION Spec
CONSTANTS
  t1 = t1  t2 = t2  t3 = t3
  Tasks = {t1, t2, t3}
  None = None
  Shares <- SomeShares
  MinDifficulty = 1
  PoolDifficulty = 2
  NodeDifficulties = {0, 2}
  PostedHeights = {3}
  NodeLoses = FALSE
  Ops <- CallsOps
  MaxSessions = 2
  MaxShares = 1
  MaxChain = 1
INVARIANTS SharesAddUp AuthorizedOnly
CHECK_DEADLOCK FALSE
