\* The work follows the node, which may lose blocks, and requests end, while
\* the node answers.
SPECIFICATION FairSpec
CONSTANTS
  t1 = t1  t2 = t2  t3 = t3
  Tasks = {t1, t2, t3}
  None = None
  Shares <- SomeShares
  MinDifficulty = 1
  PoolDifficulty = 2
  NodeDifficulties = {0, 2}
  PostedHeights = {4}
  NodeLoses = TRUE
  Ops <- SyncOps
  MaxSessions = 1
  MaxShares = 1
  MaxChain = 1
INVARIANT WorkNotAhead
PROPERTIES WorkCatchesUp RequestsEnd
CHECK_DEADLOCK FALSE
