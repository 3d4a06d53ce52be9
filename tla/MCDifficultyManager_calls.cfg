\* Three callers, every interleaving, blocks recorded in any order.
SPECIFICATION Spec
CONSTANTS
  t1 = t1  t2 = t2  t3 = t3
  Tasks = {t1, t2, t3}
  None = None
  InitialDifficulty = 6
  AdjustmentInterval = 1
  TargetBlockTime = 2
  MinDifficulty = 3
  MaxDifficulty = 40
  Timestamps = {0, 3}
  Overrides = {5}
  Ops <- CallsOps
  WordRange = 64
  MaxHeight = 3
  MaxAdjustments = 2
INVARIANTS HistoryAgrees OverlooksSameBlocksOnly WindowStable DeadlockShape
CHECK_DEADLOCK FALSE
