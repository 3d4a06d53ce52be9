\* Three callers, every interleaving of the operations that change state.
SPECIFICATION Spec
CONSTANTS
  t1 = t1  t2 = t2  t3 = t3  m1 = m1  m2 = m2  w1 = w1  w2 = w2
  Tasks = {t1, t2, t3}
  Miners = {m1, m2}
  ValidAddresses = {m1, m2}
  Works = {w1}
  Difficulties = {2}
  Amounts = {1}
  Ops <- CallsOps
  None = None
  MaxMiners = 1
  MinShareDifficulty = 2
  FeePercent = 1
  BlockReward = 100
  ShareWindow = 0
  ClearAge = 0
  ClockRange = 1024
  Skew = 0
  MaxTime = 1
  MaxShares = 2
  MaxEarnings = 1
SYMMETRY PoolSymmetry
INVARIANTS RegistryConsistent LogComplete DetailedReportComplete DeadlockShape
PROPERTIES ImplementsAtomicPool
CHECK_DEADLOCK FALSE
