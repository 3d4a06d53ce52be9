\* Two callers, every interleaving, the clock set forward and back.
SPECIFICATION Spec
CONSTANTS
  t1 = t1  t2 = t2
  Tasks = {t1, t2}
  None = None
  Chain = 0
  Chains = {0, 1}
  Hashes <- SomeHashes
  ForeignProofs <- SomeProofs
  CheckInterval = 1
  KeptTimes = 1
  Ops <- CallsOps
  MaxHashes = 2
  TargetBlockTime = 2000
  MinDifficulty = 3
  MaxDifficulty = 20
  WordRange = 16777216
  InitialDifficulty = 6
  AdjustmentInterval = 2
  WorkChains = {0}
  BlockHashes = {0}
  Clock = {0, 1}
  MaxHeight = 2
INVARIANTS ChainsWhole RetargetsOnSchedule WorkGoodUntilTaken StatsTrailHashes StaleHashesBounded
CHECK_DEADLOCK FALSE
