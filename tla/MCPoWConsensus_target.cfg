\* One caller, one chain, an adjustment after every block.
SPECIFICATION Spec
CONSTANTS
  t1 = t1  t2 = t2
  Tasks = {t1}
  None = None
  Chain = 0
  Chains = {0}
  Hashes <- SomeHashes
  ForeignProofs = {}
  CheckInterval = 1
  KeptTimes = 1
  Ops <- AloneOps
  MaxHashes = 2
  TargetBlockTime = 2000
  MinDifficulty = 3
  MaxDifficulty = 20
  WordRange = 16777216
  InitialDifficulty = 6
  AdjustmentInterval = 1
  WorkChains = {0}
  BlockHashes = {0}
  Clock = {0, 1}
  MaxHeight = 2
INVARIANTS HigherIsHarder
CHECK_DEADLOCK FALSE
