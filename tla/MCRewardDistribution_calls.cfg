\* Rewards, payouts and reports at once, up to the largest amount.
SPECIFICATION Spec
CONSTANTS
  t1 = t1  t2 = t2  t3 = t3  m1 = m1  m2 = m2
  Tasks = {t1, t2, t3}
  None = None
  Miners = {m1, m2}
  Heights = {0, 1, 64}
  Fees = {0, 1}
  Amounts = {1, 2}
  HalvingInterval = 1
  BaseReward = 2
  MaxAmount = 4
  Ops <- CallsOps
  MaxRewards = 2
INVARIANTS LedgerAgrees AccountsBalanced
CHECK_DEADLOCK FALSE
