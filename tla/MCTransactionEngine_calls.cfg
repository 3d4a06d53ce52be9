\* Callers of the engine, or callers of its set of outputs.
SPECIFICATION Spec
CONSTANTS
  t1 = t1  t2 = t2  t3 = t3  a = a  b = b  k1 = k1  k2 = k2
  Tasks = {t1, t2, t3}
  None = None
  Outputs = {k1, k2}
  Addresses = {a, b}
  Amounts = {1, 2}
  Catalogue <- MCCatalogue
  Word = 8
  Slvr = 1
  Supply = 7
  MaxAdded = 2
  Workloads <- MCWorkloads
  MaxSubmitted = 3
INVARIANTS OutputsListed ValidatesTheStart LedgerIsReplay MoneyFromWrapsOnly DeadlockShape
CHECK_DEADLOCK FALSE
