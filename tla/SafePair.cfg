SPECIFICATION Spec
CONSTANTS
  t1 = t1
  t2 = t2
  p1 = p1
  p2 = p2
  d1 = d1
  d2 = d2
  NoTxn = NoTxn
  Txn = {t1, t2}
  Port = {p1}
  Touch <- Overlapping
  Cutting = {}
  Domain = {d1, d2}
  PreparationBudget = 1
  ConfirmationWindow = 1
  AppliedFor = 1
  ProbeLimit = 2
  MaxUnsettled = 2
  MaxRunning = 2
  MaxNS = 2
  Events = {"crash"}
  MaxEvents = 1
SYMMETRY SwapOverlapping
INVARIANTS Exclusion
PROPERTIES Contract
