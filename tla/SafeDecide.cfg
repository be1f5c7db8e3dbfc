SPECIFICATION Spec
CONSTANTS
  t1 = t1
  t2 = t2
  p1 = p1
  p2 = p2
  d1 = d1
  d2 = d2
  NoTxn = NoTxn
  Txn = {t1}
  Port = {p1}
  Touch <- One
  Cutting = {}
  Domain = {d1}
  PreparationBudget = 1
  ConfirmationWindow = 1
  AppliedFor = 1
  ProbeLimit = 2
  MaxUnsettled = 1
  MaxRunning = 1
  MaxNS = 2
  Events = {"request", "authority", "clock", "path"}
  MaxEvents = 2
INVARIANTS NoVersionConflict
PROPERTIES SettledIsFrozen WindowNeverExtended ConfirmedInTime
