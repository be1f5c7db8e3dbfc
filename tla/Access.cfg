SPECIFICATION Spec
CONSTANTS
  None = None
  Users = {"root", "deputy", "new"}
  Root = "root"
  Deputy = "deputy"
  Creds = {1, 2, 3}
  First = 1
  Idle = 2
  Absolute = 2
  Elevation = 1
  MaxGrants = 2
  MaxTime = 2
  Budgets <- MCBudgets
  Certs = {"k1", "k2"}
  Imported = {"k1"}
  BootCert = "k0"
  Window = 1
  MaxNS = 3
  MaxKeys = 3
INVARIANTS TypeOK PasswordCurrent EndedForGood AdministratorRemains TrialEnds KeysOpenRows
PROPERTIES NoEscalation ConfirmedInWindow
CHECK_DEADLOCK FALSE
