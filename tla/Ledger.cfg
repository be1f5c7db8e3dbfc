SPECIFICATION Spec
CONSTANTS
  o1 = o1  o2 = o2  r1 = r1  b1 = b1  c = c  x = x  f = f
  Ordinary = {o1, o2}  Recovery = {r1}  Backups = {b1}  None = None
  WriteQueue = 1  RecoveryWriteQueue = 1  MaxBackups = 1
  Key = {c, x, f}  Kind <- Kinds  Legacy = {"l"}
  MaxTime = 2  Skew = 0  Expiry = 1  Retention = 1  AuditRetention = 1
  MaxReceipts = 3  MaxRecords = 5  Reserved = 1  MaxRunning = 1
  Events = {"crash", "commit", "disk", "back", "restore", "upgrade"}
  Contended = {0}  MaxMet = 0  MaxEvents = 1
SYMMETRY Swap
INVARIANTS TypeOK AtMostOnce ReceiptTracksJob Traceable OvertakenOnce
