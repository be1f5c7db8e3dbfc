SPECIFICATION Spec
CONSTANTS
    None = None
    Networks <- MCNetworks
    MaxId = 40
    MaxPicks = 3
    MaxEdits = 1
    Breaks = {"away", "reboot", "rewind", "reroot", "replace"}
    MaxBreaks = 1
INVARIANTS TypeOK UndoAvailable IdentityNeverReused
PROPERTIES CommittedAsReviewed UndoRestores ForeignUntouched
CHECK_DEADLOCK FALSE
