SPECIFICATION Spec
CONSTANTS
  b1 = b1
  NoBackup = NoBackup
  Backups = {b1}
  MaxAttempts = 2
  CaughtUp = TRUE
  MaxPods = 2
  MaxEvents = 3
INVARIANTS BeforeOnce QuietWhileCopying Settled
PROPERTIES PruneFirst
CHECK_DEADLOCK FALSE
