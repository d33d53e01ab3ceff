SPECIFICATION Spec
CONSTANTS
  r1 = r1
  r2 = r2
  NoRestore = NoRestore
  Restores = {r1, r2}
  CaughtUp = TRUE
  MaxEvents = 3
SYMMETRY Symmetry
INVARIANTS RestoringStopped LockKept Settled
PROPERTIES LockFirst
CHECK_DEADLOCK FALSE
