SPECIFICATION Spec
SYMMETRY MCSymmetry
CONSTANTS
  Org = {o, p}
  Panel = {w, x}
  Alert = {i, j}
  Window = 1
  Ttl = 3
  MaxRound = 1
  MaxTime = 3
  MaxRequests = 3
  MaxFaults = 2
INVARIANTS AnnouncedOnce NoneMissed
CHECK_DEADLOCK FALSE
