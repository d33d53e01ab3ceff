SPECIFICATION Spec
CONSTANTS
  Slots = {s1, s2}
  PerIP = 2
  PerUserIP = 1
  MaxFailures = 2
  MaxRequests = 3
  MaxFaults = 2
SYMMETRY Symmetry
INVARIANTS GuessesBounded OldGone
PROPERTIES TokensSingleUse
CHECK_DEADLOCK FALSE
