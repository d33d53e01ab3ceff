SPECIFICATION PlanSpec
SYMMETRY MCSymmetry
CONSTANTS
  Servers = {m, n}
  Buckets = {b1, b2}
  MaxPerServer = 1
  MaxPerOrg = 2
  AtOnce = 2
  MaxRequests = 4
INVARIANTS ReferencesKept LimitsKept OneKey
CHECK_DEADLOCK FALSE
