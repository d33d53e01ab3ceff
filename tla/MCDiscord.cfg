SPECIFICATION BotSpec
SYMMETRY MCSymmetry
CONSTANTS
  Org = {o, p}
  User = {u, v}
  Account = {a, b}
  Guild = {g, h}
  Flow = {f, e}
  Command = {c, d}
  MaxRequests = 3
  MaxFaults = 1
INVARIANTS SuspendedStays CommandsThere
CHECK_DEADLOCK FALSE
