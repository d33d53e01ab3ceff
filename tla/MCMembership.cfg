SPECIFICATION Spec
CONSTANTS
  Bootstrap = b
  People = {b, p, q}
  Slots = {s1, s2}
  MaxEvents = 4
SYMMETRY Symmetry
INVARIANTS InCharge
PROPERTIES OwnersMadeByOwners
CHECK_DEADLOCK FALSE
