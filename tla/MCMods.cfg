SPECIFICATION ModsSpec
CONSTANTS
  s1 = s1  s2 = s2
  a = a  b = b  b2 = b2  c = c
  A1 = A1  A2 = A2  B1 = B1  B2 = B2  C1 = C1
  A = A  B = B  C = C
  None = None  Own = Own  Torn = Torn
  Slots <- MCSlots
  Names <- MCNames
  Projects <- MCProjects
  Versions <- MCVersions
  Project <- MCProject
  File <- MCFile
  Deps <- MCDeps
  Needs <- MCNeeds
  Latest <- MCLatest
  Initial <- MCInitial
  Selections <- MCSelections
  MaxDepth = 2
  MaxFiles = 3
  MaxRounds = 2
  MaxAttempts = 2
  MaxAsked = 2
  MaxFailures = 1
  MaxEdits = 1
SYMMETRY MCSymmetry
INVARIANTS WholeJars Delivered Flagged
CHECK_DEADLOCK FALSE
