SPECIFICATION Spec
CONSTANTS
  Specs <- MCSpecs
  Period = 3
  Window = 1
  KeepLast = 1
  Limit = 2
  OrgLimit = 3
  MaxTime = 5
  MaxBackups = 3
  MaxOthers = 1
  MaxEvents = 2
INVARIANTS RecordedOnce RoomForNext Awake
PROPERTIES KeepsNewest
CHECK_DEADLOCK FALSE
