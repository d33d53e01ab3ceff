SPECIFICATION FairSpec
CONSTANTS
  Limit = 2
  Window = 3
  FirstDelay = 1
  LaterDelay = 1
  LastExit = 4
  MaxEvents = 1
INVARIANTS RestartsBounded DownForGood
PROPERTIES CrashLogged NoUnaskedKill Converges
CHECK_DEADLOCK FALSE
