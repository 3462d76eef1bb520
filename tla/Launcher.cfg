SPECIFICATION FairSpec
CONSTANTS
  MaxAttempts = 12
  Threshold = 3
  SpawnMayFail = TRUE
  MaxProbes = 3
INVARIANT NoneAstray
INVARIANT RestartComing
PROPERTY Respawned
PROPERTY ShutdownEnds
CHECK_DEADLOCK FALSE
