SPECIFICATION FairSpec
CONSTANTS
  w1 = w1
  w2 = w2
  k1 = k1
  k2 = k2
  Sockets <- TwoSockets
  Calls <- TwoCalls
  BestEffort <- SecondCall
  None = none
  Start = start
  Reconnect = reconnect
  Autostart = TRUE
  Misses = 2
  Overlap = FALSE
  Reactions = {"fail", "schedule"}
INVARIANT OwnConnection
INVARIANT HandshakeFirst
PROPERTY KeptReconnecting
PROPERTY CallsEnd
