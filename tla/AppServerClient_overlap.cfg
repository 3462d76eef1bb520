SPECIFICATION Spec
CONSTANTS
  w1 = w1
  w2 = w2
  k1 = k1
  k2 = k2
  Sockets <- TwoSockets
  Calls <- TwoCalls
  BestEffort <- SecondCall
  None = none
  Start = start
  Reconnect = reconnect
  Autostart = TRUE
  Misses = 2
  Overlap = TRUE
  Reactions = {"fail", "retry", "schedule"}
INVARIANT NoLostCall
INVARIANT HeartbeatFollowsSocket
