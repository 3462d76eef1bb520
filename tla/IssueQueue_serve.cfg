SPECIFICATION FairSpec
CONSTANTS
  t1 = t1
  t2 = t2
  i1 = i1
  i2 = i2
  i3 = i3
  Threads = {t1, t2}
  Issues = {i1, i2, i3}
  ThreadOf <- TwoThreads
  Handlers = {"h1"}
  NoIssue = NoIssue
  Commands = {}
  StartFaults = {"reconnect", "prepare", "notFound", "turn"}
  EndEvents <- PlainEndings
  MaxTurns = 3
  MaxBindings = 4
  MaxFaults = 1
INVARIANT OneLiveTurn
PROPERTY QueuedEventuallyEnds
PROPERTY Fifo
PROPERTY StartsQueued
PROPERTY EndedByOwnTurn
CHECK_DEADLOCK FALSE
