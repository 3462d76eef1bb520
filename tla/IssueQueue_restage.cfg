SPECIFICATION Spec
CONSTANTS
  t1 = t1
  t2 = t2
  i1 = i1
  i2 = i2
  i3 = i3
  Threads = {t1}
  Issues = {i1, i2}
  ThreadOf <- OneThread
  Handlers = {"h1", "h2"}
  NoIssue = NoIssue
  Commands = {"restage", "delete", "reorder", "stop"}
  StartFaults = {"turn"}
  EndEvents <- PlainEndings
  MaxTurns = 0
  MaxBindings = 2
  MaxFaults = 1
INVARIANT TrackingAgrees
CHECK_DEADLOCK FALSE
