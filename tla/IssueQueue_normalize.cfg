SPECIFICATION Spec
CONSTANTS
  t1 = t1
  t2 = t2
  i1 = i1
  i2 = i2
  i3 = i3
  Threads = {t1}
  Issues = {i1, i2}
  ThreadOf <- OneThread
  Handlers = {"h1"}
  NoIssue = NoIssue
  Commands = {"normalize", "delete"}
  StartFaults = {"list", "prepare"}
  EndEvents <- PlainEndings
  MaxTurns = 1
  MaxBindings = 1
  MaxFaults = 1
INVARIANT QueueSound
INVARIANT QueuedIsTracked
CHECK_DEADLOCK FALSE
