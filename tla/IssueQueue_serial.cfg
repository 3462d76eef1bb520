SPECIFICATION Spec
CONSTANTS
  t1 = t1
  t2 = t2
  i1 = i1
  i2 = i2
  i3 = i3
  Threads = {t1}
  Issues = {i1, i2}
  ThreadOf <- OneThread
  Handlers = {"h1"}
  NoIssue = NoIssue
  Commands = {"interrupt", "unlock"}
  StartFaults = {"reconnect", "turn"}
  EndEvents <- AllEndings
  MaxTurns = 2
  MaxBindings = 2
  MaxFaults = 1
INVARIANT SequentialExecution
INVARIANT QueuedIsTracked
INVARIANT LockInv
INVARIANT NoStall
PROPERTY StrayNotifications
CHECK_DEADLOCK FALSE
