SPECIFICATION FairSpec
CONSTANTS
  i1 = i1
  i2 = i2
  Issues = {i1, i2}
  NoIssue = NoIssue
  Faults = {"create", "interrupt", "prepare", "turn"}
  Commands = {"delete", "interrupt"}
  MaxTroubles = 1
  MaxReports = 2
INVARIANT LockHeld
INVARIANT OneTail
INVARIANT NotStranded
PROPERTY EndsContinued
PROPERTY NoSuccessorAfterDeletion
PROPERTY QueuedEnds
CHECK_DEADLOCK FALSE
