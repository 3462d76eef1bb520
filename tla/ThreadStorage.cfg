SPECIFICATION FairSpec
CONSTANTS
  i1 = i1
  i2 = i2
  Issues = {i1, i2}
  NoIssue = NoIssue
  MaxPersists = 7
  MaxRestarts = 2
  MaxFailures = 1
INVARIANT FlushComing
INVARIANT OneStrandedPerRestart
INVARIANT LeftoverLockEnded
PROPERTY ImplementsDurable
PROPERTY EventuallySaved
PROPERTY ExitSaves
CHECK_DEADLOCK FALSE
