SPECIFICATION FairSpec
CONSTANTS
  i1 = i1
  i2 = i2
  Issues = {i1, i2}
  NoIssue = NoIssue
  MaxPhysical = 2
  MaxClock = 5
  MaxQueued = 2
  MaxLosses = 1
INVARIANT ReadNotStale
PROPERTY EventuallyExact
CHECK_DEADLOCK FALSE
