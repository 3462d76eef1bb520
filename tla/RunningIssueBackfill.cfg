SPECIFICATION FairSpec
CONSTANTS
  i1 = i1
  NoIssue = NoIssue
  Issues = {i1}
  Readers = {"requested", "reconcile", "sample"}
  Outcomes = {"completed", "failed"}
  NoProgressForceReconnect = 2
  MaxTurns = 1
  MaxChunks = 2
  MaxTroubles = 1
INVARIANT WholeText
PROPERTY NotRewound
PROPERTY StaysEnded
CHECK_DEADLOCK FALSE
