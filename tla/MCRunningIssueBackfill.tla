----------------------- MODULE MCRunningIssueBackfill -----------------------
(* RunningIssueBackfill with the issues, readers and bounds of its cfg.     *)
EXTENDS RunningIssueBackfill
=============================================================================
