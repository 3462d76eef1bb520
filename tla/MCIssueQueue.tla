---------------------------- MODULE MCIssueQueue ----------------------------
(***************************************************************************)
(* Small instances of IssueQueue for TLC.                                  *)
(***************************************************************************)
EXTENDS IssueQueue

CONSTANTS t1, t2, i1, i2, i3

OneThread == [i \in Issues |-> t1]
TwoThreads == [i \in Issues |-> IF i = i3 THEN t2 ELSE t1]

\* The ways app-server ends a turn: with turn/completed, with a
\* thread/status/changed that does or does not name the turn, or with both.
PlainEndings == {<<"completed">>, <<"failed">>}
AllEndings == {<<"completed", "idle">>, <<"failed">>, <<"idleTagged">>,
               <<"waiting", "completed">>}
=============================================================================
