--------------------------- MODULE DurableState ---------------------------
(***************************************************************************)
(* What the thread storage of the bridge promises: of the states that were *)
(* persisted, in this order, the file holds one; a later write never puts  *)
(* back an earlier one; a restart goes on from the state in the file and   *)
(* loses those persisted after it, never one before.                       *)
(***************************************************************************)
EXTENDS Naturals, Sequences

VARIABLES log,      \* the states persisted so far
          saved,    \* the position in log of the one in the file
          file      \* the content of the file

vars == <<log, saved, file>>

Init == /\ log = <<file>>
        /\ saved = 1

Save == /\ \E n \in saved..Len(log) : saved' = n /\ file' = log[n]
        /\ UNCHANGED log

Recover == /\ log' = SubSeq(log, 1, saved)
           /\ UNCHANGED <<saved, file>>

\* persistThreadsForUser: a state is added.
Persist == /\ Len(log') = Len(log) + 1
           /\ SubSeq(log', 1, Len(log)) = log
           /\ UNCHANGED <<saved, file>>

Next == Persist \/ Save \/ Recover

Spec == Init /\ [][Next]_vars
=============================================================================
