--------------------------- MODULE ContextRollover ---------------------------
(***************************************************************************)
(* Context rollover and deletion of one root thread in the bridge          *)
(* (services/codex-adapter/src/index.js).  A root thread executes on       *)
(* physical threads, one after the other, each bound to a Codex thread.    *)
(* When the context of the active one is nearly full, a rollover creates   *)
(* its successor, stops its turn, closes it and continues the issue on the *)
(* successor.  A rollover begins before an issue is started (preflight) or *)
(* when app-server reports token usage (runtime).  Both run beside the     *)
(* queue, notifications, interrupts and the deletion of the root thread,   *)
(* and each waits for app-server in its middle.                            *)
(***************************************************************************)
EXTENDS Naturals, Sequences, FiniteSets, SequencesExt, FiniteSetsExt

CONSTANTS Issues, NoIssue,
          Faults,       \* the requests that may fail: "create", "interrupt",
                        \* "prepare", "turn"
          Commands,     \* the user commands: "delete", "interrupt"
          MaxTroubles,  \* bounds for TLC: failures and interrupts,
          MaxReports    \* reports of a filling context

ASSUME NoIssueAssumption == NoIssue \notin Issues
ASSUME FaultAssumption == Faults \subseteq {"create", "interrupt", "prepare", "turn"}
ASSUME BoundAssumption == MaxTroubles \in Nat /\ MaxReports \in Nat

VARIABLES
  root,      \* the root thread: active physical thread, latest sequence, ...
  phys,      \* its physical threads in the order of their creation
  route,     \* codexThreadToPhysicalThreadId, for Codex threads 1, 2, ...
  status, queue, active,   \* issue cards, pending queue, activeIssueByThreadId
  activeP,   \* activeIssueByPhysicalThreadId
  lock,      \* rolloverLocksByRootThreadId
  cooldown,  \* rolloverCooldownByRootThreadId lies in the future
  tomb,      \* closedPhysicalThreadTombstonesById
  stopped,   \* locallyStoppedExecutionByThreadId
  lane,      \* the two places a start may be under way
  deleting,  \* a deleteRootThreadCascade under way and what it captured
  stopping,  \* an interruptThreadIssue under way
  turns, inbox,            \* app-server: turns accepted, notifications sent
  faults, reports, stops   \* counts of what happened

cards == <<status, queue, active, activeP>>
server == <<turns, inbox, reports>>
threads == <<root, phys, route, tomb>>
commands == <<deleting, stopping, stopped, stops>>
vars == <<threads, cards, lock, cooldown, lane, commands, server, faults>>

-----------------------------------------------------------------------------
NoThread == 0
Statuses == {"staged", "queued", "running", "ended", "interrupted"}
Levels == {"low", "high", "full"}   \* below 85 %, from 85 %, from 100 %
FaultKinds == {"create", "interrupt", "prepare", "turn"}
Lanes == {"pipeline", "handler"}

Fresh(seq) == [seq |-> seq, closed |-> FALSE, deleted |-> FALSE,
               codex |-> NoThread, turn |-> 0, usage |-> "low"]
Idle == [pc |-> "idle", kind |-> "plain", issue |-> NoIssue, p |-> NoThread,
         src |-> NoThread, cap |-> Fresh(0), was |-> FALSE, turn |-> 0]
NoStop == [p |-> NoThread, codex |-> NoThread, turn |-> 0]

Init ==
  /\ root = [active |-> 1, seq |-> 1, deleted |-> FALSE, degraded |-> FALSE]
  /\ phys = <<Fresh(1)>>
  /\ route = <<>>
  /\ status = [i \in Issues |-> "staged"] /\ queue = <<>> /\ active = NoIssue
  /\ activeP = <<NoIssue>>
  /\ lock = "free" /\ cooldown = FALSE /\ tomb = {}
  /\ stopped = NoStop
  /\ lane = [l \in Lanes |-> Idle]
  /\ deleting = [pc |-> "none", cap |-> <<>>]
  /\ stopping = NoIssue
  /\ turns = <<>> /\ inbox = <<>>
  /\ faults = [k \in FaultKinds |-> 0] /\ reports = 0 /\ stops = 0

-----------------------------------------------------------------------------
(***************************************************************************)
(* Shared parts                                                            *)
(***************************************************************************)
Open(ph, p) == ~ph[p].closed /\ ~ph[p].deleted
Erased == deleting.pc = "done"   \* the cards carry deleted_at

\* getActivePhysicalThread, with ph for the physical threads.
ActivePhysical(ph) ==
  LET left == {p \in DOMAIN ph : ~ph[p].deleted}
  IN IF root.active \in left THEN root.active
     ELSE IF left = {} THEN NoThread
     ELSE CHOOSE p \in left : \A q \in left : ph[q].seq <= ph[p].seq

Troubles == stops + FoldFunction(LAMBDA a, b : a + b, 0, faults)

Fail(k) == /\ k \in Faults
           /\ Troubles < MaxTroubles
           /\ faults' = [faults EXCEPT ![k] = @ + 1]

\* clearRunningIssueTracking.
ClearedP == [p \in DOMAIN activeP |-> IF activeP[p] = active THEN NoIssue ELSE activeP[p]]

\* invalidateCodexThreadBinding: of the active physical thread, whichever failed.
Unbound(ph) == LET a == ActivePhysical(ph)
               IN IF a = NoThread THEN ph ELSE [ph EXCEPT ![a].codex = NoThread]
Unrouted(ph) == LET a == ActivePhysical(ph)
                IN [c \in DOMAIN route |->
                      IF a # NoThread /\ c = ph[a].codex THEN NoThread ELSE route[c]]

Running == {i \in Issues : status[i] = "running"}

-----------------------------------------------------------------------------
(***************************************************************************)
(* Rollover: validateRolloverPreconditions, performContextRollover         *)
(***************************************************************************)
Worthwhile(i, ph) ==
  LET a == ActivePhysical(ph) IN a # NoThread /\ i # NoIssue /\ ph[a].usage # "low"
IgnoringLock(i, ph) ==
  LET a == ActivePhysical(ph)
  IN /\ ~root.deleted
     /\ a # NoThread /\ Open(ph, a)
     /\ i # NoIssue /\ ~Erased
     /\ ~cooldown
     /\ ph[a].usage # "low"
CanRollOver(i, ph) == lock = "free" /\ IgnoringLock(i, ph)

\* The successor is created and its Codex thread requested.
BeginRollover(l, i, kind, ph) ==
  LET a == ActivePhysical(ph)
      t == Len(ph) + 1
  IN /\ lock' = "rollover"
     /\ phys' = Append(ph, Fresh(root.seq + 1))
     /\ activeP' = Append(activeP, NoIssue)
     /\ lane' = [lane EXCEPT ![l] =
          [Idle EXCEPT !.pc = "create", !.kind = kind, !.issue = i, !.p = t,
                       !.src = a, !.cap = Fresh(root.seq + 1), !.turn = ph[a].turn]]

\* The source is closed, the successor made the active one, and the issue
\* continues on it.
Unclosed(ph, p) == ph
ClosedLatest(ph, p) == [ph EXCEPT ![Len(ph)].closed = TRUE]
Closed(ph, p) == [ph EXCEPT ![p].closed = TRUE]

SwitchTo(l, ph) ==
  LET w == lane[l]
  IN /\ phys' = Closed(ph, w.src)
     /\ tomb' = tomb \cup {w.src}
     /\ activeP' = [activeP EXCEPT ![w.src] = NoIssue]
     /\ root' = [root EXCEPT !.active = w.p, !.seq = ph[w.p].seq, !.degraded = FALSE]
     /\ status' = [status EXCEPT ![w.issue] = "running"]
     /\ lane' = [lane EXCEPT ![l].pc = "stage"]

\* thread/start for the successor is answered.
TargetCreated(l) ==
  LET w == lane[l]
      c == Len(route) + 1
      bound == [phys EXCEPT ![w.p] = [w.cap EXCEPT !.codex = c]]
  IN /\ w.pc = "create"
     /\ route' = Append(route, w.p)
     /\ IF w.kind = "preflight"
        THEN SwitchTo(l, bound)
        ELSE /\ phys' = bound
             /\ lane' = [lane EXCEPT ![l].pc = "interrupt"]
             /\ UNCHANGED <<root, tomb, status, activeP>>
     /\ UNCHANGED <<queue, active, lock, cooldown, commands, server, faults>>

\* turn/interrupt for the source is answered or fails; the rollover goes on.
EndedBy(n) == /\ turns' = [turns EXCEPT ![n].live = FALSE]
              /\ inbox' = Append(inbox, [kind |-> "end", turn |-> n, level |-> "low"])
NothingEnded == UNCHANGED <<turns, inbox>>

SourceInterrupted(l) ==
  LET w == lane[l]
  IN /\ w.pc = "interrupt"
     /\ IF w.turn # 0 /\ turns[w.turn].live THEN EndedBy(w.turn) ELSE NothingEnded
     /\ SwitchTo(l, phys)
     /\ UNCHANGED <<route, queue, active, lock, cooldown, commands, reports, faults>>

SourceInterruptFails(l) ==
  /\ lane[l].pc = "interrupt"
  /\ Fail("interrupt")
  /\ SwitchTo(l, phys)
  /\ UNCHANGED <<route, queue, active, lock, cooldown, commands, server>>

\* The catch and finally of performContextRollover, and processIssueQueueOnce
\* after it: the issue goes back into the queue if its card still says queued.
NotRestored(l) == UNCHANGED queue
Restore(l) == queue' = IF l = "pipeline" /\ status'[lane[l].issue] = "queued" /\ ~Erased
                       THEN <<lane[l].issue>> \o queue ELSE queue
Unlock(l) == lock' = IF lane[l].kind = "plain" THEN lock ELSE "free"
Degrade(l) == root' = [root EXCEPT !.degraded = @ \/ lane[l].kind # "plain"]

TargetFails(l) ==
  /\ lane[l].pc = "create"
  /\ Fail("create")
  /\ UNCHANGED status
  /\ Restore(l) /\ Unlock(l) /\ Degrade(l)
  /\ lane' = [lane EXCEPT ![l] = Idle]
  /\ UNCHANGED <<phys, route, tomb, active, activeP, cooldown, commands, server>>

CooldownExpires ==
  /\ cooldown
  /\ cooldown' = FALSE
  /\ UNCHANGED <<threads, cards, lock, lane, commands, server, faults>>

TombstoneExpires(p) ==
  /\ p \in tomb
  /\ tomb' = tomb \ {p}
  /\ UNCHANGED <<root, phys, route, cards, lock, cooldown, lane, commands, server, faults>>

-----------------------------------------------------------------------------
(***************************************************************************)
(* Starting an issue: the queue, startIssueTurn, startTurnOnPhysicalThread *)
(***************************************************************************)
StartThreadIssues(i) ==
  /\ status[i] = "staged" /\ ~root.deleted
  /\ status' = [status EXCEPT ![i] = "queued"]
  /\ queue' = Append(queue, i)
  /\ UNCHANGED <<threads, active, activeP, lock, cooldown, lane, commands, server, faults>>

StartPlain(i, a) ==
  /\ lane' = [lane EXCEPT !["pipeline"] = [Idle EXCEPT !.pc = "stage", !.issue = i, !.p = a]]
  /\ UNCHANGED <<phys, activeP, lock>>

ProcessIssueQueueOnce ==
  /\ lane["pipeline"].pc = "idle" /\ queue # <<>> /\ active = NoIssue
  /\ IF Running # {} /\ ~Erased
     THEN /\ active' \in Running
          /\ UNCHANGED <<queue, phys, activeP, lock, lane>>
     ELSE /\ queue' = Tail(queue)
          /\ UNCHANGED active
          /\ IF CanRollOver(Head(queue), phys)
             THEN BeginRollover("pipeline", Head(queue), "preflight", phys)
             ELSE StartPlain(Head(queue), ActivePhysical(phys))
  /\ UNCHANGED <<root, route, tomb, status, cooldown, commands, server, faults>>

\* activatePhysicalThread.
Activated(ph, p) == [root EXCEPT !.active = p, !.seq = ph[p].seq]

\* The execution is projected and turn/start sent; a closed physical thread is
\* left alone (resetExecutionProjectionForNewIssue).
BeginTurn(l, ph, activate) ==
  LET w == lane[l]
  IN /\ IF Open(ph, w.p)
        THEN /\ phys' = [ph EXCEPT ![w.p].turn = 0]
             /\ root' = [Activated(ph, w.p) EXCEPT !.degraded = FALSE]
             /\ stopped' = NoStop
        ELSE /\ phys' = ph
             /\ root' = IF activate THEN Activated(ph, w.p) ELSE root
             /\ UNCHANGED stopped
     /\ active' = w.issue
     /\ activeP' = [activeP EXCEPT ![w.p] = w.issue]
     /\ status' = [status EXCEPT ![w.issue] = "running"]
     /\ lane' = [lane EXCEPT ![l].pc = "turn", ![l].turn = 0, ![l].cap = ph[w.p]]

\* Attachments are staged; a physical thread that is not bound awaits its Codex
\* thread with the record it was read with.
StageDone(l) ==
  LET w == lane[l]
  IN /\ w.pc = "stage"
     /\ IF phys[w.p].codex # NoThread
        THEN BeginTurn(l, phys, FALSE)
        ELSE /\ lane' = [lane EXCEPT ![l].pc = "ensure", ![l].cap = phys[w.p],
                                     ![l].was = (root.active = w.p)]
             /\ UNCHANGED <<root, phys, stopped, active, activeP, status>>
     /\ UNCHANGED <<route, tomb, queue, lock, cooldown, deleting, stopping, stops, server, faults>>

EnsureDone(l) ==
  LET w == lane[l]
  IN /\ w.pc = "ensure"
     /\ route' = Append(route, w.p)
     /\ BeginTurn(l, [phys EXCEPT ![w.p] = [w.cap EXCEPT !.codex = Len(route) + 1]], w.was)
     /\ UNCHANGED <<tomb, queue, lock, cooldown, deleting, stopping, stops, server, faults>>

StartThrows(l) ==
  /\ lane[l].pc \in {"stage", "ensure"}
  /\ Fail(IF lane[l].pc = "stage" THEN "prepare" ELSE "create")
  /\ UNCHANGED status
  /\ Restore(l) /\ Unlock(l) /\ Degrade(l)
  /\ lane' = [lane EXCEPT ![l] = Idle]
  /\ UNCHANGED <<phys, route, tomb, active, activeP, cooldown, commands, server>>

Accept(l) ==
  /\ lane[l].pc = "turn" /\ lane[l].turn = 0
  /\ turns' = Append(turns, [codex |-> lane[l].cap.codex, issue |-> lane[l].issue, live |-> TRUE])
  /\ lane' = [lane EXCEPT ![l].turn = Len(turns) + 1]
  /\ UNCHANGED <<threads, cards, lock, cooldown, commands, inbox, reports, faults>>

\* The answer of turn/start; a rollover is then complete.
TurnResponds(l) ==
  LET w == lane[l]
  IN /\ w.pc = "turn" /\ w.turn # 0
     /\ phys' = [phys EXCEPT ![w.p].turn = w.turn]
     /\ status' = [status EXCEPT ![w.issue] = "running"]
     /\ Unlock(l)
     /\ cooldown' = (cooldown \/ w.kind # "plain")
     /\ lane' = [lane EXCEPT ![l] = Idle]
     /\ UNCHANGED <<root, route, tomb, queue, active, activeP, commands, server, faults>>

\* turn/start is refused, or its answer does not come in time.
TurnStartFails(l) ==
  LET w == lane[l]
      ph == Unbound(phys)
  IN /\ w.pc = "turn"
     /\ Fail("turn")
     /\ active' = NoIssue
     /\ activeP' = [ClearedP EXCEPT ![w.p] = NoIssue]
     /\ route' = Unrouted(phys)
     /\ phys' = IF Open(ph, w.p) THEN [ph EXCEPT ![w.p].turn = 0] ELSE ph
     /\ status' = [status EXCEPT ![w.issue] = "ended"]
     /\ Unlock(l) /\ Degrade(l)
     /\ lane' = [lane EXCEPT ![l] = Idle]
     /\ UNCHANGED <<tomb, queue, cooldown, commands, server>>

-----------------------------------------------------------------------------
(***************************************************************************)
(* Notifications, one at a time (enqueueOrderedBridgeEvent)                *)
(***************************************************************************)
Owner(c) ==
  IF route[c] # NoThread THEN route[c]
  ELSE LET holders == {p \in DOMAIN phys : phys[p].codex = c}
       IN IF holders = {} THEN NoThread ELSE Min(holders)

\* shouldIgnoreLocallyStoppedExecutionNotification, and the guard behind it.
LocallyStopped(e, p) ==
  /\ stopped # NoStop
  /\ stopped.p = p
  /\ stopped.codex \in {NoThread, turns[e.turn].codex}
  /\ stopped.turn \in {0, e.turn} \/ e.kind = "usage"
DropDeleted(p) == root.deleted
DropClosed(p) == p \in tomb \/ ~Open(phys, p) \/ root.deleted

Dropped(e) == LET p == Owner(turns[e.turn].codex)
              IN IF p = NoThread THEN TRUE ELSE LocallyStopped(e, p) \/ DropClosed(p)

\* A record of another turn of the same Codex thread is forgotten.
Mismatch(e) == LET p == Owner(turns[e.turn].codex)
               IN /\ stopped # NoStop /\ stopped.p = p /\ e.kind = "end"
                  /\ stopped.codex \in {NoThread, turns[e.turn].codex}
                  /\ stopped.turn \notin {0, e.turn}

IssueOn(p) == IF activeP[p] # NoIssue THEN activeP[p] ELSE active

Take(e) == /\ lane["handler"].pc = "idle" /\ inbox # <<>>
           /\ e = Head(inbox)
           /\ inbox' = Tail(inbox)
           /\ stopped' = IF Mismatch(e) THEN NoStop ELSE stopped

DropEvent ==
  \E e \in ToSet(inbox) :
    /\ Take(e)
    /\ Dropped(e) = TRUE
    /\ UNCHANGED <<threads, cards, lock, cooldown, lane, deleting, stopping, stops,
                   turns, reports, faults>>

\* thread/tokenUsage/updated: the usage is noted, a degraded thread recovers,
\* and a full active physical thread is rolled over, with the handler waiting.
ApplyUsage ==
  \E e \in ToSet(inbox) :
    LET p == Owner(turns[e.turn].codex)
        noted == [phys EXCEPT ![p].usage = e.level]
    IN /\ Take(e)
       /\ e.kind = "usage" /\ ~Dropped(e)
       /\ root' = [root EXCEPT !.degraded = FALSE]
       /\ IF noted[ActivePhysical(noted)].usage = "full" /\ CanRollOver(IssueOn(p), noted)
          THEN BeginRollover("handler", IssueOn(p), "runtime", noted)
          ELSE /\ phys' = noted
               /\ UNCHANGED <<activeP, lock, lane>>
       /\ UNCHANGED <<route, tomb, status, queue, active, cooldown, deleting, stopping,
                      stops, turns, reports, faults>>

\* turn/completed: the active issue ends, thread/read is awaited, the locks go.
ApplyTerminal ==
  \E e \in ToSet(inbox) :
    LET p == Owner(turns[e.turn].codex)
        i == IssueOn(p)
    IN /\ Take(e)
       /\ e.kind = "end" /\ ~Dropped(e)
       /\ root' = [root EXCEPT !.degraded = FALSE]
       /\ status' = IF i = NoIssue THEN status ELSE [status EXCEPT ![i] = "ended"]
       /\ lane' = [lane EXCEPT !["handler"] = [Idle EXCEPT !.pc = "sync", !.p = p]]
       /\ UNCHANGED <<phys, route, tomb, queue, active, activeP, lock, cooldown, deleting,
                      stopping, stops, turns, reports, faults>>

SettleTerminal ==
  LET w == lane["handler"]
  IN /\ w.pc = "sync"
     /\ active' = NoIssue
     /\ activeP' = [ClearedP EXCEPT ![w.p] = NoIssue]
     /\ lane' = [lane EXCEPT !["handler"] = Idle]
     /\ UNCHANGED <<threads, status, queue, lock, cooldown, commands, server, faults>>

-----------------------------------------------------------------------------
(***************************************************************************)
(* Commands: deleteRootThreadCascade and interruptThreadIssue              *)
(***************************************************************************)
MayDelete == lock = "free"

DeleteBegin ==
  /\ "delete" \in Commands /\ ~root.deleted
  /\ MayDelete
  /\ lock' = "delete"
  /\ root' = [root EXCEPT !.deleted = TRUE]
  /\ deleting' = [pc |-> "stop", cap |-> phys]
  /\ UNCHANGED <<phys, route, tomb, cards, cooldown, lane, stopping, stopped, stops,
                 server, faults>>

\* The tracked turn is stopped, or app-server does not answer; then attachments
\* are removed.
DeleteStopped ==
  LET n == phys[root.active].turn
  IN /\ deleting.pc = "stop"
     /\ deleting' = [deleting EXCEPT !.pc = "clean"]
     /\ IF n # 0 /\ turns[n].live THEN EndedBy(n) \/ NothingEnded ELSE NothingEnded
     /\ UNCHANGED <<threads, cards, lock, cooldown, lane, stopping, stopped, stops,
                    reports, faults>>

\* What was read at the beginning is written back as deleted.
DeleteEnd ==
  LET cap == deleting.cap
  IN /\ deleting.pc = "clean"
     /\ phys' = [p \in DOMAIN phys |->
                   IF p \in DOMAIN cap
                   THEN [cap[p] EXCEPT !.deleted = TRUE, !.closed = TRUE] ELSE phys[p]]
     /\ tomb' = tomb \cup DOMAIN cap
     /\ route' = [c \in DOMAIN route |->
                    IF \E p \in DOMAIN cap : cap[p].codex = c THEN NoThread ELSE route[c]]
     /\ activeP' = [p \in DOMAIN phys |-> IF p \in DOMAIN cap THEN NoIssue ELSE ClearedP[p]]
     /\ queue' = <<>> /\ active' = NoIssue
     /\ lock' = "free"
     /\ deleting' = [pc |-> "done", cap |-> <<>>]
     /\ UNCHANGED <<root, status, cooldown, lane, stopping, stopped, stops, server, faults>>

InterruptBegin(i) ==
  /\ "interrupt" \in Commands /\ Troubles < MaxTroubles /\ ~root.deleted
  /\ stopping = NoIssue
  /\ status[i] = "running" /\ active = i
  /\ stopping' = i /\ stops' = stops + 1
  /\ LET on == {q \in DOMAIN activeP : activeP[q] = i}
         p == IF on = {} THEN root.active ELSE Min(on)
     IN stopped' = [p |-> p, codex |-> phys[p].codex, turn |-> phys[p].turn]
  /\ UNCHANGED <<threads, cards, lock, cooldown, lane, deleting, server, faults>>

InterruptEnd ==
  LET p == root.active
      n == phys[p].turn
  IN /\ stopping # NoIssue
     /\ IF n # 0 /\ turns[n].live THEN EndedBy(n) ELSE NothingEnded
     /\ active' = NoIssue /\ activeP' = ClearedP
     /\ phys' = IF Open(phys, p) THEN [phys EXCEPT ![p].turn = 0] ELSE phys
     /\ status' = [status EXCEPT ![stopping] = "interrupted"]
     /\ stopping' = NoIssue
     /\ UNCHANGED <<root, route, tomb, queue, lock, cooldown, lane, deleting, stopped,
                    stops, reports, faults>>

-----------------------------------------------------------------------------
(***************************************************************************)
(* app-server                                                              *)
(***************************************************************************)
\* What a turn reports follows the answer of its turn/start on the same socket.
Answered(n) == \A l \in Lanes : ~(lane[l].pc = "turn" /\ lane[l].turn = n)

Report(n, level) ==
  /\ turns[n].live /\ Answered(n) /\ reports < MaxReports
  /\ reports' = reports + 1
  /\ inbox' = Append(inbox, [kind |-> "usage", turn |-> n, level |-> level])
  /\ UNCHANGED <<threads, cards, lock, cooldown, lane, commands, turns, faults>>

EndTurn(n) ==
  /\ turns[n].live /\ Answered(n)
  /\ EndedBy(n)
  /\ UNCHANGED <<threads, cards, lock, cooldown, lane, commands, reports, faults>>

-----------------------------------------------------------------------------
Rollover(l) == \/ TargetCreated(l) \/ SourceInterrupted(l)
               \/ SourceInterruptFails(l) \/ TargetFails(l)
Start(l) == \/ StageDone(l) \/ EnsureDone(l) \/ StartThrows(l)
            \/ Accept(l) \/ TurnResponds(l) \/ TurnStartFails(l)
Handle == DropEvent \/ ApplyUsage \/ ApplyTerminal \/ SettleTerminal
Delete == DeleteStopped \/ DeleteEnd

Next ==
  \/ \E i \in Issues : StartThreadIssues(i) \/ InterruptBegin(i)
  \/ ProcessIssueQueueOnce
  \/ \E l \in Lanes : Rollover(l) \/ Start(l)
  \/ CooldownExpires
  \/ \E p \in tomb : TombstoneExpires(p)
  \/ Handle
  \/ DeleteBegin \/ Delete
  \/ InterruptEnd
  \/ \E n \in DOMAIN turns : EndTurn(n) \/ \E level \in Levels \ {"low"} : Report(n, level)

Spec == Init /\ [][Next]_vars

\* Node runs what is due, every request is answered or times out, and app-server
\* ends every turn.
FairSpec ==
  /\ Spec
  /\ WF_vars(ProcessIssueQueueOnce)
  /\ \A l \in Lanes : WF_vars(Rollover(l) \/ Start(l))
  /\ WF_vars(Handle) /\ WF_vars(Delete) /\ WF_vars(InterruptEnd)
  /\ WF_vars(\E n \in DOMAIN turns : EndTurn(n))

-----------------------------------------------------------------------------
(***************************************************************************)
(* Properties                                                              *)
(***************************************************************************)
PhysicalThreads == [seq : Nat, closed : BOOLEAN, deleted : BOOLEAN,
                    codex : Nat, turn : Nat, usage : Levels]
Pcs == {"idle", "create", "interrupt", "stage", "ensure", "turn", "sync"}

TypeOK ==
  /\ root \in [active : DOMAIN phys, seq : Nat, deleted : BOOLEAN, degraded : BOOLEAN]
  /\ phys \in Seq(PhysicalThreads)
  /\ route \in Seq(DOMAIN phys \cup {NoThread})
  /\ status \in [Issues -> Statuses] /\ queue \in Seq(Issues)
  /\ active \in Issues \cup {NoIssue} /\ activeP \in [DOMAIN phys -> Issues \cup {NoIssue}]
  /\ lock \in {"free", "rollover", "delete"} /\ cooldown \in BOOLEAN
  /\ tomb \subseteq DOMAIN phys
  /\ lane \in [Lanes -> [pc : Pcs, kind : {"plain", "preflight", "runtime"},
                         issue : Issues \cup {NoIssue}, p : DOMAIN phys \cup {NoThread},
                         src : DOMAIN phys \cup {NoThread}, cap : PhysicalThreads,
                         was : BOOLEAN, turn : Nat]]
  /\ deleting.pc \in {"none", "stop", "clean", "done"}
  /\ stopping \in Issues \cup {NoIssue}
  /\ turns \in Seq([codex : DOMAIN route, issue : Issues, live : BOOLEAN])

RollingOver == {l \in Lanes : lane[l].kind # "plain"}

\* The lock of a root thread has one holder: a rollover, started from the queue
\* or by a notification, or the deletion, and it is held until the holder is done
\* (rolloverLocksByRootThreadId in performContextRollover and
\* deleteRootThreadCascade).
LockHeld ==
  /\ Cardinality(RollingOver) <= 1
  /\ lock = "rollover" <=> RollingOver # {}
  /\ lock = "delete" <=> deleting.pc \in {"stop", "clean"}

\* New work goes to the tail: the active physical thread of a root thread that is
\* not deleted is open, and no other one that is open and bound to a Codex thread
\* is left, except the successor a rollover is about to switch to.  An interrupt
\* together with a failed request breaks it (README, What does not hold).
OneTail ==
  ~root.deleted =>
    /\ Open(phys, root.active)
    /\ \A p \in DOMAIN phys \ {root.active} :
         Open(phys, p) /\ phys[p].codex # NoThread =>
           \E l \in Lanes : lane[l].pc = "interrupt" /\ lane[l].p = p

\* A turn that can still make itself heard.
Heard(n) == LET p == Owner(turns[n].codex)
            IN /\ p # NoThread /\ p \notin tomb /\ Open(phys, p)
               /\ turns[n].live \/ \E k \in DOMAIN inbox : inbox[k].kind = "end" /\ inbox[k].turn = n

Driven(i) ==
  \/ \E l \in Lanes : lane[l].issue = i
  \/ \E n \in DOMAIN turns : turns[n].issue = i /\ Heard(n)

\* A rollover never strands its issue, whatever fails on the way: one that runs
\* is being started, or has a turn whose end will be applied.
NotStranded ==
  ~root.deleted /\ stops = 0 /\ faults["prepare"] = 0 =>
    \A i \in Running : Driven(i)

\* The same when the attachments of an issue cannot be prepared: a start whose
\* preparation throws puts the issue back.  The code does not do so for an issue
\* that performContextRollover has taken over (README, What does not hold).
PreparationRestores ==
  ~root.deleted /\ stops = 0 => \A i \in Running : Driven(i)

\* What the closed source still reports, its interrupted turn above all, never
\* ends the issue that continues elsewhere: an issue is ended by the end of the
\* turn it was last given.
TurnsOf(i) == {n \in DOMAIN turns : turns[n].issue = i}
EndsContinued ==
  [][\A i \in Issues :
       (ApplyTerminal /\ stops = 0 /\ status[i] = "running" /\ status'[i] = "ended")
         => Head(inbox).turn \in TurnsOf(i) /\ \A n \in TurnsOf(i) : n <= Head(inbox).turn]_vars

\* A deleted root thread gets no successor: nothing is created for it after the
\* deletion has begun, by whatever rollover.
NoSuccessorAfterDeletion == [][root.deleted => Len(phys') = Len(phys)]_vars

\* Queued issues are executed to their end through any number of rollovers and
\* failures, unless the user interrupts or deletes (the finally block of
\* performContextRollover and the queue processing that every end schedules).
QueuedEnds ==
  (\E i \in Issues : status[i] = "queued") ~>
    \/ \A i \in Issues : status[i] \in {"staged", "ended"}
    \/ root.deleted \/ stops > 0 \/ faults["prepare"] > 0
=============================================================================
