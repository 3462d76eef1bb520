--------------------------- MODULE ThreadReadModel ---------------------------
(***************************************************************************)
(* How a client reads the issues of one root thread: the bridge            *)
(* (codex-adapter/src/index.js) publishes snapshots of them on NATS, the   *)
(* projection worker (ProjectionWorkerService.cs) rewrites a board from    *)
(* each, and the gateway (apps/api/Program.cs) merges the bridge's answer  *)
(* with the board.  The bridge is asked first and the board is read after  *)
(* it, while the bridge and the worker go on.  Issues of the active        *)
(* physical thread come from the bridge; those of a recently closed one    *)
(* from the bridge until the board has caught up; older ones from the      *)
(* board.                                                                  *)
(*                                                                         *)
(* Physical threads are numbered by their sequence.  `clock` counts the    *)
(* bridge's changes and stands for its time stamps: the version of a card  *)
(* (updated_at), the time of an event (projected_at) and closed_at.        *)
(***************************************************************************)
EXTENDS Naturals, Sequences

CONSTANTS
  Issues,        \* identifiers of the issues of the thread
  NoIssue,       \* no issue is running
  MaxPhysical,   \* bound: physical threads the root thread goes through
  MaxClock,      \* bound: changes made by the bridge
  MaxQueued,     \* bound: events on their way to the worker
  MaxLosses      \* bound: lost events, failed writes and worker restarts

ASSUME NoIssueAssumption == NoIssue \notin Issues
ASSUME BoundsAssumption ==
  /\ MaxPhysical \in Nat \ {0}
  /\ MaxClock \in Nat /\ MaxQueued \in Nat /\ MaxLosses \in Nat

VARIABLES
  cards,     \* the bridge: the issue cards, each with its physical thread and version
  used,      \* identifiers ever given to a card
  running,   \* the issue whose turn runs, or NoIssue
  active,    \* the active physical thread; 0 when the root thread is deleted
  closedAt,  \* when each physical thread was closed; 0 when it was not
  recent,    \* recentlyClosedPhysicalThreadIdsByRootThreadId
  clock,
  channel,   \* events delivered to the subscription and not yet served
  worker,    \* the event HandleEventAsync serves
  board,     \* the rows of logical_thread_issue_board
  reader,    \* the bridge's answer a read of the gateway holds
  losses,
  missed     \* ghost: the event published last was lost, or failed

bridge == <<cards, used, running, active, closedAt, recent, clock>>
projection == <<channel, worker, board>>
faults == <<losses, missed>>
vars == <<bridge, projection, reader, faults>>

Physical == 1 .. MaxPhysical
Card == [id : Issues, on : Physical, ver : Nat]
Row == [id : Issues, on : Physical, ver : Nat, at : Nat]
Event == [kind : {"issues", "deleted"}, cards : SUBSET Card, at : Nat]
Answer == [cards : SUBSET Card, active : 0 .. MaxPhysical, recent : SUBSET Physical]

Deleted == active = 0
Idle == [pc |-> "idle", left |-> {}, at |-> 0]
NoAnswer == [asked |-> FALSE, answer |-> [cards |-> {}, active |-> 0, recent |-> {}]]

Init ==
  /\ cards = {}
  /\ used = {}
  /\ running = NoIssue
  /\ active = 1
  /\ closedAt = [p \in Physical |-> 0]
  /\ recent = {}
  /\ clock = 0
  /\ channel = <<>>
  /\ worker = Idle
  /\ board = {}
  /\ reader = NoAnswer
  /\ losses = 0
  /\ missed = FALSE

(***************************************************************************)
(* publishEvent: an event reaches the worker, or is lost because the       *)
(* worker is not subscribed at that time or the snapshot exceeds the       *)
(* payload NATS accepts and is dropped.  It waits for nothing outside the  *)
(* process, and the snapshot is taken when it is published, so a change    *)
(* and its snapshot are one step.                                          *)
(***************************************************************************)
Publish(kind, snapshot) ==
  \/ /\ Len(channel) < MaxQueued
     /\ channel' = Append(channel, [kind |-> kind, cards |-> snapshot, at |-> clock'])
     /\ missed' = FALSE
     /\ UNCHANGED losses
  \/ /\ losses < MaxLosses
     /\ losses' = losses + 1
     /\ missed' = TRUE
     /\ UNCHANGED channel

\* bridge.threadIssues.updated carries every card of the thread as it is now.
PublishIssues == Publish("issues", cards')

Tick == clock < MaxClock /\ clock' = clock + 1

Without(i) == {c \in cards : c.id # i}
With(i, p) == Without(i) \cup {[id |-> i, on |-> p, ver |-> clock']}

-----------------------------------------------------------------------------
(***************************************************************************)
(* The bridge.                                                             *)
(***************************************************************************)

\* createThreadIssue: the card belongs to the physical thread active now.
CreateIssue(i) ==
  /\ ~Deleted
  /\ i \notin used
  /\ Tick
  /\ used' = used \cup {i}
  /\ cards' = With(i, active)
  /\ PublishIssues
  /\ UNCHANGED <<running, active, closedAt, recent, worker, board, reader>>

\* A card that is not running is edited, queued, reordered or moved back, on
\* whatever physical thread it last ran or was created.
EditIssue(c) ==
  /\ c.id # running
  /\ Tick
  /\ cards' = With(c.id, c.on)
  /\ PublishIssues
  /\ UNCHANGED <<used, running, active, closedAt, recent, worker, board, reader>>

\* startTurnOnPhysicalThread: the issue is executed on the active physical thread.
StartIssue(c) ==
  /\ running = NoIssue
  /\ Tick
  /\ cards' = With(c.id, active)
  /\ running' = c.id
  /\ PublishIssues
  /\ UNCHANGED <<used, active, closedAt, recent, worker, board, reader>>

\* A delta of the running turn changes the card and publishes no snapshot of the issues.
Progress ==
  /\ running # NoIssue
  /\ Tick
  /\ cards' = With(running, active)
  /\ UNCHANGED <<used, running, active, closedAt, recent, projection, reader, faults>>

\* The turn ends, or its start is refused.
FinishIssue ==
  /\ running # NoIssue
  /\ Tick
  /\ cards' = With(running, active)
  /\ running' = NoIssue
  /\ PublishIssues
  /\ UNCHANGED <<used, active, closedAt, recent, worker, board, reader>>

DeleteIssue(c) ==
  /\ Tick
  /\ cards' = Without(c.id)
  /\ running' = IF running = c.id THEN NoIssue ELSE running
  /\ PublishIssues
  /\ UNCHANGED <<used, active, closedAt, recent, worker, board, reader>>

\* performContextRollover: the source is closed and remembered, the target
\* becomes active and takes the running issue with it, in one synchronous
\* stretch that publishes no snapshot of the issues.
Rollover ==
  /\ active \in 1 .. MaxPhysical - 1
  /\ Tick
  /\ closedAt' = [closedAt EXCEPT ![active] = clock']
  /\ recent' = recent \cup {active}
  /\ active' = active + 1
  /\ cards' = IF running = NoIssue THEN cards ELSE With(running, active')
  /\ UNCHANGED <<used, running, projection, reader, faults>>

\* pruneRecentlyClosedPhysicalThreads: the 60 seconds of a closed thread are over.
GraceExpires(p) ==
  /\ p \in recent
  /\ recent' = recent \ {p}
  /\ UNCHANGED <<cards, used, running, active, closedAt, clock, projection, reader, faults>>

\* deleteRootThreadCascade publishes rootThread.deleted and thread.deleted,
\* which the worker serves alike.
DeleteRootThread ==
  /\ ~Deleted
  /\ Tick
  /\ cards' = {}
  /\ running' = NoIssue
  /\ active' = 0
  /\ recent' = {}
  /\ Publish("deleted", {})
  /\ UNCHANGED <<used, closedAt, worker, board, reader>>

\* publishProjectionRecoverySnapshots: all snapshots are published again when
\* NATS is back, and when the bridge starts, which has forgotten the recently
\* closed threads.
Republish(known) ==
  /\ ~Deleted
  /\ Tick
  /\ recent' = known
  /\ UNCHANGED <<cards, used, running, active, closedAt, worker, board, reader>>
  /\ PublishIssues

NatsReconnect == Republish(recent)
RestartBridge == Republish({})

-----------------------------------------------------------------------------
(***************************************************************************)
(* The worker serves one event at a time (_eventLock), in the order they   *)
(* came.  It deletes the rows of the thread one by one and then writes the *)
(* cards of the snapshot one by one.                                       *)
(***************************************************************************)
Take ==
  /\ worker.pc = "idle"
  /\ channel # <<>>
  /\ worker' = [pc |-> "clear", left |-> Head(channel).cards, at |-> Head(channel).at]
  /\ channel' = Tail(channel)
  /\ UNCHANGED <<bridge, board, reader, faults>>

ClearRow(r) ==
  /\ worker.pc = "clear"
  /\ board' = board \ {r}
  /\ UNCHANGED <<bridge, channel, worker, reader, faults>>

ClearedAtOnce ==
  /\ worker.pc = "clear"
  /\ worker' = [worker EXCEPT !.pc = "fill"]
  /\ UNCHANGED <<bridge, channel, board, reader, faults>>
Cleared ==
  /\ worker.pc = "clear"
  /\ board = {}
  /\ worker' = [worker EXCEPT !.pc = "fill"]
  /\ UNCHANGED <<bridge, channel, board, reader, faults>>

Projected(c) == [id |-> c.id, on |-> c.on, ver |-> c.ver, at |-> worker.at]

FillRow(c) ==
  /\ worker.pc = "fill"
  /\ board' = {r \in board : r.id # c.id} \cup {Projected(c)}
  /\ worker' = [worker EXCEPT !.left = @ \ {c}]
  /\ UNCHANGED <<bridge, channel, reader, faults>>

Served ==
  /\ worker.pc = "fill"
  /\ worker.left = {}
  /\ worker' = Idle
  /\ UNCHANGED <<bridge, channel, board, reader, faults>>

\* A write fails: the exception is logged and the rest of the event is given up.
Fail ==
  /\ worker.pc # "idle"
  /\ losses < MaxLosses
  /\ losses' = losses + 1
  /\ worker' = Idle
  /\ missed' = (missed \/ channel = <<>>)
  /\ UNCHANGED <<bridge, channel, board, reader>>

\* The worker's process ends and is started again: what it had received is lost.
RestartWorker ==
  /\ worker.pc # "idle" \/ channel # <<>>
  /\ losses < MaxLosses
  /\ losses' = losses + 1
  /\ worker' = Idle
  /\ channel' = <<>>
  /\ missed' = TRUE
  /\ UNCHANGED <<bridge, board, reader>>

-----------------------------------------------------------------------------
(***************************************************************************)
(* The gateway.                                                            *)
(***************************************************************************)

\* buildThreadIssuesResponse and getThreadContinuity.
Current == [cards |-> cards, active |-> active, recent |-> recent]

\* BuildProjectionIssueCoverage and ResolveReadSplitState.
HasRow(p, rows) == \E r \in rows : r.on = p
CaughtUp(p, rows) == \E r \in rows : r.on = p /\ r.at >= closedAt[p]
Preferred(a, rows) ==
  {p \in Physical : p = a.active \/ (p \in a.recent /\ ~CaughtUp(p, rows))}

\* MergeThreadIssuesPayload.
FromBoard(a, rows) == {r \in rows : r.on \notin Preferred(a, rows)}
FromBridge(a, rows) ==
  {c \in a.cards : \/ c.on \in Preferred(a, rows)
                   \/ \A r \in FromBoard(a, rows) : r.id # c.id}
Merged(a, rows) ==
  FromBridge(a, rows) \cup
    {[id |-> r.id, on |-> r.on, ver |-> r.ver] :
       r \in {s \in FromBoard(a, rows) : \A c \in FromBridge(a, rows) : c.id # s.id}}

\* GET /api/threads/{threadId}/issues: the bridge answers; the board is read later.
Ask ==
  /\ ~reader.asked
  /\ reader' = [asked |-> TRUE, answer |-> Current]
  /\ UNCHANGED <<bridge, projection, faults>>

Reply ==
  /\ reader.asked
  /\ reader' = NoAnswer
  /\ UNCHANGED <<bridge, projection, faults>>

-----------------------------------------------------------------------------
BridgeNext ==
  \/ \E i \in Issues : CreateIssue(i)
  \/ \E c \in cards : EditIssue(c)
  \/ \E c \in cards : StartIssue(c)
  \/ Progress
  \/ FinishIssue
  \/ \E c \in cards : DeleteIssue(c)
  \/ Rollover
  \/ \E p \in recent : GraceExpires(p)
  \/ DeleteRootThread
  \/ NatsReconnect
  \/ RestartBridge

Serve ==
  \/ Take
  \/ \E r \in board : ClearRow(r)
  \/ Cleared
  \/ \E c \in worker.left : FillRow(c)
  \/ Served

Next ==
  \/ BridgeNext
  \/ Serve
  \/ Fail
  \/ RestartWorker
  \/ Ask
  \/ Reply

Spec == Init /\ [][Next]_vars

\* The worker goes on with what it has: its awaits are answered or fail.
FairSpec == Spec /\ WF_vars(Serve)

-----------------------------------------------------------------------------
(***************************************************************************)
(* Properties.                                                             *)
(***************************************************************************)
TypeOK ==
  /\ cards \subseteq Card
  /\ used \subseteq Issues
  /\ running \in Issues \cup {NoIssue}
  /\ active \in 0 .. MaxPhysical
  /\ closedAt \in [Physical -> Nat]
  /\ recent \subseteq Physical
  /\ clock \in Nat
  /\ channel \in Seq(Event)
  /\ worker \in [pc : {"idle", "clear", "fill"}, left : SUBSET Card, at : Nat]
  /\ board \subseteq Row
  /\ reader \in [asked : BOOLEAN, answer : Answer]
  /\ losses \in Nat
  /\ missed \in BOOLEAN

\* Whenever the board is read, every issue the bridge answered is shown.  One
\* of the active physical thread is shown exactly as answered.  One of a
\* recently closed thread that has not changed since the closing is never
\* shown in an older version, however far the worker lags, whatever was lost,
\* and although the board is rewritten row by row (Program.cs 2896-3061).
ReadNotStale ==
  reader.asked =>
    LET a == reader.answer
        shown == Merged(a, board)
    IN \A c \in a.cards :
         /\ \E s \in shown : s.id = c.id
         /\ c.on = a.active => c \in shown
         /\ c.on \in a.recent /\ c.ver < closedAt[c.on] =>
              \A s \in shown : s.id = c.id => s.ver >= c.ver

\* When the bridge has come to rest and the event it published last was served,
\* a read shows exactly its issues: none in an old version, no deleted one, and
\* nothing of a deleted thread (ProjectionWorkerService.cs 553-588, 696-754).
EventuallyExact == <>[](missed \/ Merged(Current, board) = cards)
=============================================================================
