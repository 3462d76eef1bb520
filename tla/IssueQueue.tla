----------------------------- MODULE IssueQueue -----------------------------
(***************************************************************************)
(* The issue execution pipeline of the bridge                              *)
(* (services/codex-adapter/src/index.js): the per-thread start queue, the  *)
(* processing lock that drains it, the turn the Codex app-server runs for  *)
(* the issue in front, the notifications that end that turn, and the user  *)
(* commands that interrupt, delete, unlock, stop or normalise a thread     *)
(* meanwhile.                                                              *)
(*                                                                         *)
(* The bridge is one JavaScript thread: a handler is atomic up to its next *)
(* await of a real network or disk answer.  One action is therefore one    *)
(* segment of a handler between two such awaits, and the program counters  *)
(* in "lane", "cmd" and "handling" say which answer is awaited.  A segment *)
(* that ends by calling scheduleQueuedIssuesForUser or processIssueQueue   *)
(* leaves the call in "due"; every action that starts a new segment waits  *)
(* until the synchronous tail has run (Quiescent).                         *)
(*                                                                         *)
(* Each root thread has one physical thread here: context rollover, which  *)
(* replaces it, is a component of its own.                                 *)
(***************************************************************************)
EXTENDS Integers, Sequences, FiniteSets, SequencesExt, Functions

CONSTANTS
  Threads,      \* root threads of one user
  Issues,       \* issue cards
  ThreadOf,     \* the root thread an issue is created in
  Handlers,     \* user commands that may be awaiting app-server at a time
  NoIssue,
  Commands,     \* the user commands the environment issues
  StartFaults,  \* the ways a start may fail
  EndEvents,    \* the notifications app-server may end a turn with
  MaxTurns,     \* bound on the turns app-server accepts
  MaxBindings,  \* bound on the Codex threads app-server creates
  MaxFaults     \* bound on the failures of starts

ASSUME ThreadAssumption == ThreadOf \in [Issues -> Threads]
ASSUME IssueAssumption == IsFiniteSet(Issues)
ASSUME NoIssueAssumption == NoIssue \notin Issues
ASSUME BoundAssumption == /\ MaxTurns \in Nat
                          /\ MaxBindings \in Nat
                          /\ MaxFaults \in Nat

VARIABLES
  \* The bridge's maps.
  status,      \* issueCardsById[i].status; "unborn" and "deleted": no card
  queue,       \* pendingStartQueues
  active,      \* activeIssueByThreadId
  activeP,     \* activeIssueByPhysicalThreadId, for the thread's physical thread
  codex,       \* codex_thread_id of the physical thread, 0 when unbound
  codexMap,    \* codexThreadToThreadId; NoThread once invalidated
  turnId,      \* turn_id the physical thread tracks, 0 when null
  stopped,     \* locallyStoppedExecutionByThreadId
  rerun,       \* issueQueueProcessingStateByThreadId[t].rerun
  resumeDue,   \* a reconnect was scheduled; its success resumes the queues
  \* Continuations.
  lane,        \* start pipelines: the one under the lock, a normaliser's own
  due,         \* queue processing the current segment still has to call
  cmd,         \* user commands in progress
  handling,    \* the terminal notification whose tail is awaited
  \* The app-server and the socket.
  inbox,       \* notifications of a thread, in socket order
  turns,       \* accepted turns, in order
  bindings,    \* Codex threads created so far
  faults

bridgeVars == <<status, queue, active, activeP, codex, codexMap, turnId,
                stopped, rerun, resumeDue>>
contVars == <<lane, due, cmd, handling>>
envVars == <<inbox, turns, bindings, faults>>
vars == <<bridgeVars, contVars, envVars>>

-----------------------------------------------------------------------------

Statuses == {"unborn", "staged", "queued", "running", "awaiting_input",
             "completed", "failed", "interrupted", "deleted"}
LiveStatuses == {"running", "awaiting_input"}
TerminalStatuses == {"completed", "failed"}

Lanes == {"queue", "normalize"}
LanePcs == {"idle", "once", "loop", "list", "stage", "ensure", "turn", "rebind"}
LaneModes == {"recover", "noRecovery", "nested"}
EventKinds == {"started", "waiting", "completed", "failed", "idle", "idleTagged"}

ASSUME EventAssumption == EndEvents \subseteq Seq(EventKinds)

IssueOrNone == Issues \cup {NoIssue}
Bindings == 1..MaxBindings
NoThread == "no thread"

ASSUME NoThreadAssumption == NoThread \notin Threads

IdleLane == [pc |-> "idle", issue |-> NoIssue, mode |-> "recover",
             found |-> FALSE, retried |-> FALSE, bind |-> 0]
NoStop == [on |-> FALSE, codex |-> 0, turn |-> 0]
NoCmd == [op |-> "none", pc |-> "none", issue |-> NoIssue, wasActive |-> FALSE,
          resume |-> FALSE, wasQueued |-> FALSE, frozen |-> FALSE, held |-> <<>>]
NoEvent == [kind |-> "none", turn |-> 0]

HasCard(i) == i \in Issues /\ status[i] \notin {"unborn", "deleted"}

\* updateIssueCard: a patch of a card that is gone is dropped.
Patched(i, s) == IF HasCard(i) THEN [status EXCEPT ![i] = s] ELSE status

\* Filters an issue out of a queue, which holds no issue twice (QueueSound).
WithoutHead(q, i) == IF q # <<>> /\ Head(q) = i THEN Tail(q) ELSE q
Without(q, i) ==
  IF i \in ToSet(q) THEN RemoveAt(q, CHOOSE n \in DOMAIN q : q[n] = i) ELSE q

Precedes(q, i, j) == \E m, n \in 1..Len(q) : m < n /\ q[m] = i /\ q[n] = j

RunningIn(t) == {i \in Issues : ThreadOf[i] = t /\ status[i] \in LiveStatuses}

(***************************************************************************)
(* ensureRunningIssueTrackingForThread: an active issue that still runs is *)
(* kept; otherwise the most recently updated running issue of the thread   *)
(* becomes active (timestamps are abstracted: any of them).                *)
(***************************************************************************)
KeptActive(t, a) == {a}
Adoptable(t, a) ==
  IF (a \in Issues /\ status[a] \in LiveStatuses) \/ RunningIn(t) = {}
  THEN {a}
  ELSE RunningIn(t)

\* clearRunningIssueTracking: also drops the physical entries of that issue.
ClearedNothing(t) == activeP
ClearedP(t) == [p \in Threads |->
                  IF active[t] # NoIssue /\ activeP[p] = active[t]
                  THEN NoIssue ELSE activeP[p]]
Clear(t) == /\ active' = [active EXCEPT ![t] = NoIssue]
            /\ activeP' = ClearedP(t)

\* invalidateCodexThreadBinding
InvalidateMapOnly(t) ==
  /\ UNCHANGED codex
  /\ codexMap' = [b \in Bindings |-> IF b = codex[t] THEN NoThread ELSE codexMap[b]]
Invalidate(t) ==
  /\ codex' = [codex EXCEPT ![t] = 0]
  /\ codexMap' = [b \in Bindings |-> IF b = codex[t] THEN NoThread ELSE codexMap[b]]

KeepBinding == UNCHANGED <<codex, codexMap>>

\* suppressLocallyStoppedExecution
Suppress(t) == stopped' = [stopped EXCEPT ![t] =
                 [on |-> TRUE, codex |-> codex[t], turn |-> turnId[t]]]

\* settlePhysicalThreadExecutionState: the tracked turn id is reset.
Settle(t) == turnId' = [turnId EXCEPT ![t] = 0]

\* scheduleQueuedIssuesForUser: every thread of the user is visited.
ScheduleNothing == UNCHANGED due
ScheduleOne == due' = [due EXCEPT ![CHOOSE t \in Threads : TRUE] = "schedule"]
ScheduleAll == due' = [t \in Threads |-> "schedule"]

(***************************************************************************)
(* pendingStartQueues.set: the array is replaced.  A command that captured *)
(* the old array before its await keeps that one.                          *)
(***************************************************************************)
Freeze(t) == [h \in Handlers |->
                IF cmd[h].wasQueued /\ ~cmd[h].frozen /\ ThreadOf[cmd[h].issue] = t
                THEN [cmd[h] EXCEPT !.frozen = TRUE, !.held = queue[t]]
                ELSE cmd[h]]

Busy(t) == lane[t]["queue"].pc # "idle"

\* No synchronous tail is left to run.
Quiescent == /\ \A t \in Threads : due[t] = "none"
             /\ \A t \in Threads, l \in Lanes : lane[t][l].pc \notin {"once", "loop"}
             /\ \A h \in Handlers : cmd[h].pc # "now"

SetLane(t, l, rec) == lane' = [lane EXCEPT ![t][l] = rec]

\* An iteration of the pipeline has returned; the lock is still held.
Returned(t, l) ==
  IF l = "queue"
  THEN [IdleLane EXCEPT !.pc = "loop", !.mode = lane[t][l].mode]
  ELSE IdleLane

\* A start that failed puts the issue back in front.
RestoredLast(t, i) == Append(queue[t], i)
NotRestored(t, i) == queue[t]
Restored(t, i) == IF i \in ToSet(queue[t]) THEN queue[t] ELSE <<i>> \o queue[t]

\* An iteration has thrown: the lock is deleted, and with it "rerun".
Dropped(t, l) == IF l = "queue" THEN [rerun EXCEPT ![t] = FALSE] ELSE rerun

-----------------------------------------------------------------------------
(***************************************************************************)
(* Creating, queueing and ordering issues                                  *)
(***************************************************************************)
CreateThreadIssue(i) ==
  /\ Quiescent
  /\ status[i] = "unborn"
  /\ status' = [status EXCEPT ![i] = "staged"]
  /\ UNCHANGED <<queue, active, activeP, codex, codexMap, turnId, stopped, rerun,
                 resumeDue, contVars, envVars>>

EligibleIfQueued(i) == status[i] \in {"staged", "queued"}
Eligible(i) == status[i] = "staged"

Enlist(q, i) == IF i \in ToSet(q) THEN q ELSE Append(q, i)

\* A client asks for i and then j (for one issue when they are the same); the
\* issues of its list that are not eligible are filtered out before.
StartThreadIssues(t, i, j) ==
  /\ Quiescent
  /\ ThreadOf[i] = t /\ ThreadOf[j] = t
  /\ Eligible(i) /\ Eligible(j)
  /\ status' = [status EXCEPT ![i] = "queued", ![j] = "queued"]
  /\ queue' = [queue EXCEPT ![t] = Enlist(Enlist(@, i), j)]
  /\ due' = [due EXCEPT ![t] = "process"]
  /\ UNCHANGED <<active, activeP, codex, codexMap, turnId, stopped, rerun, resumeDue,
                 lane, cmd, handling, envVars>>

\* A client names the issue it wants in front.
ReorderThreadIssues(t, i) ==
  /\ Quiescent
  /\ "reorder" \in Commands
  /\ i \in ToSet(queue[t])
  /\ queue' = [queue EXCEPT ![t] = <<i>> \o Without(@, i)]
  /\ cmd' = Freeze(t)
  /\ UNCHANGED <<status, active, activeP, codex, codexMap, turnId, stopped, rerun,
                 resumeDue, lane, due, handling, envVars>>

-----------------------------------------------------------------------------
(***************************************************************************)
(* The processing lock: scheduleQueuedIssuesForUser, processIssueQueue and *)
(* processIssueQueueOnce                                                   *)
(***************************************************************************)
RequestIfFree(t, mode) ==
  /\ UNCHANGED rerun
  /\ IF Busy(t) THEN UNCHANGED lane
     ELSE SetLane(t, "queue", [IdleLane EXCEPT !.pc = "once", !.mode = mode])

RequestProcessing(t, mode) ==
  IF Busy(t)
  THEN /\ rerun' = [rerun EXCEPT ![t] = TRUE]
       /\ UNCHANGED lane
  ELSE /\ SetLane(t, "queue", [IdleLane EXCEPT !.pc = "once", !.mode = mode])
       /\ rerun' = [rerun EXCEPT ![t] = FALSE]

ScheduleQueue(t) ==
  /\ due[t] = "schedule"
  /\ due' = [due EXCEPT ![t] = "none"]
  /\ IF queue[t] = <<>>
     THEN UNCHANGED <<active, lane, rerun>>
     ELSE \E a \in Adoptable(t, active[t]) :
            /\ active' = [active EXCEPT ![t] = a]
            /\ IF a = NoIssue
               THEN RequestProcessing(t, "recover")
               ELSE UNCHANGED <<lane, rerun>>
  /\ UNCHANGED <<status, queue, activeP, codex, codexMap, turnId, stopped,
                 resumeDue, cmd, handling, envVars>>

ProcessIssueQueue(t) ==
  /\ due[t] = "process"
  /\ due' = [due EXCEPT ![t] = "none"]
  /\ RequestProcessing(t, "recover")
  /\ UNCHANGED <<status, queue, active, activeP, codex, codexMap, turnId, stopped,
                 resumeDue, cmd, handling, envVars>>

(***************************************************************************)
(* One iteration: adopt a running issue if there is one, else take the     *)
(* head of the queue.  Its status stays "queued" while attachments are     *)
(* staged and a Codex thread is created.                                   *)
(***************************************************************************)
MayShiftWhileActive(t, a) == queue[t] # <<>>
MayShift(t, a) == a = NoIssue /\ queue[t] # <<>>

ProcessIssueQueueOnce(t, l) ==
  /\ lane[t][l].pc = "once"
  /\ \E a \in Adoptable(t, active[t]) :
       /\ active' = [active EXCEPT ![t] = a]
       /\ IF MayShift(t, a)
          THEN /\ queue' = [queue EXCEPT ![t] = Tail(@)]
               /\ SetLane(t, l, [lane[t][l] EXCEPT !.pc = "stage",
                                   !.issue = Head(queue[t]),
                                   !.found = HasCard(Head(queue[t]))])
          ELSE /\ SetLane(t, l, Returned(t, l))
               /\ UNCHANGED queue
  /\ UNCHANGED <<status, activeP, codex, codexMap, turnId, stopped, rerun,
                 resumeDue, due, cmd, handling, envVars>>

\* A nested iteration is followed by no other: when it has left no active issue,
\* the error that led to it is thrown after all.
LoopProcessIssueQueue(t) ==
  /\ lane[t]["queue"].pc = "loop"
  /\ due[t] = "none"
  /\ rerun' = [rerun EXCEPT ![t] = FALSE]
  /\ IF /\ rerun[t] /\ active[t] = NoIssue /\ queue[t] # <<>>
        /\ lane[t]["queue"].mode # "nested"
     THEN SetLane(t, "queue", [lane[t]["queue"] EXCEPT !.pc = "once"])
     ELSE SetLane(t, "queue", IdleLane)
  /\ UNCHANGED <<status, queue, active, activeP, codex, codexMap, turnId, stopped,
                 resumeDue, due, cmd, handling, envVars>>

-----------------------------------------------------------------------------
(***************************************************************************)
(* startTurnOnPhysicalThread and the Codex thread it runs on               *)
(***************************************************************************)

\* The execution is projected and turn/start is sent; the issue is not looked
\* at again.
BeginTurn(t, l, b) ==
  LET i == lane[t][l].issue
  IN /\ active' = [active EXCEPT ![t] = i]
     /\ activeP' = [activeP EXCEPT ![t] = i]
     /\ stopped' = [stopped EXCEPT ![t] = NoStop]
     /\ turnId' = [turnId EXCEPT ![t] = 0]
     /\ status' = Patched(i, "running")
     /\ SetLane(t, l, [lane[t][l] EXCEPT !.pc = "turn", !.bind = b])

\* Attachments are staged and the physical thread has its Codex thread.
StageDone(t, l) ==
  /\ Quiescent
  /\ lane[t][l].pc = "stage"
  /\ lane[t][l].found
  /\ IF codex[t] # 0
     THEN BeginTurn(t, l, codex[t])
     ELSE /\ SetLane(t, l, [lane[t][l] EXCEPT !.pc = "ensure"])
          /\ UNCHANGED <<status, active, activeP, turnId, stopped>>
  /\ UNCHANGED <<queue, codex, codexMap, rerun, resumeDue, due, cmd, handling,
                 envVars>>

Bind(t) ==
  /\ bindings < MaxBindings
  /\ bindings' = bindings + 1
  /\ codex' = [codex EXCEPT ![t] = bindings + 1]
  /\ codexMap' = [codexMap EXCEPT ![bindings + 1] = t]

EnsureDone(t, l) ==
  /\ Quiescent
  /\ lane[t][l].pc = "ensure"
  /\ Bind(t)
  /\ BeginTurn(t, l, bindings + 1)
  /\ UNCHANGED <<queue, rerun, resumeDue, due, cmd, handling, inbox, turns, faults>>

\* The catch block of processIssueQueueOnce.
StartThrows(t, l, recoverable) ==
  LET i == lane[t][l].issue
      restore == HasCard(i) /\ status[i] \in {"queued", "staged"}
  IN /\ queue' = IF restore THEN [queue EXCEPT ![t] = Restored(t, i)] ELSE queue
     /\ IF restore /\ recoverable
        THEN /\ resumeDue' = TRUE
             /\ SetLane(t, l, Returned(t, l))
             /\ UNCHANGED rerun
        ELSE /\ UNCHANGED resumeDue
             /\ IF l = "queue" /\ lane[t][l].mode = "recover"
                THEN /\ SetLane(t, l, [IdleLane EXCEPT !.pc = "list", !.mode = "nested"])
                     /\ UNCHANGED rerun
                ELSE /\ SetLane(t, l, IdleLane)
                     /\ rerun' = Dropped(t, l)

Fault(kind) == /\ kind \in StartFaults
               /\ faults < MaxFaults
               /\ faults' = faults + 1

\* An attachment download or thread/start fails, or app-server is not connected.
StartFails(t, l, recoverable) ==
  /\ Quiescent
  /\ lane[t][l].pc \in {"stage", "ensure", "rebind"}
  /\ Fault(IF recoverable THEN "reconnect" ELSE "prepare")
  /\ recoverable => lane[t][l].pc # "stage"
  /\ StartThrows(t, l, recoverable)
  /\ UNCHANGED <<status, active, activeP, codex, codexMap, turnId, stopped, due, cmd,
                 handling, inbox, turns, bindings>>

\* The card was gone when the pipeline took the issue.
StartMissing(t, l) ==
  /\ Quiescent
  /\ lane[t][l].pc = "stage"
  /\ ~lane[t][l].found
  /\ StartThrows(t, l, FALSE)
  /\ UNCHANGED <<status, active, activeP, codex, codexMap, turnId, stopped, due, cmd,
                 handling, envVars>>

Accept(t, l) ==
  /\ Len(turns) < MaxTurns
  /\ turns' = Append(turns, [codex |-> lane[t][l].bind, thread |-> t,
                             issue |-> lane[t][l].issue, live |-> TRUE])
  /\ inbox' = [inbox EXCEPT ![t] =
                 Append(@, [kind |-> "started", turn |-> Len(turns) + 1])]

\* The answer of turn/start precedes the notifications of its turn on the socket.
TurnResponds(t, l) ==
  /\ Quiescent
  /\ lane[t][l].pc = "turn"
  /\ Accept(t, l)
  /\ turnId' = [turnId EXCEPT ![t] = Len(turns) + 1]
  /\ status' = Patched(lane[t][l].issue, "running")
  /\ SetLane(t, l, Returned(t, l))
  /\ UNCHANGED <<queue, active, activeP, codex, codexMap, stopped, rerun, resumeDue,
                 due, cmd, handling, bindings, faults>>

\* turn/start is refused, or times out after app-server has accepted it.
TurnStartFails(t, l) ==
  /\ Quiescent
  /\ lane[t][l].pc = "turn"
  /\ Fault("turn")
  /\ Accept(t, l) \/ UNCHANGED <<turns, inbox>>
  /\ active' = [active EXCEPT ![t] = NoIssue]
  /\ activeP' = [ClearedP(t) EXCEPT ![t] = NoIssue]
  /\ Invalidate(t)
  /\ Settle(t)
  /\ status' = Patched(lane[t][l].issue, "failed")
  /\ SetLane(t, l, Returned(t, l))
  /\ ScheduleAll
  /\ UNCHANGED <<queue, stopped, rerun, resumeDue, cmd, handling, bindings>>

\* "thread not found" on the first attempt: bind again and retry once.
TurnThreadNotFound(t, l) ==
  /\ Quiescent
  /\ lane[t][l].pc = "turn"
  /\ ~lane[t][l].retried
  /\ Fault("notFound")
  /\ Invalidate(t)
  /\ SetLane(t, l, [lane[t][l] EXCEPT !.pc = "rebind", !.retried = TRUE])
  /\ UNCHANGED <<status, queue, active, activeP, turnId, stopped, rerun, resumeDue,
                 due, cmd, handling, inbox, turns, bindings>>

RebindDone(t, l) ==
  /\ Quiescent
  /\ lane[t][l].pc = "rebind"
  /\ Bind(t)
  /\ SetLane(t, l, [lane[t][l] EXCEPT !.pc = "turn", !.bind = bindings + 1])
  /\ UNCHANGED <<status, queue, active, activeP, turnId, stopped, rerun, resumeDue,
                 due, cmd, handling, inbox, turns, faults>>

-----------------------------------------------------------------------------
(***************************************************************************)
(* normalizeRootThread, called by a user ("normalize" lane) or by the      *)
(* pipeline itself after a start that threw ("queue" lane, nested)         *)
(***************************************************************************)
NormalizeRootThread(t) ==
  /\ Quiescent
  /\ "normalize" \in Commands
  /\ lane[t]["normalize"].pc = "idle"
  /\ SetLane(t, "normalize", [IdleLane EXCEPT !.pc = "list", !.mode = "noRecovery"])
  /\ UNCHANGED <<bridgeVars, due, cmd, handling, envVars>>

\* clearInvalidRunningIssueTracking
Invalid(t) == active[t] # NoIssue /\ status[active[t]] \notin LiveStatuses
ClearInvalidP(t) == IF Invalid(t) THEN ClearedP(t) ELSE activeP
ClearInvalidTurn(t) == IF Invalid(t) THEN [turnId EXCEPT ![t] = 0] ELSE turnId
Tracked(t) == Adoptable(t, IF Invalid(t) THEN NoIssue ELSE active[t])

\* repairCurrentThreadIssueQueue: the new queue holds every issue whose status is
\* "queued", those of the old queue first and in their old order.
QueuedIn(t) == {i \in Issues : ThreadOf[i] = t /\ status[i] = "queued"}
Orders(S) == {s \in [1..Cardinality(S) -> S] : IsInjective(s)}

RepairedTwice(t) == {queue[t] \o s : s \in Orders(QueuedIn(t))}
RepairedMissing(t) == Orders(QueuedIn(t) \ ToSet(queue[t]))
Repaired(t) ==
  {s \in Orders(QueuedIn(t)) : \A m, n \in DOMAIN s :
     m < n /\ s[n] \in ToSet(queue[t]) => Precedes(queue[t], s[m], s[n])}

\* manual_refresh promotes a staged issue (the latest) when nothing is queued.
Promotions(t, l, refresh) ==
  IF l = "normalize" /\ refresh /\ QueuedIn(t) = {}
  THEN {i \in Issues : ThreadOf[i] = t /\ status[i] = "staged"}
  ELSE {}

\* The lane that goes on with the repaired queue q.
Resume(t, l, q) ==
  IF q = <<>>
  THEN SetLane(t, l, IdleLane)
  ELSE IF l = "normalize" /\ ~Busy(t)
       THEN lane' = [lane EXCEPT ![t] =
              [queue |-> [IdleLane EXCEPT !.pc = "once", !.mode = "noRecovery"],
               normalize |-> IdleLane]]
       ELSE SetLane(t, l, [lane[t][l] EXCEPT !.pc = "once"])

Repair(t, l, refresh) ==
  IF Promotions(t, l, refresh) # {}
  THEN \E i \in Promotions(t, l, refresh) :
         /\ queue' = [queue EXCEPT ![t] = <<i>>]
         /\ status' = [status EXCEPT ![i] = "queued"]
         /\ cmd' = Freeze(t)
         /\ Resume(t, l, <<i>>)
  ELSE \E q \in Repaired(t) :
         /\ queue' = [queue EXCEPT ![t] = q]
         /\ UNCHANGED status
         /\ cmd' = IF q # queue[t] THEN Freeze(t) ELSE cmd
         /\ Resume(t, l, q)

\* thread/list has answered.
NormalizeListed(t, l, refresh) ==
  /\ Quiescent
  /\ lane[t][l].pc = "list"
  /\ activeP' = ClearInvalidP(t)
  /\ turnId' = ClearInvalidTurn(t)
  /\ \E a \in Tracked(t) :
       /\ active' = [active EXCEPT ![t] = a]
       /\ IF a = NoIssue
          THEN Repair(t, l, refresh)
          ELSE /\ SetLane(t, l, IdleLane)
               /\ UNCHANGED <<queue, status, cmd>>
  /\ rerun' = IF lane'[t]["queue"].pc = "idle" THEN [rerun EXCEPT ![t] = FALSE] ELSE rerun
  /\ UNCHANGED <<codex, codexMap, stopped, resumeDue, due, handling, envVars>>

\* ensureReady or thread/list throws.
NormalizeFails(t, l) ==
  /\ Quiescent
  /\ lane[t][l].pc = "list"
  /\ Fault("list")
  /\ SetLane(t, l, IdleLane)
  /\ rerun' = Dropped(t, l)
  /\ UNCHANGED <<status, queue, active, activeP, codex, codexMap, turnId, stopped,
                 resumeDue, due, cmd, handling, inbox, turns, bindings>>

-----------------------------------------------------------------------------
(***************************************************************************)
(* interruptThreadIssue ("interrupt", or "restage" when the card is        *)
(* dragged back to preparation)                                            *)
(***************************************************************************)
WasActive(i) == active[ThreadOf[i]] = i \/ \E p \in Threads : activeP[p] = i

InterruptTarget(op) == IF op = "restage" THEN "staged" ELSE "interrupted"

Interruptible(i, op) ==
  /\ Quiescent
  /\ op \in Commands \cap {"interrupt", "restage"}
  /\ status[i] \in {"queued", "running", "awaiting_input", "failed"}

InterruptIdle(i, op) ==
  LET t == ThreadOf[i]
      q == Without(queue[t], i)
  IN /\ Interruptible(i, op)
     /\ ~WasActive(i)
     /\ queue' = [queue EXCEPT ![t] = q]
     /\ cmd' = IF i \in ToSet(queue[t]) THEN Freeze(t) ELSE cmd
     /\ status' = [status EXCEPT ![i] = InterruptTarget(op)]
     /\ due' = IF q # <<>> THEN [due EXCEPT ![t] = "process"] ELSE due
     /\ UNCHANGED <<active, activeP, codex, codexMap, turnId, stopped, rerun,
                    resumeDue, lane, handling, envVars>>

\* interruptThreadExecutionBestEffort awaits turn/interrupt and
\* thread/realtime/stop, and nothing when no Codex thread is bound.
AwaitStop(t) == IF codex[t] # 0 THEN "stop" ELSE "now"
StopAnswered(h, errors) == \/ Quiescent /\ cmd[h].pc = "stop"
                           \/ cmd[h].pc = "now" /\ ~errors

\* A stop that failed drops the binding.
StopErrors(t, errors) == IF errors THEN Invalidate(t) ELSE KeepBinding

InterruptBegin(h, i, op) ==
  LET t == ThreadOf[i]
  IN /\ Interruptible(i, op)
     /\ WasActive(i)
     /\ cmd[h] = NoCmd
     /\ Suppress(t)
     /\ cmd' = [cmd EXCEPT ![h] =
          [NoCmd EXCEPT !.op = op, !.pc = AwaitStop(t), !.issue = i, !.wasActive = TRUE,
                        !.resume = (active[t] = i),
                        !.wasQueued = (i \in ToSet(queue[t]))]]
     /\ UNCHANGED <<status, queue, active, activeP, codex, codexMap, turnId, rerun,
                    resumeDue, lane, due, handling, envVars>>

InterruptEnd(h, errors) ==
  LET c == cmd[h]
      t == ThreadOf[c.issue]
      q == IF c.frozen THEN c.held ELSE queue[t]
  IN /\ c.op \in {"interrupt", "restage"}
     /\ StopAnswered(h, errors)
     /\ StopErrors(t, errors)
     /\ Clear(t)
     /\ Settle(t)
     /\ queue' = IF c.wasQueued THEN [queue EXCEPT ![t] = Without(q, c.issue)] ELSE queue
     /\ status' = Patched(c.issue, InterruptTarget(c.op))
     /\ cmd' = [IF c.wasQueued THEN Freeze(t) ELSE cmd EXCEPT ![h] = NoCmd]
     /\ IF c.resume THEN ScheduleAll ELSE UNCHANGED due
     /\ UNCHANGED <<stopped, rerun, resumeDue, lane, handling, envVars>>

-----------------------------------------------------------------------------
(***************************************************************************)
(* deleteThreadIssue: stop if active, clean the attachments up, drop the   *)
(* card                                                                    *)
(***************************************************************************)
DeleteBegin(h, i) ==
  LET t == ThreadOf[i]
  IN /\ Quiescent
     /\ "delete" \in Commands
     /\ HasCard(i)
     /\ cmd[h] = NoCmd
     /\ cmd' = [cmd EXCEPT ![h] =
          [NoCmd EXCEPT !.op = "delete", !.issue = i, !.wasActive = WasActive(i),
                        !.pc = IF WasActive(i) THEN AwaitStop(t) ELSE "cleanup"]]
     /\ IF WasActive(i) THEN Suppress(t) ELSE UNCHANGED stopped
     /\ UNCHANGED <<status, queue, active, activeP, codex, codexMap, turnId, rerun,
                    resumeDue, lane, due, handling, envVars>>

DeleteStopped(h, errors) ==
  LET t == ThreadOf[cmd[h].issue]
  IN /\ cmd[h].op = "delete"
     /\ StopAnswered(h, errors)
     /\ StopErrors(t, errors)
     /\ Clear(t)
     /\ Settle(t)
     /\ cmd' = [cmd EXCEPT ![h].pc = "cleanup"]
     /\ UNCHANGED <<status, queue, stopped, rerun, resumeDue, lane, due, handling,
                    envVars>>

DeleteEnd(h) ==
  LET i == cmd[h].issue
      t == ThreadOf[i]
  IN /\ Quiescent
     /\ cmd[h].op = "delete"
     /\ cmd[h].pc = "cleanup"
     /\ status' = [status EXCEPT ![i] = "deleted"]
     /\ queue' = [queue EXCEPT ![t] = Without(@, i)]
     /\ cmd' = [Freeze(t) EXCEPT ![h] = NoCmd]
     /\ IF cmd[h].wasActive THEN ScheduleAll ELSE UNCHANGED due
     /\ UNCHANGED <<active, activeP, codex, codexMap, turnId, stopped, rerun,
                    resumeDue, lane, handling, envVars>>

-----------------------------------------------------------------------------
(***************************************************************************)
(* unlockCurrentThreadExecution ("unlock") and stopThreadExecutionSafely   *)
(* ("stop")                                                                *)
(***************************************************************************)
ReleaseBegin(h, t, op) ==
  /\ Quiescent
  /\ op \in Commands \cap {"unlock", "stop"}
  /\ cmd[h] = NoCmd
  /\ activeP' = ClearInvalidP(t)
  /\ turnId' = ClearInvalidTurn(t)
  /\ \E a \in Tracked(t) :
       /\ active' = [active EXCEPT ![t] = a]
       /\ IF a = NoIssue
          THEN /\ IF op = "unlock" THEN ScheduleAll ELSE UNCHANGED due
               /\ UNCHANGED <<stopped, cmd>>
          ELSE /\ stopped' = [stopped EXCEPT ![t] =
                    [on |-> TRUE, codex |-> codex[t], turn |-> turnId'[t]]]
               /\ cmd' = [cmd EXCEPT ![h] = [NoCmd EXCEPT !.op = op, !.pc = AwaitStop(t),
                                              !.issue = a, !.wasActive = TRUE]]
               /\ UNCHANGED due
  /\ UNCHANGED <<status, queue, codex, codexMap, rerun, resumeDue, lane, handling,
                 envVars>>

\* A failed stop aborts an unlock unless it is a manual refresh, which forces it.
UnlockEnd(h, errors, refresh) ==
  LET c == cmd[h]
      t == ThreadOf[c.issue]
  IN /\ c.op = "unlock"
     /\ StopAnswered(h, errors)
     /\ cmd' = [cmd EXCEPT ![h] = NoCmd]
     /\ IF errors /\ ~refresh
        THEN UNCHANGED <<status, active, activeP, codex, codexMap, turnId, due>>
        ELSE /\ StopErrors(t, errors)
             /\ status' = Patched(c.issue, "failed")
             /\ Clear(t)
             /\ Settle(t)
             /\ ScheduleAll
     /\ UNCHANGED <<queue, stopped, rerun, resumeDue, lane, handling, envVars>>

\* The stop is forced whatever verifyThreadStopState found; the queue is left.
StopEnd(h, unverified) ==
  LET c == cmd[h]
      t == ThreadOf[c.issue]
  IN /\ c.op = "stop"
     /\ StopAnswered(h, unverified)
     /\ StopErrors(t, unverified)
     /\ Clear(t)
     /\ Settle(t)
     /\ status' = Patched(c.issue, "interrupted")
     /\ cmd' = [cmd EXCEPT ![h] = NoCmd]
     /\ UNCHANGED <<queue, stopped, rerun, resumeDue, lane, due, handling, envVars>>

-----------------------------------------------------------------------------
(***************************************************************************)
(* Notifications (handleNotification)                                      *)
(***************************************************************************)
Current(t) == IF activeP[t] # NoIssue THEN activeP[t] ELSE active[t]

\* The turn an event names; thread/status/changed often names none.
TurnOf(e) == IF e.kind \in {"idle", "waiting"} THEN 0 ELSE e.turn

Mismatch(t, e) == stopped[t].turn # 0 /\ TurnOf(e) # 0 /\ stopped[t].turn # TurnOf(e)

\* shouldIgnoreLocallyStoppedExecutionNotification
MatchesStop(t, e) == /\ stopped[t].on
                     /\ stopped[t].codex \in {0, turns[e.turn].codex}
Ignored(t, e) == MatchesStop(t, e) /\ ~Mismatch(t, e)

\* shouldApplyTerminalThreadStatusChanged
StaleStatus(t, e) == /\ e.kind = "idleTagged"
                     /\ turnId[t] # 0
                     /\ turnId[t] # e.turn

RoutedAlways(t, e) == TRUE
Routed(t, e) == codexMap[turns[e.turn].codex] = t

\* The event is taken from the socket and nothing comes of it.
DropEvent(t) ==
  LET e == Head(inbox[t])
  IN /\ Quiescent
     /\ inbox[t] # <<>>
     /\ handling[t] = NoEvent
     /\ ~Routed(t, e) \/ Ignored(t, e) \/ StaleStatus(t, e)
     /\ inbox' = [inbox EXCEPT ![t] = Tail(@)]
     /\ stopped' = IF Routed(t, e) /\ MatchesStop(t, e) /\ Mismatch(t, e)
                   THEN [stopped EXCEPT ![t] = NoStop] ELSE stopped
     /\ UNCHANGED <<status, queue, active, activeP, codex, codexMap, turnId, rerun,
                    resumeDue, contVars, turns, bindings, faults>>

TakeEvent(t) ==
  LET e == Head(inbox[t])
  IN /\ Quiescent
     /\ inbox[t] # <<>>
     /\ handling[t] = NoEvent
     /\ Routed(t, e) /\ ~Ignored(t, e) /\ ~StaleStatus(t, e)
     /\ inbox' = [inbox EXCEPT ![t] = Tail(@)]
     /\ stopped' = IF MatchesStop(t, e) THEN [stopped EXCEPT ![t] = NoStop] ELSE stopped

\* turn/started, and thread/status/changed to waitingForInput
ApplyProgress(t) ==
  LET e == Head(inbox[t])
      i == Current(t)
  IN /\ TakeEvent(t)
     /\ e.kind \in {"started", "waiting"}
     /\ turnId' = IF e.kind = "started" THEN [turnId EXCEPT ![t] = e.turn] ELSE turnId
     /\ status' = IF e.kind = "waiting" THEN Patched(i, "awaiting_input")
                  ELSE IF HasCard(i) /\ status[i] \notin TerminalStatuses
                       THEN [status EXCEPT ![i] = "running"] ELSE status
     /\ UNCHANGED <<queue, active, activeP, codex, codexMap, rerun, resumeDue,
                    contVars, turns, bindings, faults>>

\* turn/completed, and thread/status/changed to idle: the first half.  With no
\* issue to patch nothing is awaited and the second half follows at once.
ApplyTerminal(t, outcome) ==
  LET e == Head(inbox[t])
      i == Current(t)
  IN /\ TakeEvent(t)
     /\ e.kind \in {"completed", "failed", "idle", "idleTagged"}
     /\ e.kind \in {"completed", "failed"} => outcome = e.kind
     /\ turnId' = [turnId EXCEPT ![t] = 0]
     /\ status' = Patched(i, outcome)
     /\ IF e.kind = "failed" /\ HasCard(i) THEN Invalidate(t) ELSE KeepBinding
     /\ IF i = NoIssue
        THEN ScheduleAll /\ UNCHANGED handling
        ELSE handling' = [handling EXCEPT ![t] = e] /\ UNCHANGED due
     /\ UNCHANGED <<queue, active, activeP, rerun, resumeDue, lane, cmd, turns,
                    bindings, faults>>

\* The second half, after thread/read: whatever is active now is released.
SettleTerminal(t) ==
  /\ Quiescent
  /\ handling[t] # NoEvent
  /\ handling' = [handling EXCEPT ![t] = NoEvent]
  /\ active' = [active EXCEPT ![t] = NoIssue]
  /\ activeP' = [ClearedP(t) EXCEPT ![t] = NoIssue]
  /\ ScheduleAll
  /\ UNCHANGED <<status, queue, codex, codexMap, turnId, stopped, rerun, resumeDue,
                 lane, cmd, envVars>>

\* The record of a local stop expires after its time to live.
ExpireStop(t) ==
  /\ Quiescent
  /\ stopped[t].on
  /\ stopped' = [stopped EXCEPT ![t] = NoStop]
  /\ UNCHANGED <<status, queue, active, activeP, codex, codexMap, turnId, rerun,
                 resumeDue, contVars, envVars>>

\* The watchdog of reconcileRunningIssues: a running issue nobody tracks becomes
\* active, and an active issue without a card is released.
WatchRunningIssues(t) ==
  /\ Quiescent
  /\ \E a \in Adoptable(t, active[t]) \ {active[t]} : active' = [active EXCEPT ![t] = a]
  /\ UNCHANGED <<status, queue, activeP, codex, codexMap, turnId, stopped, rerun,
                 resumeDue, contVars, envVars>>

ReconcileOrphan(t) ==
  /\ Quiescent
  /\ active[t] # NoIssue
  /\ ~HasCard(active[t])
  /\ Clear(t)
  /\ UNCHANGED <<status, queue, codex, codexMap, turnId, stopped, rerun, resumeDue,
                 contVars, envVars>>

\* resumeQueuedIssuesAfterAppServerReady
AppServerReady ==
  /\ Quiescent
  /\ resumeDue
  /\ resumeDue' = FALSE
  /\ ScheduleAll
  /\ UNCHANGED <<status, queue, active, activeP, codex, codexMap, turnId, stopped,
                 rerun, lane, cmd, handling, envVars>>

-----------------------------------------------------------------------------
(***************************************************************************)
(* The app-server ends a turn, or asks for input during it                 *)
(***************************************************************************)
EndTurn(k) ==
  /\ Quiescent
  /\ turns[k].live
  /\ turns' = [turns EXCEPT ![k].live = FALSE]
  /\ \E ending \in EndEvents :
       inbox' = [inbox EXCEPT ![turns[k].thread] =
                   @ \o [n \in 1..Len(ending) |-> [kind |-> ending[n], turn |-> k]]]
  /\ UNCHANGED <<bridgeVars, contVars, bindings, faults>>

-----------------------------------------------------------------------------
Init ==
  /\ status = [i \in Issues |-> "unborn"]
  /\ queue = [t \in Threads |-> <<>>]
  /\ active = [t \in Threads |-> NoIssue]
  /\ activeP = [t \in Threads |-> NoIssue]
  /\ codex = [t \in Threads |-> 0]
  /\ codexMap = [b \in Bindings |-> NoThread]
  /\ turnId = [t \in Threads |-> 0]
  /\ stopped = [t \in Threads |-> NoStop]
  /\ rerun = [t \in Threads |-> FALSE]
  /\ resumeDue = FALSE
  /\ lane = [t \in Threads |-> [l \in Lanes |-> IdleLane]]
  /\ due = [t \in Threads |-> "none"]
  /\ cmd = [h \in Handlers |-> NoCmd]
  /\ handling = [t \in Threads |-> NoEvent]
  /\ inbox = [t \in Threads |-> <<>>]
  /\ turns = <<>>
  /\ bindings = 0
  /\ faults = 0

QueueStep(t) ==
  \/ ScheduleQueue(t)
  \/ ProcessIssueQueue(t)
  \/ LoopProcessIssueQueue(t)
  \/ \E i, j \in Issues : StartThreadIssues(t, i, j)
  \/ \E i \in Issues : ReorderThreadIssues(t, i)

LaneStep(t, l) ==
  \/ ProcessIssueQueueOnce(t, l)
  \/ StageDone(t, l)
  \/ EnsureDone(t, l)
  \/ \E recoverable \in BOOLEAN : StartFails(t, l, recoverable)
  \/ StartMissing(t, l)
  \/ TurnResponds(t, l)
  \/ TurnStartFails(t, l)
  \/ TurnThreadNotFound(t, l)
  \/ RebindDone(t, l)
  \/ \E refresh \in BOOLEAN : NormalizeListed(t, l, refresh)
  \/ NormalizeFails(t, l)

CommandBegins(h) ==
  \/ \E i \in Issues, op \in {"interrupt", "restage"} : InterruptBegin(h, i, op)
  \/ \E i \in Issues : DeleteBegin(h, i)
  \/ \E t \in Threads, op \in {"unlock", "stop"} : ReleaseBegin(h, t, op)

CommandAnswered(h) ==
  \/ \E errors \in BOOLEAN : InterruptEnd(h, errors)
  \/ \E errors \in BOOLEAN : DeleteStopped(h, errors)
  \/ DeleteEnd(h)
  \/ \E errors, refresh \in BOOLEAN : UnlockEnd(h, errors, refresh)
  \/ \E unverified \in BOOLEAN : StopEnd(h, unverified)

EventStep(t) ==
  \/ DropEvent(t)
  \/ ApplyProgress(t)
  \/ \E outcome \in TerminalStatuses : ApplyTerminal(t, outcome)
  \/ SettleTerminal(t)
  \/ ExpireStop(t)
  \/ WatchRunningIssues(t)
  \/ ReconcileOrphan(t)

Next ==
  \/ \E i \in Issues : CreateThreadIssue(i)
  \/ \E i \in Issues, op \in {"interrupt", "restage"} : InterruptIdle(i, op)
  \/ \E t \in Threads : QueueStep(t)
  \/ \E t \in Threads, l \in Lanes : LaneStep(t, l)
  \/ \E t \in Threads : NormalizeRootThread(t)
  \/ \E h \in Handlers : CommandBegins(h) \/ CommandAnswered(h)
  \/ \E t \in Threads : EventStep(t)
  \/ AppServerReady
  \/ \E k \in 1..Len(turns) : EndTurn(k)

Spec == Init /\ [][Next]_vars

(***************************************************************************)
(* An answer, a notification or a timer callback that is due is eventually *)
(* run by the event loop, app-server answers every request or the request  *)
(* times out, and every turn ends.  Users need not do anything.            *)
(***************************************************************************)
Fairness ==
  /\ \A t \in Threads :
       /\ WF_vars(ScheduleQueue(t) \/ ProcessIssueQueue(t) \/ LoopProcessIssueQueue(t))
       /\ \A l \in Lanes : WF_vars(LaneStep(t, l))
       /\ WF_vars(EventStep(t))
  /\ \A h \in Handlers : WF_vars(CommandAnswered(h))
  /\ WF_vars(AppServerReady)
  /\ \A k \in 1..MaxTurns : WF_vars(k <= Len(turns) /\ EndTurn(k))

FairSpec == Spec /\ Fairness

-----------------------------------------------------------------------------
(***************************************************************************)
(* Properties                                                              *)
(***************************************************************************)
Own(t) == {i \in Issues : ThreadOf[i] = t}
OwnOrNone(t) == Own(t) \cup {NoIssue}

StopRecords == [on : BOOLEAN, codex : Nat, turn : Nat]
LaneRecords(t) == [pc : LanePcs, issue : OwnOrNone(t), mode : LaneModes,
                   found : BOOLEAN, retried : BOOLEAN, bind : Nat]
CmdRecords == [op : {"none", "interrupt", "restage", "delete", "unlock", "stop"},
               pc : {"none", "now", "stop", "cleanup"}, issue : IssueOrNone,
               wasActive : BOOLEAN, resume : BOOLEAN, wasQueued : BOOLEAN,
               frozen : BOOLEAN, held : Seq(Issues)]
EventRecords == [kind : EventKinds \cup {"none"}, turn : Nat]
TurnRecords == [codex : Nat, thread : Threads, issue : IssueOrNone, live : BOOLEAN]

StatusOK == status \in [Issues -> Statuses]

QueueOK == /\ queue \in [Threads -> Seq(Issues)]
           /\ \A t \in Threads : queue[t] \in Seq(Own(t))

ActiveOK == /\ active \in [Threads -> IssueOrNone]
            /\ activeP \in [Threads -> IssueOrNone]
            /\ \A t \in Threads : active[t] \in OwnOrNone(t) /\ activeP[t] \in OwnOrNone(t)

LaneOK == /\ DOMAIN lane = Threads
          /\ \A t \in Threads : lane[t] \in [Lanes -> LaneRecords(t)]

CmdOK == /\ cmd \in [Handlers -> CmdRecords]
         /\ \A h \in Handlers :
              cmd[h].op # "none" => /\ cmd[h].issue \in Issues
                                    /\ cmd[h].held \in Seq(Own(ThreadOf[cmd[h].issue]))

BindingOK == /\ codex \in [Threads -> Nat]
             /\ codexMap \in [Bindings -> Threads \cup {NoThread}]
             /\ turnId \in [Threads -> Nat]
             /\ stopped \in [Threads -> StopRecords]
             /\ bindings \in Nat

FlagOK == /\ rerun \in [Threads -> BOOLEAN]
          /\ resumeDue \in BOOLEAN
          /\ due \in [Threads -> {"none", "schedule", "process"}]
          /\ faults \in Nat

EventOK == /\ handling \in [Threads -> EventRecords]
           /\ inbox \in [Threads -> Seq(EventRecords)]
           /\ turns \in Seq(TurnRecords)

\* Types, and the isolation of threads: the queue, the locks and the pipelines of
\* a thread name issues of that thread only, and so does a captured queue.
TypeOK == /\ StatusOK /\ QueueOK /\ ActiveOK /\ LaneOK
          /\ CmdOK /\ BindingOK /\ FlagOK /\ EventOK

\* A thread executes one issue at a time: this is what the processing lock, the
\* active issue and the adoption of untracked running issues are for.
SequentialExecution == \A t \in Threads : \A i, j \in RunningIn(t) : i = j

\* The lock of the physical thread never names another issue than the lock of
\* the root thread, however starts, stops and late notifications interleave.
TrackingAgrees == \A t \in Threads : activeP[t] \in {NoIssue, active[t]}

\* The start queue holds no issue twice and none that was deleted.
QueueSound ==
  \A t \in Threads :
    /\ \A m, n \in 1..Len(queue[t]) : queue[t][m] = queue[t][n] => m = n
    /\ \A i \in ToSet(queue[t]) : HasCard(i)

\* An issue shown as queued is not lost: it waits in the start queue or a
\* pipeline has taken it out to start it.
QueuedIsTracked ==
  \A i \in Issues :
    status[i] = "queued" =>
      \/ i \in ToSet(queue[ThreadOf[i]])
      \/ \E l \in Lanes : /\ lane[ThreadOf[i]][l].issue = i
                          /\ lane[ThreadOf[i]][l].pc \in {"stage", "ensure"}

\* Nothing is awaited, and nothing is scheduled.
Idle == /\ Quiescent
        /\ ~resumeDue
        /\ \A t \in Threads : /\ handling[t] = NoEvent
                              /\ \A l \in Lanes : lane[t][l].pc = "idle"
        /\ \A h \in Handlers : cmd[h] = NoCmd

Waiting(t) == queue[t] # <<>> /\ RunningIn(t) = {}

\* No lost wake-up: when the bridge comes to rest, a queue that holds issues is
\* behind a running one, whose end will drain it.
NoStall == Idle => \A t \in Threads : ~Waiting(t)

(***************************************************************************)
(* The inductive form of SequentialExecution when users do not normalise:  *)
(* the issues that occupy a thread (running, or named by one of its locks) *)
(* are at most one; there is none while the pipeline prepares a start, and *)
(* no other than the starting issue while its turn is requested.           *)
(***************************************************************************)
Occupants(t) == RunningIn(t) \cup ({active[t], activeP[t]} \ {NoIssue})

SoleOccupant == \A t \in Threads : \A i, j \in Occupants(t) : i = j

NoNormalizer == \A t \in Threads : lane[t]["normalize"].pc = "idle"

StartExclusive ==
  \A t \in Threads :
    /\ lane[t]["queue"].pc \in {"stage", "ensure"} => Occupants(t) = {}
    /\ lane[t]["queue"].pc \in {"turn", "rebind"} =>
         Occupants(t) \subseteq {lane[t]["queue"].issue}

\* A thread is occupied by one issue at a time, and by none while the next one is
\* being prepared.
LockInv == SoleOccupant /\ TrackingAgrees /\ NoNormalizer /\ StartExclusive

\* The queue of a thread with the issue being prepared in front of it.
Line(t) == (IF lane[t]["queue"].pc \in {"stage", "ensure"}
            THEN <<lane[t]["queue"].issue>> ELSE <<>>) \o queue[t]

\* Issues of a thread start in the order they were queued: a start that fails
\* puts its issue back in front of those that wait.
Fifo ==
  [][\A t \in Threads : \A i, j \in Own(t) :
       Precedes(Line(t), i, j) /\ {i, j} \subseteq ToSet(Line(t)')
         => Precedes(Line(t)', i, j)]_vars

\* Only an issue that waits to be started starts to run: none is run twice.
StartsQueued ==
  [][\A i \in Issues : status[i] \notin LiveStatuses /\ status'[i] \in LiveStatuses
       => status[i] = "queued"]_vars

\* A notification ends an issue only if it belongs to a turn of that issue.
EndedByOwnTurn ==
  [][\A t \in Threads : \A i \in Own(t) :
       /\ Len(inbox'[t]) < Len(inbox[t])
       /\ status[i] \in LiveStatuses
       /\ status'[i] \in TerminalStatuses
       => turns[Head(inbox[t]).turn].issue = i]_vars

\* What a notification can do to an issue it is not about.  turn/completed names a turn
\* nobody compares and an idle status names none, so after an interrupt, a forced stop
\* or a time-out, or behind an earlier end of the same turn, one is applied to whatever
\* issue the locks name by then.  Yet no notification, however late and however many
\* there are of one turn, touches an issue that waits to be started, and none is taken
\* from an issue that still runs to change another one.
StrayNotifications ==
  [][\A t \in Threads : \A i \in Own(t) :
       Len(inbox'[t]) < Len(inbox[t]) /\ status'[i] # status[i] =>
         LET j == turns[Head(inbox[t]).turn].issue
         IN /\ status[i] \notin {"unborn", "staged", "queued"}
            /\ j = i \/ status[j] \notin LiveStatuses]_vars

\* App-server never runs two turns on one Codex thread.
OneLiveTurn ==
  \A m, n \in 1..Len(turns) :
    turns[m].live /\ turns[n].live /\ turns[m].codex = turns[n].codex => m = n

\* Every queued issue is executed to its end.
QueuedEventuallyEnds ==
  \A i \in Issues : status[i] = "queued" ~> status[i] \in TerminalStatuses
=============================================================================
