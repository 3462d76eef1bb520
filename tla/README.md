# OctOP: TLA+ models, checks and proofs

OctOP lets a user queue work ("issues") for the Codex app-server on the own machine, from a
dashboard or a phone. This directory models the part of it that decides what runs when: the
*bridge*, `services/codex-adapter/src/index.js`, and the launcher that keeps the bridge and app-server
running, and what clients read back of it. Line numbers below are lines of `index.js` unless another file is named.

## 1. The system

```
dashboard / mobile  --HTTP-->  API gateway  --NATS-->  bridge  --WebSocket JSON-RPC-->  codex app-server
        ^                                                 |
        +------ projection (RethinkDB) <-- worker <-------+ events over NATS
```

| part | state it keeps | operations | what makes it correct | module |
|---|---|---|---|---|
| **issue queue and start pipeline** (5393–6195, 10154–10202) | issue cards, `pendingStartQueues`, `activeIssueByThreadId`, `activeIssueByPhysicalThreadId`, the processing lock | create, start, reorder, schedule, process, start a turn, recover | one issue of a thread runs at a time; queued issues start in order, once, and eventually; none is lost | `IssueQueue` |
| **user commands** (6253–6733, 12833–12969, 13148–13277) | what a command captured before its awaits | interrupt, drag back to preparation, delete, unlock, stop, normalise | a command takes effect and leaves queue and locks consistent, whatever runs meanwhile | `IssueQueue` |
| **notifications** (8847–9250) | tracked turn id, local-stop record, Codex thread bindings | turn/started, turn/completed, thread/status/changed, ... | an event changes the issue whose turn it belongs to, and no other | `IssueQueue`, `RunningIssueBackfill`, `ContextRollover` |
| **running-issue watchdog and backfill** (10970–11260, 11800–12619, 12971–13326) | running-issue metadata, timers | adopt, reconcile, backfill from snapshots, force a reconnect | a running issue without news is found and settled, never a finished one revived | `RunningIssueBackfill` |
| **app-server connection**, `AppServerClient` (8532–9732) | socket, pending requests, readiness, reconnect timer | ensureReady, open, request, timeout, close, reconnect | every request is answered or rejected once; after a loss a reconnect is always scheduled | `AppServerClient` |
| **context rollover** (7610–7849) | physical threads, rollover lock, cooldown, tombstones | roll over at the token limit, continue on the new thread | one active physical thread; late events of a closed one are dropped; no turn lost | `ContextRollover` |
| **root thread deletion** (5241–5365) | tombstones | stop and remove in a cascade | nothing of a deleted thread comes back | `ContextRollover` |
| **thread storage** (880–1312) | cache, dirty flag, flush timer, the file | persist, flush, restore at start-up | what a restart restores is a consistent earlier state | `ThreadStorage`, `DurableState` |
| **launcher** (`scripts/run-local-agent.mjs`, `local-agent-health.mjs`, `app-server-runtime-state.mjs`) | the two processes, restart timers and reasons, health checks | spawn, restart, full restart, health check, shut down | one app-server and one bridge; what has ended is started again; a shut-down ends | `Launcher` |
| **assistant text** (`assistantDelta.js`, `assistantMessageNormalization.js`), **domain tables** (`domain.js`) | none | pure functions | deltas joined without loss or duplication | in `RunningIssueBackfill`, over chunks |
| **attachments** (2000–2100) | files | stage, clean up | I/O; here an awaited step that may fail | in `IssueQueue`, `ContextRollover` |
| **issue move** (6735–6916), **todo chats** (4293–4670), **projects, voice, rate limits** | lists and maps | single-step bookkeeping | ordering and ownership | – |
| **projection worker** (`ProjectionWorkerService.cs`), **API gateway** (`apps/api/Program.cs`) | tables in RethinkDB; sessions | rewrite a thread's board from each snapshot; merge the bridge's answer with the board; forward requests | a read is never older than it must be, and exact in the end | `ThreadReadModel` (issues) |
| **clients, menu agents** | UI | display, install | – | – |

The parts interact by calls within the bridge (a command schedules the queue, the queue starts a
turn through the connection, a notification releases the lock and schedules the queue again), by
messages (NATS requests in, events out; JSON-RPC requests and notifications on the socket) and
through the shared maps above. The launcher sees the bridge only as a process that exits and as
answers to its health checks. What makes it hard is that every handler awaits answers in its
middle: between two awaits of one handler any other handler may run and change the maps it has
read. `PROJECT.json` lists under "hazards" where that bites.

## 2. Modules

| module | models |
|---|---|
| `IssueQueue.tla` | queue, start pipeline, user commands, notifications, watchdog adoption |
| `AppServerClient.tla` | the connection to app-server: process, dialling, handshake, pending requests and their time-outs, heartbeat, reconnection |
| `ThreadStorage.tla` | what the bridge persists, the debounced flush, failing writes, exit, crash and the next start |
| `DurableState.tla` | the abstract promise of the storage; `ThreadStorage` implements it (`INSTANCE DurableState WITH saved <- disk.upTo, file <- disk.state`) |
| `ContextRollover.tla` | physical threads: rollover before a start and during a turn, starts, late notifications, interrupts, deletion of the root thread |
| `RunningIssueBackfill.tla` | turns and their text: live notifications, lost sockets, snapshots by three kinds of readers, the end of an issue |
| `Launcher.tla` | supervision of app-server and bridge |
| `ThreadReadModel.tla` | how clients read a thread's issues: snapshots published by the bridge, the worker's board, the gateway's merge |
| `MC*.tla`, `*.cfg` | instances for TLC and the runs |
| `IssueQueue_proofs`, `IssueQueueOrder_proofs`, `AppServerClient_proofs`, `ThreadStorage_proofs`, `ContextRollover_proofs`, `RunningIssueBackfill_proofs`, `Launcher_proofs`, `ThreadReadModel_proofs` | theorems for every value of the constants |

Each module also holds the mutated operators (`WithoutHead`, `KeptActive`, `NeverStale`,
`RestoredNoQueue`, ...) that stand for plausible mistakes in the code and show that each property can
fail.

The components are separate state machines that overlap where they touch, each with an abstract view
of the others. `IssueQueue` sees the connection only as starts refused with a reconnect error and as
`AppServerReady`; `AppServerClient` sees the issue queue only as a caller of `request()` that calls
`scheduleReconnect` when it is refused. `IssueQueue` has one physical thread per root thread, whose
succession is `ContextRollover`; `RunningIssueBackfill` adds what turns say and leaves open which issue
starts next; `ThreadStorage` keeps of the queue only what is persisted and when; `ThreadReadModel` has the
issue that runs, the succession of physical threads and a version of each card, whatever the card says. No module is shown to
implement another's view of it; the one refinement is that of the storage.

### How IssueQueue corresponds to the code

*Atomicity.* The bridge is one JavaScript thread. A handler runs without interruption up to an
`await` of something that really has to arrive: an answer of app-server, a downloaded attachment, a
file. One action is one such segment. `publishEvent` writes to the NATS connection without waiting
for anyone, so its awaits are not cuts. A segment often ends by calling
`scheduleQueuedIssuesForUser` or `processIssueQueue`; these calls wait in `due` and are run, with
the synchronous start of the pipeline, before any other segment (`Quiescent`).

*State.* Each map of the bridge is a variable: `status` (the status of the card, "unborn" and
"deleted" when there is none), `queue`, `active`, `activeP`, `codex` and `codexMap` (the Codex
thread a physical thread is bound to and the map that routes notifications back), `turnId`,
`stopped` (the record of a local stop that makes late notifications be ignored), `rerun` (the flag
of the processing lock). The continuations are variables too: `lane[t]["queue"]` is the pipeline that
holds thread t's lock, `lane[t]["normalize"]` a call of `normalizeRootThread` by the user, `cmd[h]`
a command that awaits app-server and what it captured before, `handling[t]` a terminal notification
whose tail is awaited. The environment is `inbox` (notifications in socket order: they share the
ordering key of their thread, 8303–8357), `turns` and `bindings`.

*The pipeline* (`lane.pc`): `once` takes the head of the queue unless an issue is active or a
running one can be adopted (5911–5932); `stage` awaits attachments and `ensure` the Codex thread
(5643–5683, 5481–5564); the execution is then projected (`BeginTurn`, 5684–5725) and `turn` awaits
turn/start (5729–5808); `rebind` is the one retry after "thread not found" (5809–5819); `loop` is
the rerun loop under the lock (6012–6035). A start that throws puts the issue back in front and
either waits for the reconnect or calls `normalizeRootThread` once (`list`, mode `nested`;
5933–5997).

*Captured queues.* `interruptThreadIssue` filters the array it read before its await (6430, 6480).
As long as nobody replaces the array in the map, it is the live queue; `Freeze` records the moment
somebody does, and from then on the command writes back its old copy.

*Abstractions.* Timestamps that choose among several running issues, or order recovered issues,
become nondeterministic choices. Progress, messages, positions shown to clients, deltas, token
usage and the JSON of requests are left out. The local-stop record expires at any time after it was
made (60 s in the code, 216). One physical thread per root thread. A nested
`normalizeRootThread` inside the pipeline is the continuation of the same lane.

*External code*: the app-server. It accepts a turn or refuses it, in any order with a time-out
of the request (`TurnStartFails` covers both), sends `turn/started` behind the answer on the same
socket, and ends a live turn with one of the event sequences in `EndEvents`: turn/completed alone, with
an idle status behind it, an idle status with or without the turn id, a request for input first.
It is taken to end every turn and to run whatever it accepts; how it works inside is not modelled.

### How AppServerClient corresponds to the code

*Atomicity.* Socket events, timers and the process's exit are callbacks; each is one action. The
promise reactions that follow run before the next callback, in an order the class does not fix, so
the two that change its state are actions of their own: the failure of the start in progress
(`StartRejected`, 8577-8585: `catch`, which calls `scheduleReconnect`, before `finally`, which
clears `readyPromise`) and what a rejected caller does (`CallRejected`, `TimerRejected`). `Drained`
keeps callbacks out until they have run. Successful answers have no such freedom and are one action
with what follows: `InitializeAnswered` sends account/read, `AccountRead` resolves `readyPromise`
and lets the waiting callers send. `publishBridgeStatusUpdates` (8629) awaits only functions that
do not wait for anything, so nothing comes between.

*State.* `socket`, `connected`, `initialized`, `missed` (`requestTimeoutWithoutMessageCount`),
`beats`, `probe`, `timer` are the fields; `signedIn` is `account` as `assertUsable` sees it. `phase`
is where the `start()` behind `readyPromise` stands, with `waiters` the callers that await it.
`pending` is the `requests` map: for each requester the socket its request was sent on.
`heart` is the socket the heartbeat interval closes over. `net` is `readyState` of each WebSocket
object and `greeted` the sockets on which app-server has answered initialize; the code does not
keep either. `awaiting` are the callers whose promise is not settled.

*Abstractions.* Time: a time-out may fire whenever what it waits for is missing, and `seen` keeps
what the two clock comparisons of the time-out handler (9293-9296) tell apart: nothing, socket
activity, a message since the request. What arrives in the millisecond of the request counts as
after it, as in the code. The guard that postpones a reconnect while the activity beacon is fresh
and the idle test of the heartbeat are nondeterministic. Delays of the reconnect timer are left out, and
so are `checkLastKnownState` (it runs the recovery of other components, whose requests are calls
like any other), status events and diagnostics.

*External code*: the `ws` package (a WebSocket is connecting, open, closing, closed; frames
already received may still be emitted while it closes; it reports its close) and app-server's
answers.

### How ThreadStorage corresponds to the code

*Atomicity.* Everything the bridge changes between two awaits is in memory at once, and
`persistThreadsForUser` is called at the end of such a segment: an action changes the cards, the queue
or the locks and persists them (`Persist`). The flush has the cuts of `flushThreadStorage` (920): the
timer (`FlushTimer`, which clears the dirty flag first), the serialisation behind `setImmediate` and
`mkdir` (`Serialize`), the rename (`FlushWritten`) or an error (`FlushFails`). `FlushAgain` is the `finally`
block. `Exit` is `flushThreadStorageSyncOnExit`, `Crash` loses the memory, `Start` is
`restoreThreadCentricState`.

*State.* `cache`, `dirty`, `timer` and `flush` are `threadStorageCache`, `threadStorageDirty`,
`threadStorageFlushTimer` and where the write behind `threadStorageFlushPromise` stands; `temp` is the
temporary file, `disk` the file. The queue in the cache is the array of the map itself, not a copy
(`Serialized`). `log` is a history variable: the states persisted so far. `upTo` in `temp` and `disk` is a
ghost too, the position in `log` of what they hold.

*Abstractions.* One thread of one user; a failed turn/start and its retry are `StartFails`; everything
else that shares the flush (projects, messages, todo chats) is left out, since the file is written
whole. Lost states leave the log at the restart, which keeps it bounded by `MaxPersists`.

### How ContextRollover corresponds to the code

*Atomicity.* As in `IssueQueue`. `lane["pipeline"]` is a start from the queue, with a preflight rollover
in front of it where `validateRolloverPreconditions` allows one; `lane["handler"]` is the notification
being served, which may be rolling over itself or awaiting the final thread/read. `create`,
`interrupt`, `stage`, `ensure`, `turn`, `sync` are the requests they await. What a segment captured before
(`cap`, `src`, `turn`) is kept in the lane, and `deleting.cap` is what the deletion read at its
beginning and writes back at its end.

*State.* `root`, `phys`, `route`, `status`, `queue`, `active`, `activeP`, `lock`, `cooldown`, `tomb` and
`stopped` are the maps named in the module. A physical thread is its position in `phys`, which is its
identity; `seq` is the number the code gives it.

*Abstractions.* Token usage is one of three levels (below 85 %, from 85 %, from 100 %); tombstones
and the cool-down expire at any time after they are set. The handoff summary is text. The rollover
inside `normalizeRootThread` and `thread/rollback`, which changes nothing in the bridge, are left out.

### How RunningIssueBackfill corresponds to the code

*Atomicity.* Notifications of a thread are served one after the other (`enqueueOrderedBridgeEvent`,
8303–8357): `inbox` is their order, `handler` the one being served. Turn/started and turn/completed read
the thread in their middle (`handler.pc = "reading"`), and what arrives meanwhile waits behind. A
reader outside this order (`reader[r]`: a requested backfill, the reconciliation, the samples of
turn/diff and the like) awaits thread/read and then queues the snapshot behind what came before it.

*State.* `turns` is the truth in app-server, with the length of the text of each turn; the text of
turn t is `<<t, 1>>, <<t, 2>>, ...`, so that what a message shows can be compared with it.
`msgs`, `turnId`, `active`, `requested`, `degraded` and `noProgress` are the maps of the bridge.
`codex` and `bound` are the Codex thread binding: an unrouted notification is dropped, and a failed start
drops the binding. `start` is the turn/start request under way.

*Abstractions.* `mergeAssistantDeltaContent` trims the longest overlap of the delta with the end of
the text; of chunks that are all different, only an equal last chunk overlaps. Items other than
assistant messages, `awaiting_input` and a thread that is missing from thread/list are left out; so
is `tryRebindOwnerlessCodexThread` (8101), which needs a notification for a Codex thread nobody has
heard of.

### How Launcher corresponds to the code

*Atomicity.* Every callback of `run-local-agent.mjs` is one action: the two restart timers, the full
restart timer, the two exits, a signal (`StopAll`), the health interval (`Check`) and the answer or
time-out of a health check (`CheckEnds`). `LoopEmpties` is Node itself: all timers of the launcher are
`unref()`'d, so the process ends when neither a child nor a request is left.

*State.* `proc` says what the reference to each process points to: none, running, sent a signal
(`killed`), or never created. `reason`, `timer`, `fullReason`, `fullTimer`, `monitor`, `checking`, `misses`,
`attempts`, `shutting` are the variables of the script; `age` is the time since
`appServerStartedAt` as its two comparisons see it. `strays` is a ghost: processes whose reference was
overwritten while they ran.

*Abstractions.* Delays are left out (a timer fires at any time after it is set). Ports, environments, activity
files, the runtime status file and log lines are left out. An answer of the bridge is what
`evaluateBridgeAppServerRecovery` makes of it (`Verdicts`): whether it is recoverable and whether it asks for a
restart, in the three combinations the function returns.
*External*: the operating system may refuse to create a process (an `error` event and no `exit`).

### How ThreadReadModel corresponds to the code

*Atomicity.* A change of cards and the snapshot published of it are one action: `publishEvent` waits for
nothing outside the process and takes the snapshot when it publishes. The worker serves one event at a
time; each deleted and each written row is an action, and so is the failure of a write, which ends the
event. The gateway asks the bridge (`Ask`) and reads the board at any later moment; `ReadNotStale` looks
at every board there is until the reply. RethinkDB's cursor is taken to return the rows of one moment.

*State.* `cards` holds for each issue its physical thread (`executed_physical_thread_id`, else
`created_physical_thread_id`) and the time of its last change. `recent` is
`recentlyClosedPhysicalThreadIdsByRootThreadId`, `board` the rows of `logical_thread_issue_board` with their
`projected_at`. `clock` counts changes and stands for the time stamps, so that two of them are never
equal: a snapshot published in the millisecond in which a physical thread is closed is left out.
`missed` is a ghost: the event published last was lost, or failed.

*Abstractions.* Only the issues of one root thread; rootThread.deleted and thread.deleted are one event.
`ContextRollover` has the awaits of a rollover, of which only the synchronous switch (7749–7785) matters
here. A restarted bridge has the cards it had (`ThreadStorage` says what it may have lost). The order of
the merged list is left out. *External*: NATS delivers in order what it delivers.

## 3. Runs

Every run takes seconds to three minutes. `CHECK_DEADLOCK FALSE` is set in all runs but those of the
connection: an idle bridge with nothing to do is a legitimate end, and so is a launcher that has
ended.

| run | instance | states | checks |
|---|---|---|---|
| `serial` | 2 issues; interrupt, unlock; all ways a turn ends; reconnects and refused turns | 658 000 | `SequentialExecution`, `QueuedIsTracked`, `LockInv`, `NoStall`, `StrayNotifications` |
| `restage` | 2 issues; two commands at a time: drag back, delete, reorder, stop; refused turns | 411 000 | `TrackingAgrees` |
| `normalize` | 2 issues; user normalisation and delete, nested recovery; failing thread/list or preparation | 981 000 | `QueueSound`, `QueuedIsTracked` |
| `serve` | 2 threads, 3 issues, fairness; a reconnect, a failed preparation, a lost Codex thread or a refused turn; no commands | 150 000 | `OneLiveTurn`, `Fifo`, `StartsQueued`, `EndedByOwnTurn`, `QueuedEventuallyEnds` |
| `normalize_race` | user normalisation | | `SequentialExecution` violated |
| `client_requests` | 2 sockets, one after the other; 2 callers, one of them best-effort; callers give up or call `scheduleReconnect`; fairness | 49 000 | `OwnConnection`, `HandshakeFirst`, `KeptReconnecting`, `CallsEnd` |
| `client_overlap` | the same with overlapping sockets and callers that ask again at once | 363 000 | `NoLostCall`, `HeartbeatFollowsSocket` |
| `storage` | 2 issues, 7 persisted states, 2 ends of the process, 1 failed write; fairness | 504 000 | `ImplementsDurable`, `FlushComing`, `OneStrandedPerRestart`, `LeftoverLockEnded`, `EventuallySaved`, `ExitSaves` |
| `rollover` | 2 issues, 2 usage reports, one failure or interrupt, deletion at any time; fairness | 650 000 | `LockHeld`, `OneTail`, `NotStranded`, `EndsContinued`, `NoSuccessorAfterDeletion`, `QueuedEnds` |
| `backfill` | 1 issue, 3 readers, a turn of 2 chunks, one lost socket or time-out; fairness | 740 000 | `WholeText`, `NotRewound`, `StaysEnded` |
| `launcher` | the limits of the code (12 restarts, 3 missed checks), processes that cannot be created; fairness | 20 000 | `NoneAstray`, `RestartComing`, `Respawned`, `ShutdownEnds` |
| `read_model` | 2 issues, 5 changes, 2 physical threads, 2 events in transit, one lost event, failed write or worker restart; fairness | 1 670 000 | `ReadNotStale`, `EventuallyExact` |

*Why the bounds suffice.* For the queue: `MaxTurns`, `MaxBindings`, `MaxFaults` limit what app-server
accepts and how many failures occur; beyond them the actions are disabled. The races need at most
three parties: the pipeline of a thread, one command or late notification, and the next issue in the
queue. Two issues give the issue at hand and its successor; the order properties need a third. Two
threads are needed only for what crosses threads: scheduling visits all threads of the user, and
`clearRunningIssueTracking` looks through all physical threads. One command at a time is enough to
race the pipeline and late notifications. Two at once (`restage`) overwrite each other's queue: a
captured queue can bring a deleted card back, which the pipeline then finds missing when it starts
it. `restage` accepts no turn: every issue there is prepared, begun and refused, which is what its two
commands race. Two turns let a late event of the first meet the second. One fault per behaviour, of
any of the run's kinds and at any start, is what the code's single recovery is made for.
Issues cannot be swapped by symmetry in these instances, since `ThreadOf` and the liveness run tell
them apart, so none is declared.

For the connection: `Overlap = FALSE` lets a socket open only when the older ones have reported their
close, and two identities are then enough for any number of sockets, since one that has closed
is reused and at most one lives beside the one being dialled. With `Overlap = TRUE` two sockets show
one old and one new connection. `start()` is a requester by itself, so two callers give three entries
in the request map: two that meet in one start and one beside them. `Misses = 2` is the default of
both thresholds; the counters saturate there because only the comparison is used.

For the storage: an issue is persisted six times from its creation to the release of its locks, seven
states with the empty one; two issues share them in any mixture, a flush falls between any two, and the
states lost by a restart do not count. Two restarts let a restored state be lost again. For the rollover:
two reports fill the context twice, so a successor can be replaced in its turn, and a report can
arrive while another rollover is under way; a second issue waits in the queue meanwhile. For the backfill: one
issue, because with two the properties about its end fail (see below); two chunks make a snapshot
older or newer than what is shown, and the theorems have any number; `NoProgressForceReconnect` is 2 instead of the default 3, which only
shortens the way to the forced reconnect. For the read model: five changes are enough to
create two issues, roll over, and change or delete one on either side of it; a second event waits
while the first is written. A second closed thread would meet the same conditions, and the theorem
has any number. For the launcher the limits are those of the code;
`MaxProbes = 3` allows checks that overlap because the flag is reset by a restart.

*Fairness.* All of it is needed only for liveness, and none is stated for users, for faults or for
app-server's reports.

- `serve`: weak fairness of due calls and answered awaits of each pipeline (the event loop runs a ready
  continuation; app-server answers each request or the request times out), taking notifications off
  the socket, resuming after a reconnect, the end of each accepted turn.
- `client_requests`: weak fairness of the pause and the deadline in `connectSocket`, of due reactions,
  of the reconnect timer and of close events: Node serves expired timers and ready promises, and `ws`
  destroys a closing socket after 30 s by itself. Strong fairness of each request's time-out, since
  the reactions of others switch it off for a moment (`Drained`) and Node's timer does not forget it.
  `HandshakeFairness`, that a dialled socket opens or fails, is what the code relies on and does not
  ensure (see below).
- `storage`: Node serves the flush timer and finishes file operations; somebody starts the bridge again.
- `rollover`: due work runs, every request is answered or times out, app-server ends every turn.
- `backfill`: the same, and the watchdog's intervals and the reconnect timer come round.
- `launcher`: timers that are set fire, a health check is answered or times out (1.5 s), a process
  that was told to stop exits. The last one is an assumption about the children: the launcher
  sends SIGTERM (or what it was sent) and never escalates.

- `read_model`: the worker goes on with the event it has and with those that wait (`Serve`); nothing makes the
  bridge publish again, and a lost event is never repeated.

### What does not hold

The run `normalize_race` shows a disagreement between the code and its own documents; `PROJECT.json` quotes
both sides. Normalising a thread whose lock is taken runs a second iteration of the pipeline beside the
lock (13237), and the thread shows two running issues.

The other limits below have no run of their own. They are why a passing run has the instance it has.

*Queue.*
- turn/completed carries a turn id nobody compares (9094), and an idle status often names no turn. After an
  interrupt, an unlock or a forced stop the completion of the turn that was stopped ends the next issue. So does the
  second of two terminal notifications of one turn, turn/completed with an idle status behind it, when
  the next issue has begun in between; and an issue ended in this way lets the next one begin while its
  own turn runs on, whose end then meets the wrong issue in its turn. `EndedByOwnTurn` therefore is
  checked without commands and with one terminal notification per turn (`serve`); it fails as soon as one of the
  two is given up. What a notification still cannot do is `StrayNotifications`, checked with all of them (`serial`)
  and proved.
- An interrupt while turn/start is awaited is undone by the answer (5757); with interrupts
  `QueuedEventuallyEnds` then fails in `IssueQueue` alone, since the revived issue's events are ignored as
  those of a local stop and only the backfill settles it.
- While a running issue is being deleted the watchdog can make it active again during the
  attachment clean-up (6342); the queue behind it is then not resumed, so `NoStall` is checked without
  delete.
- With drag-back and two handlers `QueueSound` and `QueuedIsTracked` fail after a run in which a captured
  queue overwrites a later one. Two failed preparations in a row leave a queue without a trigger: the
  recovery inside the pipeline is tried once (5982), and the second throw leaves the loop together with the rerun
  it owes. `NoStall` is proved for everything but that (`OneThrow`). `SequentialExecution` and `TrackingAgrees` fail with
  user normalisation because of item 1.

*Connection.*
- The reconnect that a failing `ensureReady` schedules (8580) is dropped, because `catch` runs before
  `finally` and `readyPromise` is still set (9687). `FailureReschedules` in `AppServerClient` states the
  contrary. `KeptReconnecting` therefore only speaks of what the bridge has undertaken, and of callers that
  do not ask again in their own reaction before the timer's `catch` has run.
- With overlapping sockets `HandshakeFirst` fails: while the old socket is closing `initialized` is
  still true, a new socket opens and becomes the current one (8765), and a request passes
  `ensureReady` before initialize is answered. `OwnConnection` fails, because the late close of the old
  socket empties the whole request map, the new socket's requests with it (9630); nobody is left
  waiting, but they fail for nothing.
- `CallsEnd` fails without `HandshakeFairness`: `openWebSocket` has no time-out, so a peer that accepts TCP
  and says nothing keeps `connectSocket` from ever looking at the startup time-out (8726), and everyone
  who joined the start waits.

*Storage.*
- A failed flush has cleared the dirty flag and schedules nothing: without a further change the state is not written, not
  even by a graceful exit. `EventuallySaved` and `ExitSaves` exclude failed writes.
- A crash between the shift of an issue out of the queue and the begin of its turn leaves a card that
  says queued and is in no queue, until the thread is normalised; one per end of the process
  (`OneStrandedPerRestart`).
- The lock of the physical thread is restored even when it is left over from an ended issue.

*Rollover and deletion.*
- `performContextRollover` marks the card running (7781) before the attachments are staged. When that
  throws, the issue says running and has neither turn nor place in the queue. `PreparationRestores`
  states the contrary and fails with the constants of the run; `NotStranded` and `QueuedEnds` exclude
  failed preparations.
- A failed rollover leaves a successor that is not the active one; the next successor gets the same
  sequence number (2466), against invariant 4 of `docs/root-thread-rollover-implementation-checklist.md` (§7).
  `OneTail` is therefore stated for threads bound to a Codex thread.
- Deletion looks at the rollover lock; interrupts do not. A start that was under way when the root thread
  was deleted writes its physical thread back as it had read it. `NoSuccessorAfterDeletion` only says that
  nothing new is created.
- A failed rollover is tried again at every usage report: the next recovery signal turns "degraded"
  back (8227), and only success sets the cool-down.
- Deletion is made durable only by the debounced flush.
- `OneTail` fails when an interrupt and a failed request come together: three issues,
  `Commands = {"interrupt"}`, `Faults = {"turn"}`, `MaxTroubles = 2`, `MaxReports = 1`. The interrupt lets the next issue
  start while a rollover of the running one is under way; that start waits for a Codex thread on the source
  while the rollover closes it and switches, and then writes its copy of the source back (5534-5546): open again,
  and active, beside a successor that is open and bound. The run has `MaxTroubles = 1`. Until the first
  interrupt any number of failures keeps it, as a theorem.

*Backfill.*
- A snapshot whose expected turn is unknown is taken for the last turn of the Codex thread (11144).
  `startTurnOnPhysicalThread` has just cleared `turn_id`; a snapshot applied before the new turn is known
  takes the previous issue's turn, whose completed status ends the new issue. `EndedByOwnTurn` states the
  contrary and fails with two issues, `Readers = {"sample"}`, `Outcomes = {"completed"}`, `MaxTurns = 2`,
  `MaxChunks = 1`, `MaxTroubles = 0`.
- The read made while turn/started or turn/completed is served overtakes the deltas that wait behind
  it (10970): they are appended once more, and a later snapshot is shorter than the text and ignored as
  stale (11676-11683). When a chunk after them is then lost with the socket, the final read is dismissed too
  and the chunk stays missing: one issue, no readers, `MaxChunks = 3`, `MaxTroubles = 1`. `WholeText` therefore
  speaks of messages that have not outgrown the text of their turn, and neither it nor `NotRewound` says that
  nothing is there twice.
- With two issues `WholeText` fails as well. An empty snapshot that was read before the turn was accepted ends an
  issue whose start is under way; the next issue begins, `turn_id` is that of the earlier turn, and the final
  read of the later one selects the wrong turn (11144). It holds whenever `turn_id` names the turn whose
  end is served.
- Messages of a turn whose start was given up may land in the next issue; a chunk equal to the last
  one is trimmed as overlap; "degraded" may stay until the next turn begins.

*Launcher.*
- After too many restarts both processes are stopped and everything is to start again a minute later
  (`docs/app-server-bridge-communication-current-state.md:239-240`), but the timer is `unref()`'d
  (`run-local-agent.mjs:200`) and nothing else is left to wait for, so the launcher ends instead: in
  `Launcher.tla` `over` becomes `"idle"` while `fullTimer` is set, and `Respawned` allows it.
- A process that could not be created emits `error` and no `exit`. For the bridge three missed health checks then
  set `pendingControlledBridgeRestartReason` (327), `kill()` reaches nothing, the reason stays and
  `monitorBridgeHealth` returns at once (484) for ever: the bridge is started again by a full restart only.
  `Wedged` is this state, the one exception of `RestartComing`; `NothingWedged` proves that it needs a process
  that could not be created. An app-server that could not be created is not started again either: nothing
  restarts app-server but its exit.
- When both processes have ended at once (the last app-server exit coincides with a controlled restart of the
  bridge) the launcher ends silently before its timers: `Respawned` allows it.
- A restarted bridge gets no start-up grace of its own; the grace is counted from app-server's start.
- App-server is never restarted on a health verdict. Rule 4 of
  `docs/app-server-bridge-communication-current-state.md` §5-2 asks for a controlled restart on repeated recoverable
  failures, and §7-4 says the code makes it; but the recoverable verdict says `shouldRestart: false`
  (`local-agent-health.mjs:314-323`), and the only verdict that says `true`, a fatal runtime error (262-272), is not
  recoverable, so `monitorBridgeHealth` gives up before it looks (548-551). `requestControlledAppServerRestart`
  (559) is never called: `AppNeverAsked`. The tests check the verdicts, not what becomes of them.

*Read model.*
- The list of recently closed threads is in memory only (2640): after a restart of the bridge, and after 60
  seconds in any case, the board is preferred for a closed thread although it may not have caught up,
  against the checklist's local read window (line 308). `ReadNotStale` only speaks of threads the answer lists.
- An issue deleted while the board is behind is shown again from its old row if that row's physical thread
  is closed; only the next snapshot that is served removes it. If the event that deletes a root thread is lost,
  its rows stay.
- Both time stamps have milliseconds; a snapshot published in the millisecond of the closing, before it,
  passes `projected_at >= closed_at` (3045).

## 4. Proofs

`IssueQueue_proofs.tla` proves, for all values of the constants that satisfy the named assumptions
of `IssueQueue` (a thread for every issue, finitely many issues, NoIssue not an issue, NoThread not a thread,
natural bounds, known notification kinds):

- `TypeCorrect`: `Spec => []TypeOK`. `TypeOK` is inductive as it stands: besides types it says that
  whatever names an issue for thread t names an issue of t. Captured queues are part of it, since a
  command writes them back later. One lemma per action; helper lemmas say what `Without`, `Restored`,
  `Repaired`, `Freeze` and `ClearedP` return.
- `OneOccupant`: `Spec => []LockInv`, provided users do not normalise threads.
- `Sequential`: hence `Spec => []SequentialExecution`.
- `LocksAgree`: hence `Spec => []TrackingAgrees`.

`SequentialExecution` is not inductive: a running issue may be untracked (released by the tail of
another issue's notification) and only adoption protects it. `LockInv` counts the *occupants* of a
thread, the issues that run or that a lock names: at most one; none while the pipeline is in `stage`
or `ensure`; only the starting issue in `turn` or `rebind`; the physical lock free or equal to the
root lock. Nearly every step is *calm* (`CalmLock`): it makes nobody occupy a thread who did not,
and advances no start. Three are not: taking an issue out of the queue, where adoption has just
shown the thread unoccupied; beginning its turn; and the answer of turn/start, which may revive an
issue that was stopped in the meantime and is safe for this property because the thread is then free
or that issue's. The hypothesis on "normalize" is exactly what run `normalize_race` refutes without.

`IssueQueueOrder_proofs.tla` builds on `LockInv` and proves four groups, each from an invariant of its own. The
hypotheses name what users may do (`Commands`) and what app-server and the faults do.

- *The queue*, unless a user drags back or normalises. `QueueExact`: the queue of a thread holds exactly the
  issues that are queued in it and that the pipeline has not taken out, each once (`LineInv`). Hence
  `NoneLost` (`QueuedIsTracked`) and `QueueOfCards` (`QueueSound`); and `OrderOfStarts` (`Fifo`), unless a user
  also reorders. `LineInv` is not inductive by itself: what a command writes back must be the queue without an
  issue that was not in it. `PastInv` says which issues are past being queued, those that a lock, a requested turn
  or a waiting command names, and that no waiting command has captured a queued one.
- *Stray notifications*, under the same condition and with any notifications at the end of a turn.
  `StraysBounded` (`StrayNotifications`): a notification changes only the issue a lock names, which has begun
  (`PastInv`); if that is not the issue of its own turn, that one does not run, because a thread is occupied by
  one issue at a time (`LockInv`). `OwnTurns` says that the events of a socket are about turns of its own thread.
- *The turns*, when users at most reorder and app-server ends a turn with one terminal notification
  (`OneTerminal`). `TurnsExact`: a turn is engaged while it runs or is still being reported; a Codex thread has
  at most one, its issue is the one both locks name, and meanwhile no start is prepared and no tail of
  a notification is awaited (`TurnInv`). Hence `SingleTurns` (`OneLiveTurn`) and `RunsFromQueue` (`StartsQueued`).
  The lemma `OwnEndings` has `EndedByOwnTurn` under these conditions, without which it is false (section 3).
- *Wake-ups*, when users interrupt, unlock or reorder, and no second start throws while the pipeline repairs the
  queue after a first one (`OneThrow`). `NoLostWakeUp` (`NoStall`): `StallInv` says of every queue that is not
  empty who will look at it next: an issue that runs, a terminal notification being settled, the reconnect, a
  call that is due, the pipeline on its way, or the pipeline's own rerun; and of every active issue that has
  ended, that somebody is releasing it.

`AppServerClient_proofs.tla` proves, for any sets of sockets and callers:

- `ClientTypeCorrect`: `Spec => []TypeOK`, from lemmas about the shared steps (`TransmitFacts`,
  `RejectFacts`, `ResetFacts`, `ForceFacts`).
- `HeartbeatKept`: `Spec => []HeartbeatFollowsSocket`, overlapping sockets included; inductive with the
  types.
- `NobodyForgotten`: `Spec => []NoLostCall`. Besides its own conjuncts (`Settled`, `StartHeld`) the
  induction needs that one socket at most is being dialled (`OneDial`), or the failure of one attempt
  would leave a start without one, and that the socket in use has opened (`SocketOpened`), or a forced
  reconnect could end a dialling one.
- `OneConnection` and `HandshakeKept`: if sockets do not overlap, `OwnConnection` and `HandshakeFirst`
  hold always. The invariant `Alone` ties `initialized` and the account/read step to a socket that has
  been greeted; a socket opens only when no other is left, so by `SocketOpened` nothing of an older
  connection survives that moment. With `Overlap = TRUE` TLC refutes both.
- `ReconnectionKept`: if sockets do not overlap and no caller asks again in its reaction, `Spec =>
  KeptReconnecting`. The invariant `Reattempt` says that the timer's rejection arrives when no start
  is under way, and that during a handshake the link is down only because the socket is closing;
  the two steps that end an undertaking (`UndertakingEnds`) are then the ones that find or make the
  bridge ready.

`ThreadStorage_proofs.tla` proves, for any issues, numbers of persisted states, restarts and failures:

- `StorageTypeCorrect`, `FlushIsComing` and `LeftoverIsEnded` (`TypeOK`, `FlushComing`, `LeftoverLockEnded`).
- `StrandsOnePerRestart`: `Spec => []OneStrandedPerRestart`.
- `ExitKeepsState`: `Spec => ExitSaves`.
- `StorageIsDurable`: `Spec => ImplementsDurable`, the refinement: the initial state maps to an initial
  state of `DurableState`, and each action to `Persist`, `Save`, `Recover` or a stutter.

`IInv` has five parts. `Sound` describes a state that may be restored (its queue names cards, only the
active issue runs, a physical lock that differs from the root lock is an ended issue's); `MemoryOK` says it
of the memory, `LogOK` of every state in the history, so that a restart needs no argument of its own.
`FileOK` ties the file and the copy being written to positions in the history, the second not before the
first: this is what makes `disk.upTo` never fall. `SavingOK` says that without a failed write a clean
cache is in the file or on its way into it, which `ExitSaves` needs. `StrandedInv` bounds the queued cards
outside the queue by the restarts so far: in the memory, where the issue being started does not count, and in every
persisted state, where it does and one more is allowed while the process is up. Whichever of them a restart
takes, it strands one more at most.

`ContextRollover_proofs.tla` proves, for any issues, faults, commands and bounds:

- `RolloverTypeCorrect`: `Spec => []TypeOK`: an active physical thread exists always, and no route,
  tombstone or start under way names one that does not.
- `LockKept`: `Spec => []LockHeld`: one holder, and no failure leaves the lock behind.
- `NoSuccessor`: `Spec => NoSuccessorAfterDeletion`.
- `TailUntilInterrupted`: `Spec => [](stops = 0 => OneTail)`, and `OneTailKept`: `Spec => []OneTail` when users
  do not interrupt.
- `EndsItsOwn`: `Spec => EndsContinued`, and `NotStrandedKept`: `Spec => []NotStranded`, without hypotheses: the two
  properties themselves speak of behaviours until the first interrupt, and `NotStranded` of those without a failed
  preparation.

The invariant of the first three is `Typed /\ Erasure /\ Holder`. The parts of `Typed` are operators of values and of sizes
(`PhysOK(phys, nr, nt)`, ...), and physical threads, routes and turns only grow, so lemmas such as
`RefersGrows` carry what an action leaves alone over to the larger sizes. `Holder` is the lock; `Erasure`
says that until the deletion removes them no physical thread is deleted and no copy captured before an
await is. `NoSuccessor` then follows: once the deletion has begun, `CanRollOver` is false.

The others need to know who is at work. `CalmInv` speaks of the time before the first interrupt and the deletion:
one lane at most is at work (`Solo`), and what it captured is still so: its source is the tail, its successor is
open and not yet the tail, its issue is the active one (`Place`, `Claim`); at most the last turn given is still
heard on the tail, that of the active issue (`Talk`, `Turning`); routes to an open physical thread lead to what is
bound there (`Bindings`). `LastWord` says that the end of a turn is the last app-server says of it, and that it
is said: the turn of an issue that was continued has fallen silent, and that of one that runs will speak.
`CalmKept` states the two. `SureInv` adds that every running issue is served by a lane or a turn (`Driving`)
and that a start that gives its issue back finds it still queued and not in the queue (`Lining`).

`RunningIssueBackfill_proofs.tla` proves, for any issues, readers, chunks, lost sockets and limits:

- `StatesKept` and `TypeCorrect`: `Spec => []IInv` and, for finitely many issues, `Spec => []TypeOK`. What is on its
  way names turns that exist; the handler that serves the end of a turn follows one that ended. That there are
  never more Codex threads than issues (`CodexInv`) bounds the bindings: a new one is made only for an issue that
  was not begun.
- `NeverRewound`: `Spec => NotRewound`, from the types and what the merge of a snapshot does (`SnapshotGrows`): it
  replaces a text by one that is not shorter, and adds messages behind those there are.
- `WholeOfItsTurn`: `Spec => [](handler.turn = handler.of => WholeText)`: if `turn_id` names the turn whose end is
  served and the final read was answered, its text is shown before the tracking is given up, or outgrown.
  The answer of that read merges the snapshot of an ended turn, whose text no longer grows (`FinalRead`), and
  nothing takes any of it away until the tail runs (`EndingKept`).
- `WholeOfOneIssue`: `Spec => []WholeText` for one issue, the instance of the run. One issue is started
  once, so there is one turn (`OneTurn`) that `turn_id` or the snapshot's last turn can be.

`Launcher_proofs.tla` proves, for any limits:

- `LauncherTypeCorrect`, `OneProcessEach` (`NoneAstray`) and `NoRestartForgotten` (`RestartComing`).
- `NothingWedged`: where processes can be created the exception in `RestartComing` does not occur either; no
  process is then ever in the state `failed`, whoever restarts it (`StaysCreated`).
- `AppNeverAsked`: no health check asks for a restart of app-server.

`NoneAstray` is not inductive: that a timer finds no running process in its place needs `Timers` (a
restart timer is set only when its process is gone and no full restart is coming, the full restart's only
when neither process runs) and `Stopping` (what a shut-down and a full restart have told to stop).
`RestartComing` needs the same two, and that app-server is never asked to restart (`Unasked`): for the bridge a
reason without anyone to make the restart is the exception, for app-server it would be an error. One lemma per action, with one step per part.

`ThreadReadModel_proofs.tla` proves, for any number of issues, rollovers, changes, events and losses:

- `ReadModelTypeCorrect`: `Spec => []TypeOK`.
- `NeverStale`: `Spec => []ReadNotStale`.

Every copy of the cards (an event, what the worker has left to write, a row) carries the time it was
taken. `Copy` says of each that it is not behind the bridge, nor behind the reader's answer, as far as the
change was made before that time; a change is later than all copies there are, so `CopyKept` keeps it.
`OneEvent`: all rows of the board are of one event, so that one row projected after a closing vouches for
the others, which is what the gateway takes for granted when it looks at the latest row of a physical
thread.

Every safety invariant and every action property of the runs but `EndedByOwnTurn` is thus stated by a theorem;
that one is a lemma under the conditions of its run. Only model-checked are `QueueSound` and `QueuedIsTracked` for users that normalise (run `normalize`, where two
pipelines of one thread may each have taken issues out), and all liveness (`QueuedEventuallyEnds`, `CallsEnd`,
`EventuallySaved`, `QueuedEnds`, `StaysEnded`, `Respawned`, `ShutdownEnds`, `EventuallyExact`), since fairness and
ENABLED are out of the prover's reach.

## 5. Plan

Done: the modules above with their proofs. Left, in this order:

1. `QueueSound` and `QueuedIsTracked` as theorems for users that normalise: `LineInv` over two pipelines of a
   thread, without `LockInv`.
2. `SerialExecutor.tla`, the abstract promise of the queue (enqueue, start the head, end, remove),
   and `IssueQueue` shown to implement it by a refinement mapping for the command sets where it does.
   Likewise `Exchange.tla`, the promise of `request()` (asked, then settled once), implemented by
   `AppServerClient`, and a composition of the two components over the reconnect.
3. Issue move as an extension of `IssueQueue` over two threads; todo chats.
4. Pure parts: `assistantDelta.js` joins against a reference definition; the domain tables.
5. The rest of the projection: the tables of threads and physical threads, whose terminal status is
   kept against later events, and the timeline.

## 6. Not modelled

The dashboard and the mobile application (`apps/dashboard`, `apps/mobile`) are user interface; their
commands are the environment of `IssueQueue`. The menu agents are installers and process menus, and the
bootstrap directory of the macOS agent holds two copies of the bridge: modelling them again would say
nothing new. Together these are more than two thirds of the repository's code, so the share of it that
the models stand for is small; of the bridge itself it is about a third. The rest of the bridge is for the
larger part formatting, file reading, projections for clients and single-step requests (projects,
todo chats, voice sessions, rate limits). Of the API gateway and the projection worker only the issues
of a thread are modelled; the rest forwards requests, or upserts rows by the same pattern. Files and downloads of attachments
are pure I/O and appear only as steps that may fail.
