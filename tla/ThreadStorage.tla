--------------------------- MODULE ThreadStorage ---------------------------
(***************************************************************************)
(* The thread storage of the bridge (services/codex-adapter/src/index.js): *)
(* every change of the issue cards, the queue and the locks is persisted   *)
(* into threadStorageCache; a debounced flush writes the cache to a file   *)
(* through a temporary file and a rename; the bridge exits, is killed and  *)
(* starts again from the file.  One user with one thread.                  *)
(***************************************************************************)
EXTENDS Naturals, Sequences, FiniteSets, SequencesExt

CONSTANTS Issues, NoIssue,
          MaxPersists,   \* bounds for TLC: persisted states that are not lost,
          MaxRestarts,   \* ends of the process,
          MaxFailures    \* writes that fail

ASSUME NoIssueAssumption == NoIssue \notin Issues
ASSUME BoundAssumption == /\ MaxPersists \in Nat
                          /\ MaxRestarts \in Nat
                          /\ MaxFailures \in Nat

VARIABLES
  status, queue, active, activeP,   \* as in IssueQueue, for one thread
  starting,    \* the issue the pipeline has taken out of the queue
  cache,       \* threadStorageCache; its queue is the array in the map itself
  dirty,       \* threadStorageDirty
  timer,       \* threadStorageFlushTimer is set
  flush,       \* where the write behind threadStorageFlushPromise stands
  temp,        \* what was written to the temporary file
  disk,        \* the file, and how many persisted states it includes
  log,         \* history: the states persisted so far
  up,          \* the process runs
  restarts, failures

memory == <<status, queue, active, activeP, starting>>
writer == <<cache, dirty, timer, flush, temp>>
vars == <<memory, writer, disk, log, up, restarts, failures>>

-----------------------------------------------------------------------------
Statuses == {"unborn", "staged", "queued", "running", "ended"}
IssueOrNone == Issues \cup {NoIssue}
States == [status : [Issues -> Statuses], queue : Seq(Issues),
           active : IssueOrNone, activeP : IssueOrNone]
Copies == [state : States, upTo : Nat]

Empty == [status |-> [i \in Issues |-> "unborn"], queue |-> <<>>,
          active |-> NoIssue, activeP |-> NoIssue]
EmptyCopy == [state |-> Empty, upTo |-> 1]

Init ==
  /\ status = Empty.status /\ queue = <<>> /\ active = NoIssue /\ activeP = NoIssue
  /\ starting = NoIssue
  /\ cache = Empty
  /\ dirty = FALSE /\ timer = FALSE
  /\ flush = "none"
  /\ temp = EmptyCopy
  /\ disk = EmptyCopy
  /\ log = <<Empty>>
  /\ up = TRUE
  /\ restarts = 0 /\ failures = 0

-----------------------------------------------------------------------------
(***************************************************************************)
(* persistThreadsForUser and scheduleThreadStorageFlush                    *)
(***************************************************************************)
\* A running flush starts another one when it ends.
ScheduleFlush == /\ dirty' = TRUE
                 /\ timer' = (timer \/ flush = "none")

Persist ==
  LET now == [status |-> status', queue |-> queue', active |-> active', activeP |-> activeP']
  IN /\ Len(log) < MaxPersists
     /\ cache' = now
     /\ log' = Append(log, now)
     /\ ScheduleFlush
     /\ UNCHANGED <<flush, temp, disk, up, restarts, failures>>

CreateThreadIssue(i) ==
  /\ up
  /\ status[i] = "unborn"
  /\ status' = [status EXCEPT ![i] = "staged"]
  /\ UNCHANGED <<queue, active, activeP, starting>>
  /\ Persist

StartThreadIssues(i) ==
  /\ up
  /\ status[i] = "staged"
  /\ status' = [status EXCEPT ![i] = "queued"]
  /\ queue' = Append(queue, i)
  /\ UNCHANGED <<active, activeP, starting>>
  /\ Persist

ReorderThreadIssues(k) ==
  /\ up
  /\ k \in DOMAIN queue /\ k # 1
  /\ queue' = <<queue[k]>> \o RemoveAt(queue, k)
  /\ UNCHANGED <<status, active, activeP, starting>>
  /\ Persist

\* The head leaves the queue; its card says "queued" until its turn begins.
\* refreshIssueQueuePositions persists the shorter queue.
ShiftOnly ==
  /\ queue' = Tail(queue)
  /\ starting' = Head(queue)
  /\ UNCHANGED <<status, active, activeP, writer, disk, log, up, restarts, failures>>
ShiftAndPersist ==
  /\ queue' = Tail(queue)
  /\ starting' = Head(queue)
  /\ UNCHANGED <<status, active, activeP>>
  /\ Persist

ProcessIssueQueueOnce ==
  /\ up
  /\ active = NoIssue /\ starting = NoIssue /\ queue # <<>>
  /\ ShiftAndPersist

BeginTurn ==
  /\ up
  /\ starting # NoIssue
  /\ status' = [status EXCEPT ![starting] = "running"]
  /\ active' = starting /\ activeP' = starting
  /\ starting' = NoIssue
  /\ UNCHANGED queue
  /\ Persist

StartFails ==
  /\ up
  /\ starting # NoIssue
  /\ queue' = <<starting>> \o queue
  /\ starting' = NoIssue
  /\ UNCHANGED <<status, active, activeP>>
  /\ Persist

\* A terminal notification ends the issue; its tail, later, releases the locks.
ApplyTerminal ==
  /\ up
  /\ active # NoIssue
  /\ status[active] = "running"
  /\ status' = [status EXCEPT ![active] = "ended"]
  /\ UNCHANGED <<queue, active, activeP, starting>>
  /\ Persist

SettleTerminal ==
  /\ up
  /\ active # NoIssue
  /\ status[active] = "ended"
  /\ active' = NoIssue /\ activeP' = NoIssue
  /\ UNCHANGED <<status, queue, starting>>
  /\ Persist

-----------------------------------------------------------------------------
(***************************************************************************)
(* flushThreadStorage and writeJsonFileAtomicAsync                         *)
(***************************************************************************)
FlushTimer ==
  /\ up /\ timer
  /\ timer' = FALSE
  /\ dirty' = FALSE
  /\ flush' = "waiting"
  /\ UNCHANGED <<memory, cache, temp, disk, log, up, restarts, failures>>

\* The cache holds the queue's own array, not a copy of it.
Serialized == [state |-> [cache EXCEPT !.queue = queue], upTo |-> Len(log)]

\* After setImmediate and mkdir the cache is serialised, whatever was persisted
\* meanwhile included.
Serialize ==
  /\ up /\ flush = "waiting"
  /\ flush' = "writing"
  /\ temp' = Serialized
  /\ UNCHANGED <<memory, cache, dirty, timer, disk, log, up, restarts, failures>>

\* The finally block.
NoFurtherFlush == flush' = "none" /\ UNCHANGED timer
FlushAgain == flush' = "none" /\ timer' = dirty

FlushWrittenThenClean ==
  /\ up /\ flush = "writing"
  /\ disk' = temp
  /\ flush' = "none" /\ timer' = FALSE /\ dirty' = FALSE
  /\ UNCHANGED <<memory, cache, temp, log, up, restarts, failures>>
FlushWritten ==
  /\ up /\ flush = "writing"
  /\ disk' = temp
  /\ FlushAgain
  /\ UNCHANGED <<memory, cache, dirty, temp, log, up, restarts, failures>>

FlushFails ==
  /\ up /\ flush # "none"
  /\ failures < MaxFailures
  /\ failures' = failures + 1
  /\ FlushAgain
  /\ UNCHANGED <<memory, cache, dirty, temp, disk, log, up, restarts>>

-----------------------------------------------------------------------------
(***************************************************************************)
(* The end of the process and the next start                               *)
(***************************************************************************)
Down ==
  /\ up' = FALSE
  /\ restarts' = restarts + 1
  /\ dirty' = FALSE /\ timer' = FALSE /\ flush' = "none"
  /\ UNCHANGED <<memory, cache, temp, log>>

\* flushThreadStorageSyncOnExit: also when a flush is under way.
UnsavedIfDirty == dirty
Unsaved == dirty \/ flush # "none"

Exit ==
  /\ up /\ restarts < MaxRestarts
  /\ IF Unsaved
     THEN \/ /\ disk' = Serialized
             /\ UNCHANGED failures
          \/ /\ failures < MaxFailures
             /\ failures' = failures + 1
             /\ UNCHANGED disk
     ELSE UNCHANGED <<disk, failures>>
  /\ Down

Crash ==
  /\ up /\ restarts < MaxRestarts
  /\ UNCHANGED <<disk, failures>>
  /\ Down

\* restoreThreadCentricState: the lock of the root thread is restored, or given
\* to a running issue, when that issue runs; the physical thread's always.
RestoredNoQueue(s) == <<>>
Born(s) == {i \in Issues : s.status[i] # "unborn"}
RestoredQueue(s) == IF ToSet(s.queue) \subseteq Born(s) THEN s.queue
                    ELSE SelectSeq(s.queue, LAMBDA i : i \in Born(s))
Running(s) == {i \in Issues : s.status[i] = "running"}
RestoredNoActive(s) == {NoIssue}
RestoredActive(s) == IF s.active \in Running(s) THEN {s.active}
                     ELSE IF Running(s) = {} THEN {NoIssue} ELSE Running(s)

Start ==
  /\ ~up
  /\ up' = TRUE
  /\ status' = disk.state.status
  /\ queue' = RestoredQueue(disk.state)
  /\ active' \in RestoredActive(disk.state)
  /\ activeP' = disk.state.activeP
  /\ starting' = NoIssue
  /\ cache' = disk.state
  /\ log' = SubSeq(log, 1, disk.upTo)
  /\ UNCHANGED <<dirty, timer, flush, temp, disk, restarts, failures>>

-----------------------------------------------------------------------------
Next ==
  \/ \E i \in Issues : \/ CreateThreadIssue(i)
                       \/ StartThreadIssues(i)
  \/ \E k \in DOMAIN queue : ReorderThreadIssues(k)
  \/ ProcessIssueQueueOnce
  \/ BeginTurn
  \/ StartFails
  \/ ApplyTerminal
  \/ SettleTerminal
  \/ FlushTimer
  \/ Serialize
  \/ FlushWritten
  \/ FlushFails
  \/ Exit
  \/ Crash
  \/ Start

Spec == Init /\ [][Next]_vars

\* Node serves timers and finishes file operations; somebody starts the bridge.
FairSpec == /\ Spec
            /\ WF_vars(FlushTimer)
            /\ WF_vars(Serialize)
            /\ WF_vars(FlushWritten)
            /\ WF_vars(Start)

-----------------------------------------------------------------------------
(***************************************************************************)
(* Properties                                                              *)
(***************************************************************************)
TypeOK ==
  /\ status \in [Issues -> Statuses]
  /\ queue \in Seq(Issues)
  /\ active \in IssueOrNone /\ activeP \in IssueOrNone /\ starting \in IssueOrNone
  /\ cache \in States
  /\ dirty \in BOOLEAN /\ timer \in BOOLEAN /\ up \in BOOLEAN
  /\ flush \in {"none", "waiting", "writing"}
  /\ temp \in Copies /\ disk \in Copies
  /\ log \in Seq(States)
  /\ restarts \in Nat /\ failures \in Nat

\* The file implements the promise of DurableState: it always holds one of the
\* persisted states, whole, and successive writes, exits and failures never
\* replace it by an earlier one (writeJsonFileAtomicAsync, flushThreadStorage).
Durable == INSTANCE DurableState WITH saved <- disk.upTo, file <- disk.state
ImplementsDurable == Durable!Spec

\* While the process runs, a change that no flush has read has a flush coming:
\* a change during a write is not forgotten by the finally block.
FlushComing == up /\ dirty => timer \/ flush # "none"

\* The process never loses more than the issue it was starting: an issue that
\* the card calls queued is in the queue or being started, except at most one
\* for each time the process has ended.
OneStrandedPerRestart ==
  Cardinality({i \in Issues : status[i] = "queued" /\ i \notin ToSet(queue)
                               /\ i # starting}) <= restarts

\* After any restart the lock of the physical thread is the root thread's, or is
\* left over from an issue that has ended; it never names a waiting issue.
LeftoverLockEnded ==
  up /\ activeP # active => activeP = NoIssue \/ status[activeP] = "ended"

\* Once the changes stop, which MaxPersists makes them do, the file catches up
\* with the last one, unless a write fails or the process ends first (the debounced
\* flush of scheduleThreadStorageFlush, and the one that follows it).
EventuallySaved ==
  disk.upTo < Len(log) ~> disk.upTo = Len(log) \/ failures > 0 \/ ~up

\* A process that exits on a signal leaves its last persisted state in the file,
\* as long as no write has failed (flushThreadStorageSyncOnExit).
ExitSaves == [][Exit /\ failures' = 0 => disk'.upTo = Len(log)]_vars
=============================================================================
