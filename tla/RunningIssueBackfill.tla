------------------------ MODULE RunningIssueBackfill ------------------------
(***************************************************************************)
(* How the bridge follows the turns of one root thread                     *)
(* (services/codex-adapter/src/index.js).  Live notifications of           *)
(* app-server are handled one after the other (enqueueOrderedBridgeEvent); *)
(* what a lost socket swallowed is recovered by thread/read: requested     *)
(* backfills, the watchdog's reconciliation and samples read a snapshot of *)
(* the thread and queue it behind the notifications that came before it,   *)
(* and the handler of a turn's start and end reads one while it is being   *)
(* served, ahead of the notifications that wait behind it.                 *)
(*                                                                         *)
(* The text of a turn is the sequence of its chunks <<turn, n>>.  Which    *)
(* issue is started next is the business of IssueQueue.                    *)
(***************************************************************************)
EXTENDS Naturals, Sequences, FiniteSets, SequencesExt

CONSTANTS Issues, NoIssue,
          Readers,      \* who backfills: "requested", "reconcile", "sample"
          Outcomes,     \* how a turn ends: "completed", "failed"
          NoProgressForceReconnect,
          MaxTurns, MaxChunks,   \* bounds for TLC: turns, chunks of a turn,
          MaxTroubles            \* lost sockets and request time-outs

ASSUME NoIssueAssumption == NoIssue \notin Issues
ASSUME ReaderAssumption == Readers \subseteq {"requested", "reconcile", "sample"}
ASSUME OutcomeAssumption == Outcomes \subseteq {"completed", "failed"}
ASSUME BoundAssumption == /\ NoProgressForceReconnect \in Nat \ {0}
                          /\ MaxTurns \in Nat /\ MaxChunks \in Nat /\ MaxTroubles \in Nat

VARIABLES
  turns,      \* app-server: [issue, codex (their Codex thread), status, text]
  codex,      \* the Codex thread last bound to the physical thread
  bound,      \* it still is
  connected,  \* the socket is open and initialized
  inbox,      \* sent by app-server or queued for the thread, oldest first
  handler,    \* the ordered event being served
  start,      \* the turn/start request under way
  status,     \* issue cards
  active,     \* activeIssueByThreadId
  turnId,     \* turn_id of the physical thread, or of the root thread
  msgs,       \* issueMessagesById: assistant messages [item, text]
  requested,  \* backfillRequestedAt is set
  degraded,   \* continuity_status
  noProgress, \* noProgressBackfillCount
  reader,     \* who waits for a snapshot, or for its turn in the queue
  troubles

link == <<connected, inbox, troubles>>
tracking == <<active, requested, degraded, noProgress>>
binding == <<codex, bound>>
vars == <<turns, binding, link, handler, start, status, tracking, turnId, msgs, reader>>

-----------------------------------------------------------------------------
NoTurn == 0
Statuses == {"queued", "running", "completed", "failed"}
Terminal == {"completed", "failed"}
NoStart == [issue |-> NoIssue, turn |-> NoTurn, pc |-> "none"]
NotReading == [pc |-> "idle", codex |-> 0]
Resting == [pc |-> "idle", kind |-> "none", issue |-> NoIssue,
            turn |-> NoTurn, of |-> NoTurn]

Init ==
  /\ turns = <<>> /\ codex = 1 /\ bound = TRUE
  /\ connected = TRUE /\ inbox = <<>> /\ troubles = 0
  /\ handler = Resting /\ start = NoStart
  /\ status = [i \in Issues |-> "queued"]
  /\ active = NoIssue /\ turnId = NoTurn
  /\ msgs = [i \in Issues |-> <<>>]
  /\ requested = FALSE /\ degraded = FALSE /\ noProgress = 0
  /\ reader = [r \in Readers |-> NotReading]

Chunks(t, n) == [k \in 1..n |-> <<t, k>>]
Unended == {i \in Issues : status[i] = "running"}

\* clearRunningIssueTracking.
Untracked == /\ active' = NoIssue
             /\ requested' = FALSE /\ noProgress' = 0

-----------------------------------------------------------------------------
(***************************************************************************)
(* Messages of an issue: live deltas and snapshots                         *)
(***************************************************************************)
ItemIndex(ms, t) == {m \in DOMAIN ms : ms[m].item = t}

\* mergeAssistantDeltaContent: a delta the text already ends with is trimmed.
Merged(text, c) == IF text # <<>> /\ Last(text) = c THEN text ELSE Append(text, c)

\* appendAssistantDeltaToIssue: to the message of the item, or to the latest.
WithDelta(ms, c) ==
  IF ms = <<>> THEN <<[item |-> c[1], text |-> <<c>>]>>
  ELSE LET own == ItemIndex(ms, c[1])
           m == IF own = {} THEN Len(ms) ELSE CHOOSE k \in own : TRUE
       IN [ms EXCEPT ![m].text = Merged(@, c)]

\* syncRemoteTurnAssistantMessagesToIssue: text is turn t's in the snapshot.
NeverStale(old, text) == FALSE
Stale(old, text) == old # <<>> /\ (IsPrefix(text, old) \/ Len(old) > Len(text))
NewMessagesOnly(ms, t, text) ==
  IF text = <<>> \/ ItemIndex(ms, t) # {} THEN ms
  ELSE Append(ms, [item |-> t, text |-> text])
WithSnapshot(ms, t, text) ==
  IF text = <<>> THEN ms
  ELSE LET own == ItemIndex(ms, t)
       IN IF own = {} THEN Append(ms, [item |-> t, text |-> text])
          ELSE LET m == CHOOSE k \in own : TRUE
               IN IF Stale(ms[m].text, text) THEN ms ELSE [ms EXCEPT ![m].text = text]

\* selectRemoteTurnForBackfill, of a snapshot with turns.
Selected(snap, expected) == IF expected \in DOMAIN snap THEN expected ELSE Max(DOMAIN snap)
Synced(ms, snap, expected) ==
  IF DOMAIN snap = {} THEN ms
  ELSE LET t == Selected(snap, expected) IN WithSnapshot(ms, t, Chunks(t, snap[t].text))

\* What thread/read answers: of a running turn, some of the text so far.
TurnsOn(c) == {t \in DOMAIN turns : turns[t].codex = c}
Snapshots(c) ==
  {[t \in TurnsOn(c) |-> IF turns[t].status = "running" /\ turns[t].text > m
                         THEN [turns[t] EXCEPT !.text = m] ELSE turns[t]] :
     m \in 0..MaxChunks}

-----------------------------------------------------------------------------
(***************************************************************************)
(* app-server and the socket                                               *)
(***************************************************************************)
Notify(n) == inbox' = IF connected THEN Append(inbox, n) ELSE inbox

AcceptTurn ==
  /\ start.pc = "sent" /\ connected /\ Len(turns) < MaxTurns
  /\ turns' = Append(turns, [issue |-> start.issue, codex |-> codex,
                              status |-> "running", text |-> 0])
  /\ start' = [start EXCEPT !.pc = "accepted", !.turn = Len(turns) + 1]
  /\ Notify([kind |-> "started", turn |-> Len(turns) + 1])
  /\ UNCHANGED <<binding, connected, troubles, handler, status, tracking, turnId, msgs, reader>>

ProduceChunk(t) ==
  /\ t \in DOMAIN turns /\ turns[t].status = "running" /\ turns[t].text < MaxChunks
  /\ turns' = [turns EXCEPT ![t].text = @ + 1]
  /\ Notify([kind |-> "delta", turn |-> t, chunk |-> turns[t].text + 1])
  /\ UNCHANGED <<binding, connected, troubles, handler, start, status, tracking,
                 turnId, msgs, reader>>

EndTurn(t) ==
  /\ t \in DOMAIN turns /\ turns[t].status = "running"
  /\ \E o \in Outcomes :
       /\ turns' = [turns EXCEPT ![t].status = o]
       /\ Notify([kind |-> "completed", turn |-> t, outcome |-> o])
  /\ UNCHANGED <<binding, connected, troubles, handler, start, status, tracking,
                 turnId, msgs, reader>>

AnswerRead(r) ==
  /\ reader[r].pc = "reading" /\ connected
  /\ reader' = [reader EXCEPT ![r].pc = "queued"]
  /\ \E snap \in Snapshots(reader[r].codex) :
       inbox' = Append(inbox, [kind |-> "snapshot", reader |-> r, snap |-> snap])
  /\ UNCHANGED <<turns, binding, connected, troubles, handler, start, status, tracking,
                 turnId, msgs>>

\* The socket is lost with a suffix of what was sent, and every request that
\* has no answer yet fails: an issue whose turn is being started fails at once.
NoneInTransit(n) == {}
InTransit(n) == {r \in Readers : \E k \in n + 1..Len(inbox) :
                   inbox[k].kind = "snapshot" /\ inbox[k].reader = r}
StartFails ==
  /\ status' = [status EXCEPT ![start.issue] = "failed"]
  /\ start' = NoStart
  /\ Untracked
  /\ bound' = FALSE /\ UNCHANGED codex

RequestBackfill ==
  /\ requested' = (requested \/ active \in Unended)
  /\ UNCHANGED <<active, noProgress>>

LoseSocket(waiting) ==
  /\ connected' = FALSE
  /\ \E n \in 0..Len(inbox) :
       /\ inbox' = SubSeq(inbox, 1, n)
       /\ reader' = [r \in Readers |-> IF waiting[r].pc = "reading" \/ r \in InTransit(n)
                                       THEN NotReading ELSE waiting[r]]

Disconnect ==
  /\ connected /\ troubles < MaxTroubles
  /\ troubles' = troubles + 1
  /\ LoseSocket(reader)
  /\ handler' = IF handler.pc = "reading" THEN [handler EXCEPT !.pc = "unread"] ELSE handler
  /\ IF start = NoStart THEN RequestBackfill /\ UNCHANGED <<status, start, binding>>
     ELSE StartFails
  /\ UNCHANGED <<turns, degraded, turnId, msgs>>

\* Another request of the bridge is not answered in time.
RequestTimesOut ==
  /\ connected /\ troubles < MaxTroubles
  /\ troubles' = troubles + 1
  /\ RequestBackfill
  /\ UNCHANGED <<turns, binding, connected, inbox, handler, start, status, degraded,
                 turnId, msgs, reader>>

Reconnect ==
  /\ ~connected /\ connected' = TRUE
  /\ UNCHANGED <<turns, binding, inbox, troubles, handler, start, status, tracking,
                 turnId, msgs, reader>>

-----------------------------------------------------------------------------
(***************************************************************************)
(* Starting a turn: startTurnOnPhysicalThread                              *)
(***************************************************************************)
BeginTurn(i) ==
  /\ status[i] = "queued" /\ active = NoIssue /\ start = NoStart /\ connected
  /\ active' = i /\ turnId' = NoTurn
  /\ requested' = FALSE /\ noProgress' = 0 /\ degraded' = FALSE
  /\ status' = [status EXCEPT ![i] = "running"]
  /\ start' = [issue |-> i, turn |-> NoTurn, pc |-> "sent"]
  /\ bound' = TRUE /\ codex' = IF bound THEN codex ELSE codex + 1
  /\ UNCHANGED <<turns, link, handler, msgs, reader>>

TurnResponds ==
  /\ start.pc = "accepted"
  /\ turnId' = start.turn
  /\ status' = [status EXCEPT ![start.issue] = "running"]
  /\ start' = NoStart
  /\ UNCHANGED <<turns, binding, link, handler, tracking, msgs, reader>>

TurnStartTimesOut ==
  /\ start # NoStart /\ troubles < MaxTroubles
  /\ troubles' = troubles + 1
  /\ StartFails
  /\ UNCHANGED <<turns, connected, inbox, handler, degraded, turnId, msgs, reader>>

-----------------------------------------------------------------------------
(***************************************************************************)
(* The ordered events of the thread                                        *)
(***************************************************************************)
IsNext(kind) == handler = Resting /\ inbox # <<>> /\ Head(inbox).kind = kind
\* codexThreadToThreadId: a notification of a forgotten Codex thread has no owner.
Routed(n) == bound /\ turns[n.turn].codex = codex
DropNotification ==
  /\ inbox # <<>> /\ Head(inbox).kind # "snapshot" /\ ~Routed(Head(inbox))
  /\ inbox' = Tail(inbox)
  /\ UNCHANGED <<turns, binding, connected, troubles, handler, start, status, tracking,
                 turnId, msgs, reader>>


\* A live notification withdraws the requested backfill.
Alive == requested' = FALSE /\ noProgress' = 0 /\ degraded' = FALSE

CardRuns == IF active # NoIssue /\ status[active] \notin Terminal
            THEN [status EXCEPT ![active] = "running"] ELSE status

TurnStarted ==
  /\ IsNext("started") /\ Routed(Head(inbox))
  /\ start.turn # Head(inbox).turn
  /\ inbox' = Tail(inbox)
  /\ turnId' = Head(inbox).turn
  /\ Alive
  /\ status' = CardRuns
  /\ handler' = IF active = NoIssue THEN Resting
                ELSE [pc |-> IF connected THEN "reading" ELSE "unread", kind |-> "started",
                      issue |-> active, turn |-> Head(inbox).turn, of |-> Head(inbox).turn]
  /\ UNCHANGED <<turns, binding, connected, troubles, start, active, msgs, reader>>

MessageDelta ==
  LET c == <<Head(inbox).turn, Head(inbox).chunk>>
  IN /\ IsNext("delta") /\ Routed(Head(inbox))
     /\ inbox' = Tail(inbox)
     /\ Alive
     /\ IF active = NoIssue THEN UNCHANGED <<msgs, status>>
        ELSE /\ msgs' = [msgs EXCEPT ![active] = WithDelta(@, c)]
             /\ status' = IF msgs' = msgs THEN status ELSE CardRuns
     /\ UNCHANGED <<turns, binding, connected, troubles, handler, start, active, turnId, reader>>

TurnCompleted ==
  /\ IsNext("completed") /\ Routed(Head(inbox))
  /\ inbox' = Tail(inbox)
  /\ degraded' = FALSE
  /\ status' = IF active = NoIssue THEN status
               ELSE [status EXCEPT ![active] = Head(inbox).outcome]
  /\ bound' = (active = NoIssue \/ Head(inbox).outcome = "completed")
  /\ handler' = [pc |-> IF active = NoIssue THEN "ending"
                        ELSE IF connected THEN "reading" ELSE "unread",
                 kind |-> "completed", issue |-> active, turn |-> turnId,
                 of |-> Head(inbox).turn]
  /\ UNCHANGED <<turns, codex, connected, troubles, start, active, requested, noProgress,
                 turnId, msgs, reader>>

\* syncRemoteTurnSnapshotForNotification: the answer, or none.
SyncAnswered ==
  /\ handler.pc = "reading" /\ connected /\ start.pc # "accepted"
  /\ \E snap \in Snapshots(turns[handler.of].codex) :
       msgs' = [msgs EXCEPT ![handler.issue] = Synced(@, snap, handler.turn)]
  /\ handler' = IF handler.kind = "completed" THEN [handler EXCEPT !.pc = "ending"] ELSE Resting
  /\ UNCHANGED <<turns, binding, link, start, status, tracking, turnId, reader>>

SyncTimesOut ==
  /\ handler.pc = "reading" /\ troubles < MaxTroubles
  /\ troubles' = troubles + 1
  /\ handler' = [handler EXCEPT !.pc = "unread"]
  /\ UNCHANGED <<turns, binding, connected, inbox, start, status, tracking, turnId, msgs, reader>>

\* The rest of the notification: without an answer the snapshot is left out.
StartServed ==
  /\ handler.pc = "unread" /\ handler.kind = "started"
  /\ handler' = Resting
  /\ UNCHANGED <<turns, binding, link, start, status, tracking, turnId, msgs, reader>>

SettleTerminal ==
  /\ handler.pc \in {"ending", "unread"} /\ handler.kind = "completed"
  /\ Untracked
  /\ handler' = Resting
  /\ UNCHANGED <<turns, binding, link, start, status, degraded, turnId, msgs, reader>>

-----------------------------------------------------------------------------
(***************************************************************************)
(* Snapshots: backfillRunningIssueFromSnapshot and who calls it            *)
(***************************************************************************)
StartReading(r) == /\ reader[r] = NotReading
                   /\ reader' = [reader EXCEPT ![r] = [pc |-> "reading", codex |-> codex]]

\* backfillRequestedRunningIssues: by its interval, or when the socket is ready.
BackfillRequested ==
  /\ active # NoIssue /\ requested /\ connected
  /\ "requested" \in Readers /\ StartReading("requested")
  /\ UNCHANGED <<turns, binding, link, handler, start, status, tracking, turnId, msgs>>

\* reconcileRunningIssue: thread/list shows how the latest turn stands.
ReconcileRunningIssue ==
  /\ active # NoIssue /\ connected /\ "reconcile" \in Readers
  /\ degraded' = TRUE /\ requested' = TRUE
  /\ IF \E t \in TurnsOn(codex) : turns[t].status = "running" THEN StartReading("reconcile")
     ELSE reader["reconcile"] = NotReading /\ UNCHANGED reader
  /\ UNCHANGED <<turns, binding, link, handler, start, status, active, noProgress, turnId, msgs>>

EnsureRunningIssueTracking ==
  /\ active \notin Unended
  /\ \E i \in Unended : active' = i
  /\ requested' = FALSE /\ noProgress' = 0
  /\ UNCHANGED <<turns, binding, link, handler, start, status, degraded, turnId, msgs, reader>>

\* sampleRunningIssueThreadReads: a sample that shows something new becomes a
\* backfill.
SampleRead ==
  /\ active # NoIssue /\ status[active] = "running" /\ ~requested /\ connected
  /\ \E snap \in Snapshots(codex) :
       /\ DOMAIN snap # {}
       /\ LET t == Selected(snap, turnId) IN snap[t].text > 0 \/ snap[t].status # "running"
  /\ requested' = TRUE
  /\ "sample" \in Readers /\ StartReading("sample")
  /\ UNCHANGED <<turns, binding, link, handler, start, status, active, degraded, noProgress,
                 turnId, msgs>>

\* applyRunningIssueBackfillSnapshot up to its publications.  The outcome of
\* a snapshot without turns is that of an idle thread.
RemoteStatus(snap, t) == IF t = NoTurn THEN "completed" ELSE snap[t].status

ApplySnapshot ==
  LET snap == Head(inbox).snap
      t == IF DOMAIN snap = {} THEN NoTurn ELSE Selected(snap, turnId)
      remote == RemoteStatus(snap, t)
      synced == Synced(msgs[active], snap, turnId)
      progress == \/ synced # msgs[active]
                  \/ t # turnId
                  \/ status[active] # "running"
                  \/ snap[t].text > 0
  IN /\ IsNext("snapshot")
     /\ inbox' = Tail(inbox)
     /\ IF active = NoIssue
        THEN /\ reader' = [reader EXCEPT ![Head(inbox).reader] = NotReading]
             /\ UNCHANGED <<handler, status, tracking, turnId, msgs>>
        ELSE /\ msgs' = [msgs EXCEPT ![active] = synced]
             /\ status' = [status EXCEPT ![active] = remote]
             /\ degraded' = (remote = "running" /\ ~progress)
             /\ handler' = [pc |-> IF degraded' THEN "stuck" ELSE "settled",
                            kind |-> Head(inbox).reader, issue |-> active,
                            turn |-> t, of |-> t]
             /\ IF remote = "running"
                THEN turnId' = t /\ UNCHANGED <<active, requested, noProgress>>
                ELSE Untracked /\ UNCHANGED turnId
             /\ UNCHANGED reader
     /\ UNCHANGED <<turns, binding, connected, troubles, start>>

\* Its end: the request is withdrawn, or kept and in the end the socket is
\* given up.
SnapshotSettled ==
  /\ handler.pc = "settled"
  /\ requested' = FALSE /\ noProgress' = 0
  /\ handler' = Resting
  /\ reader' = [reader EXCEPT ![handler.kind] = NotReading]
  /\ UNCHANGED <<turns, binding, link, start, status, active, degraded, turnId, msgs>>

SnapshotStuck ==
  /\ handler.pc = "stuck"
  /\ noProgress + 1 < NoProgressForceReconnect
  /\ requested' = TRUE /\ noProgress' = noProgress + 1
  /\ handler' = Resting
  /\ reader' = [reader EXCEPT ![handler.kind] = NotReading]
  /\ UNCHANGED <<turns, binding, link, start, status, active, degraded, turnId, msgs>>

\* At the limit of fruitless backfills, or at once when the thread has been
\* degraded for long; without a socket only the count starts again.
ForceReconnect ==
  LET released == [reader EXCEPT ![handler.kind] = NotReading]
  IN /\ handler.pc = "stuck"
     /\ handler' = Resting
     /\ IF connected THEN LoseSocket(released)
        ELSE reader' = released /\ UNCHANGED <<connected, inbox>>
     /\ IF start = NoStart
        THEN requested' = TRUE /\ noProgress' = 0 /\ UNCHANGED <<status, start, active, binding>>
        ELSE StartFails
     /\ UNCHANGED <<turns, troubles, degraded, turnId, msgs>>

-----------------------------------------------------------------------------
AppServer == AcceptTurn \/ (\E t \in 1..MaxTurns : ProduceChunk(t) \/ EndTurn(t))
                        \/ (\E r \in Readers : AnswerRead(r))
Serve == DropNotification \/ TurnStarted \/ MessageDelta \/ TurnCompleted \/ ApplySnapshot
         \/ SyncAnswered \/ StartServed \/ SettleTerminal
         \/ SnapshotSettled \/ SnapshotStuck \/ ForceReconnect
Starting == (\E i \in Issues : BeginTurn(i)) \/ TurnResponds \/ TurnStartTimesOut
Watch == BackfillRequested \/ ReconcileRunningIssue \/ EnsureRunningIssueTracking

Next == \/ AppServer \/ Disconnect \/ Reconnect \/ Starting
        \/ Serve \/ SyncTimesOut \/ RequestTimesOut \/ Watch \/ SampleRead

Spec == Init /\ [][Next]_vars
\* app-server answers and its turns end; the bridge serves its events, and
\* its intervals and its reconnection come round.
FairSpec == /\ Spec
            /\ WF_vars(AcceptTurn) /\ WF_vars(Reconnect) /\ WF_vars(Serve)
            /\ WF_vars(\E t \in 1..MaxTurns : EndTurn(t))
            /\ \A r \in Readers : WF_vars(AnswerRead(r))
            /\ WF_vars(TurnResponds)
            /\ WF_vars(EnsureRunningIssueTracking)
            /\ WF_vars(BackfillRequested) /\ WF_vars(ReconcileRunningIssue)

-----------------------------------------------------------------------------
\* The types of the variables; a card shows only the statuses of an issue.
TypeOK ==
  /\ turns \in Seq([issue : Issues, codex : 1..codex,
                    status : {"running"} \cup Outcomes, text : 0..MaxChunks])
  /\ codex \in 1..Cardinality(Issues) /\ bound \in BOOLEAN
  /\ connected \in BOOLEAN /\ troubles \in 0..MaxTroubles
  /\ handler.pc \in {"idle", "reading", "unread", "ending", "settled", "stuck"}
  /\ start.pc \in {"none", "sent", "accepted"}
  /\ status \in [Issues -> Statuses]
  /\ active \in Issues \cup {NoIssue} /\ turnId \in 0..Len(turns)
  /\ requested \in BOOLEAN /\ degraded \in BOOLEAN
  /\ noProgress \in 0..NoProgressForceReconnect - 1
  /\ reader \in [Readers -> [pc : {"idle", "reading", "queued"}, codex : 0..codex]]

ChunksOf(i) == UNION {ToSet(msgs[i][m].text) : m \in DOMAIN msgs[i]}
OwnTurns(i) == {t \in DOMAIN turns : turns[t].issue = i}

\* A snapshot that is older than the deltas served since it was read never
\* shortens a message (syncRemoteTurnAssistantMessagesToIssue).
NotRewound == [][\A i \in Issues : \A m \in DOMAIN msgs[i] :
                   Len(msgs[i][m].text) <= Len(msgs'[i][m].text)]_vars

\* Whatever was lost with a socket, an issue whose own turn has ended shows the
\* whole text of that turn before its tracking is given up, if the final read of
\* the thread was answered (handleNotification, turn/completed); unless the
\* message holds chunks twice and has outgrown that text, for then the read is
\* taken to be stale (README, What does not hold).
Outgrown(i, t) == \E m \in DOMAIN msgs[i] :
                    msgs[i][m].item = t /\ Len(msgs[i][m].text) > turns[t].text
WholeText ==
  handler.pc = "ending" /\ handler.issue # NoIssue /\ handler.of \in OwnTurns(handler.issue) =>
    LET t == handler.of
    IN \/ ToSet(Chunks(t, turns[t].text)) \subseteq ChunksOf(handler.issue)
       \/ Outgrown(handler.issue, t)

\* In the end no issue is left running, even when its turn/completed was lost or
\* a late answer or snapshot marked it running again
\* (backfillRequestedRunningIssues, reconcileRunningIssue).
StaysEnded == <>[](\A i \in Issues : status[i] # "running")

\* A running issue ends as one of its own turns did, or because its start
\* failed; never as the turn of an earlier issue on the same Codex thread did
\* (selectRemoteTurnForBackfill).  With two issues the code violates this (README,
\* What does not hold).
EndedByOwnTurn == [][\A i \in Issues :
   status[i] = "running" /\ status'[i] \in Terminal /\ start'.issue = start.issue
              => \E t \in OwnTurns(i) : turns[t].status = status'[i]]_vars
=============================================================================
