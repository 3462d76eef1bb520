-------------------------- MODULE IssueQueue_proofs --------------------------
(***************************************************************************)
(* Proofs about IssueQueue, for every set of threads, issues and handlers  *)
(* and every bound.                                                        *)
(***************************************************************************)
EXTENDS IssueQueue, TLAPS, FiniteSetTheorems, SequenceTheorems

USE DEF bridgeVars, contVars, envVars

-----------------------------------------------------------------------------
(***************************************************************************)
(* Operators on queues                                                     *)
(***************************************************************************)

\* Filtering an issue out of a queue leaves a queue of the same issues.
LEMMA WithoutType ==
  ASSUME NEW S, NEW q \in Seq(S), NEW i
  PROVE  Without(q, i) \in Seq(S)
<1>1. CASE i \in ToSet(q)
  <2> DEFINE n == CHOOSE k \in DOMAIN q : q[k] = i
  <2>1. n \in 1..Len(q)
    BY <1>1 DEF ToSet
  <2> HIDE DEF n
  <2>2. n - 1 \in Int /\ n + 1 \in Int /\ Len(q) \in Int
    BY <2>1
  <2>3. /\ \A k \in 1..(n - 1) : q[k] \in S
        /\ \A k \in (n + 1)..Len(q) : q[k] \in S
    BY <2>1
  <2>4. SubSeq(q, 1, n - 1) \in Seq(S) /\ SubSeq(q, n + 1, Len(q)) \in Seq(S)
    BY <2>2, <2>3, SubSeqProperties
  <2>5. SubSeq(q, 1, n - 1) \o SubSeq(q, n + 1, Len(q)) \in Seq(S)
    BY <2>4
  <2> QED
    BY <1>1, <2>5 DEF Without, RemoveAt, n
<1>2. CASE i \notin ToSet(q)
  BY <1>2 DEF Without
<1> QED
  BY <1>1, <1>2

\* An order of a finite set of issues is a queue of them.
LEMMA OrdersType ==
  ASSUME NEW S, IsFiniteSet(S), NEW s \in Orders(S)
  PROVE  s \in Seq(S)
<1>1. Cardinality(S) \in Nat
  BY FS_CardinalityType
<1> QED
  BY <1>1 DEF Orders

-----------------------------------------------------------------------------
(***************************************************************************)
(* Types of the parts of the state that the actions replace                *)
(***************************************************************************)

LEMMA QueueType ==
  ASSUME QueueOK, NEW t \in Threads, NEW q \in Seq(Own(t)),
         queue' = [queue EXCEPT ![t] = q]
  PROVE  QueueOK'
<1>1. Seq(Own(t)) \subseteq Seq(Issues)
  BY SeqMonotonic DEF Own
<1> QED
  BY <1>1 DEF QueueOK

LEMMA IdleLaneType ==
  ASSUME NEW t
  PROVE  /\ IdleLane \in LaneRecords(t)
         /\ [IdleLane EXCEPT !.pc = "once", !.mode = "recover"] \in LaneRecords(t)
         /\ [IdleLane EXCEPT !.pc = "once", !.mode = "noRecovery"] \in LaneRecords(t)
         /\ [IdleLane EXCEPT !.pc = "list", !.mode = "nested"] \in LaneRecords(t)
         /\ [IdleLane EXCEPT !.pc = "list", !.mode = "noRecovery"] \in LaneRecords(t)
BY DEF IdleLane, LaneRecords, LanePcs, LaneModes, OwnOrNone

LEMMA LaneType ==
  ASSUME LaneOK, NEW t \in Threads, NEW l \in Lanes, NEW rec \in LaneRecords(t),
         SetLane(t, l, rec)
  PROVE  LaneOK'
BY DEF LaneOK, SetLane

LEMMA LaneFieldType ==
  ASSUME LaneOK, NEW t \in Threads, NEW l \in Lanes, NEW p \in LanePcs
  PROVE  /\ lane[t][l] \in LaneRecords(t)
         /\ [lane[t][l] EXCEPT !.pc = p] \in LaneRecords(t)
         /\ \A b \in Nat : [lane[t][l] EXCEPT !.pc = p, !.bind = b] \in LaneRecords(t)
BY DEF LaneOK, LaneRecords

LEMMA ReturnedType ==
  ASSUME LaneOK, NEW t \in Threads, NEW l \in Lanes
  PROVE  Returned(t, l) \in LaneRecords(t)
BY DEF LaneOK, Returned, IdleLane, LaneRecords, LanePcs, LaneModes, OwnOrNone

LEMMA PatchedType ==
  ASSUME StatusOK, NEW i, NEW s \in Statuses
  PROVE  Patched(i, s) \in [Issues -> Statuses]
BY DEF StatusOK, Patched, HasCard

LEMMA AdoptableType ==
  ASSUME NEW t, NEW a \in OwnOrNone(t), NEW b \in Adoptable(t, a)
  PROVE  b \in OwnOrNone(t)
BY DEF Adoptable, RunningIn, OwnOrNone, Own

LEMMA TrackedType ==
  ASSUME ActiveOK, NEW t \in Threads, NEW b \in Tracked(t)
  PROVE  b \in OwnOrNone(t)
BY AdoptableType DEF ActiveOK, Tracked, OwnOrNone

LEMMA ActiveType ==
  ASSUME ActiveOK, NEW t \in Threads, NEW a \in OwnOrNone(t),
         active' = [active EXCEPT ![t] = a],
         activeP' \in [Threads -> IssueOrNone],
         \A p \in Threads : activeP'[p] \in OwnOrNone(p)
  PROVE  ActiveOK'
BY DEF ActiveOK, OwnOrNone, Own, IssueOrNone

LEMMA ClearedPType ==
  ASSUME ActiveOK, NEW t \in Threads
  PROVE  /\ ClearedP(t) \in [Threads -> IssueOrNone]
         /\ \A p \in Threads : ClearedP(t)[p] \in OwnOrNone(p)
BY DEF ActiveOK, ClearedP, OwnOrNone, IssueOrNone

LEMMA ClearType ==
  ASSUME ActiveOK, NEW t \in Threads, Clear(t)
  PROVE  ActiveOK'
BY ClearedPType, ActiveType DEF Clear, OwnOrNone

CommandMap(c) ==
  /\ c \in [Handlers -> CmdRecords]
  /\ \A h \in Handlers :
       c[h].op # "none" => /\ c[h].issue \in Issues
                           /\ c[h].held \in Seq(Own(ThreadOf[c[h].issue]))

LEMMA FreezeType ==
  ASSUME QueueOK, CmdOK, NEW t \in Threads
  PROVE  CommandMap(Freeze(t))
<1> SUFFICES ASSUME NEW h \in Handlers
             PROVE  /\ Freeze(t)[h] \in CmdRecords
                    /\ Freeze(t)[h].op # "none" =>
                         /\ Freeze(t)[h].issue \in Issues
                         /\ Freeze(t)[h].held \in Seq(Own(ThreadOf[Freeze(t)[h].issue]))
  BY DEF CommandMap, Freeze
<1>1. cmd[h] \in CmdRecords
  BY DEF CmdOK
<1>2. queue[t] \in Seq(Issues) /\ queue[t] \in Seq(Own(t))
  BY DEF QueueOK
<1>3. CASE cmd[h].wasQueued /\ ~cmd[h].frozen /\ ThreadOf[cmd[h].issue] = t
  <2>1. Freeze(t)[h] = [cmd[h] EXCEPT !.frozen = TRUE, !.held = queue[t]]
    BY <1>3 DEF Freeze
  <2> QED
    BY <1>1, <1>2, <1>3, <2>1 DEF CmdRecords, CmdOK
<1>4. CASE ~(cmd[h].wasQueued /\ ~cmd[h].frozen /\ ThreadOf[cmd[h].issue] = t)
  <2>1. Freeze(t)[h] = cmd[h]
    BY <1>4 DEF Freeze
  <2> QED
    BY <2>1 DEF CmdOK
<1> QED
  BY <1>3, <1>4

LEMMA CommandType ==
  ASSUME NEW c, CommandMap(c), NEW h \in Handlers, NEW rec \in CmdRecords,
         rec.op # "none" => /\ rec.issue \in Issues
                            /\ rec.held \in Seq(Own(ThreadOf[rec.issue])),
         cmd' = [c EXCEPT ![h] = rec]
  PROVE  CmdOK'
BY DEF CommandMap, CmdOK

LEMMA NoCmdType ==
  ASSUME NEW c, CommandMap(c), NEW h \in Handlers, cmd' = [c EXCEPT ![h] = NoCmd]
  PROVE  CmdOK'
<1>1. NoCmd \in CmdRecords /\ NoCmd.op = "none"
  BY EmptySeq DEF NoCmd, CmdRecords, IssueOrNone
<1> QED
  BY <1>1, CommandType

-----------------------------------------------------------------------------
(***************************************************************************)
(* Each operation preserves TypeOK                                         *)
(***************************************************************************)

LEMMA CreateType ==
  ASSUME TypeOK, NEW i \in Issues, CreateThreadIssue(i)
  PROVE  TypeOK'
BY DEF TypeOK, CreateThreadIssue, StatusOK, Statuses, QueueOK, ActiveOK, LaneOK,
       CmdOK, BindingOK, FlagOK, EventOK

LEMMA StartThreadIssuesType ==
  ASSUME TypeOK, NEW t \in Threads, NEW i \in Issues, NEW j \in Issues,
         StartThreadIssues(t, i, j)
  PROVE  TypeOK'
<1> USE DEF TypeOK, StartThreadIssues
<1>1. queue[t] \in Seq(Own(t)) /\ i \in Own(t) /\ j \in Own(t)
  BY DEF QueueOK, Own
<1>2. Enlist(queue[t], i) \in Seq(Own(t))
  BY <1>1 DEF Enlist
<1>3. Enlist(Enlist(queue[t], i), j) \in Seq(Own(t))
  BY <1>1, <1>2 DEF Enlist
<1>4. QueueOK'
  BY <1>3, QueueType DEF QueueOK
<1>5. StatusOK' /\ FlagOK'
  BY DEF StatusOK, Statuses, FlagOK
<1>6. ActiveOK' /\ LaneOK' /\ CmdOK' /\ BindingOK' /\ EventOK'
  BY DEF ActiveOK, LaneOK, CmdOK, BindingOK, EventOK
<1> QED
  BY <1>4, <1>5, <1>6

LEMMA ReorderThreadIssuesType ==
  ASSUME TypeOK, NEW t \in Threads, NEW i \in Issues, ReorderThreadIssues(t, i)
  PROVE  TypeOK'
<1> USE DEF TypeOK, ReorderThreadIssues
<1>1. queue[t] \in Seq(Own(t)) /\ i \in Own(t)
  BY DEF QueueOK, ToSet
<1>2. <<i>> \o Without(queue[t], i) \in Seq(Own(t))
  BY <1>1, WithoutType
<1>3. QueueOK'
  BY <1>2, QueueType DEF QueueOK
<1>4. CmdOK'
  BY FreezeType DEF CommandMap, CmdOK
<1>5. StatusOK' /\ ActiveOK' /\ LaneOK' /\ BindingOK' /\ FlagOK' /\ EventOK'
  BY DEF StatusOK, ActiveOK, LaneOK, BindingOK, FlagOK, EventOK
<1> QED
  BY <1>3, <1>4, <1>5

LEMMA RequestProcessingType ==
  ASSUME LaneOK, FlagOK, NEW t \in Threads, NEW mode \in {"recover", "noRecovery"},
         RequestProcessing(t, mode)
  PROVE  LaneOK' /\ rerun' \in [Threads -> BOOLEAN]
<1>1. rerun' \in [Threads -> BOOLEAN]
  BY DEF RequestProcessing, FlagOK
<1>2. CASE Busy(t)
  BY <1>1, <1>2 DEF RequestProcessing, LaneOK
<1>3. CASE ~Busy(t)
  BY <1>1, <1>3, IdleLaneType, LaneType DEF RequestProcessing, Lanes
<1> QED
  BY <1>2, <1>3

LEMMA ScheduleQueueType ==
  ASSUME TypeOK, NEW t \in Threads, ScheduleQueue(t)
  PROVE  TypeOK'
<1> USE DEF TypeOK, ScheduleQueue
<1>1. due' \in [Threads -> {"none", "schedule", "process"}]
  BY DEF FlagOK
<1>2. StatusOK' /\ QueueOK' /\ CmdOK' /\ BindingOK' /\ EventOK'
  BY DEF StatusOK, QueueOK, CmdOK, BindingOK, EventOK
<1>3. CASE queue[t] = <<>>
  BY <1>1, <1>2, <1>3 DEF ActiveOK, LaneOK, FlagOK
<1>4. CASE queue[t] # <<>>
  <2>1. PICK a \in Adoptable(t, active[t]) :
          /\ active' = [active EXCEPT ![t] = a]
          /\ IF a = NoIssue THEN RequestProcessing(t, "recover")
             ELSE UNCHANGED <<lane, rerun>>
    BY <1>4
  <2>2. a \in OwnOrNone(t)
    BY AdoptableType DEF ActiveOK
  <2>3. ActiveOK'
    BY <2>1, <2>2, ActiveType DEF ActiveOK
  <2>4. LaneOK' /\ FlagOK'
    BY <1>1, <2>1, RequestProcessingType DEF LaneOK, FlagOK
  <2> QED
    BY <1>2, <2>3, <2>4
<1> QED
  BY <1>3, <1>4

LEMMA ProcessIssueQueueType ==
  ASSUME TypeOK, NEW t \in Threads, ProcessIssueQueue(t)
  PROVE  TypeOK'
<1> USE DEF TypeOK, ProcessIssueQueue
<1>1. LaneOK' /\ FlagOK'
  BY RequestProcessingType DEF FlagOK
<1>2. StatusOK' /\ QueueOK' /\ ActiveOK' /\ CmdOK' /\ BindingOK' /\ EventOK'
  BY DEF StatusOK, QueueOK, ActiveOK, CmdOK, BindingOK, EventOK
<1> QED
  BY <1>1, <1>2

LEMMA ProcessIssueQueueOnceType ==
  ASSUME TypeOK, NEW t \in Threads, NEW l \in Lanes, ProcessIssueQueueOnce(t, l)
  PROVE  TypeOK'
<1> USE DEF TypeOK
<1> DEFINE i == Head(queue[t])
           taken == [lane[t][l] EXCEPT !.pc = "stage", !.issue = i, !.found = HasCard(i)]
<1>1. PICK a \in Adoptable(t, active[t]) :
        /\ active' = [active EXCEPT ![t] = a]
        /\ IF MayShift(t, a)
           THEN /\ queue' = [queue EXCEPT ![t] = Tail(@)]
                /\ SetLane(t, l, taken)
           ELSE /\ SetLane(t, l, Returned(t, l))
                /\ UNCHANGED queue
  BY DEF ProcessIssueQueueOnce
<1>2. ActiveOK'
  <2>1. a \in OwnOrNone(t)
    BY AdoptableType DEF ActiveOK
  <2> QED
    BY <1>1, <2>1, ActiveType DEF ActiveOK, ProcessIssueQueueOnce
<1>3. StatusOK' /\ CmdOK' /\ BindingOK' /\ FlagOK' /\ EventOK'
  BY DEF StatusOK, CmdOK, BindingOK, FlagOK, EventOK, ProcessIssueQueueOnce
<1>4. CASE MayShift(t, a)
  <2>1. Tail(queue[t]) \in Seq(Own(t)) /\ i \in Own(t)
    BY <1>4 DEF MayShift, QueueOK
  <2>2. QueueOK'
    BY <1>1, <1>4, <2>1, QueueType DEF QueueOK
  <2> HIDE DEF i
  <2>3. taken \in LaneRecords(t)
    <3>1. lane[t][l] \in LaneRecords(t)
      BY DEF LaneOK
    <3>2. HasCard(i) \in BOOLEAN
      BY DEF HasCard
    <3> QED
      BY <2>1, <3>1, <3>2 DEF LaneRecords, LanePcs, OwnOrNone
  <2>4. LaneOK'
    BY <1>1, <1>4, <2>3, LaneType
  <2> QED
    BY <1>2, <1>3, <2>2, <2>4
<1>5. CASE ~MayShift(t, a)
  BY <1>1, <1>2, <1>3, <1>5, ReturnedType, LaneType DEF QueueOK
<1> QED
  BY <1>4, <1>5

LEMMA LoopProcessIssueQueueType ==
  ASSUME TypeOK, NEW t \in Threads, LoopProcessIssueQueue(t)
  PROVE  TypeOK'
<1> USE DEF TypeOK, LoopProcessIssueQueue
<1>1. LaneOK'
  BY LaneFieldType, IdleLaneType, LaneType DEF Lanes, LanePcs
<1>2. FlagOK'
  BY DEF FlagOK
<1>3. StatusOK' /\ QueueOK' /\ ActiveOK' /\ CmdOK' /\ BindingOK' /\ EventOK'
  BY DEF StatusOK, QueueOK, ActiveOK, CmdOK, BindingOK, EventOK
<1> QED
  BY <1>1, <1>2, <1>3

LEMMA BeginTurnType ==
  ASSUME StatusOK, ActiveOK, LaneOK, BindingOK, NEW t \in Threads, NEW l \in Lanes,
         NEW b \in Nat, BeginTurn(t, l, b)
  PROVE  /\ StatusOK' /\ ActiveOK' /\ LaneOK'
         /\ stopped' \in [Threads -> StopRecords]
         /\ turnId' \in [Threads -> Nat]
<1> DEFINE i == lane[t][l].issue
<1>1. i \in OwnOrNone(t)
  BY DEF LaneOK, LaneRecords
<1>2. StatusOK'
  BY PatchedType DEF BeginTurn, StatusOK, Statuses
<1>3. ActiveOK'
  BY <1>1, ActiveType DEF BeginTurn, ActiveOK, OwnOrNone, Own, IssueOrNone
<1>4. LaneOK'
  BY LaneFieldType, LaneType DEF BeginTurn, LanePcs
<1>5. /\ stopped' \in [Threads -> StopRecords]
      /\ turnId' \in [Threads -> Nat]
  BY DEF BeginTurn, BindingOK, NoStop, StopRecords
<1> QED
  BY <1>2, <1>3, <1>4, <1>5

LEMMA StageDoneType ==
  ASSUME TypeOK, NEW t \in Threads, NEW l \in Lanes, StageDone(t, l)
  PROVE  TypeOK'
<1> USE DEF TypeOK, StageDone
<1>1. QueueOK' /\ CmdOK' /\ FlagOK' /\ EventOK'
  BY DEF QueueOK, CmdOK, FlagOK, EventOK
<1>2. CASE codex[t] # 0
  <2>1. BeginTurn(t, l, codex[t]) /\ codex[t] \in Nat
    BY <1>2 DEF BindingOK
  <2> QED
    BY <1>1, <2>1, BeginTurnType DEF BindingOK
<1>3. CASE codex[t] = 0
  <2>1. LaneOK'
    BY <1>3, LaneFieldType, LaneType DEF LanePcs
  <2>2. StatusOK' /\ ActiveOK' /\ BindingOK'
    BY <1>3 DEF StatusOK, ActiveOK, BindingOK
  <2> QED
    BY <1>1, <2>1, <2>2
<1> QED
  BY <1>2, <1>3

LEMMA BindType ==
  ASSUME BindingOK, NEW t \in Threads, Bind(t)
  PROVE  /\ bindings' \in Nat /\ bindings + 1 \in Nat
         /\ codex' \in [Threads -> Nat]
         /\ codexMap' \in [Bindings -> Threads \cup {NoThread}]
<1>1. bindings \in Nat /\ bindings' = bindings + 1
  BY DEF BindingOK, Bind
<1>2. bindings + 1 \in Nat
  BY <1>1
<1>3. codex' \in [Threads -> Nat]
  BY <1>2 DEF BindingOK, Bind
<1>4. codexMap' \in [Bindings -> Threads \cup {NoThread}]
  <2> HIDE DEF Bindings
  <2>1. codexMap \in [Bindings -> Threads \cup {NoThread}] /\ t \in Threads
    BY DEF BindingOK
  <2>2. codexMap' = [codexMap EXCEPT ![bindings + 1] = t]
    BY DEF Bind
  <2> QED
    BY <2>1, <2>2
<1> QED
  BY <1>1, <1>2, <1>3, <1>4

LEMMA EnsureDoneType ==
  ASSUME TypeOK, NEW t \in Threads, NEW l \in Lanes, EnsureDone(t, l)
  PROVE  TypeOK'
<1> USE DEF TypeOK, EnsureDone
<1>1. StatusOK' /\ ActiveOK' /\ LaneOK' /\ BindingOK'
  BY BindType, BeginTurnType DEF BindingOK
<1>2. QueueOK' /\ CmdOK' /\ FlagOK' /\ EventOK'
  BY DEF QueueOK, CmdOK, FlagOK, EventOK
<1> QED
  BY <1>1, <1>2

LEMMA RestoredType ==
  ASSUME QueueOK, NEW t \in Threads, NEW i \in Own(t)
  PROVE  Restored(t, i) \in Seq(Own(t))
<1>1. queue[t] \in Seq(Own(t)) /\ <<i>> \in Seq(Own(t))
  BY DEF QueueOK
<1> QED
  BY <1>1 DEF Restored

LEMMA StartThrowsType ==
  ASSUME QueueOK, LaneOK, FlagOK, NEW t \in Threads, NEW l \in Lanes,
         NEW recoverable \in BOOLEAN, StartThrows(t, l, recoverable)
  PROVE  /\ QueueOK' /\ LaneOK'
         /\ rerun' \in [Threads -> BOOLEAN]
         /\ resumeDue' \in BOOLEAN
<1> DEFINE i == lane[t][l].issue
           restore == HasCard(i) /\ status[i] \in {"queued", "staged"}
<1>1. QueueOK'
  <2>1. CASE restore
    <3>1. i \in Own(t)
      BY <2>1, NoIssueAssumption DEF HasCard, LaneOK, LaneRecords, OwnOrNone
    <3> QED
      BY <2>1, <3>1, RestoredType, QueueType DEF StartThrows
  <2>2. CASE ~restore
    BY <2>2 DEF StartThrows, QueueOK
  <2> QED
    BY <2>1, <2>2
<1>2. LaneOK'
  BY ReturnedType, IdleLaneType, LaneType DEF StartThrows
<1>3. rerun' \in [Threads -> BOOLEAN] /\ resumeDue' \in BOOLEAN
  BY DEF StartThrows, Dropped, FlagOK
<1> QED
  BY <1>1, <1>2, <1>3

LEMMA StartFailsType ==
  ASSUME TypeOK, NEW t \in Threads, NEW l \in Lanes, NEW recoverable \in BOOLEAN,
         StartFails(t, l, recoverable) \/ (StartMissing(t, l) /\ recoverable = FALSE)
  PROVE  TypeOK'
<1> USE DEF TypeOK, StartFails, StartMissing
<1>1. StartThrows(t, l, recoverable)
  OBVIOUS
<1>2. /\ QueueOK' /\ LaneOK'
      /\ rerun' \in [Threads -> BOOLEAN]
      /\ resumeDue' \in BOOLEAN
  BY <1>1, StartThrowsType
<1>3. faults' \in Nat
  <2>1. faults \in Nat
    BY DEF FlagOK
  <2>2. faults' = faults + 1 \/ faults' = faults
    BY DEF Fault
  <2> QED
    BY <2>1, <2>2
<1>4. FlagOK'
  BY <1>2, <1>3 DEF FlagOK
<1>5. StatusOK' /\ ActiveOK' /\ CmdOK' /\ BindingOK' /\ EventOK'
  BY DEF StatusOK, ActiveOK, CmdOK, BindingOK, EventOK
<1> QED
  BY <1>2, <1>4, <1>5

LEMMA AcceptType ==
  ASSUME EventOK, LaneOK, NEW t \in Threads, NEW l \in Lanes, Accept(t, l)
  PROVE  /\ turns' \in Seq(TurnRecords)
         /\ inbox' \in [Threads -> Seq(EventRecords)]
         /\ Len(turns) + 1 \in Nat
<1>1. [codex |-> lane[t][l].bind, thread |-> t, issue |-> lane[t][l].issue,
       live |-> TRUE] \in TurnRecords
  BY DEF LaneOK, LaneRecords, TurnRecords, OwnOrNone, Own, IssueOrNone
<1>2. [kind |-> "started", turn |-> Len(turns) + 1] \in EventRecords
  BY DEF EventOK, EventRecords, EventKinds
<1> QED
  BY <1>1, <1>2 DEF EventOK, Accept

LEMMA TurnRespondsType ==
  ASSUME TypeOK, NEW t \in Threads, NEW l \in Lanes, TurnResponds(t, l)
  PROVE  TypeOK'
<1> USE DEF TypeOK, TurnResponds
<1>1. StatusOK'
  BY PatchedType DEF StatusOK, Statuses
<1>2. LaneOK'
  BY ReturnedType, LaneType
<1>3. BindingOK' /\ EventOK'
  BY AcceptType DEF BindingOK, EventOK
<1>4. QueueOK' /\ ActiveOK' /\ CmdOK' /\ FlagOK'
  BY DEF QueueOK, ActiveOK, CmdOK, FlagOK
<1> QED
  BY <1>1, <1>2, <1>3, <1>4

LEMMA InvalidateType ==
  ASSUME BindingOK, NEW t \in Threads, Invalidate(t) \/ KeepBinding
  PROVE  /\ codex' \in [Threads -> Nat]
         /\ codexMap' \in [Bindings -> Threads \cup {NoThread}]
<1>1. CASE Invalidate(t)
  BY <1>1 DEF BindingOK, Invalidate
<1>2. CASE KeepBinding
  BY <1>2 DEF BindingOK, KeepBinding
<1> QED
  BY <1>1, <1>2

LEMMA TurnStartFailsType ==
  ASSUME TypeOK, NEW t \in Threads, NEW l \in Lanes, TurnStartFails(t, l)
  PROVE  TypeOK'
<1> USE DEF TypeOK, TurnStartFails
<1>1. StatusOK'
  BY PatchedType DEF StatusOK, Statuses
<1>2. ActiveOK'
  BY ClearedPType, ActiveType DEF ActiveOK, OwnOrNone, IssueOrNone
<1>3. LaneOK'
  BY ReturnedType, LaneType
<1>4. BindingOK'
  BY InvalidateType DEF BindingOK, Settle
<1>5. FlagOK' /\ EventOK'
  BY AcceptType DEF FlagOK, Fault, ScheduleAll, EventOK
<1>6. QueueOK' /\ CmdOK'
  BY DEF QueueOK, CmdOK
<1> QED
  BY <1>1, <1>2, <1>3, <1>4, <1>5, <1>6

LEMMA TurnThreadNotFoundType ==
  ASSUME TypeOK, NEW t \in Threads, NEW l \in Lanes, TurnThreadNotFound(t, l)
  PROVE  TypeOK'
<1> USE DEF TypeOK, TurnThreadNotFound
<1>1. LaneOK'
  <2>1. lane[t][l] \in LaneRecords(t)
    BY DEF LaneOK
  <2>2. [lane[t][l] EXCEPT !.pc = "rebind", !.retried = TRUE] \in LaneRecords(t)
    BY <2>1 DEF LaneRecords, LanePcs
  <2> QED
    BY <2>2, LaneType
<1>2. BindingOK' /\ FlagOK'
  BY InvalidateType DEF BindingOK, FlagOK, Fault
<1>3. StatusOK' /\ QueueOK' /\ ActiveOK' /\ CmdOK' /\ EventOK'
  BY DEF StatusOK, QueueOK, ActiveOK, CmdOK, EventOK
<1> QED
  BY <1>1, <1>2, <1>3

LEMMA RebindDoneType ==
  ASSUME TypeOK, NEW t \in Threads, NEW l \in Lanes, RebindDone(t, l)
  PROVE  TypeOK'
<1> USE DEF TypeOK, RebindDone
<1>1. LaneOK'
  BY BindType, LaneFieldType, LaneType DEF LanePcs
<1>2. BindingOK'
  BY BindType DEF BindingOK
<1>3. StatusOK' /\ QueueOK' /\ ActiveOK' /\ CmdOK' /\ FlagOK' /\ EventOK'
  BY DEF StatusOK, QueueOK, ActiveOK, CmdOK, FlagOK, EventOK
<1> QED
  BY <1>1, <1>2, <1>3

LEMMA NormalizeRootThreadType ==
  ASSUME TypeOK, NEW t \in Threads, NormalizeRootThread(t)
  PROVE  TypeOK'
<1> USE DEF TypeOK, NormalizeRootThread
<1>1. LaneOK'
  BY IdleLaneType, LaneType DEF Lanes
<1>2. StatusOK' /\ QueueOK' /\ ActiveOK' /\ CmdOK' /\ BindingOK' /\ FlagOK' /\ EventOK'
  BY DEF StatusOK, QueueOK, ActiveOK, CmdOK, BindingOK, FlagOK, EventOK
<1> QED
  BY <1>1, <1>2

LEMMA RepairedType ==
  ASSUME NEW t \in Threads, NEW q \in Repaired(t)
  PROVE  q \in Seq(Own(t))
<1>1. QueuedIn(t) \subseteq Issues /\ QueuedIn(t) \subseteq Own(t)
  BY DEF QueuedIn, Own
<1>2. IsFiniteSet(QueuedIn(t))
  BY <1>1, IssueAssumption, FS_Subset
<1>3. q \in Orders(QueuedIn(t))
  BY DEF Repaired
<1>4. q \in Seq(QueuedIn(t))
  BY <1>2, <1>3, OrdersType
<1> QED
  BY <1>1, <1>4, SeqMonotonic

LEMMA ResumeType ==
  ASSUME LaneOK, NEW t \in Threads, NEW l \in Lanes, NEW q, Resume(t, l, q)
  PROVE  LaneOK'
<1>1. CASE q = <<>>
  BY <1>1, IdleLaneType, LaneType DEF Resume
<1>2. CASE q # <<>> /\ l = "normalize" /\ ~Busy(t)
  <2> DEFINE both == [queue |-> [IdleLane EXCEPT !.pc = "once", !.mode = "noRecovery"],
                      normalize |-> IdleLane]
  <2>1. both \in [Lanes -> LaneRecords(t)]
    BY IdleLaneType DEF Lanes
  <2>2. lane' = [lane EXCEPT ![t] = both]
    BY <1>2 DEF Resume
  <2> HIDE DEF both
  <2> QED
    BY <2>1, <2>2 DEF LaneOK
<1>3. CASE q # <<>> /\ ~(l = "normalize" /\ ~Busy(t))
  BY <1>3, LaneFieldType, LaneType DEF Resume, LanePcs
<1> QED
  BY <1>1, <1>2, <1>3

LEMMA RepairType ==
  ASSUME StatusOK, QueueOK, LaneOK, CmdOK, NEW t \in Threads, NEW l \in Lanes,
         NEW refresh, Repair(t, l, refresh)
  PROVE  StatusOK' /\ QueueOK' /\ LaneOK' /\ CmdOK'
<1>1. CASE Promotions(t, l, refresh) # {}
  <2>1. PICK i \in Promotions(t, l, refresh) :
          /\ queue' = [queue EXCEPT ![t] = <<i>>]
          /\ status' = [status EXCEPT ![i] = "queued"]
          /\ cmd' = Freeze(t)
          /\ Resume(t, l, <<i>>)
    BY <1>1 DEF Repair
  <2>2. i \in Issues /\ i \in Own(t)
    BY DEF Promotions, Own
  <2>3. <<i>> \in Seq(Own(t))
    BY <2>2
  <2>4. StatusOK'
    BY <2>1, <2>2 DEF StatusOK, Statuses
  <2>5. CmdOK'
    BY <2>1, FreezeType DEF CommandMap, CmdOK
  <2> QED
    BY <2>1, <2>3, <2>4, <2>5, QueueType, ResumeType
<1>2. CASE Promotions(t, l, refresh) = {}
  <2>1. PICK q \in Repaired(t) :
          /\ queue' = [queue EXCEPT ![t] = q]
          /\ UNCHANGED status
          /\ cmd' = IF q # queue[t] THEN Freeze(t) ELSE cmd
          /\ Resume(t, l, q)
    BY <1>2 DEF Repair
  <2>2. QueueOK'
    BY <2>1, RepairedType, QueueType
  <2>3. CmdOK'
    BY <2>1, FreezeType DEF CommandMap, CmdOK
  <2> QED
    BY <2>1, <2>2, <2>3, ResumeType DEF StatusOK
<1> QED
  BY <1>1, <1>2

LEMMA ClearInvalidType ==
  ASSUME ActiveOK, BindingOK, NEW t \in Threads
  PROVE  /\ ClearInvalidP(t) \in [Threads -> IssueOrNone]
         /\ \A p \in Threads : ClearInvalidP(t)[p] \in OwnOrNone(p)
         /\ ClearInvalidTurn(t) \in [Threads -> Nat]
<1>1. ClearInvalidTurn(t) \in [Threads -> Nat]
  BY DEF ClearInvalidTurn, BindingOK
<1> QED
  BY <1>1, ClearedPType DEF ClearInvalidP, ActiveOK

LEMMA NormalizeListedType ==
  ASSUME TypeOK, NEW t \in Threads, NEW l \in Lanes, NEW refresh \in BOOLEAN,
         NormalizeListed(t, l, refresh)
  PROVE  TypeOK'
<1> USE DEF TypeOK
<1>1. PICK a \in Tracked(t) :
        /\ active' = [active EXCEPT ![t] = a]
        /\ IF a = NoIssue
           THEN Repair(t, l, refresh)
           ELSE /\ SetLane(t, l, IdleLane)
                /\ UNCHANGED <<queue, status, cmd>>
  BY DEF NormalizeListed
<1>2. a \in OwnOrNone(t)
  BY TrackedType
<1>3. activeP' = ClearInvalidP(t) /\ turnId' = ClearInvalidTurn(t)
  BY DEF NormalizeListed
<1>4. ActiveOK'
  BY <1>1, <1>2, <1>3, ClearInvalidType, ActiveType
<1>5. StatusOK' /\ QueueOK' /\ LaneOK' /\ CmdOK'
  <2>1. CASE a = NoIssue
    BY <1>1, <2>1, RepairType
  <2>2. CASE a # NoIssue
    <3>1. LaneOK'
      BY <1>1, <2>2, IdleLaneType, LaneType
    <3> QED
      BY <1>1, <2>2, <3>1 DEF StatusOK, QueueOK, CmdOK
  <2> QED
    BY <2>1, <2>2
<1>6. BindingOK'
  BY <1>3, ClearInvalidType DEF BindingOK, NormalizeListed
<1>7. FlagOK'
  BY DEF FlagOK, NormalizeListed
<1>8. EventOK'
  BY DEF EventOK, NormalizeListed
<1> QED
  BY <1>4, <1>5, <1>6, <1>7, <1>8

LEMMA NormalizeFailsType ==
  ASSUME TypeOK, NEW t \in Threads, NEW l \in Lanes, NormalizeFails(t, l)
  PROVE  TypeOK'
<1> USE DEF TypeOK, NormalizeFails
<1>1. LaneOK'
  BY IdleLaneType, LaneType
<1>2. FlagOK'
  BY DEF FlagOK, Dropped, Fault
<1>3. StatusOK' /\ QueueOK' /\ ActiveOK' /\ CmdOK' /\ BindingOK' /\ EventOK'
  BY DEF StatusOK, QueueOK, ActiveOK, CmdOK, BindingOK, EventOK
<1> QED
  BY <1>1, <1>2, <1>3

LEMMA InterruptIdleType ==
  ASSUME TypeOK, NEW i \in Issues, NEW op \in {"interrupt", "restage"}, InterruptIdle(i, op)
  PROVE  TypeOK'
<1> USE DEF TypeOK, InterruptIdle
<1> DEFINE t == ThreadOf[i]
           q == Without(queue[t], i)
<1>1. t \in Threads
  BY ThreadAssumption
<1>2. q \in Seq(Own(t))
  BY <1>1, WithoutType DEF QueueOK
<1>3. QueueOK'
  BY <1>1, <1>2, QueueType
<1>4. CmdOK'
  BY <1>1, FreezeType DEF CommandMap, CmdOK
<1>5. StatusOK'
  BY DEF StatusOK, Statuses, InterruptTarget
<1>6. FlagOK'
  BY <1>1 DEF FlagOK
<1>7. ActiveOK' /\ LaneOK' /\ BindingOK' /\ EventOK'
  BY DEF ActiveOK, LaneOK, BindingOK, EventOK
<1> QED
  BY <1>3, <1>4, <1>5, <1>6, <1>7

LEMMA SuppressType ==
  ASSUME BindingOK, NEW t \in Threads, Suppress(t)
  PROVE  stopped' \in [Threads -> StopRecords]
BY DEF BindingOK, Suppress, StopRecords

\* A command that begins: its record names an issue and holds no queue yet.
LEMMA BeginCommandType ==
  ASSUME CmdOK, NEW h \in Handlers, NEW rec \in CmdRecords, rec.issue \in Issues,
         rec.held = <<>>, cmd' = [cmd EXCEPT ![h] = rec]
  PROVE  CmdOK'
<1>1. CommandMap(cmd)
  BY DEF CommandMap, CmdOK
<1>2. rec.held \in Seq(Own(ThreadOf[rec.issue]))
  OBVIOUS
<1> QED
  BY <1>1, <1>2, CommandType

LEMMA InterruptBeginType ==
  ASSUME TypeOK, NEW h \in Handlers, NEW i \in Issues,
         NEW op \in {"interrupt", "restage"}, InterruptBegin(h, i, op)
  PROVE  TypeOK'
<1> USE DEF TypeOK
<1> DEFINE t == ThreadOf[i]
           resume == active[t] = i
           wasQueued == i \in ToSet(queue[t])
<1>1. t \in Threads
  BY ThreadAssumption
<1> DEFINE rec == [NoCmd EXCEPT !.op = op, !.pc = AwaitStop(t), !.issue = i,
                                !.wasActive = TRUE, !.resume = resume,
                                !.wasQueued = wasQueued]
<1>2. cmd' = [cmd EXCEPT ![h] = rec]
  BY DEF InterruptBegin
<1>3. resume \in BOOLEAN /\ wasQueued \in BOOLEAN
  OBVIOUS
<1> HIDE DEF resume, wasQueued
<1>4. CmdOK'
  <2>1. AwaitStop(t) \in {"now", "stop"}
    BY DEF AwaitStop
  <2> DEFINE p == AwaitStop(t)
  <2>2. p \in {"none", "now", "stop", "cleanup"}
    BY <2>1
  <2> HIDE DEF p
  <2>3. NoCmd \in CmdRecords
    BY EmptySeq DEF NoCmd, CmdRecords, IssueOrNone
  <2>4. [NoCmd EXCEPT !.op = op, !.pc = p, !.issue = i, !.wasActive = TRUE,
                      !.resume = resume, !.wasQueued = wasQueued] \in CmdRecords
    BY <1>3, <2>2, <2>3 DEF CmdRecords, IssueOrNone
  <2>5. rec \in CmdRecords
    BY <2>4 DEF p
  <2>6. rec.issue = i /\ rec.held = <<>>
    BY DEF NoCmd
  <2> HIDE DEF rec
  <2> QED
    BY <1>2, <2>5, <2>6, BeginCommandType
<1>5. BindingOK'
  BY <1>1, SuppressType DEF InterruptBegin, BindingOK
<1>6. StatusOK' /\ QueueOK' /\ ActiveOK' /\ LaneOK' /\ FlagOK' /\ EventOK'
  BY DEF InterruptBegin, StatusOK, QueueOK, ActiveOK, LaneOK, FlagOK, EventOK
<1> QED
  BY <1>4, <1>5, <1>6

LEMMA InterruptEndType ==
  ASSUME TypeOK, NEW h \in Handlers, NEW errors \in BOOLEAN, InterruptEnd(h, errors)
  PROVE  TypeOK'
<1> USE DEF TypeOK
<1> DEFINE c == cmd[h]
           t == ThreadOf[c.issue]
           q == IF c.frozen THEN c.held ELSE queue[t]
<1>1. c.issue \in Issues /\ c.held \in Seq(Own(t)) /\ c.op \in {"interrupt", "restage"}
  BY DEF InterruptEnd, CmdOK
<1>2. t \in Threads
  BY <1>1, ThreadAssumption
<1>3. q \in Seq(Own(t))
  BY <1>1, <1>2 DEF QueueOK
<1>4. QueueOK'
  <2>1. queue' = IF c.wasQueued THEN [queue EXCEPT ![t] = Without(q, c.issue)] ELSE queue
    BY DEF InterruptEnd
  <2> HIDE DEF q
  <2>2. Without(q, c.issue) \in Seq(Own(t))
    BY <1>3, WithoutType
  <2>3. CASE c.wasQueued
    BY <1>2, <2>1, <2>2, <2>3, QueueType
  <2>4. CASE ~c.wasQueued
    BY <2>1, <2>4 DEF QueueOK
  <2> QED
    BY <2>3, <2>4
<1>5. CmdOK'
  <2>1. CommandMap(Freeze(t)) /\ CommandMap(cmd)
    BY <1>2, FreezeType DEF CommandMap, CmdOK
  <2>2. cmd' = [IF c.wasQueued THEN Freeze(t) ELSE cmd EXCEPT ![h] = NoCmd]
    BY DEF InterruptEnd
  <2> QED
    BY <2>1, <2>2, NoCmdType
<1>6. ActiveOK'
  BY <1>2, ClearType DEF InterruptEnd
<1>7. StatusOK'
  <2>1. InterruptTarget(c.op) \in Statuses
    BY DEF InterruptTarget, Statuses
  <2> QED
    BY <2>1, PatchedType DEF InterruptEnd, StatusOK
<1>8. BindingOK'
  BY <1>2, InvalidateType DEF InterruptEnd, StopErrors, BindingOK, Settle
<1>9. FlagOK'
  BY DEF InterruptEnd, FlagOK, ScheduleAll
<1>10. LaneOK' /\ EventOK'
  BY DEF InterruptEnd, LaneOK, EventOK
<1> QED
  BY <1>4, <1>5, <1>6, <1>7, <1>8, <1>9, <1>10

LEMMA DeleteBeginType ==
  ASSUME TypeOK, NEW h \in Handlers, NEW i \in Issues, DeleteBegin(h, i)
  PROVE  TypeOK'
<1> USE DEF TypeOK
<1> DEFINE t == ThreadOf[i]
           w == WasActive(i)
           p == IF WasActive(i) THEN AwaitStop(t) ELSE "cleanup"
           rec == [NoCmd EXCEPT !.op = "delete", !.issue = i, !.wasActive = w, !.pc = p]
<1>1. t \in Threads
  BY ThreadAssumption
<1>2. cmd' = [cmd EXCEPT ![h] = rec]
  BY DEF DeleteBegin
<1>3. CmdOK'
  <2>1. p \in {"none", "now", "stop", "cleanup"} /\ w \in BOOLEAN
    BY DEF AwaitStop, WasActive
  <2>2. NoCmd \in CmdRecords
    BY EmptySeq DEF NoCmd, CmdRecords, IssueOrNone
  <2> HIDE DEF p, w
  <2>3. rec \in CmdRecords
    BY <2>1, <2>2 DEF CmdRecords, IssueOrNone
  <2>4. rec.issue = i /\ rec.held = <<>>
    BY DEF NoCmd
  <2> HIDE DEF rec
  <2> QED
    BY <1>2, <2>3, <2>4, BeginCommandType
<1>4. BindingOK'
  BY <1>1, SuppressType DEF DeleteBegin, BindingOK
<1>5. StatusOK' /\ QueueOK' /\ ActiveOK' /\ LaneOK' /\ FlagOK' /\ EventOK'
  BY DEF DeleteBegin, StatusOK, QueueOK, ActiveOK, LaneOK, FlagOK, EventOK
<1> QED
  BY <1>3, <1>4, <1>5

LEMMA DeleteStoppedType ==
  ASSUME TypeOK, NEW h \in Handlers, NEW errors \in BOOLEAN, DeleteStopped(h, errors)
  PROVE  TypeOK'
<1> USE DEF TypeOK, DeleteStopped
<1> DEFINE t == ThreadOf[cmd[h].issue]
<1>1. t \in Threads
  BY ThreadAssumption DEF CmdOK
<1>2. CmdOK'
  <2>1. cmd[h] \in CmdRecords
    BY DEF CmdOK
  <2>2. [cmd[h] EXCEPT !.pc = "cleanup"] \in CmdRecords
    BY <2>1 DEF CmdRecords
  <2>3. cmd' = [cmd EXCEPT ![h] = [cmd[h] EXCEPT !.pc = "cleanup"]]
    BY DEF CmdOK
  <2>4. CommandMap(cmd)
    BY DEF CommandMap, CmdOK
  <2>5. /\ [cmd[h] EXCEPT !.pc = "cleanup"].issue = cmd[h].issue
        /\ [cmd[h] EXCEPT !.pc = "cleanup"].held = cmd[h].held
        /\ [cmd[h] EXCEPT !.pc = "cleanup"].op = cmd[h].op
    BY <2>1 DEF CmdRecords
  <2> QED
    BY <2>2, <2>3, <2>4, <2>5, CommandType DEF CmdOK
<1>3. ActiveOK'
  BY <1>1, ClearType
<1>4. BindingOK'
  BY <1>1, InvalidateType DEF StopErrors, BindingOK, Settle
<1>5. StatusOK' /\ QueueOK' /\ LaneOK' /\ FlagOK' /\ EventOK'
  BY DEF StatusOK, QueueOK, LaneOK, FlagOK, EventOK
<1> QED
  BY <1>2, <1>3, <1>4, <1>5

LEMMA DeleteEndType ==
  ASSUME TypeOK, NEW h \in Handlers, DeleteEnd(h)
  PROVE  TypeOK'
<1> USE DEF TypeOK, DeleteEnd
<1> DEFINE i == cmd[h].issue
           t == ThreadOf[i]
<1>1. i \in Issues /\ t \in Threads
  BY ThreadAssumption DEF CmdOK
<1>2. QueueOK'
  <2>1. Without(queue[t], i) \in Seq(Own(t))
    BY <1>1, WithoutType DEF QueueOK
  <2> QED
    BY <1>1, <2>1, QueueType
<1>3. CmdOK'
  BY <1>1, FreezeType, NoCmdType
<1>4. StatusOK'
  BY DEF StatusOK, Statuses
<1>5. FlagOK'
  BY DEF FlagOK, ScheduleAll
<1>6. ActiveOK' /\ LaneOK' /\ BindingOK' /\ EventOK'
  BY DEF ActiveOK, LaneOK, BindingOK, EventOK
<1> QED
  BY <1>2, <1>3, <1>4, <1>5, <1>6

LEMMA ReleaseBeginType ==
  ASSUME TypeOK, NEW h \in Handlers, NEW t \in Threads, NEW op \in {"unlock", "stop"},
         ReleaseBegin(h, t, op)
  PROVE  TypeOK'
<1> USE DEF TypeOK
<1>1. PICK a \in Tracked(t) :
        /\ active' = [active EXCEPT ![t] = a]
        /\ IF a = NoIssue
           THEN /\ IF op = "unlock" THEN ScheduleAll ELSE UNCHANGED due
                /\ UNCHANGED <<stopped, cmd>>
           ELSE /\ stopped' = [stopped EXCEPT ![t] =
                     [on |-> TRUE, codex |-> codex[t], turn |-> turnId'[t]]]
                /\ cmd' = [cmd EXCEPT ![h] = [NoCmd EXCEPT !.op = op, !.pc = AwaitStop(t),
                                               !.issue = a, !.wasActive = TRUE]]
                /\ UNCHANGED due
  BY DEF ReleaseBegin
<1>2. activeP' = ClearInvalidP(t) /\ turnId' = ClearInvalidTurn(t)
  BY DEF ReleaseBegin
<1>3. a \in OwnOrNone(t)
  BY TrackedType
<1>4. ActiveOK'
  BY <1>1, <1>2, <1>3, ClearInvalidType, ActiveType
<1>5. turnId' \in [Threads -> Nat]
  BY <1>2, ClearInvalidType
<1>6. StatusOK' /\ QueueOK' /\ LaneOK' /\ EventOK'
  BY DEF ReleaseBegin, StatusOK, QueueOK, LaneOK, EventOK
<1>7. CASE a = NoIssue
  <2>1. CmdOK'
    BY <1>1, <1>7 DEF CmdOK
  <2>2. BindingOK'
    BY <1>1, <1>5, <1>7 DEF ReleaseBegin, BindingOK
  <2>3. FlagOK'
    BY <1>1, <1>7 DEF ReleaseBegin, FlagOK, ScheduleAll
  <2> QED
    BY <1>4, <1>6, <2>1, <2>2, <2>3
<1>8. CASE a # NoIssue
  <2>1. a \in Issues
    BY <1>3, <1>8 DEF OwnOrNone, Own
  <2>2. CmdOK'
    <3> DEFINE p == AwaitStop(t)
               rec == [NoCmd EXCEPT !.op = op, !.pc = p, !.issue = a, !.wasActive = TRUE]
    <3>1. p \in {"none", "now", "stop", "cleanup"}
      BY DEF AwaitStop
    <3>2. NoCmd \in CmdRecords
      BY EmptySeq DEF NoCmd, CmdRecords, IssueOrNone
    <3>3. cmd' = [cmd EXCEPT ![h] = rec]
      BY <1>1, <1>8
    <3> HIDE DEF p
    <3>4. rec \in CmdRecords
      BY <2>1, <3>1, <3>2 DEF CmdRecords, IssueOrNone
    <3>5. rec.issue = a /\ rec.held = <<>>
      BY DEF NoCmd
    <3> HIDE DEF rec
    <3> QED
      BY <2>1, <3>3, <3>4, <3>5, BeginCommandType
  <2>3. stopped' \in [Threads -> StopRecords]
    <3>1. codex[t] \in Nat /\ turnId'[t] \in Nat
      BY <1>5 DEF BindingOK
    <3> DEFINE stop == [on |-> TRUE, codex |-> codex[t], turn |-> turnId'[t]]
    <3>2. stop \in StopRecords
      BY <3>1 DEF StopRecords
    <3>3. stopped' = [stopped EXCEPT ![t] = stop]
      BY <1>1, <1>8
    <3> HIDE DEF stop
    <3> QED
      BY <3>2, <3>3 DEF BindingOK
  <2>4. BindingOK'
    BY <1>5, <2>3 DEF ReleaseBegin, BindingOK
  <2>5. FlagOK'
    BY <1>1, <1>8 DEF ReleaseBegin, FlagOK
  <2> QED
    BY <1>4, <1>6, <2>2, <2>4, <2>5
<1> QED
  BY <1>7, <1>8

LEMMA UnlockEndType ==
  ASSUME TypeOK, NEW h \in Handlers, NEW errors \in BOOLEAN, NEW refresh \in BOOLEAN,
         UnlockEnd(h, errors, refresh)
  PROVE  TypeOK'
<1> USE DEF TypeOK, UnlockEnd
<1> DEFINE t == ThreadOf[cmd[h].issue]
<1>1. t \in Threads
  BY ThreadAssumption DEF CmdOK
<1>2. CmdOK'
  <2>1. CommandMap(cmd)
    BY DEF CommandMap, CmdOK
  <2> QED
    BY <2>1, NoCmdType
<1>3. QueueOK' /\ LaneOK' /\ EventOK'
  BY DEF QueueOK, LaneOK, EventOK
<1>4. CASE errors /\ ~refresh
  BY <1>2, <1>3, <1>4 DEF StatusOK, ActiveOK, BindingOK, FlagOK
<1>5. CASE ~(errors /\ ~refresh)
  <2>1. StatusOK'
    BY <1>5, PatchedType DEF StatusOK, Statuses
  <2>2. ActiveOK'
    BY <1>1, <1>5, ClearType
  <2>3. BindingOK'
    BY <1>1, <1>5, InvalidateType DEF StopErrors, BindingOK, Settle
  <2>4. FlagOK'
    BY <1>5 DEF FlagOK, ScheduleAll
  <2> QED
    BY <1>2, <1>3, <2>1, <2>2, <2>3, <2>4
<1> QED
  BY <1>4, <1>5

LEMMA StopEndType ==
  ASSUME TypeOK, NEW h \in Handlers, NEW unverified \in BOOLEAN, StopEnd(h, unverified)
  PROVE  TypeOK'
<1> USE DEF TypeOK, StopEnd
<1> DEFINE t == ThreadOf[cmd[h].issue]
<1>1. t \in Threads
  BY ThreadAssumption DEF CmdOK
<1>2. CmdOK'
  <2>1. CommandMap(cmd)
    BY DEF CommandMap, CmdOK
  <2> QED
    BY <2>1, NoCmdType
<1>3. StatusOK'
  BY PatchedType DEF StatusOK, Statuses
<1>4. ActiveOK'
  BY <1>1, ClearType
<1>5. BindingOK'
  BY <1>1, InvalidateType DEF StopErrors, BindingOK, Settle
<1>6. QueueOK' /\ LaneOK' /\ FlagOK' /\ EventOK'
  BY DEF QueueOK, LaneOK, FlagOK, EventOK
<1> QED
  BY <1>2, <1>3, <1>4, <1>5, <1>6

LEMMA HeadType ==
  ASSUME EventOK, NEW t \in Threads, inbox[t] # <<>>
  PROVE  /\ Head(inbox[t]) \in EventRecords
         /\ [inbox EXCEPT ![t] = Tail(@)] \in [Threads -> Seq(EventRecords)]
<1>1. inbox[t] \in Seq(EventRecords)
  BY DEF EventOK
<1>2. Head(inbox[t]) \in EventRecords /\ Tail(inbox[t]) \in Seq(EventRecords)
  BY <1>1
<1> QED
  BY <1>2 DEF EventOK

LEMMA NoStopType == NoStop \in StopRecords
BY DEF NoStop, StopRecords

LEMMA DropEventType ==
  ASSUME TypeOK, NEW t \in Threads, DropEvent(t)
  PROVE  TypeOK'
<1> USE DEF TypeOK, DropEvent
<1>1. EventOK'
  BY HeadType DEF EventOK
<1>2. BindingOK'
  BY NoStopType DEF BindingOK
<1>3. StatusOK' /\ QueueOK' /\ ActiveOK' /\ LaneOK' /\ CmdOK' /\ FlagOK'
  BY DEF StatusOK, QueueOK, ActiveOK, LaneOK, CmdOK, FlagOK
<1> QED
  BY <1>1, <1>2, <1>3

LEMMA TakeEventType ==
  ASSUME BindingOK, EventOK, NEW t \in Threads, TakeEvent(t)
  PROVE  /\ inbox' \in [Threads -> Seq(EventRecords)]
         /\ stopped' \in [Threads -> StopRecords]
         /\ Head(inbox[t]) \in EventRecords
BY HeadType, NoStopType DEF TakeEvent, BindingOK

LEMMA ApplyProgressType ==
  ASSUME TypeOK, NEW t \in Threads, ApplyProgress(t)
  PROVE  TypeOK'
<1> USE DEF TypeOK
<1> DEFINE e == Head(inbox[t])
<1>1. TakeEvent(t)
  BY DEF ApplyProgress
<1>2. /\ inbox' \in [Threads -> Seq(EventRecords)]
      /\ stopped' \in [Threads -> StopRecords]
      /\ e.turn \in Nat
  BY <1>1, TakeEventType DEF EventRecords
<1>3. StatusOK'
  <2>1. CASE e.kind = "waiting"
    BY <2>1, PatchedType DEF ApplyProgress, StatusOK, Statuses
  <2>2. CASE e.kind # "waiting"
    BY <2>2 DEF ApplyProgress, StatusOK, Statuses
  <2> QED
    BY <2>1, <2>2
<1>4. BindingOK'
  BY <1>2 DEF ApplyProgress, BindingOK
<1>5. EventOK'
  BY <1>2 DEF ApplyProgress, EventOK
<1>6. QueueOK' /\ ActiveOK' /\ LaneOK' /\ CmdOK' /\ FlagOK'
  BY DEF ApplyProgress, QueueOK, ActiveOK, LaneOK, CmdOK, FlagOK
<1> QED
  BY <1>3, <1>4, <1>5, <1>6

LEMMA ApplyTerminalType ==
  ASSUME TypeOK, NEW t \in Threads, NEW outcome \in TerminalStatuses,
         ApplyTerminal(t, outcome)
  PROVE  TypeOK'
<1> USE DEF TypeOK
<1> DEFINE e == Head(inbox[t])
<1>1. TakeEvent(t)
  BY DEF ApplyTerminal
<1>2. /\ inbox' \in [Threads -> Seq(EventRecords)]
      /\ stopped' \in [Threads -> StopRecords]
      /\ e \in EventRecords
  BY <1>1, TakeEventType
<1>3. StatusOK'
  <2>1. outcome \in Statuses
    BY DEF TerminalStatuses, Statuses
  <2> QED
    BY <2>1, PatchedType DEF ApplyTerminal, StatusOK
<1>4. BindingOK'
  <2>1. turnId' \in [Threads -> Nat] /\ bindings' \in Nat
    BY DEF ApplyTerminal, BindingOK
  <2>2. Invalidate(t) \/ KeepBinding
    BY DEF ApplyTerminal
  <2> QED
    BY <1>2, <2>1, <2>2, InvalidateType DEF BindingOK
<1>5. FlagOK'
  BY DEF ApplyTerminal, FlagOK, ScheduleAll
<1>6. EventOK'
  <2>1. handling' \in [Threads -> EventRecords]
    BY <1>2 DEF ApplyTerminal, EventOK
  <2> QED
    BY <1>2, <2>1 DEF ApplyTerminal, EventOK
<1>7. QueueOK' /\ ActiveOK' /\ LaneOK' /\ CmdOK'
  BY DEF ApplyTerminal, QueueOK, ActiveOK, LaneOK, CmdOK
<1> QED
  BY <1>3, <1>4, <1>5, <1>6, <1>7

LEMMA SettleTerminalType ==
  ASSUME TypeOK, NEW t \in Threads, SettleTerminal(t)
  PROVE  TypeOK'
<1> USE DEF TypeOK, SettleTerminal
<1>1. ActiveOK'
  BY ClearedPType, ActiveType DEF ActiveOK, OwnOrNone, IssueOrNone
<1>2. FlagOK'
  BY DEF FlagOK, ScheduleAll
<1>3. EventOK'
  <2>1. NoEvent \in EventRecords
    BY DEF NoEvent, EventRecords
  <2> QED
    BY <2>1 DEF EventOK
<1>4. StatusOK' /\ QueueOK' /\ LaneOK' /\ CmdOK' /\ BindingOK'
  BY DEF StatusOK, QueueOK, LaneOK, CmdOK, BindingOK
<1> QED
  BY <1>1, <1>2, <1>3, <1>4

LEMMA ExpireStopType ==
  ASSUME TypeOK, NEW t \in Threads, ExpireStop(t)
  PROVE  TypeOK'
<1> USE DEF TypeOK, ExpireStop
<1>1. BindingOK'
  BY NoStopType DEF BindingOK
<1>2. StatusOK' /\ QueueOK' /\ ActiveOK' /\ LaneOK' /\ CmdOK' /\ FlagOK' /\ EventOK'
  BY DEF StatusOK, QueueOK, ActiveOK, LaneOK, CmdOK, FlagOK, EventOK
<1> QED
  BY <1>1, <1>2

LEMMA WatchRunningIssuesType ==
  ASSUME TypeOK, NEW t \in Threads, WatchRunningIssues(t)
  PROVE  TypeOK'
<1> USE DEF TypeOK
<1>1. PICK a \in Adoptable(t, active[t]) : active' = [active EXCEPT ![t] = a]
  BY DEF WatchRunningIssues
<1>2. a \in OwnOrNone(t)
  BY AdoptableType DEF ActiveOK
<1>3. ActiveOK'
  BY <1>1, <1>2, ActiveType DEF WatchRunningIssues, ActiveOK
<1>4. StatusOK' /\ QueueOK' /\ LaneOK' /\ CmdOK' /\ BindingOK' /\ FlagOK' /\ EventOK'
  BY DEF WatchRunningIssues, StatusOK, QueueOK, LaneOK, CmdOK, BindingOK, FlagOK, EventOK
<1> QED
  BY <1>3, <1>4

LEMMA ReconcileOrphanType ==
  ASSUME TypeOK, NEW t \in Threads, ReconcileOrphan(t)
  PROVE  TypeOK'
<1> USE DEF TypeOK, ReconcileOrphan
<1>1. ActiveOK'
  BY ClearType
<1>2. StatusOK' /\ QueueOK' /\ LaneOK' /\ CmdOK' /\ BindingOK' /\ FlagOK' /\ EventOK'
  BY DEF StatusOK, QueueOK, LaneOK, CmdOK, BindingOK, FlagOK, EventOK
<1> QED
  BY <1>1, <1>2

LEMMA AppServerReadyType ==
  ASSUME TypeOK, AppServerReady
  PROVE  TypeOK'
<1> USE DEF TypeOK, AppServerReady
<1>1. FlagOK'
  BY DEF FlagOK, ScheduleAll
<1>2. StatusOK' /\ QueueOK' /\ ActiveOK' /\ LaneOK' /\ CmdOK' /\ BindingOK' /\ EventOK'
  BY DEF StatusOK, QueueOK, ActiveOK, LaneOK, CmdOK, BindingOK, EventOK
<1> QED
  BY <1>1, <1>2

LEMMA EndTurnType ==
  ASSUME TypeOK, NEW k \in 1..Len(turns), EndTurn(k)
  PROVE  TypeOK'
<1> USE DEF TypeOK
<1>1. turns \in Seq(TurnRecords) /\ k \in Nat
  BY DEF EventOK
<1>2. turns[k] \in TurnRecords
  BY <1>1
<1>3. turns' \in Seq(TurnRecords)
  <2>1. [turns[k] EXCEPT !.live = FALSE] \in TurnRecords
    BY <1>2 DEF TurnRecords
  <2>2. turns' = [turns EXCEPT ![k] = [turns[k] EXCEPT !.live = FALSE]]
    BY <1>1 DEF EndTurn
  <2> QED
    BY <1>1, <2>1, <2>2
<1>4. inbox' \in [Threads -> Seq(EventRecords)]
  <2>1. PICK ending \in EndEvents :
          inbox' = [inbox EXCEPT ![turns[k].thread] =
                      @ \o [n \in 1..Len(ending) |-> [kind |-> ending[n], turn |-> k]]]
    BY DEF EndTurn
  <2> DEFINE events == [n \in 1..Len(ending) |-> [kind |-> ending[n], turn |-> k]]
  <2>2. ending \in Seq(EventKinds)
    BY EventAssumption
  <2>3. \A n \in 1..Len(ending) : [kind |-> ending[n], turn |-> k] \in EventRecords
    BY <1>1, <2>2 DEF EventRecords
  <2>4. Len(ending) \in Nat
    BY <2>2
  <2>5. events \in Seq(EventRecords)
    BY <2>3, <2>4
  <2> HIDE DEF events
  <2>6. turns[k].thread \in Threads
    BY <1>2 DEF TurnRecords
  <2> QED
    BY <2>1, <2>5, <2>6 DEF EventOK, events
<1>5. EventOK'
  BY <1>3, <1>4 DEF EventOK, EndTurn
<1>6. StatusOK' /\ QueueOK' /\ ActiveOK' /\ LaneOK' /\ CmdOK' /\ BindingOK' /\ FlagOK'
  BY DEF EndTurn, StatusOK, QueueOK, ActiveOK, LaneOK, CmdOK, BindingOK, FlagOK
<1> QED
  BY <1>5, <1>6

-----------------------------------------------------------------------------

LEMMA InitType == Init => TypeOK
<1> SUFFICES ASSUME Init PROVE TypeOK
  OBVIOUS
<1> USE DEF Init
<1>1. StatusOK
  BY DEF StatusOK, Statuses
<1>2. QueueOK
  BY DEF QueueOK
<1>3. ActiveOK
  BY DEF ActiveOK, OwnOrNone, IssueOrNone
<1>4. LaneOK
  BY IdleLaneType DEF LaneOK
<1>5. CmdOK
  <2>1. NoCmd \in CmdRecords /\ NoCmd.op = "none"
    BY EmptySeq DEF NoCmd, CmdRecords, IssueOrNone
  <2> QED
    BY <2>1 DEF CmdOK
<1>6. BindingOK
  BY NoStopType DEF BindingOK
<1>7. FlagOK
  BY DEF FlagOK
<1>8. EventOK
  <2>1. NoEvent \in EventRecords
    BY DEF NoEvent, EventRecords
  <2> QED
    BY <2>1, EmptySeq DEF EventOK
<1> QED
  BY <1>1, <1>2, <1>3, <1>4, <1>5, <1>6, <1>7, <1>8 DEF TypeOK

LEMMA QueueStepType ==
  ASSUME TypeOK, NEW t \in Threads, QueueStep(t)
  PROVE  TypeOK'
BY ScheduleQueueType, ProcessIssueQueueType, LoopProcessIssueQueueType,
   StartThreadIssuesType, ReorderThreadIssuesType DEF QueueStep

LEMMA LaneStepType ==
  ASSUME TypeOK, NEW t \in Threads, NEW l \in Lanes, LaneStep(t, l)
  PROVE  TypeOK'
BY ProcessIssueQueueOnceType, StageDoneType, EnsureDoneType, StartFailsType,
   TurnRespondsType, TurnStartFailsType, TurnThreadNotFoundType, RebindDoneType,
   NormalizeListedType, NormalizeFailsType DEF LaneStep

LEMMA CommandStepType ==
  ASSUME TypeOK, NEW h \in Handlers, CommandBegins(h) \/ CommandAnswered(h)
  PROVE  TypeOK'
BY InterruptBeginType, DeleteBeginType, ReleaseBeginType, InterruptEndType,
   DeleteStoppedType, DeleteEndType, UnlockEndType, StopEndType
   DEF CommandBegins, CommandAnswered

LEMMA EventStepType ==
  ASSUME TypeOK, NEW t \in Threads, EventStep(t)
  PROVE  TypeOK'
BY DropEventType, ApplyProgressType, ApplyTerminalType, SettleTerminalType,
   ExpireStopType, WatchRunningIssuesType, ReconcileOrphanType DEF EventStep

LEMMA StutterType ==
  ASSUME TypeOK, UNCHANGED vars
  PROVE  TypeOK'
BY DEF vars, TypeOK, StatusOK, QueueOK, ActiveOK, LaneOK, CmdOK, BindingOK, FlagOK, EventOK

LEMMA NextType == TypeOK /\ [Next]_vars => TypeOK'
BY CreateType, InterruptIdleType, QueueStepType, LaneStepType, NormalizeRootThreadType,
   CommandStepType, EventStepType, AppServerReadyType, EndTurnType, StutterType DEF Next

\* Types, and the isolation of threads, hold in every reachable state: a queue, a
\* lock, a pipeline or a captured queue of one thread never names an issue of
\* another one, whatever the handlers of the bridge interleave.
THEOREM TypeCorrect == Spec => []TypeOK
BY InitType, NextType, PTL DEF Spec

-----------------------------------------------------------------------------
(***************************************************************************)
(* One issue at a time                                                     *)
(*                                                                         *)
(* Most steps are calm: they make no issue occupy a thread that did not    *)
(* occupy it before, and no start advances.  The others are taking an      *)
(* issue out of the queue, beginning its turn and the answer of turn/start.*)
(***************************************************************************)
CalmStatus ==
  \A i \in Issues : status'[i] \in LiveStatuses => i \in Occupants(ThreadOf[i])

CalmLocks ==
  \A t \in Threads : /\ active'[t] \in Occupants(t) \cup {NoIssue}
                     /\ activeP'[t] \in {NoIssue, active'[t]}

CalmLanes ==
  \A t \in Threads :
    /\ lane'[t]["normalize"].pc = "idle"
    /\ lane'[t]["queue"].pc \in {"stage", "ensure"} =>
         lane[t]["queue"].pc \in {"stage", "ensure"}
    /\ lane'[t]["queue"].pc \in {"turn", "rebind"} =>
         /\ lane[t]["queue"].pc \in {"turn", "rebind"}
         /\ lane'[t]["queue"].issue = lane[t]["queue"].issue

LEMMA CalmLock ==
  ASSUME LockInv, CalmStatus, CalmLocks, CalmLanes
  PROVE  LockInv'
<1>1. ASSUME NEW t \in Threads PROVE Occupants(t)' \subseteq Occupants(t)
  BY DEF CalmStatus, CalmLocks, Occupants, RunningIn
<1>2. SoleOccupant'
  BY <1>1 DEF LockInv, SoleOccupant
<1>3. TrackingAgrees'
  BY DEF CalmLocks, TrackingAgrees
<1>4. NoNormalizer'
  BY DEF CalmLanes, NoNormalizer
<1>5. StartExclusive'
  <2> SUFFICES ASSUME NEW t \in Threads
               PROVE  /\ lane'[t]["queue"].pc \in {"stage", "ensure"} => Occupants(t)' = {}
                      /\ lane'[t]["queue"].pc \in {"turn", "rebind"} =>
                           Occupants(t)' \subseteq {lane'[t]["queue"].issue}
    BY DEF StartExclusive
  <2>1. Occupants(t)' \subseteq Occupants(t)
    BY <1>1
  <2>2. CASE lane'[t]["queue"].pc \in {"stage", "ensure"}
    BY <2>1, <2>2 DEF LockInv, StartExclusive, CalmLanes
  <2>3. CASE lane'[t]["queue"].pc \in {"turn", "rebind"}
    BY <2>1, <2>3 DEF LockInv, StartExclusive, CalmLanes
  <2> QED
    BY <2>2, <2>3
<1> QED
  BY <1>2, <1>3, <1>4, <1>5 DEF LockInv

LEMMA SameStatusCalm ==
  ASSUME UNCHANGED status
  PROVE  CalmStatus
BY DEF CalmStatus, Occupants, RunningIn

\* A status that is set to one that does not run.
LEMMA QuietStatusCalm ==
  ASSUME StatusOK, status' \in [Issues -> Statuses],
         \A i \in Issues : status'[i] = status[i] \/ status'[i] \notin LiveStatuses
  PROVE  CalmStatus
BY DEF CalmStatus, Occupants, RunningIn

LEMMA PatchedCalm ==
  ASSUME StatusOK, NEW i, NEW s \in Statuses \ LiveStatuses, status' = Patched(i, s)
  PROVE  CalmStatus
<1>1. \A j \in Issues : status'[j] = status[j] \/ status'[j] \notin LiveStatuses
  BY DEF Patched, HasCard, StatusOK
<1> QED
  BY <1>1, PatchedType, QuietStatusCalm

LEMMA SameLocksCalm ==
  ASSUME LockInv, UNCHANGED <<active, activeP>>
  PROVE  CalmLocks
BY DEF CalmLocks, LockInv, TrackingAgrees, Occupants

LEMMA ReleasedCalm ==
  ASSUME ActiveOK, LockInv, NEW t \in Threads,
         active' = [active EXCEPT ![t] = NoIssue],
         activeP' \in {ClearedP(t), [ClearedP(t) EXCEPT ![t] = NoIssue]}
  PROVE  CalmLocks
<1> SUFFICES ASSUME NEW p \in Threads
             PROVE  /\ active'[p] \in Occupants(p) \cup {NoIssue}
                    /\ activeP'[p] \in {NoIssue, active'[p]}
  BY DEF CalmLocks
<1>1. activeP[p] \in {NoIssue, active[p]}
  BY DEF LockInv, TrackingAgrees
<1>2. CASE p = t
  <2>1. active'[p] = NoIssue
    BY <1>2 DEF ActiveOK
  <2>2. activeP'[p] = NoIssue
    BY <1>1, <1>2 DEF ClearedP, ActiveOK
  <2> QED
    BY <2>1, <2>2
<1>3. CASE p # t
  <2>1. active'[p] = active[p]
    BY <1>3 DEF ActiveOK
  <2>2. activeP'[p] \in {NoIssue, activeP[p]}
    BY <1>3 DEF ClearedP, ActiveOK
  <2> QED
    BY <1>1, <2>1, <2>2 DEF Occupants
<1> QED
  BY <1>2, <1>3

LEMMA ClearCalm ==
  ASSUME ActiveOK, LockInv, NEW t \in Threads, Clear(t)
  PROVE  CalmLocks
BY ReleasedCalm DEF Clear

\* Adopting a running issue: it occupied the thread already, and alone.
LEMMA AdoptCalm ==
  ASSUME ActiveOK, LockInv, NEW t \in Threads, NEW a \in Adoptable(t, active[t]),
         active' = [active EXCEPT ![t] = a], UNCHANGED activeP
  PROVE  CalmLocks
<1> SUFFICES ASSUME NEW p \in Threads
             PROVE  /\ active'[p] \in Occupants(p) \cup {NoIssue}
                    /\ activeP'[p] \in {NoIssue, active'[p]}
  BY DEF CalmLocks
<1>1. activeP[p] \in {NoIssue, active[p]}
  BY DEF LockInv, TrackingAgrees
<1>2. CASE p = t
  <2>1. active'[p] = a
    BY <1>2 DEF ActiveOK
  <2>2. a \in Occupants(t) \cup {NoIssue}
    BY DEF Adoptable, Occupants
  <2>3. a = active[t] \/ a \in RunningIn(t)
    BY DEF Adoptable
  <2>4. CASE a = active[t]
    BY <1>1, <1>2, <2>1, <2>2, <2>4
  <2>5. CASE a \in RunningIn(t) /\ a # active[t]
    <3>1. a \in Occupants(t)
      BY <2>5 DEF Occupants
    <3>2. active[t] = NoIssue
      BY <2>5, <3>1 DEF LockInv, SoleOccupant, Occupants
    <3> QED
      BY <1>1, <1>2, <2>1, <2>2, <3>2
  <2> QED
    BY <2>3, <2>4, <2>5
<1>3. CASE p # t
  BY <1>1, <1>3 DEF ActiveOK, Occupants
<1> QED
  BY <1>2, <1>3

LEMMA TrackedCalm ==
  ASSUME ActiveOK, LockInv, NEW t \in Threads, NEW a \in Tracked(t),
         active' = [active EXCEPT ![t] = a], activeP' = ClearInvalidP(t)
  PROVE  CalmLocks
<1>1. CASE ~Invalid(t)
  BY <1>1, AdoptCalm DEF Tracked, ClearInvalidP
<1>2. CASE Invalid(t)
  <2> SUFFICES ASSUME NEW p \in Threads
               PROVE  /\ active'[p] \in Occupants(p) \cup {NoIssue}
                      /\ activeP'[p] \in {NoIssue, active'[p]}
    BY DEF CalmLocks
  <2>1. activeP[p] \in {NoIssue, active[p]} /\ activeP' = ClearedP(t)
    BY <1>2 DEF LockInv, TrackingAgrees, ClearInvalidP
  <2>2. CASE p = t
    <3>1. active'[p] = a
      BY <2>2 DEF ActiveOK
    <3>2. a \in Occupants(t) \cup {NoIssue}
      BY <1>2, NoIssueAssumption DEF Tracked, Adoptable, Occupants
    <3>3. activeP'[p] = NoIssue
      BY <2>1, <2>2 DEF ClearedP, ActiveOK
    <3> QED
      BY <2>2, <3>1, <3>2, <3>3
  <2>3. CASE p # t
    <3>1. active'[p] = active[p]
      BY <2>3 DEF ActiveOK
    <3>2. activeP'[p] \in {NoIssue, activeP[p]}
      BY <2>1, <2>3 DEF ClearedP, ActiveOK
    <3> QED
      BY <2>1, <3>1, <3>2 DEF Occupants
  <2> QED
    BY <2>2, <2>3
<1> QED
  BY <1>1, <1>2

LEMMA SameLanesCalm ==
  ASSUME LockInv, UNCHANGED lane
  PROVE  CalmLanes
BY DEF CalmLanes, LockInv, NoNormalizer

\* A lane that moves without advancing a start.
LEMMA MovedLaneCalm ==
  ASSUME LaneOK, LockInv, NEW t \in Threads, NEW rec, SetLane(t, "queue", rec),
         \/ rec.pc \notin {"stage", "ensure", "turn", "rebind"}
         \/ /\ rec.pc \in {"stage", "ensure"}
            /\ lane[t]["queue"].pc \in {"stage", "ensure"}
         \/ /\ rec.pc \in {"turn", "rebind"}
            /\ lane[t]["queue"].pc \in {"turn", "rebind"}
            /\ rec.issue = lane[t]["queue"].issue
  PROVE  CalmLanes
<1> SUFFICES ASSUME NEW p \in Threads
             PROVE  /\ lane'[p]["normalize"].pc = "idle"
                    /\ lane'[p]["queue"].pc \in {"stage", "ensure"} =>
                         lane[p]["queue"].pc \in {"stage", "ensure"}
                    /\ lane'[p]["queue"].pc \in {"turn", "rebind"} =>
                         /\ lane[p]["queue"].pc \in {"turn", "rebind"}
                         /\ lane'[p]["queue"].issue = lane[p]["queue"].issue
  BY DEF CalmLanes
<1>1. lane[p]["normalize"].pc = "idle"
  BY DEF LockInv, NoNormalizer
<1>2. CASE p = t
  <2>1. lane'[p] = [lane[p] EXCEPT !["queue"] = rec]
    BY <1>2 DEF SetLane, LaneOK
  <2>2. lane'[p]["queue"] = rec /\ lane'[p]["normalize"] = lane[p]["normalize"]
    BY <2>1 DEF LaneOK, Lanes
  <2> QED
    BY <1>1, <1>2, <2>2
<1>3. CASE p # t
  BY <1>1, <1>3 DEF SetLane, LaneOK
<1> QED
  BY <1>2, <1>3

LEMMA IdleLaneCalm ==
  ASSUME LaneOK, LockInv, NEW t \in Threads,
         \/ SetLane(t, "queue", IdleLane)
         \/ SetLane(t, "queue", Returned(t, "queue"))
         \/ \E mode : SetLane(t, "queue", [IdleLane EXCEPT !.pc = "once", !.mode = mode])
         \/ SetLane(t, "queue", [IdleLane EXCEPT !.pc = "list", !.mode = "nested"])
         \/ SetLane(t, "queue", [lane[t]["queue"] EXCEPT !.pc = "once"])
  PROVE  CalmLanes
<1>1. [lane[t]["queue"] EXCEPT !.pc = "once"].pc = "once"
  BY DEF LaneOK, Lanes, LaneRecords
<1>2. /\ IdleLane.pc = "idle"
      /\ Returned(t, "queue").pc = "loop"
      /\ \A mode : [IdleLane EXCEPT !.pc = "once", !.mode = mode].pc = "once"
      /\ [IdleLane EXCEPT !.pc = "list", !.mode = "nested"].pc = "list"
  BY DEF IdleLane, Returned
<1> QED
  BY <1>1, <1>2, MovedLaneCalm

LEMMA QueueLane ==
  ASSUME LockInv, NEW t \in Threads, NEW l \in Lanes, lane[t][l].pc # "idle"
  PROVE  l = "queue"
BY DEF LockInv, NoNormalizer, Lanes

LEMMA CreateLock ==
  ASSUME TypeOK, LockInv, NEW i \in Issues, CreateThreadIssue(i)
  PROVE  LockInv'
<1> USE DEF TypeOK, CreateThreadIssue
<1>1. CalmStatus
  BY CreateType, QuietStatusCalm DEF StatusOK, LiveStatuses
<1> QED
  BY <1>1, SameLocksCalm, SameLanesCalm, CalmLock

LEMMA StartThreadIssuesLock ==
  ASSUME TypeOK, LockInv, NEW t \in Threads, NEW i \in Issues, NEW j \in Issues,
         StartThreadIssues(t, i, j)
  PROVE  LockInv'
<1> USE DEF TypeOK, StartThreadIssues
<1>1. CalmStatus
  BY StartThreadIssuesType, QuietStatusCalm DEF StatusOK, LiveStatuses
<1> QED
  BY <1>1, SameLocksCalm, SameLanesCalm, CalmLock

LEMMA RequestProcessingCalm ==
  ASSUME LaneOK, LockInv, NEW t \in Threads, NEW mode, RequestProcessing(t, mode)
  PROVE  CalmLanes
BY SameLanesCalm, IdleLaneCalm DEF RequestProcessing

LEMMA QueueStepLock ==
  ASSUME TypeOK, LockInv, NEW t \in Threads, QueueStep(t)
  PROVE  LockInv'
<1> USE DEF TypeOK
<1>1. CASE ScheduleQueue(t)
  <2> USE <1>1 DEF ScheduleQueue
  <2>1. CASE queue[t] = <<>>
    BY <2>1, SameStatusCalm, SameLocksCalm, SameLanesCalm, CalmLock
  <2>2. CASE queue[t] # <<>>
    <3>1. PICK a \in Adoptable(t, active[t]) :
            /\ active' = [active EXCEPT ![t] = a]
            /\ IF a = NoIssue THEN RequestProcessing(t, "recover")
               ELSE UNCHANGED <<lane, rerun>>
      BY <2>2
    <3>2. CalmLocks
      BY <3>1, AdoptCalm
    <3>3. CalmLanes
      BY <3>1, RequestProcessingCalm, SameLanesCalm
    <3> QED
      BY <3>2, <3>3, SameStatusCalm, CalmLock
  <2> QED
    BY <2>1, <2>2
<1>2. CASE ProcessIssueQueue(t)
  BY <1>2, SameStatusCalm, SameLocksCalm, RequestProcessingCalm, CalmLock
     DEF ProcessIssueQueue
<1>3. CASE LoopProcessIssueQueue(t)
  <2>1. CalmLanes
    BY <1>3, IdleLaneCalm DEF LoopProcessIssueQueue
  <2> QED
    BY <1>3, <2>1, SameStatusCalm, SameLocksCalm, CalmLock DEF LoopProcessIssueQueue
<1>4. CASE \E i, j \in Issues : StartThreadIssues(t, i, j)
  BY <1>4, StartThreadIssuesLock
<1>5. CASE \E i \in Issues : ReorderThreadIssues(t, i)
  BY <1>5, SameStatusCalm, SameLocksCalm, SameLanesCalm, CalmLock DEF ReorderThreadIssues
<1> QED
  BY <1>1, <1>2, <1>3, <1>4, <1>5 DEF QueueStep

\* Taking an issue out of the queue: nothing runs and no lock is set.
LEMMA ProcessIssueQueueOnceLock ==
  ASSUME TypeOK, LockInv, NEW t \in Threads, NEW l \in Lanes, ProcessIssueQueueOnce(t, l)
  PROVE  LockInv'
<1> USE DEF TypeOK
<1>1. l = "queue"
  BY QueueLane DEF ProcessIssueQueueOnce
<1> DEFINE taken == [lane[t][l] EXCEPT !.pc = "stage", !.issue = Head(queue[t]),
                                       !.found = HasCard(Head(queue[t]))]
<1>2. PICK a \in Adoptable(t, active[t]) :
        /\ active' = [active EXCEPT ![t] = a]
        /\ IF MayShift(t, a)
           THEN /\ queue' = [queue EXCEPT ![t] = Tail(@)]
                /\ SetLane(t, l, taken)
           ELSE /\ SetLane(t, l, Returned(t, l))
                /\ UNCHANGED queue
  BY DEF ProcessIssueQueueOnce
<1>3. UNCHANGED <<status, activeP>>
  BY DEF ProcessIssueQueueOnce
<1>4. CalmLocks /\ CalmStatus
  BY <1>2, <1>3, AdoptCalm, SameStatusCalm
<1>5. CASE ~MayShift(t, a)
  <2>1. CalmLanes
    BY <1>1, <1>2, <1>5, IdleLaneCalm
  <2> QED
    BY <1>4, <2>1, CalmLock
<1>6. CASE MayShift(t, a)
  <2>1. a = NoIssue /\ SetLane(t, l, taken)
    BY <1>2, <1>6 DEF MayShift
  <2>2. active[t] = NoIssue /\ RunningIn(t) = {}
    BY <2>1, NoIssueAssumption DEF Adoptable, RunningIn
  <2>3. activeP[t] = NoIssue
    BY <2>2 DEF LockInv, TrackingAgrees
  <2>4. \A p \in Threads : Occupants(p)' = Occupants(p)
    BY <1>2, <1>3, <2>1, <2>2 DEF Occupants, RunningIn, ActiveOK
  <2>5. Occupants(t) = {}
    BY <2>2, <2>3 DEF Occupants
  <2>6. /\ lane'[t]["queue"].pc = "stage"
        /\ lane'[t]["normalize"] = lane[t]["normalize"]
        /\ \A p \in Threads : p # t => lane'[p] = lane[p]
    BY <1>1, <2>1 DEF SetLane, LaneOK, Lanes, LaneRecords
  <2>7. SoleOccupant' /\ TrackingAgrees'
    BY <1>4, <2>4 DEF LockInv, SoleOccupant, TrackingAgrees, CalmLocks
  <2>8. NoNormalizer'
    BY <2>6 DEF LockInv, NoNormalizer
  <2>9. StartExclusive'
    BY <2>4, <2>5, <2>6 DEF LockInv, StartExclusive
  <2> QED
    BY <2>7, <2>8, <2>9 DEF LockInv
<1> QED
  BY <1>5, <1>6

\* What makes the starting issue the only occupant of its thread.
LEMMA StartLock ==
  ASSUME TypeOK, LockInv, NEW t \in Threads, NEW i \in OwnOrNone(t), NEW rec,
         Occupants(t) \subseteq {i},
         \A j \in Issues : status'[j] = status[j] \/ j = i,
         \/ active' = [active EXCEPT ![t] = i] /\ activeP' = [activeP EXCEPT ![t] = i]
         \/ UNCHANGED <<active, activeP>>,
         SetLane(t, "queue", rec),
         rec.pc \in {"turn", "rebind"} => rec.issue = i,
         rec.pc \notin {"stage", "ensure"}
  PROVE  LockInv'
<1> USE DEF TypeOK
<1>1. Occupants(t)' \subseteq {i}
  BY DEF Occupants, RunningIn, ActiveOK
<1>2. ASSUME NEW p \in Threads, p # t PROVE Occupants(p)' = Occupants(p)
  <2>1. active'[p] = active[p] /\ activeP'[p] = activeP[p]
    BY <1>2 DEF ActiveOK
  <2>2. \A j \in Issues : ThreadOf[j] = p => j # i
    BY <1>2, NoIssueAssumption DEF OwnOrNone, Own
  <2>3. RunningIn(p)' = RunningIn(p)
    BY <2>2 DEF RunningIn
  <2> QED
    BY <2>1, <2>3 DEF Occupants
<1>3. /\ lane'[t]["queue"] = rec
      /\ lane'[t]["normalize"] = lane[t]["normalize"]
      /\ \A p \in Threads : p # t => lane'[p] = lane[p]
  BY DEF SetLane, LaneOK, Lanes
<1>4. SoleOccupant'
  BY <1>1, <1>2 DEF LockInv, SoleOccupant
<1>5. TrackingAgrees'
  BY DEF LockInv, TrackingAgrees, ActiveOK
<1>6. NoNormalizer'
  BY <1>3 DEF LockInv, NoNormalizer
<1>7. StartExclusive'
  BY <1>1, <1>2, <1>3 DEF LockInv, StartExclusive
<1> QED
  BY <1>4, <1>5, <1>6, <1>7 DEF LockInv

LEMMA BeginTurnLock ==
  ASSUME TypeOK, LockInv, NEW t \in Threads, NEW b \in Nat, BeginTurn(t, "queue", b),
         lane[t]["queue"].pc \in {"stage", "ensure"}
  PROVE  LockInv'
<1> USE DEF TypeOK
<1> DEFINE i == lane[t]["queue"].issue
           rec == [lane[t]["queue"] EXCEPT !.pc = "turn", !.bind = b]
<1>1. lane[t]["queue"] \in LaneRecords(t)
  BY DEF LaneOK, Lanes
<1>2. i \in OwnOrNone(t) /\ rec.pc = "turn" /\ rec.issue = i
  BY <1>1 DEF LaneRecords
<1>3. Occupants(t) = {}
  BY DEF LockInv, StartExclusive
<1>4. \A j \in Issues : status'[j] = status[j] \/ j = i
  BY DEF BeginTurn, Patched, HasCard, StatusOK
<1>5. /\ active' = [active EXCEPT ![t] = i] /\ activeP' = [activeP EXCEPT ![t] = i]
      /\ SetLane(t, "queue", rec)
  BY DEF BeginTurn
<1> HIDE DEF rec, i
<1> QED
  BY <1>2, <1>3, <1>4, <1>5, StartLock

LEMMA StageDoneLock ==
  ASSUME TypeOK, LockInv, NEW t \in Threads, NEW l \in Lanes, StageDone(t, l)
  PROVE  LockInv'
<1> USE DEF TypeOK
<1>1. l = "queue" /\ lane[t]["queue"].pc = "stage"
  BY QueueLane DEF StageDone
<1>2. CASE codex[t] # 0
  BY <1>1, <1>2, BeginTurnLock DEF StageDone, BindingOK
<1>3. CASE codex[t] = 0
  <2>1. lane[t]["queue"] \in LaneRecords(t)
    BY DEF LaneOK, Lanes
  <2>2. [lane[t]["queue"] EXCEPT !.pc = "ensure"].pc = "ensure"
    BY <2>1 DEF LaneRecords
  <2>3. CalmLanes
    BY <1>1, <1>3, <2>2, MovedLaneCalm DEF StageDone
  <2> QED
    BY <1>3, <2>3, SameStatusCalm, SameLocksCalm, CalmLock DEF StageDone
<1> QED
  BY <1>2, <1>3

LEMMA EnsureDoneLock ==
  ASSUME TypeOK, LockInv, NEW t \in Threads, NEW l \in Lanes, EnsureDone(t, l)
  PROVE  LockInv'
<1>1. l = "queue"
  BY QueueLane DEF EnsureDone
<1>2. bindings + 1 \in Nat
  BY BindType DEF EnsureDone, TypeOK
<1> QED
  BY <1>1, <1>2, BeginTurnLock DEF EnsureDone

LEMMA StartThrowsCalm ==
  ASSUME LaneOK, LockInv, NEW t \in Threads, NEW recoverable \in BOOLEAN,
         StartThrows(t, "queue", recoverable)
  PROVE  CalmLanes
BY IdleLaneCalm DEF StartThrows

LEMMA StartFailsLock ==
  ASSUME TypeOK, LockInv, NEW t \in Threads, NEW l \in Lanes, NEW recoverable \in BOOLEAN,
         StartFails(t, l, recoverable) \/ (StartMissing(t, l) /\ recoverable = FALSE)
  PROVE  LockInv'
<1> USE DEF TypeOK, StartFails, StartMissing
<1>1. l = "queue" /\ StartThrows(t, "queue", recoverable)
  BY QueueLane
<1>2. UNCHANGED <<status, active, activeP>>
  OBVIOUS
<1> QED
  BY <1>1, <1>2, StartThrowsCalm, SameStatusCalm, SameLocksCalm, CalmLock

\* The answer of turn/start may revive an issue that was stopped meanwhile: the
\* thread is still free, or that issue's.
LEMMA TurnRespondsLock ==
  ASSUME TypeOK, LockInv, NEW t \in Threads, NEW l \in Lanes, TurnResponds(t, l)
  PROVE  LockInv'
<1> USE DEF TypeOK
<1>1. l = "queue" /\ lane[t]["queue"].pc = "turn"
  BY QueueLane DEF TurnResponds
<1> DEFINE i == lane[t]["queue"].issue
<1>2. i \in OwnOrNone(t)
  BY DEF LaneOK, Lanes, LaneRecords
<1>3. Occupants(t) \subseteq {i}
  BY <1>1 DEF LockInv, StartExclusive
<1>4. \A j \in Issues : status'[j] = status[j] \/ j = i
  BY <1>1 DEF TurnResponds, Patched, HasCard, StatusOK
<1>5. UNCHANGED <<active, activeP>> /\ SetLane(t, "queue", Returned(t, "queue"))
  BY <1>1 DEF TurnResponds
<1>6. Returned(t, "queue").pc = "loop"
  BY DEF Returned, IdleLane
<1> HIDE DEF i
<1> QED
  BY <1>2, <1>3, <1>4, <1>5, <1>6, StartLock

LEMMA TurnStartFailsLock ==
  ASSUME TypeOK, LockInv, NEW t \in Threads, NEW l \in Lanes, TurnStartFails(t, l)
  PROVE  LockInv'
<1> USE DEF TypeOK, TurnStartFails
<1>1. l = "queue"
  BY QueueLane
<1>2. CalmStatus
  BY PatchedCalm DEF Statuses, LiveStatuses
<1>3. CalmLocks
  BY ReleasedCalm
<1>4. CalmLanes
  BY <1>1, IdleLaneCalm
<1> QED
  BY <1>2, <1>3, <1>4, CalmLock

LEMMA RebindLock ==
  ASSUME TypeOK, LockInv, NEW t \in Threads, NEW l \in Lanes,
         TurnThreadNotFound(t, l) \/ RebindDone(t, l)
  PROVE  LockInv'
<1> USE DEF TypeOK
<1>1. l = "queue" /\ lane[t]["queue"].pc \in {"turn", "rebind"}
  BY QueueLane DEF TurnThreadNotFound, RebindDone
<1>2. lane[t]["queue"] \in LaneRecords(t)
  BY DEF LaneOK, Lanes
<1>3. PICK rec :
        /\ SetLane(t, "queue", rec)
        /\ rec.pc \in {"turn", "rebind"}
        /\ rec.issue = lane[t]["queue"].issue
  <2>1. CASE TurnThreadNotFound(t, l)
    <3> DEFINE r == [lane[t]["queue"] EXCEPT !.pc = "rebind", !.retried = TRUE]
    <3>1. SetLane(t, "queue", r)
      BY <1>1, <2>1 DEF TurnThreadNotFound
    <3>2. r.pc = "rebind" /\ r.issue = lane[t]["queue"].issue
      BY <1>2 DEF LaneRecords
    <3> HIDE DEF r
    <3> QED
      BY <3>1, <3>2
  <2>2. CASE RebindDone(t, l)
    <3> DEFINE r == [lane[t]["queue"] EXCEPT !.pc = "turn", !.bind = bindings + 1]
    <3>1. SetLane(t, "queue", r)
      BY <1>1, <2>2 DEF RebindDone
    <3>2. r.pc = "turn" /\ r.issue = lane[t]["queue"].issue
      BY <1>2 DEF LaneRecords
    <3> HIDE DEF r
    <3> QED
      BY <3>1, <3>2
  <2> QED
    BY <2>1, <2>2
<1>4. CalmLanes
  BY <1>1, <1>3, MovedLaneCalm
<1>5. UNCHANGED <<status, active, activeP>>
  BY DEF TurnThreadNotFound, RebindDone
<1> QED
  BY <1>4, <1>5, SameStatusCalm, SameLocksCalm, CalmLock

LEMMA RepairCalm ==
  ASSUME TypeOK, LockInv, NEW t \in Threads, NEW refresh, Repair(t, "queue", refresh)
  PROVE  CalmStatus /\ CalmLanes
<1>1. Promotions(t, "queue", refresh) = {}
  BY DEF Promotions
<1>2. PICK q \in Repaired(t) : UNCHANGED status /\ Resume(t, "queue", q)
  BY <1>1 DEF Repair
<1>3. CalmLanes
  BY <1>2, IdleLaneCalm DEF Resume, TypeOK
<1> QED
  BY <1>2, <1>3, SameStatusCalm

LEMMA NormalizeListedLock ==
  ASSUME TypeOK, LockInv, NEW t \in Threads, NEW l \in Lanes, NEW refresh \in BOOLEAN,
         NormalizeListed(t, l, refresh)
  PROVE  LockInv'
<1> USE DEF TypeOK
<1>1. l = "queue"
  BY QueueLane DEF NormalizeListed
<1>2. PICK a \in Tracked(t) :
        /\ active' = [active EXCEPT ![t] = a]
        /\ IF a = NoIssue
           THEN Repair(t, l, refresh)
           ELSE /\ SetLane(t, l, IdleLane)
                /\ UNCHANGED <<queue, status, cmd>>
  BY DEF NormalizeListed
<1>3. CalmLocks
  BY <1>2, TrackedCalm DEF NormalizeListed
<1>4. CalmStatus /\ CalmLanes
  BY <1>1, <1>2, RepairCalm, IdleLaneCalm, SameStatusCalm
<1> QED
  BY <1>3, <1>4, CalmLock

LEMMA NormalizeFailsLock ==
  ASSUME TypeOK, LockInv, NEW t \in Threads, NEW l \in Lanes, NormalizeFails(t, l)
  PROVE  LockInv'
<1> USE DEF TypeOK, NormalizeFails
<1>1. l = "queue"
  BY QueueLane
<1>2. CalmLanes
  BY <1>1, IdleLaneCalm
<1> QED
  BY <1>2, SameStatusCalm, SameLocksCalm, CalmLock

LEMMA LaneStepLock ==
  ASSUME TypeOK, LockInv, NEW t \in Threads, NEW l \in Lanes, LaneStep(t, l)
  PROVE  LockInv'
BY ProcessIssueQueueOnceLock, StageDoneLock, EnsureDoneLock, StartFailsLock,
   TurnRespondsLock, TurnStartFailsLock, RebindLock, NormalizeListedLock,
   NormalizeFailsLock DEF LaneStep

LEMMA InterruptIdleLock ==
  ASSUME TypeOK, LockInv, NEW i \in Issues, NEW op \in {"interrupt", "restage"},
         InterruptIdle(i, op)
  PROVE  LockInv'
<1> USE DEF TypeOK, InterruptIdle
<1>1. CalmStatus
  BY InterruptIdleType, QuietStatusCalm DEF StatusOK, LiveStatuses, InterruptTarget
<1> QED
  BY <1>1, SameLocksCalm, SameLanesCalm, CalmLock

LEMMA CommandBeginsLock ==
  ASSUME TypeOK, LockInv, NEW h \in Handlers, CommandBegins(h)
  PROVE  LockInv'
<1> USE DEF TypeOK
<1>1. ASSUME NEW i \in Issues, NEW op \in {"interrupt", "restage"}, InterruptBegin(h, i, op)
      PROVE  LockInv'
  BY <1>1, SameStatusCalm, SameLocksCalm, SameLanesCalm, CalmLock DEF InterruptBegin
<1>2. ASSUME NEW i \in Issues, DeleteBegin(h, i)
      PROVE  LockInv'
  BY <1>2, SameStatusCalm, SameLocksCalm, SameLanesCalm, CalmLock DEF DeleteBegin
<1>3. ASSUME NEW t \in Threads, NEW op \in {"unlock", "stop"}, ReleaseBegin(h, t, op)
      PROVE  LockInv'
  <2>1. CalmLocks
    BY <1>3, TrackedCalm DEF ReleaseBegin
  <2> QED
    BY <1>3, <2>1, SameStatusCalm, SameLanesCalm, CalmLock DEF ReleaseBegin
<1> QED
  BY <1>1, <1>2, <1>3 DEF CommandBegins

LEMMA CommandAnsweredLock ==
  ASSUME TypeOK, LockInv, NEW h \in Handlers, CommandAnswered(h)
  PROVE  LockInv'
<1> USE DEF TypeOK
<1> DEFINE t == ThreadOf[cmd[h].issue]
<1>1. cmd[h].op # "none" => t \in Threads
  BY ThreadAssumption DEF CmdOK
<1>2. CASE \E errors \in BOOLEAN : InterruptEnd(h, errors)
  <2>1. t \in Threads
    BY <1>1, <1>2 DEF InterruptEnd
  <2>2. CalmLocks
    BY <1>2, <2>1, ClearCalm DEF InterruptEnd
  <2>3. CalmStatus
    BY <1>2, PatchedCalm DEF InterruptEnd, InterruptTarget, Statuses, LiveStatuses
  <2> QED
    BY <1>2, <2>2, <2>3, SameLanesCalm, CalmLock DEF InterruptEnd
<1>3. CASE \E errors \in BOOLEAN : DeleteStopped(h, errors)
  <2>1. t \in Threads
    BY <1>1, <1>3 DEF DeleteStopped
  <2>2. CalmLocks
    BY <1>3, <2>1, ClearCalm DEF DeleteStopped
  <2> QED
    BY <1>3, <2>2, SameStatusCalm, SameLanesCalm, CalmLock DEF DeleteStopped
<1>4. CASE DeleteEnd(h)
  <2>1. CalmStatus
    BY <1>4, DeleteEndType, QuietStatusCalm DEF DeleteEnd, StatusOK, LiveStatuses
  <2> QED
    BY <1>4, <2>1, SameLocksCalm, SameLanesCalm, CalmLock DEF DeleteEnd
<1>5. CASE \E errors, refresh \in BOOLEAN : UnlockEnd(h, errors, refresh)
  <2>1. PICK errors \in BOOLEAN, refresh \in BOOLEAN : UnlockEnd(h, errors, refresh)
    BY <1>5
  <2>2. t \in Threads /\ UNCHANGED lane
    BY <1>1, <2>1 DEF UnlockEnd
  <2>3. CASE errors /\ ~refresh
    BY <2>1, <2>2, <2>3, SameStatusCalm, SameLocksCalm, SameLanesCalm, CalmLock DEF UnlockEnd
  <2>4. CASE ~(errors /\ ~refresh)
    <3>1. CalmLocks
      BY <2>1, <2>2, <2>4, ClearCalm DEF UnlockEnd
    <3>2. CalmStatus
      BY <2>1, <2>4, PatchedCalm DEF UnlockEnd, Statuses, LiveStatuses
    <3> QED
      BY <2>2, <3>1, <3>2, SameLanesCalm, CalmLock
  <2> QED
    BY <2>3, <2>4
<1>6. CASE \E unverified \in BOOLEAN : StopEnd(h, unverified)
  <2>1. t \in Threads
    BY <1>1, <1>6 DEF StopEnd
  <2>2. CalmLocks
    BY <1>6, <2>1, ClearCalm DEF StopEnd
  <2>3. CalmStatus
    BY <1>6, PatchedCalm DEF StopEnd, Statuses, LiveStatuses
  <2> QED
    BY <1>6, <2>2, <2>3, SameLanesCalm, CalmLock DEF StopEnd
<1> QED
  BY <1>2, <1>3, <1>4, <1>5, <1>6 DEF CommandAnswered

\* A notification runs only the issue that a lock of its thread names.
LEMMA ApplyProgressLock ==
  ASSUME TypeOK, LockInv, NEW t \in Threads, ApplyProgress(t)
  PROVE  LockInv'
<1> USE DEF TypeOK
<1> DEFINE i == Current(t)
<1>1. i \in OwnOrNone(t)
  BY DEF Current, ActiveOK
<1>2. i # NoIssue => i \in Occupants(t) /\ ThreadOf[i] = t
  BY <1>1 DEF Current, Occupants, OwnOrNone, Own
<1>3. \A j \in Issues : status'[j] = status[j] \/ (j = i /\ HasCard(i))
  BY DEF ApplyProgress, Patched, HasCard, StatusOK
<1>4. HasCard(i) => i # NoIssue
  BY NoIssueAssumption DEF HasCard
<1> HIDE DEF i
<1>5. CalmStatus
  BY <1>2, <1>3, <1>4 DEF CalmStatus, Occupants, RunningIn
<1> QED
  BY <1>5, SameLocksCalm, SameLanesCalm, CalmLock DEF ApplyProgress

LEMMA EventStepLock ==
  ASSUME TypeOK, LockInv, NEW t \in Threads, EventStep(t)
  PROVE  LockInv'
<1> USE DEF TypeOK
<1>1. CASE DropEvent(t) \/ ExpireStop(t)
  <2>1. UNCHANGED <<status, active, activeP, lane>>
    BY <1>1 DEF DropEvent, ExpireStop
  <2> QED
    BY <2>1, SameStatusCalm, SameLocksCalm, SameLanesCalm, CalmLock
<1>2. CASE ApplyProgress(t)
  BY <1>2, ApplyProgressLock
<1>3. CASE \E outcome \in TerminalStatuses : ApplyTerminal(t, outcome)
  <2>1. UNCHANGED <<active, activeP, lane>>
    BY <1>3 DEF ApplyTerminal
  <2>2. CalmStatus
    BY <1>3, PatchedCalm DEF ApplyTerminal, TerminalStatuses, Statuses, LiveStatuses
  <2> QED
    BY <2>1, <2>2, SameLocksCalm, SameLanesCalm, CalmLock
<1>4. CASE SettleTerminal(t)
  BY <1>4, ReleasedCalm, SameStatusCalm, SameLanesCalm, CalmLock DEF SettleTerminal
<1>5. CASE WatchRunningIssues(t)
  <2>1. CalmLocks
    BY <1>5, AdoptCalm DEF WatchRunningIssues
  <2> QED
    BY <1>5, <2>1, SameStatusCalm, SameLanesCalm, CalmLock DEF WatchRunningIssues
<1>6. CASE ReconcileOrphan(t)
  BY <1>6, ClearCalm, SameStatusCalm, SameLanesCalm, CalmLock DEF ReconcileOrphan
<1> QED
  BY <1>1, <1>2, <1>3, <1>4, <1>5, <1>6 DEF EventStep

LEMMA InitLock == Init => LockInv
BY NoIssueAssumption
   DEF Init, LockInv, SoleOccupant, TrackingAgrees, NoNormalizer, StartExclusive,
       Occupants, RunningIn, LiveStatuses, IdleLane, Lanes

LEMMA NextLock ==
  ASSUME "normalize" \notin Commands, TypeOK, LockInv, [Next]_vars
  PROVE  LockInv'
<1>1. ASSUME UNCHANGED <<status, active, activeP, lane>> PROVE LockInv'
  BY <1>1, SameStatusCalm, SameLocksCalm, SameLanesCalm, CalmLock
<1>2. CASE UNCHANGED vars
  BY <1>1, <1>2 DEF vars
<1>3. CASE AppServerReady
  BY <1>1, <1>3 DEF AppServerReady
<1>4. CASE \E k \in 1..Len(turns) : EndTurn(k)
  BY <1>1, <1>4 DEF EndTurn
<1>5. CASE \E t \in Threads : NormalizeRootThread(t)
  BY <1>5 DEF NormalizeRootThread
<1> QED
  BY <1>2, <1>3, <1>4, <1>5, CreateLock, InterruptIdleLock, QueueStepLock, LaneStepLock,
     CommandBeginsLock, CommandAnsweredLock, EventStepLock DEF Next

\* Unless a user calls normalizeRootThread, which goes past the processing lock, a
\* thread is occupied by one issue at a time and by none while the next start is
\* being prepared, whatever starts, answers, failures, commands and notifications
\* interleave.
THEOREM OneOccupant ==
  ASSUME "normalize" \notin Commands
  PROVE  Spec => []LockInv
<1>1. Init => LockInv
  BY InitLock
<1>2. TypeOK /\ LockInv /\ [Next]_vars => LockInv'
  BY NextLock
<1> QED
  BY <1>1, <1>2, TypeCorrect, PTL DEF Spec

\* Then no two issues of a thread run at the same time.
THEOREM Sequential ==
  ASSUME "normalize" \notin Commands
  PROVE  Spec => []SequentialExecution
<1>1. LockInv => SequentialExecution
  BY DEF LockInv, SoleOccupant, Occupants, SequentialExecution
<1> QED
  BY <1>1, OneOccupant, PTL

\* And the lock of the physical thread names the issue of the root thread's lock.
THEOREM LocksAgree ==
  ASSUME "normalize" \notin Commands
  PROVE  Spec => []TrackingAgrees
<1>1. LockInv => TrackingAgrees
  BY DEF LockInv
<1> QED
  BY <1>1, OneOccupant, PTL
=============================================================================
