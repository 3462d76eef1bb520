------------------------ MODULE ThreadStorage_proofs ------------------------
(***************************************************************************)
(* Proofs about ThreadStorage, for every set of issues and every bound.    *)
(***************************************************************************)
EXTENDS ThreadStorage, TLAPS, SequenceTheorems, FiniteSetTheorems

USE DEF memory, writer

-----------------------------------------------------------------------------
(***************************************************************************)
(* Types                                                                   *)
(***************************************************************************)

\* Taking one element out of a queue leaves a queue of the same issues, all of
\* which were in it.
LEMMA RemoveAtFacts ==
  ASSUME NEW S, NEW q \in Seq(S), NEW k \in DOMAIN q
  PROVE  /\ RemoveAt(q, k) \in Seq(S)
         /\ \A n \in DOMAIN RemoveAt(q, k) :
              \E m \in DOMAIN q : RemoveAt(q, k)[n] = q[m]
<1> DEFINE a == SubSeq(q, 1, k - 1)
           b == SubSeq(q, k + 1, Len(q))
<1>1. k \in 1..Len(q) /\ Len(q) \in Nat /\ DOMAIN q = 1..Len(q)
  BY LenProperties
<1>2. k - 1 \in Int /\ k + 1 \in Int /\ Len(q) \in Int
  BY <1>1
<1>3. /\ \A n \in 1..(k - 1) : q[n] \in S
      /\ \A n \in (k + 1)..Len(q) : q[n] \in S
  BY <1>1, ElementOfSeq
<1>4. /\ a \in Seq(S)
      /\ Len(a) = k - 1
      /\ \A n \in 1..(k - 1) : a[n] = q[n]
  BY <1>1, <1>2, <1>3, SubSeqProperties
<1>5. /\ b \in Seq(S)
      /\ Len(b) = Len(q) - k
      /\ \A n \in 1..(Len(q) - k) : b[n] = q[k + n]
  BY <1>1, <1>2, <1>3, SubSeqProperties
<1>6. /\ a \o b \in Seq(S)
      /\ Len(a \o b) = Len(q) - 1
      /\ \A n \in 1..(Len(q) - 1) :
           (a \o b)[n] = IF n <= k - 1 THEN q[n] ELSE q[n + 1]
  <2> HIDE DEF a, b
  <2>1. /\ a \o b \in Seq(S)
        /\ Len(a \o b) = Len(a) + Len(b)
        /\ \A n \in 1..(Len(a) + Len(b)) :
             (a \o b)[n] = IF n <= Len(a) THEN a[n] ELSE b[n - Len(a)]
    BY <1>4, <1>5, ConcatProperties
  <2>2. Len(a) + Len(b) = Len(q) - 1
    BY <1>1, <1>4, <1>5
  <2>3. ASSUME NEW n \in 1..(Len(q) - 1), n <= k - 1
        PROVE  (a \o b)[n] = q[n]
    BY <1>1, <1>4, <2>1, <2>2, <2>3
  <2>4. ASSUME NEW n \in 1..(Len(q) - 1), ~(n <= k - 1)
        PROVE  (a \o b)[n] = q[n + 1]
    <3>1. (a \o b)[n] = b[n - (k - 1)]
      BY <1>4, <2>1, <2>2, <2>4
    <3>2. n - (k - 1) \in 1..(Len(q) - k) /\ k + (n - (k - 1)) = n + 1
      BY <1>1, <2>4
    <3> QED
      BY <1>5, <3>1, <3>2
  <2> QED
    BY <2>1, <2>2, <2>3, <2>4
<1>7. DOMAIN (a \o b) = 1..(Len(q) - 1)
  BY <1>6, LenProperties
<1>8. RemoveAt(q, k) = a \o b
  BY DEF RemoveAt
<1> QED
  <2> HIDE DEF a, b
  <2>1. \A n \in 1..(Len(q) - 1) : n \in DOMAIN q /\ n + 1 \in DOMAIN q
    BY <1>1
  <2> QED
    BY <1>6, <1>7, <1>8, <2>1

\* A persisted state is appended to the history; what was persisted before stays.
LEMMA PersistFacts ==
  ASSUME TypeOK, Persist,
         status' \in [Issues -> Statuses], queue' \in Seq(Issues),
         active' \in IssueOrNone, activeP' \in IssueOrNone
  PROVE  /\ cache' \in States
         /\ cache' = [status |-> status', queue |-> queue', active |-> active', activeP |-> activeP']
         /\ log' \in Seq(States)
         /\ Len(log) \in Nat
         /\ Len(log') = Len(log) + 1
         /\ log'[Len(log')] = cache'
         /\ \A n \in 1..Len(log) : log'[n] = log[n]
         /\ SubSeq(log', 1, Len(log)) = log
         /\ dirty' = TRUE /\ timer' = (timer \/ flush = "none")
         /\ UNCHANGED <<flush, temp, disk, up, restarts, failures>>
<1>1. cache' \in States /\ log' = Append(log, cache') /\ log \in Seq(States)
  BY DEF Persist, States, TypeOK
<1>2. /\ log' \in Seq(States)
      /\ Len(log) \in Nat
      /\ Len(log') = Len(log) + 1
      /\ log'[Len(log')] = cache'
      /\ \A n \in 1..Len(log) : log'[n] = log[n]
  BY <1>1, AppendProperties, LenProperties
<1>3. SubSeq(log', 1, Len(log)) = log
  <2>1. \A n \in 1..Len(log) : log'[n] \in States
    BY <1>2, ElementOfSeq, <1>1
  <2>2. /\ SubSeq(log', 1, Len(log)) \in Seq(States)
        /\ Len(SubSeq(log', 1, Len(log))) = Len(log)
        /\ \A n \in 1..Len(log) : SubSeq(log', 1, Len(log))[n] = log'[n]
    BY <1>2, <2>1, SubSeqProperties
  <2> QED
    BY <1>1, <1>2, <2>2, SeqEqual
<1> QED
  BY <1>1, <1>2, <1>3 DEF Persist, ScheduleFlush

\* The types follow once those of the memory are known.
LEMMA PersistType ==
  ASSUME TypeOK, Persist,
         status' \in [Issues -> Statuses], queue' \in Seq(Issues),
         active' \in IssueOrNone, activeP' \in IssueOrNone, starting' \in IssueOrNone
  PROVE  TypeOK'
BY PersistFacts DEF TypeOK

LEMMA InitType == Init => TypeOK
<1> SUFFICES ASSUME Init PROVE TypeOK
  OBVIOUS
<1>1. Empty \in States
  BY DEF Empty, States, Statuses, IssueOrNone
<1>2. EmptyCopy \in Copies
  BY <1>1 DEF EmptyCopy, Copies
<1>3. log \in Seq(States)
  BY <1>1 DEF Init
<1>4. status \in [Issues -> Statuses] /\ queue \in Seq(Issues)
  BY DEF Init, Empty, Statuses
<1>5. cache \in States /\ temp \in Copies /\ disk \in Copies
  BY <1>1, <1>2 DEF Init
<1> QED
  BY <1>3, <1>4, <1>5 DEF Init, TypeOK, IssueOrNone

\* The copy that a write or the exit makes of the cache.
LEMMA SerializedType == TypeOK => Serialized \in Copies
BY LenProperties DEF TypeOK, Serialized, Copies, States

\* What a start restores is well typed.
LEMMA RestoredType ==
  ASSUME NEW s \in States, ToSet(s.queue) \subseteq Born(s)
  PROVE  /\ RestoredQueue(s) = s.queue
         /\ RestoredQueue(s) \in Seq(Issues)
         /\ RestoredActive(s) \subseteq IssueOrNone
BY DEF States, RestoredQueue, RestoredActive, Running, IssueOrNone

-----------------------------------------------------------------------------
(***************************************************************************)
(* The strengthening.  A persisted state is sound when its queue holds     *)
(* only issues that have a card, the running issue holds the root lock and *)
(* a leftover physical lock is that of an ended issue.                     *)
(***************************************************************************)
Sound(s) ==
  /\ \A k \in DOMAIN s.queue : s.status[s.queue[k]] # "unborn"
  /\ \A i \in Issues : s.status[i] = "running" => i = s.active
  /\ s.active # NoIssue => s.status[s.active] \in {"running", "ended"}
  /\ s.activeP # s.active => s.activeP = NoIssue \/ s.status[s.activeP] = "ended"

Memory == [status |-> status, queue |-> queue, active |-> active, activeP |-> activeP]

MemoryOK == /\ Sound(Memory)
            /\ starting # NoIssue => active = NoIssue /\ status[starting] # "unborn"

\* The history is sound, and so is every restart; the file and what is being
\* written are members of the history, the second not the older one.
LogOK == /\ Len(log) \in Nat \ {0}
         /\ \A n \in 1..Len(log) : Sound(log[n])
         /\ log[Len(log)] = cache
         /\ cache.queue = queue
FileOK == /\ disk.upTo \in 1..Len(log)
          /\ disk.state = log[disk.upTo]
          /\ flush = "writing" => /\ temp.upTo \in disk.upTo..Len(log)
                                  /\ temp.state = log[temp.upTo]

\* Without a failed write, a clean cache is in the file or on its way into it.
SavingOK == /\ FlushComing
            /\ ~up => ~dirty /\ flush = "none"
            /\ failures = 0 /\ up /\ ~dirty =>
                 /\ flush = "none" => disk.upTo = Len(log)
                 /\ flush = "writing" => temp.upTo = Len(log)

IInv == TypeOK /\ MemoryOK /\ LogOK /\ FileOK /\ SavingOK

LEMMA InitIInv == Init => IInv
<1> SUFFICES ASSUME Init PROVE IInv
  OBVIOUS
<1>1. TypeOK
  BY InitType
<1>2. Sound(Empty) /\ Memory = Empty
  BY DEF Init, Empty, Sound, Memory
<1>3. MemoryOK
  BY <1>2 DEF MemoryOK, Init
<1>4. Len(<<Empty>>) = 1 /\ <<Empty>>[1] = Empty /\ \A n \in 1..1 : n = 1
  OBVIOUS
<1>5. LogOK
  BY <1>2, <1>4 DEF LogOK, Init, Empty
<1>6. FileOK /\ SavingOK
  BY <1>4 DEF FileOK, SavingOK, FlushComing, Init, EmptyCopy
<1> QED
  BY <1>1, <1>3, <1>5, <1>6 DEF IInv

\* A change of the memory that is persisted keeps the invariant if the memory
\* stays sound.
LEMMA PersistIInv ==
  ASSUME IInv, Persist, up,
         status' \in [Issues -> Statuses], queue' \in Seq(Issues),
         active' \in IssueOrNone, activeP' \in IssueOrNone, starting' \in IssueOrNone,
         MemoryOK'
  PROVE  IInv'
<1>1. TypeOK'
  BY PersistType DEF IInv
<1>2. /\ cache' = Memory'
      /\ Len(log) \in Nat
      /\ Len(log') = Len(log) + 1
      /\ log'[Len(log')] = cache'
      /\ \A n \in 1..Len(log) : log'[n] = log[n]
      /\ dirty' = TRUE /\ timer' = (timer \/ flush = "none")
      /\ UNCHANGED <<flush, temp, disk, up, restarts, failures>>
  BY PersistFacts DEF IInv, Memory
<1>3. LogOK'
  <2>1. \A n \in 1..Len(log) : Sound(log[n])
    BY DEF IInv, LogOK
  <2>2. Sound(cache')
    BY <1>2 DEF MemoryOK
  <2>3. \A n \in 1..Len(log') : n \in 1..Len(log) \/ n = Len(log')
    BY <1>2
  <2>4. \A n \in 1..Len(log') : Sound(log'[n])
    BY <1>2, <2>1, <2>2, <2>3
  <2>5. cache'.queue = queue'
    BY <1>2 DEF Memory
  <2>6. Len(log') \in Nat \ {0}
    BY <1>2
  <2> QED
    BY <1>2, <2>4, <2>5, <2>6 DEF LogOK
<1>4. FileOK'
  <2>1. disk.upTo \in 1..Len(log) /\ disk.state = log[disk.upTo]
    BY DEF IInv, FileOK
  <2>2. flush = "writing" => temp.upTo \in disk.upTo..Len(log) /\ temp.state = log[temp.upTo]
    BY DEF IInv, FileOK
  <2>3. disk.upTo \in 1..Len(log') /\ disk.state = log'[disk.upTo]
    BY <1>2, <2>1
  <2>4. flush = "writing" => temp.upTo \in disk.upTo..Len(log') /\ temp.state = log'[temp.upTo]
    BY <1>2, <2>1, <2>2
  <2> QED
    BY <1>2, <2>3, <2>4 DEF FileOK
<1>5. SavingOK'
  BY <1>2 DEF SavingOK, FlushComing
<1> QED
  BY <1>1, <1>3, <1>4, <1>5 DEF IInv

-----------------------------------------------------------------------------
(***************************************************************************)
(* The actions on the issues                                               *)
(***************************************************************************)

LEMMA CreateStep ==
  ASSUME IInv, NEW i \in Issues, CreateThreadIssue(i)
  PROVE  IInv'
<1>1. status' \in [Issues -> Statuses]
  BY DEF IInv, TypeOK, CreateThreadIssue, Statuses
<1>2. UNCHANGED <<queue, active, activeP, starting>> /\ up
  BY DEF CreateThreadIssue
<1>3. \A j \in Issues : status'[j] = IF j = i THEN "staged" ELSE status[j]
  BY DEF IInv, TypeOK, CreateThreadIssue
<1>4. status[i] = "unborn"
  BY DEF CreateThreadIssue
<1>5. MemoryOK'
  <2>1. /\ \A k \in DOMAIN queue : queue[k] \in Issues
        /\ active \in IssueOrNone /\ activeP \in IssueOrNone /\ starting \in IssueOrNone
    BY DEF IInv, TypeOK
  <2> QED
    BY <1>2, <1>3, <1>4, <2>1 DEF IInv, MemoryOK, Sound, Memory, IssueOrNone
<1> QED
  BY <1>1, <1>2, <1>5, PersistIInv DEF IInv, TypeOK, CreateThreadIssue

LEMMA StartStep ==
  ASSUME IInv, NEW i \in Issues, StartThreadIssues(i)
  PROVE  IInv'
<1>1. status' \in [Issues -> Statuses]
  BY DEF IInv, TypeOK, StartThreadIssues, Statuses
<1>2. UNCHANGED <<active, activeP, starting>> /\ up
  BY DEF StartThreadIssues
<1>3. \A j \in Issues : status'[j] = IF j = i THEN "queued" ELSE status[j]
  BY DEF IInv, TypeOK, StartThreadIssues
<1>4. status[i] = "staged"
  BY DEF StartThreadIssues
<1>5. /\ queue' \in Seq(Issues)
      /\ \A k \in DOMAIN queue' : queue'[k] = i \/ \E m \in DOMAIN queue : queue'[k] = queue[m]
  BY AppendProperties, LenProperties DEF IInv, TypeOK, StartThreadIssues
<1>6. MemoryOK'
  <2>1. /\ \A k \in DOMAIN queue : queue[k] \in Issues
        /\ active \in IssueOrNone /\ activeP \in IssueOrNone /\ starting \in IssueOrNone
    BY DEF IInv, TypeOK
  <2>2. \A k \in DOMAIN queue' : status'[queue'[k]] # "unborn"
    BY <1>3, <1>5, <2>1 DEF IInv, MemoryOK, Sound, Memory
  <2> QED
    BY <1>2, <1>3, <1>4, <2>1, <2>2 DEF IInv, MemoryOK, Sound, Memory, IssueOrNone
<1> QED
  BY <1>1, <1>2, <1>5, <1>6, PersistIInv DEF IInv, TypeOK, StartThreadIssues

\* A step that only rearranges or shortens the queue, or puts the issue being
\* started back into it, and takes no lock.
LEMMA QueueOnly ==
  ASSUME IInv, UNCHANGED <<status, active, activeP>>,
         NEW q \in Seq(Issues), queue' = q,
         \A k \in DOMAIN q : \/ \E m \in DOMAIN queue : q[k] = queue[m]
                             \/ starting # NoIssue /\ q[k] = starting,
         starting' # NoIssue => active = NoIssue /\ status[starting'] # "unborn"
  PROVE  MemoryOK'
<1>1. \A k \in DOMAIN q : status[q[k]] # "unborn"
  BY DEF IInv, MemoryOK, Sound, Memory
<1> QED
  BY <1>1 DEF IInv, MemoryOK, Sound, Memory

LEMMA ReorderStep ==
  ASSUME IInv, NEW k \in DOMAIN queue, ReorderThreadIssues(k)
  PROVE  IInv'
<1>1. UNCHANGED <<status, active, activeP, starting>> /\ up
  BY DEF ReorderThreadIssues
<1>2. queue \in Seq(Issues) /\ queue[k] \in Issues
  BY DEF IInv, TypeOK
<1>3. /\ RemoveAt(queue, k) \in Seq(Issues)
      /\ \A n \in DOMAIN RemoveAt(queue, k) :
           \E m \in DOMAIN queue : RemoveAt(queue, k)[n] = queue[m]
  BY <1>2, RemoveAtFacts
<1> DEFINE r == RemoveAt(queue, k)
<1>4. queue' = <<queue[k]>> \o r
  BY DEF ReorderThreadIssues
<1> HIDE DEF r
<1>5. /\ queue' \in Seq(Issues)
      /\ \A n \in DOMAIN queue' : \/ queue'[n] = queue[k]
                                  \/ n - 1 \in DOMAIN r /\ queue'[n] = r[n - 1]
  <2>1. r \in Seq(Issues) /\ <<queue[k]>> \in Seq(Issues) /\ Len(<<queue[k]>>) = 1
    BY <1>2, <1>3 DEF r
  <2>2. /\ queue' \in Seq(Issues)
        /\ Len(queue') = 1 + Len(r)
        /\ \A n \in 1..(1 + Len(r)) :
             queue'[n] = IF n <= 1 THEN <<queue[k]>>[n] ELSE r[n - 1]
    BY <1>4, <2>1, ConcatProperties
  <2>3. DOMAIN queue' = 1..(1 + Len(r)) /\ DOMAIN r = 1..Len(r) /\ Len(r) \in Nat
    BY <2>1, <2>2, LenProperties
  <2> QED
    BY <2>2, <2>3
<1>6. \A n \in DOMAIN queue' : \E m \in DOMAIN queue : queue'[n] = queue[m]
  BY <1>3, <1>5 DEF r
<1>7. starting # NoIssue => active = NoIssue /\ status[starting] # "unborn"
  BY DEF IInv, MemoryOK
<1>8. MemoryOK'
  BY <1>1, <1>5, <1>6, <1>7, QueueOnly
<1> QED
  BY <1>1, <1>5, <1>8, PersistIInv DEF IInv, TypeOK, ReorderThreadIssues

LEMMA ProcessStep ==
  ASSUME IInv, ProcessIssueQueueOnce
  PROVE  IInv'
<1>1. UNCHANGED <<status, active, activeP>> /\ up /\ Persist
  BY DEF ProcessIssueQueueOnce, ShiftAndPersist
<1>2. queue \in Seq(Issues) /\ queue # <<>> /\ active = NoIssue
  BY DEF IInv, TypeOK, ProcessIssueQueueOnce
<1>3. queue' = Tail(queue) /\ starting' = queue[1]
  BY <1>2 DEF ProcessIssueQueueOnce, ShiftAndPersist
<1>4. /\ queue' \in Seq(Issues)
      /\ 1 \in DOMAIN queue
      /\ \A n \in DOMAIN queue' : n + 1 \in DOMAIN queue /\ queue'[n] = queue[n + 1]
  BY <1>2, <1>3, HeadTailProperties, LenProperties
<1>5. starting' \in Issues /\ status[starting'] # "unborn"
  BY <1>2, <1>3, <1>4 DEF IInv, MemoryOK, Sound, Memory
<1>6. MemoryOK'
  BY <1>1, <1>2, <1>4, <1>5, QueueOnly
<1> QED
  BY <1>1, <1>4, <1>5, <1>6, PersistIInv DEF IInv, TypeOK, IssueOrNone

LEMMA StartFailsStep ==
  ASSUME IInv, StartFails
  PROVE  IInv'
<1>1. UNCHANGED <<status, active, activeP>> /\ up /\ Persist /\ starting' = NoIssue
  BY DEF StartFails
<1>2. queue \in Seq(Issues) /\ starting \in Issues /\ starting # NoIssue
  BY DEF IInv, TypeOK, StartFails, IssueOrNone
<1>3. queue' = <<starting>> \o queue
  BY DEF StartFails
<1>4. /\ queue' \in Seq(Issues)
      /\ \A n \in DOMAIN queue' : \/ queue'[n] = starting
                                  \/ n - 1 \in DOMAIN queue /\ queue'[n] = queue[n - 1]
  BY <1>2, <1>3, ConcatProperties, LenProperties
<1>5. MemoryOK'
  BY <1>1, <1>2, <1>4, QueueOnly
<1> QED
  BY <1>1, <1>4, <1>5, PersistIInv DEF IInv, TypeOK, IssueOrNone

LEMMA BeginStep ==
  ASSUME IInv, BeginTurn
  PROVE  IInv'
<1>1. UNCHANGED queue /\ up /\ Persist /\ starting' = NoIssue
  BY DEF BeginTurn
<1>2. starting \in Issues /\ starting # NoIssue /\ active = NoIssue
  BY DEF IInv, TypeOK, MemoryOK, BeginTurn, IssueOrNone
<1>3. active' = starting /\ activeP' = starting
  BY DEF BeginTurn
<1>4. /\ status' \in [Issues -> Statuses]
      /\ \A j \in Issues : status'[j] = IF j = starting THEN "running" ELSE status[j]
  BY <1>2 DEF IInv, TypeOK, BeginTurn, Statuses
<1>5. MemoryOK'
  <2>1. /\ \A k \in DOMAIN queue : queue[k] \in Issues
        /\ \A j \in Issues : status[j] # "running"
    BY <1>2, NoIssueAssumption DEF IInv, TypeOK, MemoryOK, Sound, Memory
  <2> QED
    BY <1>1, <1>2, <1>3, <1>4, <2>1 DEF IInv, MemoryOK, Sound, Memory
<1> QED
  BY <1>1, <1>2, <1>3, <1>4, <1>5, PersistIInv DEF IInv, TypeOK, IssueOrNone

LEMMA ApplyStep ==
  ASSUME IInv, ApplyTerminal
  PROVE  IInv'
<1>1. UNCHANGED <<queue, active, activeP, starting>> /\ up /\ Persist
  BY DEF ApplyTerminal
<1>2. active \in Issues /\ active # NoIssue
  BY DEF IInv, TypeOK, ApplyTerminal, IssueOrNone
<1>3. /\ status' \in [Issues -> Statuses]
      /\ \A j \in Issues : status'[j] = IF j = active THEN "ended" ELSE status[j]
  BY <1>2 DEF IInv, TypeOK, ApplyTerminal, Statuses
<1>4. MemoryOK'
  <2>1. /\ \A k \in DOMAIN queue : queue[k] \in Issues
        /\ activeP \in IssueOrNone
    BY DEF IInv, TypeOK
  <2> QED
    BY <1>1, <1>2, <1>3, <2>1 DEF IInv, MemoryOK, Sound, Memory, IssueOrNone
<1> QED
  BY <1>1, <1>3, <1>4, PersistIInv DEF IInv, TypeOK

LEMMA SettleStep ==
  ASSUME IInv, SettleTerminal
  PROVE  IInv'
<1>1. UNCHANGED <<status, queue, starting>> /\ up /\ Persist
  BY DEF SettleTerminal
<1>2. active' = NoIssue /\ activeP' = NoIssue /\ active # NoIssue /\ status[active] = "ended"
  BY DEF SettleTerminal
<1>3. \A j \in Issues : status[j] # "running"
  BY <1>2 DEF IInv, MemoryOK, Sound, Memory
<1>4. MemoryOK'
  BY <1>1, <1>2, <1>3 DEF IInv, MemoryOK, Sound, Memory
<1> QED
  BY <1>1, <1>2, <1>4, PersistIInv DEF IInv, TypeOK, IssueOrNone

-----------------------------------------------------------------------------
(***************************************************************************)
(* The flush, the end of the process and the next start                    *)
(***************************************************************************)

\* A step that leaves the memory and the history alone.
LEMMA SameMemory ==
  ASSUME IInv, UNCHANGED <<memory, cache, log>>, TypeOK', FileOK', SavingOK'
  PROVE  IInv'
<1>1. MemoryOK'
  BY DEF IInv, MemoryOK, Sound, Memory
<1>2. LogOK'
  BY DEF IInv, LogOK, Sound
<1> QED
  BY <1>1, <1>2 DEF IInv

\* The copy of the cache is the last persisted state.
LEMMA SerializedIsLast ==
  ASSUME IInv
  PROVE  Serialized = [state |-> cache, upTo |-> Len(log)]
<1>1. cache \in States /\ cache.queue = queue
  BY DEF IInv, TypeOK, LogOK
<1>2. [cache EXCEPT !.queue = queue] = cache
  BY <1>1 DEF States
<1> QED
  BY <1>2 DEF Serialized

LEMMA FlushTimerStep ==
  ASSUME IInv, FlushTimer
  PROVE  IInv'
<1>1. TypeOK'
  BY DEF IInv, TypeOK, FlushTimer
<1>2. FileOK'
  BY DEF IInv, FileOK, FlushTimer
<1>3. SavingOK'
  BY DEF IInv, SavingOK, FlushComing, FlushTimer
<1> QED
  BY <1>1, <1>2, <1>3, SameMemory DEF FlushTimer

LEMMA SerializeStep ==
  ASSUME IInv, Serialize
  PROVE  IInv'
<1>1. temp' = [state |-> cache, upTo |-> Len(log)]
  BY SerializedIsLast DEF Serialize
<1>2. TypeOK'
  BY SerializedType DEF IInv, TypeOK, Serialize
<1>3. FileOK'
  BY <1>1 DEF IInv, FileOK, LogOK, Serialize
<1>4. SavingOK'
  BY <1>1 DEF IInv, SavingOK, FlushComing, Serialize
<1> QED
  BY <1>2, <1>3, <1>4, SameMemory DEF Serialize

LEMMA FlushWrittenStep ==
  ASSUME IInv, FlushWritten
  PROVE  IInv'
<1>1. TypeOK'
  BY DEF IInv, TypeOK, FlushWritten, FlushAgain
<1>2. FileOK'
  BY DEF IInv, FileOK, LogOK, FlushWritten, FlushAgain
<1>3. SavingOK'
  BY DEF IInv, SavingOK, FlushComing, FlushWritten, FlushAgain
<1> QED
  BY <1>1, <1>2, <1>3, SameMemory DEF FlushWritten

LEMMA FlushFailsStep ==
  ASSUME IInv, FlushFails
  PROVE  IInv'
<1>1. TypeOK'
  BY DEF IInv, TypeOK, FlushFails, FlushAgain
<1>2. FileOK'
  BY DEF IInv, FileOK, FlushFails, FlushAgain
<1>3. SavingOK'
  BY DEF IInv, TypeOK, SavingOK, FlushComing, FlushFails, FlushAgain
<1> QED
  BY <1>1, <1>2, <1>3, SameMemory DEF FlushFails

\* What the exit leaves in the file: the last persisted state or what was there.
LEMMA ExitFile ==
  ASSUME IInv, Exit
  PROVE  /\ disk' = [state |-> cache, upTo |-> Len(log)] \/ disk' = disk
         /\ failures' \in {failures, failures + 1}
BY SerializedIsLast DEF Exit

\* Types survive the end of the process.
LEMMA DownType ==
  ASSUME TypeOK, Down, disk' \in Copies, failures' \in Nat
  PROVE  TypeOK'
<1>1. restarts' \in Nat
  BY DEF TypeOK, Down
<1>2. UNCHANGED <<status, queue, active, activeP, starting, cache, temp, log>>
  BY DEF Down
<1>3. dirty' \in BOOLEAN /\ timer' \in BOOLEAN /\ up' \in BOOLEAN
  BY DEF Down
<1>4. flush' \in {"none", "waiting", "writing"}
  BY DEF Down
<1> QED
  BY <1>1, <1>2, <1>3, <1>4 DEF TypeOK

LEMMA ExitStep ==
  ASSUME IInv, Exit
  PROVE  IInv'
<1>1. TypeOK'
  <2>1. disk' \in Copies
    BY SerializedType DEF IInv, TypeOK, Exit
  <2>2. failures' \in Nat
    BY DEF IInv, TypeOK, Exit
  <2> QED
    BY <2>1, <2>2, DownType DEF IInv, Exit
<1>2. FileOK'
  <2>1. UNCHANGED <<log, cache, temp>> /\ flush' = "none"
    BY DEF Exit, Down
  <2> QED
    BY <2>1, ExitFile DEF IInv, FileOK, LogOK
<1>3. SavingOK'
  BY DEF SavingOK, FlushComing, Exit, Down
<1> QED
  BY <1>1, <1>2, <1>3, SameMemory DEF Exit, Down

LEMMA CrashStep ==
  ASSUME IInv, Crash
  PROVE  IInv'
<1>1. TypeOK'
  <2>1. disk' \in Copies /\ failures' \in Nat
    BY DEF IInv, TypeOK, Crash
  <2> QED
    BY <2>1, DownType DEF IInv, Crash
<1>2. FileOK'
  BY DEF IInv, FileOK, Crash, Down
<1>3. SavingOK'
  BY DEF SavingOK, FlushComing, Crash, Down
<1> QED
  BY <1>1, <1>2, <1>3, SameMemory DEF Crash, Down

\* The new process goes on from the state in the file.
LEMMA StartFacts ==
  ASSUME IInv, Start
  PROVE  /\ disk.state \in States /\ Sound(disk.state)
         /\ status' = disk.state.status /\ queue' = disk.state.queue
         /\ active' \in IssueOrNone
         /\ activeP' = disk.state.activeP
         /\ active' = disk.state.active \/ active' = NoIssue
         /\ active' = NoIssue => \A i \in Issues : status'[i] # "running"
         /\ active' # NoIssue => status'[active'] = "running"
<1>1. disk.state \in States /\ disk.state = log[disk.upTo] /\ disk.upTo \in 1..Len(log)
  BY DEF IInv, TypeOK, FileOK, Copies
<1>2. Sound(disk.state)
  BY <1>1 DEF IInv, LogOK
<1>3. ToSet(disk.state.queue) \subseteq Born(disk.state)
  <2>1. \A k \in DOMAIN disk.state.queue : disk.state.queue[k] \in Issues
    BY <1>1 DEF States
  <2> QED
    BY <1>2, <2>1 DEF Sound, ToSet, Born
<1>4. RestoredQueue(disk.state) = disk.state.queue
  BY <1>1, <1>3, RestoredType
<1>5. status' = disk.state.status /\ queue' = disk.state.queue /\ activeP' = disk.state.activeP
  BY <1>4 DEF Start
<1>6. active' \in RestoredActive(disk.state) /\ RestoredActive(disk.state) \subseteq IssueOrNone
  BY <1>1, <1>3, RestoredType DEF Start
<1>7. \A i \in Running(disk.state) : i = disk.state.active
  BY <1>2 DEF Sound, Running
<1>8. \/ active' \in Running(disk.state)
      \/ active' = NoIssue /\ Running(disk.state) = {}
  BY <1>6, <1>7 DEF RestoredActive
<1>9. NoIssue \notin Running(disk.state)
  BY NoIssueAssumption DEF Running
<1> QED
  BY <1>1, <1>2, <1>5, <1>6, <1>7, <1>8, <1>9 DEF Running

\* The history shrinks to what the file includes.
LEMMA StartLog ==
  ASSUME IInv, Start
  PROVE  /\ log' \in Seq(States)
         /\ Len(log') = disk.upTo
         /\ disk.upTo \in 1..Len(log)
         /\ \A n \in 1..disk.upTo : log'[n] = log[n]
<1>1. log \in Seq(States) /\ Len(log) \in Nat /\ disk.upTo \in 1..Len(log)
  BY DEF IInv, TypeOK, LogOK, FileOK
<1>2. log' = SubSeq(log, 1, disk.upTo)
  BY DEF Start
<1>3. \A n \in 1..disk.upTo : log[n] \in States
  BY <1>1, ElementOfSeq
<1> QED
  BY <1>1, <1>2, <1>3, SubSeqProperties

LEMMA RestartStep ==
  ASSUME IInv, Start
  PROVE  IInv'
<1>1. /\ starting' = NoIssue /\ up' = TRUE
      /\ cache' = disk.state
      /\ UNCHANGED <<dirty, timer, flush, temp, disk, restarts, failures>>
  BY DEF Start
<1>2. TypeOK'
  BY <1>1, StartFacts, StartLog DEF IInv, TypeOK, States, IssueOrNone
<1>3. MemoryOK'
  <2> DEFINE s == disk.state
  <2>1. /\ s \in States /\ Sound(s)
        /\ status' = s.status /\ queue' = s.queue /\ activeP' = s.activeP
        /\ active' \in IssueOrNone /\ activeP' \in IssueOrNone
        /\ active' = s.active \/ active' = NoIssue
        /\ active' = NoIssue => \A i \in Issues : status'[i] # "running"
        /\ active' # NoIssue => status'[active'] = "running"
    BY StartFacts DEF States
  <2> HIDE DEF s
  <2>2. /\ \A k \in DOMAIN queue' : status'[queue'[k]] # "unborn"
        /\ \A i \in Issues : status'[i] = "running" => i = active'
        /\ active' # NoIssue => status'[active'] \in {"running", "ended"}
    BY <2>1 DEF Sound
  <2>3. activeP' # active' => activeP' = NoIssue \/ status'[activeP'] = "ended"
    BY <2>1 DEF Sound, IssueOrNone
  <2> QED
    BY <1>1, <2>2, <2>3 DEF MemoryOK, Sound, Memory
<1>4. LogOK'
  <2>1. \A n \in 1..Len(log') : n \in 1..Len(log) /\ log'[n] = log[n]
    BY StartLog DEF IInv, LogOK
  <2>2. \A n \in 1..Len(log') : Sound(log'[n])
    BY <2>1 DEF IInv, LogOK
  <2>3. log'[Len(log')] = cache' /\ Len(log') \in Nat \ {0}
    BY <1>1, StartLog DEF IInv, FileOK
  <2>4. cache'.queue = queue'
    BY <1>1, StartFacts
  <2> QED
    BY <2>2, <2>3, <2>4 DEF LogOK
<1>5. flush = "none" /\ ~dirty
  BY DEF IInv, SavingOK, Start
<1>6. FileOK'
  <2>1. disk.upTo \in 1..Len(log') /\ disk.state = log'[disk.upTo]
    BY StartLog DEF IInv, FileOK
  <2> QED
    BY <1>1, <1>5, <2>1 DEF FileOK
<1>7. SavingOK'
  BY <1>1, <1>5, StartLog DEF SavingOK, FlushComing
<1> QED
  BY <1>2, <1>3, <1>4, <1>6, <1>7 DEF IInv

LEMMA NextIInv == IInv /\ [Next]_vars => IInv'
<1> SUFFICES ASSUME IInv, [Next]_vars PROVE IInv'
  OBVIOUS
<1>1. CASE \E i \in Issues : CreateThreadIssue(i) \/ StartThreadIssues(i)
  BY <1>1, CreateStep, StartStep
<1>2. CASE \E k \in DOMAIN queue : ReorderThreadIssues(k)
  BY <1>2, ReorderStep
<1>3. CASE ProcessIssueQueueOnce \/ BeginTurn \/ StartFails
  BY <1>3, ProcessStep, BeginStep, StartFailsStep
<1>4. CASE ApplyTerminal \/ SettleTerminal
  BY <1>4, ApplyStep, SettleStep
<1>5. CASE FlushTimer \/ Serialize \/ FlushWritten \/ FlushFails
  BY <1>5, FlushTimerStep, SerializeStep, FlushWrittenStep, FlushFailsStep
<1>6. CASE Exit \/ Crash \/ Start
  BY <1>6, ExitStep, CrashStep, RestartStep
<1>7. CASE UNCHANGED vars
  <2>1. TypeOK' /\ FileOK' /\ SavingOK'
    BY <1>7 DEF IInv, TypeOK, FileOK, SavingOK, FlushComing, vars
  <2> QED
    BY <1>7, <2>1, SameMemory DEF vars
<1> QED
  BY <1>1, <1>2, <1>3, <1>4, <1>5, <1>6, <1>7 DEF Next

LEMMA Inductive == Spec => []IInv
BY InitIInv, NextIInv, PTL DEF Spec

-----------------------------------------------------------------------------
(***************************************************************************)
(* The theorems                                                            *)
(***************************************************************************)

\* Every variable of the storage keeps its type; persisted states, the copy
\* being written and the file are whole states.
THEOREM StorageTypeCorrect == Spec => []TypeOK
<1>1. IInv => TypeOK
  BY DEF IInv
<1> QED
  BY <1>1, Inductive, PTL

\* A change that no flush has read always has a flush coming: the finally block
\* of flushThreadStorage does not forget what was persisted during the write.
THEOREM FlushIsComing == Spec => []FlushComing
<1>1. IInv => FlushComing
  BY DEF IInv, SavingOK
<1> QED
  BY <1>1, Inductive, PTL

\* The physical lock that a restart finds beside the root lock is free or that
\* of an ended issue.
THEOREM LeftoverIsEnded == Spec => []LeftoverLockEnded
<1>1. IInv => LeftoverLockEnded
  BY DEF IInv, MemoryOK, Sound, Memory, LeftoverLockEnded
<1> QED
  BY <1>1, Inductive, PTL

\* An exit on a signal leaves the last persisted state in the file unless a write
\* has failed: what is neither dirty nor being written is in the file already.
THEOREM ExitKeepsState == Spec => ExitSaves
<1>1. IInv /\ Exit /\ failures' = 0 => disk'.upTo = Len(log)
  <2> SUFFICES ASSUME IInv, Exit, failures' = 0 PROVE disk'.upTo = Len(log)
    OBVIOUS
  <2>1. failures = 0 /\ up
    BY ExitFile DEF Exit, IInv, TypeOK
  <2>2. CASE Unsaved
    <3>1. disk' = Serialized
      BY <2>1, <2>2 DEF Exit
    <3> QED
      BY <3>1, SerializedIsLast
  <2>3. CASE ~Unsaved
    BY <2>1, <2>3 DEF Exit, Unsaved, IInv, SavingOK
  <2> QED
    BY <2>2, <2>3
<1>2. IInv /\ [Next]_vars => [Exit /\ failures' = 0 => disk'.upTo = Len(log)]_vars
  BY <1>1
<1> QED
  BY <1>2, Inductive, PTL DEF Spec, ExitSaves

\* The storage implements the promise of DurableState: of the persisted states
\* the file holds one, never an earlier one than before, and a restart goes on
\* from it.
THEOREM StorageIsDurable == Spec => ImplementsDurable
<1>1. Init => Durable!Init
  BY DEF Init, Durable!Init, EmptyCopy
<1>2. ASSUME IInv, [Next]_vars PROVE [Durable!Next]_Durable!vars
  <2>1. CASE /\ UNCHANGED disk
             /\ \/ \E i \in Issues : CreateThreadIssue(i) \/ StartThreadIssues(i)
                \/ \E k \in DOMAIN queue : ReorderThreadIssues(k)
                \/ ProcessIssueQueueOnce \/ BeginTurn \/ StartFails
                \/ ApplyTerminal \/ SettleTerminal
    <3>1. Persist
      BY <2>1 DEF CreateThreadIssue, StartThreadIssues, ReorderThreadIssues, ProcessIssueQueueOnce,
                  ShiftAndPersist, BeginTurn, StartFails, ApplyTerminal, SettleTerminal
    <3>2. /\ status' \in [Issues -> Statuses] /\ queue' \in Seq(Issues)
          /\ active' \in IssueOrNone /\ activeP' \in IssueOrNone
      BY <1>2, NextIInv DEF IInv, TypeOK
    <3> QED
      BY <1>2, <2>1, <3>1, <3>2, PersistFacts DEF IInv, Durable!Next, Durable!Persist
  <2>2. CASE FlushWritten
    <3>1. temp.upTo \in disk.upTo..Len(log) /\ temp.state = log[temp.upTo] /\ disk' = temp
          /\ log' = log
      BY <1>2, <2>2 DEF FlushWritten, IInv, FileOK
    <3> QED
      BY <3>1 DEF Durable!Next, Durable!Save
  <2>3. CASE Exit
    <3>1. log' = log
      BY <2>3 DEF Exit, Down
    <3>2. CASE disk' = disk
      BY <3>1, <3>2 DEF Durable!vars
    <3>3. CASE disk' = [state |-> cache, upTo |-> Len(log)]
      <4>1. Len(log) \in disk.upTo..Len(log) /\ log[Len(log)] = cache
        BY <1>2 DEF IInv, FileOK, LogOK
      <4> QED
        BY <3>1, <3>3, <4>1 DEF Durable!Next, Durable!Save
    <3> QED
      BY <1>2, <2>3, <3>2, <3>3, ExitFile
  <2>4. CASE Start
    BY <2>4 DEF Start, Durable!Next, Durable!Recover
  <2>5. CASE FlushTimer \/ Serialize \/ FlushFails \/ Crash \/ UNCHANGED vars
    BY <2>5 DEF FlushTimer, Serialize, FlushFails, Crash, Down, vars, Durable!vars
  <2>6. ASSUME Persist PROVE UNCHANGED disk
    BY <2>6 DEF Persist
  <2> QED
    BY <1>2, <2>1, <2>2, <2>3, <2>4, <2>5, <2>6
       DEF Next, CreateThreadIssue, StartThreadIssues, ReorderThreadIssues, ProcessIssueQueueOnce,
           ShiftAndPersist, BeginTurn, StartFails, ApplyTerminal, SettleTerminal
<1> QED
  BY <1>1, <1>2, Inductive, PTL DEF Spec, ImplementsDurable, Durable!Spec

-----------------------------------------------------------------------------
(***************************************************************************)
(* What a restart can strand.  Of a persisted state, a card that says      *)
(* "queued" without being in the queue is the one whose start was under    *)
(* way, or one that an earlier restart had already stranded.               *)
(***************************************************************************)
Orphans(s) == {i \in Issues : s.status[i] = "queued" /\ i \notin ToSet(s.queue)}
Stranded == {i \in Issues : status[i] = "queued" /\ i \notin ToSet(queue) /\ i # starting}

\* A set with at most n members.
AtMost(S, n) == IsFiniteSet(S) /\ Cardinality(S) <= n

\* How many a persisted state may have, the start under way included.
Allowed == IF up THEN restarts + 1 ELSE restarts

StrandedInv == /\ AtMost(Stranded, restarts)
               /\ \A n \in 1..Len(log) : AtMost(Orphans(log[n]), Allowed)

LEMMA AtMostSubset ==
  ASSUME NEW S, NEW T, T \subseteq S, NEW m \in Nat, NEW n \in Nat, m <= n, AtMost(S, m)
  PROVE  AtMost(T, n)
<1>1. IsFiniteSet(T) /\ Cardinality(T) <= Cardinality(S)
  BY FS_Subset DEF AtMost
<1>2. Cardinality(T) \in Nat /\ Cardinality(S) \in Nat
  BY <1>1, FS_CardinalityType DEF AtMost
<1> QED
  BY <1>1, <1>2 DEF AtMost

LEMMA AtMostOneMore ==
  ASSUME NEW S, NEW x, NEW n \in Nat, AtMost(S, n)
  PROVE  AtMost(S \cup {x}, n + 1)
<1>1. IsFiniteSet(S \cup {x}) /\ Cardinality(S \cup {x}) <= Cardinality(S) + 1
  <2>1. IsFiniteSet(S)
    BY DEF AtMost
  <2>2. Cardinality(S) \in Nat
    BY <2>1, FS_CardinalityType
  <2>3. /\ IsFiniteSet(S \cup {x})
        /\ Cardinality(S \cup {x}) = IF x \in S THEN Cardinality(S) ELSE Cardinality(S) + 1
    BY <2>1, FS_AddElement
  <2> QED
    BY <2>2, <2>3
<1>2. Cardinality(S \cup {x}) \in Nat /\ Cardinality(S) \in Nat
  BY <1>1, FS_CardinalityType DEF AtMost
<1> QED
  BY <1>1, <1>2 DEF AtMost

\* A change that is persisted and strands nothing.
LEMMA PersistStranded ==
  ASSUME IInv, IInv', StrandedInv, up, Persist, Stranded' \subseteq Stranded
  PROVE  StrandedInv'
<1>1. restarts \in Nat /\ restarts' = restarts /\ up' = up
  BY DEF IInv, TypeOK, Persist
<1>2. Allowed = restarts + 1 /\ Allowed' = Allowed
  BY <1>1 DEF Allowed
<1>3. AtMost(Stranded', restarts')
  BY <1>1, AtMostSubset DEF StrandedInv
<1>4. /\ cache' = [status |-> status', queue |-> queue', active |-> active', activeP |-> activeP']
      /\ Len(log) \in Nat /\ Len(log') = Len(log) + 1
      /\ log'[Len(log')] = cache'
      /\ \A n \in 1..Len(log) : log'[n] = log[n]
  BY PersistFacts DEF IInv, TypeOK
<1>5. Orphans(cache') \subseteq Stranded' \cup {starting'}
  BY <1>4 DEF Orphans, Stranded
<1>6. AtMost(Orphans(cache'), Allowed)
  <2>1. AtMost(Stranded' \cup {starting'}, restarts + 1)
    BY <1>1, <1>3, AtMostOneMore
  <2> QED
    BY <1>1, <1>2, <1>5, <2>1, AtMostSubset
<1>7. \A n \in 1..Len(log') : AtMost(Orphans(log'[n]), Allowed)
  <2>1. ASSUME NEW n \in 1..Len(log') PROVE AtMost(Orphans(log'[n]), Allowed)
    <3>1. CASE n = Len(log')
      BY <3>1, <1>4, <1>6
    <3>2. CASE n # Len(log')
      BY <3>2, <1>4 DEF StrandedInv
    <3> QED
      BY <3>1, <3>2
  <2> QED
    BY <2>1
<1> QED
  BY <1>2, <1>3, <1>7 DEF StrandedInv

\* Nothing leaves the queue when an issue is put first.
LEMMA ReorderKeepsIssues ==
  ASSUME NEW S, NEW q \in Seq(S), NEW k \in DOMAIN q
  PROVE  ToSet(q) \subseteq ToSet(<<q[k]>> \o RemoveAt(q, k))
<1> DEFINE a == SubSeq(q, 1, k - 1)
           b == SubSeq(q, k + 1, Len(q))
           h == <<q[k]>>
<1>1. k \in 1..Len(q) /\ Len(q) \in Nat /\ DOMAIN q = 1..Len(q) /\ q[k] \in S
  BY LenProperties, ElementOfSeq
<1>2. k - 1 \in Int /\ k + 1 \in Int /\ Len(q) \in Int
  BY <1>1
<1>3. /\ \A n \in 1..(k - 1) : q[n] \in S
      /\ \A n \in (k + 1)..Len(q) : q[n] \in S
  BY <1>1, ElementOfSeq
<1>4. /\ a \in Seq(S)
      /\ Len(a) = k - 1
      /\ \A n \in 1..(k - 1) : a[n] = q[n]
  BY <1>1, <1>2, <1>3, SubSeqProperties
<1>5. /\ b \in Seq(S)
      /\ Len(b) = Len(q) - k
      /\ \A n \in 1..(Len(q) - k) : b[n] = q[k + n]
  BY <1>1, <1>2, <1>3, SubSeqProperties
<1>6. h \in Seq(S) /\ Len(h) = 1 /\ h[1] = q[k]
  BY <1>1
<1>7. RemoveAt(q, k) = a \o b
  BY DEF RemoveAt
<1> HIDE DEF a, b, h
<1>8. /\ a \o b \in Seq(S)
      /\ Len(a \o b) = Len(a) + Len(b)
      /\ \A n \in 1..(Len(a) + Len(b)) :
           (a \o b)[n] = IF n <= Len(a) THEN a[n] ELSE b[n - Len(a)]
  BY <1>4, <1>5, ConcatProperties
<1> DEFINE r == a \o b
           p == h \o r
<1>9. Len(r) = Len(q) - 1 /\ r \in Seq(S)
  BY <1>1, <1>4, <1>5, <1>8
<1>10. /\ p \in Seq(S)
       /\ Len(p) = Len(h) + Len(r)
       /\ \A n \in 1..(Len(h) + Len(r)) : p[n] = IF n <= Len(h) THEN h[n] ELSE r[n - Len(h)]
  <2> HIDE DEF r
  <2> QED
    BY <1>6, <1>9, ConcatProperties
<1>11. DOMAIN p = 1..Len(q)
  <2>1. Len(p) = Len(q)
    BY <1>1, <1>6, <1>9, <1>10
  <2> QED
    BY <1>10, <2>1, LenProperties
<1>12. ASSUME NEW m \in 1..Len(q) PROVE \E n \in 1..Len(q) : p[n] = q[m]
  <2>1. CASE m = k
    <3>1. 1 \in 1..Len(q) /\ p[1] = q[k]
      BY <1>1, <1>6, <1>9, <1>10
    <3> QED
      BY <2>1, <3>1
  <2>2. CASE m < k
    <3>1. m + 1 \in 1..Len(q) /\ m \in 1..(k - 1)
      BY <2>2, <1>1
    <3>2. p[m + 1] = r[m]
      BY <3>1, <1>1, <1>6, <1>9, <1>10
    <3>3. r[m] = a[m]
      BY <3>1, <1>1, <1>4, <1>5, <1>8
    <3> QED
      BY <3>1, <3>2, <3>3, <1>4
  <2>3. CASE m > k
    <3>1. m \in 2..Len(q) /\ m - 1 \in 1..(Len(q) - 1) /\ m - k \in 1..(Len(q) - k)
      BY <2>3, <1>1
    <3>2. p[m] = r[m - 1]
      BY <3>1, <1>1, <1>6, <1>9, <1>10
    <3>3. r[m - 1] = b[(m - 1) - (k - 1)]
      <4>1. m - 1 \in 1..(Len(a) + Len(b)) /\ ~(m - 1 <= Len(a)) /\ Len(a) = k - 1
        BY <3>1, <2>3, <1>1, <1>4, <1>5
      <4> QED
        BY <4>1, <1>8
    <3>4. (m - 1) - (k - 1) = m - k /\ k + (m - k) = m
      BY <1>1
    <3>5. b[m - k] = q[m]
      BY <3>1, <3>4, <1>5
    <3> QED
      BY <3>1, <3>2, <3>3, <3>4, <3>5
  <2>4. m = k \/ m < k \/ m > k
    BY <1>1
  <2> HIDE DEF p, r
  <2> QED
    BY <2>1, <2>2, <2>3, <2>4
<1>13. <<q[k]>> \o RemoveAt(q, k) = p
  BY <1>7 DEF h
<1> HIDE DEF p
<1> QED
  BY <1>1, <1>11, <1>12, <1>13 DEF ToSet

\* No change of a running process strands an issue.
LEMMA NothingStranded ==
  ASSUME IInv, up,
         \/ \E i \in Issues : CreateThreadIssue(i) \/ StartThreadIssues(i)
         \/ \E k \in DOMAIN queue : ReorderThreadIssues(k)
         \/ ProcessIssueQueueOnce \/ BeginTurn \/ StartFails
         \/ ApplyTerminal \/ SettleTerminal
  PROVE  Stranded' \subseteq Stranded /\ Persist
<1>1. /\ status \in [Issues -> Statuses] /\ queue \in Seq(Issues)
      /\ starting \in IssueOrNone /\ NoIssue \notin Issues
  BY NoIssueAssumption DEF IInv, TypeOK
<1>2. ASSUME NEW i \in Issues, CreateThreadIssue(i) PROVE Stranded' \subseteq Stranded /\ Persist
  BY <1>1, <1>2 DEF CreateThreadIssue, Stranded
<1>3. ASSUME NEW i \in Issues, StartThreadIssues(i) PROVE Stranded' \subseteq Stranded /\ Persist
  <2>1. /\ status' = [status EXCEPT ![i] = "queued"] /\ queue' = Append(queue, i)
        /\ starting' = starting /\ Persist
    BY <1>3 DEF StartThreadIssues
  <2>2. i \in ToSet(queue') /\ ToSet(queue) \subseteq ToSet(queue')
    <3>1. /\ DOMAIN queue = 1..Len(queue) /\ DOMAIN queue' = 1..Len(queue) + 1
          /\ Len(queue) \in Nat
          /\ \A n \in 1..Len(queue) : queue'[n] = queue[n]
          /\ queue'[Len(queue) + 1] = i
      BY <1>1, <2>1, AppendProperties, LenProperties
    <3> QED
      BY <3>1 DEF ToSet
  <2> QED
    BY <1>1, <2>1, <2>2 DEF Stranded
<1>4. ASSUME NEW k \in DOMAIN queue, ReorderThreadIssues(k)
      PROVE  Stranded' \subseteq Stranded /\ Persist
  <2>1. /\ queue' = <<queue[k]>> \o RemoveAt(queue, k)
        /\ UNCHANGED <<status, starting>> /\ Persist
    BY <1>4 DEF ReorderThreadIssues
  <2>2. ToSet(queue) \subseteq ToSet(queue')
    BY <1>1, <2>1, ReorderKeepsIssues
  <2> QED
    BY <2>1, <2>2 DEF Stranded
<1>5. CASE ProcessIssueQueueOnce
  <2>1. /\ queue # <<>> /\ queue' = Tail(queue) /\ starting' = Head(queue)
        /\ status' = status /\ starting = NoIssue /\ Persist
    BY <1>5 DEF ProcessIssueQueueOnce, ShiftAndPersist
  <2>2. ToSet(queue) \subseteq ToSet(queue') \cup {starting'}
    <3>1. /\ Len(queue') = Len(queue) - 1 /\ Len(queue) \in Nat \ {0}
          /\ DOMAIN queue = 1..Len(queue) /\ DOMAIN queue' = 1..Len(queue')
          /\ \A n \in 1..Len(queue') : queue'[n] = queue[n + 1]
          /\ starting' = queue[1]
      BY <1>1, <2>1, HeadTailProperties, LenProperties, EmptySeq
    <3>2. ASSUME NEW n \in 1..Len(queue), n # 1 PROVE queue[n] \in ToSet(queue')
      <4>1. n - 1 \in 1..Len(queue') /\ (n - 1) + 1 = n
        BY <3>1, <3>2
      <4>2. queue'[n - 1] = queue[n]
        BY <3>1, <4>1
      <4> QED
        BY <3>1, <4>1, <4>2 DEF ToSet
    <3> QED
      BY <3>1, <3>2 DEF ToSet
  <2> QED
    BY <1>1, <2>1, <2>2 DEF Stranded
<1>6. CASE BeginTurn
  BY <1>1, <1>6 DEF BeginTurn, Stranded, IssueOrNone
<1>7. CASE StartFails
  <2>1. /\ queue' = <<starting>> \o queue /\ starting # NoIssue
        /\ starting' = NoIssue /\ status' = status /\ Persist
    BY <1>7 DEF StartFails
  <2>2. ToSet(queue) \cup {starting} \subseteq ToSet(queue')
    <3>1. starting \in Issues
      BY <1>1, <2>1 DEF IssueOrNone
    <3>2. <<starting>> \in Seq(Issues) /\ Len(<<starting>>) = 1 /\ <<starting>>[1] = starting
      BY <3>1
    <3>3. /\ queue' \in Seq(Issues) /\ Len(queue') = 1 + Len(queue)
          /\ \A n \in 1..(1 + Len(queue)) :
               queue'[n] = IF n <= 1 THEN <<starting>>[n] ELSE queue[n - 1]
      BY <1>1, <2>1, <3>2, ConcatProperties
    <3>4. /\ DOMAIN queue = 1..Len(queue) /\ DOMAIN queue' = 1..(1 + Len(queue))
          /\ Len(queue) \in Nat
      BY <1>1, <3>3, LenProperties
    <3>5. 1 \in DOMAIN queue' /\ queue'[1] = starting
      BY <3>2, <3>3, <3>4
    <3>6. ASSUME NEW n \in DOMAIN queue PROVE n + 1 \in DOMAIN queue' /\ queue'[n + 1] = queue[n]
      BY <3>3, <3>4
    <3> QED
      BY <3>5, <3>6 DEF ToSet
  <2> QED
    BY <2>1, <2>2 DEF Stranded
<1>8. CASE ApplyTerminal
  BY <1>1, <1>8 DEF ApplyTerminal, Stranded
<1>9. CASE SettleTerminal
  BY <1>9 DEF SettleTerminal, Stranded
<1> QED
  BY <1>2, <1>3, <1>4, <1>5, <1>6, <1>7, <1>8, <1>9

LEMMA NextStranded ==
  ASSUME IInv, StrandedInv, [Next]_vars
  PROVE  StrandedInv'
<1>1. restarts \in Nat
  BY DEF IInv, TypeOK
<1>2. IInv'
  BY NextIInv
<1>3. CASE \/ \E i \in Issues : CreateThreadIssue(i) \/ StartThreadIssues(i)
           \/ \E k \in DOMAIN queue : ReorderThreadIssues(k)
           \/ ProcessIssueQueueOnce \/ BeginTurn \/ StartFails
           \/ ApplyTerminal \/ SettleTerminal
  <2>1. up
    BY <1>3 DEF CreateThreadIssue, StartThreadIssues, ReorderThreadIssues, ProcessIssueQueueOnce,
                BeginTurn, StartFails, ApplyTerminal, SettleTerminal
  <2>2. Stranded' \subseteq Stranded /\ Persist
    BY <1>3, <2>1, NothingStranded
  <2> QED
    BY <1>2, <2>1, <2>2, PersistStranded
<1>4. CASE FlushTimer \/ Serialize \/ FlushWritten \/ FlushFails \/ UNCHANGED vars
  <2>1. UNCHANGED <<status, queue, starting, log, up, restarts>>
    BY <1>4 DEF FlushTimer, Serialize, FlushWritten, FlushFails, vars
  <2> QED
    BY <2>1 DEF StrandedInv, Stranded, Allowed
<1>5. CASE Exit \/ Crash
  <2>1. UNCHANGED <<status, queue, starting, log>> /\ up /\ up' = FALSE /\ restarts' = restarts + 1
    BY <1>5 DEF Exit, Crash, Down
  <2>2. Allowed' = Allowed /\ Stranded' = Stranded
    BY <2>1 DEF Allowed, Stranded
  <2>3. AtMost(Stranded, restarts + 1)
    BY <1>1, AtMostSubset DEF StrandedInv
  <2> QED
    BY <2>1, <2>2, <2>3 DEF StrandedInv
<1>6. CASE Start
  <2>1. ~up /\ up' = TRUE /\ restarts' = restarts /\ starting' = NoIssue
        /\ disk.state = log[disk.upTo]
    BY <1>6 DEF Start, IInv, FileOK
  <2>2. Allowed = restarts /\ Allowed' = restarts + 1
    BY <2>1 DEF Allowed
  <2>3. status' = disk.state.status /\ queue' = disk.state.queue
    BY <1>6, StartFacts
  <2>4. Stranded' \subseteq Orphans(disk.state)
    BY <2>3 DEF Stranded, Orphans
  <2>5. /\ Len(log') = disk.upTo /\ disk.upTo \in 1..Len(log)
        /\ \A n \in 1..disk.upTo : log'[n] = log[n]
    BY <1>6, StartLog
  <2>6. AtMost(Orphans(disk.state), restarts)
    BY <2>1, <2>2, <2>5 DEF StrandedInv
  <2>7. AtMost(Stranded', restarts)
    BY <1>1, <2>4, <2>6, AtMostSubset
  <2>8. ASSUME NEW n \in 1..Len(log') PROVE AtMost(Orphans(log'[n]), restarts + 1)
    <3>1. n \in 1..Len(log) /\ log'[n] = log[n]
      BY <2>5 DEF IInv, LogOK
    <3>2. AtMost(Orphans(log[n]), restarts)
      BY <2>2, <3>1 DEF StrandedInv
    <3> QED
      BY <1>1, <3>1, <3>2, AtMostSubset
  <2> QED
    BY <2>1, <2>2, <2>7, <2>8 DEF StrandedInv
<1> QED
  BY <1>3, <1>4, <1>5, <1>6 DEF Next

\* A card that says "queued" is in the queue or the issue is being started,
\* except for at most one for each time the process has ended: a crash or an exit
\* between taking an issue out of the queue and its turn strands that one issue,
\* and no restart strands another (processIssueQueueOnce, restoreThreadCentricState).
THEOREM StrandsOnePerRestart == Spec => []OneStrandedPerRestart
<1>1. Init => StrandedInv
  <2> SUFFICES ASSUME Init PROVE StrandedInv
    OBVIOUS
  <2>1. Stranded = {} /\ Orphans(Empty) = {}
    BY DEF Init, Stranded, Orphans, Empty
  <2>2. restarts = 0 /\ Allowed = 1 /\ Len(log) = 1 /\ log[1] = Empty
    BY DEF Init, Allowed
  <2>3. AtMost({}, 0) /\ AtMost({}, 1)
    BY FS_EmptySet DEF AtMost
  <2> QED
    BY <2>1, <2>2, <2>3 DEF StrandedInv
<1>2. IInv /\ StrandedInv /\ [Next]_vars => StrandedInv'
  BY NextStranded
<1>3. StrandedInv => OneStrandedPerRestart
  BY DEF StrandedInv, AtMost, Stranded, OneStrandedPerRestart
<1> QED
  BY <1>1, <1>2, <1>3, Inductive, PTL DEF Spec
=============================================================================
