------------------------ MODULE ThreadReadModel_proofs ------------------------
(***************************************************************************)
(* Type correctness of ThreadReadModel and ReadNotStale, for any number of *)
(* issues, rollovers, changes, events in transit and losses.               *)
(*                                                                         *)
(* The argument: a copy of the cards carries the time it was taken.  For   *)
(* whatever the bridge has, or answered, the copy is not behind as far as  *)
(* the change was made before that time, because every change is later     *)
(* than all copies that exist (Copy).  All rows of the board are of one    *)
(* event (OneEvent), so one row projected after the closing of a physical  *)
(* thread vouches for all of them.                                         *)
(***************************************************************************)
EXTENDS ThreadReadModel, TLAPS

Behind(C, S, at) ==
  \A c \in C, s \in S : s.id = c.id /\ c.ver =< at => c.ver =< s.ver
Copy(C, A, now, S, at) == at =< now /\ Behind(C, S, at) /\ Behind(A, S, at)
Newer(C, A, now) ==
  /\ \A c \in C \cup A : c.ver =< now
  /\ \A a \in A, c \in C : a.id = c.id => a.ver =< c.ver
OneCard(C) == \A c, d \in C : c.id = d.id => c = d

Answered == reader.answer.cards
ChannelSound ==
  \A k \in 1 .. Len(channel) :
    Copy(cards, Answered, clock, channel[k].cards, channel[k].at)
WorkerSound == Copy(cards, Answered, clock, worker.left, worker.at)
BoardSound == \A r \in board : Copy(cards, Answered, clock, {r}, r.at)
OneEvent ==
  /\ \A r, s \in board : r.at = s.at
  /\ worker.pc = "fill" => \A r \in board : r.at = worker.at
Unique == OneCard(cards) /\ OneCard(Answered)
Gone == Deleted => cards = {} /\ running = NoIssue

Sound == ChannelSound /\ WorkerSound /\ BoardSound
IInv == TypeOK /\ Sound /\ OneEvent /\ Newer(cards, Answered, clock) /\ Unique /\ Gone

-----------------------------------------------------------------------------
(***************************************************************************)
(* Copies.                                                                 *)
(***************************************************************************)

\* D is C after a change made at now + 1.
Changed(C, D, now) == D \subseteq Card /\ \A d \in D : d \in C \/ d.ver = now + 1

\* A copy that exists stays sound when cards change.
LEMMA CopyKept ==
  ASSUME NEW C, NEW D, NEW A, NEW S, NEW now \in Nat, NEW at \in Nat,
         Copy(C, A, now, S, at), Changed(C, D, now)
  PROVE  Copy(D, A, now + 1, S, at)
<1>1. Behind(D, S, at)
  <2> SUFFICES ASSUME NEW d \in D, NEW s \in S, s.id = d.id, d.ver =< at
               PROVE  d.ver =< s.ver
    BY DEF Behind
  <2>1. d \in C
    BY DEF Changed, Copy
  <2> QED
    BY <2>1 DEF Copy, Behind
<1> QED
  BY <1>1 DEF Copy

\* The cards as they are after a change are a sound copy, and so is no card.
LEMMA CopyTaken ==
  ASSUME NEW C \in SUBSET Card, NEW D, NEW A \in SUBSET Card, NEW S, NEW now \in Nat,
         Newer(C, A, now), Changed(C, D, now), OneCard(D), S = D \/ S = {}
  PROVE  Copy(D, A, now + 1, S, now + 1)
<1>1. Behind(D, S, now + 1)
  <2> SUFFICES ASSUME NEW d \in D, NEW s \in S, s.id = d.id
               PROVE  d.ver =< s.ver
    BY DEF Behind
  <2>1. d = s /\ d.ver \in Nat
    BY DEF Changed, OneCard, Card
  <2> QED
    BY <2>1
<1>2. Behind(A, S, now + 1)
  <2> SUFFICES ASSUME NEW a \in A, NEW s \in S, s.id = a.id
               PROVE  a.ver =< s.ver
    BY DEF Behind
  <2>1. a.ver \in Nat /\ a.ver =< now
    BY DEF Newer, Card
  <2>2. CASE s \in C
    BY <2>2 DEF Newer
  <2>3. CASE s.ver = now + 1
    BY <2>1, <2>3
  <2> QED
    BY <2>2, <2>3 DEF Changed
<1> QED
  BY <1>1, <1>2 DEF Copy

\* What was answered stays older than what the bridge has.
LEMMA NewerKept ==
  ASSUME NEW C \in SUBSET Card, NEW D, NEW A \in SUBSET Card, NEW now \in Nat,
         Newer(C, A, now), Changed(C, D, now)
  PROVE  Newer(D, A, now + 1)
<1>1. \A c \in C \cup A : c.ver \in Nat /\ c.ver =< now
  BY DEF Newer, Card
<1>2. \A d \in D : d \in C \/ d.ver = now + 1
  BY DEF Changed
<1>3. \A c \in D \cup A : c.ver =< now + 1
  BY <1>1, <1>2
<1>4. \A a \in A, c \in D : a.id = c.id => a.ver =< c.ver
  <2> SUFFICES ASSUME NEW a \in A, NEW c \in D, a.id = c.id
               PROVE  a.ver =< c.ver
    OBVIOUS
  <2>1. CASE c \in C
    BY <2>1 DEF Newer
  <2>2. CASE c.ver = now + 1
    BY <2>2, <1>1
  <2> QED
    BY <2>1, <2>2, <1>2
<1> QED
  BY <1>3, <1>4 DEF Newer

-----------------------------------------------------------------------------
(***************************************************************************)
(* Steps of the bridge that change cards.                                  *)
(***************************************************************************)

\* What they have in common: time goes on, and what is published, if anything
\* is, is the cards or nothing.
Change ==
  /\ clock' = clock + 1
  /\ Changed(cards, cards', clock)
  /\ OneCard(cards')
  /\ UNCHANGED <<worker, board, reader>>
  /\ \/ UNCHANGED channel
     \/ \E e \in Event : /\ channel' = Append(channel, e)
                         /\ e.at = clock + 1
                         /\ e.cards = cards' \/ e.cards = {}

LEMMA ChangeKeeps ==
  ASSUME IInv, Change
  PROVE  /\ Sound' /\ OneEvent' /\ Newer(cards, Answered, clock)' /\ Unique'
         /\ cards' \subseteq Card /\ clock' \in Nat /\ channel' \in Seq(Event)
         /\ worker' \in [pc : {"idle", "clear", "fill"}, left : SUBSET Card, at : Nat]
         /\ board' \subseteq Row
         /\ reader' \in [asked : BOOLEAN, answer : Answer]
<1>1. /\ clock \in Nat /\ clock' = clock + 1 /\ channel \in Seq(Event) /\ board \subseteq Row
      /\ worker \in [pc : {"idle", "clear", "fill"}, left : SUBSET Card, at : Nat]
      /\ cards \in SUBSET Card /\ Answered \in SUBSET Card /\ Answered' = Answered
      /\ reader \in [asked : BOOLEAN, answer : Answer]
  BY DEF IInv, TypeOK, Change, Answered, Answer
<1>2. /\ Newer(cards, Answered, clock) /\ Changed(cards, cards', clock)
      /\ OneCard(cards') /\ OneCard(Answered)
  BY DEF IInv, Change, Unique
<1>3. \A S : \A at \in Nat :
        Copy(cards, Answered, clock, S, at) => Copy(cards', Answered', clock', S, at)
  BY <1>1, <1>2, CopyKept
<1>4. Newer(cards', Answered', clock')
  BY <1>1, <1>2, NewerKept
<1>5. channel' \in Seq(Event)
  BY <1>1 DEF Change
<1>6. ChannelSound'
  <2>1. \A k \in 1 .. Len(channel) :
          channel[k].at \in Nat /\ Copy(cards', Answered', clock', channel[k].cards, channel[k].at)
    <3> SUFFICES ASSUME NEW k \in 1 .. Len(channel)
                 PROVE  /\ channel[k].at \in Nat
                        /\ Copy(cards', Answered', clock', channel[k].cards, channel[k].at)
      OBVIOUS
    <3>1. channel[k] \in Event
      BY <1>1
    <3>2. channel[k].at \in Nat
      BY <3>1 DEF Event
    <3>3. Copy(cards, Answered, clock, channel[k].cards, channel[k].at)
      BY DEF IInv, Sound, ChannelSound
    <3> QED
      BY <1>3, <3>2, <3>3
  <2>2. ASSUME NEW e \in Event, channel' = Append(channel, e), e.at = clock + 1,
               e.cards = cards' \/ e.cards = {}
        PROVE  ChannelSound'
    <3>1. Copy(cards', Answered', clock', e.cards, e.at)
      BY <1>1, <1>2, <2>2, CopyTaken
    <3>2. Len(channel') = Len(channel) + 1 /\ channel'[Len(channel) + 1] = e
          /\ \A k \in 1 .. Len(channel) : channel'[k] = channel[k]
      BY <1>1, <2>2
    <3> QED
      BY <1>1, <2>1, <3>1, <3>2 DEF ChannelSound
  <2> QED
    BY <2>1, <2>2 DEF Change, ChannelSound
<1>7. WorkerSound'
  BY <1>1, <1>3 DEF IInv, Sound, WorkerSound, Change
<1>8. BoardSound'
  BY <1>1, <1>3 DEF IInv, Sound, BoardSound, Change, Row
<1>9. OneEvent'
  BY DEF IInv, OneEvent, Change
<1> QED
  BY <1>1, <1>2, <1>4, <1>5, <1>6, <1>7, <1>8, <1>9 DEF Sound, Unique, Change, Changed

\* Publishing gives an event, or none.
LEMMA Published ==
  ASSUME TypeOK, NEW kind \in {"issues", "deleted"}, NEW S \in SUBSET Card,
         clock' = clock + 1, Publish(kind, S)
  PROVE  /\ \/ UNCHANGED channel
            \/ \E e \in Event : channel' = Append(channel, e) /\ e.at = clock + 1 /\ e.cards = S
         /\ losses' \in Nat
         /\ missed' \in BOOLEAN
<1> DEFINE e == [kind |-> kind, cards |-> S, at |-> clock']
<1>1. e \in Event /\ e.at = clock + 1 /\ e.cards = S
  BY DEF TypeOK, Event
<1>2. CASE channel' = Append(channel, e) /\ missed' = FALSE /\ UNCHANGED losses
  <2>1. \E f \in Event : channel' = Append(channel, f) /\ f.at = clock + 1 /\ f.cards = S
    BY <1>1, <1>2
  <2> QED
    BY <1>2, <2>1 DEF TypeOK
<1>3. CASE losses' = losses + 1 /\ missed' = TRUE /\ UNCHANGED channel
  BY <1>3 DEF TypeOK
<1> QED
  BY <1>2, <1>3 DEF Publish

\* Giving an issue a new card changes the cards.
LEMMA WithChanges ==
  ASSUME IInv, NEW i \in Issues, NEW p \in Physical, clock' = clock + 1, cards' = With(i, p)
  PROVE  Changed(cards, cards', clock) /\ OneCard(cards')
<1>1. cards \subseteq Card /\ OneCard(cards) /\ clock' \in Nat
  BY DEF IInv, TypeOK, Unique
<1>2. \A c \in cards' : \/ c \in cards /\ c.id # i
                        \/ c = [id |-> i, on |-> p, ver |-> clock']
  BY DEF With, Without
<1>3. cards' \subseteq Card
  BY <1>1, <1>2 DEF Card
<1>4. OneCard(cards')
  BY <1>1, <1>2 DEF OneCard
<1>5. \A c \in cards' : c \in cards \/ c.ver = clock + 1
  BY <1>2
<1> QED
  BY <1>3, <1>4, <1>5 DEF Changed

\* A step that changes cards and publishes keeps the invariant, given what it
\* does to the rest of the bridge's state.
LEMMA PublishKeeps ==
  ASSUME IInv, NEW kind \in {"issues", "deleted"}, NEW S \in SUBSET Card, Publish(kind, S),
         clock' = clock + 1, Changed(cards, cards', clock), OneCard(cards'),
         S = cards' \/ S = {}, UNCHANGED <<worker, board, reader>>,
         used' \subseteq Issues, running' \in Issues \cup {NoIssue},
         active' \in 0 .. MaxPhysical, closedAt' \in [Physical -> Nat],
         recent' \subseteq Physical, Gone'
  PROVE  IInv'
<1>1. /\ \/ UNCHANGED channel
         \/ \E e \in Event : channel' = Append(channel, e) /\ e.at = clock + 1 /\ e.cards = S
      /\ losses' \in Nat
      /\ missed' \in BOOLEAN
  BY Published DEF IInv
<1>2. Change
  BY <1>1 DEF Change
<1> QED
  BY <1>1, <1>2, ChangeKeeps DEF IInv, TypeOK

\* Cards that are taken away leave a change.
LEMMA WithoutChanges ==
  ASSUME IInv, NEW D \in SUBSET cards
  PROVE  Changed(cards, D, clock) /\ OneCard(D)
BY DEF IInv, TypeOK, Unique, Changed, OneCard

-----------------------------------------------------------------------------
(***************************************************************************)
(* One lemma per action of the bridge.                                     *)
(***************************************************************************)
LEMMA Live ==
  ASSUME IInv, cards # {} \/ running # NoIssue \/ ~Deleted
  PROVE  active \in Physical
BY BoundsAssumption DEF IInv, TypeOK, Gone, Deleted, Physical

LEMMA CreateKeeps == ASSUME IInv, NEW i \in Issues, CreateIssue(i) PROVE IInv'
<1>1. clock' = clock + 1 /\ cards' = With(i, active) /\ active \in Physical
  BY Live DEF CreateIssue, Tick
<1>2. Changed(cards, cards', clock) /\ OneCard(cards') /\ cards' \subseteq Card
  BY <1>1, WithChanges DEF Changed
<1>3. Gone'
  BY DEF CreateIssue, Gone, Deleted
<1> QED
  BY <1>1, <1>2, <1>3, PublishKeeps DEF CreateIssue, PublishIssues, IInv, TypeOK

LEMMA EditKeeps == ASSUME IInv, NEW c \in cards, EditIssue(c) PROVE IInv'
<1>1. /\ clock' = clock + 1 /\ cards' = With(c.id, c.on) /\ c.id \in Issues /\ c.on \in Physical
      /\ active \in Physical
  BY Live DEF EditIssue, Tick, IInv, TypeOK, Card
<1>2. Changed(cards, cards', clock) /\ OneCard(cards') /\ cards' \subseteq Card
  BY <1>1, WithChanges DEF Changed
<1>3. Gone'
  BY <1>1 DEF EditIssue, Gone, Deleted, Physical
<1> QED
  BY <1>1, <1>2, <1>3, PublishKeeps DEF EditIssue, PublishIssues, IInv, TypeOK

LEMMA StartKeeps == ASSUME IInv, NEW c \in cards, StartIssue(c) PROVE IInv'
<1>1. /\ clock' = clock + 1 /\ cards' = With(c.id, active) /\ c.id \in Issues
      /\ active \in Physical
  BY Live DEF StartIssue, Tick, IInv, TypeOK, Card
<1>2. Changed(cards, cards', clock) /\ OneCard(cards') /\ cards' \subseteq Card
  BY <1>1, WithChanges DEF Changed
<1>3. Gone'
  BY <1>1 DEF StartIssue, Gone, Deleted, Physical
<1> QED
  BY <1>1, <1>2, <1>3, PublishKeeps DEF StartIssue, PublishIssues, IInv, TypeOK

LEMMA ProgressKeeps == ASSUME IInv, Progress PROVE IInv'
<1>1. /\ clock' = clock + 1 /\ cards' = With(running, active) /\ running \in Issues
      /\ active \in Physical
  BY Live DEF Progress, Tick, IInv, TypeOK
<1>2. Changed(cards, cards', clock) /\ OneCard(cards')
  BY <1>1, WithChanges
<1>3. Gone'
  BY <1>1 DEF Progress, Gone, Deleted, Physical
<1>4. Change
  BY <1>1, <1>2 DEF Progress, Change, projection
<1> QED
  BY <1>3, <1>4, ChangeKeeps DEF Progress, IInv, TypeOK, faults

LEMMA FinishKeeps == ASSUME IInv, FinishIssue PROVE IInv'
<1>1. /\ clock' = clock + 1 /\ cards' = With(running, active) /\ running \in Issues
      /\ active \in Physical
  BY Live DEF FinishIssue, Tick, IInv, TypeOK
<1>2. Changed(cards, cards', clock) /\ OneCard(cards') /\ cards' \subseteq Card
  BY <1>1, WithChanges DEF Changed
<1>3. Gone'
  BY <1>1 DEF FinishIssue, Gone, Deleted, Physical
<1> QED
  BY <1>1, <1>2, <1>3, PublishKeeps DEF FinishIssue, PublishIssues, IInv, TypeOK

LEMMA DeleteKeeps == ASSUME IInv, NEW c \in cards, DeleteIssue(c) PROVE IInv'
<1>1. clock' = clock + 1 /\ cards' \in SUBSET cards /\ active \in Physical
  BY Live DEF DeleteIssue, Tick, Without
<1>2. Changed(cards, cards', clock) /\ OneCard(cards') /\ cards' \subseteq Card
  BY <1>1, WithoutChanges DEF Changed
<1>3. Gone'
  BY <1>1 DEF DeleteIssue, Gone, Deleted, Physical
<1> QED
  BY <1>1, <1>2, <1>3, PublishKeeps DEF DeleteIssue, PublishIssues, IInv, TypeOK

LEMMA RolloverKeeps == ASSUME IInv, Rollover PROVE IInv'
<1>1. /\ clock' = clock + 1 /\ active \in Physical /\ active' \in Physical /\ clock' \in Nat
  BY BoundsAssumption DEF Rollover, Tick, Physical, IInv, TypeOK
<1>2. Changed(cards, cards', clock) /\ OneCard(cards')
  <2>1. CASE running = NoIssue
    BY <2>1, WithoutChanges DEF Rollover
  <2>2. CASE running # NoIssue
    <3>1. running \in Issues
      BY <2>2 DEF IInv, TypeOK
    <3>2. cards' = With(running, active')
      BY <2>2 DEF Rollover
    <3> QED
      BY <3>1, <3>2, <1>1, WithChanges
  <2> QED
    BY <2>1, <2>2
<1>3. Gone'
  BY <1>1 DEF Gone, Deleted, Physical
<1>4. Change
  BY <1>1, <1>2 DEF Rollover, Change, projection
<1>5. /\ used' \subseteq Issues /\ running' \in Issues \cup {NoIssue}
      /\ active' \in 0 .. MaxPhysical /\ closedAt' \in [Physical -> Nat]
      /\ recent' \subseteq Physical /\ losses' \in Nat /\ missed' \in BOOLEAN
  BY <1>1 DEF Rollover, IInv, TypeOK, Physical, faults
<1> QED
  BY <1>3, <1>4, <1>5, ChangeKeeps DEF IInv, TypeOK

LEMMA DeleteRootKeeps == ASSUME IInv, DeleteRootThread PROVE IInv'
<1>1. clock' = clock + 1 /\ cards' = {} /\ 0 \in 0 .. MaxPhysical
  BY BoundsAssumption DEF DeleteRootThread, Tick
<1>2. Changed(cards, cards', clock) /\ OneCard(cards')
  BY <1>1, WithoutChanges
<1>3. Gone'
  BY DEF DeleteRootThread, Gone
<1> QED
  BY <1>1, <1>2, <1>3, PublishKeeps DEF DeleteRootThread, IInv, TypeOK

LEMMA RepublishKeeps == ASSUME IInv, NEW known \in SUBSET recent, Republish(known) PROVE IInv'
<1>1. clock' = clock + 1 /\ cards' = cards /\ cards \subseteq Card
  BY DEF Republish, Tick, IInv, TypeOK
<1>2. Changed(cards, cards', clock) /\ OneCard(cards')
  BY <1>1, WithoutChanges
<1>3. Gone'
  BY DEF Republish, Gone, Deleted
<1> QED
  BY <1>1, <1>2, <1>3, PublishKeeps DEF Republish, PublishIssues, IInv, TypeOK

\* Steps that leave the cards, and add no copy.
LEMMA GraceKeeps == ASSUME IInv, NEW p \in recent, GraceExpires(p) PROVE IInv'
BY DEF GraceExpires, projection, faults, IInv, TypeOK, Sound, ChannelSound, WorkerSound,
       BoardSound, OneEvent, Unique, Gone, Deleted, Answered

-----------------------------------------------------------------------------
(***************************************************************************)
(* The worker and the gateway.                                             *)
(***************************************************************************)
LEMMA TakeKeeps == ASSUME IInv, Take PROVE IInv'
<1>1. channel \in Seq(Event) /\ channel # <<>> /\ Head(channel) \in Event
      /\ Head(channel) = channel[1] /\ 1 \in 1 .. Len(channel)
  BY DEF Take, IInv, TypeOK
<1>2. /\ Tail(channel) \in Seq(Event)
      /\ \A k \in 1 .. Len(Tail(channel)) :
           k + 1 \in 1 .. Len(channel) /\ Tail(channel)[k] = channel[k + 1]
  BY <1>1
<1>3. UNCHANGED <<cards, used, running, active, closedAt, recent, clock, board, reader,
                  losses, missed, Answered>>
  BY DEF Take, bridge, faults, Answered
<1>4. ChannelSound'
  BY <1>2, <1>3 DEF Take, IInv, Sound, ChannelSound
<1>5. WorkerSound'
  BY <1>1, <1>3 DEF Take, IInv, Sound, ChannelSound, WorkerSound
<1>6. BoardSound' /\ OneEvent'
  BY <1>3 DEF Take, IInv, Sound, BoardSound, OneEvent
<1>7. TypeOK'
  BY <1>1, <1>2, <1>3 DEF Take, IInv, TypeOK, Event
<1> QED
  BY <1>3, <1>4, <1>5, <1>6, <1>7 DEF IInv, Sound, Unique, Gone, Deleted

LEMMA ClearRowKeeps == ASSUME IInv, NEW r \in board, ClearRow(r) PROVE IInv'
BY DEF ClearRow, bridge, faults, IInv, TypeOK, Sound, ChannelSound, WorkerSound,
       BoardSound, OneEvent, Unique, Gone, Deleted, Answered

LEMMA ClearedKeeps == ASSUME IInv, Cleared PROVE IInv'
BY DEF Cleared, bridge, faults, IInv, TypeOK, Sound, ChannelSound, WorkerSound,
       BoardSound, OneEvent, Unique, Gone, Deleted, Answered

LEMMA FillRowKeeps == ASSUME IInv, NEW c \in worker.left, FillRow(c) PROVE IInv'
<1>1. UNCHANGED <<cards, used, running, active, closedAt, recent, clock, channel, reader,
                  losses, missed, Answered>>
  BY DEF FillRow, bridge, faults, Answered
<1>2. /\ worker \in [pc : {"idle", "clear", "fill"}, left : SUBSET Card, at : Nat]
      /\ worker.pc = "fill" /\ c \in Card /\ worker.at \in Nat
      /\ worker' = [pc |-> "fill", left |-> worker.left \ {c}, at |-> worker.at]
  BY DEF FillRow, IInv, TypeOK
<1>3. \A r \in board' : r \in board \/ r = Projected(c)
  BY DEF FillRow
<1>4. Projected(c) \in Row
  BY <1>2 DEF Projected, Row, Card
<1>5. WorkerSound'
  BY <1>1, <1>2 DEF IInv, Sound, WorkerSound, Copy, Behind
<1>6. BoardSound'
  <2>1. Copy(cards, Answered, clock, {Projected(c)}, Projected(c).at)
    BY DEF IInv, Sound, WorkerSound, Copy, Behind, Projected
  <2> QED
    BY <1>1, <1>3, <2>1 DEF IInv, Sound, BoardSound
<1>7. OneEvent'
  BY <1>2, <1>3 DEF IInv, OneEvent, Projected
<1>8. ChannelSound'
  BY <1>1 DEF IInv, Sound, ChannelSound
<1>9. TypeOK'
  BY <1>1, <1>2, <1>3, <1>4 DEF IInv, TypeOK
<1> QED
  BY <1>1, <1>5, <1>6, <1>7, <1>8, <1>9 DEF IInv, Sound, Unique, Gone, Deleted

\* The worker gives up, or is done with, what it serves, and may lose what waits.
LEMMA IdleKeeps ==
  ASSUME IInv, worker' = Idle, UNCHANGED <<bridge, board, reader>>,
         channel' = channel \/ channel' = <<>>, losses' \in Nat, missed' \in BOOLEAN
  PROVE  IInv'
<1>1. UNCHANGED <<cards, used, running, active, closedAt, recent, clock, board, reader, Answered>>
  BY DEF bridge, Answered
<1>2. ChannelSound' /\ channel' \in Seq(Event)
  <2>1. CASE channel' = channel
    BY <1>1, <2>1 DEF IInv, TypeOK, Sound, ChannelSound
  <2>2. CASE channel' = <<>>
    <3>1. Len(channel') = 0 /\ channel' \in Seq(Event)
      BY <2>2
    <3> QED
      BY <3>1 DEF ChannelSound
  <2> QED
    BY <2>1, <2>2
<1>3. WorkerSound'
  BY <1>1 DEF IInv, TypeOK, WorkerSound, Idle, Copy, Behind
<1>4. BoardSound' /\ OneEvent'
  BY <1>1 DEF IInv, Sound, BoardSound, OneEvent, Idle
<1>5. TypeOK'
  BY <1>1, <1>2 DEF IInv, TypeOK, Idle
<1> QED
  BY <1>1, <1>2, <1>3, <1>4, <1>5 DEF IInv, Sound, Unique, Gone, Deleted

LEMMA WorkerGivesUp == ASSUME IInv, Served \/ Fail \/ RestartWorker PROVE IInv'
<1>1. CASE Served
  BY <1>1, IdleKeeps DEF Served, faults, IInv, TypeOK
<1>2. CASE Fail
  <2>1. (missed \/ channel = <<>>) \in BOOLEAN
    OBVIOUS
  <2>2. missed' \in BOOLEAN
    BY <1>2, <2>1, Zenon DEF Fail
  <2>3. losses' \in Nat
    BY <1>2 DEF Fail, IInv, TypeOK
  <2> QED
    BY <1>2, <2>2, <2>3, IdleKeeps DEF Fail
<1>3. CASE RestartWorker
  BY <1>3, IdleKeeps DEF RestartWorker, IInv, TypeOK
<1> QED
  BY <1>1, <1>2, <1>3

LEMMA AskKeeps == ASSUME IInv, Ask PROVE IInv'
<1>1. UNCHANGED <<cards, used, running, active, closedAt, recent, clock, channel, worker,
                  board, losses, missed>>
  BY DEF Ask, bridge, projection, faults
<1>2. Answered' = cards
  BY DEF Ask, Current, Answered
<1>3. \A S, at : Copy(cards, Answered, clock, S, at) => Copy(cards, cards, clock, S, at)
  BY DEF Copy
<1>4. Sound'
  BY <1>1, <1>2, <1>3 DEF IInv, Sound, ChannelSound, WorkerSound, BoardSound
<1>5. Newer(cards, Answered, clock)' /\ Unique'
  <2>1. \A c \in cards : c.ver \in Nat
    BY DEF IInv, TypeOK, Card
  <2> QED
    BY <1>1, <1>2, <2>1 DEF IInv, Newer, Unique, OneCard
<1>6. TypeOK'
  BY <1>1 DEF IInv, TypeOK, Ask, Current, Answer
<1> QED
  BY <1>1, <1>4, <1>5, <1>6 DEF IInv, OneEvent, Gone, Deleted

LEMMA ReplyKeeps == ASSUME IInv, Reply PROVE IInv'
<1>1. UNCHANGED <<cards, used, running, active, closedAt, recent, clock, channel, worker,
                  board, losses, missed>>
  BY DEF Reply, bridge, projection, faults
<1>2. Answered' = {}
  BY DEF Reply, NoAnswer, Answered
<1>3. \A S, at : Copy(cards, Answered, clock, S, at) => Copy(cards, {}, clock, S, at)
  BY DEF Copy, Behind
<1>4. Sound'
  BY <1>1, <1>2, <1>3 DEF IInv, Sound, ChannelSound, WorkerSound, BoardSound
<1>5. Newer(cards, Answered, clock)' /\ Unique'
  BY <1>1, <1>2 DEF IInv, Newer, Unique, OneCard
<1>6. TypeOK'
  BY <1>1, BoundsAssumption DEF IInv, TypeOK, Reply, NoAnswer, Answer
<1> QED
  BY <1>1, <1>4, <1>5, <1>6 DEF IInv, OneEvent, Gone, Deleted

-----------------------------------------------------------------------------
(***************************************************************************)
(* The theorems.                                                           *)
(***************************************************************************)
LEMMA InitIInv == ASSUME Init PROVE IInv
<1>1. TypeOK
  <2>1. 0 \in 0 .. MaxPhysical /\ 1 \in 0 .. MaxPhysical
    BY BoundsAssumption
  <2>2. cards = {} /\ used = {} /\ recent = {} /\ board = {} /\ channel = <<>>
    BY DEF Init
  <2>3. cards \subseteq Card /\ used \subseteq Issues /\ recent \subseteq Physical
        /\ board \subseteq Row /\ channel \in Seq(Event)
    BY <2>2
  <2>4. closedAt \in [Physical -> Nat]
    BY DEF Init
  <2>5. worker \in [pc : {"idle", "clear", "fill"}, left : SUBSET Card, at : Nat]
    BY DEF Init, Idle
  <2>6. reader \in [asked : BOOLEAN, answer : Answer]
    BY <2>1 DEF Init, NoAnswer, Answer
  <2> QED
    BY <2>1, <2>3, <2>4, <2>5, <2>6 DEF Init, TypeOK
<1>2. Sound
  BY DEF Init, Sound, ChannelSound, WorkerSound, BoardSound, Copy, Behind, Idle, NoAnswer, Answered
<1>3. OneEvent /\ Newer(cards, Answered, clock) /\ Unique /\ Gone
  BY DEF Init, OneEvent, Newer, Unique, OneCard, Gone, Deleted, NoAnswer, Answered
<1> QED
  BY <1>1, <1>2, <1>3 DEF IInv

LEMMA NextIInv == ASSUME IInv, [Next]_vars PROVE IInv'
<1>1. CASE UNCHANGED vars
  BY <1>1 DEF vars, bridge, projection, faults, IInv, TypeOK, Sound, ChannelSound, WorkerSound,
              BoardSound, OneEvent, Unique, Gone, Deleted, Answered
<1>2. CASE BridgeNext
  BY <1>2, CreateKeeps, EditKeeps, StartKeeps, ProgressKeeps, FinishKeeps, DeleteKeeps,
     RolloverKeeps, GraceKeeps, DeleteRootKeeps, RepublishKeeps
     DEF BridgeNext, NatsReconnect, RestartBridge
<1>3. CASE Serve
  BY <1>3, TakeKeeps, ClearRowKeeps, ClearedKeeps, FillRowKeeps, WorkerGivesUp DEF Serve
<1>4. CASE Fail \/ RestartWorker
  BY <1>4, WorkerGivesUp
<1>5. CASE Ask \/ Reply
  BY <1>5, AskKeeps, ReplyKeeps
<1> QED
  BY <1>1, <1>2, <1>3, <1>4, <1>5 DEF Next

\* What the gateway shows is no older than what it was answered.
LEMMA IInvNotStale == ASSUME IInv PROVE ReadNotStale
<1> SUFFICES ASSUME NEW c \in reader.answer.cards
             PROVE  LET a == reader.answer
                        shown == Merged(a, board)
                    IN /\ \E s \in shown : s.id = c.id
                       /\ c.on = a.active => c \in shown
                       /\ c.on \in a.recent /\ c.ver < closedAt[c.on] =>
                            \A s \in shown : s.id = c.id => s.ver >= c.ver
  BY DEF ReadNotStale
<1> DEFINE a == reader.answer
<1> DEFINE shown == Merged(a, board)
<1>1. c \in Card /\ c.on \in Physical /\ c.ver \in Nat /\ closedAt[c.on] \in Nat
  BY DEF IInv, TypeOK, Answer, Card
<1>2. OneCard(a.cards)
  BY DEF IInv, Unique, Answered
<1>3. FromBridge(a, board) \subseteq a.cards
  BY DEF FromBridge
<1>4. ASSUME c \notin FromBridge(a, board)
      PROVE  /\ c.on \notin Preferred(a, board)
             /\ \E r \in FromBoard(a, board) : r.id = c.id
             /\ \A d \in FromBridge(a, board) : d.id # c.id
  BY <1>2, <1>3, <1>4 DEF FromBridge, OneCard
<1>5. \E s \in shown : s.id = c.id
  <2>1. CASE c \in FromBridge(a, board)
    BY <2>1 DEF Merged
  <2>2. CASE c \notin FromBridge(a, board)
    <3>1. PICK r \in FromBoard(a, board) : r.id = c.id
      BY <2>2, <1>4
    <3>2. [id |-> r.id, on |-> r.on, ver |-> r.ver] \in shown
      BY <3>1, <2>2, <1>4 DEF Merged
    <3> QED
      BY <3>1, <3>2
  <2> QED
    BY <2>1, <2>2
<1>6. ASSUME c.on = a.active PROVE c \in shown
  BY <1>1, <1>6 DEF Merged, FromBridge, Preferred
<1>7. ASSUME c.on \in a.recent, c.ver < closedAt[c.on], NEW s \in shown, s.id = c.id
      PROVE  s.ver >= c.ver
  <2>1. CASE s \in FromBridge(a, board)
    BY <2>1, <1>1, <1>2, <1>3, <1>7 DEF OneCard
  <2>2. CASE s \notin FromBridge(a, board)
    <3>1. PICK r \in FromBoard(a, board) :
            /\ \A d \in FromBridge(a, board) : d.id # r.id
            /\ s = [id |-> r.id, on |-> r.on, ver |-> r.ver]
      BY <2>2 DEF Merged
    <3>2. r \in board /\ r \in Row /\ r.id = c.id /\ r.ver = s.ver /\ r.ver \in Nat /\ r.at \in Nat
      BY <3>1, <1>7 DEF FromBoard, IInv, TypeOK, Row
    <3>3. c.on \notin Preferred(a, board)
      BY <3>1, <3>2, <1>4
    <3>4. PICK q \in board : q.on = c.on /\ q.at >= closedAt[c.on]
      BY <3>3, <1>1, <1>7 DEF Preferred, CaughtUp
    <3>5. q.at = r.at
      BY <3>2, <3>4 DEF IInv, OneEvent
    <3>6. c.ver =< r.at
      BY <3>2, <3>4, <3>5, <1>1, <1>7
    <3>7. Behind(a.cards, {r}, r.at)
      BY <3>2 DEF IInv, Sound, BoardSound, Copy, Answered
    <3>8. c.ver =< r.ver
      BY <3>2, <3>6, <3>7 DEF Behind
    <3> QED
      BY <3>2, <3>8, <1>1
  <2> QED
    BY <2>1, <2>2
<1> QED
  BY <1>5, <1>6, <1>7

\* Every variable keeps its type.
THEOREM ReadModelTypeCorrect == Spec => []TypeOK
<1>1. Init => IInv
  BY InitIInv
<1>2. IInv /\ [Next]_vars => IInv'
  BY NextIInv
<1>3. IInv => TypeOK
  BY DEF IInv
<1> QED
  BY <1>1, <1>2, <1>3, PTL DEF Spec

\* A read shows every issue the bridge answered, exactly on the active physical
\* thread and never older than at the closing on a recently closed one.
THEOREM NeverStale == Spec => []ReadNotStale
<1>1. Init => IInv
  BY InitIInv
<1>2. IInv /\ [Next]_vars => IInv'
  BY NextIInv
<1>3. IInv => ReadNotStale
  BY IInvNotStale
<1> QED
  BY <1>1, <1>2, <1>3, PTL DEF Spec
=============================================================================
