-------------------- MODULE RunningIssueBackfill_proofs --------------------
(***************************************************************************)
(* Proofs about RunningIssueBackfill, for every set of issues and readers, *)
(* every number of chunks and of lost sockets, and every bound.            *)
(***************************************************************************)
EXTENDS RunningIssueBackfill, TLAPS, SequenceTheorems, FiniteSetTheorems,
        WellFoundedInduction

USE DEF link, tracking, binding

-----------------------------------------------------------------------------
(***************************************************************************)
(* Facts about data                                                        *)
(***************************************************************************)

\* A set of numbers that is not empty has a least one.
LEMMA LeastExists ==
  ASSUME NEW S, S \subseteq Nat, S # {}
  PROVE  \E x \in S : \A y \in S : x <= y
<1> DEFINE R == {r \in Nat \X Nat : r[1] < r[2]}
<1>1. IsWellFoundedOn(R, Nat)
  BY NatLessThanWellFounded DEF OpToRel
<1>2. \E x \in S : \A y \in S : ~(<<y, x>> \in R)
  <2> HIDE DEF R
  <2> QED
    BY <1>1, WFMin
<1>3. PICK x \in S : \A y \in S : ~(<<y, x>> \in R)
  BY <1>2
<1>4. ASSUME NEW y \in S PROVE x <= y
  <2>1. ~(<<y, x>> \in R)
    BY <1>3
  <2>2. y \in Nat /\ x \in Nat
    OBVIOUS
  <2>3. ~(y < x)
    BY <2>1, <2>2
  <2> QED
    BY <2>2, <2>3
<1> QED
  BY <1>4

\* A set of numbers up to n that is not empty has its maximum.
LEMMA MaxIsMember ==
  ASSUME NEW n \in Nat, NEW S, S \subseteq 1..n, S # {}
  PROVE  Max(S) \in S
<1> DEFINE T == {y \in 0..n : n - y \in S}
<1>1. T \subseteq Nat /\ T # {}
  <2>1. PICK x \in S : TRUE
    OBVIOUS
  <2>2. n - x \in 0..n /\ n - (n - x) = x
    OBVIOUS
  <2>3. n - x \in T
    BY <2>1, <2>2, Zenon
  <2>4. T \subseteq Nat
    OBVIOUS
  <2> QED
    BY <2>3, <2>4
<1>2. \E z \in T : \A y \in T : z <= y
  <2> HIDE DEF T
  <2> QED
    BY <1>1, LeastExists
<1>3. PICK z \in T : \A y \in T : z <= y
  BY <1>2
<1>4. \A x \in S : n - z >= x
  <2>1. ASSUME NEW x \in S PROVE n - z >= x
    <3>1. n - x \in T
      OBVIOUS
    <3>2. z <= n - x
      BY <1>3, <3>1
    <3> QED
      BY <3>2
  <2> QED
    BY <2>1
<1>5. \E x \in S : \A y \in S : x >= y
  BY <1>4
<1> QED
  BY <1>5 DEF Max

\* Replacing an element of a sequence keeps its length and its type.
LEMMA ExceptEntry ==
  ASSUME NEW S, NEW s \in Seq(S), NEW p \in 1..Len(s), NEW e \in S
  PROVE  /\ [s EXCEPT ![p] = e] \in Seq(S)
         /\ Len([s EXCEPT ![p] = e]) = Len(s)
         /\ DOMAIN [s EXCEPT ![p] = e] = DOMAIN s
         /\ \A q \in 1..Len(s) : [s EXCEPT ![p] = e][q] = IF q = p THEN e ELSE s[q]
BY ExceptSeq, LenProperties

\* An element appended to a sequence is its last one.
LEMMA AppendEntry ==
  ASSUME NEW S, NEW s \in Seq(S), NEW e \in S
  PROVE  /\ Append(s, e) \in Seq(S)
         /\ Len(Append(s, e)) = Len(s) + 1
         /\ DOMAIN Append(s, e) = 1..Len(s) + 1
         /\ \A q \in 1..Len(s) : Append(s, e)[q] = s[q]
         /\ Append(s, e)[Len(s) + 1] = e
<1>1. /\ Append(s, e) \in Seq(S)
      /\ Len(Append(s, e)) = Len(s) + 1
      /\ \A q \in 1..Len(s) : Append(s, e)[q] = s[q]
      /\ Append(s, e)[Len(s) + 1] = e
  BY LenProperties
<1> QED
  BY <1>1, LenProperties

\* The first n elements of a sequence are elements of it.
LEMMA FrontOf ==
  ASSUME NEW S, NEW s \in Seq(S), NEW n \in 0..Len(s)
  PROVE  SubSeq(s, 1, n) \in Seq(S)
<1>1. Len(s) \in Nat
  BY LenProperties
<1>2. \A k \in 1..n : s[k] \in S
  BY <1>1, ElementOfSeq
<1> QED
  BY <1>1, <1>2, SubSeqProperties

Chunk == Nat \X Nat
Message == [item : Nat, text : Seq(Chunk)]

\* The chunks of a turn.
LEMMA ChunksFacts ==
  ASSUME NEW t \in Nat, NEW n \in Nat
  PROVE  Chunks(t, n) \in Seq(Chunk) /\ Len(Chunks(t, n)) = n
<1>1. Chunks(t, n) \in [1..n -> Chunk]
  BY DEF Chunks, Chunk
<1>2. Chunks(t, n) \in Seq(Chunk)
  BY <1>1, SeqDef
<1> QED
  BY <1>1, <1>2, LenProperties

\* Messages ns come from ms: none is gone, moved or shortened.
Grown(ms, ns) ==
  /\ Len(ms) <= Len(ns)
  /\ \A m \in 1..Len(ms) : Len(ms[m].text) <= Len(ns[m].text)

\* A message that is rewritten with a text that is not shorter.
LEMMA RewrittenGrows ==
  ASSUME NEW ms \in Seq(Message), NEW m \in 1..Len(ms), NEW text \in Seq(Chunk),
         Len(ms[m].text) <= Len(text)
  PROVE  /\ [ms EXCEPT ![m].text = text] \in Seq(Message)
         /\ Grown(ms, [ms EXCEPT ![m].text = text])
         /\ [ms EXCEPT ![m].text = text][m].text = text
<1> DEFINE e == [ms[m] EXCEPT !.text = text]
<1>1. ms[m] \in Message
  BY ElementOfSeq
<1>2. e \in Message /\ e.text = text
  BY <1>1 DEF Message
<1>3. [ms EXCEPT ![m].text = text] = [ms EXCEPT ![m] = e]
  OBVIOUS
<1>4. /\ [ms EXCEPT ![m] = e] \in Seq(Message)
      /\ Len([ms EXCEPT ![m] = e]) = Len(ms)
      /\ \A q \in 1..Len(ms) : [ms EXCEPT ![m] = e][q] = IF q = m THEN e ELSE ms[q]
  <2> HIDE DEF e
  <2> QED
    BY <1>2, ExceptEntry
<1>5. \A q \in 1..Len(ms) : Len(ms[q].text) \in Nat
  <2>1. ASSUME NEW q \in 1..Len(ms) PROVE Len(ms[q].text) \in Nat
    <3>1. ms[q] \in Message
      BY ElementOfSeq
    <3>2. ms[q].text \in Seq(Chunk)
      BY <3>1 DEF Message
    <3> QED
      BY <3>2, LenProperties
  <2> QED
    BY <2>1
<1>6. Len(ms) \in Nat
  BY LenProperties
<1> HIDE DEF e
<1>7. Grown(ms, [ms EXCEPT ![m] = e])
  BY <1>2, <1>4, <1>5, <1>6 DEF Grown
<1>8. [ms EXCEPT ![m] = e][m].text = text
  BY <1>2, <1>4
<1> QED
  BY <1>3, <1>4, <1>7, <1>8

\* A message that is appended leaves the others as they are.
LEMMA AppendedGrows ==
  ASSUME NEW ms \in Seq(Message), NEW e \in Message
  PROVE  /\ Append(ms, e) \in Seq(Message)
         /\ Grown(ms, Append(ms, e))
<1>1. \A q \in 1..Len(ms) : Len(ms[q].text) \in Nat
  <2>1. ASSUME NEW q \in 1..Len(ms) PROVE Len(ms[q].text) \in Nat
    <3>1. ms[q] \in Message
      BY ElementOfSeq
    <3>2. ms[q].text \in Seq(Chunk)
      BY <3>1 DEF Message
    <3> QED
      BY <3>2, LenProperties
  <2> QED
    BY <2>1
<1>2. Len(ms) \in Nat
  BY LenProperties
<1> QED
  BY <1>1, <1>2, AppendEntry DEF Grown

\* Messages that stay as they are.
LEMMA SameGrows ==
  ASSUME NEW ms \in Seq(Message)
  PROVE  Grown(ms, ms)
<1>1. \A q \in 1..Len(ms) : Len(ms[q].text) \in Nat
  <2>1. ASSUME NEW q \in 1..Len(ms) PROVE Len(ms[q].text) \in Nat
    <3>1. ms[q] \in Message
      BY ElementOfSeq
    <3>2. ms[q].text \in Seq(Chunk)
      BY <3>1 DEF Message
    <3> QED
      BY <3>2, LenProperties
  <2> QED
    BY <2>1
<1>2. Len(ms) \in Nat
  BY LenProperties
<1> QED
  BY <1>1, <1>2 DEF Grown

\* A delta never shortens a message.
LEMMA DeltaGrows ==
  ASSUME NEW ms \in Seq(Message), NEW c \in Chunk
  PROVE  WithDelta(ms, c) \in Seq(Message) /\ Grown(ms, WithDelta(ms, c))
<1>1. Len(ms) \in Nat /\ DOMAIN ms = 1..Len(ms)
  BY LenProperties
<1>2. CASE ms = <<>>
  <2>1. [item |-> c[1], text |-> <<c>>] \in Message
    BY DEF Message, Chunk
  <2>2. WithDelta(ms, c) = <<[item |-> c[1], text |-> <<c>>]>>
    BY <1>2 DEF WithDelta
  <2> QED
    BY <1>2, <2>1, <2>2 DEF Grown
<1>3. CASE ms # <<>>
  <2> DEFINE own == ItemIndex(ms, c[1])
             m == IF own = {} THEN Len(ms) ELSE CHOOSE k \in own : TRUE
             text == Merged(ms[m].text, c)
  <2>1. m \in 1..Len(ms)
    <3>1. Len(ms) # 0
      BY <1>3, EmptySeq
    <3> QED
      BY <1>1, <3>1 DEF ItemIndex
  <2>2. ms[m] \in Message
    BY <2>1, ElementOfSeq
  <2>3. ms[m].text \in Seq(Chunk)
    BY <2>2 DEF Message
  <2>4. /\ text \in Seq(Chunk)
        /\ Len(ms[m].text) <= Len(text)
    <3> HIDE DEF m
    <3>1. Len(ms[m].text) \in Nat
      BY <2>3, LenProperties
    <3>2. /\ Append(ms[m].text, c) \in Seq(Chunk)
          /\ Len(Append(ms[m].text, c)) = Len(ms[m].text) + 1
      BY <2>3, AppendEntry
    <3> QED
      BY <2>3, <3>1, <3>2 DEF Merged
  <2>5. WithDelta(ms, c) = [ms EXCEPT ![m].text = text]
    BY <1>3 DEF WithDelta
  <2> HIDE DEF m, text
  <2>6. /\ [ms EXCEPT ![m].text = text] \in Seq(Message)
        /\ Grown(ms, [ms EXCEPT ![m].text = text])
    BY <2>1, <2>4, RewrittenGrows
  <2> QED
    BY <2>5, <2>6
<1> QED
  BY <1>2, <1>3

\* A text that is not stale is not shorter than the old one.
LEMMA FreshIsLonger ==
  ASSUME NEW old \in Seq(Chunk), NEW text \in Seq(Chunk), ~Stale(old, text)
  PROVE  Len(old) <= Len(text)
<1>1. Len(old) \in Nat /\ Len(text) \in Nat
  BY LenProperties
<1>2. old = <<>> => Len(old) = 0
  BY EmptySeq
<1> QED
  BY <1>1, <1>2 DEF Stale

\* A snapshot never shortens a message.
LEMMA SnapshotGrows ==
  ASSUME NEW ms \in Seq(Message), NEW t \in Nat, NEW text \in Seq(Chunk)
  PROVE  WithSnapshot(ms, t, text) \in Seq(Message) /\ Grown(ms, WithSnapshot(ms, t, text))
<1> DEFINE own == ItemIndex(ms, t)
           m == CHOOSE k \in own : TRUE
<1>1. CASE text = <<>>
  BY <1>1, SameGrows DEF WithSnapshot
<1>2. CASE text # <<>> /\ own = {}
  <2>1. [item |-> t, text |-> text] \in Message
    BY DEF Message
  <2>2. WithSnapshot(ms, t, text) = Append(ms, [item |-> t, text |-> text])
    BY <1>2 DEF WithSnapshot
  <2> QED
    BY <2>1, <2>2, AppendedGrows
<1>3. CASE text # <<>> /\ own # {}
  <2>1. m \in 1..Len(ms)
    BY <1>3, LenProperties DEF ItemIndex
  <2>2. ms[m] \in Message
    BY <2>1, ElementOfSeq
  <2>3. ms[m].text \in Seq(Chunk)
    BY <2>2 DEF Message
  <2>4. WithSnapshot(ms, t, text) =
          IF Stale(ms[m].text, text) THEN ms ELSE [ms EXCEPT ![m].text = text]
    BY <1>3 DEF WithSnapshot
  <2> HIDE DEF m, own
  <2>5. CASE Stale(ms[m].text, text)
    BY <2>4, <2>5, SameGrows
  <2>6. CASE ~Stale(ms[m].text, text)
    <3>1. Len(ms[m].text) <= Len(text)
      BY <2>3, <2>6, FreshIsLonger
    <3>2. /\ [ms EXCEPT ![m].text = text] \in Seq(Message)
          /\ Grown(ms, [ms EXCEPT ![m].text = text])
      BY <2>1, <3>1, RewrittenGrows
    <3> QED
      BY <2>4, <2>6, <3>2
  <2> QED
    BY <2>5, <2>6
<1> QED
  BY <1>1, <1>2, <1>3

-----------------------------------------------------------------------------
(***************************************************************************)
(* The inductive invariant: what a reachable state looks like              *)
(***************************************************************************)
Turn == [issue : Issues, codex : Nat, status : {"running"} \cup Outcomes, text : 0..MaxChunks]

\* What may be on its way to the bridge when app-server's turns are T: a turn
\* is announced before it is reported, and reported ended after it ended.
Notes(T) ==
  [kind : {"started"}, turn : DOMAIN T]
  \cup [kind : {"delta"}, turn : DOMAIN T, chunk : Nat]
  \cup [kind : {"completed"}, turn : {t \in DOMAIN T : T[t].status # "running"},
        outcome : Outcomes]
  \cup [kind : {"snapshot"}, reader : Readers, snap : UNION {[D -> Turn] : D \in SUBSET DOMAIN T}]

Begun == {i \in Issues : status[i] # "queued"}

TurnsOK == /\ codex \in Nat \ {0}
           /\ turns \in Seq(Turn)
           /\ \A t \in DOMAIN turns : turns[t].codex \in 1..codex
InboxOK == inbox \in Seq(Notes(turns))
HandlerOK ==
  /\ handler \in [pc : {"idle", "reading", "unread", "ending", "settled", "stuck"},
                  kind : {"none", "started", "completed"} \cup Readers,
                  issue : Issues \cup {NoIssue}, turn : Nat, of : Nat]
  /\ handler.pc = "reading" => handler.issue \in Issues /\ handler.of \in DOMAIN turns
  /\ handler.pc = "ending" => handler.kind = "completed"
  /\ handler.kind = "completed" =>
       handler.of \in DOMAIN turns /\ turns[handler.of].status # "running"
StartOK ==
  /\ start \in [issue : Issues \cup {NoIssue}, turn : Nat, pc : {"none", "sent", "accepted"}]
  /\ start.pc = "none" => start = NoStart
  /\ start.pc # "none" => start.issue \in Begun
  /\ start.pc = "accepted" => start.turn \in DOMAIN turns
CardsOK == /\ status \in [Issues -> Statuses]
           /\ active \in Issues \cup {NoIssue}
           /\ active # NoIssue => active \in Begun
           /\ turnId \in 0..Len(turns)
FlagsOK == /\ bound \in BOOLEAN /\ connected \in BOOLEAN
           /\ troubles \in 0..MaxTroubles
           /\ requested \in BOOLEAN /\ degraded \in BOOLEAN
           /\ noProgress \in 0..NoProgressForceReconnect - 1
ReaderOK == reader \in [Readers -> [pc : {"idle", "reading", "queued"}, codex : 0..codex]]
MsgsOK == msgs \in [Issues -> Seq(Message)]
IInv == /\ TurnsOK /\ InboxOK /\ HandlerOK /\ StartOK
        /\ CardsOK /\ FlagsOK /\ ReaderOK /\ MsgsOK

\* A new Codex thread is bound only for the start of an issue that was not
\* begun yet.
CodexInv == \/ Begun # {} /\ codex <= Cardinality(Begun)
            \/ Begun = {} /\ codex = 1 /\ bound

USE NoIssueAssumption, ReaderAssumption, OutcomeAssumption, BoundAssumption

-----------------------------------------------------------------------------
(***************************************************************************)
(* What app-server's turns may become                                      *)
(***************************************************************************)

\* Turns are appended; a turn that ended stays ended.
Later(T, U) == /\ DOMAIN T \subseteq DOMAIN U
               /\ \A t \in DOMAIN T : T[t].status # "running" => U[t].status # "running"

\* What could be on its way still can be.
LEMMA NotesLater ==
  ASSUME NEW T, NEW U, Later(T, U), NEW s \in Seq(Notes(T))
  PROVE  s \in Seq(Notes(U))
<1>1. DOMAIN T \subseteq DOMAIN U
  BY DEF Later
<1>2. {t \in DOMAIN T : T[t].status # "running"} \subseteq {t \in DOMAIN U : U[t].status # "running"}
  BY DEF Later
<1>3. UNION {[D -> Turn] : D \in SUBSET DOMAIN T} \subseteq UNION {[D -> Turn] : D \in SUBSET DOMAIN U}
  BY <1>1
<1> DEFINE A == DOMAIN T
           B == DOMAIN U
           C == {t \in DOMAIN T : T[t].status # "running"}
           E == {t \in DOMAIN U : U[t].status # "running"}
           F == UNION {[D -> Turn] : D \in SUBSET DOMAIN T}
           G == UNION {[D -> Turn] : D \in SUBSET DOMAIN U}
<1>4. /\ [kind : {"started"}, turn : A] \subseteq [kind : {"started"}, turn : B]
      /\ [kind : {"delta"}, turn : A, chunk : Nat] \subseteq [kind : {"delta"}, turn : B, chunk : Nat]
      /\ [kind : {"completed"}, turn : C, outcome : Outcomes]
           \subseteq [kind : {"completed"}, turn : E, outcome : Outcomes]
      /\ [kind : {"snapshot"}, reader : Readers, snap : F]
           \subseteq [kind : {"snapshot"}, reader : Readers, snap : G]
  <2>1. A \subseteq B /\ C \subseteq E /\ F \subseteq G
    BY <1>1, <1>2, <1>3
  <2> HIDE DEF A, B, C, E, F, G
  <2>2. [kind : {"started"}, turn : A] \subseteq [kind : {"started"}, turn : B]
    BY <2>1
  <2>3. [kind : {"delta"}, turn : A, chunk : Nat] \subseteq [kind : {"delta"}, turn : B, chunk : Nat]
    BY <2>1
  <2>4. [kind : {"completed"}, turn : C, outcome : Outcomes]
          \subseteq [kind : {"completed"}, turn : E, outcome : Outcomes]
    BY <2>1
  <2>5. [kind : {"snapshot"}, reader : Readers, snap : F]
          \subseteq [kind : {"snapshot"}, reader : Readers, snap : G]
    BY <2>1
  <2> QED
    BY <2>2, <2>3, <2>4, <2>5
<1>5. Notes(T) \subseteq Notes(U)
  BY <1>4, Zenon DEF Notes
<1> QED
  BY <1>5, SeqMonotonic

\* What a message of each kind says.
LEMMA NoteKinds ==
  ASSUME NEW T, NEW n \in Notes(T)
  PROVE  /\ n.kind \in {"started", "delta", "completed", "snapshot"}
         /\ n.kind # "snapshot" => n.turn \in DOMAIN T
         /\ n.kind = "delta" => n.chunk \in Nat
         /\ n.kind = "completed" => T[n.turn].status # "running" /\ n.outcome \in Outcomes
         /\ n.kind = "snapshot" => /\ n.reader \in Readers
                                   /\ DOMAIN n.snap \subseteq DOMAIN T
                                   /\ \A t \in DOMAIN n.snap : n.snap[t] \in Turn
<1> DEFINE C == {t \in DOMAIN T : T[t].status # "running"}
           F == UNION {[D -> Turn] : D \in SUBSET DOMAIN T}
           A == DOMAIN T
<1>1. \A f \in F : DOMAIN f \subseteq DOMAIN T /\ \A t \in DOMAIN f : f[t] \in Turn
  OBVIOUS
<1>2. \A t \in C : t \in DOMAIN T /\ T[t].status # "running"
  OBVIOUS
<1>3. \/ n \in [kind : {"started"}, turn : A]
      \/ n \in [kind : {"delta"}, turn : A, chunk : Nat]
      \/ n \in [kind : {"completed"}, turn : C, outcome : Outcomes]
      \/ n \in [kind : {"snapshot"}, reader : Readers, snap : F]
  BY DEF Notes
<1> HIDE DEF C, F
<1>4. CASE n \in [kind : {"started"}, turn : A]
  BY <1>4
<1>5. CASE n \in [kind : {"delta"}, turn : A, chunk : Nat]
  BY <1>5
<1>6. CASE n \in [kind : {"completed"}, turn : C, outcome : Outcomes]
  BY <1>6, <1>2
<1>7. CASE n \in [kind : {"snapshot"}, reader : Readers, snap : F]
  BY <1>7, <1>1
<1> QED
  BY <1>3, <1>4, <1>5, <1>6, <1>7

\* Messages of each kind may be on their way.
LEMMA NoteMakers ==
  ASSUME NEW T
  PROVE  /\ \A t \in DOMAIN T : [kind |-> "started", turn |-> t] \in Notes(T)
         /\ \A t \in DOMAIN T : \A k \in Nat :
              [kind |-> "delta", turn |-> t, chunk |-> k] \in Notes(T)
         /\ \A t \in DOMAIN T : \A o \in Outcomes : T[t].status # "running" =>
              [kind |-> "completed", turn |-> t, outcome |-> o] \in Notes(T)
         /\ \A r \in Readers : \A D \in SUBSET DOMAIN T : \A f \in [D -> Turn] :
              [kind |-> "snapshot", reader |-> r, snap |-> f] \in Notes(T)
<1> DEFINE C == {t \in DOMAIN T : T[t].status # "running"}
           F == UNION {[D -> Turn] : D \in SUBSET DOMAIN T}
           A == DOMAIN T
<1>1. \A D \in SUBSET DOMAIN T : \A f \in [D -> Turn] : f \in F
  OBVIOUS
<1>2. \A t \in DOMAIN T : T[t].status # "running" => t \in C
  OBVIOUS
<1>3. /\ [kind : {"started"}, turn : A] \subseteq Notes(T)
      /\ [kind : {"delta"}, turn : A, chunk : Nat] \subseteq Notes(T)
      /\ [kind : {"completed"}, turn : C, outcome : Outcomes] \subseteq Notes(T)
      /\ [kind : {"snapshot"}, reader : Readers, snap : F] \subseteq Notes(T)
  BY DEF Notes
<1> HIDE DEF C, F
<1>4. \A t \in DOMAIN T : [kind |-> "started", turn |-> t] \in Notes(T)
  BY <1>3
<1>5. \A t \in DOMAIN T : \A k \in Nat :
        [kind |-> "delta", turn |-> t, chunk |-> k] \in Notes(T)
  BY <1>3
<1>6. \A t \in DOMAIN T : \A o \in Outcomes : T[t].status # "running" =>
        [kind |-> "completed", turn |-> t, outcome |-> o] \in Notes(T)
  BY <1>2, <1>3
<1>7. \A r \in Readers : \A D \in SUBSET DOMAIN T : \A f \in [D -> Turn] :
        [kind |-> "snapshot", reader |-> r, snap |-> f] \in Notes(T)
  BY <1>1, <1>3
<1> QED
  BY <1>4, <1>5, <1>6, <1>7

\* A snapshot shows turns of one Codex thread; one that ended is shown whole.
LEMMA SnapshotFacts ==
  ASSUME TurnsOK, NEW c, NEW snap \in Snapshots(c)
  PROVE  /\ DOMAIN snap = TurnsOn(c)
         /\ DOMAIN snap \in SUBSET DOMAIN turns
         /\ snap \in [DOMAIN snap -> Turn]
         /\ \A t \in DOMAIN snap : turns[t].status # "running" => snap[t] = turns[t]
<1>1. PICK m \in 0..MaxChunks :
        snap = [t \in TurnsOn(c) |-> IF turns[t].status = "running" /\ turns[t].text > m
                                     THEN [turns[t] EXCEPT !.text = m] ELSE turns[t]]
  BY Zenon DEF Snapshots
<1>2. TurnsOn(c) \subseteq DOMAIN turns
  BY DEF TurnsOn
<1>3. \A t \in DOMAIN turns : turns[t] \in Turn
  BY ElementOfSeq, LenProperties DEF TurnsOK
<1>4. \A t \in TurnsOn(c) : snap[t] = IF turns[t].status = "running" /\ turns[t].text > m
                                      THEN [turns[t] EXCEPT !.text = m] ELSE turns[t]
  BY <1>1
<1>5. \A t \in TurnsOn(c) : snap[t] \in Turn
  <2>1. ASSUME NEW t \in TurnsOn(c) PROVE snap[t] \in Turn
    <3>1. turns[t] \in Turn
      BY <1>2, <1>3
    <3>2. [turns[t] EXCEPT !.text = m] \in Turn
      BY <3>1 DEF Turn
    <3> QED
      BY <1>4, <3>1, <3>2
  <2> QED
    BY <2>1
<1>6. DOMAIN snap = TurnsOn(c) /\ snap \in [TurnsOn(c) -> Turn]
  BY <1>1, <1>5
<1>7. \A t \in TurnsOn(c) : turns[t].status # "running" => snap[t] = turns[t]
  BY <1>4
<1> QED
  BY <1>2, <1>6, <1>7

\* The turn that is selected is one the snapshot shows.
LEMMA SelectedShown ==
  ASSUME TurnsOK, NEW snap, DOMAIN snap \subseteq DOMAIN turns, DOMAIN snap # {},
         NEW expected
  PROVE  Selected(snap, expected) \in DOMAIN snap
<1>1. DOMAIN snap \subseteq 1..Len(turns) /\ Len(turns) \in Nat
  BY LenProperties DEF TurnsOK
<1>2. Max(DOMAIN snap) \in DOMAIN snap
  BY <1>1, MaxIsMember
<1> QED
  BY <1>2 DEF Selected

\* Synchronising with a snapshot never shortens a message.
LEMMA SyncedGrows ==
  ASSUME TurnsOK, NEW ms \in Seq(Message), NEW snap, DOMAIN snap \subseteq DOMAIN turns,
         \A t \in DOMAIN snap : snap[t] \in Turn, NEW expected
  PROVE  Synced(ms, snap, expected) \in Seq(Message) /\ Grown(ms, Synced(ms, snap, expected))
<1>1. CASE DOMAIN snap = {}
  BY <1>1, SameGrows DEF Synced
<1>2. CASE DOMAIN snap # {}
  <2> DEFINE t == Selected(snap, expected)
  <2>1. t \in DOMAIN snap
    BY <1>2, SelectedShown
  <2>2. t \in Nat
    BY <2>1, LenProperties DEF TurnsOK
  <2>3. snap[t].text \in Nat
    <3>1. snap[t] \in Turn
      BY <2>1
    <3> QED
      BY <3>1 DEF Turn
  <2>4. Synced(ms, snap, expected) = WithSnapshot(ms, t, Chunks(t, snap[t].text))
    BY <1>2 DEF Synced
  <2>5. Chunks(t, snap[t].text) \in Seq(Chunk)
    BY <2>2, <2>3, ChunksFacts
  <2> HIDE DEF t
  <2> QED
    BY <2>2, <2>4, <2>5, SnapshotGrows
<1> QED
  BY <1>1, <1>2

-----------------------------------------------------------------------------
(***************************************************************************)
(* Every step keeps the invariant                                          *)
(***************************************************************************)

\* The count of fruitless backfills may start again.
LEMMA CountAgain == 0 \in 0..NoProgressForceReconnect - 1
BY BoundAssumption

\* The message at the head of the queue, and what is left without it.
LEMMA HeadNote ==
  ASSUME InboxOK, inbox # <<>>
  PROVE  /\ Head(inbox) \in Notes(turns)
         /\ Tail(inbox) \in Seq(Notes(turns))
BY HeadTailProperties DEF InboxOK

\* A card that was begun and gets another status than "queued".
LEMMA BegunKept ==
  ASSUME NEW i \in Begun, NEW s \in Statuses \ {"queued"}, CardsOK,
         status' = [status EXCEPT ![i] = s]
  PROVE  Begun' = Begun /\ status' \in [Issues -> Statuses]
BY DEF Begun, CardsOK, Statuses

\* The card of the active issue runs.
LEMMA CardRunsKept ==
  ASSUME CardsOK, status' = CardRuns
  PROVE  Begun' = Begun /\ status' \in [Issues -> Statuses]
<1>1. CASE active # NoIssue /\ status[active] \notin Terminal
  <2>1. status' = [status EXCEPT ![active] = "running"]
    BY <1>1 DEF CardRuns
  <2>2. active \in Begun
    BY <1>1 DEF CardsOK
  <2>3. "running" \in Statuses \ {"queued"}
    BY DEF Statuses
  <2> QED
    BY <2>1, <2>2, <2>3, BegunKept
<1>2. CASE ~(active # NoIssue /\ status[active] \notin Terminal)
  BY <1>2 DEF CardRuns, Begun, CardsOK
<1> QED
  BY <1>1, <1>2

\* A start that fails is one of an issue that was begun.
LEMMA StartFailsKept ==
  ASSUME IInv, start # NoStart, StartFails, UNCHANGED <<turns, turnId>>
  PROVE  Begun' = Begun /\ StartOK' /\ CardsOK' /\ start.issue \in Begun
<1>1. start.issue \in Begun
  BY DEF IInv, StartOK
<1>2. "failed" \in Statuses \ {"queued"}
  BY DEF Statuses
<1>3. status' = [status EXCEPT ![start.issue] = "failed"]
  BY DEF StartFails
<1>4. CardsOK
  BY DEF IInv
<1>5. Begun' = Begun /\ status' \in [Issues -> Statuses]
  BY <1>1, <1>2, <1>3, <1>4, BegunKept
<1>6. CardsOK'
  BY <1>4, <1>5 DEF CardsOK, StartFails, Untracked
<1>7. StartOK'
  BY DEF StartOK, StartFails, NoStart, NoTurn
<1> QED
  BY <1>1, <1>5, <1>6, <1>7

\* What a lost socket leaves was on its way before.
LEMMA LoseSocketKept ==
  ASSUME IInv, NEW waiting \in [Readers -> [pc : {"idle", "reading", "queued"}, codex : 0..codex]],
         LoseSocket(waiting), UNCHANGED <<turns, codex>>
  PROVE  InboxOK' /\ ReaderOK' /\ connected' \in BOOLEAN
<1>1. PICK n \in 0..Len(inbox) :
        /\ inbox' = SubSeq(inbox, 1, n)
        /\ reader' = [r \in Readers |-> IF waiting[r].pc = "reading" \/ r \in InTransit(n)
                                        THEN NotReading ELSE waiting[r]]
  BY DEF LoseSocket
<1>2. InboxOK'
  BY <1>1, FrontOf DEF IInv, InboxOK
<1>3. NotReading \in [pc : {"idle", "reading", "queued"}, codex : 0..codex]
  BY DEF NotReading, IInv, TurnsOK
<1>4. ReaderOK'
  BY <1>1, <1>3 DEF ReaderOK
<1> QED
  BY <1>2, <1>4 DEF LoseSocket

\* A backfill is requested.
LEMMA RequestKept ==
  ASSUME FlagsOK, RequestBackfill
  PROVE  requested' \in BOOLEAN /\ noProgress' = noProgress /\ active' = active
BY DEF FlagsOK, RequestBackfill

\* app-server's turns move on, and it may tell the bridge.
LEMMA TurnsMoved ==
  ASSUME IInv, TurnsOK', StartOK', Later(turns, turns'), Len(turns) <= Len(turns'),
         NEW n \in Notes(turns'), Notify(n),
         UNCHANGED <<binding, connected, troubles, handler, status, tracking, turnId, msgs, reader>>
  PROVE  IInv'
<1>1. InboxOK'
  <2>1. inbox \in Seq(Notes(turns'))
    BY NotesLater DEF IInv, InboxOK
  <2>2. Append(inbox, n) \in Seq(Notes(turns'))
    BY <2>1, AppendEntry
  <2> QED
    BY <2>1, <2>2 DEF Notify, InboxOK
<1>2. HandlerOK'
  BY DEF IInv, HandlerOK, Later
<1>3. CardsOK'
  <2>1. Len(turns) \in Nat /\ Len(turns') \in Nat
    BY LenProperties DEF IInv, TurnsOK
  <2> QED
    BY <2>1 DEF IInv, CardsOK, Begun
<1>4. FlagsOK' /\ ReaderOK' /\ MsgsOK'
  BY DEF IInv, FlagsOK, ReaderOK, MsgsOK
<1> QED
  BY <1>1, <1>2, <1>3, <1>4 DEF IInv

LEMMA AcceptTurnKept ==
  ASSUME IInv, AcceptTurn
  PROVE  IInv'
<1> DEFINE e == [issue |-> start.issue, codex |-> codex, status |-> "running", text |-> 0]
<1>1. e \in Turn
  BY DEF AcceptTurn, IInv, TurnsOK, StartOK, Turn, Begun
<1>2. turns' = Append(turns, e)
  BY DEF AcceptTurn
<1>3. turns \in Seq(Turn) /\ Len(turns) \in Nat /\ DOMAIN turns = 1..Len(turns)
  BY LenProperties DEF IInv, TurnsOK
<1>4. /\ turns' \in Seq(Turn)
      /\ Len(turns') = Len(turns) + 1
      /\ DOMAIN turns' = 1..Len(turns) + 1
      /\ \A q \in 1..Len(turns) : turns'[q] = turns[q]
      /\ turns'[Len(turns) + 1] = e
  <2> HIDE DEF e
  <2> QED
    BY <1>1, <1>2, <1>3, AppendEntry
<1>5. TurnsOK'
  <2>1. codex \in Nat \ {0} /\ codex' = codex
    BY DEF IInv, TurnsOK, AcceptTurn
  <2>2. \A t \in DOMAIN turns' : turns'[t].codex \in 1..codex
    BY <1>3, <1>4, <2>1 DEF IInv, TurnsOK
  <2> QED
    BY <1>4, <2>1, <2>2 DEF TurnsOK
<1>6. StartOK'
  <2>1. start' = [start EXCEPT !.pc = "accepted", !.turn = Len(turns) + 1]
    BY DEF AcceptTurn
  <2>2. Len(turns) + 1 \in DOMAIN turns' /\ Len(turns) + 1 \in Nat
    BY <1>3, <1>4
  <2>3. Begun' = Begun
    BY DEF AcceptTurn, Begun
  <2>4. StartOK /\ start.pc = "sent"
    BY DEF AcceptTurn, IInv
  <2> QED
    BY <2>1, <2>2, <2>3, <2>4 DEF StartOK
<1>7. Later(turns, turns') /\ Len(turns) <= Len(turns')
  BY <1>3, <1>4 DEF Later
<1>8. [kind |-> "started", turn |-> Len(turns) + 1] \in Notes(turns')
  BY <1>3, <1>4, NoteMakers
<1>9. Notify([kind |-> "started", turn |-> Len(turns) + 1])
  BY DEF AcceptTurn
<1>10. UNCHANGED <<binding, connected, troubles, handler, status, tracking, turnId, msgs, reader>>
  BY DEF AcceptTurn
<1> QED
  BY <1>5, <1>6, <1>7, <1>8, <1>9, <1>10, TurnsMoved

\* A turn that runs is replaced by one of the same Codex thread.
LEMMA TurnReplaced ==
  ASSUME IInv, NEW t \in DOMAIN turns, turns[t].status = "running",
         NEW e \in Turn, e.codex = turns[t].codex,
         turns' = [turns EXCEPT ![t] = e], codex' = codex,
         UNCHANGED <<start, status>>
  PROVE  /\ TurnsOK' /\ StartOK' /\ Later(turns, turns')
         /\ Len(turns') = Len(turns) /\ DOMAIN turns' = DOMAIN turns
         /\ turns'[t] = e
<1>1. turns \in Seq(Turn) /\ Len(turns) \in Nat /\ DOMAIN turns = 1..Len(turns)
  BY LenProperties DEF IInv, TurnsOK
<1>2. /\ turns' \in Seq(Turn)
      /\ Len(turns') = Len(turns)
      /\ DOMAIN turns' = DOMAIN turns
      /\ \A q \in 1..Len(turns) : turns'[q] = IF q = t THEN e ELSE turns[q]
  BY <1>1, ExceptEntry
<1>3. TurnsOK'
  BY <1>1, <1>2 DEF IInv, TurnsOK
<1>4. StartOK'
  BY <1>2 DEF IInv, StartOK, Begun
<1>5. Later(turns, turns')
  BY <1>1, <1>2 DEF Later
<1> QED
  BY <1>1, <1>2, <1>3, <1>4, <1>5

LEMMA ProduceChunkKept ==
  ASSUME IInv, NEW t \in 1..MaxTurns, ProduceChunk(t)
  PROVE  IInv'
<1> DEFINE e == [turns[t] EXCEPT !.text = turns[t].text + 1]
<1>1. t \in DOMAIN turns /\ turns[t].status = "running" /\ turns[t] \in Turn
  BY ElementOfSeq, LenProperties DEF ProduceChunk, IInv, TurnsOK
<1>2. e \in Turn /\ e.codex = turns[t].codex /\ turns[t].text + 1 \in Nat
  BY <1>1 DEF Turn, ProduceChunk
<1>3. turns' = [turns EXCEPT ![t] = e]
  BY DEF ProduceChunk
<1>4. UNCHANGED <<binding, connected, troubles, handler, start, status, tracking,
                  turnId, msgs, reader>>
  BY DEF ProduceChunk
<1>5. codex' = codex /\ UNCHANGED <<start, status>>
  BY <1>4
<1>6. /\ TurnsOK' /\ StartOK' /\ Later(turns, turns')
      /\ Len(turns') = Len(turns) /\ DOMAIN turns' = DOMAIN turns
  <2> HIDE DEF e
  <2> QED
    BY <1>1, <1>2, <1>3, <1>5, TurnReplaced
<1>7. Len(turns) <= Len(turns')
  BY <1>6, LenProperties DEF IInv, TurnsOK
<1>8. [kind |-> "delta", turn |-> t, chunk |-> turns[t].text + 1] \in Notes(turns')
  <2> DEFINE k == turns[t].text + 1
  <2>1. t \in DOMAIN turns' /\ k \in Nat
    BY <1>1, <1>2, <1>6
  <2> HIDE DEF k
  <2>2. [kind |-> "delta", turn |-> t, chunk |-> k] \in Notes(turns')
    BY <2>1, NoteMakers
  <2> QED
    BY <2>2 DEF k
<1>9. Notify([kind |-> "delta", turn |-> t, chunk |-> turns[t].text + 1])
  BY DEF ProduceChunk
<1> QED
  BY <1>4, <1>6, <1>7, <1>8, <1>9, TurnsMoved

LEMMA EndTurnKept ==
  ASSUME IInv, NEW t \in 1..MaxTurns, EndTurn(t)
  PROVE  IInv'
<1>1. PICK o \in Outcomes : /\ turns' = [turns EXCEPT ![t].status = o]
                            /\ Notify([kind |-> "completed", turn |-> t, outcome |-> o])
  BY DEF EndTurn
<1> DEFINE e == [turns[t] EXCEPT !.status = o]
<1>2. t \in DOMAIN turns /\ turns[t].status = "running" /\ turns[t] \in Turn
  BY ElementOfSeq, LenProperties DEF EndTurn, IInv, TurnsOK
<1>3. e \in Turn /\ e.codex = turns[t].codex /\ e.status = o /\ o # "running"
  BY <1>2 DEF Turn
<1>4. turns' = [turns EXCEPT ![t] = e]
  BY <1>1
<1>5. UNCHANGED <<binding, connected, troubles, handler, start, status, tracking,
                  turnId, msgs, reader>>
  BY DEF EndTurn
<1>6. codex' = codex /\ UNCHANGED <<start, status>>
  BY <1>5
<1>7. /\ TurnsOK' /\ StartOK' /\ Later(turns, turns')
      /\ Len(turns') = Len(turns) /\ DOMAIN turns' = DOMAIN turns
      /\ turns'[t] = e
  <2> HIDE DEF e
  <2> QED
    BY <1>2, <1>3, <1>4, <1>6, TurnReplaced
<1>8. Len(turns) <= Len(turns')
  BY <1>7, LenProperties DEF IInv, TurnsOK
<1>9. [kind |-> "completed", turn |-> t, outcome |-> o] \in Notes(turns')
  <2>1. t \in DOMAIN turns' /\ turns'[t].status # "running"
    BY <1>2, <1>3, <1>7
  <2> QED
    BY <2>1, NoteMakers
<1> QED
  BY <1>1, <1>5, <1>7, <1>8, <1>9, TurnsMoved

LEMMA AnswerReadKept ==
  ASSUME IInv, NEW r \in Readers, AnswerRead(r)
  PROVE  IInv'
<1>1. PICK snap \in Snapshots(reader[r].codex) :
        inbox' = Append(inbox, [kind |-> "snapshot", reader |-> r, snap |-> snap])
  BY DEF AnswerRead
<1>2. DOMAIN snap \in SUBSET DOMAIN turns /\ snap \in [DOMAIN snap -> Turn]
  BY SnapshotFacts DEF IInv
<1>3. [kind |-> "snapshot", reader |-> r, snap |-> snap] \in Notes(turns)
  BY <1>2, NoteMakers
<1>4. UNCHANGED <<turns, codex, bound, connected, troubles, handler, start, status, active,
                  requested, degraded, noProgress, turnId, msgs>>
  BY DEF AnswerRead
<1>5. InboxOK'
  <2> DEFINE n == [kind |-> "snapshot", reader |-> r, snap |-> snap]
  <2>1. n \in Notes(turns) /\ inbox' = Append(inbox, n) /\ inbox \in Seq(Notes(turns))
    BY <1>1, <1>3 DEF IInv, InboxOK
  <2> HIDE DEF n
  <2> QED
    BY <2>1, <1>4, AppendEntry DEF InboxOK
<1>6. ReaderOK'
  BY <1>4 DEF IInv, ReaderOK, AnswerRead
<1>7. TurnsOK' /\ HandlerOK' /\ StartOK' /\ CardsOK' /\ FlagsOK' /\ MsgsOK'
  BY <1>4 DEF IInv, TurnsOK, HandlerOK, StartOK, Begun, CardsOK, FlagsOK, MsgsOK
<1> QED
  BY <1>5, <1>6, <1>7 DEF IInv

LEMMA DisconnectKept ==
  ASSUME IInv, Disconnect
  PROVE  IInv'
<1>1. reader \in [Readers -> [pc : {"idle", "reading", "queued"}, codex : 0..codex]]
  BY DEF IInv, ReaderOK
<1>2. codex' = codex /\ UNCHANGED <<turns, degraded, turnId, msgs>>
  BY DEF Disconnect, StartFails
<1>3. InboxOK' /\ ReaderOK' /\ connected' \in BOOLEAN
  BY <1>1, <1>2, LoseSocketKept DEF Disconnect
<1>4. HandlerOK'
  BY <1>2 DEF IInv, HandlerOK, Disconnect
<1>5. StartOK' /\ CardsOK' /\ requested' \in BOOLEAN /\ bound' \in BOOLEAN
      /\ noProgress' \in 0..NoProgressForceReconnect - 1
  <2>1. CASE start = NoStart
    BY <2>1, <1>2 DEF Disconnect, IInv, StartOK, CardsOK, Begun, FlagsOK, RequestBackfill
  <2>2. CASE start # NoStart
    <3>1. StartFails
      BY <2>2 DEF Disconnect
    <3>2. StartOK' /\ CardsOK'
      BY <2>2, <3>1, <1>2, StartFailsKept
    <3> QED
      BY <3>1, <3>2, CountAgain DEF StartFails, Untracked
  <2> QED
    BY <2>1, <2>2
<1>6. FlagsOK'
  BY <1>2, <1>3, <1>5 DEF IInv, FlagsOK, Disconnect
<1>7. TurnsOK' /\ MsgsOK'
  BY <1>2 DEF IInv, TurnsOK, MsgsOK
<1> QED
  BY <1>3, <1>4, <1>5, <1>6, <1>7 DEF IInv

LEMMA RequestTimesOutKept ==
  ASSUME IInv, RequestTimesOut
  PROVE  IInv'
<1>1. requested' \in BOOLEAN /\ noProgress' = noProgress /\ active' = active
  BY RequestKept DEF RequestTimesOut, IInv
<1>2. UNCHANGED <<turns, codex, bound, connected, inbox, handler, start, status, degraded,
                  turnId, msgs, reader>>
  BY DEF RequestTimesOut
<1>3. FlagsOK'
  BY <1>1, <1>2 DEF IInv, FlagsOK, RequestTimesOut
<1> QED
  BY <1>1, <1>2, <1>3
     DEF IInv, TurnsOK, InboxOK, HandlerOK, StartOK, Begun, CardsOK, ReaderOK, MsgsOK

LEMMA ReconnectKept ==
  ASSUME IInv, Reconnect
  PROVE  IInv'
BY DEF Reconnect, IInv, TurnsOK, InboxOK, HandlerOK, StartOK, Begun, CardsOK, FlagsOK,
       ReaderOK, MsgsOK

LEMMA BeginTurnKept ==
  ASSUME IInv, NEW i \in Issues, BeginTurn(i)
  PROVE  IInv'
<1>1. UNCHANGED <<turns, connected, inbox, troubles, handler, msgs, reader>>
  BY DEF BeginTurn
<1>2. codex' \in Nat \ {0} /\ codex <= codex' /\ codex \in Nat
  BY DEF BeginTurn, IInv, TurnsOK
<1>3. TurnsOK'
  <2>1. \A t \in DOMAIN turns : turns[t].codex \in 1..codex'
    BY <1>2 DEF IInv, TurnsOK
  <2> QED
    BY <1>1, <1>2, <2>1 DEF IInv, TurnsOK
<1>4. ReaderOK'
  <2>1. 0..codex \subseteq 0..codex'
    BY <1>2
  <2>2. [pc : {"idle", "reading", "queued"}, codex : 0..codex]
          \subseteq [pc : {"idle", "reading", "queued"}, codex : 0..codex']
    BY <2>1
  <2> QED
    BY <1>1, <2>2 DEF IInv, ReaderOK
<1>5. /\ status' = [status EXCEPT ![i] = "running"]
      /\ active' = i /\ turnId' = NoTurn
      /\ start' = [issue |-> i, turn |-> NoTurn, pc |-> "sent"]
  BY DEF BeginTurn
<1>6. CardsOK /\ Len(turns) \in Nat
  BY LenProperties DEF IInv, TurnsOK
<1>7. i \in Begun' /\ status' \in [Issues -> Statuses]
  BY <1>5, <1>6 DEF CardsOK, Begun, Statuses
<1>8. CardsOK'
  BY <1>1, <1>5, <1>6, <1>7 DEF CardsOK, NoTurn
<1>9. StartOK'
  BY <1>5, <1>7 DEF StartOK, NoTurn
<1>10. FlagsOK'
  BY CountAgain DEF IInv, FlagsOK, BeginTurn
<1>11. InboxOK' /\ HandlerOK' /\ MsgsOK'
  BY <1>1 DEF IInv, InboxOK, HandlerOK, MsgsOK
<1> QED
  BY <1>3, <1>4, <1>8, <1>9, <1>10, <1>11 DEF IInv

LEMMA TurnRespondsKept ==
  ASSUME IInv, TurnResponds
  PROVE  IInv' /\ Begun' = Begun
<1>1. UNCHANGED <<turns, codex, bound, connected, inbox, troubles, handler, active, requested,
                  degraded, noProgress, msgs, reader>>
  BY DEF TurnResponds
<1>2. start.issue \in Begun /\ start.turn \in DOMAIN turns
  BY DEF TurnResponds, IInv, StartOK
<1>3. "running" \in Statuses \ {"queued"} /\ CardsOK
  BY DEF Statuses, IInv
<1>4. Begun' = Begun /\ status' \in [Issues -> Statuses]
  BY <1>2, <1>3, BegunKept DEF TurnResponds
<1>5. turnId' \in 0..Len(turns)
  <2>1. DOMAIN turns = 1..Len(turns) /\ Len(turns) \in Nat
    BY LenProperties DEF IInv, TurnsOK
  <2> QED
    BY <1>2, <2>1 DEF TurnResponds
<1>6. CardsOK'
  BY <1>1, <1>3, <1>4, <1>5 DEF CardsOK
<1>7. StartOK'
  BY DEF TurnResponds, StartOK, NoStart, NoTurn
<1> QED
  BY <1>1, <1>4, <1>6, <1>7 DEF IInv, TurnsOK, InboxOK, HandlerOK, FlagsOK, ReaderOK, MsgsOK

LEMMA TurnStartTimesOutKept ==
  ASSUME IInv, TurnStartTimesOut
  PROVE  IInv'
<1>1. UNCHANGED <<turns, codex, connected, inbox, handler, degraded, turnId, msgs, reader>>
  BY DEF TurnStartTimesOut, StartFails
<1>2. StartOK' /\ CardsOK'
  BY <1>1, StartFailsKept DEF TurnStartTimesOut
<1>3. FlagsOK'
  <2>1. /\ bound' = FALSE /\ requested' = FALSE /\ noProgress' = 0
    BY DEF TurnStartTimesOut, StartFails, Untracked
  <2>2. troubles' \in 0..MaxTroubles
    BY DEF TurnStartTimesOut, IInv, FlagsOK
  <2> QED
    BY <1>1, <2>1, <2>2, CountAgain DEF IInv, FlagsOK
<1> QED
  BY <1>1, <1>2, <1>3 DEF IInv, TurnsOK, InboxOK, HandlerOK, ReaderOK, MsgsOK

LEMMA DropNotificationKept ==
  ASSUME IInv, DropNotification
  PROVE  IInv'
<1>1. UNCHANGED <<turns, codex, bound, connected, troubles, handler, start, status, active,
                  requested, degraded, noProgress, turnId, msgs, reader>>
  BY DEF DropNotification
<1>2. InboxOK'
  BY <1>1, HeadNote DEF IInv, InboxOK, DropNotification
<1> QED
  BY <1>1, <1>2
     DEF IInv, TurnsOK, HandlerOK, StartOK, Begun, CardsOK, FlagsOK, ReaderOK, MsgsOK

LEMMA TurnStartedKept ==
  ASSUME IInv, TurnStarted
  PROVE  IInv'
<1>1. UNCHANGED <<turns, codex, bound, connected, troubles, start, active, msgs, reader>>
  BY DEF TurnStarted
<1>2. inbox # <<>> /\ Head(inbox).kind = "started" /\ InboxOK /\ CardsOK
  BY DEF TurnStarted, IsNext, IInv
<1>3. Head(inbox) \in Notes(turns) /\ Tail(inbox) \in Seq(Notes(turns))
  BY <1>2, HeadNote
<1> DEFINE t == Head(inbox).turn
<1>4. t \in DOMAIN turns
  BY <1>2, <1>3, NoteKinds
<1>5. DOMAIN turns = 1..Len(turns) /\ Len(turns) \in Nat
  BY LenProperties DEF IInv, TurnsOK
<1>6. Begun' = Begun /\ status' \in [Issues -> Statuses]
  BY <1>2, CardRunsKept DEF TurnStarted
<1>7. InboxOK'
  BY <1>1, <1>3 DEF InboxOK, TurnStarted
<1>8. CardsOK'
  <2>1. turnId' = t
    BY DEF TurnStarted
  <2> HIDE DEF t
  <2> QED
    BY <1>1, <1>2, <1>4, <1>5, <1>6, <2>1 DEF CardsOK
<1>9. HandlerOK'
  <2>1. handler' = IF active = NoIssue THEN Resting
                   ELSE [pc |-> IF connected THEN "reading" ELSE "unread", kind |-> "started",
                         issue |-> active, turn |-> t, of |-> t]
    BY DEF TurnStarted
  <2> HIDE DEF t
  <2>2. active \in Issues \cup {NoIssue}
    BY <1>2 DEF CardsOK
  <2>3. t \in Nat
    BY <1>4, <1>5
  <2> QED
    BY <1>1, <1>4, <2>1, <2>2, <2>3 DEF HandlerOK, Resting, NoTurn
<1>10. StartOK'
  BY <1>1, <1>6 DEF IInv, StartOK
<1>11. FlagsOK'
  <2>1. requested' = FALSE /\ noProgress' = 0 /\ degraded' = FALSE
    BY DEF TurnStarted, Alive
  <2> QED
    BY <1>1, <2>1, CountAgain DEF IInv, FlagsOK
<1>12. TurnsOK' /\ ReaderOK' /\ MsgsOK'
  BY <1>1 DEF IInv, TurnsOK, ReaderOK, MsgsOK
<1> QED
  BY <1>7, <1>8, <1>9, <1>10, <1>11, <1>12 DEF IInv

LEMMA MessageDeltaKept ==
  ASSUME IInv, MessageDelta
  PROVE  IInv'
<1>1. UNCHANGED <<turns, codex, bound, connected, troubles, handler, start, active, turnId, reader>>
  BY DEF MessageDelta
<1>2. inbox # <<>> /\ Head(inbox).kind = "delta" /\ InboxOK /\ CardsOK /\ MsgsOK
  BY DEF MessageDelta, IsNext, IInv
<1>3. Head(inbox) \in Notes(turns) /\ Tail(inbox) \in Seq(Notes(turns))
  BY <1>2, HeadNote
<1> DEFINE c == <<Head(inbox).turn, Head(inbox).chunk>>
<1>4. c \in Chunk
  <2>1. DOMAIN turns \subseteq Nat
    BY LenProperties DEF IInv, TurnsOK
  <2>2. Head(inbox).turn \in DOMAIN turns /\ Head(inbox).chunk \in Nat
    BY <1>2, <1>3, NoteKinds
  <2> QED
    BY <2>1, <2>2 DEF Chunk
<1>5. InboxOK'
  BY <1>1, <1>3 DEF InboxOK, MessageDelta
<1>6. MsgsOK' /\ Begun' = Begun /\ status' \in [Issues -> Statuses]
  <2>1. CASE active = NoIssue
    BY <2>1, <1>2 DEF MessageDelta, MsgsOK, Begun, CardsOK
  <2>2. CASE active # NoIssue
    <3>1. /\ msgs' = [msgs EXCEPT ![active] = WithDelta(@, c)]
          /\ status' = status \/ status' = CardRuns
      BY <2>2 DEF MessageDelta
    <3>2. active \in Issues /\ msgs[active] \in Seq(Message)
      BY <2>2, <1>2 DEF CardsOK, MsgsOK
    <3>3. WithDelta(msgs[active], c) \in Seq(Message)
      <4> HIDE DEF c
      <4> QED
        BY <3>2, <1>4, DeltaGrows
    <3>4. MsgsOK'
      BY <1>2, <3>1, <3>2, <3>3 DEF MsgsOK
    <3>5. status' = status => Begun' = Begun /\ status' \in [Issues -> Statuses]
      BY <1>2 DEF Begun, CardsOK
    <3> QED
      BY <1>2, <3>1, <3>4, <3>5, CardRunsKept
  <2> QED
    BY <2>1, <2>2
<1>7. CardsOK'
  BY <1>1, <1>2, <1>6 DEF CardsOK
<1>8. StartOK'
  BY <1>1, <1>6 DEF IInv, StartOK
<1>9. FlagsOK'
  <2>1. requested' = FALSE /\ noProgress' = 0 /\ degraded' = FALSE
    BY DEF MessageDelta, Alive
  <2> QED
    BY <1>1, <2>1, CountAgain DEF IInv, FlagsOK
<1>10. TurnsOK' /\ HandlerOK' /\ ReaderOK'
  BY <1>1 DEF IInv, TurnsOK, HandlerOK, ReaderOK
<1> QED
  BY <1>5, <1>6, <1>7, <1>8, <1>9, <1>10 DEF IInv

LEMMA TurnCompletedKept ==
  ASSUME IInv, TurnCompleted
  PROVE  IInv' /\ Begun' = Begun
<1>1. UNCHANGED <<turns, codex, connected, troubles, start, active, requested, noProgress,
                  turnId, msgs, reader>>
  BY DEF TurnCompleted
<1>2. inbox # <<>> /\ Head(inbox).kind = "completed" /\ InboxOK /\ CardsOK
  BY DEF TurnCompleted, IsNext, IInv
<1>3. Head(inbox) \in Notes(turns) /\ Tail(inbox) \in Seq(Notes(turns))
  BY <1>2, HeadNote
<1> DEFINE t == Head(inbox).turn
           o == Head(inbox).outcome
<1>4. t \in DOMAIN turns /\ turns[t].status # "running" /\ o \in Outcomes
  BY <1>2, <1>3, NoteKinds
<1>5. DOMAIN turns = 1..Len(turns) /\ Len(turns) \in Nat
  BY LenProperties DEF IInv, TurnsOK
<1>6. InboxOK'
  BY <1>1, <1>3 DEF InboxOK, TurnCompleted
<1>7. /\ status' = IF active = NoIssue THEN status ELSE [status EXCEPT ![active] = o]
      /\ handler' = [pc |-> IF active = NoIssue THEN "ending"
                            ELSE IF connected THEN "reading" ELSE "unread",
                     kind |-> "completed", issue |-> active, turn |-> turnId, of |-> t]
  BY DEF TurnCompleted
<1>8. bound' \in BOOLEAN /\ degraded' = FALSE
  BY DEF TurnCompleted
<1> HIDE DEF t, o
<1>9. Begun' = Begun /\ status' \in [Issues -> Statuses]
  <2>1. CASE active = NoIssue
    BY <2>1, <1>2, <1>7 DEF Begun, CardsOK
  <2>2. CASE active # NoIssue
    <3>1. active \in Begun
      BY <2>2, <1>2 DEF CardsOK
    <3>2. o \in Statuses \ {"queued"}
      BY <1>4 DEF Statuses
    <3> QED
      BY <1>2, <1>7, <2>2, <3>1, <3>2, BegunKept
  <2> QED
    BY <2>1, <2>2
<1>10. CardsOK'
  BY <1>1, <1>2, <1>9 DEF CardsOK
<1>11. HandlerOK'
  <2>1. active \in Issues \cup {NoIssue} /\ turnId \in Nat /\ t \in Nat
    BY <1>2, <1>4, <1>5 DEF CardsOK
  <2> QED
    BY <1>1, <1>4, <1>7, <2>1 DEF HandlerOK
<1>12. StartOK'
  BY <1>1, <1>9 DEF IInv, StartOK
<1>13. FlagsOK'
  BY <1>1, <1>8 DEF IInv, FlagsOK
<1>14. TurnsOK' /\ ReaderOK' /\ MsgsOK'
  BY <1>1 DEF IInv, TurnsOK, ReaderOK, MsgsOK
<1> QED
  BY <1>6, <1>9, <1>10, <1>11, <1>12, <1>13, <1>14 DEF IInv

LEMMA SyncAnsweredKept ==
  ASSUME IInv, SyncAnswered
  PROVE  IInv'
<1>1. UNCHANGED <<turns, codex, bound, connected, inbox, troubles, start, status, active,
                  requested, degraded, noProgress, turnId, reader>>
  BY DEF SyncAnswered
<1>2. PICK snap \in Snapshots(turns[handler.of].codex) :
        msgs' = [msgs EXCEPT ![handler.issue] = Synced(@, snap, handler.turn)]
  BY DEF SyncAnswered
<1>3. TurnsOK /\ MsgsOK /\ handler.issue \in Issues
  BY DEF IInv, HandlerOK, SyncAnswered
<1>4. DOMAIN snap \subseteq DOMAIN turns /\ \A t \in DOMAIN snap : snap[t] \in Turn
  BY <1>3, SnapshotFacts
<1>5. msgs[handler.issue] \in Seq(Message)
  BY <1>3 DEF MsgsOK
<1>6. Synced(msgs[handler.issue], snap, handler.turn) \in Seq(Message)
  BY <1>3, <1>4, <1>5, SyncedGrows
<1>7. MsgsOK'
  BY <1>2, <1>3, <1>6 DEF MsgsOK
<1>8. HandlerOK'
  <2>1. handler' = IF handler.kind = "completed" THEN [handler EXCEPT !.pc = "ending"] ELSE Resting
    BY DEF SyncAnswered
  <2> QED
    BY <1>1, <2>1 DEF IInv, HandlerOK, Resting, NoTurn
<1> QED
  BY <1>1, <1>7, <1>8 DEF IInv, TurnsOK, InboxOK, StartOK, Begun, CardsOK, FlagsOK, ReaderOK

\* A handler that stays with its turn, without the answer, or rests.
LEMMA HandlerRests ==
  ASSUME HandlerOK, turns' = turns,
         \/ handler' = Resting
         \/ handler.pc = "reading" /\ handler' = [handler EXCEPT !.pc = "unread"]
  PROVE  HandlerOK'
BY DEF HandlerOK, Resting, NoTurn

LEMMA SyncTimesOutKept ==
  ASSUME IInv, SyncTimesOut
  PROVE  IInv'
<1>1. UNCHANGED <<turns, codex, bound, connected, inbox, start, status, active,
                  requested, degraded, noProgress, turnId, msgs, reader>>
  BY DEF SyncTimesOut
<1>2. HandlerOK'
  BY <1>1, HandlerRests DEF IInv, SyncTimesOut
<1>3. troubles' \in 0..MaxTroubles
  BY DEF SyncTimesOut, IInv, FlagsOK
<1>4. FlagsOK'
  BY <1>1, <1>3 DEF IInv, FlagsOK
<1> QED
  BY <1>1, <1>2, <1>4 DEF IInv, TurnsOK, InboxOK, StartOK, Begun, CardsOK, ReaderOK, MsgsOK

LEMMA StartServedKept ==
  ASSUME IInv, StartServed
  PROVE  IInv'
<1>1. UNCHANGED <<turns, codex, bound, connected, inbox, troubles, start, status, active,
                  requested, degraded, noProgress, turnId, msgs, reader>>
  BY DEF StartServed
<1>2. HandlerOK'
  BY <1>1, HandlerRests DEF IInv, StartServed
<1> QED
  BY <1>1, <1>2
     DEF IInv, TurnsOK, InboxOK, StartOK, Begun, CardsOK, FlagsOK, ReaderOK, MsgsOK

LEMMA SettleTerminalKept ==
  ASSUME IInv, SettleTerminal
  PROVE  IInv'
<1>1. UNCHANGED <<turns, codex, bound, connected, inbox, troubles, start, status, degraded,
                  turnId, msgs, reader>>
  BY DEF SettleTerminal
<1>2. HandlerOK'
  BY <1>1, HandlerRests DEF IInv, SettleTerminal
<1>3. active' = NoIssue /\ requested' = FALSE /\ noProgress' = 0
  BY DEF SettleTerminal, Untracked
<1>4. FlagsOK'
  BY <1>1, <1>3, CountAgain DEF IInv, FlagsOK
<1>5. CardsOK'
  BY <1>1, <1>3 DEF IInv, CardsOK
<1> QED
  BY <1>1, <1>2, <1>4, <1>5 DEF IInv, TurnsOK, InboxOK, StartOK, Begun, ReaderOK, MsgsOK

LEMMA StartReadingKept ==
  ASSUME IInv, NEW r, StartReading(r), codex' = codex
  PROVE  ReaderOK'
<1>1. [pc |-> "reading", codex |-> codex] \in [pc : {"idle", "reading", "queued"}, codex : 0..codex]
  BY DEF IInv, TurnsOK
<1> QED
  BY <1>1 DEF IInv, ReaderOK, StartReading

LEMMA BackfillRequestedKept ==
  ASSUME IInv, BackfillRequested
  PROVE  IInv'
<1>1. UNCHANGED <<turns, codex, bound, connected, inbox, troubles, handler, start, status,
                  active, requested, degraded, noProgress, turnId, msgs>>
  BY DEF BackfillRequested
<1>2. ReaderOK'
  BY <1>1, StartReadingKept DEF BackfillRequested
<1> QED
  BY <1>1, <1>2
     DEF IInv, TurnsOK, InboxOK, HandlerOK, StartOK, Begun, CardsOK, FlagsOK, MsgsOK

LEMMA ReconcileRunningIssueKept ==
  ASSUME IInv, ReconcileRunningIssue
  PROVE  IInv'
<1>1. UNCHANGED <<turns, codex, bound, connected, inbox, troubles, handler, start, status,
                  active, noProgress, turnId, msgs>>
  BY DEF ReconcileRunningIssue
<1>2. ReaderOK'
  <2>1. \/ StartReading("reconcile")
        \/ UNCHANGED reader
    BY DEF ReconcileRunningIssue
  <2>2. CASE UNCHANGED reader
    BY <1>1, <2>2 DEF IInv, ReaderOK
  <2> QED
    BY <1>1, <2>1, <2>2, StartReadingKept
<1>3. FlagsOK'
  <2>1. requested' = TRUE /\ degraded' = TRUE
    BY DEF ReconcileRunningIssue
  <2> QED
    BY <1>1, <2>1 DEF IInv, FlagsOK
<1> QED
  BY <1>1, <1>2, <1>3 DEF IInv, TurnsOK, InboxOK, HandlerOK, StartOK, Begun, CardsOK, MsgsOK

LEMMA EnsureRunningIssueTrackingKept ==
  ASSUME IInv, EnsureRunningIssueTracking
  PROVE  IInv'
<1>1. UNCHANGED <<turns, codex, bound, connected, inbox, troubles, handler, start, status,
                  degraded, turnId, msgs, reader>>
  BY DEF EnsureRunningIssueTracking
<1>2. requested' = FALSE /\ noProgress' = 0 /\ active' \in Unended
  BY DEF EnsureRunningIssueTracking
<1>3. FlagsOK'
  BY <1>1, <1>2, CountAgain DEF IInv, FlagsOK
<1>4. CardsOK'
  BY <1>1, <1>2 DEF IInv, CardsOK, Unended, Begun
<1> QED
  BY <1>1, <1>3, <1>4 DEF IInv, TurnsOK, InboxOK, HandlerOK, StartOK, Begun, ReaderOK, MsgsOK

LEMMA SampleReadKept ==
  ASSUME IInv, SampleRead
  PROVE  IInv'
<1>1. UNCHANGED <<turns, codex, bound, connected, inbox, troubles, handler, start, status,
                  active, degraded, noProgress, turnId, msgs>>
  BY DEF SampleRead
<1>2. ReaderOK'
  BY <1>1, StartReadingKept DEF SampleRead
<1>3. requested' = TRUE
  BY DEF SampleRead
<1>4. FlagsOK'
  BY <1>1, <1>3 DEF IInv, FlagsOK
<1> QED
  BY <1>1, <1>2, <1>4 DEF IInv, TurnsOK, InboxOK, HandlerOK, StartOK, Begun, CardsOK, MsgsOK

\* A snapshot that is served: what it selects, and what becomes of the state.
LEMMA ApplySnapshotKept ==
  ASSUME IInv, ApplySnapshot
  PROVE  IInv' /\ Begun' = Begun
<1> DEFINE snap == Head(inbox).snap
           t == IF DOMAIN snap = {} THEN NoTurn ELSE Selected(snap, turnId)
           remote == RemoteStatus(snap, t)
           synced == Synced(msgs[active], snap, turnId)
           stuck == degraded'
<1>1. UNCHANGED <<turns, codex, bound, connected, troubles, start>>
  BY DEF ApplySnapshot
<1>2. inbox # <<>> /\ Head(inbox).kind = "snapshot" /\ InboxOK /\ CardsOK /\ MsgsOK /\ TurnsOK
  BY DEF ApplySnapshot, IsNext, IInv
<1>3. Head(inbox) \in Notes(turns) /\ Tail(inbox) \in Seq(Notes(turns))
  BY <1>2, HeadNote
<1>4. /\ Head(inbox).reader \in Readers
      /\ DOMAIN snap \subseteq DOMAIN turns
      /\ \A u \in DOMAIN snap : snap[u] \in Turn
  BY <1>2, <1>3, NoteKinds
<1>5. DOMAIN turns = 1..Len(turns) /\ Len(turns) \in Nat
  BY LenProperties DEF IInv, TurnsOK
<1>6. inbox' = Tail(inbox)
  BY DEF ApplySnapshot
<1>7. InboxOK'
  BY <1>1, <1>3, <1>6 DEF InboxOK
<1>8. TurnsOK'
  BY <1>1, <1>2 DEF TurnsOK
<1>9. CASE active = NoIssue
  <2>1. /\ reader' = [reader EXCEPT ![Head(inbox).reader] = NotReading]
        /\ UNCHANGED <<handler, status, active, requested, degraded, noProgress, turnId, msgs>>
    BY <1>9 DEF ApplySnapshot
  <2>2. ReaderOK'
    <3>1. NotReading \in [pc : {"idle", "reading", "queued"}, codex : 0..codex]
      BY <1>2 DEF NotReading, TurnsOK
    <3> QED
      BY <1>1, <2>1, <3>1 DEF IInv, ReaderOK
  <2> QED
    BY <1>1, <1>7, <1>8, <2>1, <2>2
       DEF IInv, HandlerOK, StartOK, Begun, CardsOK, FlagsOK, MsgsOK
<1>10. CASE active # NoIssue
  <2>1. /\ msgs' = [msgs EXCEPT ![active] = synced]
        /\ status' = [status EXCEPT ![active] = remote]
        /\ handler' = [pc |-> IF stuck THEN "stuck" ELSE "settled",
                       kind |-> Head(inbox).reader, issue |-> active, turn |-> t, of |-> t]
        /\ IF remote = "running"
           THEN turnId' = t /\ UNCHANGED <<active, requested, noProgress>>
           ELSE Untracked /\ UNCHANGED turnId
        /\ UNCHANGED reader
    BY <1>10 DEF ApplySnapshot
  <2>2. degraded' \in BOOLEAN
    BY <1>10 DEF ApplySnapshot
  <2>3. active \in Issues /\ active \in Begun /\ msgs[active] \in Seq(Message)
    BY <1>2, <1>10 DEF CardsOK, MsgsOK
  <2>4. t = NoTurn \/ t \in DOMAIN snap
    BY <1>2, <1>4, SelectedShown
  <2>5. /\ remote \in Statuses \ {"queued"}
        /\ remote = "running" => t \in DOMAIN turns
        /\ t \in Nat
    <3> HIDE DEF t, snap
    <3>1. CASE t = NoTurn
      BY <3>1 DEF RemoteStatus, Statuses, NoTurn
    <3>2. CASE t # NoTurn
      <4>1. t \in DOMAIN snap /\ snap[t] \in Turn /\ t \in DOMAIN turns
        BY <2>4, <3>2, <1>4
      <4> QED
        <5>1. remote = snap[t].status
          BY <3>2 DEF RemoteStatus
        <5>2. snap[t].status \in {"running", "completed", "failed"}
          BY <4>1 DEF Turn
        <5>3. t \in Nat
          BY <4>1, <1>5
        <5> HIDE DEF remote
        <5> QED
          BY <4>1, <5>1, <5>2, <5>3 DEF Statuses
    <3> QED
      BY <3>1, <3>2
  <2>6. synced \in Seq(Message)
    <3> HIDE DEF snap
    <3> QED
      BY <1>2, <1>4, <2>3, SyncedGrows
  <2> HIDE DEF t, remote, synced, stuck, snap
  <2>7. MsgsOK'
    BY <1>2, <2>1, <2>3, <2>6 DEF MsgsOK
  <2>8. Begun' = Begun /\ status' \in [Issues -> Statuses]
    BY <1>2, <2>1, <2>3, <2>5, BegunKept
  <2>9. CardsOK'
    BY <1>1, <1>2, <1>5, <2>1, <2>5, <2>8 DEF CardsOK, Untracked
  <2>10. FlagsOK'
    <3>1. \/ UNCHANGED <<requested, noProgress>>
          \/ requested' = FALSE /\ noProgress' = 0
      BY <2>1 DEF Untracked
    <3> QED
      BY <1>1, <2>2, <3>1, CountAgain DEF IInv, FlagsOK
  <2>11. HandlerOK'
    BY <1>1, <1>4, <2>1, <2>3, <2>5 DEF HandlerOK
  <2>12. StartOK'
    BY <1>1, <2>8 DEF IInv, StartOK
  <2>13. ReaderOK'
    BY <1>1, <2>1 DEF IInv, ReaderOK
  <2> QED
    BY <1>7, <1>8, <2>7, <2>8, <2>9, <2>10, <2>11, <2>12, <2>13 DEF IInv
<1> QED
  BY <1>9, <1>10

\* The reader that a snapshot came from is free again.
LEMMA ReaderReleased ==
  ASSUME IInv, NEW k
  PROVE  [reader EXCEPT ![k] = NotReading]
           \in [Readers -> [pc : {"idle", "reading", "queued"}, codex : 0..codex]]
<1>1. NotReading \in [pc : {"idle", "reading", "queued"}, codex : 0..codex]
  BY DEF NotReading, IInv, TurnsOK
<1> QED
  BY <1>1 DEF IInv, ReaderOK

LEMMA SnapshotSettledKept ==
  ASSUME IInv, SnapshotSettled
  PROVE  IInv'
<1>1. UNCHANGED <<turns, codex, bound, connected, inbox, troubles, start, status, active,
                  degraded, turnId, msgs>>
  BY DEF SnapshotSettled
<1>2. /\ requested' = FALSE /\ noProgress' = 0 /\ handler' = Resting
      /\ reader' = [reader EXCEPT ![handler.kind] = NotReading]
  BY DEF SnapshotSettled
<1>3. HandlerOK' /\ ReaderOK'
  BY <1>1, <1>2, HandlerRests, ReaderReleased DEF IInv, ReaderOK
<1>4. FlagsOK'
  BY <1>1, <1>2, CountAgain DEF IInv, FlagsOK
<1> QED
  BY <1>1, <1>3, <1>4 DEF IInv, TurnsOK, InboxOK, StartOK, Begun, CardsOK, MsgsOK

LEMMA SnapshotStuckKept ==
  ASSUME IInv, SnapshotStuck
  PROVE  IInv'
<1>1. UNCHANGED <<turns, codex, bound, connected, inbox, troubles, start, status, active,
                  degraded, turnId, msgs>>
  BY DEF SnapshotStuck
<1>2. /\ requested' = TRUE /\ handler' = Resting
      /\ reader' = [reader EXCEPT ![handler.kind] = NotReading]
  BY DEF SnapshotStuck
<1>3. noProgress' \in 0..NoProgressForceReconnect - 1
  BY DEF SnapshotStuck, IInv, FlagsOK
<1>4. HandlerOK' /\ ReaderOK'
  BY <1>1, <1>2, HandlerRests, ReaderReleased DEF IInv, ReaderOK
<1>5. FlagsOK'
  BY <1>1, <1>2, <1>3 DEF IInv, FlagsOK
<1> QED
  BY <1>1, <1>4, <1>5 DEF IInv, TurnsOK, InboxOK, StartOK, Begun, CardsOK, MsgsOK

LEMMA ForceReconnectKept ==
  ASSUME IInv, ForceReconnect
  PROVE  IInv'
<1> DEFINE released == [reader EXCEPT ![handler.kind] = NotReading]
<1>1. codex' = codex /\ UNCHANGED <<turns, troubles, degraded, turnId, msgs>> /\ handler' = Resting
  BY DEF ForceReconnect, StartFails
<1>2. released \in [Readers -> [pc : {"idle", "reading", "queued"}, codex : 0..codex]]
  BY ReaderReleased
<1>3. \/ LoseSocket(released)
      \/ reader' = released /\ UNCHANGED <<connected, inbox>>
  BY DEF ForceReconnect
<1>4. InboxOK' /\ ReaderOK' /\ connected' \in BOOLEAN
  <2> HIDE DEF released
  <2>1. CASE LoseSocket(released)
    BY <1>1, <1>2, <2>1, LoseSocketKept
  <2>2. CASE reader' = released /\ UNCHANGED <<connected, inbox>>
    BY <1>1, <1>2, <2>2 DEF IInv, InboxOK, ReaderOK, FlagsOK
  <2> QED
    BY <1>3, <2>1, <2>2
<1>5. HandlerOK'
  BY <1>1, HandlerRests DEF IInv
<1>6. StartOK' /\ CardsOK' /\ requested' \in BOOLEAN /\ noProgress' = 0 /\ bound' \in BOOLEAN
  <2>1. CASE start = NoStart
    BY <2>1, <1>1 DEF ForceReconnect, IInv, StartOK, CardsOK, Begun, FlagsOK
  <2>2. CASE start # NoStart
    <3>1. StartFails
      BY <2>2 DEF ForceReconnect
    <3>2. StartOK' /\ CardsOK'
      BY <2>2, <3>1, <1>1, StartFailsKept
    <3> QED
      BY <3>1, <3>2 DEF StartFails, Untracked
  <2> QED
    BY <2>1, <2>2
<1>7. FlagsOK'
  BY <1>1, <1>4, <1>6, CountAgain DEF IInv, FlagsOK
<1>8. TurnsOK' /\ MsgsOK'
  BY <1>1 DEF IInv, TurnsOK, MsgsOK
<1> QED
  BY <1>4, <1>5, <1>6, <1>7, <1>8 DEF IInv

\* The invariant holds at the start.
LEMMA InitIInv ==
  ASSUME Init
  PROVE  IInv
<1>1. TurnsOK /\ InboxOK
  BY EmptySeq DEF Init, TurnsOK, InboxOK
<1>2. HandlerOK /\ StartOK
  BY DEF Init, HandlerOK, StartOK, Resting, NoStart, NoTurn
<1>3. CardsOK
  BY DEF Init, CardsOK, Statuses, NoTurn
<1>4. FlagsOK
  <2>1. troubles \in 0..MaxTroubles
    BY DEF Init
  <2> QED
    BY <2>1, CountAgain DEF Init, FlagsOK
<1>5. ReaderOK /\ MsgsOK
  BY DEF Init, ReaderOK, MsgsOK, NotReading
<1> QED
  BY <1>1, <1>2, <1>3, <1>4, <1>5 DEF IInv

\* Every step keeps the invariant.
LEMMA NextIInv ==
  ASSUME IInv, [Next]_vars
  PROVE  IInv'
<1>1. CASE AppServer
  BY <1>1, AcceptTurnKept, ProduceChunkKept, EndTurnKept, AnswerReadKept DEF AppServer
<1>2. CASE Disconnect \/ Reconnect \/ SyncTimesOut \/ RequestTimesOut
  BY <1>2, DisconnectKept, ReconnectKept, SyncTimesOutKept, RequestTimesOutKept
<1>3. CASE Starting
  BY <1>3, BeginTurnKept, TurnRespondsKept, TurnStartTimesOutKept DEF Starting
<1>4. CASE Serve
  BY <1>4, DropNotificationKept, TurnStartedKept, MessageDeltaKept, TurnCompletedKept,
     ApplySnapshotKept, SyncAnsweredKept, StartServedKept, SettleTerminalKept,
     SnapshotSettledKept, SnapshotStuckKept, ForceReconnectKept DEF Serve
<1>5. CASE Watch \/ SampleRead
  BY <1>5, BackfillRequestedKept, ReconcileRunningIssueKept, EnsureRunningIssueTrackingKept,
     SampleReadKept DEF Watch
<1>6. CASE UNCHANGED vars
  BY <1>6 DEF vars, IInv, TurnsOK, InboxOK, HandlerOK, StartOK, Begun, CardsOK, FlagsOK,
              ReaderOK, MsgsOK
<1> QED
  BY <1>1, <1>2, <1>3, <1>4, <1>5, <1>6 DEF Next

\* What a reachable state looks like: what is on its way names turns that
\* exist, a handler follows a turn that exists, and one that serves the end of a
\* turn follows one that ended; the start under way and the tracked issue were
\* begun; for every set of issues and readers and every bound.
THEOREM StatesKept == Spec => []IInv
<1>1. Init => IInv
  BY InitIInv
<1>2. IInv /\ [Next]_vars => IInv'
  BY NextIInv
<1> QED
  BY <1>1, <1>2, PTL DEF Spec

-----------------------------------------------------------------------------
(***************************************************************************)
(* Types, and how many Codex threads there can be                          *)
(***************************************************************************)

\* Cards are begun by BeginTurn alone, and a Codex thread is forgotten only
\* after an issue was begun.
Steady == /\ Begun' = Begun /\ codex' = codex
          /\ bound' = bound \/ Begun # {}

LEMMA SteadySteps ==
  ASSUME IInv, [Next]_vars, ~(\E i \in Issues : BeginTurn(i))
  PROVE  Steady
<1>1. CASE AppServer
  BY <1>1 DEF AppServer, AcceptTurn, ProduceChunk, EndTurn, AnswerRead, Steady, Begun
<1>2. CASE Reconnect \/ SyncTimesOut \/ RequestTimesOut \/ Watch \/ SampleRead
  BY <1>2 DEF Reconnect, SyncTimesOut, RequestTimesOut, Watch, SampleRead, BackfillRequested,
              ReconcileRunningIssue, EnsureRunningIssueTracking, Steady, Begun
<1>3. ASSUME StartFails, start # NoStart, UNCHANGED <<turns, turnId>>
      PROVE  Steady
  BY <1>3, StartFailsKept DEF Steady, StartFails
<1>4. CASE Disconnect
  <2>1. CASE start = NoStart
    BY <1>4, <2>1 DEF Disconnect, Steady, Begun
  <2>2. CASE start # NoStart
    BY <1>4, <2>2, <1>3 DEF Disconnect
  <2> QED
    BY <2>1, <2>2
<1>5. CASE ForceReconnect
  <2>1. CASE start = NoStart
    BY <1>5, <2>1 DEF ForceReconnect, Steady, Begun
  <2>2. CASE start # NoStart
    BY <1>5, <2>2, <1>3 DEF ForceReconnect
  <2> QED
    BY <2>1, <2>2
<1>6. CASE TurnStartTimesOut
  BY <1>6, <1>3 DEF TurnStartTimesOut
<1>7. CASE TurnResponds
  BY <1>7, TurnRespondsKept DEF TurnResponds, Steady
<1>8. CASE TurnStarted \/ MessageDelta
  <2>1. CardsOK
    BY DEF IInv
  <2>2. codex' = codex /\ bound' = bound
    BY <1>8 DEF TurnStarted, MessageDelta
  <2>3. status' = CardRuns \/ status' = status
    BY <1>8 DEF TurnStarted, MessageDelta
  <2>4. status' = status => Begun' = Begun
    BY DEF Begun
  <2> QED
    BY <2>1, <2>2, <2>3, <2>4, CardRunsKept DEF Steady
<1>9. CASE TurnCompleted
  <2>1. Begun' = Begun /\ codex' = codex
    BY <1>9, TurnCompletedKept DEF TurnCompleted
  <2>2. active # NoIssue => Begun # {}
    BY DEF IInv, CardsOK
  <2>3. active = NoIssue => bound' = TRUE
    BY <1>9 DEF TurnCompleted
  <2>4. bound' = bound \/ Begun # {}
    <3>1. inbox # <<>> /\ bound = TRUE
      BY <1>9 DEF TurnCompleted, IsNext, Routed, IInv, FlagsOK
    <3> QED
      BY <2>2, <2>3, <3>1
  <2> QED
    BY <2>1, <2>4 DEF Steady
<1>10. CASE ApplySnapshot
  BY <1>10, ApplySnapshotKept DEF ApplySnapshot, Steady
<1>11. CASE DropNotification \/ SyncAnswered \/ StartServed \/ SettleTerminal
            \/ SnapshotSettled \/ SnapshotStuck
  BY <1>11 DEF DropNotification, SyncAnswered, StartServed, SettleTerminal, SnapshotSettled,
               SnapshotStuck, Steady, Begun
<1>12. CASE UNCHANGED vars
  BY <1>12 DEF vars, Steady, Begun
<1> QED
  BY <1>1, <1>2, <1>4, <1>5, <1>6, <1>7, <1>8, <1>9, <1>10, <1>11, <1>12
     DEF Next, Starting, Serve

LEMMA NextCodexInv ==
  ASSUME IsFiniteSet(Issues), IInv, CodexInv, [Next]_vars
  PROVE  CodexInv'
<1>1. codex \in Nat /\ IsFiniteSet(Begun) /\ Cardinality(Begun) \in Nat
  <2>1. Begun \in SUBSET Issues
    BY DEF Begun
  <2>2. IsFiniteSet(Begun)
    BY <2>1, FS_Subset
  <2> QED
    BY <2>2, FS_CardinalityType DEF IInv, TurnsOK
<1>2. CASE Steady
  BY <1>2 DEF CodexInv, Steady
<1>3. CASE \E i \in Issues : BeginTurn(i)
  <2>1. PICK i \in Issues : BeginTurn(i)
    BY <1>3
  <2>2. status' = [status EXCEPT ![i] = "running"] /\ status[i] = "queued"
        /\ status \in [Issues -> Statuses]
    BY <2>1 DEF BeginTurn, IInv, CardsOK
  <2>3. i \notin Begun /\ Begun' = Begun \cup {i}
    BY <2>2 DEF Begun
  <2>4. IsFiniteSet(Begun') /\ Cardinality(Begun') = Cardinality(Begun) + 1
    BY <1>1, <2>3, FS_AddElement
  <2>5. codex' = codex \/ (codex' = codex + 1 /\ ~bound)
    BY <2>1 DEF BeginTurn
  <2>6. Begun' # {}
    BY <2>3
  <2>7. codex' <= Cardinality(Begun')
    <3>1. CASE Begun # {} /\ codex <= Cardinality(Begun)
      BY <3>1, <1>1, <2>4, <2>5
    <3>2. CASE Begun = {} /\ codex = 1 /\ bound
      BY <3>2, <1>1, <2>4, <2>5, FS_EmptySet
    <3> QED
      BY <3>1, <3>2 DEF CodexInv
  <2> QED
    BY <2>6, <2>7 DEF CodexInv
<1> QED
  BY <1>2, <1>3, SteadySteps

\* The types, from the invariant.
LEMMA TypesFollow ==
  ASSUME IsFiniteSet(Issues), Issues # {}, IInv, CodexInv
  PROVE  TypeOK
<1>1. codex \in 1..Cardinality(Issues)
  <2>1. Begun \in SUBSET Issues
    BY DEF Begun
  <2>2. /\ Cardinality(Begun) <= Cardinality(Issues)
        /\ Cardinality(Issues) \in Nat /\ Cardinality(Issues) # 0
        /\ Cardinality(Begun) \in Nat
    BY <2>1, FS_Subset, FS_CardinalityType, FS_EmptySet
  <2>3. codex \in Nat \ {0}
    BY DEF IInv, TurnsOK
  <2>4. codex <= Cardinality(Begun) \/ codex = 1
    BY DEF CodexInv
  <2> QED
    BY <2>2, <2>3, <2>4
<1>2. turns \in Seq([issue : Issues, codex : 1..codex,
                     status : {"running"} \cup Outcomes, text : 0..MaxChunks])
  <2> DEFINE R == [issue : Issues, codex : 1..codex,
                   status : {"running"} \cup Outcomes, text : 0..MaxChunks]
  <2>1. turns \in Seq(Turn) /\ Len(turns) \in Nat /\ DOMAIN turns = 1..Len(turns)
        /\ turns \in [1..Len(turns) -> Turn]
    BY LenProperties DEF IInv, TurnsOK
  <2>2. \A t \in 1..Len(turns) : turns[t] \in R
    <3>1. ASSUME NEW t \in 1..Len(turns) PROVE turns[t] \in R
      <4>1. turns[t] \in Turn
        BY <2>1
      <4>2. turns[t].codex \in 1..codex
        BY <2>1 DEF IInv, TurnsOK
      <4> QED
        BY <4>1, <4>2 DEF Turn
    <3> QED
      BY <3>1
  <2> HIDE DEF R
  <2>3. turns \in [1..Len(turns) -> R]
    BY <2>1, <2>2
  <2>4. turns \in Seq(R)
    BY <2>1, <2>3, SeqDef
  <2> QED
    BY <2>4 DEF R
<1>3. /\ bound \in BOOLEAN /\ connected \in BOOLEAN /\ troubles \in 0..MaxTroubles
      /\ requested \in BOOLEAN /\ degraded \in BOOLEAN
      /\ noProgress \in 0..NoProgressForceReconnect - 1
  BY DEF IInv, FlagsOK
<1>4. /\ handler.pc \in {"idle", "reading", "unread", "ending", "settled", "stuck"}
      /\ start.pc \in {"none", "sent", "accepted"}
  BY DEF IInv, HandlerOK, StartOK
<1>5. /\ status \in [Issues -> Statuses]
      /\ active \in Issues \cup {NoIssue} /\ turnId \in 0..Len(turns)
  BY DEF IInv, CardsOK
<1>6. reader \in [Readers -> [pc : {"idle", "reading", "queued"}, codex : 0..codex]]
  BY DEF IInv, ReaderOK
<1> QED
  BY <1>1, <1>2, <1>3, <1>4, <1>5, <1>6 DEF TypeOK

\* The types hold in every reachable state, for every finite set of issues that
\* is not empty: there are never more Codex threads than issues that were begun,
\* a card shows only the statuses of an issue, and the count of fruitless
\* backfills stays below its limit.
THEOREM TypeCorrect ==
  ASSUME IsFiniteSet(Issues), Issues # {}
  PROVE  Spec => []TypeOK
<1>1. Init => CodexInv
  BY DEF Init, CodexInv, Begun
<1>2. Init => IInv
  BY InitIInv
<1>3. IInv /\ CodexInv /\ [Next]_vars => IInv' /\ CodexInv'
  BY NextIInv, NextCodexInv
<1>4. IInv /\ CodexInv => TypeOK
  BY TypesFollow
<1> QED
  BY <1>1, <1>2, <1>3, <1>4, PTL DEF Spec

-----------------------------------------------------------------------------
(***************************************************************************)
(* Messages are never shortened                                            *)
(***************************************************************************)

LEMMA MsgsGrow ==
  ASSUME IInv, [Next]_vars, NEW i \in Issues
  PROVE  Grown(msgs[i], msgs'[i])
<1>1. TurnsOK /\ msgs \in [Issues -> Seq(Message)] /\ msgs[i] \in Seq(Message)
  BY DEF IInv, MsgsOK
<1>2. CASE msgs' = msgs
  BY <1>1, <1>2, SameGrows
<1>3. CASE MessageDelta /\ active # NoIssue
  <2> DEFINE c == <<Head(inbox).turn, Head(inbox).chunk>>
  <2>1. inbox # <<>> /\ Head(inbox).kind = "delta" /\ InboxOK
    BY <1>3 DEF MessageDelta, IsNext, IInv
  <2>2. c \in Chunk
    <3>1. DOMAIN turns \subseteq Nat
      BY LenProperties DEF IInv, TurnsOK
    <3>2. Head(inbox).turn \in DOMAIN turns /\ Head(inbox).chunk \in Nat
      BY <2>1, HeadNote, NoteKinds
    <3> QED
      BY <3>1, <3>2 DEF Chunk
  <2>3. msgs' = [msgs EXCEPT ![active] = WithDelta(@, c)]
    BY <1>3 DEF MessageDelta
  <2> HIDE DEF c
  <2>4. Grown(msgs[i], WithDelta(msgs[i], c)) /\ Grown(msgs[i], msgs[i])
    BY <1>1, <2>2, DeltaGrows, SameGrows
  <2>5. msgs'[i] = WithDelta(msgs[i], c) \/ msgs'[i] = msgs[i]
    BY <1>1, <2>3
  <2> QED
    BY <2>4, <2>5
<1>4. ASSUME NEW k \in Issues \cup {NoIssue}, NEW snap, DOMAIN snap \subseteq DOMAIN turns,
             \A t \in DOMAIN snap : snap[t] \in Turn, NEW expected,
             msgs' = [msgs EXCEPT ![k] = Synced(msgs[k], snap, expected)]
      PROVE  Grown(msgs[i], msgs'[i])
  <2>1. Grown(msgs[i], Synced(msgs[i], snap, expected)) /\ Grown(msgs[i], msgs[i])
    BY <1>1, <1>4, SyncedGrows, SameGrows
  <2>2. msgs'[i] = Synced(msgs[i], snap, expected) \/ msgs'[i] = msgs[i]
    BY <1>1, <1>4
  <2> QED
    BY <2>1, <2>2
<1>5. CASE SyncAnswered
  <2>1. PICK snap \in Snapshots(turns[handler.of].codex) :
          msgs' = [msgs EXCEPT ![handler.issue] = Synced(@, snap, handler.turn)]
    BY <1>5 DEF SyncAnswered
  <2>2. DOMAIN snap \subseteq DOMAIN turns /\ \A t \in DOMAIN snap : snap[t] \in Turn
    BY <1>1, SnapshotFacts
  <2>3. handler.issue \in Issues \cup {NoIssue}
    BY DEF IInv, HandlerOK
  <2>4. msgs' = [msgs EXCEPT ![handler.issue] = Synced(msgs[handler.issue], snap, handler.turn)]
    BY <2>1
  <2> QED
    BY <1>4, <2>2, <2>3, <2>4
<1>6. CASE ApplySnapshot /\ active # NoIssue
  <2> DEFINE snap == Head(inbox).snap
  <2>1. inbox # <<>> /\ Head(inbox).kind = "snapshot" /\ InboxOK
    BY <1>6 DEF ApplySnapshot, IsNext, IInv
  <2>2. DOMAIN snap \subseteq DOMAIN turns /\ \A t \in DOMAIN snap : snap[t] \in Turn
    BY <2>1, HeadNote, NoteKinds
  <2>3. active \in Issues \cup {NoIssue}
    BY DEF IInv, CardsOK
  <2>4. msgs' = [msgs EXCEPT ![active] = Synced(msgs[active], snap, turnId)]
    BY <1>6 DEF ApplySnapshot
  <2> HIDE DEF snap
  <2> QED
    BY <1>4, <2>2, <2>3, <2>4
<1>7. \/ msgs' = msgs
      \/ MessageDelta /\ active # NoIssue
      \/ SyncAnswered
      \/ ApplySnapshot /\ active # NoIssue
  <2>1. CASE AppServer \/ Starting \/ Watch \/ SampleRead
    BY <2>1 DEF AppServer, AcceptTurn, ProduceChunk, EndTurn, AnswerRead, Starting, BeginTurn,
                TurnResponds, TurnStartTimesOut, Watch, BackfillRequested,
                ReconcileRunningIssue, EnsureRunningIssueTracking, SampleRead
  <2>2. CASE Disconnect \/ Reconnect \/ SyncTimesOut \/ RequestTimesOut \/ UNCHANGED vars
    BY <2>2 DEF Disconnect, Reconnect, SyncTimesOut, RequestTimesOut, vars
  <2>3. CASE Serve
    BY <2>3 DEF Serve, DropNotification, TurnStarted, MessageDelta, TurnCompleted, ApplySnapshot,
                StartServed, SettleTerminal, SnapshotSettled, SnapshotStuck, ForceReconnect
  <2> QED
    BY <2>1, <2>2, <2>3 DEF Next
<1> QED
  BY <1>2, <1>3, <1>5, <1>6, <1>7

\* No step shortens a message of an issue, takes one away or moves it: what a
\* snapshot shows replaces a text only when it is not shorter and no prefix of
\* it, whoever read it and however late it is served
\* (syncRemoteTurnAssistantMessagesToIssue); for every set of issues and readers
\* and every number of chunks and lost sockets.
THEOREM NeverRewound == Spec => NotRewound
<1> DEFINE A == \A i \in Issues : \A m \in DOMAIN msgs[i] :
                  Len(msgs[i][m].text) <= Len(msgs'[i][m].text)
<1>1. IInv /\ [Next]_vars => [A]_vars
  <2> SUFFICES ASSUME IInv, [Next]_vars, NEW i \in Issues, NEW m \in DOMAIN msgs[i]
               PROVE  Len(msgs[i][m].text) <= Len(msgs'[i][m].text)
    OBVIOUS
  <2>1. Grown(msgs[i], msgs'[i])
    BY MsgsGrow
  <2>2. DOMAIN msgs[i] = 1..Len(msgs[i])
    BY LenProperties DEF IInv, MsgsOK
  <2> QED
    BY <2>1, <2>2 DEF Grown
<1>2. Spec => [][A]_vars
  BY <1>1, StatesKept, PTL DEF Spec
<1> QED
  BY <1>2 DEF NotRewound

-----------------------------------------------------------------------------
(***************************************************************************)
(* The text of an ended turn                                               *)
(***************************************************************************)

\* Messages ms show the text, or the message of turn t holds more than it.
Shows(ms, t, text) ==
  \/ \A c \in ToSet(text) : \E m \in DOMAIN ms : c \in ToSet(ms[m].text)
  \/ \E m \in DOMAIN ms : ms[m].item = t /\ Len(ms[m].text) > Len(text)

\* A text that is a prefix of another one holds nothing that is not in that.
LEMMA PrefixShown ==
  ASSUME NEW s \in Seq(Chunk), NEW u \in Seq(Chunk), IsPrefix(s, u)
  PROVE  ToSet(s) \subseteq ToSet(u)
<1>1. /\ Len(s) \in Nat /\ Len(u) \in Nat
      /\ DOMAIN s = 1..Len(s) /\ DOMAIN u = 1..Len(u)
  BY LenProperties
<1>2. Len(s) <= Len(u) /\ SubSeq(s, 1, Len(s)) = SubSeq(u, 1, Len(s))
  BY DEF IsPrefix
<1>3. ASSUME NEW k \in 1..Len(s) PROVE s[k] = u[k]
  <2>1. \A q \in 1..Len(s) : s[q] \in Chunk /\ u[q] \in Chunk
    BY <1>1, <1>2, ElementOfSeq
  <2>2. /\ SubSeq(s, 1, Len(s))[k] = s[1 + k - 1]
        /\ SubSeq(u, 1, Len(s))[k] = u[1 + k - 1]
    BY <1>1, <2>1, SubSeqProperties
  <2>3. 1 + k - 1 = k
    OBVIOUS
  <2> QED
    BY <1>2, <2>2, <2>3
<1>4. \A k \in 1..Len(s) : k \in 1..Len(u)
  BY <1>1, <1>2
<1> QED
  BY <1>1, <1>3, <1>4 DEF ToSet

\* A message of the turn whose text is the one of the snapshot, or holds it.
LEMMA MessageShows ==
  ASSUME NEW ms, NEW t, NEW text, NEW m \in DOMAIN ms, ToSet(text) \subseteq ToSet(ms[m].text)
  PROVE  Shows(ms, t, text)
BY DEF Shows

\* After synchronising, the messages show the text of the snapshot, unless the
\* message of its turn had outgrown it.
LEMMA SnapshotShows ==
  ASSUME NEW ms \in Seq(Message), NEW t \in Nat, NEW text \in Seq(Chunk)
  PROVE  Shows(WithSnapshot(ms, t, text), t, text)
<1> DEFINE own == ItemIndex(ms, t)
           m == CHOOSE k \in own : TRUE
<1>1. CASE text = <<>>
  <2>1. ToSet(text) = {}
    BY <1>1 DEF ToSet
  <2> QED
    BY <2>1 DEF Shows
<1>2. CASE text # <<>> /\ own = {}
  <2> DEFINE e == [item |-> t, text |-> text]
  <2>1. e \in Message
    BY DEF Message
  <2>2. WithSnapshot(ms, t, text) = Append(ms, e)
    BY <1>2 DEF WithSnapshot
  <2>3. e.text = text
    OBVIOUS
  <2> HIDE DEF e
  <2>4. Len(ms) + 1 \in DOMAIN Append(ms, e) /\ Append(ms, e)[Len(ms) + 1] = e
    BY <2>1, AppendEntry, LenProperties
  <2>5. Shows(Append(ms, e), t, text)
    <3>1. ToSet(text) \subseteq ToSet(Append(ms, e)[Len(ms) + 1].text)
      BY <2>3, <2>4
    <3> QED
      BY <2>4, <3>1, MessageShows
  <2> QED
    BY <2>2, <2>5
<1>3. CASE text # <<>> /\ own # {}
  <2>1. m \in 1..Len(ms) /\ m \in DOMAIN ms /\ ms[m].item = t
    BY <1>3, LenProperties DEF ItemIndex
  <2>2. ms[m] \in Message
    BY <2>1, ElementOfSeq
  <2>3. ms[m].text \in Seq(Chunk)
    BY <2>2 DEF Message
  <2>4. WithSnapshot(ms, t, text) =
          IF Stale(ms[m].text, text) THEN ms ELSE [ms EXCEPT ![m].text = text]
    BY <1>3 DEF WithSnapshot
  <2> HIDE DEF m, own
  <2>5. CASE Stale(ms[m].text, text)
    <3>1. WithSnapshot(ms, t, text) = ms
      BY <2>4, <2>5
    <3>2. CASE IsPrefix(text, ms[m].text)
      <4>1. ToSet(text) \subseteq ToSet(ms[m].text)
        BY <2>3, <3>2, PrefixShown
      <4> QED
        BY <2>1, <3>1, <4>1, MessageShows
    <3>3. CASE Len(ms[m].text) > Len(text)
      BY <2>1, <3>1, <3>3 DEF Shows
    <3> QED
      BY <2>5, <3>2, <3>3 DEF Stale
  <2>6. CASE ~Stale(ms[m].text, text)
    <3> DEFINE ns == [ms EXCEPT ![m].text = text]
    <3>1. Len(ms[m].text) <= Len(text)
      BY <2>3, <2>6, FreshIsLonger
    <3>2. ns[m].text = text
      BY <2>1, <3>1, RewrittenGrows
    <3>3. m \in DOMAIN ns
      BY <2>1
    <3>4. WithSnapshot(ms, t, text) = ns
      BY <2>4, <2>6
    <3> HIDE DEF ns
    <3>5. ToSet(text) \subseteq ToSet(ns[m].text)
      BY <3>2
    <3>6. Shows(ns, t, text)
      BY <3>3, <3>5, MessageShows
    <3> QED
      BY <3>4, <3>6
  <2> QED
    BY <2>5, <2>6
<1> QED
  BY <1>1, <1>2, <1>3

\* While the end of a turn is being served, the tracked issue shows its text.
WholeAt(i, t) == Shows(msgs[i], t, Chunks(t, turns[t].text))
EndsOwn == handler.pc = "ending" /\ handler.issue # NoIssue

\* The final read is what makes an ended handler; nothing else that happens
\* until the tracking is given up touches its turn's text or the messages.
LEMMA EndingKept ==
  ASSUME IInv, [Next]_vars, EndsOwn'
  PROVE  \/ SyncAnswered
         \/ /\ EndsOwn /\ handler' = handler /\ msgs' = msgs
            /\ turns'[handler.of].text = turns[handler.of].text
<1>1. handler \in [pc : {"idle", "reading", "unread", "ending", "settled", "stuck"},
                   kind : {"none", "started", "completed"} \cup Readers,
                   issue : Issues \cup {NoIssue}, turn : Nat, of : Nat]
  BY DEF IInv, HandlerOK
<1>2. EndsOwn => handler.of \in DOMAIN turns /\ turns[handler.of].status # "running"
  BY DEF IInv, HandlerOK, EndsOwn
<1>3. ASSUME UNCHANGED <<handler, turns, msgs>>
      PROVE  /\ EndsOwn /\ handler' = handler /\ msgs' = msgs
             /\ turns'[handler.of].text = turns[handler.of].text
  BY <1>3 DEF EndsOwn
<1>4. CASE AcceptTurn
  <2>1. handler' = handler /\ msgs' = msgs
    BY <1>4 DEF AcceptTurn
  <2>2. handler.of \in DOMAIN turns
    BY <1>2, <2>1 DEF EndsOwn
  <2>3. PICK e : turns' = Append(turns, e)
    BY <1>4 DEF AcceptTurn
  <2>4. turns \in Seq(Turn) /\ DOMAIN turns = 1..Len(turns)
    BY LenProperties DEF IInv, TurnsOK
  <2>5. turns'[handler.of] = turns[handler.of]
    <3>1. handler.of \in 1..Len(turns)
      BY <2>2, <2>4
    <3>2. Append(turns, e)[handler.of] = turns[handler.of]
      BY <2>4, <3>1, LenProperties
    <3> QED
      BY <2>3, <3>2
  <2> QED
    BY <2>1, <2>5 DEF EndsOwn
<1>5. CASE \E t \in 1..MaxTurns : ProduceChunk(t) \/ EndTurn(t)
  <2>1. PICK t \in 1..MaxTurns : ProduceChunk(t) \/ EndTurn(t)
    BY <1>5
  <2>2. handler' = handler /\ msgs' = msgs /\ turns[t].status = "running"
    BY <2>1 DEF ProduceChunk, EndTurn
  <2>3. EndsOwn /\ handler.of # t /\ handler.of \in DOMAIN turns
    BY <1>2, <2>2 DEF EndsOwn
  <2>4. PICK e : turns' = [turns EXCEPT ![t] = e]
    <3>1. ASSUME ProduceChunk(t) PROVE turns' = [turns EXCEPT ![t] = [turns[t] EXCEPT !.text = @ + 1]]
      BY <3>1 DEF ProduceChunk
    <3>2. ASSUME EndTurn(t)
          PROVE  \E o \in Outcomes : turns' = [turns EXCEPT ![t] = [turns[t] EXCEPT !.status = o]]
      BY <3>2 DEF EndTurn
    <3> QED
      BY <2>1, <3>1, <3>2
  <2>5. turns'[handler.of] = turns[handler.of]
    BY <2>3, <2>4
  <2> QED
    BY <2>2, <2>3, <2>5
<1>6. CASE (\E r \in Readers : AnswerRead(r)) \/ Starting \/ Watch \/ SampleRead
  <2>1. UNCHANGED <<handler, turns, msgs>>
    BY <1>6 DEF AnswerRead, Starting, BeginTurn, TurnResponds, TurnStartTimesOut, Watch,
                BackfillRequested, ReconcileRunningIssue, EnsureRunningIssueTracking, SampleRead
  <2> QED
    BY <1>3, <2>1
<1>7. CASE Reconnect \/ RequestTimesOut \/ UNCHANGED vars
  <2>1. UNCHANGED <<handler, turns, msgs>>
    BY <1>7 DEF Reconnect, RequestTimesOut, vars
  <2> QED
    BY <1>3, <2>1
<1>8. CASE Disconnect \/ SyncTimesOut
  <2>1. UNCHANGED <<turns, msgs>>
    BY <1>8 DEF Disconnect, SyncTimesOut
  <2>2. \/ handler' = handler
        \/ handler' = [handler EXCEPT !.pc = "unread"]
    BY <1>8 DEF Disconnect, SyncTimesOut
  <2>3. handler' = [handler EXCEPT !.pc = "unread"] => ~EndsOwn'
    BY <1>1 DEF EndsOwn
  <2> QED
    BY <1>3, <2>1, <2>2, <2>3
<1>9. CASE DropNotification
  <2>1. UNCHANGED <<handler, turns, msgs>>
    BY <1>9 DEF DropNotification
  <2> QED
    BY <1>3, <2>1
<1>10. CASE MessageDelta
  <2>1. handler' = handler /\ handler = Resting
    BY <1>10 DEF MessageDelta, IsNext
  <2> QED
    BY <2>1 DEF EndsOwn, Resting
<1>11. CASE TurnStarted \/ StartServed \/ SettleTerminal \/ SnapshotSettled \/ SnapshotStuck
            \/ ForceReconnect
  <2>1. handler' = Resting \/ handler'.pc \in {"reading", "unread"}
    BY <1>11 DEF TurnStarted, StartServed, SettleTerminal, SnapshotSettled, SnapshotStuck,
                 ForceReconnect
  <2> QED
    BY <2>1 DEF EndsOwn, Resting
<1>12. CASE TurnCompleted
  <2>1. handler'.issue = active /\ (active # NoIssue => handler'.pc \in {"reading", "unread"})
    BY <1>12 DEF TurnCompleted
  <2> QED
    BY <2>1 DEF EndsOwn
<1>13. CASE ApplySnapshot
  <2>1. CASE active = NoIssue
    <3>1. handler' = handler /\ handler = Resting
      BY <1>13, <2>1 DEF ApplySnapshot, IsNext
    <3> QED
      BY <3>1 DEF EndsOwn, Resting
  <2>2. CASE active # NoIssue
    <3>1. handler'.pc \in {"stuck", "settled"}
      BY <1>13, <2>2 DEF ApplySnapshot
    <3> QED
      BY <3>1 DEF EndsOwn
  <2> QED
    BY <2>1, <2>2
<1> QED
  BY <1>4, <1>5, <1>6, <1>7, <1>8, <1>9, <1>10, <1>11, <1>12, <1>13 DEF Next, AppServer, Serve

\* The final read shows the text of the turn it selects.
LEMMA FinalRead ==
  ASSUME IInv, SyncAnswered, EndsOwn',
         \A snap \in Snapshots(turns[handler.of].codex) :
           handler.of \in DOMAIN snap => Selected(snap, handler.turn) = handler.of
  PROVE  WholeAt(handler.issue, handler.of)' /\ handler'.issue = handler.issue
         /\ handler'.of = handler.of /\ handler'.turn = handler.turn
<1>1. /\ handler.issue \in Issues /\ handler.of \in DOMAIN turns
      /\ handler.kind = "completed" => turns[handler.of].status # "running"
      /\ TurnsOK /\ msgs \in [Issues -> Seq(Message)]
  BY DEF IInv, HandlerOK, SyncAnswered, MsgsOK
<1>2. handler' = IF handler.kind = "completed" THEN [handler EXCEPT !.pc = "ending"] ELSE Resting
  BY DEF SyncAnswered
<1>3. handler.kind = "completed" /\ handler' = [handler EXCEPT !.pc = "ending"]
  BY <1>2 DEF EndsOwn, Resting
<1>4. PICK snap \in Snapshots(turns[handler.of].codex) :
        msgs' = [msgs EXCEPT ![handler.issue] = Synced(@, snap, handler.turn)]
  BY DEF SyncAnswered
<1> DEFINE t == handler.of
           text == Chunks(t, turns[t].text)
<1>5. /\ t \in TurnsOn(turns[t].codex)
      /\ DOMAIN snap = TurnsOn(turns[t].codex)
      /\ turns[t].status # "running" => snap[t] = turns[t]
  <2>1. t \in TurnsOn(turns[t].codex)
    BY <1>1 DEF TurnsOn
  <2>2. DOMAIN snap = TurnsOn(turns[t].codex)
    BY <1>1, SnapshotFacts
  <2>3. \A u \in DOMAIN snap : turns[u].status # "running" => snap[u] = turns[u]
    BY <1>1, SnapshotFacts
  <2> QED
    BY <2>1, <2>2, <2>3
<1>6. Selected(snap, handler.turn) = t /\ snap[t] = turns[t] /\ DOMAIN snap # {}
  BY <1>1, <1>3, <1>5
<1>7. Synced(msgs[handler.issue], snap, handler.turn) = WithSnapshot(msgs[handler.issue], t, text)
  BY <1>6 DEF Synced
<1>8. t \in Nat /\ turns[t].text \in Nat
  <2>1. DOMAIN turns = 1..Len(turns)
    BY <1>1, LenProperties DEF TurnsOK
  <2>2. turns[t] \in Turn
    BY <1>1, <2>1, ElementOfSeq DEF TurnsOK
  <2> QED
    BY <1>1, <2>1, <2>2 DEF Turn
<1>9. text \in Seq(Chunk)
  BY <1>8, ChunksFacts
<1>10. msgs[handler.issue] \in Seq(Message)
  BY <1>1
<1>11. turns' = turns
  BY DEF SyncAnswered
<1>12. handler'.issue = handler.issue /\ handler'.of = handler.of /\ handler'.turn = handler.turn
  BY <1>3 DEF IInv, HandlerOK
<1>13. Shows(WithSnapshot(msgs[handler.issue], t, text), t, text)
  <2> HIDE DEF text, t
  <2> QED
    BY <1>8, <1>9, <1>10, SnapshotShows
<1>14. msgs'[handler.issue] = WithSnapshot(msgs[handler.issue], t, text)
  BY <1>1, <1>4, <1>7
<1>15. Shows(msgs'[handler'.issue], handler'.of, Chunks(handler'.of, turns'[handler'.of].text))
  BY <1>11, <1>12, <1>13, <1>14
<1> QED
  BY <1>12, <1>15 DEF WholeAt

\* What the messages show, in the words of WholeText.
LEMMA WholeSays ==
  ASSUME IInv, EndsOwn => WholeAt(handler.issue, handler.of)
  PROVE  WholeText
<1> SUFFICES ASSUME handler.pc = "ending", handler.issue # NoIssue,
                    handler.of \in OwnTurns(handler.issue)
             PROVE  \/ ToSet(Chunks(handler.of, turns[handler.of].text))
                         \subseteq ChunksOf(handler.issue)
                    \/ Outgrown(handler.issue, handler.of)
  BY DEF WholeText
<1> DEFINE i == handler.issue
           t == handler.of
           text == Chunks(t, turns[t].text)
<1>1. Shows(msgs[i], t, text)
  BY DEF EndsOwn, WholeAt
<1>2. t \in Nat /\ turns[t].text \in Nat
  <2>1. t \in DOMAIN turns /\ DOMAIN turns = 1..Len(turns)
    BY LenProperties DEF OwnTurns, IInv, TurnsOK
  <2>2. turns[t] \in Turn
    BY <2>1, ElementOfSeq DEF IInv, TurnsOK
  <2> QED
    BY <2>1, <2>2 DEF Turn
<1>3. Len(text) = turns[t].text
  BY <1>2, ChunksFacts
<1> HIDE DEF text, t, i
<1>4. CASE \A c \in ToSet(text) : \E m \in DOMAIN msgs[i] : c \in ToSet(msgs[i][m].text)
  <2>1. ToSet(text) \subseteq ChunksOf(i)
    BY <1>4 DEF ChunksOf
  <2> QED
    BY <2>1 DEF text, t, i
<1>5. CASE \E m \in DOMAIN msgs[i] : msgs[i][m].item = t /\ Len(msgs[i][m].text) > Len(text)
  <2>1. Outgrown(i, t)
    BY <1>3, <1>5 DEF Outgrown
  <2> QED
    BY <2>1 DEF t, i
<1> QED
  BY <1>1, <1>4, <1>5 DEF Shows

\* Whatever was lost with sockets, and however many there were: if the final
\* read of an ended turn was answered, and turn_id names that turn when its end
\* is served, the issue shows the whole text of the turn before its tracking is
\* given up, or a message that holds chunks twice has outgrown it
\* (handleNotification, turn/completed); for every set of issues and readers.
THEOREM WholeOfItsTurn == Spec => [](handler.turn = handler.of => WholeText)
<1> DEFINE W == EndsOwn /\ handler.turn = handler.of => WholeAt(handler.issue, handler.of)
<1>1. Init => W
  BY DEF Init, Resting, EndsOwn
<1>2. IInv /\ W /\ [Next]_vars => W'
  <2> SUFFICES ASSUME IInv, W, [Next]_vars, EndsOwn', handler'.turn = handler'.of
               PROVE  WholeAt(handler.issue, handler.of)'
    OBVIOUS
  <2>1. CASE SyncAnswered
    <3>1. handler'.turn = handler.turn /\ handler'.of = handler.of
      BY <2>1 DEF SyncAnswered, EndsOwn, Resting, IInv, HandlerOK
    <3>2. \A snap \in Snapshots(turns[handler.of].codex) :
            handler.of \in DOMAIN snap => Selected(snap, handler.turn) = handler.of
      BY <3>1 DEF Selected
    <3> QED
      BY <2>1, <3>2, FinalRead
  <2>2. CASE /\ EndsOwn /\ handler' = handler /\ msgs' = msgs
             /\ turns'[handler.of].text = turns[handler.of].text
    <3>1. WholeAt(handler.issue, handler.of)
      BY <2>2
    <3> QED
      BY <2>2, <3>1 DEF WholeAt
  <2> QED
    BY <2>1, <2>2, EndingKept
<1>3. IInv /\ W => (handler.turn = handler.of => WholeText)
  <2> SUFFICES ASSUME IInv, W, handler.turn = handler.of PROVE WholeText
    OBVIOUS
  <2>1. EndsOwn => WholeAt(handler.issue, handler.of)
    OBVIOUS
  <2> QED
    BY <2>1, WholeSays
<1> QED
  BY <1>1, <1>2, <1>3, StatesKept, PTL DEF Spec

-----------------------------------------------------------------------------
(***************************************************************************)
(* The text of a thread's only issue                                       *)
(***************************************************************************)

\* An issue is started once, so with one issue there is one turn.
OneTurn == /\ Len(turns) <= 1
           /\ start.pc = "sent" => Len(turns) = 0
           /\ Begun # Issues => Len(turns) = 0 /\ start.pc = "none"

\* Intervals from 1 are the same only when they end at the same number.
LEMMA SameInterval ==
  ASSUME NEW m \in Nat, NEW n \in Nat, \A k \in Nat : k \in 1..m <=> k \in 1..n
  PROVE  m = n
<1>1. CASE m < n
  <2>1. n \in 1..n
    BY <1>1
  <2>2. n \in 1..m
    BY <2>1
  <2> QED
    BY <1>1, <2>2
<1>2. CASE n < m
  <2>1. m \in 1..m
    BY <1>2
  <2>2. m \in 1..n
    BY <2>1
  <2> QED
    BY <1>2, <2>2
<1> QED
  BY <1>1, <1>2

LEMMA NextOneTurn ==
  ASSUME \A i, j \in Issues : i = j, IInv, OneTurn, [Next]_vars
  PROVE  OneTurn'
<1>1. turns \in Seq(Turn) /\ Len(turns) \in Nat
  BY LenProperties DEF IInv, TurnsOK
<1>2. CASE \E i \in Issues : BeginTurn(i)
  <2>1. PICK i \in Issues : BeginTurn(i)
    BY <1>2
  <2>2. status' = [status EXCEPT ![i] = "running"] /\ status[i] = "queued"
        /\ status \in [Issues -> Statuses] /\ turns' = turns
    BY <2>1 DEF BeginTurn, IInv, CardsOK
  <2>3. i \notin Begun /\ Begun' = Issues
    BY <2>2 DEF Begun
  <2>4. Len(turns) = 0
    BY <2>3 DEF OneTurn
  <2> QED
    BY <2>2, <2>3, <2>4 DEF OneTurn
<1>3. CASE AcceptTurn
  <2>1. PICK e : turns' = Append(turns, e)
    BY <1>3 DEF AcceptTurn
  <2>2. Len(turns) = 0 /\ Begun = Issues
    BY <1>3 DEF AcceptTurn, OneTurn
  <2>3. Len(turns') = 1
    BY <1>1, <2>1, <2>2
  <2>4. Begun' = Begun /\ start'.pc = "accepted"
    BY <1>3 DEF AcceptTurn, Begun, IInv, StartOK
  <2> QED
    BY <2>2, <2>3, <2>4 DEF OneTurn
<1>4. CASE ~(\E i \in Issues : BeginTurn(i)) /\ ~AcceptTurn
  <2>1. Begun' = Begun
    BY <1>4, SteadySteps DEF Steady
  <2>2. start' = start \/ start' = NoStart
    <3>1. CASE AppServer \/ Watch \/ SampleRead
      BY <3>1, <1>4 DEF AppServer, ProduceChunk, EndTurn, AnswerRead, Watch, BackfillRequested,
                        ReconcileRunningIssue, EnsureRunningIssueTracking, SampleRead
    <3>2. CASE Disconnect \/ Reconnect \/ SyncTimesOut \/ RequestTimesOut \/ UNCHANGED vars
      BY <3>2 DEF Disconnect, StartFails, Reconnect, SyncTimesOut, RequestTimesOut, vars
    <3>3. CASE Starting
      BY <3>3, <1>4 DEF Starting, TurnResponds, TurnStartTimesOut, StartFails
    <3>4. CASE Serve
      BY <3>4 DEF Serve, DropNotification, TurnStarted, MessageDelta, TurnCompleted, ApplySnapshot,
                  SyncAnswered, StartServed, SettleTerminal, SnapshotSettled, SnapshotStuck,
                  ForceReconnect, StartFails
    <3> QED
      BY <3>1, <3>2, <3>3, <3>4 DEF Next
  <2>3. Len(turns') = Len(turns)
    <3>1. CASE \E t \in 1..MaxTurns : ProduceChunk(t) \/ EndTurn(t)
      <4>1. PICK t \in 1..MaxTurns : ProduceChunk(t) \/ EndTurn(t)
        BY <3>1
      <4>2. t \in 1..Len(turns)
        BY <1>1, <4>1, LenProperties DEF ProduceChunk, EndTurn
      <4>3. turns' \in Seq(Turn)
        BY NextIInv DEF IInv, TurnsOK
      <4>4. DOMAIN turns' = DOMAIN turns
        BY <4>1 DEF ProduceChunk, EndTurn
      <4>5. /\ DOMAIN turns = 1..Len(turns) /\ DOMAIN turns' = 1..Len(turns')
            /\ Len(turns') \in Nat
        BY <1>1, <4>3, LenProperties
      <4>6. \A k \in Nat : k \in 1..Len(turns) <=> k \in 1..Len(turns')
        BY <4>4, <4>5
      <4> QED
        BY <1>1, <4>5, <4>6, SameInterval
    <3>2. CASE ~(\E t \in 1..MaxTurns : ProduceChunk(t) \/ EndTurn(t))
      <4>1. turns' = turns
        <5>1. CASE AppServer \/ Watch \/ SampleRead
          BY <5>1, <3>2, <1>4 DEF AppServer, AnswerRead, Watch, BackfillRequested,
                            ReconcileRunningIssue, EnsureRunningIssueTracking, SampleRead
        <5>2. CASE Disconnect \/ Reconnect \/ SyncTimesOut \/ RequestTimesOut \/ UNCHANGED vars
          BY <5>2 DEF Disconnect, Reconnect, SyncTimesOut, RequestTimesOut, vars
        <5>3. CASE Starting
          BY <5>3, <1>4 DEF Starting, TurnResponds, TurnStartTimesOut
        <5>4. CASE Serve
          BY <5>4 DEF Serve, DropNotification, TurnStarted, MessageDelta, TurnCompleted,
                      ApplySnapshot, SyncAnswered, StartServed, SettleTerminal, SnapshotSettled,
                      SnapshotStuck, ForceReconnect
        <5> QED
          BY <5>1, <5>2, <5>3, <5>4 DEF Next
      <4> QED
        BY <4>1
    <3> QED
      BY <3>1, <3>2
  <2> QED
    BY <2>1, <2>2, <2>3 DEF OneTurn, NoStart
<1> QED
  BY <1>2, <1>3, <1>4

\* The only issue of a thread that was started once: whatever was lost with
\* sockets, and however many there were, it shows the whole text of its turn
\* before its tracking is given up, if the final read was answered; or a message
\* that holds chunks twice has outgrown it (handleNotification, turn/completed).
THEOREM WholeOfOneIssue ==
  ASSUME \A i, j \in Issues : i = j
  PROVE  Spec => []WholeText
<1> DEFINE W == EndsOwn => WholeAt(handler.issue, handler.of)
<1>1. Init => W /\ (IInv => OneTurn)
  <2>1. Init => W
    BY DEF Init, Resting, EndsOwn
  <2>2. Init => OneTurn
    BY EmptySeq DEF Init, OneTurn, NoStart
  <2> QED
    BY <2>1, <2>2
<1>2. IInv /\ OneTurn /\ [Next]_vars => OneTurn'
  BY NextOneTurn
<1>3. IInv /\ OneTurn /\ W /\ [Next]_vars => W'
  <2> SUFFICES ASSUME IInv, OneTurn, W, [Next]_vars, EndsOwn'
               PROVE  WholeAt(handler.issue, handler.of)'
    OBVIOUS
  <2>1. CASE SyncAnswered
    <3>1. handler.of \in DOMAIN turns /\ TurnsOK
      BY <2>1 DEF SyncAnswered, IInv, HandlerOK
    <3>2. DOMAIN turns = {handler.of}
      <4>1. DOMAIN turns = 1..Len(turns) /\ Len(turns) \in Nat
        BY <3>1, LenProperties DEF TurnsOK
      <4>2. Len(turns) <= 1
        BY DEF OneTurn
      <4> QED
        BY <3>1, <4>1, <4>2
    <3>3. ASSUME NEW snap \in Snapshots(turns[handler.of].codex), handler.of \in DOMAIN snap
          PROVE  Selected(snap, handler.turn) = handler.of
      <4>1. DOMAIN snap \subseteq DOMAIN turns
        BY <3>1, SnapshotFacts
      <4>2. Selected(snap, handler.turn) \in DOMAIN snap
        BY <3>1, <3>3, <4>1, SelectedShown
      <4> QED
        BY <3>2, <4>1, <4>2
    <3> QED
      BY <2>1, <3>3, FinalRead
  <2>2. CASE /\ EndsOwn /\ handler' = handler /\ msgs' = msgs
             /\ turns'[handler.of].text = turns[handler.of].text
    <3>1. WholeAt(handler.issue, handler.of)
      BY <2>2
    <3> QED
      BY <2>2, <3>1 DEF WholeAt
  <2> QED
    BY <2>1, <2>2, EndingKept
<1>4. IInv /\ W => WholeText
  BY WholeSays
<1> QED
  BY <1>1, <1>2, <1>3, <1>4, StatesKept, PTL DEF Spec
=============================================================================
