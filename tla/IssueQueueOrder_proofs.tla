------------------------ MODULE IssueQueueOrder_proofs ------------------------
(***************************************************************************)
(* The start queue of IssueQueue: which issues it holds, and in which      *)
(* order they leave it.  The proofs rest on the types and the locks of     *)
(* IssueQueue_proofs.                                                      *)
(***************************************************************************)
EXTENDS IssueQueue_proofs

USE DEF bridgeVars, contVars, envVars

-----------------------------------------------------------------------------
(***************************************************************************)
(* Queues without repetition                                               *)
(***************************************************************************)
Distinct(q) == \A m, n \in 1..Len(q) : q[m] = q[n] => m = n

LEMMA ToSetIndex ==
  ASSUME NEW q, NEW x
  PROVE  x \in ToSet(q) <=> \E n \in DOMAIN q : q[n] = x
BY DEF ToSet

\* Where the entries of a filtered queue come from.
LEMMA RemoveAtEntries ==
  ASSUME NEW S, NEW q \in Seq(S), NEW n \in 1..Len(q)
  PROVE  /\ RemoveAt(q, n) \in Seq(S)
         /\ Len(RemoveAt(q, n)) = Len(q) - 1
         /\ \A k \in 1..(Len(q) - 1) :
              RemoveAt(q, n)[k] = IF k < n THEN q[k] ELSE q[k + 1]
<1> DEFINE a == SubSeq(q, 1, n - 1)
           b == SubSeq(q, n + 1, Len(q))
<1>1. Len(q) \in Nat /\ n - 1 \in Int /\ n + 1 \in Int
  OBVIOUS
<1>2. /\ a \in Seq(S) /\ Len(a) = n - 1 /\ \A k \in 1..(n - 1) : a[k] = q[k]
  BY <1>1, SubSeqProperties
<1>3. /\ b \in Seq(S) /\ Len(b) = Len(q) - n
      /\ \A k \in 1..(Len(q) - n) : b[k] = q[n + k]
  <2>1. CASE n = Len(q)
    BY <1>1, <2>1, SubSeqProperties
  <2>2. CASE n < Len(q)
    BY <1>1, <2>2, SubSeqProperties
  <2> QED
    BY <2>1, <2>2
<1> HIDE DEF a, b
<1>4. /\ a \o b \in Seq(S) /\ Len(a \o b) = Len(a) + Len(b)
      /\ \A k \in 1..(Len(a) + Len(b)) :
           (a \o b)[k] = IF k <= Len(a) THEN a[k] ELSE b[k - Len(a)]
  BY <1>2, <1>3, ConcatProperties
<1>5. RemoveAt(q, n) = a \o b
  BY DEF RemoveAt, a, b
<1>6. Len(a) + Len(b) = Len(q) - 1
  BY <1>1, <1>2, <1>3
<1>7. ASSUME NEW k \in 1..(Len(q) - 1)
      PROVE  (a \o b)[k] = IF k < n THEN q[k] ELSE q[k + 1]
  <2>1. CASE k < n
    <3>1. k \in 1..(n - 1)
      BY <2>1
    <3>2. (a \o b)[k] = a[k]
      BY <1>2, <1>4, <1>6, <3>1
    <3> QED
      BY <1>2, <2>1, <3>1, <3>2
  <2>2. CASE ~(k < n)
    <3> DEFINE j == k - (n - 1)
    <3>1. j \in 1..(Len(q) - n) /\ ~(k <= n - 1) /\ n + j = k + 1
      BY <1>1, <2>2
    <3>2. (a \o b)[k] = b[j]
      BY <1>2, <1>4, <1>6, <3>1
    <3> QED
      BY <1>3, <2>2, <3>1, <3>2
  <2> QED
    BY <2>1, <2>2
<1> QED
  BY <1>4, <1>5, <1>6, <1>7

\* Filtering an issue out of a queue takes it away and keeps the order of the rest.
LEMMA WithoutEntries ==
  ASSUME NEW S, NEW q \in Seq(S), Distinct(q), NEW i
  PROVE  /\ Without(q, i) \in Seq(S)
         /\ Distinct(Without(q, i))
         /\ ToSet(Without(q, i)) = ToSet(q) \ {i}
         /\ \A a, b : a # i /\ b # i /\ Precedes(q, a, b) => Precedes(Without(q, i), a, b)
<1>1. CASE i \notin ToSet(q)
  BY <1>1 DEF Without
<1>2. CASE i \in ToSet(q)
  <2> DEFINE n == CHOOSE k \in DOMAIN q : q[k] = i
             w == RemoveAt(q, n)
  <2>1. n \in 1..Len(q) /\ q[n] = i
    BY <1>2, ToSetIndex
  <2>2. Without(q, i) = w
    BY <1>2 DEF Without
  <2> HIDE DEF n
  <2>3. /\ w \in Seq(S) /\ Len(w) = Len(q) - 1
        /\ \A k \in 1..(Len(q) - 1) : w[k] = IF k < n THEN q[k] ELSE q[k + 1]
    BY <2>1, RemoveAtEntries
  <2> HIDE DEF w
  <2>4. \A k \in 1..Len(q) : k # n =>
          LET m == IF k < n THEN k ELSE k - 1 IN m \in 1..Len(w) /\ w[m] = q[k]
    BY <2>1, <2>3
  <2>5. Distinct(w)
    <3> SUFFICES ASSUME NEW k \in 1..Len(w), NEW m \in 1..Len(w), w[k] = w[m]
                 PROVE  k = m
      BY DEF Distinct
    <3> QED
      BY <2>1, <2>3 DEF Distinct
  <2>6. ToSet(w) = ToSet(q) \ {i}
    <3>1. \A k \in 1..Len(w) : w[k] \in ToSet(q) /\ w[k] # i
      BY <2>1, <2>3, ToSetIndex DEF Distinct
    <3>2. \A k \in 1..Len(q) : q[k] # i => q[k] \in ToSet(w)
      BY <2>1, <2>3, <2>4, ToSetIndex
    <3> QED
      BY <2>3, <3>1, <3>2, ToSetIndex
  <2>7. ASSUME NEW a, NEW b, a # i, b # i, Precedes(q, a, b)
        PROVE  Precedes(w, a, b)
    <3>1. PICK j \in 1..Len(q), k \in 1..Len(q) : j < k /\ q[j] = a /\ q[k] = b
      BY <2>7 DEF Precedes
    <3>2. j # n /\ k # n
      BY <2>1, <2>7, <3>1
    <3> DEFINE jw == IF j < n THEN j ELSE j - 1
               kw == IF k < n THEN k ELSE k - 1
    <3>3. jw \in 1..Len(w) /\ kw \in 1..Len(w) /\ w[jw] = a /\ w[kw] = b
      BY <2>4, <3>1, <3>2
    <3>4. jw < kw
      BY <2>1, <3>1, <3>2
    <3> QED
      BY <3>3, <3>4 DEF Precedes
  <2> QED
    BY <2>2, <2>3, <2>5, <2>6, <2>7
<1> QED
  BY <1>1, <1>2

\* Taking the first issue out.
LEMMA TailEntries ==
  ASSUME NEW S, NEW q \in Seq(S), Distinct(q), q # <<>>
  PROVE  /\ Tail(q) \in Seq(S) /\ Distinct(Tail(q))
         /\ Head(q) \in ToSet(q)
         /\ ToSet(Tail(q)) = ToSet(q) \ {Head(q)}
<1>1. /\ Len(q) \in Nat \ {0}
      /\ Head(q) = q[1]
      /\ Tail(q) \in Seq(S) /\ Len(Tail(q)) = Len(q) - 1
      /\ \A k \in 1..(Len(q) - 1) : Tail(q)[k] = q[k + 1]
  BY HeadTailProperties
<1> DEFINE w == Tail(q)
<1> HIDE DEF w
<1>2. /\ w \in Seq(S) /\ Len(w) = Len(q) - 1
      /\ \A k \in 1..(Len(q) - 1) : w[k] = q[k + 1]
  BY <1>1 DEF w
<1>3. Distinct(w)
  BY <1>1, <1>2 DEF Distinct
<1>4. \A k \in 1..Len(w) : w[k] \in ToSet(q) /\ w[k] # q[1]
  BY <1>1, <1>2, ToSetIndex DEF Distinct
<1>5. \A k \in 1..Len(q) : q[k] # q[1] => q[k] \in ToSet(w)
  <2> SUFFICES ASSUME NEW k \in 1..Len(q), q[k] # q[1] PROVE q[k] \in ToSet(w)
    OBVIOUS
  <2>1. k - 1 \in 1..Len(w) /\ w[k - 1] = q[k]
    BY <1>1, <1>2
  <2> QED
    BY <1>2, <2>1, ToSetIndex
<1>6. ToSet(w) = ToSet(q) \ {q[1]}
  BY <1>2, <1>4, <1>5, ToSetIndex
<1> QED
  BY <1>1, <1>2, <1>3, <1>6, ToSetIndex DEF w

\* Putting an issue in front of the others.
LEMMA FrontEntries ==
  ASSUME NEW S, NEW q \in Seq(S), Distinct(q), NEW i \in S, i \notin ToSet(q)
  PROVE  /\ <<i>> \o q \in Seq(S) /\ Distinct(<<i>> \o q)
         /\ ToSet(<<i>> \o q) = ToSet(q) \cup {i}
         /\ \A a, b : Precedes(q, a, b) => Precedes(<<i>> \o q, a, b)
<1> DEFINE w == <<i>> \o q
<1>1. /\ w \in Seq(S) /\ Len(w) = Len(q) + 1 /\ Len(q) \in Nat
      /\ w[1] = i /\ \A k \in 1..Len(q) : w[k + 1] = q[k]
  OBVIOUS
<1> HIDE DEF w
<1>2. \A k \in 1..Len(w) : k = 1 \/ (k - 1 \in 1..Len(q) /\ w[k] = q[k - 1])
  BY <1>1
<1>3. \A k \in 1..Len(q) : q[k] # i
  BY ToSetIndex
<1>4. Distinct(w)
  <2> SUFFICES ASSUME NEW m \in 1..Len(w), NEW n \in 1..Len(w), w[m] = w[n]
               PROVE  m = n
    BY DEF Distinct
  <2>1. CASE m = 1 \/ n = 1
    BY <1>1, <1>2, <1>3, <2>1
  <2>2. CASE m # 1 /\ n # 1
    <3>1. m - 1 \in 1..Len(q) /\ n - 1 \in 1..Len(q) /\ q[m - 1] = q[n - 1]
      BY <1>2, <2>2
    <3>2. m - 1 = n - 1
      BY <3>1 DEF Distinct
    <3> QED
      BY <3>2
  <2> QED
    BY <2>1, <2>2
<1>5. ToSet(w) = ToSet(q) \cup {i}
  <2>1. \A k \in 1..Len(w) : w[k] \in ToSet(q) \cup {i}
    BY <1>1, <1>2, ToSetIndex
  <2>2. i \in ToSet(w)
    BY <1>1, ToSetIndex
  <2>3. \A k \in 1..Len(q) : q[k] \in ToSet(w)
    <3> SUFFICES ASSUME NEW k \in 1..Len(q) PROVE q[k] \in ToSet(w)
      OBVIOUS
    <3>1. k + 1 \in DOMAIN w /\ w[k + 1] = q[k]
      BY <1>1
    <3> QED
      BY <3>1, ToSetIndex
  <2> QED
    BY <1>1, <2>1, <2>2, <2>3, ToSetIndex
<1>6. \A a, b : Precedes(q, a, b) => Precedes(w, a, b)
  <2> SUFFICES ASSUME NEW a, NEW b, Precedes(q, a, b) PROVE Precedes(w, a, b)
    OBVIOUS
  <2>1. PICK m \in 1..Len(q), n \in 1..Len(q) : m < n /\ q[m] = a /\ q[n] = b
    BY DEF Precedes
  <2>2. m + 1 \in 1..Len(w) /\ n + 1 \in 1..Len(w) /\ w[m + 1] = a /\ w[n + 1] = b
    BY <1>1, <2>1
  <2> QED
    BY <2>1, <2>2 DEF Precedes
<1> QED
  BY <1>1, <1>4, <1>5, <1>6 DEF w

\* Putting an issue behind the others, unless it is among them.
LEMMA EnlistEntries ==
  ASSUME NEW S, NEW q \in Seq(S), Distinct(q), NEW i \in S
  PROVE  /\ Enlist(q, i) \in Seq(S) /\ Distinct(Enlist(q, i))
         /\ ToSet(Enlist(q, i)) = ToSet(q) \cup {i}
         /\ \A a, b : Precedes(q, a, b) => Precedes(Enlist(q, i), a, b)
<1>1. CASE i \in ToSet(q)
  BY <1>1 DEF Enlist
<1>2. CASE i \notin ToSet(q)
  <2> DEFINE w == Append(q, i)
  <2>1. /\ w \in Seq(S) /\ Len(w) = Len(q) + 1 /\ Len(q) \in Nat
        /\ w[Len(q) + 1] = i /\ \A k \in 1..Len(q) : w[k] = q[k]
    OBVIOUS
  <2> HIDE DEF w
  <2>2. Enlist(q, i) = w
    BY <1>2 DEF Enlist, w
  <2>3. \A k \in 1..Len(q) : q[k] # i
    BY <1>2, ToSetIndex
  <2>4. Distinct(w)
    BY <2>1, <2>3 DEF Distinct
  <2>5. ToSet(w) = ToSet(q) \cup {i}
    BY <2>1, ToSetIndex
  <2>6. \A a, b : Precedes(q, a, b) => Precedes(w, a, b)
    BY <2>1 DEF Precedes
  <2> QED
    BY <2>1, <2>2, <2>4, <2>5, <2>6
<1> QED
  BY <1>1, <1>2

\* An order of a finite set of issues holds each of them once.
LEMMA OrderEntries ==
  ASSUME NEW S, IsFiniteSet(S), NEW s \in Orders(S)
  PROVE  s \in Seq(S) /\ Distinct(s) /\ ToSet(s) = S
<1> DEFINE n == Cardinality(S)
<1>1. n \in Nat
  BY FS_CardinalityType
<1>2. IsFiniteSet(1..n) /\ Cardinality(1..n) = n
  BY <1>1, FS_Interval
<1>3. s \in Injection(1..n, S)
  BY DEF Orders, Injection
<1>4. s \in Surjection(1..n, S)
  BY <1>2, <1>3, FS_Injection
<1>5. s \in [1..n -> S] /\ \A x \in S : \E k \in 1..n : s[k] = x
  BY <1>4 DEF Surjection
<1> HIDE DEF n
<1>6. s \in Seq(S) /\ Len(s) = n /\ DOMAIN s = 1..n
  BY <1>1, <1>5
<1>7. Distinct(s)
  BY <1>3, <1>6 DEF Distinct, Injection, IsInjective
<1>8. \A x : x \in ToSet(s) <=> x \in S
  BY <1>5, <1>6, ToSetIndex
<1> QED
  BY <1>6, <1>7, <1>8

\* The issues that stay in a line stay in their order.
KeepsOrder(q, w) ==
  \A i, j : Precedes(q, i, j) /\ i \in ToSet(w) /\ j \in ToSet(w) => Precedes(w, i, j)

LEMMA FrontPrecedes ==
  ASSUME NEW S, NEW q \in Seq(S), NEW x \in S, Distinct(<<x>> \o q), NEW i, NEW j
  PROVE  Precedes(<<x>> \o q, i, j) <=> \/ i = x /\ j \in ToSet(q)
                                        \/ Precedes(q, i, j)
<1> DEFINE w == <<x>> \o q
<1>1. /\ Len(w) = Len(q) + 1 /\ Len(q) \in Nat
      /\ w[1] = x /\ \A k \in 1..Len(q) : w[k + 1] = q[k]
  OBVIOUS
<1> HIDE DEF w
<1>2. ASSUME Precedes(w, i, j) PROVE (i = x /\ j \in ToSet(q)) \/ Precedes(q, i, j)
  <2>1. PICK m \in 1..Len(w), n \in 1..Len(w) : m < n /\ w[m] = i /\ w[n] = j
    BY <1>2 DEF Precedes
  <2>2. n - 1 \in 1..Len(q) /\ q[n - 1] = j
    BY <1>1, <2>1
  <2>3. CASE m = 1
    BY <1>1, <2>1, <2>2, <2>3, ToSetIndex
  <2>4. CASE m # 1
    <3>1. m - 1 \in 1..Len(q) /\ q[m - 1] = i /\ m - 1 < n - 1
      BY <1>1, <2>1, <2>4
    <3> QED
      BY <2>2, <3>1 DEF Precedes
  <2> QED
    BY <2>3, <2>4
<1>3. ASSUME i = x, j \in ToSet(q) PROVE Precedes(w, i, j)
  <2>1. PICK k \in 1..Len(q) : q[k] = j
    BY <1>3, ToSetIndex
  <2>2. 1 \in 1..Len(w) /\ k + 1 \in 1..Len(w) /\ 1 < k + 1 /\ w[k + 1] = j
    BY <1>1, <2>1
  <2> QED
    BY <1>1, <1>3, <2>2 DEF Precedes
<1>4. ASSUME Precedes(q, i, j) PROVE Precedes(w, i, j)
  <2>1. PICK m \in 1..Len(q), n \in 1..Len(q) : m < n /\ q[m] = i /\ q[n] = j
    BY <1>4 DEF Precedes
  <2>2. /\ m + 1 \in 1..Len(w) /\ n + 1 \in 1..Len(w) /\ m + 1 < n + 1
        /\ w[m + 1] = i /\ w[n + 1] = j
    BY <1>1, <2>1
  <2> QED
    BY <2>2 DEF Precedes
<1> QED
  BY <1>2, <1>3, <1>4 DEF w

\* Taking the first away, or putting it back, keeps the order of the others.
LEMMA KeepsFront ==
  ASSUME NEW S, NEW q \in Seq(S), NEW w \in Seq(S), NEW x \in S,
         Distinct(q), Distinct(w), x \notin ToSet(q), x \notin ToSet(w),
         KeepsOrder(q, w)
  PROVE  KeepsOrder(<<x>> \o q, w) /\ KeepsOrder(<<x>> \o q, <<x>> \o w)
<1>1. /\ Distinct(<<x>> \o q)
      /\ Distinct(<<x>> \o w) /\ ToSet(<<x>> \o w) = ToSet(w) \cup {x}
  BY FrontEntries
<1>2. \A i, j : Precedes(<<x>> \o q, i, j) <=> (i = x /\ j \in ToSet(q)) \/ Precedes(q, i, j)
  BY <1>1, FrontPrecedes
<1>3. \A i, j : Precedes(<<x>> \o w, i, j) <=> (i = x /\ j \in ToSet(w)) \/ Precedes(w, i, j)
  BY <1>1, FrontPrecedes
<1>4. \A i, j : Precedes(q, i, j) => i \in ToSet(q) /\ j \in ToSet(q)
  BY ToSetIndex DEF Precedes
<1>5. KeepsOrder(<<x>> \o q, w)
  BY <1>2 DEF KeepsOrder
<1>6. KeepsOrder(<<x>> \o q, <<x>> \o w)
  BY <1>1, <1>2, <1>3, <1>4 DEF KeepsOrder
<1> QED
  BY <1>5, <1>6

LEMMA KeepsSame ==
  ASSUME NEW q
  PROVE  KeepsOrder(q, q)
BY DEF KeepsOrder

LEMMA KeepsWithout ==
  ASSUME NEW S, NEW q \in Seq(S), Distinct(q), NEW i
  PROVE  KeepsOrder(q, Without(q, i))
<1>1. /\ ToSet(Without(q, i)) = ToSet(q) \ {i}
      /\ \A a, b : a # i /\ b # i /\ Precedes(q, a, b) => Precedes(Without(q, i), a, b)
  BY WithoutEntries
<1> QED
  BY <1>1 DEF KeepsOrder

LEMMA EnlistBoth ==
  ASSUME NEW S, NEW q \in Seq(S), Distinct(q), NEW i \in S, NEW j \in S
  PROVE  /\ Enlist(Enlist(q, i), j) \in Seq(S) /\ Distinct(Enlist(Enlist(q, i), j))
         /\ ToSet(Enlist(Enlist(q, i), j)) = ToSet(q) \cup {i, j}
         /\ KeepsOrder(q, Enlist(Enlist(q, i), j))
<1>1. PICK w : w = Enlist(q, i)
  OBVIOUS
<1>2. /\ w \in Seq(S) /\ Distinct(w) /\ ToSet(w) = ToSet(q) \cup {i}
      /\ \A a, b : Precedes(q, a, b) => Precedes(w, a, b)
  BY <1>1, EnlistEntries
<1>3. w \in Seq(S) /\ Distinct(w)
  BY <1>2
<1>4. PICK x : x = Enlist(w, j)
  OBVIOUS
<1>5. /\ x \in Seq(S) /\ Distinct(x) /\ ToSet(x) = ToSet(w) \cup {j}
      /\ \A a, b : Precedes(w, a, b) => Precedes(x, a, b)
  BY <1>3, <1>4, EnlistEntries
<1>6. ToSet(x) = ToSet(q) \cup {i, j}
  BY <1>2, <1>5
<1>7. KeepsOrder(q, x)
  BY <1>2, <1>5 DEF KeepsOrder
<1> QED
  BY <1>1, <1>4, <1>5, <1>6, <1>7

\* A repaired queue keeps the order of the old one.
LEMMA KeepsRepaired ==
  ASSUME NEW t, NEW S, queue[t] \in Seq(S), Distinct(queue[t]), NEW s \in Repaired(t),
         IsFiniteSet(QueuedIn(t))
  PROVE  KeepsOrder(queue[t], s)
<1>1. s \in Seq(QueuedIn(t)) /\ Distinct(s)
  BY OrderEntries DEF Repaired
<1>2. \A m, n \in DOMAIN s :
        m < n /\ s[n] \in ToSet(queue[t]) => Precedes(queue[t], s[m], s[n])
  BY DEF Repaired
<1> SUFFICES ASSUME NEW i, NEW j, Precedes(queue[t], i, j), i \in ToSet(s), j \in ToSet(s)
             PROVE  Precedes(s, i, j)
  BY DEF KeepsOrder
<1>3. PICK m \in 1..Len(s), n \in 1..Len(s) : s[m] = i /\ s[n] = j
  BY <1>1, ToSetIndex
<1>4. i \in ToSet(queue[t])
  BY ToSetIndex DEF Precedes
<1>5. ~Precedes(queue[t], j, i) /\ i # j
  BY DEF Precedes, Distinct
<1>6. ~(n < m)
  BY <1>1, <1>2, <1>3, <1>4, <1>5
<1>7. m # n
  BY <1>3, <1>5
<1> QED
  BY <1>3, <1>6, <1>7 DEF Precedes

-----------------------------------------------------------------------------
(***************************************************************************)
(* What the queue holds                                                    *)
(*                                                                         *)
(* The inductive invariant: the queue of a thread holds, once each, the    *)
(* issues of the thread that are queued, save the one the pipeline has     *)
(* taken out and is preparing.  It needs to know which issues are past     *)
(* being queued: those a lock, a requested turn or a command names.        *)
(***************************************************************************)
PastIssues == {i \in Issues : status[i] \notin {"unborn", "staged", "queued"}}

TakenOut(t) ==
  IF lane[t]["queue"].pc \in {"stage", "ensure"} THEN {lane[t]["queue"].issue} ELSE {}
Sent(t) ==
  IF lane[t]["queue"].pc \in {"turn", "rebind"} THEN {lane[t]["queue"].issue} ELSE {}

PastInv ==
  /\ \A t \in Threads : /\ {active[t], activeP[t]} \ {NoIssue} \subseteq PastIssues
                        /\ Sent(t) \subseteq PastIssues
  /\ \A h \in Handlers :
       /\ ~cmd[h].wasQueued /\ cmd[h].op # "restage"
       /\ cmd[h].op \in {"interrupt", "unlock", "stop"} => cmd[h].issue \in PastIssues

LineInv ==
  \A t \in Threads :
    /\ Distinct(queue[t])
    /\ ToSet(queue[t]) = QueuedIn(t) \ TakenOut(t)
    /\ \A i \in TakenOut(t) : i \in Own(t) /\ status[i] \notin {"unborn", "staged"}

LineHyp == TypeOK /\ LockInv /\ PastInv /\ LineInv

\* Statuses move only among those past being queued.
PastMoves ==
  \A i \in Issues : status'[i] = status[i] \/ (i \in PastIssues /\ i \in PastIssues')

SameTaken == \A t \in Threads : TakenOut(t)' = TakenOut(t)

LEMMA SteadyLine ==
  ASSUME LineInv, PastMoves, UNCHANGED queue, SameTaken
  PROVE  LineInv'
<1> SUFFICES ASSUME NEW t \in Threads
             PROVE  /\ Distinct(queue'[t])
                    /\ ToSet(queue'[t]) = QueuedIn(t)' \ TakenOut(t)'
                    /\ \A i \in TakenOut(t)' :
                         i \in Own(t) /\ status'[i] \notin {"unborn", "staged"}
  BY DEF LineInv, Own
<1>1. QueuedIn(t)' = QueuedIn(t)
  BY DEF PastMoves, QueuedIn, PastIssues
<1>2. TakenOut(t)' = TakenOut(t)
  BY DEF SameTaken
<1>3. /\ Distinct(queue[t])
      /\ ToSet(queue[t]) = QueuedIn(t) \ TakenOut(t)
      /\ \A i \in TakenOut(t) : i \in Own(t) /\ status[i] \notin {"unborn", "staged"}
  BY DEF LineInv
<1>4. \A i \in TakenOut(t) : status'[i] \notin {"unborn", "staged"}
  BY <1>3 DEF PastMoves, PastIssues, Own
<1> QED
  BY <1>1, <1>2, <1>3, <1>4

LEMMA PastMovesKept ==
  ASSUME PastMoves
  PROVE  PastIssues \subseteq PastIssues'
BY DEF PastMoves, PastIssues

LEMMA PatchedMoves ==
  ASSUME StatusOK, NEW i, i \in PastIssues \/ i \notin Issues, 
         NEW s \in Statuses \ {"unborn", "staged", "queued"}, status' = Patched(i, s)
  PROVE  PastMoves
<1>1. CASE HasCard(i)
  <2>1. i \in PastIssues
    BY <1>1 DEF HasCard
  <2>2. status' = [status EXCEPT ![i] = s]
    BY <1>1 DEF Patched
  <2>3. ASSUME NEW j \in Issues, j # i PROVE status'[j] = status[j]
    BY <2>2, <2>3 DEF StatusOK
  <2>4. i \in Issues /\ status'[i] = s
    BY <2>1, <2>2 DEF StatusOK, PastIssues
  <2>5. i \in PastIssues'
    BY <2>4 DEF PastIssues
  <2> QED
    BY <2>1, <2>3, <2>5 DEF PastMoves
<1>2. CASE ~HasCard(i)
  BY <1>2 DEF PastMoves, Patched
<1> QED
  BY <1>1, <1>2

LEMMA SameStatusMoves ==
  ASSUME UNCHANGED status
  PROVE  PastMoves
BY DEF PastMoves

\* Locks that name an issue that was named before, or one that runs.
PastNames ==
  \A t \in Threads : {active'[t], activeP'[t]} \ {NoIssue} \subseteq PastIssues

PastSent == \A t \in Threads : Sent(t)' \subseteq PastIssues

PastCommands ==
  \A h \in Handlers :
    /\ ~cmd'[h].wasQueued /\ cmd'[h].op # "restage"
    /\ cmd'[h].op \in {"interrupt", "unlock", "stop"} => cmd'[h].issue \in PastIssues

LEMMA SteadyPast ==
  ASSUME PastInv, PastIssues \subseteq PastIssues', PastNames, PastSent, PastCommands
  PROVE  PastInv'
BY DEF PastInv, PastNames, PastSent, PastCommands

LEMMA SameNamesPast ==
  ASSUME PastInv, UNCHANGED <<active, activeP>>
  PROVE  PastNames
BY DEF PastInv, PastNames

LEMMA SameCommandsPast ==
  ASSUME PastInv, UNCHANGED cmd
  PROVE  PastCommands
BY DEF PastInv, PastCommands

LEMMA FreezeNothing ==
  ASSUME PastInv, CmdOK, NEW t
  PROVE  Freeze(t) = cmd
BY DEF PastInv, CmdOK, Freeze

LEMMA SameLanesPast ==
  ASSUME PastInv, UNCHANGED lane
  PROVE  PastSent /\ SameTaken
BY DEF PastInv, PastSent, SameTaken, Sent, TakenOut

\* A command that ends.
LEMMA NoCmdPast ==
  ASSUME PastInv, CmdOK, NEW h \in Handlers, cmd' = [cmd EXCEPT ![h] = NoCmd]
  PROVE  PastCommands
<1> SUFFICES ASSUME NEW g \in Handlers
             PROVE  /\ ~cmd'[g].wasQueued /\ cmd'[g].op # "restage"
                    /\ cmd'[g].op \in {"interrupt", "unlock", "stop"} =>
                         cmd'[g].issue \in PastIssues
  BY DEF PastCommands
<1>1. CASE g = h
  BY <1>1 DEF CmdOK, NoCmd
<1>2. CASE g # h
  BY <1>2 DEF CmdOK, PastInv
<1> QED
  BY <1>1, <1>2

LEMMA ClearedPNames ==
  ASSUME ActiveOK, NEW t \in Threads, NEW p \in Threads
  PROVE  ClearedP(t)[p] \in {NoIssue, activeP[p]}
BY DEF ClearedP

LEMMA ReleasedNames ==
  ASSUME ActiveOK, PastInv, NEW t \in Threads,
         active' = [active EXCEPT ![t] = NoIssue],
         activeP' \in {ClearedP(t), [ClearedP(t) EXCEPT ![t] = NoIssue]}
  PROVE  PastNames
<1> SUFFICES ASSUME NEW p \in Threads
             PROVE  {active'[p], activeP'[p]} \ {NoIssue} \subseteq PastIssues
  BY DEF PastNames
<1>1. active'[p] \in {NoIssue, active[p]}
  BY DEF ActiveOK
<1>2. activeP'[p] \in {NoIssue, activeP[p]}
  BY ClearedPNames, ClearedPType
<1> QED
  BY <1>1, <1>2 DEF PastInv

LEMMA AdoptablePast ==
  ASSUME NEW t, NEW a, a \in PastIssues \cup {NoIssue}, NEW b \in Adoptable(t, a)
  PROVE  b \in PastIssues \cup {NoIssue}
BY DEF Adoptable, RunningIn, PastIssues, LiveStatuses

LEMMA AdoptNames ==
  ASSUME ActiveOK, PastInv, NEW t \in Threads, NEW a \in Adoptable(t, active[t]),
         active' = [active EXCEPT ![t] = a], UNCHANGED activeP
  PROVE  PastNames
<1>1. a \in PastIssues \cup {NoIssue}
  BY AdoptablePast DEF PastInv
<1> QED
  BY <1>1 DEF ActiveOK, PastInv, PastNames

LEMMA TrackedNames ==
  ASSUME ActiveOK, PastInv, NEW t \in Threads, NEW a \in Tracked(t),
         active' = [active EXCEPT ![t] = a], activeP' = ClearInvalidP(t)
  PROVE  PastNames /\ a \in PastIssues \cup {NoIssue}
<1>1. a \in PastIssues \cup {NoIssue}
  BY AdoptablePast DEF PastInv, Tracked
<1>2. \A p \in Threads : activeP'[p] \in {NoIssue, activeP[p]}
  BY ClearedPNames DEF ClearInvalidP
<1>3. \A p \in Threads : active'[p] \in {a, active[p]}
  BY DEF ActiveOK
<1> QED
  BY <1>1, <1>2, <1>3 DEF PastInv, PastNames

LEMMA SetQueueLane ==
  ASSUME LaneOK, NEW t \in Threads, NEW rec, SetLane(t, "queue", rec)
  PROVE  /\ lane'[t]["queue"] = rec
         /\ \A p \in Threads : p # t => lane'[p] = lane[p]
BY DEF SetLane, LaneOK, Lanes

\* A lane that moves outside the preparation of a start.
LEMMA MovedLanePast ==
  ASSUME LaneOK, PastInv, NEW t \in Threads, NEW rec, SetLane(t, "queue", rec),
         rec.pc \in {"turn", "rebind"} => rec.issue \in PastIssues
  PROVE  PastSent
BY SetQueueLane DEF PastInv, PastSent, Sent

LEMMA MovedLaneTaken ==
  ASSUME LaneOK, NEW t \in Threads, NEW rec, SetLane(t, "queue", rec),
         rec.pc \notin {"stage", "ensure"}, lane[t]["queue"].pc \notin {"stage", "ensure"}
  PROVE  SameTaken
BY SetQueueLane DEF SameTaken, TakenOut

\* The positions a lane takes when it does not carry an issue.
LEMMA RestingLane ==
  ASSUME LaneOK, NEW t \in Threads, NEW rec,
         \/ rec = IdleLane
         \/ rec = Returned(t, "queue")
         \/ \E mode : rec = [IdleLane EXCEPT !.pc = "once", !.mode = mode]
         \/ rec = [IdleLane EXCEPT !.pc = "list", !.mode = "nested"]
         \/ rec = [lane[t]["queue"] EXCEPT !.pc = "once"]
  PROVE  rec.pc \notin {"stage", "ensure", "turn", "rebind"}
<1>1. [lane[t]["queue"] EXCEPT !.pc = "once"].pc = "once"
  BY DEF LaneOK, Lanes, LaneRecords
<1>2. /\ IdleLane.pc = "idle"
      /\ Returned(t, "queue").pc = "loop"
      /\ \A mode : [IdleLane EXCEPT !.pc = "once", !.mode = mode].pc = "once"
      /\ [IdleLane EXCEPT !.pc = "list", !.mode = "nested"].pc = "list"
  BY DEF IdleLane, Returned
<1> QED
  BY <1>1, <1>2

LEMMA RestPast ==
  ASSUME LaneOK, PastInv, NEW t \in Threads, NEW rec, SetLane(t, "queue", rec),
         rec.pc \notin {"stage", "ensure", "turn", "rebind"}
  PROVE  /\ PastSent
         /\ lane[t]["queue"].pc \notin {"stage", "ensure"} => SameTaken
         /\ TakenOut(t)' = {}
         /\ \A p \in Threads : p # t => TakenOut(p)' = TakenOut(p)
<1>1. PastSent
  BY MovedLanePast
<1>2. lane[t]["queue"].pc \notin {"stage", "ensure"} => SameTaken
  BY MovedLaneTaken
<1>3. lane'[t]["queue"] = rec /\ \A p \in Threads : p # t => lane'[p] = lane[p]
  BY SetQueueLane
<1> QED
  BY <1>1, <1>2, <1>3 DEF TakenOut

OrderKept == \A t \in Threads : KeepsOrder(Line(t), Line(t)')

LEMMA LineForm ==
  ASSUME NEW S, NEW t, queue[t] \in Seq(S)
  PROVE  /\ TakenOut(t) = {} => Line(t) = queue[t]
         /\ \A x : TakenOut(t) = {x} => Line(t) = <<x>> \o queue[t]
<1>1. <<>> \o queue[t] = queue[t]
  OBVIOUS
<1> QED
  BY <1>1 DEF Line, TakenOut

LEMMA LineFormNext ==
  ASSUME NEW S, NEW t, queue'[t] \in Seq(S)
  PROVE  /\ TakenOut(t)' = {} => Line(t)' = queue'[t]
         /\ \A x : TakenOut(t)' = {x} => Line(t)' = <<x>> \o queue'[t]
<1>1. <<>> \o queue'[t] = queue'[t]
  OBVIOUS
<1> QED
  BY <1>1 DEF Line, TakenOut

LEMMA SameLine ==
  ASSUME NEW t, TakenOut(t)' = TakenOut(t), queue'[t] = queue[t]
  PROVE  Line(t)' = Line(t)
BY DEF Line, TakenOut

\* A queue that keeps its order, behind the same issue or behind none.
LEMMA OneOrder ==
  ASSUME LineInv, QueueOK, NEW t \in Threads,
         \A p \in Threads : p # t => queue'[p] = queue[p] /\ TakenOut(p)' = TakenOut(p),
         queue'[t] \in Seq(Issues), Distinct(queue'[t]),
         TakenOut(t) \cap (ToSet(queue[t]) \cup ToSet(queue'[t])) = {},
         TakenOut(t)' \in {{}, TakenOut(t)},
         KeepsOrder(queue[t], queue'[t])
  PROVE  OrderKept
<1>1. ASSUME NEW p \in Threads, p # t PROVE KeepsOrder(Line(p), Line(p)')
  <2>1. Line(p)' = Line(p)
    BY <1>1, SameLine
  <2> QED
    BY <2>1, KeepsSame
<1>2. KeepsOrder(Line(t), Line(t)')
  <2>1. queue[t] \in Seq(Issues) /\ Distinct(queue[t])
    BY DEF QueueOK, LineInv
  <2>2. CASE TakenOut(t) = {}
    BY <2>1, <2>2, LineForm, LineFormNext
  <2>3. CASE TakenOut(t) # {}
    <3>1. PICK x \in Issues : TakenOut(t) = {x}
      BY <2>3 DEF TakenOut, LineInv, Own
    <3>2. x \notin ToSet(queue[t]) /\ x \notin ToSet(queue'[t])
      BY <3>1
    <3>3. /\ KeepsOrder(<<x>> \o queue[t], queue'[t])
          /\ KeepsOrder(<<x>> \o queue[t], <<x>> \o queue'[t])
      BY <2>1, <3>2, KeepsFront
    <3> QED
      BY <2>1, <3>1, <3>3, LineForm, LineFormNext
  <2> QED
    BY <2>2, <2>3
<1> QED
  BY <1>1, <1>2 DEF OrderKept

\* A queue that stays, behind the same issue or behind none.
LEMMA SameQueueOrder ==
  ASSUME TypeOK, LineInv, NEW t \in Threads, UNCHANGED queue,
         \A p \in Threads : p # t => TakenOut(p)' = TakenOut(p),
         TakenOut(t)' \in {{}, TakenOut(t)}
  PROVE  OrderKept
<1>1. /\ queue[t] \in Seq(Issues) /\ Distinct(queue[t])
      /\ ToSet(queue[t]) = QueuedIn(t) \ TakenOut(t)
  BY DEF TypeOK, QueueOK, LineInv
<1> QED
  BY <1>1, KeepsSame, OneOrder DEF TypeOK

LEMMA SteadyKept ==
  ASSUME PastInv, LineInv, PastMoves, UNCHANGED queue, SameTaken,
         PastNames, PastSent, PastCommands
  PROVE  PastInv' /\ LineInv' /\ OrderKept
<1>1. OrderKept
  BY SameLine, KeepsSame DEF SameTaken, OrderKept
<1> QED
  BY <1>1, SteadyLine, SteadyPast, PastMovesKept

\* A step on the queue of one thread.
LEMMA OneLine ==
  ASSUME LineInv, NEW t \in Threads,
         \A i \in Issues : ThreadOf[i] # t => status'[i] = status[i],
         \A p \in Threads : p # t => queue'[p] = queue[p] /\ TakenOut(p)' = TakenOut(p),
         Distinct(queue'[t]),
         ToSet(queue'[t]) = QueuedIn(t)' \ TakenOut(t)',
         \A i \in TakenOut(t)' : i \in Own(t) /\ status'[i] \notin {"unborn", "staged"}
  PROVE  LineInv'
<1> SUFFICES ASSUME NEW p \in Threads
             PROVE  /\ Distinct(queue'[p])
                    /\ ToSet(queue'[p]) = QueuedIn(p)' \ TakenOut(p)'
                    /\ \A i \in TakenOut(p)' :
                         i \in Own(p) /\ status'[i] \notin {"unborn", "staged"}
  BY DEF LineInv, Own
<1>1. CASE p = t
  BY <1>1
<1>2. CASE p # t
  <2>1. QueuedIn(p)' = QueuedIn(p)
    BY <1>2 DEF QueuedIn
  <2>2. \A i \in Own(p) : status'[i] = status[i]
    BY <1>2 DEF Own
  <2>3. /\ Distinct(queue[p])
        /\ ToSet(queue[p]) = QueuedIn(p) \ TakenOut(p)
        /\ \A i \in TakenOut(p) : i \in Own(p) /\ status[i] \notin {"unborn", "staged"}
    BY DEF LineInv
  <2> QED
    BY <1>2, <2>1, <2>2, <2>3
<1> QED
  BY <1>1, <1>2

LEMMA QueueFacts ==
  ASSUME TypeOK, LineInv, NEW t \in Threads
  PROVE  /\ queue[t] \in Seq(Issues)
         /\ queue[t] \in Seq(Own(t))
         /\ Distinct(queue[t])
         /\ ToSet(queue[t]) = QueuedIn(t) \ TakenOut(t)
         /\ \A q : queue' = [queue EXCEPT ![t] = q] =>
              /\ queue'[t] = q
              /\ \A p \in Threads : p # t => queue'[p] = queue[p]
BY DEF TypeOK, QueueOK, LineInv

-----------------------------------------------------------------------------
(***************************************************************************)
(* Each operation keeps PastInv and LineInv                                *)
(***************************************************************************)
LEMMA CreateLine ==
  ASSUME LineHyp, NEW i \in Issues, CreateThreadIssue(i)
  PROVE  PastInv' /\ LineInv' /\ OrderKept
<1> USE DEF LineHyp, TypeOK, CreateThreadIssue
<1>1. /\ status[i] = "unborn" /\ status'[i] = "staged"
      /\ \A j \in Issues : j # i => status'[j] = status[j]
  BY DEF StatusOK
<1>2. PastIssues \subseteq PastIssues'
  BY <1>1 DEF PastIssues
<1>3. PastInv'
  BY <1>2, SteadyPast, SameNamesPast, SameCommandsPast, SameLanesPast
<1>4. LineInv'
  <2>1. ThreadOf[i] \in Threads
    BY ThreadAssumption
  <2>2. QueuedIn(ThreadOf[i])' = QueuedIn(ThreadOf[i])
    BY <1>1 DEF QueuedIn
  <2>3. \A t \in Threads : TakenOut(t)' = TakenOut(t)
    BY SameLanesPast DEF SameTaken
  <2>4. \A j \in TakenOut(ThreadOf[i]) : j \in Own(ThreadOf[i]) /\ j # i
    BY <1>1, <2>1 DEF LineInv
  <2> QED
    BY <1>1, <2>1, <2>2, <2>3, <2>4, OneLine DEF LineInv, Own
<1>5. OrderKept
  BY SameLanesPast, SameLine, KeepsSame DEF SameTaken, OrderKept
<1> QED
  BY <1>3, <1>4, <1>5

LEMMA StartThreadIssuesLine ==
  ASSUME LineHyp, NEW t \in Threads, NEW i \in Issues, NEW j \in Issues,
         StartThreadIssues(t, i, j)
  PROVE  PastInv' /\ LineInv' /\ OrderKept
<1> USE DEF LineHyp, StartThreadIssues
<1>1. /\ status[i] = "staged" /\ status[j] = "staged"
      /\ status'[i] = "queued" /\ status'[j] = "queued"
      /\ \A k \in Issues : k # i /\ k # j => status'[k] = status[k]
  BY DEF TypeOK, StatusOK, Eligible
<1>2. PastIssues \subseteq PastIssues'
  BY <1>1 DEF PastIssues
<1>3. PastInv'
  BY <1>2, SteadyPast, SameNamesPast, SameCommandsPast, SameLanesPast
<1>4. \A p \in Threads : TakenOut(p)' = TakenOut(p)
  BY SameLanesPast DEF SameTaken
<1>5. \A k \in TakenOut(t) : k \in Own(t) /\ status[k] \notin {"unborn", "staged"}
  BY DEF LineInv
<1> DEFINE q == Enlist(Enlist(queue[t], i), j)
<1>6. /\ q \in Seq(Issues) /\ Distinct(q)
      /\ ToSet(q) = ToSet(queue[t]) \cup {i, j}
      /\ KeepsOrder(queue[t], q)
  BY QueueFacts, EnlistBoth
<1>7. queue'[t] = q /\ \A p \in Threads : p # t => queue'[p] = queue[p]
  BY QueueFacts
<1> HIDE DEF q
<1>8. QueuedIn(t)' = QueuedIn(t) \cup {i, j}
  BY <1>1 DEF QueuedIn
<1>9. i \notin TakenOut(t) /\ j \notin TakenOut(t)
  BY <1>1, <1>5
<1>10. ToSet(queue[t]) = QueuedIn(t) \ TakenOut(t)
  BY QueueFacts
<1>11. ToSet(queue'[t]) = QueuedIn(t)' \ TakenOut(t)'
  BY <1>4, <1>6, <1>7, <1>8, <1>9, <1>10
<1>12. \A k \in TakenOut(t)' : k \in Own(t) /\ status'[k] \notin {"unborn", "staged"}
  BY <1>1, <1>4, <1>5 DEF Own
<1>13. \A k \in Issues : ThreadOf[k] # t => status'[k] = status[k]
  BY <1>1
<1>14. LineInv'
  BY <1>4, <1>6, <1>7, <1>11, <1>12, <1>13, OneLine
<1>15. OrderKept
  <2>1. TakenOut(t) \cap (ToSet(queue[t]) \cup ToSet(queue'[t])) = {}
    BY <1>4, <1>10, <1>11
  <2> QED
    BY <1>4, <1>6, <1>7, <2>1, OneOrder DEF TypeOK
<1> QED
  BY <1>3, <1>14, <1>15

\* The issue a client wants in front.
LEMMA ReorderLine ==
  ASSUME LineHyp, NEW t \in Threads, NEW i \in Issues, ReorderThreadIssues(t, i)
  PROVE  PastInv' /\ LineInv'
<1> USE DEF LineHyp, ReorderThreadIssues
<1>1. cmd' = cmd
  BY FreezeNothing DEF TypeOK
<1>2. PastInv'
  BY <1>1, SteadyPast, SameNamesPast, SameCommandsPast, SameLanesPast DEF PastIssues
<1>3. SameTaken
  BY SameLanesPast
<1> DEFINE q == Without(queue[t], i)
<1>4. q \in Seq(Issues) /\ Distinct(q) /\ ToSet(q) = ToSet(queue[t]) \ {i}
  BY QueueFacts, WithoutEntries
<1> HIDE DEF q
<1>5. Distinct(<<i>> \o q) /\ ToSet(<<i>> \o q) = ToSet(queue[t])
  <2>1. i \notin ToSet(q) /\ i \in ToSet(queue[t])
    BY <1>4
  <2>2. Distinct(<<i>> \o q) /\ ToSet(<<i>> \o q) = ToSet(q) \cup {i}
    BY <1>4, <2>1, FrontEntries
  <2> QED
    BY <1>4, <2>1, <2>2
<1>6. queue'[t] = <<i>> \o q /\ \A p \in Threads : p # t => queue'[p] = queue[p]
  BY QueueFacts DEF q
<1>7. QueuedIn(t)' = QueuedIn(t)
  BY DEF QueuedIn
<1>8. ToSet(queue'[t]) = QueuedIn(t)' \ TakenOut(t)'
  BY <1>3, <1>5, <1>6, <1>7, QueueFacts DEF SameTaken
<1>9. \A k \in TakenOut(t)' : k \in Own(t) /\ status'[k] \notin {"unborn", "staged"}
  BY <1>3 DEF SameTaken, LineInv
<1>10. UNCHANGED status
  OBVIOUS
<1> QED
  BY <1>2, <1>3, <1>5, <1>6, <1>8, <1>9, <1>10, OneLine DEF SameTaken

\* Starting to drain the queue of a thread whose lock is free.
LEMMA RequestPast ==
  ASSUME LineHyp, NEW t \in Threads, NEW mode, RequestProcessing(t, mode)
  PROVE  PastSent /\ SameTaken
<1> USE DEF LineHyp
<1>1. CASE Busy(t)
  BY <1>1, SameLanesPast DEF RequestProcessing
<1>2. CASE ~Busy(t)
  <2>1. SetLane(t, "queue", [IdleLane EXCEPT !.pc = "once", !.mode = mode])
    BY <1>2 DEF RequestProcessing
  <2>2. lane[t]["queue"].pc = "idle"
    BY <1>2 DEF Busy
  <2> QED
    BY <2>1, <2>2, RestingLane, RestPast DEF TypeOK
<1> QED
  BY <1>1, <1>2

LEMMA QueueStepLine ==
  ASSUME LineHyp, NEW t \in Threads,
         ScheduleQueue(t) \/ ProcessIssueQueue(t) \/ LoopProcessIssueQueue(t)
  PROVE  PastInv' /\ LineInv' /\ OrderKept
<1> USE DEF LineHyp
<1>1. UNCHANGED <<status, queue, activeP, cmd>>
  BY DEF ScheduleQueue, ProcessIssueQueue, LoopProcessIssueQueue
<1>2. PastMoves /\ PastCommands
  BY <1>1, SameStatusMoves, SameCommandsPast
<1>3. PastNames /\ PastSent /\ SameTaken
  <2>1. CASE ScheduleQueue(t)
    <3>1. CASE queue[t] = <<>>
      BY <2>1, <3>1, SameNamesPast, SameLanesPast DEF ScheduleQueue
    <3>2. CASE queue[t] # <<>>
      <4>1. PICK a \in Adoptable(t, active[t]) :
              /\ active' = [active EXCEPT ![t] = a]
              /\ IF a = NoIssue
                 THEN RequestProcessing(t, "recover")
                 ELSE UNCHANGED <<lane, rerun>>
        BY <2>1, <3>2 DEF ScheduleQueue
      <4> QED
        BY <1>1, <4>1, AdoptNames, RequestPast, SameLanesPast DEF TypeOK
    <3> QED
      BY <3>1, <3>2
  <2>2. CASE ProcessIssueQueue(t)
    BY <2>2, SameNamesPast, RequestPast DEF ProcessIssueQueue
  <2>3. CASE LoopProcessIssueQueue(t)
    <3>1. /\ lane[t]["queue"].pc = "loop"
          /\ \/ SetLane(t, "queue", [lane[t]["queue"] EXCEPT !.pc = "once"])
             \/ SetLane(t, "queue", IdleLane)
      BY <2>3 DEF LoopProcessIssueQueue
    <3>2. PastSent /\ SameTaken
      BY <3>1, RestingLane, RestPast DEF TypeOK
    <3> QED
      BY <2>3, <3>2, SameNamesPast DEF LoopProcessIssueQueue
  <2> QED
    BY <2>1, <2>2, <2>3
<1> QED
  BY <1>1, <1>2, <1>3, SteadyKept

\* The first of the queue is taken out to be prepared.
LEMMA ProcessIssueQueueOnceLine ==
  ASSUME LineHyp, NEW t \in Threads, NEW l \in Lanes, ProcessIssueQueueOnce(t, l)
  PROVE  PastInv' /\ LineInv' /\ OrderKept
<1> USE DEF LineHyp
<1>1. l = "queue" /\ lane[t]["queue"].pc = "once"
  BY QueueLane DEF ProcessIssueQueueOnce
<1>2. PICK a \in Adoptable(t, active[t]) :
        /\ active' = [active EXCEPT ![t] = a]
        /\ IF MayShift(t, a)
           THEN /\ queue' = [queue EXCEPT ![t] = Tail(queue[t])]
                /\ SetLane(t, l, [lane[t][l] EXCEPT !.pc = "stage",
                                    !.issue = Head(queue[t]),
                                    !.found = HasCard(Head(queue[t]))])
           ELSE SetLane(t, l, Returned(t, l)) /\ UNCHANGED queue
  BY DEF ProcessIssueQueueOnce
<1>3. PastMoves /\ PastNames /\ PastCommands
  BY <1>2, SameStatusMoves, AdoptNames, SameCommandsPast DEF ProcessIssueQueueOnce, TypeOK
<1>4. CASE MayShift(t, a)
  <2> DEFINE rec == [lane[t]["queue"] EXCEPT !.pc = "stage", !.issue = Head(queue[t]),
                                              !.found = HasCard(Head(queue[t]))]
  <2>1. lane[t]["queue"] \in LaneRecords(t)
    BY DEF TypeOK, LaneOK, Lanes
  <2>2. rec.pc = "stage" /\ rec.issue = Head(queue[t])
    BY <2>1 DEF LaneRecords
  <2>3. SetLane(t, "queue", rec)
    BY <1>1, <1>2, <1>4
  <2> HIDE DEF rec
  <2>4. PastSent
    BY <2>2, <2>3, MovedLanePast DEF TypeOK
  <2>5. lane'[t]["queue"] = rec /\ \A p \in Threads : p # t => lane'[p] = lane[p]
    BY <2>3, SetQueueLane DEF TypeOK
  <2>6. /\ TakenOut(t) = {} /\ TakenOut(t)' = {Head(queue[t])}
        /\ \A p \in Threads : p # t => TakenOut(p)' = TakenOut(p)
    BY <1>1, <2>2, <2>5 DEF TakenOut
  <2>7. queue[t] # <<>>
    BY <1>4 DEF MayShift
  <2>8. /\ Distinct(Tail(queue[t]))
        /\ Head(queue[t]) \in ToSet(queue[t])
        /\ ToSet(Tail(queue[t])) = ToSet(queue[t]) \ {Head(queue[t])}
    BY <2>7, QueueFacts, TailEntries
  <2>9. /\ queue'[t] = Tail(queue[t])
        /\ \A p \in Threads : p # t => queue'[p] = queue[p]
    BY <1>2, <1>4, QueueFacts
  <2>10. UNCHANGED status
    BY DEF ProcessIssueQueueOnce
  <2>11. QueuedIn(t)' = QueuedIn(t) /\ ToSet(queue[t]) = QueuedIn(t)
    BY <2>6, <2>10, QueueFacts DEF QueuedIn
  <2>12. ToSet(queue'[t]) = QueuedIn(t)' \ TakenOut(t)'
    BY <2>6, <2>8, <2>9, <2>11
  <2>13. \A k \in TakenOut(t)' : k \in Own(t) /\ status'[k] \notin {"unborn", "staged"}
    BY <2>6, <2>8, <2>10, <2>11 DEF QueuedIn, Own
  <2>14. LineInv'
    BY <2>6, <2>8, <2>9, <2>10, <2>12, <2>13, OneLine
  <2>15. Line(t)' = Line(t)
    <3>1. Tail(queue[t]) \in Seq(Issues) /\ <<Head(queue[t])>> \o Tail(queue[t]) = queue[t]
      BY <2>7, QueueFacts
    <3> QED
      BY <2>6, <2>9, <3>1, QueueFacts, LineForm, LineFormNext
  <2>16. OrderKept
    BY <2>6, <2>9, <2>15, SameLine, KeepsSame DEF OrderKept
  <2> QED
    BY <1>3, <2>4, <2>14, <2>16, SteadyPast, PastMovesKept
<1>5. CASE ~MayShift(t, a)
  <2>1. PastSent /\ SameTaken
    BY <1>1, <1>2, <1>5, RestingLane, RestPast DEF TypeOK
  <2> QED
    BY <1>2, <1>3, <1>5, <2>1, SteadyKept
<1> QED
  BY <1>4, <1>5

\* The issue that was prepared starts to run: it is past being queued now.
LEMMA BeginTurnLine ==
  ASSUME LineHyp, NEW t \in Threads, NEW b, BeginTurn(t, "queue", b),
         lane[t]["queue"].pc \in {"stage", "ensure"}, UNCHANGED <<queue, cmd>>
  PROVE  PastInv' /\ LineInv' /\ OrderKept
<1> USE DEF LineHyp
<1> DEFINE i == lane[t]["queue"].issue
           rec == [lane[t]["queue"] EXCEPT !.pc = "turn", !.bind = b]
<1>1. lane[t]["queue"] \in LaneRecords(t)
  BY DEF TypeOK, LaneOK, Lanes
<1>2. rec.pc = "turn" /\ rec.issue = i
  BY <1>1 DEF LaneRecords
<1>3. TakenOut(t) = {i} /\ i \in Own(t) /\ status[i] \notin {"unborn", "staged"}
  BY DEF TakenOut, LineInv
<1>4. /\ active' = [active EXCEPT ![t] = i]
      /\ activeP' = [activeP EXCEPT ![t] = i]
      /\ status' = Patched(i, "running")
      /\ SetLane(t, "queue", rec)
  BY DEF BeginTurn
<1> HIDE DEF i, rec
<1>5. lane'[t]["queue"] = rec /\ \A p \in Threads : p # t => lane'[p] = lane[p]
  BY <1>4, SetQueueLane DEF TypeOK
<1>6. /\ TakenOut(t)' = {}
      /\ Sent(t)' = {i}
      /\ \A p \in Threads : p # t => TakenOut(p)' = TakenOut(p) /\ Sent(p)' = Sent(p)
  BY <1>2, <1>5 DEF TakenOut, Sent
<1>7. /\ status'[i] \notin {"unborn", "staged", "queued"}
      /\ \A j \in Issues : j # i => status'[j] = status[j]
  BY <1>3, <1>4 DEF Patched, HasCard, TypeOK, StatusOK, Own
<1>8. PastIssues \subseteq PastIssues' /\ i \in PastIssues'
  BY <1>3, <1>7 DEF PastIssues, Own
<1>9. PastInv'
  <2>1. ASSUME NEW p \in Threads
        PROVE  /\ {active'[p], activeP'[p]} \ {NoIssue} \subseteq PastIssues'
               /\ Sent(p)' \subseteq PastIssues'
    <3>1. /\ {active[p], activeP[p]} \ {NoIssue} \subseteq PastIssues
          /\ Sent(p) \subseteq PastIssues
      BY DEF PastInv
    <3>2. active'[p] \in {i, active[p]} /\ activeP'[p] \in {i, activeP[p]}
      BY <1>4 DEF TypeOK, ActiveOK
    <3>3. Sent(p)' = {i} \/ Sent(p)' = Sent(p)
      BY <1>6
    <3> QED
      BY <1>8, <3>1, <3>2, <3>3
  <2>2. ASSUME NEW h \in Handlers
        PROVE  /\ ~cmd'[h].wasQueued /\ cmd'[h].op # "restage"
               /\ cmd'[h].op \in {"interrupt", "unlock", "stop"} =>
                    cmd'[h].issue \in PastIssues'
    BY <1>8 DEF PastInv
  <2> QED
    BY <2>1, <2>2 DEF PastInv
<1>10. QueuedIn(t)' = QueuedIn(t) \ {i}
  BY <1>7 DEF QueuedIn
<1>11. ToSet(queue'[t]) = QueuedIn(t)' \ TakenOut(t)'
  BY <1>3, <1>6, <1>10, QueueFacts
<1>12. \A k \in Issues : ThreadOf[k] # t => status'[k] = status[k]
  BY <1>3, <1>7 DEF Own
<1>13. Distinct(queue'[t])
  BY QueueFacts
<1>14. LineInv'
  BY <1>6, <1>11, <1>12, <1>13, OneLine
<1>15. OrderKept
  BY <1>6, SameQueueOrder
<1> QED
  BY <1>9, <1>14, <1>15

LEMMA StageDoneLine ==
  ASSUME LineHyp, NEW t \in Threads, NEW l \in Lanes, StageDone(t, l) \/ EnsureDone(t, l)
  PROVE  PastInv' /\ LineInv' /\ OrderKept
<1> USE DEF LineHyp
<1>1. l = "queue" /\ lane[t]["queue"].pc \in {"stage", "ensure"} /\ UNCHANGED <<queue, cmd>>
  BY QueueLane DEF StageDone, EnsureDone
<1>2. CASE \E b : BeginTurn(t, l, b)
  BY <1>1, <1>2, BeginTurnLine
<1>3. CASE StageDone(t, l) /\ codex[t] = 0
  <2> DEFINE rec == [lane[t]["queue"] EXCEPT !.pc = "ensure"]
  <2>1. lane[t]["queue"] \in LaneRecords(t)
    BY DEF TypeOK, LaneOK, Lanes
  <2>2. rec.pc = "ensure" /\ rec.issue = lane[t]["queue"].issue
    BY <2>1 DEF LaneRecords
  <2>3. SetLane(t, "queue", rec) /\ UNCHANGED <<status, active, activeP>>
    BY <1>1, <1>3 DEF StageDone
  <2> HIDE DEF rec
  <2>4. lane'[t]["queue"] = rec /\ \A p \in Threads : p # t => lane'[p] = lane[p]
    BY <2>3, SetQueueLane DEF TypeOK
  <2>5. SameTaken
    BY <1>1, <2>2, <2>4 DEF SameTaken, TakenOut
  <2>6. PastSent
    BY <2>2, <2>3, MovedLanePast DEF TypeOK
  <2> QED
    BY <1>1, <2>3, <2>5, <2>6, SameStatusMoves, SameNamesPast, SameCommandsPast, SteadyKept
<1> QED
  BY <1>2, <1>3 DEF StageDone, EnsureDone

\* A start that failed: an issue that is still queued goes back in front.
LEMMA StartThrowsLine ==
  ASSUME LineHyp, NEW t \in Threads, NEW l \in Lanes,
         \/ \E recoverable \in BOOLEAN : StartFails(t, l, recoverable)
         \/ StartMissing(t, l)
  PROVE  PastInv' /\ LineInv' /\ OrderKept
<1> USE DEF LineHyp
<1>1. l = "queue" /\ lane[t]["queue"].pc \in {"stage", "ensure", "rebind"}
  BY QueueLane DEF StartFails, StartMissing
<1>2. PICK recoverable \in BOOLEAN : StartThrows(t, "queue", recoverable)
  BY <1>1 DEF StartFails, StartMissing
<1>3. UNCHANGED <<status, active, activeP, cmd>>
  BY DEF StartFails, StartMissing
<1> DEFINE i == lane[t]["queue"].issue
           restore == HasCard(i) /\ status[i] \in {"queued", "staged"}
<1>4. /\ queue' = IF restore THEN [queue EXCEPT ![t] = Restored(t, i)] ELSE queue
      /\ \/ SetLane(t, "queue", Returned(t, "queue"))
         \/ SetLane(t, "queue", [IdleLane EXCEPT !.pc = "list", !.mode = "nested"])
         \/ SetLane(t, "queue", IdleLane)
  BY <1>2 DEF StartThrows
<1>5. PastSent /\ TakenOut(t)' = {} /\ \A p \in Threads : p # t => TakenOut(p)' = TakenOut(p)
  BY <1>4, RestingLane, RestPast DEF TypeOK
<1>6. PastInv'
  BY <1>3, <1>5, SameStatusMoves, PastMovesKept, SameNamesPast, SameCommandsPast, SteadyPast
<1>7. QueuedIn(t)' = QueuedIn(t)
  BY <1>3 DEF QueuedIn
<1>8. /\ Distinct(queue'[t]) /\ ToSet(queue'[t]) = QueuedIn(t)
      /\ \A p \in Threads : p # t => queue'[p] = queue[p]
      /\ queue' = queue \/ (queue'[t] = <<i>> \o queue[t] /\ TakenOut(t) = {i})
  <2>1. CASE restore
    <3>1. i \in TakenOut(t) /\ i \in Issues
      <4>1. i \notin PastIssues /\ i \in Issues
        BY <2>1 DEF PastIssues, HasCard
      <4>2. lane[t]["queue"].pc \in {"stage", "ensure"}
        BY <1>1, <4>1 DEF PastInv, Sent
      <4> QED
        BY <4>1, <4>2 DEF TakenOut
    <3>2. TakenOut(t) = {i} /\ i \in QueuedIn(t)
      BY <2>1, <3>1 DEF TakenOut, LineInv, Own, QueuedIn
    <3>3. i \notin ToSet(queue[t]) /\ ToSet(queue[t]) = QueuedIn(t) \ {i}
      BY <3>2, QueueFacts
    <3>4. Restored(t, i) = <<i>> \o queue[t]
      BY <3>3 DEF Restored
    <3>5. Distinct(<<i>> \o queue[t]) /\ ToSet(<<i>> \o queue[t]) = ToSet(queue[t]) \cup {i}
      BY <3>1, <3>3, QueueFacts, FrontEntries
    <3>6. /\ queue'[t] = <<i>> \o queue[t]
          /\ \A p \in Threads : p # t => queue'[p] = queue[p]
      BY <1>4, <2>1, <3>4, QueueFacts
    <3> QED
      BY <3>2, <3>3, <3>5, <3>6
  <2>2. CASE ~restore
    <3>1. \A k \in TakenOut(t) : k = i /\ k \in Own(t)
      BY DEF TakenOut, LineInv
    <3>2. \A k \in TakenOut(t) : status[k] # "queued"
      BY <2>2, <3>1 DEF HasCard, Own
    <3>3. QueuedIn(t) \ TakenOut(t) = QueuedIn(t)
      BY <3>2 DEF QueuedIn
    <3> QED
      BY <1>4, <2>2, <3>3, QueueFacts
  <2> QED
    BY <2>1, <2>2
<1>9. LineInv'
  BY <1>3, <1>5, <1>7, <1>8, OneLine
<1>10. OrderKept
  <2>1. CASE queue' = queue
    BY <1>5, <2>1, SameQueueOrder
  <2>2. CASE queue'[t] = <<i>> \o queue[t] /\ TakenOut(t) = {i}
    <3>1. i \in Issues
      BY <2>2 DEF LineInv, Own
    <3>2. <<i>> \o queue[t] \in Seq(Issues)
      BY <3>1, QueueFacts
    <3>3. Line(t)' = Line(t)
      BY <1>5, <2>2, <3>2, QueueFacts, LineForm, LineFormNext
    <3> QED
      BY <1>5, <1>8, <3>3, SameLine, KeepsSame DEF OrderKept
  <2> QED
    BY <1>8, <2>1, <2>2
<1> QED
  BY <1>6, <1>9, <1>10

\* The start that is under way: its answer, its failure, its second attempt.
LEMMA TurnLine ==
  ASSUME LineHyp, NEW t \in Threads, NEW l \in Lanes,
         \/ TurnResponds(t, l) \/ TurnStartFails(t, l)
         \/ TurnThreadNotFound(t, l) \/ RebindDone(t, l)
  PROVE  PastInv' /\ LineInv' /\ OrderKept
<1> USE DEF LineHyp
<1> DEFINE i == lane[t]["queue"].issue
<1>1. /\ l = "queue" /\ lane[t]["queue"].pc \in {"turn", "rebind"}
      /\ UNCHANGED <<queue, cmd>>
  BY QueueLane DEF TurnResponds, TurnStartFails, TurnThreadNotFound, RebindDone
<1>2. i \in PastIssues
  BY <1>1 DEF PastInv, Sent
<1>3. PastMoves
  <2>1. CASE TurnResponds(t, l)
    BY <1>1, <1>2, <2>1, PatchedMoves DEF TurnResponds, TypeOK, Statuses
  <2>2. CASE TurnStartFails(t, l)
    BY <1>1, <1>2, <2>2, PatchedMoves DEF TurnStartFails, TypeOK, Statuses
  <2>3. CASE TurnThreadNotFound(t, l) \/ RebindDone(t, l)
    BY <2>3, SameStatusMoves DEF TurnThreadNotFound, RebindDone
  <2> QED
    BY <2>1, <2>2, <2>3
<1>4. PastNames
  <2>1. CASE TurnStartFails(t, l)
    BY <2>1, ReleasedNames DEF TurnStartFails, TypeOK
  <2>2. CASE ~TurnStartFails(t, l)
    BY <2>2, SameNamesPast DEF TurnResponds, TurnThreadNotFound, RebindDone
  <2> QED
    BY <2>1, <2>2
<1>5. PICK rec : /\ SetLane(t, "queue", rec)
                 /\ rec.pc \notin {"stage", "ensure"}
                 /\ rec.pc \in {"turn", "rebind"} => rec.issue = i
  <2>1. lane[t]["queue"] \in LaneRecords(t)
    BY DEF TypeOK, LaneOK, Lanes
  <2>2. CASE TurnResponds(t, l) \/ TurnStartFails(t, l)
    <3>1. SetLane(t, "queue", Returned(t, "queue"))
      BY <1>1, <2>2 DEF TurnResponds, TurnStartFails
    <3> QED
      BY <3>1, RestingLane DEF TypeOK
  <2>3. CASE TurnThreadNotFound(t, l)
    <3> DEFINE r == [lane[t]["queue"] EXCEPT !.pc = "rebind", !.retried = TRUE]
    <3>1. SetLane(t, "queue", r)
      BY <1>1, <2>3 DEF TurnThreadNotFound
    <3>2. r.pc = "rebind" /\ r.issue = i
      BY <2>1 DEF LaneRecords
    <3> HIDE DEF r
    <3> QED
      BY <3>1, <3>2
  <2>4. CASE RebindDone(t, l)
    <3> DEFINE r == [lane[t]["queue"] EXCEPT !.pc = "turn", !.bind = bindings + 1]
    <3>1. SetLane(t, "queue", r)
      BY <1>1, <2>4 DEF RebindDone
    <3>2. r.pc = "turn" /\ r.issue = i
      BY <2>1 DEF LaneRecords
    <3> HIDE DEF r
    <3> QED
      BY <3>1, <3>2
  <2> QED
    BY <2>2, <2>3, <2>4
<1> HIDE DEF i
<1>6. PastSent
  BY <1>2, <1>5, MovedLanePast DEF TypeOK
<1>7. SameTaken
  BY <1>1, <1>5, MovedLaneTaken DEF TypeOK
<1> QED
  BY <1>1, <1>3, <1>4, <1>6, <1>7, SameCommandsPast, SteadyKept

\* The pipeline repairs the queue after a start that threw.
LEMMA NormalizeLine ==
  ASSUME LineHyp, NEW t \in Threads, NEW l \in Lanes,
         (\E refresh \in BOOLEAN : NormalizeListed(t, l, refresh)) \/ NormalizeFails(t, l)
  PROVE  PastInv' /\ LineInv' /\ OrderKept
<1> USE DEF LineHyp
<1>1. l = "queue" /\ lane[t]["queue"].pc = "list"
  BY QueueLane DEF NormalizeListed, NormalizeFails
<1>2. TakenOut(t) = {}
  BY <1>1 DEF TakenOut
<1>3. CASE NormalizeFails(t, l)
  <2>1. PastSent /\ SameTaken
    BY <1>1, <1>3, RestingLane, RestPast DEF NormalizeFails, TypeOK
  <2> QED
    BY <1>3, <2>1, SameStatusMoves, SameNamesPast, SameCommandsPast, SteadyKept
       DEF NormalizeFails
<1>4. ASSUME NEW refresh \in BOOLEAN, NormalizeListed(t, l, refresh)
      PROVE  PastInv' /\ LineInv' /\ OrderKept
  <2>1. PICK a \in Tracked(t) :
          /\ active' = [active EXCEPT ![t] = a]
          /\ IF a = NoIssue
             THEN Repair(t, "queue", refresh)
             ELSE SetLane(t, "queue", IdleLane) /\ UNCHANGED <<queue, status, cmd>>
    BY <1>1, <1>4 DEF NormalizeListed
  <2>2. PastNames
    BY <1>4, <2>1, TrackedNames DEF NormalizeListed, TypeOK
  <2>3. CASE a # NoIssue
    <3>1. PastSent /\ SameTaken
      BY <1>1, <2>1, <2>3, RestingLane, RestPast DEF TypeOK
    <3> QED
      BY <2>1, <2>2, <2>3, <3>1, SameStatusMoves, SameCommandsPast, SteadyKept
  <2>4. CASE a = NoIssue
    <3>1. PICK q \in Repaired(t) :
            /\ queue' = [queue EXCEPT ![t] = q]
            /\ UNCHANGED status
            /\ cmd' \in {cmd, Freeze(t)}
            /\ Resume(t, "queue", q)
      BY <2>1, <2>4 DEF Repair, Promotions
    <3>2. cmd' = cmd
      BY <3>1, FreezeNothing DEF TypeOK
    <3>3. \/ SetLane(t, "queue", IdleLane)
          \/ SetLane(t, "queue", [lane[t]["queue"] EXCEPT !.pc = "once"])
      BY <3>1 DEF Resume
    <3>4. PastSent /\ SameTaken
      BY <1>1, <3>3, RestingLane, RestPast DEF TypeOK
    <3>5. IsFiniteSet(QueuedIn(t)) /\ q \in Orders(QueuedIn(t))
      BY <3>1, IssueAssumption, FS_Subset DEF QueuedIn, Repaired
    <3>6. Distinct(q) /\ ToSet(q) = QueuedIn(t)
      BY <3>5, OrderEntries
    <3>7. queue'[t] = q /\ \A p \in Threads : p # t => queue'[p] = queue[p]
      BY <3>1, QueueFacts
    <3>8. QueuedIn(t)' = QueuedIn(t) /\ TakenOut(t)' = {}
      BY <1>2, <3>1, <3>4 DEF QueuedIn, SameTaken
    <3>9. ToSet(queue'[t]) = QueuedIn(t)' \ TakenOut(t)'
      BY <3>6, <3>7, <3>8
    <3>10. LineInv'
      BY <3>1, <3>4, <3>6, <3>7, <3>8, <3>9, OneLine DEF SameTaken
    <3>11. PastInv'
      BY <2>2, <3>1, <3>2, <3>4, SameStatusMoves, PastMovesKept, SameCommandsPast, SteadyPast
    <3>12. OrderKept
      <4>1. q \in Seq(Issues)
        <5>1. q \in Seq(QueuedIn(t)) /\ QueuedIn(t) \subseteq Issues
          BY <3>5, OrderEntries DEF QueuedIn
        <5> QED
          BY <5>1, SeqMonotonic
      <4>2. KeepsOrder(queue[t], q)
        BY <3>1, <3>5, QueueFacts, KeepsRepaired
      <4> QED
        BY <1>2, <3>4, <3>6, <3>7, <4>1, <4>2, OneOrder DEF SameTaken, TypeOK
    <3> QED
      BY <3>10, <3>11, <3>12
  <2> QED
    BY <2>3, <2>4
<1> QED
  BY <1>3, <1>4

LEMMA LaneStepLine ==
  ASSUME LineHyp, NEW t \in Threads, NEW l \in Lanes, LaneStep(t, l)
  PROVE  PastInv' /\ LineInv' /\ OrderKept
BY ProcessIssueQueueOnceLine, StageDoneLine, StartThrowsLine, TurnLine, NormalizeLine
   DEF LaneStep

-----------------------------------------------------------------------------
\* An issue leaves the queue of its thread.
LEMMA LeavesOrder ==
  ASSUME LineHyp, NEW t \in Threads, NEW i,
         queue'[t] = Without(queue[t], i),
         \A p \in Threads : p # t => queue'[p] = queue[p],
         \A p \in Threads : TakenOut(p)' = TakenOut(p)
  PROVE  OrderKept
<1> USE DEF LineHyp
<1>1. /\ Without(queue[t], i) \in Seq(Issues) /\ Distinct(Without(queue[t], i))
      /\ ToSet(Without(queue[t], i)) = ToSet(queue[t]) \ {i}
  BY QueueFacts, WithoutEntries
<1>2. KeepsOrder(queue[t], Without(queue[t], i))
  BY QueueFacts, KeepsWithout
<1>3. TakenOut(t) \cap (ToSet(queue[t]) \cup ToSet(queue'[t])) = {}
  BY <1>1, QueueFacts
<1> QED
  BY <1>1, <1>2, <1>3, OneOrder DEF TypeOK

\* An issue that waits, or ended, is interrupted: it leaves the queue.
LEMMA InterruptIdleLine ==
  ASSUME LineHyp, "restage" \notin Commands, NEW i \in Issues,
         NEW op \in {"interrupt", "restage"}, InterruptIdle(i, op)
  PROVE  PastInv' /\ LineInv' /\ OrderKept
<1> USE DEF LineHyp
<1> DEFINE t == ThreadOf[i]
<1>1. t \in Threads
  BY ThreadAssumption
<1>2. /\ status[i] \notin {"unborn", "staged"}
      /\ status'[i] = "interrupted"
      /\ \A j \in Issues : j # i => status'[j] = status[j]
      /\ UNCHANGED <<active, activeP, lane>>
      /\ queue' = [queue EXCEPT ![t] = Without(queue[t], i)]
  BY DEF InterruptIdle, Interruptible, InterruptTarget, TypeOK, StatusOK
<1>3. cmd' = cmd
  BY FreezeNothing DEF InterruptIdle, TypeOK
<1>4. PastIssues \subseteq PastIssues'
  BY <1>2 DEF PastIssues
<1>5. PastInv'
  BY <1>2, <1>3, <1>4, SameNamesPast, SameLanesPast, SameCommandsPast, SteadyPast
<1>6. \A p \in Threads : TakenOut(p)' = TakenOut(p)
  BY <1>2, SameLanesPast DEF SameTaken
<1>7. Distinct(Without(queue[t], i)) /\ ToSet(Without(queue[t], i)) = ToSet(queue[t]) \ {i}
  BY <1>1, QueueFacts, WithoutEntries
<1>8. /\ queue'[t] = Without(queue[t], i)
      /\ \A p \in Threads : p # t => queue'[p] = queue[p]
  BY <1>1, <1>2, QueueFacts
<1>9. QueuedIn(t)' = QueuedIn(t) \ {i}
  BY <1>2 DEF QueuedIn
<1>10. ToSet(queue'[t]) = QueuedIn(t)' \ TakenOut(t)'
  <2>1. ToSet(queue[t]) = QueuedIn(t) \ TakenOut(t)
    BY <1>1, QueueFacts
  <2> QED
    BY <1>1, <1>6, <1>7, <1>8, <1>9, <2>1
<1>11. \A k \in TakenOut(t)' : k \in Own(t) /\ status'[k] \notin {"unborn", "staged"}
  BY <1>1, <1>2, <1>6 DEF LineInv, Own
<1>12. \A k \in Issues : ThreadOf[k] # t => status'[k] = status[k]
  BY <1>2
<1> HIDE DEF t
<1>13. LineInv'
  BY <1>1, <1>6, <1>7, <1>8, <1>10, <1>11, <1>12, OneLine
<1>14. OrderKept
  BY <1>1, <1>6, <1>7, <1>8, LeavesOrder
<1> QED
  BY <1>5, <1>13, <1>14

\* A command that begins captures no queue, since the issue a lock names is past
\* being queued.
LEMMA NewCommandPast ==
  ASSUME PastInv, CmdOK, NEW h \in Handlers, NEW c, cmd' = [cmd EXCEPT ![h] = c],
         ~c.wasQueued, c.op # "restage",
         c.op \in {"interrupt", "unlock", "stop"} => c.issue \in PastIssues
  PROVE  PastCommands
<1> SUFFICES ASSUME NEW g \in Handlers
             PROVE  /\ ~cmd'[g].wasQueued /\ cmd'[g].op # "restage"
                    /\ cmd'[g].op \in {"interrupt", "unlock", "stop"} =>
                         cmd'[g].issue \in PastIssues
  BY DEF PastCommands
<1>1. CASE g = h
  BY <1>1 DEF CmdOK
<1>2. CASE g # h
  BY <1>2 DEF CmdOK, PastInv
<1> QED
  BY <1>1, <1>2

LEMMA InterruptBeginPast ==
  ASSUME LineHyp, "restage" \notin Commands, NEW h \in Handlers, NEW i \in Issues,
         NEW op \in {"interrupt", "restage"}, InterruptBegin(h, i, op)
  PROVE  PastCommands
<1> USE DEF LineHyp
<1> DEFINE t == ThreadOf[i]
           c == [NoCmd EXCEPT !.op = op, !.pc = AwaitStop(t), !.issue = i,
                              !.wasActive = TRUE, !.resume = (active[t] = i),
                              !.wasQueued = (i \in ToSet(queue[t]))]
<1>1. t \in Threads /\ i # NoIssue
  BY ThreadAssumption, NoIssueAssumption
<1>2. i \in PastIssues
  BY <1>1 DEF InterruptBegin, WasActive, PastInv
<1>3. i \notin ToSet(queue[t])
  BY <1>1, <1>2, QueueFacts DEF QueuedIn, PastIssues
<1>4. op = "interrupt"
  BY DEF InterruptBegin, Interruptible
<1>5. c.op = op /\ c.issue = i /\ c.wasQueued = (i \in ToSet(queue[t]))
  BY DEF NoCmd
<1>6. cmd' = [cmd EXCEPT ![h] = c]
  BY DEF InterruptBegin
<1> HIDE DEF c, t
<1>7. ~c.wasQueued
  BY <1>3, <1>5
<1> QED
  BY <1>2, <1>4, <1>5, <1>6, <1>7, NewCommandPast DEF TypeOK

LEMMA CommandBeginsLine ==
  ASSUME LineHyp, "restage" \notin Commands, NEW h \in Handlers, CommandBegins(h)
  PROVE  PastInv' /\ LineInv' /\ OrderKept
<1> USE DEF LineHyp
<1>1. ASSUME NEW i \in Issues, NEW op \in {"interrupt", "restage"}, InterruptBegin(h, i, op)
      PROVE  PastInv' /\ LineInv' /\ OrderKept
  BY <1>1, InterruptBeginPast, SameStatusMoves, SameNamesPast, SameLanesPast, SteadyKept
     DEF InterruptBegin
<1>2. ASSUME NEW i \in Issues, DeleteBegin(h, i)
      PROVE  PastInv' /\ LineInv' /\ OrderKept
  <2> DEFINE t == ThreadOf[i]
             c == [NoCmd EXCEPT !.op = "delete", !.issue = i, !.wasActive = WasActive(i),
                                !.pc = IF WasActive(i) THEN AwaitStop(t) ELSE "cleanup"]
  <2>1. c.op = "delete" /\ c.wasQueued = FALSE
    BY DEF NoCmd
  <2>2. cmd' = [cmd EXCEPT ![h] = c] /\ UNCHANGED <<status, queue, active, activeP, lane>>
    BY <1>2 DEF DeleteBegin
  <2> HIDE DEF c, t
  <2>3. PastCommands
    BY <2>1, <2>2, NewCommandPast DEF TypeOK
  <2> QED
    BY <2>2, <2>3, SameStatusMoves, SameNamesPast, SameLanesPast, SteadyKept
<1>3. ASSUME NEW t \in Threads, NEW op \in {"unlock", "stop"}, ReleaseBegin(h, t, op)
      PROVE  PastInv' /\ LineInv' /\ OrderKept
  <2>1. UNCHANGED <<status, queue, lane>> /\ activeP' = ClearInvalidP(t)
    BY <1>3 DEF ReleaseBegin
  <2>2. PICK a \in Tracked(t) :
          /\ active' = [active EXCEPT ![t] = a]
          /\ IF a = NoIssue
             THEN UNCHANGED cmd
             ELSE cmd' = [cmd EXCEPT ![h] = [NoCmd EXCEPT !.op = op, !.pc = AwaitStop(t),
                                              !.issue = a, !.wasActive = TRUE]]
    BY <1>3 DEF ReleaseBegin
  <2>3. PastNames /\ a \in PastIssues \cup {NoIssue}
    BY <2>1, <2>2, TrackedNames DEF TypeOK
  <2>4. PastCommands
    <3> DEFINE c == [NoCmd EXCEPT !.op = op, !.pc = AwaitStop(t),
                                  !.issue = a, !.wasActive = TRUE]
    <3>1. CASE a = NoIssue
      BY <2>2, <3>1, SameCommandsPast
    <3>2. CASE a # NoIssue
      <4>1. c.op = op /\ c.issue = a /\ c.wasQueued = FALSE
        BY DEF NoCmd
      <4>2. cmd' = [cmd EXCEPT ![h] = c]
        BY <2>2, <3>2
      <4> HIDE DEF c
      <4> QED
        BY <2>3, <3>2, <4>1, <4>2, NewCommandPast DEF TypeOK
    <3> QED
      BY <3>1, <3>2
  <2> QED
    BY <2>1, <2>3, <2>4, SameStatusMoves, SameLanesPast, SteadyKept
<1> QED
  BY <1>1, <1>2, <1>3 DEF CommandBegins

\* A deleted issue leaves the queue.
LEMMA DeleteEndLine ==
  ASSUME LineHyp, NEW h \in Handlers, DeleteEnd(h)
  PROVE  PastInv' /\ LineInv' /\ OrderKept
<1> USE DEF LineHyp
<1>1. PICK i \in Issues, t \in Threads : i = cmd[h].issue /\ t = ThreadOf[i]
  BY ThreadAssumption DEF DeleteEnd, TypeOK, CmdOK
<1>2. /\ status'[i] = "deleted"
      /\ \A j \in Issues : j # i => status'[j] = status[j]
      /\ UNCHANGED <<active, activeP, lane>>
      /\ queue' = [queue EXCEPT ![t] = Without(queue[t], i)]
      /\ cmd' = [Freeze(t) EXCEPT ![h] = NoCmd]
  BY <1>1 DEF DeleteEnd, TypeOK, StatusOK
<1>3. PastCommands
  BY <1>2, FreezeNothing, NoCmdPast DEF TypeOK
<1>4. PastIssues \subseteq PastIssues'
  BY <1>1, <1>2 DEF PastIssues
<1>5. PastInv'
  BY <1>2, <1>3, <1>4, SameNamesPast, SameLanesPast, SteadyPast
<1>6. \A p \in Threads : TakenOut(p)' = TakenOut(p)
  BY <1>2, SameLanesPast DEF SameTaken
<1>7. Distinct(Without(queue[t], i)) /\ ToSet(Without(queue[t], i)) = ToSet(queue[t]) \ {i}
  BY <1>1, QueueFacts, WithoutEntries
<1>8. /\ queue'[t] = Without(queue[t], i)
      /\ \A p \in Threads : p # t => queue'[p] = queue[p]
  BY <1>1, <1>2, QueueFacts
<1>9. QueuedIn(t)' = QueuedIn(t) \ {i}
  BY <1>1, <1>2 DEF QueuedIn
<1>10. ToSet(queue'[t]) = QueuedIn(t)' \ TakenOut(t)'
  <2>1. ToSet(queue[t]) = QueuedIn(t) \ TakenOut(t)
    BY <1>1, QueueFacts
  <2> QED
    BY <1>1, <1>6, <1>7, <1>8, <1>9, <2>1
<1>11. \A k \in TakenOut(t)' : k \in Own(t) /\ status'[k] \notin {"unborn", "staged"}
  BY <1>1, <1>2, <1>6 DEF LineInv, Own
<1>12. \A k \in Issues : ThreadOf[k] # t => status'[k] = status[k]
  BY <1>1, <1>2
<1>13. LineInv'
  BY <1>1, <1>6, <1>7, <1>8, <1>10, <1>11, <1>12, OneLine
<1>14. OrderKept
  BY <1>1, <1>6, <1>7, <1>8, LeavesOrder
<1> QED
  BY <1>5, <1>13, <1>14

\* The answers commands await: the issue of the command is past being queued.
LEMMA CommandAnsweredLine ==
  ASSUME LineHyp, NEW h \in Handlers, CommandAnswered(h)
  PROVE  PastInv' /\ LineInv' /\ OrderKept
<1> USE DEF LineHyp
<1> DEFINE t == ThreadOf[cmd[h].issue]
<1>1. cmd[h].op # "none" => t \in Threads
  BY ThreadAssumption DEF TypeOK, CmdOK
<1>2. /\ ~cmd[h].wasQueued /\ cmd[h].op # "restage"
      /\ cmd[h].op \in {"interrupt", "unlock", "stop"} => cmd[h].issue \in PastIssues
  BY DEF PastInv
<1>3. ASSUME NEW errors \in BOOLEAN, InterruptEnd(h, errors)
      PROVE  PastInv' /\ LineInv' /\ OrderKept
  <2>1. t \in Threads /\ cmd[h].op = "interrupt" /\ UNCHANGED <<queue, lane>>
    BY <1>1, <1>2, <1>3 DEF InterruptEnd
  <2>2. PastNames
    BY <1>3, <2>1, ReleasedNames DEF InterruptEnd, Clear, TypeOK
  <2>3. PastMoves
    BY <1>2, <1>3, <2>1, PatchedMoves DEF InterruptEnd, InterruptTarget, Statuses, TypeOK
  <2>4. cmd' = [cmd EXCEPT ![h] = NoCmd]
    BY <1>2, <1>3 DEF InterruptEnd
  <2>5. PastCommands
    BY <2>4, NoCmdPast DEF TypeOK
  <2> QED
    BY <2>1, <2>2, <2>3, <2>5, SameLanesPast, SteadyKept
<1>4. ASSUME NEW errors \in BOOLEAN, DeleteStopped(h, errors)
      PROVE  PastInv' /\ LineInv' /\ OrderKept
  <2> DEFINE c == [cmd[h] EXCEPT !.pc = "cleanup"]
  <2>1. t \in Threads /\ UNCHANGED <<status, queue, lane>> /\ cmd' = [cmd EXCEPT ![h] = c]
    BY <1>1, <1>4 DEF DeleteStopped
  <2>2. c.op = cmd[h].op /\ c.issue = cmd[h].issue /\ c.wasQueued = cmd[h].wasQueued
    BY DEF TypeOK, CmdOK, CmdRecords
  <2> HIDE DEF c
  <2>3. PastCommands
    BY <1>2, <2>1, <2>2, NewCommandPast DEF TypeOK
  <2>4. PastNames
    BY <1>4, <2>1, ReleasedNames DEF DeleteStopped, Clear, TypeOK
  <2> QED
    BY <2>1, <2>3, <2>4, SameStatusMoves, SameLanesPast, SteadyKept
<1>5. ASSUME NEW errors \in BOOLEAN, NEW refresh \in BOOLEAN, UnlockEnd(h, errors, refresh)
      PROVE  PastInv' /\ LineInv' /\ OrderKept
  <2>1. t \in Threads /\ UNCHANGED <<queue, lane>> /\ cmd[h].issue \in PastIssues
    BY <1>1, <1>2, <1>5 DEF UnlockEnd
  <2>2. PastCommands
    BY <1>5, NoCmdPast DEF UnlockEnd, TypeOK
  <2>3. PastMoves
    BY <1>5, <2>1, PatchedMoves, SameStatusMoves DEF UnlockEnd, Statuses, TypeOK
  <2>4. PastNames
    BY <1>5, <2>1, ReleasedNames, SameNamesPast DEF UnlockEnd, Clear, TypeOK
  <2> QED
    BY <2>1, <2>2, <2>3, <2>4, SameLanesPast, SteadyKept
<1>6. ASSUME NEW unverified \in BOOLEAN, StopEnd(h, unverified)
      PROVE  PastInv' /\ LineInv' /\ OrderKept
  <2>1. t \in Threads /\ UNCHANGED <<queue, lane>> /\ cmd[h].issue \in PastIssues
    BY <1>1, <1>2, <1>6 DEF StopEnd
  <2>2. PastCommands
    BY <1>6, NoCmdPast DEF StopEnd, TypeOK
  <2>3. PastMoves
    BY <1>6, <2>1, PatchedMoves DEF StopEnd, Statuses, TypeOK
  <2>4. PastNames
    BY <1>6, <2>1, ReleasedNames DEF StopEnd, Clear, TypeOK
  <2> QED
    BY <2>1, <2>2, <2>3, <2>4, SameLanesPast, SteadyKept
<1> QED
  BY <1>3, <1>4, <1>5, <1>6, DeleteEndLine DEF CommandAnswered

\* A notification runs or ends the issue a lock of its thread names.
LEMMA EventStepLine ==
  ASSUME LineHyp, NEW t \in Threads, EventStep(t)
  PROVE  PastInv' /\ LineInv' /\ OrderKept
<1> USE DEF LineHyp
<1>1. UNCHANGED <<queue, lane, cmd>>
  BY DEF EventStep, DropEvent, ApplyProgress, ApplyTerminal, TakeEvent, SettleTerminal,
         ExpireStop, WatchRunningIssues, ReconcileOrphan
<1>2. Current(t) \in PastIssues \/ Current(t) \notin Issues
  BY NoIssueAssumption DEF Current, PastInv
<1>3. PastMoves
  <2>1. CASE ApplyProgress(t)
    <3>1. \/ status' \in {Patched(Current(t), "awaiting_input"), Patched(Current(t), "running")}
          \/ UNCHANGED status
      BY <2>1 DEF ApplyProgress, Patched
    <3> QED
      BY <1>2, <3>1, PatchedMoves, SameStatusMoves DEF TypeOK, Statuses
  <2>2. ASSUME NEW outcome \in TerminalStatuses, ApplyTerminal(t, outcome)
        PROVE  PastMoves
    BY <1>2, <2>2, PatchedMoves DEF ApplyTerminal, TypeOK, Statuses, TerminalStatuses
  <2>3. CASE UNCHANGED status
    BY <2>3, SameStatusMoves
  <2> QED
    BY <2>1, <2>2, <2>3
       DEF EventStep, DropEvent, SettleTerminal, ExpireStop, WatchRunningIssues, ReconcileOrphan
<1>4. PastNames
  <2>1. CASE SettleTerminal(t) \/ ReconcileOrphan(t)
    BY <2>1, ReleasedNames DEF SettleTerminal, ReconcileOrphan, Clear, TypeOK
  <2>2. CASE WatchRunningIssues(t)
    BY <2>2, AdoptNames DEF WatchRunningIssues, TypeOK
  <2>3. CASE UNCHANGED <<active, activeP>>
    BY <2>3, SameNamesPast
  <2> QED
    BY <2>1, <2>2, <2>3 DEF EventStep, DropEvent, ApplyProgress, ApplyTerminal, ExpireStop
<1> QED
  BY <1>1, <1>3, <1>4, SameLanesPast, SameCommandsPast, SteadyKept

LEMMA InitLine == Init => PastInv /\ LineInv
<1> SUFFICES ASSUME Init PROVE PastInv /\ LineInv
  OBVIOUS
<1>1. PastInv
  BY DEF Init, PastInv, Sent, IdleLane, Lanes, NoCmd
<1>2. ASSUME NEW t \in Threads
      PROVE  /\ Distinct(queue[t])
             /\ ToSet(queue[t]) = QueuedIn(t) \ TakenOut(t)
             /\ \A i \in TakenOut(t) : i \in Own(t) /\ status[i] \notin {"unborn", "staged"}
  <2>1. queue[t] = <<>> /\ TakenOut(t) = {} /\ QueuedIn(t) = {}
    BY DEF Init, TakenOut, IdleLane, Lanes, QueuedIn
  <2>2. ToSet(<<>>) = {}
    BY DEF ToSet
  <2> QED
    BY <2>1, <2>2 DEF Distinct
<1> QED
  BY <1>1, <1>2 DEF LineInv

LEMMA NextLine ==
  ASSUME Commands \cap {"restage", "normalize"} = {}, TypeOK, LockInv, PastInv, LineInv,
         [Next]_vars
  PROVE  PastInv' /\ LineInv' /\ ("reorder" \notin Commands => OrderKept)
<1>1. LineHyp
  BY DEF LineHyp
<1>2. ASSUME UNCHANGED <<status, queue, active, activeP, lane, cmd>>
      PROVE  PastInv' /\ LineInv' /\ OrderKept
  BY <1>2, SameStatusMoves, SameNamesPast, SameLanesPast, SameCommandsPast, SteadyKept
<1>3. CASE UNCHANGED vars \/ AppServerReady \/ \E k \in 1..Len(turns) : EndTurn(k)
  BY <1>2, <1>3 DEF vars, AppServerReady, EndTurn
<1>4. CASE \E t \in Threads : NormalizeRootThread(t)
  BY <1>4 DEF NormalizeRootThread
<1>5. CASE \E t \in Threads : QueueStep(t)
  BY <1>1, <1>5, QueueStepLine, StartThreadIssuesLine, ReorderLine
     DEF QueueStep, ReorderThreadIssues
<1>6. CASE \E t \in Threads, l \in Lanes : LaneStep(t, l)
  BY <1>1, <1>6, LaneStepLine
<1>7. CASE \E h \in Handlers : CommandBegins(h) \/ CommandAnswered(h)
  BY <1>1, <1>7, CommandBeginsLine, CommandAnsweredLine
<1>8. CASE \E t \in Threads : EventStep(t)
  BY <1>1, <1>8, EventStepLine
<1> QED
  BY <1>1, <1>3, <1>4, <1>5, <1>6, <1>7, <1>8, CreateLine, InterruptIdleLine DEF Next

\* The queue of a thread holds exactly the issues that are queued in it and that the
\* pipeline has not taken out, each of them once, whatever starts, failures, repairs,
\* interruptions and deletions interleave, unless a user drags a card back to
\* preparation or normalises a thread.
THEOREM QueueExact ==
  ASSUME Commands \cap {"restage", "normalize"} = {}
  PROVE  Spec => [](PastInv /\ LineInv)
<1>1. Init => PastInv /\ LineInv
  BY InitLine
<1>2. TypeOK /\ LockInv /\ (PastInv /\ LineInv) /\ [Next]_vars => (PastInv /\ LineInv)'
  BY NextLine
<1>3. Spec => []LockInv
  BY OneOccupant
<1> QED
  BY <1>1, <1>2, <1>3, TypeCorrect, PTL DEF Spec

\* No issue that is shown as queued is lost: it waits in the queue of its thread or
\* the pipeline is preparing it.
THEOREM NoneLost ==
  ASSUME Commands \cap {"restage", "normalize"} = {}
  PROVE  Spec => []QueuedIsTracked
<1>1. LineInv => QueuedIsTracked
  <2> SUFFICES ASSUME LineInv, NEW i \in Issues, status[i] = "queued",
                      i \notin ToSet(queue[ThreadOf[i]])
               PROVE  \E l \in Lanes : /\ lane[ThreadOf[i]][l].issue = i
                                       /\ lane[ThreadOf[i]][l].pc \in {"stage", "ensure"}
    BY DEF QueuedIsTracked
  <2>1. ThreadOf[i] \in Threads /\ i \in QueuedIn(ThreadOf[i])
    BY ThreadAssumption DEF QueuedIn
  <2>2. i \in TakenOut(ThreadOf[i])
    BY <2>1 DEF LineInv
  <2> QED
    BY <2>2 DEF TakenOut, Lanes
<1> QED
  BY <1>1, QueueExact, PTL

\* No issue waits twice, and none waits that was deleted.
THEOREM QueueOfCards ==
  ASSUME Commands \cap {"restage", "normalize"} = {}
  PROVE  Spec => []QueueSound
<1>1. LineInv => QueueSound
  BY DEF LineInv, QueueSound, Distinct, QueuedIn, HasCard
<1> QED
  BY <1>1, QueueExact, PTL

\* The issues of a thread start in the order they were queued in: no start that fails,
\* no repair and no command that takes an issue out ever lets one overtake another,
\* unless a user asks for it or normalises the thread.
THEOREM OrderOfStarts ==
  ASSUME Commands \cap {"restage", "normalize", "reorder"} = {}
  PROVE  Spec => Fifo
<1>1. TypeOK /\ LockInv /\ (PastInv /\ LineInv) /\ [Next]_vars => OrderKept
  BY NextLine
<1>2. OrderKept => \A t \in Threads : \A i, j \in Own(t) :
        Precedes(Line(t), i, j) /\ {i, j} \subseteq ToSet(Line(t)')
          => Precedes(Line(t)', i, j)
  BY DEF OrderKept, KeepsOrder
<1>3. Spec => []LockInv
  BY OneOccupant
<1>4. Spec => [](PastInv /\ LineInv)
  BY QueueExact
<1> QED
  BY <1>1, <1>2, <1>3, <1>4, TypeCorrect, PTL DEF Spec, Fifo

-----------------------------------------------------------------------------
(***************************************************************************)
(* What a stray notification can do                                        *)
(*                                                                         *)
(* Events of a socket are about turns of its own thread, whatever becomes  *)
(* of the issues of these turns.  With the locks that name one occupant    *)
(* only, and none that waits to be started, this bounds what one that is   *)
(* applied to another issue than its own can change.                       *)
(***************************************************************************)
TurnsOf(t, q, ts) ==
  \A n \in 1..Len(q) : q[n].turn \in 1..Len(ts) /\ ts[q[n].turn].thread = t

OwnTurns ==
  /\ \A k \in 1..Len(turns) : turns[k].issue \in Own(turns[k].thread)
  /\ \A t \in Threads : TurnsOf(t, inbox[t], turns)

StrayHyp == LineHyp /\ OwnTurns

LEMMA InboxTypes ==
  ASSUME TypeOK, NEW t \in Threads
  PROVE  /\ turns \in Seq(TurnRecords) /\ Len(turns) \in Nat
         /\ inbox[t] \in Seq(EventRecords) /\ Len(inbox[t]) \in Nat
BY DEF TypeOK, EventOK

LEMMA TailTurns ==
  ASSUME NEW q \in Seq(EventRecords), q # <<>>, NEW ts, NEW t, TurnsOf(t, q, ts)
  PROVE  /\ TurnsOf(t, Tail(q), ts)
         /\ Head(q).turn \in 1..Len(ts) /\ ts[Head(q).turn].thread = t
<1>1. /\ Len(q) \in Nat \ {0} /\ Head(q) = q[1]
      /\ Len(Tail(q)) = Len(q) - 1
      /\ \A n \in 1..(Len(q) - 1) : Tail(q)[n] = q[n + 1]
  BY HeadTailProperties
<1> DEFINE w == Tail(q)
<1> HIDE DEF w
<1>2. \A n \in 1..Len(w) : n + 1 \in 1..Len(q) /\ w[n] = q[n + 1]
  BY <1>1 DEF w
<1>3. 1 \in 1..Len(q)
  BY <1>1
<1> QED
  BY <1>1, <1>2, <1>3 DEF TurnsOf, w

\* A turn of a starting issue is accepted, and announced in the socket of its thread.
LEMMA AcceptTurnsOf ==
  ASSUME StrayHyp, NEW t \in Threads, Accept(t, "queue"), lane[t]["queue"].pc = "turn"
  PROVE  OwnTurns'
<1> DEFINE r == [codex |-> lane[t]["queue"].bind, thread |-> t,
                 issue |-> lane[t]["queue"].issue, live |-> TRUE]
           e == [kind |-> "started", turn |-> Len(turns) + 1]
<1>1. lane[t]["queue"].issue \in Own(t)
  <2>1. lane[t]["queue"].issue \in OwnOrNone(t)
    BY DEF StrayHyp, LineHyp, TypeOK, LaneOK, Lanes, LaneRecords
  <2>2. lane[t]["queue"].issue \in Issues
    BY DEF StrayHyp, LineHyp, PastInv, Sent, PastIssues
  <2> QED
    BY <2>1, <2>2, NoIssueAssumption DEF OwnOrNone
<1>2. turns \in Seq(TurnRecords) /\ Len(turns) \in Nat
  BY InboxTypes DEF StrayHyp, LineHyp
<1>3. turns' = Append(turns, r) /\ inbox' = [inbox EXCEPT ![t] = Append(inbox[t], e)]
  BY DEF Accept
<1>4. r.thread = t /\ r.issue \in Own(t) /\ e.turn = Len(turns) + 1
  BY <1>1
<1> HIDE DEF r, e
<1>5. /\ Len(turns') = Len(turns) + 1 /\ turns'[Len(turns) + 1] = r
      /\ \A k \in 1..Len(turns) : turns'[k] = turns[k]
  BY <1>2, <1>3
<1>6. \A k \in 1..Len(turns') : turns'[k].issue \in Own(turns'[k].thread)
  <2>1. \A k \in 1..Len(turns') : k = Len(turns) + 1 \/ (k \in 1..Len(turns) /\ turns'[k] = turns[k])
    BY <1>2, <1>5
  <2> QED
    BY <1>4, <1>5, <2>1 DEF StrayHyp, OwnTurns
<1>7. ASSUME NEW p \in Threads PROVE TurnsOf(p, inbox'[p], turns')
  <2>1. inbox[p] \in Seq(EventRecords) /\ Len(inbox[p]) \in Nat
    BY InboxTypes DEF StrayHyp, LineHyp
  <2>2. \A n \in 1..Len(inbox[p]) : /\ inbox[p][n].turn \in 1..Len(turns)
                                    /\ turns[inbox[p][n].turn].thread = p
    BY DEF StrayHyp, OwnTurns, TurnsOf
  <2>3. 1..Len(turns) \subseteq 1..Len(turns') /\ Len(turns) + 1 \in 1..Len(turns')
    BY <1>2, <1>5
  <2>4. CASE p # t
    <3>1. inbox'[p] = inbox[p]
      BY <1>3, <2>4 DEF StrayHyp, LineHyp, TypeOK, EventOK
    <3> QED
      BY <1>5, <2>2, <2>3, <3>1 DEF TurnsOf
  <2>5. CASE p = t
    <3>1. inbox'[p] = Append(inbox[p], e)
      BY <1>3, <2>5 DEF StrayHyp, LineHyp, TypeOK, EventOK
    <3>2. \A n \in 1..Len(inbox'[p]) : \/ n \in 1..Len(inbox[p]) /\ inbox'[p][n] = inbox[p][n]
                                       \/ inbox'[p][n] = e
      BY <2>1, <3>1
    <3> QED
      BY <1>4, <1>5, <2>2, <2>3, <2>5, <3>2 DEF TurnsOf
  <2> QED
    BY <2>4, <2>5
<1> QED
  BY <1>6, <1>7 DEF OwnTurns, Own

\* A turn ends, which is announced in the socket of its thread.
LEMMA EndTurnsOf ==
  ASSUME StrayHyp, NEW k \in 1..Len(turns), EndTurn(k)
  PROVE  OwnTurns'
<1> DEFINE t == turns[k].thread
<1>1. /\ turns \in Seq(TurnRecords) /\ turns[k] \in TurnRecords /\ Len(turns) \in Nat
      /\ \A p \in Threads : inbox[p] \in Seq(EventRecords) /\ Len(inbox[p]) \in Nat
  <2>1. turns \in Seq(TurnRecords) /\ \A p \in Threads : inbox[p] \in Seq(EventRecords)
    BY DEF StrayHyp, LineHyp, TypeOK, EventOK
  <2> QED
    BY <2>1
<1>2. t \in Threads
  BY <1>1 DEF TurnRecords
<1>3. /\ Len(turns') = Len(turns)
      /\ \A m \in 1..Len(turns) : /\ turns'[m].issue = turns[m].issue
                                  /\ turns'[m].thread = turns[m].thread
  BY <1>1 DEF EndTurn, TurnRecords
<1>4. PICK ending \in EndEvents :
        inbox' = [inbox EXCEPT ![t] =
                    inbox[t] \o [n \in 1..Len(ending) |-> [kind |-> ending[n], turn |-> k]]]
  BY DEF EndTurn
<1> HIDE DEF t
<1>5. ASSUME NEW p \in Threads PROVE TurnsOf(p, inbox'[p], turns')
  <2>1. \A n \in 1..Len(inbox[p]) : /\ inbox[p][n].turn \in 1..Len(turns)
                                    /\ turns[inbox[p][n].turn].thread = p
    BY DEF StrayHyp, OwnTurns, TurnsOf
  <2>2. CASE p # t
    <3>1. inbox'[p] = inbox[p]
      BY <1>4, <2>2 DEF StrayHyp, LineHyp, TypeOK, EventOK
    <3> QED
      BY <1>3, <2>1, <3>1 DEF TurnsOf
  <2>3. CASE p = t
    <3> DEFINE es == [n \in 1..Len(ending) |-> [kind |-> ending[n], turn |-> k]]
    <3>1. inbox'[p] = inbox[p] \o es
      BY <1>4, <2>3 DEF StrayHyp, LineHyp, TypeOK, EventOK
    <3>2. /\ Len(ending) \in Nat /\ es \in Seq(EventRecords) /\ Len(es) = Len(ending)
          /\ \A n \in 1..Len(ending) : es[n].turn = k
      <4>1. ending \in Seq(EventKinds)
        BY EventAssumption
      <4>2. \A n \in 1..Len(ending) : [kind |-> ending[n], turn |-> k] \in EventRecords
        BY <1>1, <4>1 DEF EventRecords
      <4> QED
        BY <4>1, <4>2
    <3> HIDE DEF es
    <3>3. /\ Len(inbox[p] \o es) = Len(inbox[p]) + Len(es)
          /\ \A n \in 1..(Len(inbox[p]) + Len(es)) :
               (inbox[p] \o es)[n] = IF n <= Len(inbox[p]) THEN inbox[p][n]
                                     ELSE es[n - Len(inbox[p])]
      <4>1. es \in Seq(EventRecords) /\ inbox[p] \in Seq(EventRecords)
        BY <1>1, <3>2
      <4> QED
        BY <4>1, ConcatProperties, LenProperties
    <3>4. ASSUME NEW n \in 1..Len(inbox'[p])
          PROVE  (n \in 1..Len(inbox[p]) /\ inbox'[p][n] = inbox[p][n]) \/ inbox'[p][n].turn = k
      <4>1. n \in 1..(Len(inbox[p]) + Len(ending))
        BY <3>1, <3>2, <3>3
      <4>2. n <= Len(inbox[p]) => n \in 1..Len(inbox[p])
        BY <1>1, <3>2, <4>1
      <4>3. ~(n <= Len(inbox[p])) => n - Len(inbox[p]) \in 1..Len(ending)
        BY <1>1, <3>2, <4>1
      <4> QED
        BY <3>1, <3>2, <3>3, <4>1, <4>2, <4>3
    <3> QED
      BY <1>3, <2>1, <2>3, <3>4 DEF TurnsOf, t
  <2> QED
    BY <2>2, <2>3
<1> QED
  BY <1>1, <1>3, <1>5 DEF OwnTurns, StrayHyp, Own

\* What StrayNotifications says of one step.
StrayStep ==
  \A t \in Threads : \A i \in Own(t) :
    Len(inbox'[t]) < Len(inbox[t]) /\ status'[i] # status[i] =>
      LET j == turns[Head(inbox[t]).turn].issue
      IN /\ status[i] \notin {"unborn", "staged", "queued"}
         /\ j = i \/ status[j] \notin LiveStatuses

LEMMA SilentStray ==
  ASSUME StrayHyp, UNCHANGED <<inbox, turns>>
  PROVE  OwnTurns' /\ StrayStep
<1>1. OwnTurns'
  BY DEF StrayHyp, OwnTurns, TurnsOf, Own
<1>2. StrayStep
  BY InboxTypes DEF StrayHyp, LineHyp, StrayStep
<1> QED
  BY <1>1, <1>2

\* The only steps of a pipeline that a socket sees are the answers to turn/start.
LEMMA LaneStepStray ==
  ASSUME StrayHyp, NEW t \in Threads, NEW l \in Lanes, LaneStep(t, l)
  PROVE  OwnTurns' /\ StrayStep
<1>1. CASE UNCHANGED <<inbox, turns>>
  BY <1>1, SilentStray
<1>2. CASE Accept(t, l) /\ lane[t][l].pc = "turn"
  <2>1. l = "queue"
    BY <1>2 DEF StrayHyp, LineHyp, LockInv, NoNormalizer, Lanes
  <2>2. OwnTurns'
    BY <1>2, <2>1, AcceptTurnsOf
  <2>3. ASSUME NEW p \in Threads PROVE ~(Len(inbox'[p]) < Len(inbox[p]))
    <3>1. inbox[p] \in Seq(EventRecords) /\ Len(inbox[p]) \in Nat
      BY InboxTypes DEF StrayHyp, LineHyp
    <3>2. \/ inbox'[p] = inbox[p]
          \/ \E e : inbox'[p] = Append(inbox[p], e)
      BY <1>2 DEF Accept, StrayHyp, LineHyp, TypeOK, EventOK
    <3> QED
      BY <3>1, <3>2
  <2> QED
    BY <2>2, <2>3 DEF StrayStep
<1> QED
  BY <1>1, <1>2
     DEF LaneStep, ProcessIssueQueueOnce, StageDone, EnsureDone, StartFails, StartMissing,
         TurnResponds, TurnStartFails, TurnThreadNotFound, RebindDone, NormalizeListed,
         NormalizeFails

\* The issue a lock names has begun, and is the only one of its thread that may run.
LEMMA EventStepStray ==
  ASSUME StrayHyp, NEW t \in Threads, EventStep(t)
  PROVE  OwnTurns' /\ StrayStep
<1>1. CASE UNCHANGED <<inbox, turns>>
  BY <1>1, SilentStray
<1>2. CASE /\ inbox[t] # <<>> /\ inbox' = [inbox EXCEPT ![t] = Tail(@)]
           /\ UNCHANGED turns
           /\ \A i \in Issues : status'[i] # status[i] => i = Current(t)
  <2>1. inbox[t] \in Seq(EventRecords)
    BY InboxTypes DEF StrayHyp, LineHyp
  <2>2. inbox'[t] = Tail(inbox[t]) /\ \A p \in Threads : p # t => inbox'[p] = inbox[p]
    BY <1>2 DEF StrayHyp, LineHyp, TypeOK, EventOK
  <2>3. TurnsOf(t, inbox[t], turns)
    BY DEF StrayHyp, OwnTurns
  <2>4. /\ TurnsOf(t, Tail(inbox[t]), turns)
        /\ Head(inbox[t]).turn \in 1..Len(turns)
        /\ turns[Head(inbox[t]).turn].thread = t
    BY <1>2, <2>1, <2>3, TailTurns
  <2>5. OwnTurns'
    BY <1>2, <2>2, <2>4 DEF StrayHyp, OwnTurns, TurnsOf, Own
  <2>6. StrayStep
    <3> SUFFICES ASSUME NEW p \in Threads, NEW i \in Own(p),
                        Len(inbox'[p]) < Len(inbox[p]), status'[i] # status[i]
                 PROVE  LET j == turns[Head(inbox[p]).turn].issue
                        IN /\ status[i] \notin {"unborn", "staged", "queued"}
                           /\ j = i \/ status[j] \notin LiveStatuses
      BY DEF StrayStep
    <3>1. p = t
      BY <2>2, InboxTypes DEF StrayHyp, LineHyp
    <3>2. i = Current(t) /\ i \in Issues
      BY <1>2 DEF Own
    <3>3. i \in {active[t], activeP[t]} \ {NoIssue}
      BY <3>2, NoIssueAssumption DEF Current
    <3>4. status[i] \notin {"unborn", "staged", "queued"}
      BY <3>3 DEF StrayHyp, LineHyp, PastInv, PastIssues
    <3>5. PICK j : j = turns[Head(inbox[t]).turn].issue
      OBVIOUS
    <3>6. j \in Own(t)
      BY <2>4, <3>5 DEF StrayHyp, OwnTurns
    <3>7. status[j] \in LiveStatuses => j \in Occupants(t)
      BY <3>6 DEF Occupants, RunningIn, Own
    <3>8. i \in Occupants(t)
      BY <3>3 DEF Occupants
    <3>9. j = i \/ status[j] \notin LiveStatuses
      BY <3>7, <3>8 DEF StrayHyp, LineHyp, LockInv, SoleOccupant
    <3> QED
      BY <3>1, <3>4, <3>5, <3>9
  <2> QED
    BY <2>5, <2>6
<1>3. CASE DropEvent(t)
  BY <1>2, <1>3 DEF DropEvent
<1>4. ASSUME NEW s, status' \in {status, Patched(Current(t), s), [status EXCEPT ![Current(t)] = s]}
      PROVE  \A i \in Issues : status'[i] # status[i] => i = Current(t)
  BY <1>4 DEF Patched, StrayHyp, LineHyp, TypeOK, StatusOK
<1>5. CASE ApplyProgress(t)
  <2>1. \E s : status' \in {status, Patched(Current(t), s), [status EXCEPT ![Current(t)] = s]}
    BY <1>5 DEF ApplyProgress
  <2> QED
    BY <1>2, <1>4, <1>5, <2>1 DEF ApplyProgress, TakeEvent
<1>6. ASSUME NEW outcome \in TerminalStatuses, ApplyTerminal(t, outcome)
      PROVE  OwnTurns' /\ StrayStep
  <2>1. status' = Patched(Current(t), outcome)
    BY <1>6 DEF ApplyTerminal
  <2> QED
    BY <1>2, <1>4, <1>6, <2>1 DEF ApplyTerminal, TakeEvent
<1> QED
  BY <1>1, <1>3, <1>5, <1>6
     DEF EventStep, SettleTerminal, ExpireStop, WatchRunningIssues, ReconcileOrphan

LEMMA NextStray ==
  ASSUME Commands \cap {"restage", "normalize"} = {}, TypeOK, LockInv, PastInv, LineInv,
         OwnTurns, [Next]_vars
  PROVE  OwnTurns' /\ StrayStep
<1>1. StrayHyp
  BY DEF StrayHyp, LineHyp
<1>2. CASE UNCHANGED <<inbox, turns>>
  BY <1>1, <1>2, SilentStray
<1>3. CASE \E k \in 1..Len(turns) : EndTurn(k)
  <2>1. StrayStep
    BY <1>3 DEF EndTurn, StrayStep
  <2> QED
    BY <1>1, <1>3, <2>1, EndTurnsOf
<1>4. CASE \E t \in Threads, l \in Lanes : LaneStep(t, l)
  BY <1>1, <1>4, LaneStepStray
<1>5. CASE \E t \in Threads : EventStep(t)
  BY <1>1, <1>5, EventStepStray
<1>6. ASSUME NEW t \in Threads, QueueStep(t) PROVE UNCHANGED <<inbox, turns>>
  BY <1>6 DEF QueueStep, ScheduleQueue, ProcessIssueQueue, LoopProcessIssueQueue,
     StartThreadIssues, ReorderThreadIssues
<1>7. ASSUME NEW h \in Handlers, CommandBegins(h) PROVE UNCHANGED <<inbox, turns>>
  BY <1>7 DEF CommandBegins, InterruptBegin, DeleteBegin, ReleaseBegin
<1>8. ASSUME NEW h \in Handlers, CommandAnswered(h) PROVE UNCHANGED <<inbox, turns>>
  BY <1>8 DEF CommandAnswered, InterruptEnd, DeleteStopped, DeleteEnd, UnlockEnd, StopEnd
<1>9. ASSUME NEW i \in Issues, NEW op \in {"interrupt", "restage"}, InterruptIdle(i, op)
      PROVE  UNCHANGED <<inbox, turns>>
  BY <1>9 DEF InterruptIdle
<1> QED
  BY <1>2, <1>3, <1>4, <1>5, <1>6, <1>7, <1>8, <1>9
     DEF Next, vars, CreateThreadIssue, NormalizeRootThread, AppServerReady

\* A late, stray or repeated notification changes no issue that waits to be started, and
\* is never taken from an issue that still runs: with any number of notifications at the
\* end of a turn, and whatever users interrupt, unlock, stop, delete or reorder.
THEOREM StraysBounded ==
  ASSUME Commands \cap {"restage", "normalize"} = {}
  PROVE  Spec => StrayNotifications
<1>1. Init => OwnTurns
  BY DEF Init, OwnTurns, TurnsOf
<1>2. TypeOK /\ LockInv /\ (PastInv /\ LineInv) /\ OwnTurns /\ [Next]_vars
        => OwnTurns' /\ StrayStep
  BY NextStray
<1>3. StrayStep => \A t \in Threads : \A i \in Own(t) :
        Len(inbox'[t]) < Len(inbox[t]) /\ status'[i] # status[i] =>
          LET j == turns[Head(inbox[t]).turn].issue
          IN /\ status[i] \notin {"unborn", "staged", "queued"}
             /\ j = i \/ status[j] \notin LiveStatuses
  BY DEF StrayStep
<1>4. Spec => []LockInv
  BY OneOccupant
<1>5. Spec => [](PastInv /\ LineInv)
  BY QueueExact
<1> QED
  BY <1>1, <1>2, <1>3, <1>4, <1>5, TypeCorrect, PTL DEF Spec, StrayNotifications

-----------------------------------------------------------------------------
(***************************************************************************)
(* Turns and the notifications about them                                  *)
(*                                                                         *)
(* A turn is engaged on a Codex thread while it runs there or while a      *)
(* notification about it waits in the socket.  Without commands of users,  *)
(* and when app-server ends a turn with one terminal notification, at most *)
(* one turn is engaged on the Codex thread of a thread, it is the turn of  *)
(* the issue both locks name, and no start is being prepared meanwhile.    *)
(***************************************************************************)
ProgressKinds == {"started", "waiting"}

OneTerminal == \A e \in EndEvents : \A n \in 1..(Len(e) - 1) : e[n] \in ProgressKinds

\* The events of a socket, given the turns: one that is terminal is the last of
\* its turn, and the turn has ended.
EventsOK(q, ts) ==
  \A n \in 1..Len(q) :
    /\ q[n].turn \in 1..Len(ts)
    /\ ts[q[n].turn].live => q[n].kind \in ProgressKinds
    /\ \A m \in 1..(n - 1) : q[m].turn = q[n].turn => q[m].kind \in ProgressKinds

EngagedIn(b, q, ts) ==
  {k \in 1..Len(ts) : /\ ts[k].codex = b
                      /\ ts[k].live \/ \E n \in 1..Len(q) : q[n].turn = k}

LEMMA TailEvents ==
  ASSUME NEW ts \in Seq(TurnRecords), NEW q \in Seq(EventRecords), q # <<>>,
         EventsOK(q, ts), NEW b
  PROVE  /\ EventsOK(Tail(q), ts)
         /\ EngagedIn(b, Tail(q), ts) \subseteq EngagedIn(b, q, ts)
         /\ Head(q).turn \in 1..Len(ts)
         /\ ts[Head(q).turn].codex = b => Head(q).turn \in EngagedIn(b, q, ts)
         /\ Head(q).kind \notin ProgressKinds =>
              Head(q).turn \notin EngagedIn(b, Tail(q), ts)
<1>1. /\ Len(q) \in Nat \ {0} /\ Head(q) = q[1]
      /\ Len(Tail(q)) = Len(q) - 1
      /\ \A n \in 1..(Len(q) - 1) : Tail(q)[n] = q[n + 1]
  BY HeadTailProperties
<1> DEFINE w == Tail(q)
<1> HIDE DEF w
<1>2. /\ Len(w) = Len(q) - 1
      /\ \A n \in 1..(Len(q) - 1) : w[n] = q[n + 1]
  BY <1>1 DEF w
<1>3. \A n \in 1..Len(w) : n + 1 \in 1..Len(q) /\ w[n] = q[n + 1]
  BY <1>1, <1>2
<1>4. EventsOK(w, ts)
  <2> SUFFICES ASSUME NEW n \in 1..Len(w)
               PROVE  /\ w[n].turn \in 1..Len(ts)
                      /\ ts[w[n].turn].live => w[n].kind \in ProgressKinds
                      /\ \A m \in 1..(n - 1) :
                           w[m].turn = w[n].turn => w[m].kind \in ProgressKinds
    BY DEF EventsOK
  <2>1. /\ q[n + 1].turn \in 1..Len(ts)
        /\ ts[q[n + 1].turn].live => q[n + 1].kind \in ProgressKinds
        /\ \A m \in 1..n : q[m].turn = q[n + 1].turn => q[m].kind \in ProgressKinds
    BY <1>1, <1>3 DEF EventsOK
  <2>2. \A m \in 1..(n - 1) : m \in 1..Len(w) /\ m + 1 \in 1..n
    BY <1>1, <1>2
  <2> QED
    BY <1>3, <2>1, <2>2
<1>5. EngagedIn(b, w, ts) \subseteq EngagedIn(b, q, ts)
  BY <1>3 DEF EngagedIn
<1>6. q[1].turn \in 1..Len(ts) /\ (ts[q[1].turn].live => q[1].kind \in ProgressKinds)
  BY <1>1 DEF EventsOK
<1>7. ts[q[1].turn].codex = b => q[1].turn \in EngagedIn(b, q, ts)
  BY <1>1, <1>6 DEF EngagedIn
<1>8. q[1].kind \notin ProgressKinds => q[1].turn \notin EngagedIn(b, w, ts)
  <2> SUFFICES ASSUME q[1].kind \notin ProgressKinds, NEW n \in 1..Len(w),
                      w[n].turn = q[1].turn
               PROVE  FALSE
    BY <1>6 DEF EngagedIn
  <2>1. n + 1 \in 1..Len(q) /\ q[n + 1].turn = q[1].turn /\ 1 \in 1..((n + 1) - 1)
    BY <1>1, <1>3
  <2> QED
    BY <2>1 DEF EventsOK
<1> QED
  BY <1>1, <1>4, <1>5, <1>6, <1>7, <1>8 DEF w

\* A turn is accepted, and announced in the socket q.
LEMMA AcceptEvents ==
  ASSUME NEW ts \in Seq(TurnRecords), NEW q \in Seq(EventRecords), EventsOK(q, ts),
         NEW r \in TurnRecords, NEW b
  PROVE  LET e == [kind |-> "started", turn |-> Len(ts) + 1]
         IN /\ EventsOK(q, Append(ts, r))
            /\ EventsOK(Append(q, e), Append(ts, r))
            /\ EngagedIn(b, q, Append(ts, r)) \subseteq
                 EngagedIn(b, q, ts) \cup (IF r.codex = b THEN {Len(ts) + 1} ELSE {})
            /\ EngagedIn(b, Append(q, e), Append(ts, r)) \subseteq
                 EngagedIn(b, q, ts) \cup (IF r.codex = b THEN {Len(ts) + 1} ELSE {})
<1> DEFINE e == [kind |-> "started", turn |-> Len(ts) + 1]
           us == Append(ts, r)
           w == Append(q, e)
<1>1. /\ Len(ts) \in Nat /\ Len(us) = Len(ts) + 1 /\ us[Len(ts) + 1] = r
      /\ \A k \in 1..Len(ts) : us[k] = ts[k]
  OBVIOUS
<1>2. /\ Len(q) \in Nat /\ Len(w) = Len(q) + 1 /\ w[Len(q) + 1] = e
      /\ \A n \in 1..Len(q) : w[n] = q[n]
  OBVIOUS
<1>3. e.kind = "started" /\ e.turn = Len(ts) + 1
  OBVIOUS
<1> HIDE DEF us, w, e
<1>4. \A n \in 1..Len(q) : q[n].turn \in 1..Len(ts) /\ q[n].turn # Len(ts) + 1
  BY <1>1 DEF EventsOK
<1>5. EventsOK(q, us)
  BY <1>1, <1>4 DEF EventsOK
<1>6. EventsOK(w, us)
  <2> SUFFICES ASSUME NEW n \in 1..Len(w)
               PROVE  /\ w[n].turn \in 1..Len(us)
                      /\ us[w[n].turn].live => w[n].kind \in ProgressKinds
                      /\ \A m \in 1..(n - 1) :
                           w[m].turn = w[n].turn => w[m].kind \in ProgressKinds
    BY DEF EventsOK
  <2>1. CASE n = Len(q) + 1
    BY <1>1, <1>2, <1>3, <1>4, <2>1 DEF ProgressKinds
  <2>2. CASE n # Len(q) + 1
    <3>1. n \in 1..Len(q) /\ \A m \in 1..(n - 1) : m \in 1..Len(q)
      BY <1>2, <2>2
    <3> QED
      BY <1>2, <1>5, <3>1 DEF EventsOK
  <2> QED
    BY <2>1, <2>2
<1>7. \A k \in 1..Len(us) : k = Len(ts) + 1 \/ (k \in 1..Len(ts) /\ us[k] = ts[k])
  BY <1>1
<1>8. /\ EngagedIn(b, q, us) \subseteq
           EngagedIn(b, q, ts) \cup (IF r.codex = b THEN {Len(ts) + 1} ELSE {})
      /\ EngagedIn(b, w, us) \subseteq
           EngagedIn(b, q, ts) \cup (IF r.codex = b THEN {Len(ts) + 1} ELSE {})
  <2>1. ASSUME NEW k \in 1..Len(ts), NEW n \in 1..Len(w), w[n].turn = k
        PROVE  n \in 1..Len(q) /\ q[n].turn = k
    BY <1>1, <1>2, <1>3, <2>1
  <2> QED
    BY <1>1, <1>7, <2>1 DEF EngagedIn
<1> QED
  BY <1>5, <1>6, <1>8 DEF us, w, e

\* A turn ends, and the end is announced in the socket q.
LEMMA EndingEvents ==
  ASSUME NEW ts \in Seq(TurnRecords), NEW q \in Seq(EventRecords), EventsOK(q, ts),
         OneTerminal, NEW ending \in EndEvents,
         NEW k \in 1..Len(ts), ts[k].live, NEW b
  PROVE  LET us == [ts EXCEPT ![k].live = FALSE]
             es == [n \in 1..Len(ending) |-> [kind |-> ending[n], turn |-> k]]
         IN /\ EventsOK(q, us) /\ EventsOK(q \o es, us)
            /\ EngagedIn(b, q, us) \subseteq EngagedIn(b, q, ts)
            /\ EngagedIn(b, q \o es, us) \subseteq EngagedIn(b, q, ts)
<1> DEFINE us == [ts EXCEPT ![k].live = FALSE]
           es == [n \in 1..Len(ending) |-> [kind |-> ending[n], turn |-> k]]
           w == q \o es
<1>1. ending \in Seq(EventKinds) /\ \A n \in 1..(Len(ending) - 1) : ending[n] \in ProgressKinds
  BY EventAssumption DEF OneTerminal
<1>2. /\ Len(us) = Len(ts) /\ ~us[k].live /\ Len(ts) \in Nat
      /\ \A m \in 1..Len(ts) : us[m].codex = ts[m].codex /\ (us[m].live => ts[m].live)
  BY DEF TurnRecords
<1>3. /\ Len(ending) \in Nat /\ es \in Seq(EventRecords) /\ Len(es) = Len(ending)
      /\ \A n \in 1..Len(ending) : es[n].kind = ending[n] /\ es[n].turn = k
  <2>1. \A n \in 1..Len(ending) : [kind |-> ending[n], turn |-> k] \in EventRecords
    BY <1>1 DEF EventRecords
  <2> QED
    BY <1>1, <2>1
<1> HIDE DEF es
<1>4. /\ Len(q) \in Nat /\ Len(w) = Len(q) + Len(ending)
      /\ \A n \in 1..Len(q) : w[n] = q[n]
      /\ \A n \in 1..Len(ending) : w[Len(q) + n] = es[n]
  <2>a. es \in Seq(EventRecords) /\ q \in Seq(EventRecords)
    BY <1>3
  <2>1. /\ Len(w) = Len(q) + Len(es) /\ Len(q) \in Nat
        /\ \A n \in 1..(Len(q) + Len(es)) :
             w[n] = IF n <= Len(q) THEN q[n] ELSE es[n - Len(q)]
    BY <2>a, ConcatProperties, LenProperties
  <2> HIDE DEF w
  <2>2. ASSUME NEW n \in 1..Len(q) PROVE w[n] = q[n]
    <3>1. n \in 1..(Len(q) + Len(es)) /\ n <= Len(q)
      BY <1>3, <2>1
    <3> QED
      BY <2>1, <3>1
  <2>3. ASSUME NEW n \in 1..Len(ending) PROVE w[Len(q) + n] = es[n]
    <3>1. /\ Len(q) + n \in 1..(Len(q) + Len(es)) /\ ~(Len(q) + n <= Len(q))
          /\ (Len(q) + n) - Len(q) = n
      BY <1>3, <2>1
    <3> QED
      BY <2>1, <3>1
  <2> QED
    BY <1>3, <2>1, <2>2, <2>3
<1> HIDE DEF us, w
<1>5. \A n \in 1..Len(w) :
        \/ n \in 1..Len(q) /\ w[n] = q[n]
        \/ /\ n - Len(q) \in 1..Len(ending) /\ w[n].turn = k
           /\ w[n].kind = ending[n - Len(q)]
  <2> SUFFICES ASSUME NEW n \in 1..Len(w), n \notin 1..Len(q)
               PROVE  /\ n - Len(q) \in 1..Len(ending) /\ w[n].turn = k
                      /\ w[n].kind = ending[n - Len(q)]
    BY <1>4
  <2>1. n - Len(q) \in 1..Len(ending) /\ Len(q) + (n - Len(q)) = n
    BY <1>3, <1>4
  <2> QED
    BY <1>3, <1>4, <2>1
<1>6. EventsOK(q, us)
  BY <1>2 DEF EventsOK
<1>7. \A n \in 1..Len(q) : q[n].turn = k => q[n].kind \in ProgressKinds
  BY DEF EventsOK
<1>8. EventsOK(w, us)
  <2> SUFFICES ASSUME NEW n \in 1..Len(w)
               PROVE  /\ w[n].turn \in 1..Len(us)
                      /\ us[w[n].turn].live => w[n].kind \in ProgressKinds
                      /\ \A m \in 1..(n - 1) :
                           w[m].turn = w[n].turn => w[m].kind \in ProgressKinds
    BY DEF EventsOK
  <2>1. \A m \in 1..(n - 1) : m \in 1..Len(w)
    BY <1>3, <1>4
  <2>2. CASE n \in 1..Len(q) /\ w[n] = q[n]
    <3>1. \A m \in 1..(n - 1) : w[m] = q[m]
      BY <1>4, <2>2
    <3> QED
      BY <1>6, <2>2, <3>1 DEF EventsOK
  <2>3. CASE /\ n - Len(q) \in 1..Len(ending) /\ w[n].turn = k
             /\ w[n].kind = ending[n - Len(q)]
    <3>1. ASSUME NEW m \in 1..(n - 1), w[m].turn = k PROVE w[m].kind \in ProgressKinds
      <4>1. CASE m \in 1..Len(q) /\ w[m] = q[m]
        BY <1>7, <3>1, <4>1
      <4>2. CASE m - Len(q) \in 1..Len(ending) /\ w[m].kind = ending[m - Len(q)]
        <5>1. m - Len(q) \in 1..(Len(ending) - 1)
          BY <1>3, <1>4, <2>3, <4>2
        <5> QED
          BY <1>1, <4>2, <5>1
      <4> QED
        BY <1>5, <2>1, <4>1, <4>2
    <3> QED
      BY <1>2, <2>3, <3>1
  <2> QED
    BY <1>5, <2>2, <2>3
<1>9. EngagedIn(b, q, us) \subseteq EngagedIn(b, q, ts)
  BY <1>2 DEF EngagedIn
<1>10. EngagedIn(b, w, us) \subseteq EngagedIn(b, q, ts)
  BY <1>2, <1>5 DEF EngagedIn
<1> QED
  BY <1>6, <1>8, <1>9, <1>10 DEF us, es, w

-----------------------------------------------------------------------------
Engaged(t) == EngagedIn(codex[t], inbox[t], turns)

StartPcs == {"stage", "ensure", "turn", "rebind", "list"}

Undisturbed == /\ \A h \in Handlers : cmd[h] = NoCmd
               /\ \A i \in Issues : status[i] # "deleted"

\* codexMap is the inverse of codex.
BindInv ==
  /\ bindings \in 0..MaxBindings
  /\ \A t \in Threads : codex[t] # 0 => codex[t] \in 1..bindings /\ codexMap[codex[t]] = t
  /\ \A b \in Bindings, t \in Threads : codexMap[b] = t => codex[t] = b

TurnsInv ==
  /\ \A k \in 1..Len(turns) : turns[k].codex \in 1..bindings /\ turns[k].issue \in Issues
  /\ OneLiveTurn
  /\ \A t \in Threads : EventsOK(inbox[t], turns)

ThreadInv(t) ==
  LET r == lane[t]["queue"]
  IN /\ \A k, m \in Engaged(t) : k = m
     /\ \A k \in Engaged(t) : /\ turns[k].issue = active[t] /\ turns[k].issue = activeP[t]
                              /\ status[turns[k].issue] \in LiveStatuses
                              /\ handling[t] = NoEvent /\ r.pc \notin StartPcs
     /\ r.pc \in {"stage", "ensure"} => status[r.issue] = "queued"
     /\ r.pc \in {"ensure", "rebind"} => codex[t] = 0
     /\ r.pc = "turn" => codex[t] # 0 /\ r.bind = codex[t]
     /\ r.pc \in {"turn", "rebind"} => /\ r.issue \in Issues
                                       /\ r.issue = active[t] /\ r.issue = activeP[t]
                                       /\ status[r.issue] \in LiveStatuses
     /\ r.pc \in StartPcs => handling[t] = NoEvent
     /\ handling[t] # NoEvent => active[t] # NoIssue

TurnInv == /\ Undisturbed /\ BindInv /\ TurnsInv
           /\ \A t \in Threads : ThreadInv(t)

TurnHyp == LineHyp /\ TurnInv

\* No issue of the thread stops running or waiting to run.
CalmFor(t) ==
  \A i \in Own(t) : /\ status[i] \in LiveStatuses => status'[i] \in LiveStatuses
                    /\ status[i] = "queued" => status'[i] = "queued"

\* Only queued issues start to run.
RunStep ==
  \A i \in Issues :
    status'[i] \in LiveStatuses => status[i] \in LiveStatuses \cup {"queued"}

\* A notification ends the issue of its turn.
EndStep ==
  \A t \in Threads : \A i \in Own(t) :
    /\ Len(inbox'[t]) < Len(inbox[t])
    /\ status[i] \in LiveStatuses
    /\ status'[i] \in TerminalStatuses
    => turns[Head(inbox[t]).turn].issue = i

TurnStep == TurnInv' /\ RunStep /\ EndStep

LEMMA SameSocketEnds ==
  ASSUME TypeOK, UNCHANGED inbox
  PROVE  EndStep
BY InboxTypes DEF EndStep

\* A thread of which a step changes nothing but that events leave its socket.
LEMMA SameThread ==
  ASSUME TurnHyp, NEW t \in Threads,
         Engaged(t)' \subseteq Engaged(t),
         \A k \in Engaged(t) : turns'[k].issue = turns[k].issue,
         active'[t] = active[t], activeP'[t] = activeP[t], codex'[t] = codex[t],
         handling'[t] = handling[t], lane'[t]["queue"] = lane[t]["queue"],
         CalmFor(t)
  PROVE  ThreadInv(t)'
<1> DEFINE r == lane[t]["queue"]
<1>1. ThreadInv(t)
  BY DEF TurnHyp, TurnInv
<1>2. /\ r.pc \in {"stage", "ensure"} => r.issue \in Own(t)
      /\ r.pc \in {"turn", "rebind"} => r.issue \in OwnOrNone(t)
  BY DEF TurnHyp, LineHyp, LineInv, TakenOut, TypeOK, LaneOK, Lanes, LaneRecords
<1>3. r.pc \in {"turn", "rebind"} => r.issue \in Own(t)
  BY <1>1, <1>2, NoIssueAssumption DEF ThreadInv, OwnOrNone
<1>4. \A k \in Engaged(t) : turns[k].issue \in Own(t)
  BY <1>1, NoIssueAssumption
     DEF ThreadInv, TurnHyp, LineHyp, TypeOK, ActiveOK, OwnOrNone, TurnInv, TurnsInv,
         Engaged, EngagedIn
<1> QED
  BY <1>1, <1>2, <1>3, <1>4 DEF ThreadInv, CalmFor

\* Steps that leave the turns, the sockets and the bindings alone.
LEMMA QuietTurns ==
  ASSUME TurnHyp, UNCHANGED <<codex, codexMap, bindings, turns, inbox, cmd>>,
         \A i \in Issues : status'[i] # "deleted"
  PROVE  /\ Undisturbed' /\ BindInv' /\ TurnsInv'
         /\ \A t \in Threads : Engaged(t)' = Engaged(t)
<1>1. Undisturbed /\ BindInv /\ TurnsInv
  BY DEF TurnHyp, TurnInv
<1>2. Undisturbed'
  BY <1>1 DEF Undisturbed
<1>3. BindInv'
  BY <1>1 DEF BindInv
<1>4. TurnsInv'
  BY <1>1 DEF TurnsInv, OneLiveTurn
<1> QED
  BY <1>2, <1>3, <1>4 DEF Engaged

\* A step of one thread that leaves those alone.
LEMMA OneThread ==
  ASSUME TurnHyp, UNCHANGED <<codex, codexMap, bindings, turns, inbox, cmd>>,
         NEW t \in Threads,
         \A i \in Issues : status'[i] = status[i] \/ (i \in Own(t) /\ status'[i] # "deleted"),
         \A p \in Threads : p # t =>
           /\ active'[p] = active[p] /\ activeP'[p] = activeP[p]
           /\ handling'[p] = handling[p] /\ lane'[p]["queue"] = lane[p]["queue"],
         Engaged(t)' = Engaged(t) => ThreadInv(t)',
         RunStep
  PROVE  TurnStep
<1>1. \A i \in Issues : status[i] # "deleted"
  BY DEF TurnHyp, TurnInv, Undisturbed
<1>2. /\ Undisturbed' /\ BindInv' /\ TurnsInv'
      /\ \A p \in Threads : Engaged(p)' = Engaged(p)
  BY <1>1, QuietTurns
<1>3. ASSUME NEW p \in Threads PROVE ThreadInv(p)'
  <2>1. CASE p = t
    BY <1>2, <2>1
  <2>2. CASE p # t
    <3>1. CalmFor(p)
      BY <2>2 DEF CalmFor, Own
    <3>2. /\ Engaged(p)' \subseteq Engaged(p)
          /\ \A k \in Engaged(p) : turns'[k].issue = turns[k].issue
          /\ codex'[p] = codex[p]
      BY <1>2
    <3> QED
      BY <2>2, <3>1, <3>2, SameThread
  <2> QED
    BY <2>1, <2>2
<1>4. EndStep
  BY SameSocketEnds DEF TurnHyp, LineHyp
<1> QED
  BY <1>2, <1>3, <1>4 DEF TurnStep, TurnInv

\* A step that touches neither locks nor pipelines.
LEMMA QuietThreads ==
  ASSUME TurnHyp,
         UNCHANGED <<codex, codexMap, bindings, turns, inbox, cmd, active, activeP,
                     handling, lane>>,
         \A i \in Issues : /\ status'[i] # "deleted"
                           /\ status'[i] \in LiveStatuses => status'[i] = status[i],
         \A t \in Threads : CalmFor(t)
  PROVE  TurnStep
<1>1. /\ Undisturbed' /\ BindInv' /\ TurnsInv'
      /\ \A p \in Threads : Engaged(p)' = Engaged(p)
  BY QuietTurns
<1>2. \A t \in Threads : ThreadInv(t)'
  BY <1>1, SameThread
<1>3. EndStep /\ RunStep
  BY SameSocketEnds DEF TurnHyp, LineHyp, RunStep
<1> QED
  BY <1>1, <1>2, <1>3 DEF TurnStep, TurnInv

-----------------------------------------------------------------------------
LEMMA QuietStep ==
  ASSUME TurnHyp,
         \/ UNCHANGED vars \/ AppServerReady
         \/ \E i \in Issues : CreateThreadIssue(i)
         \/ \E t \in Threads : ExpireStop(t)
         \/ \E t \in Threads, i, j \in Issues : StartThreadIssues(t, i, j)
         \/ \E t \in Threads, i \in Issues : ReorderThreadIssues(t, i)
  PROVE  TurnStep
<1>1. /\ StatusOK /\ CmdOK /\ PastInv
      /\ \A i \in Issues : status[i] # "deleted"
  BY DEF TurnHyp, LineHyp, TypeOK, TurnInv, Undisturbed
<1>2. /\ UNCHANGED <<codex, codexMap, bindings, turns, inbox, active, activeP,
                     handling, lane>>
      /\ cmd' = cmd
  <2>1. \A t \in Threads : Freeze(t) = cmd
    BY <1>1, FreezeNothing
  <2> QED
    BY <2>1 DEF vars, AppServerReady, CreateThreadIssue, ExpireStop, StartThreadIssues,
         ReorderThreadIssues
<1>3. ASSUME NEW i \in Issues
      PROVE  /\ status'[i] # "deleted"
             /\ status'[i] \in LiveStatuses => status'[i] = status[i]
             /\ status[i] \in LiveStatuses => status'[i] \in LiveStatuses
             /\ status[i] = "queued" => status'[i] = "queued"
  <2>1. CASE UNCHANGED status
    BY <1>1, <2>1
  <2>2. CASE \E j \in Issues : CreateThreadIssue(j)
    BY <1>1, <2>2 DEF CreateThreadIssue, StatusOK, LiveStatuses
  <2>3. CASE \E t \in Threads, j, k \in Issues : StartThreadIssues(t, j, k)
    BY <1>1, <2>3 DEF StartThreadIssues, Eligible, StatusOK, LiveStatuses
  <2> QED
    BY <2>1, <2>2, <2>3 DEF vars, AppServerReady, ExpireStop, ReorderThreadIssues
<1>4. \A t \in Threads : CalmFor(t)
  BY <1>3 DEF CalmFor, Own
<1> QED
  BY <1>2, <1>3, <1>4, QuietThreads

\* The pipeline of a thread moves between its resting points, and a running issue
\* that is tracked by nobody is adopted.
LEMMA RestingThread ==
  ASSUME TurnHyp, NEW t \in Threads, Engaged(t)' = Engaged(t),
         UNCHANGED <<status, turns>>, activeP'[t] = activeP[t], codex'[t] = codex[t],
         handling'[t] = handling[t], active'[t] \in Adoptable(t, active[t]) \cup {active[t]},
         \/ lane'[t]["queue"].pc \notin StartPcs
         \/ lane'[t]["queue"] = lane[t]["queue"]
  PROVE  ThreadInv(t)'
<1>1. ThreadInv(t) /\ NoIssue \notin Issues /\ active[t] \in IssueOrNone
  BY NoIssueAssumption DEF TurnHyp, TurnInv, LineHyp, TypeOK, ActiveOK
<1>2. \A k \in Engaged(t) : turns[k].issue \in Issues
  BY DEF TurnHyp, TurnInv, TurnsInv, Engaged, EngagedIn
<1>3. /\ active'[t] = active[t] \/ ~(active[t] \in Issues /\ status[active[t]] \in LiveStatuses)
      /\ active[t] # NoIssue => active'[t] # NoIssue
  BY <1>1 DEF Adoptable, RunningIn
<1>4. active'[t] # active[t] =>
        Engaged(t) = {} /\ lane[t]["queue"].pc \notin {"turn", "rebind"}
  BY <1>1, <1>2, <1>3 DEF ThreadInv
<1>5. CASE lane'[t]["queue"].pc \notin StartPcs
  BY <1>1, <1>3, <1>4, <1>5 DEF ThreadInv, StartPcs
<1>6. CASE lane'[t]["queue"] = lane[t]["queue"]
  BY <1>1, <1>3, <1>4, <1>6 DEF ThreadInv
<1> QED
  BY <1>5, <1>6

LEMMA QueueMoves ==
  ASSUME TurnHyp, NEW t \in Threads,
         ScheduleQueue(t) \/ ProcessIssueQueue(t) \/ LoopProcessIssueQueue(t)
           \/ WatchRunningIssues(t)
  PROVE  TurnStep
<1>1. LaneOK /\ ActiveOK /\ \A i \in Issues : status[i] # "deleted"
  BY DEF TurnHyp, LineHyp, TypeOK, TurnInv, Undisturbed
<1>2. UNCHANGED <<status, codex, codexMap, bindings, turns, inbox, cmd, activeP, handling>>
  BY DEF ScheduleQueue, ProcessIssueQueue, LoopProcessIssueQueue, WatchRunningIssues,
         contVars, envVars
<1>3. /\ \A p \in Threads : p # t => active'[p] = active[p]
      /\ active'[t] \in Adoptable(t, active[t]) \cup {active[t]}
  BY <1>1 DEF ScheduleQueue, ProcessIssueQueue, LoopProcessIssueQueue,
       WatchRunningIssues, ActiveOK
<1>4. /\ \A p \in Threads : p # t => lane'[p]["queue"] = lane[p]["queue"]
      /\ \/ lane'[t]["queue"].pc \notin StartPcs
         \/ lane'[t]["queue"] = lane[t]["queue"]
  <2>1. CASE UNCHANGED lane
    BY <2>1
  <2>2. ASSUME NEW r, r.pc \in {"idle", "once"}, SetLane(t, "queue", r)
        PROVE  /\ \A p \in Threads : p # t => lane'[p]["queue"] = lane[p]["queue"]
               /\ lane'[t]["queue"].pc \notin StartPcs
    <3>1. /\ lane'[t]["queue"] = r
          /\ \A p \in Threads : p # t => lane'[p] = lane[p]
      BY <1>1, <2>2, SetQueueLane
    <3> QED
      BY <2>2, <3>1 DEF StartPcs
  <2>3. CASE RequestProcessing(t, "recover")
    <3>1. PICK w : w = [IdleLane EXCEPT !.pc = "once", !.mode = "recover"]
      OBVIOUS
    <3>2. w.pc = "once"
      BY <3>1 DEF IdleLane
    <3>3. SetLane(t, "queue", w) \/ UNCHANGED lane
      BY <2>3, <3>1 DEF RequestProcessing
    <3> QED
      BY <2>1, <2>2, <3>2, <3>3
  <2>4. CASE LoopProcessIssueQueue(t)
    <3>1. lane[t]["queue"] \in LaneRecords(t)
      BY <1>1 DEF LaneOK, Lanes
    <3>2. PICK w : w = [lane[t]["queue"] EXCEPT !.pc = "once"]
      OBVIOUS
    <3>3. w.pc = "once" /\ IdleLane.pc = "idle"
      BY <3>1, <3>2 DEF IdleLane, LaneRecords
    <3>4. SetLane(t, "queue", w) \/ SetLane(t, "queue", IdleLane)
      BY <2>4, <3>2 DEF LoopProcessIssueQueue
    <3> QED
      BY <2>2, <3>3, <3>4
  <2> QED
    BY <2>1, <2>3, <2>4 DEF ScheduleQueue, ProcessIssueQueue, WatchRunningIssues, contVars
<1>5. ASSUME Engaged(t)' = Engaged(t) PROVE ThreadInv(t)'
  BY <1>2, <1>3, <1>4, <1>5, RestingThread
<1> QED
  BY <1>1, <1>2, <1>3, <1>4, <1>5, OneThread DEF RunStep

\* The locks of the other threads, when those of one thread are released or moved.
LEMMA OtherLocks ==
  ASSUME ActiveOK, NEW t \in Threads, NEW a, active' = [active EXCEPT ![t] = a],
         activeP' \in {activeP, ClearedP(t), [ClearedP(t) EXCEPT ![t] = NoIssue]}
  PROVE  /\ active'[t] = a
         /\ \A p \in Threads : p # t => active'[p] = active[p] /\ activeP'[p] = activeP[p]
<1>1. active'[t] = a /\ \A p \in Threads : p # t => active'[p] = active[p]
  BY DEF ActiveOK
<1>2. ASSUME NEW p \in Threads, p # t PROVE activeP'[p] = activeP[p]
  <2>1. ClearedP(t)[p] = activeP[p]
    BY <1>2, NoIssueAssumption DEF ClearedP, ActiveOK, OwnOrNone, Own
  <2>2. [ClearedP(t) EXCEPT ![t] = NoIssue][p] = ClearedP(t)[p]
    BY <1>2 DEF ClearedP
  <2> QED
    BY <2>1, <2>2
<1> QED
  BY <1>1, <1>2

\* A thread that starts nothing and on which no turn is engaged.
LEMMA FreeThread ==
  ASSUME NEW t, Engaged(t)' = {},
         lane'[t]["queue"].pc \notin {"stage", "ensure", "turn", "rebind"},
         \/ handling'[t] = NoEvent
         \/ active'[t] # NoIssue /\ lane'[t]["queue"].pc \notin StartPcs
  PROVE  ThreadInv(t)'
BY DEF ThreadInv, StartPcs

LEMMA PreparedThread ==
  ASSUME TurnHyp, NEW t \in Threads, lane[t]["queue"].pc \in StartPcs
  PROVE  Engaged(t) = {} /\ handling[t] = NoEvent
BY DEF TurnHyp, TurnInv, ThreadInv

\* A start that failed, or the repair that follows one.
LEMMA GivesUp ==
  ASSUME TurnHyp, NEW t \in Threads, NEW l \in Lanes,
         \/ \E recoverable \in BOOLEAN : StartFails(t, l, recoverable)
         \/ StartMissing(t, l)
         \/ \E refresh \in BOOLEAN : NormalizeListed(t, l, refresh)
         \/ NormalizeFails(t, l)
  PROVE  TurnStep
<1> USE DEF LineHyp, TurnHyp
<1>1. LaneOK /\ ActiveOK /\ CmdOK /\ \A i \in Issues : status[i] # "deleted"
  BY DEF TypeOK, TurnInv, Undisturbed
<1>2. l = "queue" /\ lane[t]["queue"].pc \in StartPcs
  BY QueueLane DEF StartFails, StartMissing, NormalizeListed, NormalizeFails, StartPcs
<1>3. Engaged(t) = {} /\ handling[t] = NoEvent
  BY <1>2, PreparedThread
<1>4. UNCHANGED <<codex, codexMap, bindings, turns, inbox, handling>>
  BY DEF StartFails, StartMissing, NormalizeListed, NormalizeFails, envVars
<1>5. /\ UNCHANGED <<status, cmd>>
      /\ \E rec : /\ SetLane(t, "queue", rec)
                  /\ rec.pc \notin {"stage", "ensure", "turn", "rebind"}
      /\ \A p \in Threads : p # t => active'[p] = active[p] /\ activeP'[p] = activeP[p]
  <2>1. CASE NormalizeFails(t, l)
    BY <1>1, <1>2, <2>1, RestingLane DEF NormalizeFails
  <2>2. CASE (\E recoverable \in BOOLEAN : StartFails(t, l, recoverable)) \/ StartMissing(t, l)
    <3>1. UNCHANGED <<status, cmd, active, activeP>>
      BY <2>2 DEF StartFails, StartMissing
    <3>2. PICK recoverable \in BOOLEAN : StartThrows(t, "queue", recoverable)
      BY <1>2, <2>2 DEF StartFails, StartMissing
    <3>3. \/ SetLane(t, "queue", Returned(t, "queue"))
          \/ SetLane(t, "queue", [IdleLane EXCEPT !.pc = "list", !.mode = "nested"])
          \/ SetLane(t, "queue", IdleLane)
      BY <3>2 DEF StartThrows
    <3> QED
      BY <1>1, <3>1, <3>3, RestingLane
  <2>3. ASSUME NEW refresh \in BOOLEAN, NormalizeListed(t, l, refresh)
        PROVE  <1>5!:
    <3>1. PICK a \in Tracked(t) :
            /\ active' = [active EXCEPT ![t] = a]
            /\ IF a = NoIssue
               THEN Repair(t, "queue", refresh)
               ELSE SetLane(t, "queue", IdleLane) /\ UNCHANGED <<queue, status, cmd>>
      BY <1>2, <2>3 DEF NormalizeListed
    <3>2. activeP' \in {activeP, ClearedP(t)}
      BY <2>3 DEF NormalizeListed, ClearInvalidP
    <3>3. \A p \in Threads : p # t => active'[p] = active[p] /\ activeP'[p] = activeP[p]
      BY <1>1, <3>1, <3>2, OtherLocks
    <3>4. CASE a # NoIssue
      BY <1>1, <3>1, <3>3, <3>4, RestingLane
    <3>5. CASE a = NoIssue
      <4>1. PICK q : /\ UNCHANGED status
                     /\ cmd' \in {cmd, Freeze(t)}
                     /\ Resume(t, "queue", q)
        BY <3>1, <3>5 DEF Repair, Promotions
      <4>2. cmd' = cmd
        BY <1>1, <4>1, FreezeNothing
      <4>3. \/ SetLane(t, "queue", IdleLane)
            \/ SetLane(t, "queue", [lane[t]["queue"] EXCEPT !.pc = "once"])
        BY <4>1 DEF Resume
      <4> QED
        BY <1>1, <3>3, <4>1, <4>2, <4>3, RestingLane
    <3> QED
      BY <3>4, <3>5
  <2> QED
    BY <2>1, <2>2, <2>3
<1>6. PICK rec : /\ SetLane(t, "queue", rec)
                 /\ rec.pc \notin {"stage", "ensure", "turn", "rebind"}
  BY <1>5
<1>7. lane'[t]["queue"] = rec /\ \A p \in Threads : p # t => lane'[p] = lane[p]
  BY <1>1, <1>6, SetQueueLane
<1>8. ASSUME Engaged(t)' = Engaged(t) PROVE ThreadInv(t)'
  BY <1>3, <1>4, <1>6, <1>7, <1>8, FreeThread
<1>9. RunStep
  BY <1>5 DEF RunStep
<1> QED
  BY <1>1, <1>4, <1>5, <1>7, <1>8, <1>9, OneThread

\* The thread is released after its turn has ended.
LEMMA SettleStep ==
  ASSUME TurnHyp, NEW t \in Threads, SettleTerminal(t)
  PROVE  TurnStep
<1> USE DEF LineHyp, TurnHyp
<1>1. EventOK /\ ActiveOK /\ \A i \in Issues : status[i] # "deleted"
  BY DEF TypeOK, TurnInv, Undisturbed
<1>2. /\ UNCHANGED <<status, codex, codexMap, bindings, turns, inbox, cmd, lane>>
      /\ active' = [active EXCEPT ![t] = NoIssue]
      /\ activeP' = [ClearedP(t) EXCEPT ![t] = NoIssue]
      /\ handling' = [handling EXCEPT ![t] = NoEvent]
      /\ handling[t] # NoEvent
  BY DEF SettleTerminal, envVars
<1>3. Engaged(t) = {} /\ lane[t]["queue"].pc \notin StartPcs
  BY <1>2 DEF TurnInv, ThreadInv
<1>4. handling'[t] = NoEvent /\ \A p \in Threads : p # t => handling'[p] = handling[p]
  BY <1>1, <1>2 DEF EventOK
<1>5. \A p \in Threads : p # t => active'[p] = active[p] /\ activeP'[p] = activeP[p]
  BY <1>1, <1>2, OtherLocks
<1>6. ASSUME Engaged(t)' = Engaged(t) PROVE ThreadInv(t)'
  BY <1>2, <1>3, <1>4, <1>6, FreeThread DEF StartPcs
<1>7. RunStep
  BY <1>2 DEF RunStep
<1> QED
  BY <1>1, <1>2, <1>4, <1>5, <1>6, <1>7, OneThread

\* The first of the queue is taken out to be prepared: nothing is engaged.
LEMMA TakeOut ==
  ASSUME TurnHyp, NEW t \in Threads, NEW l \in Lanes, ProcessIssueQueueOnce(t, l)
  PROVE  TurnStep
<1> USE DEF LineHyp, TurnHyp
<1>1. /\ LaneOK /\ ActiveOK /\ \A i \in Issues : status[i] # "deleted"
      /\ l = "queue" /\ lane[t]["queue"].pc = "once"
  BY QueueLane DEF TypeOK, TurnInv, Undisturbed, ProcessIssueQueueOnce
<1>2. PICK a \in Adoptable(t, active[t]) :
        /\ active' = [active EXCEPT ![t] = a]
        /\ IF MayShift(t, a)
           THEN /\ queue' = [queue EXCEPT ![t] = Tail(queue[t])]
                /\ SetLane(t, "queue", [lane[t]["queue"] EXCEPT !.pc = "stage",
                                    !.issue = Head(queue[t]),
                                    !.found = HasCard(Head(queue[t]))])
           ELSE SetLane(t, "queue", Returned(t, "queue")) /\ UNCHANGED queue
  BY <1>1 DEF ProcessIssueQueueOnce
<1>3. UNCHANGED <<status, codex, codexMap, bindings, turns, inbox, cmd, handling, activeP>>
  BY DEF ProcessIssueQueueOnce, envVars
<1>4. active'[t] = a /\ \A p \in Threads : p # t => active'[p] = active[p]
  BY <1>1, <1>2, <1>3, OtherLocks
<1>5. PICK rec : /\ SetLane(t, "queue", rec)
                 /\ \/ rec.pc = "loop"
                    \/ /\ MayShift(t, a) /\ rec.pc = "stage"
                       /\ rec.issue = Head(queue[t])
  <2>1. CASE MayShift(t, a)
    <3>1. PICK w : w = [lane[t]["queue"] EXCEPT !.pc = "stage", !.issue = Head(queue[t]),
                                                !.found = HasCard(Head(queue[t]))]
      OBVIOUS
    <3>2. lane[t]["queue"] \in LaneRecords(t)
      BY <1>1 DEF LaneOK
    <3>3. w.pc = "stage" /\ w.issue = Head(queue[t])
      BY <3>1, <3>2 DEF LaneRecords
    <3>4. SetLane(t, "queue", w)
      BY <1>2, <2>1, <3>1
    <3> QED
      BY <2>1, <3>3, <3>4
  <2>2. CASE ~MayShift(t, a)
    <3>1. Returned(t, "queue").pc = "loop"
      BY DEF Returned, IdleLane
    <3> QED
      BY <1>2, <2>2, <3>1
  <2> QED
    BY <2>1, <2>2
<1>6. lane'[t]["queue"] = rec /\ \A p \in Threads : p # t => lane'[p] = lane[p]
  BY <1>1, <1>5, SetQueueLane
<1>7. ASSUME Engaged(t)' = Engaged(t) PROVE ThreadInv(t)'
  <2>1. CASE rec.pc = "loop"
    BY <1>2, <1>3, <1>4, <1>6, <1>7, <2>1, RestingThread DEF StartPcs
  <2>2. CASE rec.pc # "loop"
    <3>1. a = NoIssue /\ queue[t] # <<>> /\ rec.pc = "stage" /\ rec.issue = Head(queue[t])
      BY <1>5, <2>2 DEF MayShift
    <3>2. active[t] = NoIssue /\ RunningIn(t) = {}
      BY <1>2, <3>1, NoIssueAssumption DEF Adoptable, RunningIn
    <3>3. Engaged(t) = {} /\ handling[t] = NoEvent
      BY <3>2, NoIssueAssumption DEF TurnInv, TurnsInv, ThreadInv, Engaged, EngagedIn
    <3>4. Head(queue[t]) \in ToSet(queue[t])
      BY <3>1, QueueFacts, TailEntries
    <3>5. status[rec.issue] = "queued"
      BY <3>1, <3>4, QueueFacts DEF LineInv, QueuedIn
    <3> QED
      BY <1>3, <1>6, <1>7, <3>1, <3>3, <3>5 DEF ThreadInv, StartPcs
  <2> QED
    BY <2>1, <2>2
<1>8. RunStep
  BY <1>3 DEF RunStep
<1> QED
  BY <1>1, <1>3, <1>4, <1>6, <1>7, <1>8, OneThread

-----------------------------------------------------------------------------
(***************************************************************************)
(* Bindings change, and turns are accepted                                 *)
(***************************************************************************)

\* A step of one thread, with what it does to its binding and its turns.
LEMMA ThreadStep ==
  ASSUME TurnHyp, NEW t \in Threads, UNCHANGED cmd, BindInv', TurnsInv',
         \A i \in Issues : status'[i] = status[i] \/ (i \in Own(t) /\ status'[i] # "deleted"),
         \A p \in Threads : p # t =>
           /\ active'[p] = active[p] /\ activeP'[p] = activeP[p] /\ codex'[p] = codex[p]
           /\ handling'[p] = handling[p] /\ lane'[p] = lane[p]
           /\ Engaged(p)' \subseteq Engaged(p),
         \A k \in 1..Len(turns) : turns'[k].issue = turns[k].issue,
         ThreadInv(t)', RunStep, EndStep
  PROVE  TurnStep
<1>1. Undisturbed'
  BY DEF TurnHyp, TurnInv, Undisturbed
<1>2. ASSUME NEW p \in Threads, p # t PROVE ThreadInv(p)'
  <2>1. CalmFor(p)
    BY <1>2 DEF CalmFor, Own
  <2>2. \A k \in Engaged(p) : turns'[k].issue = turns[k].issue
    BY DEF Engaged, EngagedIn
  <2> QED
    BY <1>2, <2>1, <2>2, SameThread
<1> QED
  BY <1>1, <1>2 DEF TurnStep, TurnInv

\* A new Codex thread: no turn has ever run on it.
LEMMA BindTurns ==
  ASSUME TurnHyp, NEW t \in Threads, Bind(t), codex[t] = 0, UNCHANGED <<inbox, turns>>
  PROVE  /\ BindInv' /\ TurnsInv' /\ Engaged(t)' = {}
         /\ codex'[t] = bindings + 1 /\ codex'[t] # 0
         /\ \A p \in Threads : p # t => codex'[p] = codex[p] /\ Engaged(p)' = Engaged(p)
<1> USE DEF TurnHyp, LineHyp, TurnInv
<1>1. /\ bindings \in Nat /\ bindings < MaxBindings /\ bindings' = bindings + 1
      /\ codex' = [codex EXCEPT ![t] = bindings + 1]
      /\ codexMap' = [codexMap EXCEPT ![bindings + 1] = t]
      /\ MaxBindings \in Nat
  BY BoundAssumption DEF Bind, BindInv
<1>2. bindings + 1 \in Bindings
  BY <1>1 DEF Bindings
<1>3. /\ codex'[t] = bindings + 1 /\ codex'[t] # 0
      /\ \A p \in Threads : p # t => codex'[p] = codex[p]
  BY <1>1 DEF TypeOK, BindingOK
<1>4. /\ codexMap'[bindings + 1] = t
      /\ \A b \in Bindings : b # bindings + 1 => codexMap'[b] = codexMap[b]
  BY <1>1, <1>2 DEF TypeOK, BindingOK
<1>5. BindInv'
  <2>1. ASSUME NEW p \in Threads, codex'[p] # 0
        PROVE  codex'[p] \in 1..bindings' /\ codexMap'[codex'[p]] = p
    <3>1. CASE p = t
      BY <1>1, <1>3, <1>4, <3>1
    <3>2. CASE p # t
      <4>1. codex[p] \in 1..bindings /\ codexMap[codex[p]] = p
        BY <1>3, <2>1, <3>2 DEF BindInv
      <4>2. codex[p] \in Bindings /\ codex[p] # bindings + 1
        BY <1>1, <4>1 DEF Bindings
      <4> QED
        BY <1>1, <1>3, <1>4, <3>2, <4>1, <4>2
    <3> QED
      BY <3>1, <3>2
  <2>2. ASSUME NEW b \in Bindings, NEW p \in Threads, codexMap'[b] = p
        PROVE  codex'[p] = b
    <3>1. CASE b = bindings + 1
      BY <1>3, <1>4, <2>2, <3>1
    <3>2. CASE b # bindings + 1
      <4>1. codex[p] = b /\ b # 0
        BY <1>4, <2>2, <3>2 DEF BindInv, Bindings
      <4> QED
        BY <1>3, <4>1
    <3> QED
      BY <3>1, <3>2
  <2> QED
    BY <1>1, <2>1, <2>2 DEF BindInv
<1>6. \A k \in 1..Len(turns) : turns[k].codex # bindings + 1 /\ turns[k].codex \in 1..bindings'
  BY <1>1 DEF TurnsInv
<1>7. TurnsInv'
  BY <1>6 DEF TurnsInv, OneLiveTurn
<1>8. Engaged(t)' = {}
  BY <1>3, <1>6 DEF Engaged, EngagedIn
<1> QED
  BY <1>3, <1>5, <1>7, <1>8 DEF Engaged

\* The binding of a thread is dropped.
LEMMA InvalidTurns ==
  ASSUME TurnHyp, NEW t \in Threads, Invalidate(t), UNCHANGED bindings
  PROVE  /\ BindInv' /\ codex'[t] = 0
         /\ \A p \in Threads : p # t => codex'[p] = codex[p]
         /\ (\A k \in 1..Len(turns') : turns'[k].codex # 0) => Engaged(t)' = {}
<1> USE DEF TurnHyp, LineHyp, TurnInv
<1>1. /\ codex'[t] = 0
      /\ \A p \in Threads : p # t => codex'[p] = codex[p]
      /\ \A b \in Bindings : codexMap'[b] = IF b = codex[t] THEN NoThread ELSE codexMap[b]
  BY DEF Invalidate, TypeOK, BindingOK
<1>2. BindInv'
  <2>1. ASSUME NEW p \in Threads, codex'[p] # 0
        PROVE  codex'[p] \in 1..bindings' /\ codexMap'[codex'[p]] = p
    <3>1. p # t /\ codex'[p] = codex[p] /\ codex[p] \in 1..bindings /\ codexMap[codex[p]] = p
      BY <1>1, <2>1 DEF BindInv
    <3>2. codex[p] \in Bindings
      BY <3>1, BoundAssumption DEF BindInv, Bindings
    <3>3. codex[p] # codex[t]
      BY <3>1 DEF BindInv
    <3> QED
      BY <1>1, <3>1, <3>2, <3>3
  <2>2. ASSUME NEW b \in Bindings, NEW p \in Threads, codexMap'[b] = p
        PROVE  codex'[p] = b
    <3>1. b # codex[t] /\ codexMap[b] = p
      BY <1>1, <2>2, NoThreadAssumption
    <3> QED
      BY <1>1, <3>1 DEF BindInv
  <2> QED
    BY <2>1, <2>2 DEF BindInv
<1>3. (\A k \in 1..Len(turns') : turns'[k].codex # 0) => Engaged(t)' = {}
  BY <1>1 DEF Engaged, EngagedIn
<1> QED
  BY <1>1, <1>2, <1>3

\* App-server accepts the turn of the start under way.
LEMMA AcceptTurns ==
  ASSUME TurnHyp, NEW t \in Threads, Accept(t, "queue"), lane[t]["queue"].pc = "turn",
         UNCHANGED bindings
  PROVE  /\ TurnsInv'
         /\ \A p \in Threads : p # t => EngagedIn(codex[p], inbox'[p], turns') \subseteq Engaged(p)
         /\ EngagedIn(codex[t], inbox'[t], turns') \subseteq {Len(turns) + 1}
         /\ Len(turns') = Len(turns) + 1
         /\ turns'[Len(turns) + 1].issue = lane[t]["queue"].issue
         /\ \A k \in 1..Len(turns) : turns'[k].issue = turns[k].issue
         /\ \A p \in Threads : ~(Len(inbox'[p]) < Len(inbox[p]))
<1> USE DEF TurnHyp, LineHyp, TurnInv
<1>1. PICK r : r = [codex |-> lane[t]["queue"].bind, thread |-> t,
                    issue |-> lane[t]["queue"].issue, live |-> TRUE]
  OBVIOUS
<1>2. /\ codex[t] # 0 /\ lane[t]["queue"].bind = codex[t]
      /\ lane[t]["queue"].issue \in Issues /\ codex[t] \in 1..bindings
      /\ Engaged(t) = {}
  BY PreparedThread DEF ThreadInv, BindInv, StartPcs
<1>3. r \in TurnRecords /\ r.codex = codex[t] /\ r.live /\ r.issue = lane[t]["queue"].issue
  BY <1>1, <1>2 DEF TurnRecords, IssueOrNone, BindInv
<1>4. PICK e : e = [kind |-> "started", turn |-> Len(turns) + 1]
  OBVIOUS
<1>5. turns' = Append(turns, r) /\ inbox' = [inbox EXCEPT ![t] = Append(inbox[t], e)]
  BY <1>1, <1>4 DEF Accept
<1>6. turns \in Seq(TurnRecords) /\ \A p \in Threads : inbox[p] \in Seq(EventRecords)
  BY InboxTypes
<1>7. /\ inbox'[t] = Append(inbox[t], e)
      /\ \A p \in Threads : p # t => inbox'[p] = inbox[p]
  BY <1>5 DEF TypeOK, EventOK
<1>8. /\ Len(turns) \in Nat /\ Len(turns') = Len(turns) + 1
      /\ turns'[Len(turns) + 1] = r
      /\ \A k \in 1..Len(turns) : turns'[k] = turns[k]
  BY <1>5, <1>6
<1>9. ASSUME NEW p \in Threads, p # t
      PROVE  /\ EventsOK(inbox'[p], turns')
             /\ EngagedIn(codex[p], inbox'[p], turns') \subseteq Engaged(p)
             /\ ~(Len(inbox'[p]) < Len(inbox[p]))
  <2>1. EventsOK(inbox[p], turns)
    BY DEF TurnsInv
  <2>2. codex[p] # r.codex
    BY <1>2, <1>3, <1>9 DEF BindInv
  <2>3. /\ EventsOK(inbox[p], Append(turns, r))
        /\ EngagedIn(codex[p], inbox[p], Append(turns, r)) \subseteq
             EngagedIn(codex[p], inbox[p], turns) \cup
               (IF r.codex = codex[p] THEN {Len(turns) + 1} ELSE {})
    BY <1>3, <1>6, <2>1, AcceptEvents
  <2>4. inbox'[p] = inbox[p] /\ Len(inbox[p]) \in Nat
    BY <1>6, <1>7, <1>9
  <2> QED
    BY <1>5, <2>2, <2>3, <2>4 DEF Engaged
<1>10. /\ EventsOK(inbox'[t], turns')
       /\ EngagedIn(codex[t], inbox'[t], turns') \subseteq {Len(turns) + 1}
  <2>1. EventsOK(inbox[t], turns)
    BY DEF TurnsInv
  <2>2. /\ EventsOK(Append(inbox[t], e), Append(turns, r))
        /\ EngagedIn(codex[t], Append(inbox[t], e), Append(turns, r)) \subseteq
             EngagedIn(codex[t], inbox[t], turns) \cup
               (IF r.codex = codex[t] THEN {Len(turns) + 1} ELSE {})
    BY <1>3, <1>4, <1>6, <2>1, AcceptEvents
  <2> QED
    BY <1>2, <1>3, <1>5, <1>7, <2>2 DEF Engaged
<1>11. OneLiveTurn'
  <2>1. ASSUME NEW k \in 1..Len(turns), turns[k].live, turns[k].codex = codex[t] PROVE FALSE
    BY <1>2, <2>1 DEF Engaged, EngagedIn
  <2>2. \A k \in 1..Len(turns') : k = Len(turns) + 1 \/ k \in 1..Len(turns)
    BY <1>8
  <2> QED
    BY <1>3, <1>8, <2>1, <2>2 DEF TurnsInv, OneLiveTurn
<1>12. \A k \in 1..Len(turns') : turns'[k].codex \in 1..bindings /\ turns'[k].issue \in Issues
  <2>1. \A k \in 1..Len(turns') : k = Len(turns) + 1 \/ k \in 1..Len(turns)
    BY <1>8
  <2> QED
    BY <1>2, <1>3, <1>8, <2>1 DEF TurnsInv
<1>13. TurnsInv'
  BY <1>9, <1>10, <1>11, <1>12 DEF TurnsInv
<1>14. ~(Len(inbox'[t]) < Len(inbox[t]))
  BY <1>6, <1>7
<1> QED
  BY <1>3, <1>8, <1>9, <1>10, <1>13, <1>14

\* The prepared issue starts to run: it takes both locks.
LEMMA BegunThread ==
  ASSUME TurnHyp, NEW t \in Threads, NEW b, BeginTurn(t, "queue", b),
         lane[t]["queue"].pc \in {"stage", "ensure"}, UNCHANGED <<turns, inbox, handling>>
  PROVE  /\ \A p \in Threads : p # t =>
              active'[p] = active[p] /\ activeP'[p] = activeP[p] /\ lane'[p] = lane[p]
         /\ \A i \in Issues :
              status'[i] = status[i] \/ (i \in Own(t) /\ status'[i] # "deleted")
         /\ RunStep /\ EndStep
         /\ codex'[t] = b /\ b # 0 /\ Engaged(t)' = {} => ThreadInv(t)'
<1> USE DEF TurnHyp, LineHyp
<1> DEFINE i == lane[t]["queue"].issue
<1>1. lane[t]["queue"] \in LaneRecords(t) /\ LaneOK
  BY DEF TypeOK, LaneOK, Lanes
<1>2. i \in Own(t) /\ status[i] = "queued" /\ handling[t] = NoEvent
  BY DEF LineInv, TakenOut, TurnInv, ThreadInv, StartPcs
<1>3. PICK rec : rec = [lane[t]["queue"] EXCEPT !.pc = "turn", !.bind = b]
  OBVIOUS
<1>4. rec.pc = "turn" /\ rec.issue = i /\ rec.bind = b
  BY <1>1, <1>3 DEF LaneRecords
<1>5. /\ active' = [active EXCEPT ![t] = i] /\ activeP' = [activeP EXCEPT ![t] = i]
      /\ status' = Patched(i, "running") /\ SetLane(t, "queue", rec)
  BY <1>3 DEF BeginTurn
<1> HIDE DEF i
<1>6. lane'[t]["queue"] = rec /\ \A p \in Threads : p # t => lane'[p] = lane[p]
  BY <1>1, <1>5, SetQueueLane
<1>7. /\ active'[t] = i /\ activeP'[t] = i
      /\ \A p \in Threads : p # t => active'[p] = active[p] /\ activeP'[p] = activeP[p]
  BY <1>5 DEF TypeOK, ActiveOK
<1>8. status'[i] = "running" /\ \A j \in Issues : j # i => status'[j] = status[j]
  BY <1>2, <1>5 DEF Patched, HasCard, Own, TypeOK, StatusOK
<1>9. RunStep /\ EndStep
  BY <1>2, <1>8, SameSocketEnds DEF RunStep, LiveStatuses
<1>10. codex'[t] = b /\ b # 0 /\ Engaged(t)' = {} => ThreadInv(t)'
  BY <1>2, <1>4, <1>6, <1>7, <1>8 DEF ThreadInv, Own, LiveStatuses
<1> QED
  BY <1>2, <1>6, <1>7, <1>8, <1>9, <1>10

\* A prepared issue whose thread has no Codex thread yet.
LEMMA PreparesBinding ==
  ASSUME TurnHyp, NEW t \in Threads, NEW l \in Lanes, StageDone(t, l), codex[t] = 0
  PROVE  TurnStep
<1> USE DEF TurnHyp, LineHyp
<1>1. /\ LaneOK /\ \A i \in Issues : status[i] # "deleted"
      /\ l = "queue" /\ lane[t]["queue"].pc = "stage"
      /\ lane[t]["queue"] \in LaneRecords(t)
  BY QueueLane DEF TypeOK, LaneOK, Lanes, TurnInv, Undisturbed, StageDone
<1>2. PICK rec : rec = [lane[t]["queue"] EXCEPT !.pc = "ensure"]
  OBVIOUS
<1>3. rec.pc = "ensure" /\ rec.issue = lane[t]["queue"].issue
  BY <1>1, <1>2 DEF LaneRecords
<1>4. /\ SetLane(t, "queue", rec)
      /\ UNCHANGED <<status, active, activeP, codex, codexMap, bindings, turns, inbox,
                     cmd, handling>>
  BY <1>1, <1>2 DEF StageDone, envVars
<1>5. lane'[t]["queue"] = rec /\ \A p \in Threads : p # t => lane'[p] = lane[p]
  BY <1>1, <1>4, SetQueueLane
<1>6. Engaged(t) = {} /\ handling[t] = NoEvent /\ status[rec.issue] = "queued"
  BY <1>1, <1>3 DEF TurnInv, ThreadInv, StartPcs
<1>7. ASSUME Engaged(t)' = Engaged(t) PROVE ThreadInv(t)'
  BY <1>3, <1>4, <1>5, <1>6, <1>7 DEF ThreadInv
<1>8. RunStep
  BY <1>4 DEF RunStep
<1> QED
  BY <1>1, <1>4, <1>5, <1>7, <1>8, OneThread

LEMMA BeginsTurn ==
  ASSUME TurnHyp, NEW t \in Threads, NEW l \in Lanes,
         (StageDone(t, l) /\ codex[t] # 0) \/ EnsureDone(t, l)
  PROVE  TurnStep
<1> USE DEF TurnHyp, LineHyp
<1>1. /\ l = "queue" /\ lane[t]["queue"].pc \in {"stage", "ensure"}
      /\ UNCHANGED <<cmd, handling, inbox, turns>>
  BY QueueLane DEF StageDone, EnsureDone, envVars
<1>2. Engaged(t) = {}
  BY <1>1, PreparedThread DEF StartPcs
<1>3. CASE StageDone(t, l) /\ codex[t] # 0
  <2>1. BeginTurn(t, "queue", codex[t]) /\ UNCHANGED <<codex, codexMap, bindings>>
    BY <1>1, <1>3 DEF StageDone, envVars
  <2>2. BindInv' /\ TurnsInv' /\ \A p \in Threads : Engaged(p)' = Engaged(p)
    BY <1>1, <2>1 DEF TurnInv, BindInv, TurnsInv, OneLiveTurn, Engaged
  <2>3. /\ ThreadInv(t)' /\ RunStep /\ EndStep
        /\ \A p \in Threads : p # t =>
             active'[p] = active[p] /\ activeP'[p] = activeP[p] /\ lane'[p] = lane[p]
        /\ \A i \in Issues :
             status'[i] = status[i] \/ (i \in Own(t) /\ status'[i] # "deleted")
    BY <1>1, <1>2, <1>3, <2>1, <2>2, BegunThread
  <2> QED
    BY <1>1, <2>1, <2>2, <2>3, ThreadStep
<1>4. CASE EnsureDone(t, l)
  <2>1. /\ lane[t]["queue"].pc = "ensure"
        /\ Bind(t) /\ BeginTurn(t, "queue", bindings + 1)
    BY <1>1, <1>4 DEF EnsureDone
  <2>2. codex[t] = 0
    BY <2>1 DEF TurnInv, ThreadInv
  <2>3. /\ BindInv' /\ TurnsInv' /\ Engaged(t)' = {}
        /\ codex'[t] = bindings + 1 /\ codex'[t] # 0
        /\ \A p \in Threads : p # t => codex'[p] = codex[p] /\ Engaged(p)' = Engaged(p)
    BY <1>1, <2>1, <2>2, BindTurns
  <2>4. /\ ThreadInv(t)' /\ RunStep /\ EndStep
        /\ \A p \in Threads : p # t =>
             active'[p] = active[p] /\ activeP'[p] = activeP[p] /\ lane'[p] = lane[p]
        /\ \A i \in Issues :
             status'[i] = status[i] \/ (i \in Own(t) /\ status'[i] # "deleted")
    BY <1>1, <2>1, <2>3, BegunThread
  <2> QED
    BY <1>1, <2>3, <2>4, ThreadStep
<1> QED
  BY <1>3, <1>4

\* The second attempt of a start that was refused for want of its Codex thread.
LEMMA Retries ==
  ASSUME TurnHyp, NEW t \in Threads, NEW l \in Lanes,
         TurnThreadNotFound(t, l) \/ RebindDone(t, l)
  PROVE  TurnStep
<1> USE DEF TurnHyp, LineHyp
<1>1. /\ l = "queue" /\ lane[t]["queue"].pc \in {"turn", "rebind"}
      /\ LaneOK /\ lane[t]["queue"] \in LaneRecords(t)
      /\ \A i \in Issues : status[i] # "deleted"
  BY QueueLane DEF TurnThreadNotFound, RebindDone, TypeOK, LaneOK, Lanes, TurnInv, Undisturbed
<1>2. UNCHANGED <<status, active, activeP, cmd, handling, inbox, turns>>
  BY DEF TurnThreadNotFound, RebindDone
<1>3. RunStep /\ EndStep
  BY <1>2, SameSocketEnds DEF RunStep
<1>4. /\ ThreadInv(t) /\ handling[t] = NoEvent /\ TurnsInv
      /\ \A k \in 1..Len(turns) : turns[k].codex # 0
  BY <1>1, PreparedThread DEF TurnInv, TurnsInv, StartPcs
<1>5. CASE TurnThreadNotFound(t, l)
  <2>1. PICK rec : rec = [lane[t]["queue"] EXCEPT !.pc = "rebind", !.retried = TRUE]
    OBVIOUS
  <2>2. rec.pc = "rebind" /\ rec.issue = lane[t]["queue"].issue
    BY <1>1, <2>1 DEF LaneRecords
  <2>3. SetLane(t, "queue", rec) /\ Invalidate(t) /\ UNCHANGED bindings
    BY <1>1, <1>5, <2>1 DEF TurnThreadNotFound
  <2>4. lane'[t]["queue"] = rec /\ \A p \in Threads : p # t => lane'[p] = lane[p]
    BY <1>1, <2>3, SetQueueLane
  <2>5. /\ BindInv' /\ codex'[t] = 0 /\ Engaged(t)' = {}
        /\ \A p \in Threads : p # t => codex'[p] = codex[p]
    BY <1>2, <1>4, <2>3, InvalidTurns
  <2>6. TurnsInv' /\ \A p \in Threads : p # t => Engaged(p)' = Engaged(p)
    BY <1>2, <1>4, <2>3, <2>5 DEF TurnsInv, OneLiveTurn, Engaged
  <2>7. ThreadInv(t)'
    BY <1>1, <1>2, <1>4, <2>2, <2>4, <2>5 DEF ThreadInv
  <2> QED
    BY <1>1, <1>2, <1>3, <2>4, <2>5, <2>6, <2>7, ThreadStep
<1>6. CASE RebindDone(t, l)
  <2>1. PICK rec : rec = [lane[t]["queue"] EXCEPT !.pc = "turn", !.bind = bindings + 1]
    OBVIOUS
  <2>2. rec.pc = "turn" /\ rec.issue = lane[t]["queue"].issue /\ rec.bind = bindings + 1
    BY <1>1, <2>1 DEF LaneRecords
  <2>3. SetLane(t, "queue", rec) /\ Bind(t) /\ lane[t]["queue"].pc = "rebind"
    BY <1>1, <1>6, <2>1 DEF RebindDone
  <2>4. lane'[t]["queue"] = rec /\ \A p \in Threads : p # t => lane'[p] = lane[p]
    BY <1>1, <2>3, SetQueueLane
  <2>5. codex[t] = 0
    BY <1>4, <2>3 DEF ThreadInv
  <2>6. /\ BindInv' /\ TurnsInv' /\ Engaged(t)' = {}
        /\ codex'[t] = bindings + 1 /\ codex'[t] # 0
        /\ \A p \in Threads : p # t => codex'[p] = codex[p] /\ Engaged(p)' = Engaged(p)
    BY <1>2, <2>3, <2>5, BindTurns
  <2>7. ThreadInv(t)'
    BY <1>1, <1>2, <1>4, <2>2, <2>4, <2>6 DEF ThreadInv
  <2> QED
    BY <1>1, <1>2, <1>3, <2>4, <2>6, <2>7, ThreadStep
<1> QED
  BY <1>5, <1>6

\* turn/start is answered, refused, or times out.
LEMMA Answers ==
  ASSUME TurnHyp, NEW t \in Threads, NEW l \in Lanes,
         TurnResponds(t, l) \/ TurnStartFails(t, l)
  PROVE  TurnStep
<1> USE DEF TurnHyp, LineHyp
<1> DEFINE i == lane[t]["queue"].issue
<1>1. /\ l = "queue" /\ lane[t]["queue"].pc = "turn" /\ LaneOK /\ ActiveOK
      /\ UNCHANGED <<cmd, handling, bindings>>
  BY QueueLane DEF TurnResponds, TurnStartFails, TypeOK
<1>2. Returned(t, "queue").pc = "loop" /\ SetLane(t, "queue", Returned(t, "queue"))
  BY <1>1 DEF TurnResponds, TurnStartFails, Returned, IdleLane
<1>3. /\ lane'[t]["queue"].pc = "loop"
      /\ \A p \in Threads : p # t => lane'[p] = lane[p]
  BY <1>1, <1>2, SetQueueLane
<1>4. /\ ThreadInv(t) /\ handling[t] = NoEvent /\ Engaged(t) = {} /\ TurnsInv
      /\ \A j \in Issues : status[j] # "deleted"
  BY <1>1, PreparedThread DEF TurnInv, StartPcs, Undisturbed
<1>5. /\ i \in Issues /\ i = active[t] /\ i = activeP[t] /\ status[i] \in LiveStatuses
      /\ i \in Own(t)
  BY <1>1, <1>4, NoIssueAssumption DEF ThreadInv, ActiveOK, OwnOrNone
<1>6. status' = [status EXCEPT ![i] = "running"] \/ status' = [status EXCEPT ![i] = "failed"]
  BY <1>1, <1>4, <1>5 DEF TurnResponds, TurnStartFails, Patched, HasCard, LiveStatuses
<1> HIDE DEF i
<1>7. /\ status'[i] \in {"running", "failed"}
      /\ \A j \in Issues : j # i => status'[j] = status[j]
  BY <1>5, <1>6 DEF TypeOK, StatusOK
<1>8. RunStep /\ \A j \in Issues : status'[j] = status[j] \/ (j \in Own(t) /\ status'[j] # "deleted")
  BY <1>5, <1>7 DEF RunStep
<1>9. CASE TurnResponds(t, l)
  <2>1. /\ Accept(t, "queue") /\ UNCHANGED <<active, activeP, codex, codexMap>>
        /\ status'[i] = "running"
    BY <1>1, <1>4, <1>5, <1>9 DEF TurnResponds, Patched, HasCard, LiveStatuses, TypeOK, StatusOK, i
  <2>2. /\ TurnsInv'
        /\ \A p \in Threads : p # t => EngagedIn(codex[p], inbox'[p], turns') \subseteq Engaged(p)
        /\ EngagedIn(codex[t], inbox'[t], turns') \subseteq {Len(turns) + 1}
        /\ turns'[Len(turns) + 1].issue = i
        /\ \A k \in 1..Len(turns) : turns'[k].issue = turns[k].issue
        /\ \A p \in Threads : ~(Len(inbox'[p]) < Len(inbox[p]))
    BY <1>1, <2>1, AcceptTurns DEF i
  <2>3. /\ \A p \in Threads : p # t => Engaged(p)' \subseteq Engaged(p)
        /\ Engaged(t)' \subseteq {Len(turns) + 1}
    BY <2>1, <2>2 DEF Engaged
  <2>4. ThreadInv(t)'
    BY <1>1, <1>3, <1>4, <1>5, <2>1, <2>2, <2>3 DEF ThreadInv, StartPcs, LiveStatuses
  <2>5. BindInv' /\ EndStep
    BY <1>1, <2>1, <2>2 DEF TurnInv, BindInv, EndStep
  <2> QED
    BY <1>1, <1>3, <1>8, <2>1, <2>2, <2>3, <2>4, <2>5, ThreadStep
<1>10. CASE TurnStartFails(t, l)
  <2>1. /\ Accept(t, "queue") \/ UNCHANGED <<turns, inbox>>
        /\ active' = [active EXCEPT ![t] = NoIssue]
        /\ activeP' = [ClearedP(t) EXCEPT ![t] = NoIssue]
        /\ Invalidate(t)
    BY <1>1, <1>10 DEF TurnStartFails
  <2>2. /\ TurnsInv'
        /\ \A p \in Threads : p # t => EngagedIn(codex[p], inbox'[p], turns') \subseteq Engaged(p)
        /\ \A k \in 1..Len(turns) : turns'[k].issue = turns[k].issue
        /\ \A p \in Threads : ~(Len(inbox'[p]) < Len(inbox[p]))
    <3>1. CASE Accept(t, "queue")
      BY <1>1, <3>1, AcceptTurns
    <3>2. CASE UNCHANGED <<turns, inbox>>
      BY <1>1, <1>4, <3>2, InboxTypes DEF TurnsInv, OneLiveTurn, Engaged
    <3> QED
      BY <2>1, <3>1, <3>2
  <2>3. \A k \in 1..Len(turns') : turns'[k].codex # 0
    BY <2>2 DEF TurnsInv
  <2>4. /\ BindInv' /\ Engaged(t)' = {}
        /\ \A p \in Threads : p # t => codex'[p] = codex[p]
    BY <1>1, <2>1, <2>3, InvalidTurns
  <2>5. \A p \in Threads : p # t => Engaged(p)' \subseteq Engaged(p)
    BY <2>2, <2>4 DEF Engaged
  <2>6. ThreadInv(t)'
    BY <1>1, <1>3, <1>4, <2>4, FreeThread
  <2>7. EndStep
    BY <2>2 DEF EndStep
  <2>8. \A p \in Threads : p # t => active'[p] = active[p] /\ activeP'[p] = activeP[p]
    BY <1>1, <2>1, OtherLocks
  <2> QED
    BY <1>1, <1>3, <1>8, <2>2, <2>4, <2>5, <2>6, <2>7, <2>8, ThreadStep
<1> QED
  BY <1>9, <1>10

-----------------------------------------------------------------------------
(***************************************************************************)
(* Notifications                                                           *)
(***************************************************************************)

\* The first event of the socket of t is taken.
LEMMA TakenEvent ==
  ASSUME TurnHyp, NEW t \in Threads, inbox[t] # <<>>,
         inbox' = [inbox EXCEPT ![t] = Tail(inbox[t])], UNCHANGED <<turns, bindings>>
  PROVE  /\ TurnsInv'
         /\ \A p \in Threads : codex'[p] = codex[p] => Engaged(p)' \subseteq Engaged(p)
         /\ \A p \in Threads : p # t => ~(Len(inbox'[p]) < Len(inbox[p]))
         /\ Head(inbox[t]).turn \in 1..Len(turns)
         /\ turns[Head(inbox[t]).turn].codex = codex[t] =>
              /\ Head(inbox[t]).turn \in Engaged(t)
              /\ Head(inbox[t]).kind \notin ProgressKinds /\ codex'[t] = codex[t] =>
                   Engaged(t)' = {}
<1> USE DEF TurnHyp, LineHyp, TurnInv
<1>1. /\ turns \in Seq(TurnRecords) /\ TurnsInv /\ ThreadInv(t)
      /\ \A p \in Threads : inbox[p] \in Seq(EventRecords)
  BY InboxTypes
<1>2. /\ inbox'[t] = Tail(inbox[t])
      /\ \A p \in Threads : p # t => inbox'[p] = inbox[p]
  BY DEF TypeOK, EventOK
<1>3. /\ EventsOK(Tail(inbox[t]), turns)
      /\ EngagedIn(codex[t], Tail(inbox[t]), turns) \subseteq Engaged(t)
      /\ Head(inbox[t]).turn \in 1..Len(turns)
      /\ turns[Head(inbox[t]).turn].codex = codex[t] => Head(inbox[t]).turn \in Engaged(t)
      /\ Head(inbox[t]).kind \notin ProgressKinds =>
           Head(inbox[t]).turn \notin EngagedIn(codex[t], Tail(inbox[t]), turns)
  <2>1. EventsOK(inbox[t], turns)
    BY <1>1 DEF TurnsInv
  <2> QED
    BY <1>1, <2>1, TailEvents DEF Engaged
<1>4. TurnsInv'
  BY <1>1, <1>2, <1>3 DEF TurnsInv, OneLiveTurn
<1>5. \A p \in Threads : codex'[p] = codex[p] => Engaged(p)' \subseteq Engaged(p)
  BY <1>2, <1>3 DEF Engaged
<1>6. ASSUME turns[Head(inbox[t]).turn].codex = codex[t],
             Head(inbox[t]).kind \notin ProgressKinds, codex'[t] = codex[t]
      PROVE  Engaged(t)' = {}
  <2>1. Engaged(t)' = EngagedIn(codex[t], Tail(inbox[t]), turns)
    BY <1>2, <1>6 DEF Engaged
  <2>2. \A k, m \in Engaged(t) : k = m
    BY <1>1 DEF ThreadInv
  <2> QED
    BY <1>3, <1>6, <2>1, <2>2
<1>7. \A p \in Threads : p # t => ~(Len(inbox'[p]) < Len(inbox[p]))
  BY <1>1, <1>2
<1> QED
  BY <1>3, <1>4, <1>5, <1>6, <1>7

\* An event that is routed to t belongs to the turn that is engaged there, whose
\* issue both locks name.
LEMMA RoutedEvent ==
  ASSUME TurnHyp, NEW t \in Threads, TakeEvent(t), UNCHANGED <<turns, bindings>>
  PROVE  /\ Head(inbox[t]).turn \in Engaged(t)
         /\ turns[Head(inbox[t]).turn].codex = codex[t]
         /\ turns[Head(inbox[t]).turn].issue = Current(t)
         /\ Current(t) = active[t] /\ Current(t) = activeP[t]
         /\ Current(t) \in Own(t) /\ status[Current(t)] \in LiveStatuses
         /\ handling[t] = NoEvent /\ lane[t]["queue"].pc \notin StartPcs
<1> USE DEF TurnHyp, LineHyp, TurnInv
<1>1. /\ inbox[t] # <<>> /\ inbox' = [inbox EXCEPT ![t] = Tail(inbox[t])]
      /\ codexMap[turns[Head(inbox[t]).turn].codex] = t
  BY DEF TakeEvent, Routed
<1>2. Head(inbox[t]).turn \in 1..Len(turns)
  BY <1>1, TakenEvent
<1>3. turns[Head(inbox[t]).turn].codex \in Bindings
  BY <1>2, BoundAssumption DEF TurnsInv, BindInv, Bindings
<1>4. turns[Head(inbox[t]).turn].codex = codex[t]
  BY <1>1, <1>3 DEF BindInv
<1>5. Head(inbox[t]).turn \in Engaged(t)
  BY <1>1, <1>4, TakenEvent
<1>6. ThreadInv(t) /\ active[t] \in OwnOrNone(t) /\ turns[Head(inbox[t]).turn].issue \in Issues
  BY <1>2 DEF TypeOK, ActiveOK, TurnsInv
<1> QED
  BY <1>4, <1>5, <1>6, NoIssueAssumption DEF ThreadInv, Current, OwnOrNone

\* An event comes to nothing.
LEMMA DropsEvent ==
  ASSUME TurnHyp, NEW t \in Threads, DropEvent(t)
  PROVE  TurnStep
<1> USE DEF TurnHyp, LineHyp, TurnInv
<1>1. /\ inbox[t] # <<>> /\ inbox' = [inbox EXCEPT ![t] = Tail(inbox[t])]
      /\ UNCHANGED <<status, active, activeP, codex, codexMap, lane, cmd, handling, turns,
                     bindings>>
  BY DEF DropEvent, contVars
<1>2. TurnsInv' /\ \A p \in Threads : Engaged(p)' \subseteq Engaged(p)
  BY <1>1, TakenEvent
<1>3. ASSUME NEW p \in Threads PROVE ThreadInv(p)'
  <2>1. CalmFor(p)
    BY <1>1 DEF CalmFor
  <2> QED
    BY <1>1, <1>2, <2>1, SameThread
<1>4. Undisturbed' /\ BindInv' /\ RunStep
  BY <1>1 DEF Undisturbed, BindInv, RunStep
<1>5. EndStep
  BY <1>1 DEF EndStep, LiveStatuses, TerminalStatuses
<1> QED
  BY <1>2, <1>3, <1>4, <1>5 DEF TurnStep

\* A progress event of the turn: its issue stays live.
LEMMA Progresses ==
  ASSUME TurnHyp, NEW t \in Threads, ApplyProgress(t)
  PROVE  TurnStep
<1> USE DEF TurnHyp, LineHyp, TurnInv
<1>1. /\ TakeEvent(t) /\ inbox[t] # <<>> /\ inbox' = [inbox EXCEPT ![t] = Tail(inbox[t])]
      /\ UNCHANGED <<active, activeP, codex, codexMap, lane, cmd, handling, turns, bindings>>
  BY DEF ApplyProgress, TakeEvent, contVars
<1>2. TurnsInv' /\ \A p \in Threads : Engaged(p)' \subseteq Engaged(p)
  BY <1>1, TakenEvent
<1> DEFINE i == Current(t)
<1>3. i \in Own(t) /\ status[i] \in LiveStatuses
  BY <1>1, RoutedEvent
<1>4. \/ status' = status
      \/ status' = [status EXCEPT ![i] = "running"]
      \/ status' = [status EXCEPT ![i] = "awaiting_input"]
  BY DEF ApplyProgress, Patched
<1> HIDE DEF i
<1>5. /\ status'[i] \in LiveStatuses
      /\ \A j \in Issues : j # i => status'[j] = status[j]
  BY <1>3, <1>4 DEF Own, LiveStatuses, TypeOK, StatusOK
<1>6. \A j \in Issues : status[j] # "deleted" /\ status'[j] # "deleted"
  BY <1>5 DEF Undisturbed, LiveStatuses
<1>7. ASSUME NEW p \in Threads PROVE ThreadInv(p)'
  <2>1. CalmFor(p)
    BY <1>3, <1>5 DEF CalmFor, Own, LiveStatuses
  <2> QED
    BY <1>1, <1>2, <2>1, SameThread
<1>8. Undisturbed' /\ BindInv' /\ RunStep
  BY <1>1, <1>3, <1>5, <1>6 DEF Undisturbed, BindInv, RunStep
<1>9. EndStep
  BY <1>5 DEF EndStep, Own, LiveStatuses, TerminalStatuses
<1> QED
  BY <1>2, <1>7, <1>8, <1>9 DEF TurnStep

\* The terminal event of the turn ends the issue of the turn, and nothing is engaged
\* on the thread any more.
LEMMA Terminates ==
  ASSUME TurnHyp, NEW t \in Threads, NEW outcome \in TerminalStatuses,
         ApplyTerminal(t, outcome)
  PROVE  TurnStep
<1> USE DEF TurnHyp, LineHyp, TurnInv
<1> DEFINE i == Current(t)
           e == Head(inbox[t])
<1>1. /\ TakeEvent(t) /\ inbox[t] # <<>> /\ inbox' = [inbox EXCEPT ![t] = Tail(inbox[t])]
      /\ UNCHANGED <<active, activeP, lane, cmd, turns, bindings>>
      /\ e.kind \notin ProgressKinds
  BY DEF ApplyTerminal, TakeEvent, ProgressKinds
<1>2. /\ i \in Own(t) /\ status[i] \in LiveStatuses /\ i = active[t] /\ i # NoIssue
      /\ turns[e.turn].codex = codex[t] /\ turns[e.turn].issue = i
      /\ lane[t]["queue"].pc \notin StartPcs
  BY <1>1, RoutedEvent, NoIssueAssumption DEF Own
<1>3. /\ status' = [status EXCEPT ![i] = outcome]
      /\ handling' = [handling EXCEPT ![t] = e]
      /\ Invalidate(t) \/ UNCHANGED <<codex, codexMap>>
  BY <1>2 DEF ApplyTerminal, Patched, HasCard, Own, LiveStatuses, KeepBinding
<1>4. /\ TurnsInv'
      /\ \A p \in Threads : codex'[p] = codex[p] => Engaged(p)' \subseteq Engaged(p)
      /\ \A p \in Threads : p # t => ~(Len(inbox'[p]) < Len(inbox[p]))
      /\ codex'[t] = codex[t] => Engaged(t)' = {}
  BY <1>1, <1>2, TakenEvent
<1> HIDE DEF i, e
<1>5. /\ status'[i] = outcome
      /\ \A j \in Issues : j # i => status'[j] = status[j]
      /\ \A p \in Threads : p # t => handling'[p] = handling[p]
  BY <1>2, <1>3 DEF Own, TypeOK, StatusOK, EventOK
<1>6. /\ BindInv' /\ Engaged(t)' = {}
      /\ \A p \in Threads : p # t => codex'[p] = codex[p]
  <2>1. CASE UNCHANGED <<codex, codexMap>>
    BY <1>1, <1>4, <2>1 DEF BindInv
  <2>2. CASE Invalidate(t)
    <3>1. \A k \in 1..Len(turns') : turns'[k].codex # 0
      BY <1>1 DEF TurnsInv
    <3> QED
      BY <1>1, <2>2, <3>1, InvalidTurns
  <2> QED
    BY <1>3, <2>1, <2>2
<1>7. ThreadInv(t)'
  BY <1>1, <1>2, <1>6, FreeThread DEF StartPcs
<1>8. RunStep /\ \A j \in Issues : status'[j] = status[j] \/ (j \in Own(t) /\ status'[j] # "deleted")
  BY <1>2, <1>5 DEF RunStep, TerminalStatuses, LiveStatuses
<1>9. EndStep
  <2> SUFFICES ASSUME NEW p \in Threads, NEW j \in Own(p), Len(inbox'[p]) < Len(inbox[p]),
                      status[j] \in LiveStatuses, status'[j] \in TerminalStatuses
               PROVE  turns[Head(inbox[p]).turn].issue = j
    BY DEF EndStep
  <2>1. p = t
    BY <1>4
  <2>2. j = i
    BY <1>5 DEF Own, LiveStatuses, TerminalStatuses
  <2> QED
    BY <1>2, <2>1, <2>2 DEF e
<1> QED
  BY <1>1, <1>4, <1>5, <1>6, <1>7, <1>8, <1>9, ThreadStep

\* App-server ends a turn.
LEMMA EndsTurn ==
  ASSUME TurnHyp, OneTerminal, NEW k \in 1..Len(turns), EndTurn(k)
  PROVE  TurnStep
<1> USE DEF TurnHyp, LineHyp, TurnInv
<1> DEFINE t == turns[k].thread
<1>1. /\ UNCHANGED <<status, active, activeP, codex, codexMap, lane, cmd, handling, bindings>>
      /\ turns[k].live
  BY DEF EndTurn, bridgeVars, contVars
<1>2. /\ turns \in Seq(TurnRecords) /\ turns[k] \in TurnRecords
      /\ \A p \in Threads : inbox[p] \in Seq(EventRecords) /\ EventsOK(inbox[p], turns)
  <2>1. turns \in Seq(TurnRecords) /\ \A p \in Threads : inbox[p] \in Seq(EventRecords)
    BY DEF TypeOK, EventOK
  <2>2. turns[k] \in TurnRecords
    BY <2>1
  <2> QED
    BY <2>1, <2>2 DEF TurnsInv
<1>3. t \in Threads
  BY <1>2 DEF TurnRecords
<1>4. PICK us : us = [turns EXCEPT ![k].live = FALSE]
  OBVIOUS
<1>5. PICK ending \in EndEvents :
        inbox' = [inbox EXCEPT ![t] =
                    inbox[t] \o [n \in 1..Len(ending) |-> [kind |-> ending[n], turn |-> k]]]
  BY DEF EndTurn
<1>6. PICK w : w = inbox[t] \o [n \in 1..Len(ending) |-> [kind |-> ending[n], turn |-> k]]
  OBVIOUS
<1>7. turns' = us
  BY <1>4 DEF EndTurn
<1> HIDE DEF t
<1>8. inbox'[t] = w /\ \A p \in Threads : p # t => inbox'[p] = inbox[p]
  BY <1>3, <1>5, <1>6 DEF TypeOK, EventOK
<1>9. /\ Len(us) = Len(turns)
      /\ \A m \in 1..Len(turns) : /\ us[m].codex = turns[m].codex
                                  /\ us[m].issue = turns[m].issue
                                  /\ us[m].live => turns[m].live
  BY <1>2, <1>4 DEF TurnRecords
<1>10. ASSUME NEW p \in Threads
       PROVE  EventsOK(inbox'[p], us) /\ EngagedIn(codex[p], inbox'[p], us) \subseteq Engaged(p)
  <2>1. /\ EventsOK(inbox[p], us)
        /\ EngagedIn(codex[p], inbox[p], us) \subseteq EngagedIn(codex[p], inbox[p], turns)
    BY <1>1, <1>2, <1>4, EndingEvents
  <2>2. CASE p = t
    <3> DEFINE vs == [turns EXCEPT ![k].live = FALSE]
               v == inbox[t] \o [n \in 1..Len(ending) |-> [kind |-> ending[n], turn |-> k]]
    <3>a. EventsOK(inbox[t], turns) /\ inbox[t] \in Seq(EventRecords)
      BY <1>2, <1>3
    <3>b. /\ EventsOK(v, vs)
          /\ EngagedIn(codex[p], v, vs) \subseteq EngagedIn(codex[p], inbox[t], turns)
      BY <1>1, <1>2, <3>a, EndingEvents
    <3>1. /\ EventsOK(w, us)
          /\ EngagedIn(codex[p], w, us) \subseteq EngagedIn(codex[p], inbox[p], turns)
      BY <1>4, <1>6, <2>2, <3>b
    <3> QED
      BY <1>8, <2>2, <3>1 DEF Engaged
  <2>3. CASE p # t
    BY <1>8, <2>1, <2>3 DEF Engaged
  <2> QED
    BY <2>2, <2>3
<1>11. /\ TurnsInv' /\ \A p \in Threads : Engaged(p)' \subseteq Engaged(p)
  <2>1. OneLiveTurn'
    BY <1>7, <1>9 DEF TurnsInv, OneLiveTurn
  <2>2. \A m \in 1..Len(us) : us[m].codex \in 1..bindings /\ us[m].issue \in Issues
    BY <1>9 DEF TurnsInv
  <2>3. TurnsInv'
    BY <1>1, <1>7, <1>10, <2>1, <2>2 DEF TurnsInv
  <2>4. \A p \in Threads : Engaged(p)' \subseteq Engaged(p)
    BY <1>1, <1>7, <1>10 DEF Engaged
  <2> QED
    BY <2>3, <2>4
<1>12. ASSUME NEW p \in Threads PROVE ThreadInv(p)'
  <2>1. CalmFor(p)
    BY <1>1 DEF CalmFor
  <2>2. \A m \in Engaged(p) : turns'[m].issue = turns[m].issue
    BY <1>7, <1>9 DEF Engaged, EngagedIn
  <2> QED
    BY <1>1, <1>11, <2>1, <2>2, SameThread
<1>13. Undisturbed' /\ BindInv' /\ RunStep
  BY <1>1 DEF Undisturbed, BindInv, RunStep
<1>14. EndStep
  BY <1>1 DEF EndStep, LiveStatuses, TerminalStatuses
<1> QED
  BY <1>11, <1>12, <1>13, <1>14 DEF TurnStep

-----------------------------------------------------------------------------
LEMMA InitTurn == Init => TurnInv
<1> SUFFICES ASSUME Init PROVE TurnInv
  OBVIOUS
<1>1. Len(turns) = 0 /\ \A t \in Threads : Len(inbox[t]) = 0
  BY DEF Init
<1>2. Undisturbed
  BY DEF Init, Undisturbed
<1>3. BindInv
  BY NoThreadAssumption, BoundAssumption DEF Init, BindInv, Bindings
<1>4. TurnsInv
  BY <1>1 DEF TurnsInv, OneLiveTurn, EventsOK
<1>5. ASSUME NEW t \in Threads PROVE ThreadInv(t)
  <2>1. Engaged(t) = {}
    BY <1>1 DEF Engaged, EngagedIn
  <2>2. lane[t]["queue"].pc = "idle" /\ handling[t] = NoEvent
    BY DEF Init, Lanes, IdleLane
  <2> QED
    BY <2>1, <2>2 DEF ThreadInv, StartPcs
<1> QED
  BY <1>2, <1>3, <1>4, <1>5 DEF TurnInv

LEMMA LaneStepTurn ==
  ASSUME TurnHyp, NEW t \in Threads, NEW l \in Lanes, LaneStep(t, l)
  PROVE  TurnStep
<1>1. CASE StageDone(t, l)
  BY <1>1, PreparesBinding, BeginsTurn
<1> QED
  BY <1>1, TakeOut, BeginsTurn, GivesUp, Answers, Retries DEF LaneStep

LEMMA EventStepTurn ==
  ASSUME TurnHyp, NEW t \in Threads, EventStep(t)
  PROVE  TurnStep
<1>1. ~ReconcileOrphan(t)
  <2>1. active[t] # NoIssue => active[t] \in PastIssues /\ status[active[t]] # "deleted"
    BY DEF TurnHyp, LineHyp, PastInv, PastIssues, TurnInv, Undisturbed
  <2> QED
    BY <2>1 DEF ReconcileOrphan, PastIssues, HasCard
<1> QED
  BY <1>1, DropsEvent, Progresses, Terminates, SettleStep, QuietStep, QueueMoves
     DEF EventStep

\* A command of a user other than to reorder does not occur, nor its answer.
LEMMA NoCommands ==
  ASSUME TurnHyp, Commands \subseteq {"reorder"}
  PROVE  /\ ~\E i \in Issues, op \in {"interrupt", "restage"} : InterruptIdle(i, op)
         /\ ~\E t \in Threads : NormalizeRootThread(t)
         /\ ~\E h \in Handlers : CommandBegins(h) \/ CommandAnswered(h)
<1>1. ASSUME NEW h \in Handlers PROVE ~CommandAnswered(h)
  <2>1. cmd[h].op = "none"
    BY DEF TurnHyp, TurnInv, Undisturbed, NoCmd
  <2> QED
    BY <2>1 DEF CommandAnswered, InterruptEnd, DeleteStopped, DeleteEnd, UnlockEnd, StopEnd
<1>2. ASSUME NEW h \in Handlers PROVE ~CommandBegins(h)
  BY DEF CommandBegins, InterruptBegin, Interruptible, DeleteBegin, ReleaseBegin
<1> QED
  BY <1>1, <1>2 DEF InterruptIdle, Interruptible, NormalizeRootThread

LEMMA NextTurn ==
  ASSUME Commands \subseteq {"reorder"}, OneTerminal, TypeOK, LockInv, PastInv, LineInv,
         TurnInv, [Next]_vars
  PROVE  TurnStep
<1>1. TurnHyp
  BY DEF TurnHyp, LineHyp
<1>2. CASE UNCHANGED vars \/ AppServerReady \/ \E i \in Issues : CreateThreadIssue(i)
  BY <1>1, <1>2, QuietStep
<1>3. CASE \E k \in 1..Len(turns) : EndTurn(k)
  BY <1>1, <1>3, EndsTurn
<1>4. CASE \E t \in Threads : QueueStep(t)
  BY <1>1, <1>4, QueueMoves, QuietStep DEF QueueStep
<1>5. CASE \E t \in Threads, l \in Lanes : LaneStep(t, l)
  BY <1>1, <1>5, LaneStepTurn
<1>6. CASE \E t \in Threads : EventStep(t)
  BY <1>1, <1>6, EventStepTurn
<1> QED
  BY <1>1, <1>2, <1>3, <1>4, <1>5, <1>6, NoCommands DEF Next

\* On every Codex thread at most one turn is engaged, that of the issue both locks of
\* its thread name, and none while another start is prepared: whatever starts fail,
\* time out after they were accepted, or are bound again, when users at most reorder
\* and app-server ends a turn with one terminal notification.
THEOREM TurnsExact ==
  ASSUME Commands \subseteq {"reorder"}, OneTerminal
  PROVE  Spec => []TurnInv
<1>1. Commands \cap {"restage", "normalize"} = {}
  OBVIOUS
<1>2. Init => TurnInv
  BY InitTurn
<1>3. TypeOK /\ LockInv /\ (PastInv /\ LineInv) /\ TurnInv /\ [Next]_vars => TurnInv'
  BY NextTurn DEF TurnStep
<1>4. Spec => []LockInv
  BY OneOccupant
<1>5. Spec => [](PastInv /\ LineInv)
  BY <1>1, QueueExact
<1> QED
  BY <1>2, <1>3, <1>4, <1>5, TypeCorrect, PTL DEF Spec

\* App-server never runs two turns on one Codex thread.
THEOREM SingleTurns ==
  ASSUME Commands \subseteq {"reorder"}, OneTerminal
  PROVE  Spec => []OneLiveTurn
<1>1. TurnInv => OneLiveTurn
  BY DEF TurnInv, TurnsInv
<1> QED
  BY <1>1, TurnsExact, PTL

\* Only an issue that is queued starts to run: no answer, retry or late notification
\* runs one again that has ended.
THEOREM RunsFromQueue ==
  ASSUME Commands \subseteq {"reorder"}, OneTerminal
  PROVE  Spec => StartsQueued
<1>1. Commands \cap {"restage", "normalize"} = {}
  OBVIOUS
<1>2. TypeOK /\ LockInv /\ (PastInv /\ LineInv) /\ TurnInv /\ [Next]_vars => RunStep
  BY NextTurn DEF TurnStep
<1>3. RunStep => \A i \in Issues :
        status[i] \notin LiveStatuses /\ status'[i] \in LiveStatuses => status[i] = "queued"
  BY DEF RunStep
<1>4. Spec => []LockInv
  BY OneOccupant
<1>5. Spec => [](PastInv /\ LineInv)
  BY <1>1, QueueExact
<1> QED
  BY <1>2, <1>3, <1>4, <1>5, TurnsExact, TypeCorrect, PTL DEF Spec, StartsQueued

\* Under these conditions, and only under them, a notification ends no issue but that
\* of its own turn: with a second terminal notification of a turn, or an interrupt, one
\* can find the next issue in place, which is what StraysBounded is about.
LEMMA OwnEndings ==
  ASSUME Commands \subseteq {"reorder"}, OneTerminal
  PROVE  Spec => EndedByOwnTurn
<1>1. Commands \cap {"restage", "normalize"} = {}
  OBVIOUS
<1>2. TypeOK /\ LockInv /\ (PastInv /\ LineInv) /\ TurnInv /\ [Next]_vars => EndStep
  BY NextTurn DEF TurnStep
<1>3. EndStep => \A t \in Threads : \A i \in Own(t) :
        /\ Len(inbox'[t]) < Len(inbox[t])
        /\ status[i] \in LiveStatuses
        /\ status'[i] \in TerminalStatuses
        => turns[Head(inbox[t]).turn].issue = i
  BY DEF EndStep
<1>4. Spec => []LockInv
  BY OneOccupant
<1>5. Spec => [](PastInv /\ LineInv)
  BY <1>1, QueueExact
<1> QED
  BY <1>2, <1>3, <1>4, <1>5, TurnsExact, TypeCorrect, PTL DEF Spec, EndedByOwnTurn

-----------------------------------------------------------------------------
(***************************************************************************)
(* No lost wake-up                                                         *)
(*                                                                         *)
(* A queue that holds issues is awake while an issue of its thread runs,   *)
(* while the end of one is being settled, or while a reconnect is due: the *)
(* tail of each of these schedules it.  Otherwise a call that processes it *)
(* is due, its pipeline is on its way, or the pipeline will go round again.*)
(* The last is lost when a second start throws while the pipeline is       *)
(* "nested" in the repair that followed the first: it gives the lock up    *)
(* with the rerun it owes.                                                 *)
(***************************************************************************)
OneThrow == StartFaults \subseteq {"turn", "notFound"} \/ MaxFaults <= 1

PipelineOK(t) ==
  LET r == lane[t]["queue"]
  IN /\ r.mode \in {"recover", "nested"}
     /\ r.pc = "idle" => r.mode = "recover"
     /\ r.pc = "list" => r.mode = "nested"
     /\ r.pc = "stage" => r.found
     /\ r.mode = "nested" =>
          faults > 0 /\ ~(StartFaults \subseteq {"turn", "notFound"})

\* An active issue that runs no more is being released.
ReleaseOK(t) ==
  active[t] # NoIssue => status[active[t]] \in LiveStatuses \/ handling[t] # NoEvent

Awake(t) == RunningIn(t) # {} \/ handling[t] # NoEvent \/ resumeDue

WakeOK(t) ==
  LET r == lane[t]["queue"]
  IN \/ queue[t] = <<>>
     \/ Awake(t)
     \/ r.pc \notin {"idle", "loop"}
     \/ r.pc = "idle" /\ due[t] # "none"
     \/ r.pc = "loop" /\ r.mode # "nested" /\ (rerun[t] \/ due[t] # "none")

\* A command that need not wait for its answer runs before anything else.
CommandsOK ==
  \A h \in Handlers :
    /\ cmd[h].op \in {"none", "interrupt", "unlock"}
    /\ cmd[h].op = "interrupt" => cmd[h].resume
    /\ cmd[h].pc = "now" =>
         /\ \A t \in Threads : due[t] = "none" /\ lane[t]["queue"].pc \notin {"once", "loop"}
         /\ \A g \in Handlers : cmd[g].pc = "now" => g = h

NoneDeleted == \A i \in Issues : status[i] # "deleted"

StallInv ==
  /\ NoneDeleted /\ CommandsOK
  /\ \A t \in Threads : PipelineOK(t) /\ ReleaseOK(t) /\ WakeOK(t)

StallHyp == LineHyp /\ StallInv

NoneNow == \A h \in Handlers : cmd[h].pc # "now"

LEMMA WakeTypes ==
  ASSUME StallHyp
  PROVE  /\ StatusOK /\ ActiveOK /\ LaneOK /\ CmdOK /\ FlagOK /\ EventOK
         /\ \A t \in Threads : active[t] \in OwnOrNone(t) /\ activeP[t] \in OwnOrNone(t)
         /\ \A t \in Threads : lane[t]["queue"] \in LaneRecords(t)
         /\ \A t \in Threads : PipelineOK(t) /\ ReleaseOK(t) /\ WakeOK(t)
BY DEF StallHyp, StallInv, LineHyp, TypeOK, ActiveOK, LaneOK, Lanes

LEMMA QuiescentNow ==
  ASSUME StallHyp, NEW t \in Threads,
         \/ Quiescent \/ due[t] # "none" \/ lane[t]["queue"].pc \in {"once", "loop"}
  PROVE  NoneNow
BY DEF StallHyp, StallInv, CommandsOK, Quiescent, NoneNow

LEMMA SameCommands ==
  ASSUME StallHyp, NoneNow, UNCHANGED cmd
  PROVE  CommandsOK'
BY DEF StallHyp, StallInv, CommandsOK, NoneNow

\* A thread whose pipeline a step leaves alone.
LEMMA SameWake ==
  ASSUME StallHyp, NEW t \in Threads,
         queue[t] = <<>> => queue'[t] = <<>>,
         lane'[t]["queue"] = lane[t]["queue"], rerun'[t] = rerun[t],
         due[t] # "none" => due'[t] # "none",
         Awake(t) => Awake(t)', faults' \in {faults, faults + 1}
  PROVE  PipelineOK(t)' /\ WakeOK(t)'
<1>1. PipelineOK(t) /\ WakeOK(t) /\ faults \in Nat
  BY WakeTypes DEF FlagOK
<1>2. faults > 0 => faults' > 0
  BY <1>1
<1> QED
  BY <1>1, <1>2 DEF PipelineOK, WakeOK

LEMMA SameAwake ==
  ASSUME NEW t, RunningIn(t) \subseteq RunningIn(t)',
         handling'[t] = handling[t], resumeDue => resumeDue'
  PROVE  Awake(t) => Awake(t)'
BY DEF Awake

LEMMA SameRelease ==
  ASSUME StallHyp, NEW t \in Threads, active'[t] = active[t], handling'[t] = handling[t],
         RunningIn(t) \subseteq RunningIn(t)'
  PROVE  ReleaseOK(t)'
<1>1. ReleaseOK(t) /\ active[t] \in OwnOrNone(t)
  BY WakeTypes
<1> QED
  BY <1>1 DEF ReleaseOK, RunningIn, OwnOrNone, Own

\* A thread of which a step changes nothing, or that it schedules.
LEMMA OtherWake ==
  ASSUME StallHyp, NEW t \in Threads,
         queue'[t] = queue[t], lane'[t]["queue"] = lane[t]["queue"], rerun'[t] = rerun[t],
         due[t] # "none" => due'[t] # "none",
         active'[t] = active[t], handling'[t] = handling[t], resumeDue => resumeDue',
         faults' \in {faults, faults + 1}, \A i \in Own(t) : status'[i] = status[i]
  PROVE  PipelineOK(t)' /\ ReleaseOK(t)' /\ WakeOK(t)'
<1>1. RunningIn(t)' = RunningIn(t)
  BY DEF RunningIn, Own
<1>2. Awake(t) => Awake(t)'
  BY <1>1, SameAwake
<1> QED
  BY <1>1, <1>2, SameWake, SameRelease

\* Every queue is scheduled while no pipeline is about to give its lock up.
LEMMA AllScheduled ==
  ASSUME StallHyp, NEW t \in Threads, lane[t]["queue"].pc # "loop",
         lane'[t]["queue"] = lane[t]["queue"], due'[t] # "none", faults' = faults
  PROVE  PipelineOK(t)' /\ WakeOK(t)'
<1>1. PipelineOK(t)
  BY WakeTypes
<1> QED
  BY <1>1 DEF PipelineOK, WakeOK

LEMMA ScheduledAll ==
  ASSUME ScheduleAll, NEW t \in Threads
  PROVE  due'[t] = "schedule"
BY DEF ScheduleAll

LEMMA AdoptedRelease ==
  ASSUME StallHyp, NEW t \in Threads, NEW a \in Adoptable(t, active[t]), a # NoIssue
  PROVE  /\ status[a] \in LiveStatuses \/ (a = active[t] /\ handling[t] # NoEvent)
         /\ Awake(t)
<1>1. ReleaseOK(t) /\ active[t] \in OwnOrNone(t)
  BY WakeTypes
<1> QED
  BY <1>1 DEF ReleaseOK, Adoptable, Awake, RunningIn, OwnOrNone, Own

LEMMA TrackedRelease ==
  ASSUME StallHyp, NEW t \in Threads, NEW a \in Tracked(t), a # NoIssue
  PROVE  a \in RunningIn(t) /\ Awake(t)
<1>1. active[t] \in OwnOrNone(t)
  BY WakeTypes
<1> QED
  BY <1>1, NoIssueAssumption
     DEF Tracked, Invalid, Adoptable, Awake, RunningIn, OwnOrNone, Own

\* After one start has thrown, no other fails.
LEMMA NestedLast ==
  ASSUME StallHyp, OneThrow, NEW t \in Threads, lane[t]["queue"].mode = "nested",
         NEW kind, Fault(kind)
  PROVE  FALSE
<1>1. PipelineOK(t) /\ faults \in Nat
  BY WakeTypes DEF FlagOK
<1> QED
  BY <1>1, BoundAssumption DEF PipelineOK, OneThrow, Fault

\* A step of one thread.
LEMMA StallStep ==
  ASSUME StallHyp, NEW t \in Threads, NoneDeleted', CommandsOK',
         PipelineOK(t)' /\ ReleaseOK(t)' /\ WakeOK(t)',
         \A p \in Threads : p # t =>
           /\ queue'[p] = queue[p] /\ lane'[p] = lane[p] /\ rerun'[p] = rerun[p]
           /\ due[p] # "none" => due'[p] # "none"
           /\ active'[p] = active[p] /\ handling'[p] = handling[p],
         resumeDue => resumeDue', faults' \in {faults, faults + 1},
         \A i \in Issues : i \notin Own(t) => status'[i] = status[i]
  PROVE  StallInv'
<1>1. ASSUME NEW p \in Threads, p # t PROVE PipelineOK(p)' /\ ReleaseOK(p)' /\ WakeOK(p)'
  <2>1. \A i \in Own(p) : status'[i] = status[i]
    BY <1>1 DEF Own
  <2> QED
    BY <1>1, <2>1, OtherWake
<1> QED
  BY <1>1 DEF StallInv

\* A step that leaves the pipelines alone and the locks named.
LEMMA StallQuiet ==
  ASSUME StallHyp, NoneNow, NoneDeleted', UNCHANGED <<lane, cmd, active, handling, rerun>>,
         \A t \in Threads : /\ queue[t] = <<>> => queue'[t] = <<>>
                            /\ due[t] # "none" => due'[t] # "none"
                            /\ RunningIn(t) \subseteq RunningIn(t)',
         resumeDue => resumeDue', UNCHANGED faults
  PROVE  StallInv'
<1>1. ASSUME NEW t \in Threads PROVE PipelineOK(t)' /\ ReleaseOK(t)' /\ WakeOK(t)'
  <2>1. Awake(t) => Awake(t)'
    BY SameAwake
  <2> QED
    BY <2>1, SameWake, SameRelease
<1> QED
  BY <1>1, SameCommands DEF StallInv

LEMMA QuietStall ==
  ASSUME StallHyp, 
         \/ \E i \in Issues : CreateThreadIssue(i)
         \/ \E t \in Threads : \E i \in Issues : ReorderThreadIssues(t, i)
         \/ \E t \in Threads : ExpireStop(t) \/ DropEvent(t) \/ ApplyProgress(t)
         \/ \E k \in 1..Len(turns) : EndTurn(k)
  PROVE  StallInv'
<1> USE DEF StallHyp, LineHyp
<1>1. NoneNow
  BY DEF CreateThreadIssue, ReorderThreadIssues, ExpireStop, DropEvent, ApplyProgress,
     TakeEvent, EndTurn, Quiescent, NoneNow
<1>2. /\ UNCHANGED <<lane, cmd, active, handling, rerun, due, resumeDue, faults>>
      /\ \A t \in Threads : queue[t] = <<>> => queue'[t] = <<>>
  <2>1. CASE \E t \in Threads : \E i \in Issues : ReorderThreadIssues(t, i)
    <3>1. PICK t \in Threads, i \in Issues : ReorderThreadIssues(t, i)
      BY <2>1
    <3>2. Freeze(t) = cmd /\ QueueOK
      BY FreezeNothing DEF TypeOK
    <3>3. queue[t] # <<>>
      BY <3>1 DEF ReorderThreadIssues, ToSet
    <3>4. \A p \in Threads : p # t => queue'[p] = queue[p]
      BY <3>1, <3>2 DEF ReorderThreadIssues, QueueOK
    <3> QED
      BY <3>1, <3>2, <3>3, <3>4 DEF ReorderThreadIssues
  <2> QED
    BY <2>1 DEF CreateThreadIssue, ExpireStop, DropEvent, ApplyProgress, EndTurn, bridgeVars,
       contVars, envVars
<1>3. ASSUME NEW i \in Issues
      PROVE  /\ status'[i] # "deleted"
             /\ status[i] \in LiveStatuses => status'[i] \in LiveStatuses
  <2>1. status[i] # "deleted" /\ StatusOK
    BY DEF StallInv, NoneDeleted, TypeOK
  <2>2. CASE UNCHANGED status
    BY <2>1, <2>2
  <2>3. CASE \E j \in Issues : CreateThreadIssue(j)
    BY <2>1, <2>3 DEF CreateThreadIssue, LiveStatuses, StatusOK
  <2>4. CASE \E t \in Threads : ApplyProgress(t)
    BY <2>1, <2>4 DEF ApplyProgress, Patched, HasCard, LiveStatuses, StatusOK
  <2> QED
    BY <2>2, <2>3, <2>4 DEF ReorderThreadIssues, ExpireStop, DropEvent, EndTurn, bridgeVars
<1>4. \A t \in Threads : RunningIn(t) \subseteq RunningIn(t)'
  BY <1>3 DEF RunningIn
<1>5. NoneDeleted'
  BY <1>3 DEF NoneDeleted
<1> QED
  BY <1>1, <1>2, <1>4, <1>5, StallQuiet

LEMMA StartStall ==
  ASSUME StallHyp, NEW t \in Threads, NEW i \in Issues, NEW j \in Issues,
         StartThreadIssues(t, i, j)
  PROVE  StallInv'
<1> USE DEF StallHyp, LineHyp
<1>1. /\ StatusOK /\ QueueOK /\ FlagOK /\ NoneNow /\ NoneDeleted
      /\ lane[t]["queue"].pc # "loop"
  BY QuiescentNow DEF StartThreadIssues, TypeOK, StallInv, Quiescent, Lanes
<1>2. /\ UNCHANGED <<lane, cmd, active, handling, rerun, resumeDue, faults>>
      /\ i \in Own(t) /\ j \in Own(t)
      /\ status' = [status EXCEPT ![i] = "queued", ![j] = "queued"]
      /\ status[i] = "staged" /\ status[j] = "staged"
  BY DEF StartThreadIssues, Eligible, envVars, Own
<1>3. \A k \in Issues : /\ k \notin Own(t) => status'[k] = status[k]
                        /\ status'[k] # "deleted"
                        /\ status[k] \in LiveStatuses => status'[k] = status[k]
  BY <1>1, <1>2 DEF StatusOK, NoneDeleted, LiveStatuses
<1>4. /\ due'[t] = "process"
      /\ \A p \in Threads : p # t => due'[p] = due[p] /\ queue'[p] = queue[p]
  BY <1>1 DEF StartThreadIssues, FlagOK, QueueOK
<1>5. PipelineOK(t)' /\ WakeOK(t)'
  BY <1>1, <1>2, <1>4, AllScheduled
<1>6. ReleaseOK(t)'
  <2>1. RunningIn(t) \subseteq RunningIn(t)'
    BY <1>3 DEF RunningIn
  <2> QED
    BY <1>2, <2>1, SameRelease
<1>7. NoneDeleted' /\ CommandsOK'
  BY <1>1, <1>2, <1>3, SameCommands DEF NoneDeleted
<1> QED
  BY <1>2, <1>3, <1>4, <1>5, <1>6, <1>7, StallStep

\* A call that processes the queue takes the lock or leaves word to go round again.
LEMMA RequestWake ==
  ASSUME StallHyp, NEW t \in Threads, RequestProcessing(t, "recover"),
         UNCHANGED <<status, queue, handling, resumeDue, faults>>
  PROVE  /\ PipelineOK(t)' /\ WakeOK(t)'
         /\ \A p \in Threads : p # t => lane'[p] = lane[p] /\ rerun'[p] = rerun[p]
<1>1. LaneOK /\ FlagOK /\ PipelineOK(t) /\ WakeOK(t)
  BY WakeTypes
<1>2. Awake(t)' = Awake(t)
  BY DEF Awake, RunningIn
<1>3. CASE Busy(t)
  <2>1. /\ rerun'[t] /\ lane' = lane
        /\ \A p \in Threads : p # t => rerun'[p] = rerun[p]
    BY <1>1, <1>3 DEF RequestProcessing, FlagOK
  <2>2. lane[t]["queue"].pc # "idle"
    BY <1>3 DEF Busy
  <2>3. PipelineOK(t)'
    BY <1>1, <2>1 DEF PipelineOK
  <2>4. WakeOK(t)'
    BY <1>1, <1>2, <2>1, <2>2 DEF WakeOK
  <2> QED
    BY <2>1, <2>3, <2>4
<1>4. CASE ~Busy(t)
  <2>1. PICK w : w = [IdleLane EXCEPT !.pc = "once", !.mode = "recover"]
    OBVIOUS
  <2>2. w.pc = "once" /\ w.mode = "recover"
    BY <2>1 DEF IdleLane
  <2>3. SetLane(t, "queue", w) /\ rerun' = [rerun EXCEPT ![t] = FALSE]
    BY <1>4, <2>1 DEF RequestProcessing
  <2>4. lane'[t]["queue"] = w /\ \A p \in Threads : p # t => lane'[p] = lane[p]
    BY <1>1, <2>3, SetQueueLane
  <2>5. PipelineOK(t)' /\ WakeOK(t)'
    BY <2>2, <2>4 DEF PipelineOK, WakeOK
  <2> QED
    BY <1>1, <2>3, <2>4, <2>5 DEF FlagOK
<1> QED
  BY <1>3, <1>4

LEMMA QueueStall ==
  ASSUME StallHyp, NEW t \in Threads, ScheduleQueue(t) \/ ProcessIssueQueue(t)
  PROVE  StallInv'
<1> USE DEF StallHyp, LineHyp
<1>1. /\ ActiveOK /\ FlagOK /\ NoneNow /\ NoneDeleted
      /\ UNCHANGED <<status, queue, handling, resumeDue, cmd, faults>>
      /\ due' = [due EXCEPT ![t] = "none"]
  BY QuiescentNow DEF ScheduleQueue, ProcessIssueQueue, TypeOK, StallInv, envVars
<1>2. NoneDeleted' /\ CommandsOK'
  BY <1>1, SameCommands DEF NoneDeleted
<1>3. \A p \in Threads : p # t => due'[p] = due[p]
  BY <1>1 DEF FlagOK
<1>4. ASSUME RequestProcessing(t, "recover"), active'[t] = active[t] \/ active'[t] = NoIssue,
             \A p \in Threads : p # t => active'[p] = active[p]
      PROVE  StallInv'
  <2>1. /\ PipelineOK(t)' /\ WakeOK(t)'
        /\ \A p \in Threads : p # t => lane'[p] = lane[p] /\ rerun'[p] = rerun[p]
    BY <1>1, <1>4, RequestWake
  <2>2. ReleaseOK(t)'
    <3>1. ReleaseOK(t)
      BY WakeTypes
    <3> QED
      BY <1>1, <1>4, <3>1 DEF ReleaseOK
  <2> QED
    BY <1>1, <1>2, <1>3, <1>4, <2>1, <2>2, StallStep
<1>5. CASE ProcessIssueQueue(t)
  BY <1>4, <1>5 DEF ProcessIssueQueue
<1>6. CASE ScheduleQueue(t) /\ queue[t] = <<>>
  <2>1. UNCHANGED <<active, lane, rerun>>
    BY <1>6 DEF ScheduleQueue
  <2>2. PipelineOK(t)' /\ WakeOK(t)' /\ ReleaseOK(t)'
    <3>1. PipelineOK(t) /\ ReleaseOK(t)
      BY WakeTypes
    <3> QED
      BY <1>1, <1>6, <2>1, <3>1 DEF PipelineOK, ReleaseOK, WakeOK
  <2> QED
    BY <1>1, <1>2, <1>3, <2>1, <2>2, StallStep
<1>7. CASE ScheduleQueue(t) /\ queue[t] # <<>>
  <2>1. PICK a \in Adoptable(t, active[t]) :
          /\ active' = [active EXCEPT ![t] = a]
          /\ IF a = NoIssue THEN RequestProcessing(t, "recover") ELSE UNCHANGED <<lane, rerun>>
    BY <1>7 DEF ScheduleQueue
  <2>2. active'[t] = a /\ \A p \in Threads : p # t => active'[p] = active[p]
    BY <1>1, <2>1 DEF ActiveOK
  <2>3. CASE a = NoIssue
    BY <1>4, <2>1, <2>2, <2>3
  <2>4. CASE a # NoIssue
    <3>1. UNCHANGED <<lane, rerun>> /\ PipelineOK(t)
      BY <2>1, <2>4, WakeTypes
    <3>2. Awake(t) /\ (status[a] \in LiveStatuses \/ handling[t] # NoEvent)
      BY <2>4, AdoptedRelease
    <3>3. Awake(t)' /\ ReleaseOK(t)'
      BY <1>1, <2>2, <3>2 DEF Awake, RunningIn, ReleaseOK
    <3>4. PipelineOK(t)' /\ WakeOK(t)'
      BY <1>1, <3>1, <3>3 DEF PipelineOK, WakeOK
    <3> QED
      BY <1>1, <1>2, <1>3, <2>2, <3>1, <3>3, <3>4, StallStep
  <2> QED
    BY <2>3, <2>4
<1> QED
  BY <1>5, <1>6, <1>7

LEMMA LoopStall ==
  ASSUME StallHyp, NEW t \in Threads, LoopProcessIssueQueue(t)
  PROVE  StallInv'
<1> USE DEF StallHyp, LineHyp
<1>1. /\ LaneOK /\ FlagOK /\ NoneNow /\ NoneDeleted
      /\ lane[t]["queue"].pc = "loop" /\ due[t] = "none"
      /\ UNCHANGED <<status, queue, active, handling, resumeDue, due, cmd, faults>>
      /\ rerun' = [rerun EXCEPT ![t] = FALSE]
      /\ PipelineOK(t) /\ ReleaseOK(t) /\ WakeOK(t) /\ lane[t]["queue"] \in LaneRecords(t)
  BY QuiescentNow, WakeTypes DEF LoopProcessIssueQueue, TypeOK, StallInv, envVars
<1>2. NoneDeleted' /\ CommandsOK'
  BY <1>1, SameCommands DEF NoneDeleted
<1>3. PICK w : w = [lane[t]["queue"] EXCEPT !.pc = "once"]
  OBVIOUS
<1>4. w.pc = "once" /\ w.mode = lane[t]["queue"].mode /\ IdleLane.pc = "idle"
      /\ IdleLane.mode = "recover"
  BY <1>1, <1>3 DEF IdleLane, LaneRecords
<1>5. /\ SetLane(t, "queue", w) \/ SetLane(t, "queue", IdleLane)
      /\ SetLane(t, "queue", w) \/ ~rerun[t] \/ active[t] # NoIssue \/ queue[t] = <<>>
           \/ lane[t]["queue"].mode = "nested"
  BY <1>3 DEF LoopProcessIssueQueue
<1>6. CASE SetLane(t, "queue", w)
  <2>1. lane'[t]["queue"] = w /\ \A p \in Threads : p # t => lane'[p] = lane[p]
    BY <1>1, <1>6, SetQueueLane
  <2>2. PipelineOK(t)' /\ ReleaseOK(t)' /\ WakeOK(t)'
    BY <1>1, <1>4, <2>1 DEF PipelineOK, ReleaseOK, WakeOK
  <2> QED
    BY <1>1, <1>2, <2>1, <2>2, StallStep DEF FlagOK
<1>7. CASE ~SetLane(t, "queue", w)
  <2>1. lane'[t]["queue"] = IdleLane /\ \A p \in Threads : p # t => lane'[p] = lane[p]
    BY <1>1, <1>5, <1>7, SetQueueLane
  <2>2. queue[t] = <<>> \/ Awake(t)
    <3>1. active[t] # NoIssue => Awake(t)
      <4>1. active[t] \in OwnOrNone(t)
        BY WakeTypes
      <4> QED
        BY <1>1, <4>1 DEF ReleaseOK, Awake, RunningIn, OwnOrNone, Own
    <3> QED
      BY <1>1, <1>5, <1>7, <3>1 DEF WakeOK
  <2>3. Awake(t)' = Awake(t)
    BY <1>1 DEF Awake, RunningIn
  <2>4. PipelineOK(t)' /\ ReleaseOK(t)' /\ WakeOK(t)'
    BY <1>1, <1>4, <2>1, <2>2, <2>3 DEF PipelineOK, ReleaseOK, WakeOK
  <2> QED
    BY <1>1, <1>2, <2>1, <2>4, StallStep DEF FlagOK
<1> QED
  BY <1>6, <1>7

\* The first of the queue is taken out, unless an issue is active.
LEMMA OnceStall ==
  ASSUME StallHyp, NEW t \in Threads, NEW l \in Lanes, ProcessIssueQueueOnce(t, l)
  PROVE  StallInv'
<1> USE DEF StallHyp, LineHyp
<1>1. l = "queue" /\ lane[t]["queue"].pc = "once"
  BY QueueLane DEF ProcessIssueQueueOnce
<1>2. /\ LaneOK /\ ActiveOK /\ NoneNow /\ NoneDeleted /\ PipelineOK(t)
      /\ lane[t]["queue"] \in LaneRecords(t)
      /\ UNCHANGED <<status, handling, rerun, resumeDue, due, cmd, faults>>
  BY <1>1, QuiescentNow, WakeTypes DEF ProcessIssueQueueOnce, StallInv, envVars
<1>3. NoneDeleted' /\ CommandsOK'
  BY <1>2, SameCommands DEF NoneDeleted
<1>4. PICK a \in Adoptable(t, active[t]) :
        /\ active' = [active EXCEPT ![t] = a]
        /\ IF MayShift(t, a)
           THEN /\ queue' = [queue EXCEPT ![t] = Tail(queue[t])]
                /\ SetLane(t, "queue", [lane[t]["queue"] EXCEPT !.pc = "stage",
                                    !.issue = Head(queue[t]),
                                    !.found = HasCard(Head(queue[t]))])
           ELSE SetLane(t, "queue", Returned(t, "queue")) /\ UNCHANGED queue
  BY <1>1 DEF ProcessIssueQueueOnce
<1>5. active'[t] = a /\ \A p \in Threads : p # t => active'[p] = active[p]
  BY <1>2, <1>4 DEF ActiveOK
<1>6. ReleaseOK(t)'
  BY <1>2, <1>5, AdoptedRelease DEF ReleaseOK
<1>7. CASE MayShift(t, a)
  <2>1. PICK w : w = [lane[t]["queue"] EXCEPT !.pc = "stage", !.issue = Head(queue[t]),
                                              !.found = HasCard(Head(queue[t]))]
    OBVIOUS
  <2>2. /\ w.pc = "stage" /\ w.mode = lane[t]["queue"].mode
        /\ w.found = HasCard(Head(queue[t]))
    BY <1>2, <2>1 DEF LaneRecords
  <2>3. SetLane(t, "queue", w) /\ queue' = [queue EXCEPT ![t] = Tail(queue[t])]
    BY <1>4, <1>7, <2>1
  <2>4. lane'[t]["queue"] = w /\ \A p \in Threads : p # t => lane'[p] = lane[p]
    BY <1>2, <2>3, SetQueueLane
  <2>5. HasCard(Head(queue[t]))
    <3>1. Head(queue[t]) \in ToSet(queue[t])
      BY <1>7, QueueFacts, TailEntries DEF MayShift
    <3> QED
      BY <3>1, QueueFacts DEF QueuedIn, HasCard
  <2>6. PipelineOK(t)' /\ WakeOK(t)'
    BY <1>2, <2>2, <2>4, <2>5 DEF PipelineOK, WakeOK
  <2>7. \A p \in Threads : p # t => queue'[p] = queue[p]
    BY <2>3 DEF TypeOK, QueueOK
  <2> QED
    BY <1>2, <1>3, <1>5, <1>6, <2>4, <2>6, <2>7, StallStep
<1>8. CASE ~MayShift(t, a)
  <2>1. PICK w : w = Returned(t, "queue")
    OBVIOUS
  <2>2. w.pc = "loop" /\ w.mode = lane[t]["queue"].mode
    BY <2>1 DEF Returned, IdleLane
  <2>3. SetLane(t, "queue", w) /\ UNCHANGED queue
    BY <1>4, <1>8, <2>1
  <2>4. lane'[t]["queue"] = w /\ \A p \in Threads : p # t => lane'[p] = lane[p]
    BY <1>2, <2>3, SetQueueLane
  <2>5. queue[t] = <<>> \/ Awake(t)
    BY <1>8, AdoptedRelease DEF MayShift
  <2>6. Awake(t)' = Awake(t)
    BY <1>2 DEF Awake, RunningIn
  <2>7. PipelineOK(t)' /\ WakeOK(t)'
    BY <1>2, <2>2, <2>3, <2>4, <2>5, <2>6 DEF PipelineOK, WakeOK
  <2> QED
    BY <1>2, <1>3, <1>5, <1>6, <2>3, <2>4, <2>7, StallStep
<1> QED
  BY <1>7, <1>8

\* A pipeline that goes on with the start it has taken.
LEMMA OnItsWay ==
  ASSUME StallHyp, NEW t \in Threads, NEW w, SetLane(t, "queue", w),
         w.pc \notin {"idle", "loop", "list", "stage"}, w.mode = lane[t]["queue"].mode,
         faults' \in {faults, faults + 1}
  PROVE  /\ PipelineOK(t)' /\ WakeOK(t)'
         /\ \A p \in Threads : p # t => lane'[p] = lane[p]
<1>1. LaneOK /\ PipelineOK(t) /\ faults \in Nat
  BY WakeTypes DEF FlagOK
<1>2. lane'[t]["queue"] = w /\ \A p \in Threads : p # t => lane'[p] = lane[p]
  BY <1>1, SetQueueLane
<1>3. faults > 0 => faults' > 0
  BY <1>1
<1> QED
  BY <1>1, <1>2, <1>3 DEF PipelineOK, WakeOK

LEMMA BeginStall ==
  ASSUME StallHyp, NEW t \in Threads, NEW l \in Lanes, StageDone(t, l) \/ EnsureDone(t, l)
  PROVE  StallInv'
<1> USE DEF StallHyp, LineHyp
<1> DEFINE i == lane[t]["queue"].issue
<1>1. l = "queue" /\ lane[t]["queue"].pc \in {"stage", "ensure"}
  BY QueueLane DEF StageDone, EnsureDone
<1>2. /\ StatusOK /\ ActiveOK /\ NoneNow /\ NoneDeleted
      /\ lane[t]["queue"] \in LaneRecords(t)
      /\ UNCHANGED <<queue, handling, rerun, resumeDue, due, cmd, faults>>
  BY QuiescentNow, WakeTypes DEF StageDone, EnsureDone, StallInv, envVars
<1>3. i \in Own(t) /\ status[i] \notin {"unborn", "staged"}
  BY <1>1 DEF LineInv, TakenOut
<1>4. CommandsOK'
  BY <1>2, SameCommands
<1>5. ASSUME NEW b, BeginTurn(t, "queue", b) PROVE StallInv'
  <2>1. PICK w : w = [lane[t]["queue"] EXCEPT !.pc = "turn", !.bind = b]
    OBVIOUS
  <2>2. w.pc = "turn" /\ w.mode = lane[t]["queue"].mode
    BY <1>2, <2>1 DEF LaneRecords
  <2>3. /\ SetLane(t, "queue", w) /\ active' = [active EXCEPT ![t] = i]
        /\ status' = Patched(i, "running")
    BY <1>5, <2>1 DEF BeginTurn
  <2> HIDE DEF i
  <2>4. status'[i] = "running" /\ \A j \in Issues : j # i => status'[j] = status[j]
    BY <1>2, <1>3, <2>3 DEF Patched, HasCard, StatusOK, NoneDeleted, Own
  <2>5. active'[t] = i /\ \A p \in Threads : p # t => active'[p] = active[p]
    BY <1>2, <2>3 DEF ActiveOK
  <2>6. NoneDeleted' /\ ReleaseOK(t)'
    BY <1>2, <2>4, <2>5 DEF NoneDeleted, ReleaseOK, LiveStatuses
  <2>7. /\ PipelineOK(t)' /\ WakeOK(t)'
        /\ \A p \in Threads : p # t => lane'[p] = lane[p]
    BY <1>2, <2>2, <2>3, OnItsWay
  <2> QED
    BY <1>2, <1>3, <1>4, <2>4, <2>5, <2>6, <2>7, StallStep
<1>6. CASE StageDone(t, l) /\ codex[t] = 0
  <2>1. PICK w : w = [lane[t]["queue"] EXCEPT !.pc = "ensure"]
    OBVIOUS
  <2>2. w.pc = "ensure" /\ w.mode = lane[t]["queue"].mode
    BY <1>2, <2>1 DEF LaneRecords
  <2>3. SetLane(t, "queue", w) /\ UNCHANGED <<active, status>>
    BY <1>1, <1>6, <2>1 DEF StageDone
  <2>4. /\ PipelineOK(t)' /\ WakeOK(t)'
        /\ \A p \in Threads : p # t => lane'[p] = lane[p]
    BY <1>2, <2>2, <2>3, OnItsWay
  <2>5. ReleaseOK(t)'
    BY <1>2, <2>3, SameRelease DEF RunningIn
  <2> QED
    BY <1>2, <1>4, <2>3, <2>4, <2>5, StallStep DEF NoneDeleted
<1> QED
  BY <1>1, <1>5, <1>6 DEF StageDone, EnsureDone

LEMMA RetryStall ==
  ASSUME StallHyp, NEW t \in Threads, NEW l \in Lanes,
         TurnThreadNotFound(t, l) \/ RebindDone(t, l)
  PROVE  StallInv'
<1> USE DEF StallHyp, LineHyp
<1>1. l = "queue"
  BY QueueLane DEF TurnThreadNotFound, RebindDone
<1>2. /\ NoneNow /\ NoneDeleted /\ lane[t]["queue"] \in LaneRecords(t)
      /\ UNCHANGED <<status, queue, active, handling, rerun, resumeDue, due, cmd>>
      /\ faults' \in {faults, faults + 1}
  BY QuiescentNow, WakeTypes DEF TurnThreadNotFound, RebindDone, StallInv, Fault
<1>3. PICK w : /\ SetLane(t, "queue", w) /\ w.pc \in {"turn", "rebind"}
               /\ w.mode = lane[t]["queue"].mode
  <2>1. PICK v : v = [lane[t]["queue"] EXCEPT !.pc = "rebind", !.retried = TRUE]
    OBVIOUS
  <2>2. PICK u : u = [lane[t]["queue"] EXCEPT !.pc = "turn", !.bind = bindings + 1]
    OBVIOUS
  <2>3. /\ v.pc = "rebind" /\ v.mode = lane[t]["queue"].mode
        /\ u.pc = "turn" /\ u.mode = lane[t]["queue"].mode
    BY <1>2, <2>1, <2>2 DEF LaneRecords
  <2>4. SetLane(t, "queue", v) \/ SetLane(t, "queue", u)
    BY <1>1, <2>1, <2>2 DEF TurnThreadNotFound, RebindDone
  <2> QED
    BY <2>3, <2>4
<1>4. /\ PipelineOK(t)' /\ WakeOK(t)'
      /\ \A p \in Threads : p # t => lane'[p] = lane[p]
  BY <1>2, <1>3, OnItsWay
<1>5. ReleaseOK(t)'
  BY <1>2, SameRelease DEF RunningIn
<1>6. NoneDeleted' /\ CommandsOK'
  BY <1>2, SameCommands DEF NoneDeleted
<1> QED
  BY <1>2, <1>4, <1>5, <1>6, StallStep

\* A start that threw waits for the reconnect, or is repaired: this is the first.
LEMMA ThrowStall ==
  ASSUME StallHyp, OneThrow, NEW t \in Threads, NEW l \in Lanes,
         \/ \E recoverable \in BOOLEAN : StartFails(t, l, recoverable)
         \/ StartMissing(t, l)
  PROVE  StallInv'
<1> USE DEF StallHyp, LineHyp
<1>1. l = "queue"
  BY QueueLane DEF StartFails, StartMissing
<1>2. /\ NoneNow /\ NoneDeleted /\ LaneOK /\ PipelineOK(t) /\ faults \in Nat /\ QueueOK
      /\ UNCHANGED <<status, active, handling, due, cmd>>
  BY QuiescentNow, WakeTypes DEF StartFails, StartMissing, StallInv, FlagOK, TypeOK
<1>3. PICK recoverable \in BOOLEAN : StartFails(t, l, recoverable)
  <2>1. ~StartMissing(t, l)
    BY <1>1, <1>2 DEF StartMissing, PipelineOK
  <2> QED
    BY <2>1
<1>4. \E kind \in {"reconnect", "prepare"} : Fault(kind)
  BY <1>3 DEF StartFails
<1>5. lane[t]["queue"].mode = "recover"
  BY <1>2, <1>4, NestedLast DEF PipelineOK
<1>6. faults' = faults + 1 /\ ~(StartFaults \subseteq {"turn", "notFound"})
  BY <1>4 DEF Fault
<1> DEFINE i == lane[t]["queue"].issue
           restore == HasCard(i) /\ status[i] \in {"queued", "staged"}
<1>7. /\ queue' = IF restore THEN [queue EXCEPT ![t] = Restored(t, i)] ELSE queue
      /\ UNCHANGED rerun
      /\ \/ resumeDue' /\ SetLane(t, "queue", Returned(t, "queue"))
         \/ /\ UNCHANGED resumeDue
            /\ SetLane(t, "queue", [IdleLane EXCEPT !.pc = "list", !.mode = "nested"])
  BY <1>1, <1>3, <1>5 DEF StartFails, StartThrows
<1>8. \A p \in Threads : p # t => queue'[p] = queue[p]
  BY <1>2, <1>7 DEF QueueOK
<1>9. resumeDue => resumeDue'
  BY <1>7
<1>10. /\ PipelineOK(t)' /\ WakeOK(t)'
       /\ \A p \in Threads : p # t => lane'[p] = lane[p]
  <2>1. CASE resumeDue' /\ SetLane(t, "queue", Returned(t, "queue"))
    <3>1. PICK w : w = Returned(t, "queue")
      OBVIOUS
    <3>2. w.pc = "loop" /\ w.mode = "recover"
      BY <1>5, <3>1 DEF Returned, IdleLane
    <3>3. lane'[t]["queue"] = w /\ \A p \in Threads : p # t => lane'[p] = lane[p]
      BY <1>2, <2>1, <3>1, SetQueueLane
    <3> QED
      BY <2>1, <3>2, <3>3 DEF PipelineOK, WakeOK, Awake
  <2>2. CASE SetLane(t, "queue", [IdleLane EXCEPT !.pc = "list", !.mode = "nested"])
    <3>1. PICK w : w = [IdleLane EXCEPT !.pc = "list", !.mode = "nested"]
      OBVIOUS
    <3>2. w.pc = "list" /\ w.mode = "nested"
      BY <3>1 DEF IdleLane
    <3>3. lane'[t]["queue"] = w /\ \A p \in Threads : p # t => lane'[p] = lane[p]
      BY <1>2, <2>2, <3>1, SetQueueLane
    <3>4. faults' > 0
      BY <1>2, <1>6
    <3> QED
      BY <1>6, <3>2, <3>3, <3>4 DEF PipelineOK, WakeOK
  <2> QED
    BY <1>7, <2>1, <2>2
<1>11. ReleaseOK(t)'
  BY <1>2, SameRelease DEF RunningIn
<1>12. NoneDeleted' /\ CommandsOK'
  BY <1>2, SameCommands DEF NoneDeleted
<1> QED
  BY <1>2, <1>6, <1>7, <1>8, <1>9, <1>10, <1>11, <1>12, StallStep

\* turn/start is answered, refused, or times out.
LEMMA AnswerStall ==
  ASSUME StallHyp, OneThrow, NEW t \in Threads, NEW l \in Lanes,
         TurnResponds(t, l) \/ TurnStartFails(t, l)
  PROVE  StallInv'
<1> USE DEF StallHyp, LineHyp
<1> DEFINE i == lane[t]["queue"].issue
<1>1. l = "queue" /\ lane[t]["queue"].pc = "turn"
  BY QueueLane DEF TurnResponds, TurnStartFails
<1>2. /\ NoneNow /\ NoneDeleted /\ LaneOK /\ ActiveOK /\ StatusOK /\ PipelineOK(t)
      /\ ReleaseOK(t) /\ faults \in Nat /\ faults' \in {faults, faults + 1}
      /\ UNCHANGED <<queue, handling, rerun, resumeDue, cmd>>
  BY QuiescentNow, WakeTypes DEF TurnResponds, TurnStartFails, StallInv, FlagOK, Fault
<1>3. i \in PastIssues /\ status[i] # "deleted" /\ lane[t]["queue"] \in LaneRecords(t)
  BY <1>1, <1>2, WakeTypes DEF PastInv, Sent, PastIssues, NoneDeleted
<1>4. i \in Own(t) /\ HasCard(i)
  BY <1>3, NoIssueAssumption DEF LaneRecords, OwnOrNone, PastIssues, HasCard
<1>5. PICK w : w = Returned(t, "queue")
  OBVIOUS
<1>6. w.pc = "loop" /\ w.mode = lane[t]["queue"].mode
  BY <1>5 DEF Returned, IdleLane
<1>7. SetLane(t, "queue", w)
  BY <1>1, <1>5 DEF TurnResponds, TurnStartFails
<1>8. lane'[t]["queue"] = w /\ \A p \in Threads : p # t => lane'[p] = lane[p]
  BY <1>2, <1>7, SetQueueLane
<1>9. \/ status' = [status EXCEPT ![i] = "running"]
      \/ status' = [status EXCEPT ![i] = "failed"]
  BY <1>1, <1>4 DEF TurnResponds, TurnStartFails, Patched
<1> HIDE DEF i
<1>10. /\ status'[i] \in {"running", "failed"}
       /\ \A j \in Issues : j # i => status'[j] = status[j]
  BY <1>2, <1>4, <1>9 DEF StatusOK, Own
<1>11. NoneDeleted' /\ CommandsOK'
  BY <1>2, <1>10, SameCommands DEF NoneDeleted
<1>12. faults > 0 => faults' > 0
  BY <1>2
<1>13. PipelineOK(t)'
  BY <1>2, <1>6, <1>8, <1>12 DEF PipelineOK
<1>14. CASE TurnResponds(t, l)
  <2>1. status'[i] = "running" /\ UNCHANGED <<active, due>>
    BY <1>1, <1>2, <1>4, <1>14 DEF TurnResponds, Patched, StatusOK, Own, i
  <2>2. i \in RunningIn(t)' /\ RunningIn(t) \subseteq RunningIn(t)'
    BY <1>4, <1>10, <2>1 DEF RunningIn, Own, LiveStatuses
  <2>3. WakeOK(t)'
    BY <2>2 DEF WakeOK, Awake
  <2>4. ReleaseOK(t)'
    BY <1>2, <2>1, <2>2, SameRelease
  <2> QED
    BY <1>2, <1>4, <1>8, <1>10, <1>11, <1>13, <2>1, <2>3, <2>4, StallStep
<1>15. CASE TurnStartFails(t, l)
  <2>1. Fault("turn") /\ active' = [active EXCEPT ![t] = NoIssue] /\ ScheduleAll
    BY <1>15 DEF TurnStartFails
  <2>2. lane[t]["queue"].mode # "nested"
    BY <2>1, NestedLast
  <2>3. WakeOK(t)'
    BY <1>6, <1>8, <2>1, <2>2, ScheduledAll DEF WakeOK
  <2>4. /\ ReleaseOK(t)'
        /\ \A p \in Threads : p # t => active'[p] = active[p]
    BY <1>2, <2>1 DEF ActiveOK, ReleaseOK
  <2>5. \A p \in Threads : due'[p] # "none"
    BY <2>1, ScheduledAll
  <2> QED
    BY <1>2, <1>4, <1>8, <1>10, <1>11, <1>13, <2>3, <2>4, <2>5, StallStep
<1> QED
  BY <1>14, <1>15

\* The repair of the queue: it goes on with what is queued.
LEMMA RepairStall ==
  ASSUME StallHyp, OneThrow, NEW t \in Threads, NEW l \in Lanes,
         (\E refresh \in BOOLEAN : NormalizeListed(t, l, refresh)) \/ NormalizeFails(t, l)
  PROVE  StallInv'
<1> USE DEF StallHyp, LineHyp
<1>1. l = "queue" /\ lane[t]["queue"].pc = "list"
  BY QueueLane DEF NormalizeListed, NormalizeFails
<1>2. /\ NoneNow /\ NoneDeleted /\ LaneOK /\ ActiveOK /\ PipelineOK(t) /\ CmdOK /\ QueueOK
      /\ FlagOK /\ lane[t]["queue"].mode = "nested" /\ lane[t]["queue"] \in LaneRecords(t)
  BY <1>1, QuiescentNow, WakeTypes
     DEF NormalizeListed, NormalizeFails, StallInv, PipelineOK, TypeOK
<1>3. PICK refresh \in BOOLEAN : NormalizeListed(t, l, refresh)
  <2>1. ~NormalizeFails(t, l)
    BY <1>2, NestedLast DEF NormalizeFails
  <2> QED
    BY <2>1
<1>4. PICK a \in Tracked(t) :
        /\ active' = [active EXCEPT ![t] = a]
        /\ IF a = NoIssue
           THEN Repair(t, "queue", refresh)
           ELSE SetLane(t, "queue", IdleLane) /\ UNCHANGED <<queue, status, cmd>>
  BY <1>1, <1>3 DEF NormalizeListed
<1>5. UNCHANGED <<handling, resumeDue, due, faults>>
  BY <1>3 DEF NormalizeListed, envVars
<1>6. \A p \in Threads : p # t => rerun'[p] = rerun[p]
  BY <1>2, <1>3 DEF NormalizeListed, FlagOK
<1>7. active'[t] = a /\ \A p \in Threads : p # t => active'[p] = active[p]
  BY <1>2, <1>4 DEF ActiveOK
<1>8. IdleLane.pc = "idle" /\ IdleLane.mode = "recover"
  BY DEF IdleLane
<1>9. CASE a # NoIssue
  <2>1. SetLane(t, "queue", IdleLane) /\ UNCHANGED <<queue, status, cmd>>
    BY <1>4, <1>9
  <2>2. lane'[t]["queue"] = IdleLane /\ \A p \in Threads : p # t => lane'[p] = lane[p]
    BY <1>2, <2>1, SetQueueLane
  <2>3. a \in RunningIn(t)'
    BY <1>9, <2>1, TrackedRelease DEF RunningIn
  <2>4. PipelineOK(t)' /\ WakeOK(t)' /\ ReleaseOK(t)'
    BY <1>7, <1>8, <2>2, <2>3 DEF PipelineOK, WakeOK, ReleaseOK, Awake, RunningIn
  <2>5. NoneDeleted' /\ CommandsOK'
    BY <1>2, <2>1, SameCommands DEF NoneDeleted
  <2> QED
    BY <1>2, <1>5, <1>6, <1>7, <2>1, <2>2, <2>4, <2>5, StallStep
<1>10. CASE a = NoIssue
  <2>1. PICK q : /\ queue' = [queue EXCEPT ![t] = q]
                 /\ UNCHANGED status
                 /\ cmd' \in {cmd, Freeze(t)}
                 /\ Resume(t, "queue", q)
    BY <1>4, <1>10 DEF Repair, Promotions
  <2>2. cmd' = cmd
    BY <1>2, <2>1, FreezeNothing
  <2>3. PICK w : w = [lane[t]["queue"] EXCEPT !.pc = "once"]
    OBVIOUS
  <2>4. w.pc = "once" /\ w.mode = lane[t]["queue"].mode
    BY <1>2, <2>3 DEF LaneRecords
  <2>5. \/ q = <<>> /\ SetLane(t, "queue", IdleLane)
        \/ SetLane(t, "queue", w)
    BY <2>1, <2>3 DEF Resume
  <2>6. queue'[t] = q /\ \A p \in Threads : p # t => queue'[p] = queue[p]
    BY <1>2, <2>1 DEF QueueOK
  <2>7. /\ PipelineOK(t)' /\ WakeOK(t)'
        /\ \A p \in Threads : p # t => lane'[p] = lane[p]
    <3>1. CASE q = <<>> /\ SetLane(t, "queue", IdleLane)
      <4>1. lane'[t]["queue"] = IdleLane /\ \A p \in Threads : p # t => lane'[p] = lane[p]
        BY <1>2, <3>1, SetQueueLane
      <4> QED
        BY <1>8, <2>6, <3>1, <4>1 DEF PipelineOK, WakeOK
    <3>2. CASE SetLane(t, "queue", w)
      BY <1>5, <2>4, <3>2, OnItsWay
    <3> QED
      BY <2>5, <3>1, <3>2
  <2>8. ReleaseOK(t)'
    BY <1>7, <1>10 DEF ReleaseOK
  <2>9. NoneDeleted' /\ CommandsOK'
    BY <1>2, <2>1, <2>2, SameCommands DEF NoneDeleted
  <2> QED
    BY <1>5, <1>6, <1>7, <2>1, <2>6, <2>7, <2>8, <2>9, StallStep
<1> QED
  BY <1>9, <1>10

\* A command that a user gives, and one that is answered.
LEMMA IssuedCommand ==
  ASSUME StallHyp, Quiescent, NEW h \in Handlers, NEW c, cmd' = [cmd EXCEPT ![h] = c],
         c.op \in {"interrupt", "unlock"}, c.op = "interrupt" => c.resume,
         UNCHANGED <<due, lane>>
  PROVE  CommandsOK'
<1>1. CmdOK /\ CommandsOK /\ Lanes = {"queue", "normalize"}
  BY WakeTypes DEF StallHyp, StallInv, Lanes
<1>2. cmd'[h] = c /\ \A g \in Handlers : g # h => cmd'[g] = cmd[g] /\ cmd[g].pc # "now"
  BY <1>1 DEF CmdOK, Quiescent
<1>3. \A t \in Threads : due'[t] = "none" /\ lane'[t]["queue"].pc \notin {"once", "loop"}
  BY <1>1 DEF Quiescent
<1> QED
  BY <1>1, <1>2, <1>3 DEF CommandsOK

LEMMA EndedCommand ==
  ASSUME StallHyp, NEW h \in Handlers, Quiescent \/ cmd[h].pc = "now",
         cmd' = [cmd EXCEPT ![h] = NoCmd]
  PROVE  CommandsOK' /\ \A t \in Threads : lane[t]["queue"].pc # "loop"
<1>1. CmdOK /\ CommandsOK
  BY WakeTypes DEF StallHyp, StallInv
<1>2. cmd'[h] = NoCmd /\ \A g \in Handlers : g # h => cmd'[g] = cmd[g] /\ cmd[g].pc # "now"
  BY <1>1 DEF CmdOK, Quiescent, CommandsOK
<1>3. NoCmd.pc = "none" /\ NoCmd.op = "none"
  BY DEF NoCmd
<1>4. \A t \in Threads : lane[t]["queue"].pc # "loop"
  BY <1>1 DEF Quiescent, CommandsOK, Lanes
<1>5. CommandsOK'
  BY <1>1, <1>2, <1>3 DEF CommandsOK
<1> QED
  BY <1>4, <1>5

LEMMA IdleInterruptStall ==
  ASSUME StallHyp, "restage" \notin Commands, NEW i \in Issues,
         NEW op \in {"interrupt", "restage"}, InterruptIdle(i, op)
  PROVE  StallInv'
<1> USE DEF StallHyp, LineHyp
<1>0. PICK t : t = ThreadOf[i]
  OBVIOUS
<1> DEFINE q == Without(queue[t], i)
<1>1. t \in Threads /\ i \in Own(t) /\ op = "interrupt"
  BY <1>0, ThreadAssumption DEF InterruptIdle, Interruptible, Own
<1>2. /\ StatusOK /\ QueueOK /\ FlagOK /\ NoneNow /\ NoneDeleted
      /\ lane[t]["queue"].pc # "loop" /\ PipelineOK(t) /\ ReleaseOK(t) /\ active[t] # i
  BY <1>0, <1>1, WakeTypes
     DEF InterruptIdle, Interruptible, WasActive, TypeOK, StallInv, Quiescent, NoneNow, Lanes
<1>3. /\ UNCHANGED <<lane, active, handling, rerun, resumeDue, faults>>
      /\ queue' = [queue EXCEPT ![t] = q]
      /\ status' = [status EXCEPT ![i] = "interrupted"]
      /\ due' = IF q # <<>> THEN [due EXCEPT ![t] = "process"] ELSE due
      /\ cmd' \in {cmd, Freeze(t)}
  BY <1>0, <1>1 DEF InterruptIdle, InterruptTarget, envVars
<1>4. UNCHANGED cmd
  BY <1>3, FreezeNothing DEF TypeOK
<1> HIDE DEF q
<1>5. status'[i] = "interrupted" /\ \A j \in Issues : j # i => status'[j] = status[j]
  BY <1>2, <1>3 DEF StatusOK
<1>6. /\ queue'[t] = q
      /\ q # <<>> => due'[t] # "none"
      /\ \A p \in Threads : p # t => queue'[p] = queue[p] /\ due'[p] = due[p]
  BY <1>1, <1>2, <1>3 DEF QueueOK, FlagOK
<1>7. PipelineOK(t)' /\ WakeOK(t)'
  <2>1. CASE q = <<>>
    BY <1>2, <1>3, <1>6, <2>1 DEF PipelineOK, WakeOK
  <2>2. CASE q # <<>>
    BY <1>1, <1>2, <1>3, <1>6, <2>2, AllScheduled
  <2> QED
    BY <2>1, <2>2
<1>8. ReleaseOK(t)'
  <2>1. active[t] # NoIssue => active[t] \in Issues
    BY <1>1, WakeTypes DEF OwnOrNone, Own
  <2> QED
    BY <1>2, <1>3, <1>5, <2>1 DEF ReleaseOK
<1>9. NoneDeleted' /\ CommandsOK'
  BY <1>2, <1>4, <1>5, SameCommands DEF NoneDeleted
<1> QED
  BY <1>1, <1>3, <1>5, <1>6, <1>7, <1>8, <1>9, StallStep

\* A command that waits for its answer.
LEMMA CommandBeginsStall ==
  ASSUME StallHyp, Commands \cap {"restage", "delete", "stop"} = {}, NEW h \in Handlers,
         CommandBegins(h)
  PROVE  StallInv'
<1> USE DEF StallHyp, LineHyp
<1>1. /\ StatusOK /\ ActiveOK /\ NoneDeleted
      /\ \A t \in Threads : lane[t]["queue"].pc # "loop" /\ PipelineOK(t)
      /\ Quiescent
  BY WakeTypes DEF CommandBegins, InterruptBegin, Interruptible, DeleteBegin, ReleaseBegin,
     StallInv, Quiescent, Lanes
<1>2. ASSUME NEW i \in Issues, NEW op \in {"interrupt", "restage"}, InterruptBegin(h, i, op)
      PROVE  StallInv'
  <2> DEFINE r == active[ThreadOf[i]] = i
             s == AwaitStop(ThreadOf[i])
             u == i \in ToSet(queue[ThreadOf[i]])
  <2>1. op = "interrupt" /\ WasActive(i)
    BY <1>2 DEF InterruptBegin, Interruptible
  <2>2. active[ThreadOf[i]] = i
    BY <1>1, <2>1, NoIssueAssumption
       DEF WasActive, LockInv, TrackingAgrees, ActiveOK, OwnOrNone, Own
  <2>3. PICK c : c = [NoCmd EXCEPT !.op = op, !.pc = s, !.issue = i, !.wasActive = TRUE,
                                   !.resume = r, !.wasQueued = u]
    OBVIOUS
  <2>4. c.op = "interrupt" /\ c.resume
    <3>1. r
      BY <2>2
    <3> HIDE DEF r, s, u
    <3> QED
      BY <2>1, <2>3, <3>1 DEF NoCmd
  <2>5. /\ cmd' = [cmd EXCEPT ![h] = c]
        /\ UNCHANGED <<status, queue, active, rerun, resumeDue, lane, due, handling, faults>>
    BY <1>2, <2>3 DEF InterruptBegin, envVars
  <2>6. CommandsOK'
    BY <1>1, <2>4, <2>5, IssuedCommand
  <2>7. \A t \in Threads : PipelineOK(t)' /\ ReleaseOK(t)' /\ WakeOK(t)'
    BY <2>5, OtherWake DEF FlagOK, TypeOK
  <2> QED
    BY <1>1, <2>5, <2>6, <2>7 DEF StallInv, NoneDeleted
<1>3. ASSUME NEW t \in Threads, NEW op \in {"unlock", "stop"}, ReleaseBegin(h, t, op)
      PROVE  StallInv'
  <2>1. op = "unlock"
    BY <1>3 DEF ReleaseBegin
  <2>2. PICK a \in Tracked(t) :
          /\ active' = [active EXCEPT ![t] = a]
          /\ IF a = NoIssue
             THEN ScheduleAll /\ UNCHANGED cmd
             ELSE /\ cmd' = [cmd EXCEPT ![h] = [NoCmd EXCEPT !.op = op, !.pc = AwaitStop(t),
                                                  !.issue = a, !.wasActive = TRUE]]
                  /\ UNCHANGED due
    BY <1>3, <2>1 DEF ReleaseBegin
  <2>3. UNCHANGED <<status, queue, rerun, resumeDue, lane, handling, faults>>
    BY <1>3 DEF ReleaseBegin, envVars
  <2>4. active'[t] = a /\ \A p \in Threads : p # t => active'[p] = active[p]
    BY <1>1, <2>2 DEF ActiveOK
  <2>5. NoneDeleted'
    BY <1>1, <2>3 DEF NoneDeleted
  <2>6. CASE a = NoIssue
    <3>1. /\ CommandsOK' /\ ReleaseOK(t)' /\ \A p \in Threads : due'[p] # "none"
      BY <1>1, <2>2, <2>4, <2>6, ScheduledAll, SameCommands
         DEF ReleaseOK, Quiescent, NoneNow
    <3>2. PipelineOK(t)' /\ WakeOK(t)'
      BY <1>1, <2>3, <3>1, AllScheduled
    <3> QED
      BY <2>3, <2>4, <2>5, <3>1, <3>2, StallStep
  <2>7. CASE a # NoIssue
    <3>1. a \in RunningIn(t) /\ UNCHANGED due
      BY <2>2, <2>7, TrackedRelease
    <3>2. ReleaseOK(t)'
      BY <2>3, <2>4, <3>1 DEF ReleaseOK, RunningIn
    <3>3. PipelineOK(t)' /\ WakeOK(t)'
      BY <2>3, <3>1, SameWake DEF Awake, RunningIn
    <3>4. PICK c : c = [NoCmd EXCEPT !.op = op, !.pc = AwaitStop(t), !.issue = a,
                                     !.wasActive = TRUE]
      OBVIOUS
    <3>5. c.op = "unlock" /\ cmd' = [cmd EXCEPT ![h] = c]
      BY <2>1, <2>2, <2>7, <3>4 DEF NoCmd
    <3>6. CommandsOK'
      BY <1>1, <2>3, <3>1, <3>5, IssuedCommand
    <3> QED
      BY <2>3, <2>4, <2>5, <3>1, <3>2, <3>3, <3>6, StallStep
  <2> QED
    BY <2>6, <2>7
<1> QED
  BY <1>2, <1>3 DEF CommandBegins, DeleteBegin

\* A thread is released and every queue scheduled.
LEMMA ReleasedStall ==
  ASSUME StallHyp, NEW t \in Threads, \A p \in Threads : lane[p]["queue"].pc # "loop",
         NoneDeleted', CommandsOK', ScheduleAll, active' = [active EXCEPT ![t] = NoIssue],
         UNCHANGED <<queue, rerun, resumeDue, lane, faults>>,
         \A p \in Threads : p # t => handling'[p] = handling[p],
         \A i \in Issues : i \notin Own(t) => status'[i] = status[i]
  PROVE  StallInv'
<1>1. ActiveOK
  BY WakeTypes
<1>2. active'[t] = NoIssue /\ \A p \in Threads : p # t => active'[p] = active[p]
  BY <1>1 DEF ActiveOK
<1>3. \A p \in Threads : due'[p] # "none"
  BY ScheduledAll
<1>4. PipelineOK(t)' /\ WakeOK(t)'
  BY <1>3, AllScheduled
<1>5. ReleaseOK(t)'
  BY <1>2 DEF ReleaseOK
<1> QED
  BY <1>2, <1>3, <1>4, <1>5, StallStep

LEMMA CommandAnsweredStall ==
  ASSUME StallHyp, NEW h \in Handlers, CommandAnswered(h)
  PROVE  StallInv'
<1> USE DEF StallHyp, LineHyp
<1> DEFINE i == cmd[h].issue
<1>1. /\ StatusOK /\ CmdOK /\ NoneDeleted
      /\ cmd[h].op \in {"none", "interrupt", "unlock"} /\ ~cmd[h].wasQueued
      /\ cmd[h].op = "interrupt" => cmd[h].resume
  BY DEF TypeOK, StallInv, CommandsOK, PastInv
<1>2. ASSUME NEW errors, StopAnswered(h, errors), cmd' = [cmd EXCEPT ![h] = NoCmd]
      PROVE  CommandsOK' /\ \A t \in Threads : lane[t]["queue"].pc # "loop"
  BY <1>2, EndedCommand DEF StopAnswered
<1>3. PICK t : t = ThreadOf[i]
  OBVIOUS
<1>4. ASSUME cmd[h].op # "none"
      PROVE  t \in Threads /\ i \in Own(t)
  BY <1>1, <1>3, <1>4, ThreadAssumption DEF CmdOK, Own
<1>5. ASSUME NEW s \in {"interrupted", "failed"}, cmd[h].op # "none", status' = Patched(i, s)
      PROVE  /\ NoneDeleted'
             /\ \A j \in Issues : j \notin Own(t) => status'[j] = status[j]
  BY <1>1, <1>4, <1>5 DEF Patched, NoneDeleted, StatusOK
<1>6. ASSUME NEW errors \in BOOLEAN, InterruptEnd(h, errors)
      PROVE  StallInv'
  <2>1. cmd[h].op = "interrupt" /\ cmd[h].resume
    BY <1>1, <1>6 DEF InterruptEnd
  <2>2. /\ StopAnswered(h, errors) /\ cmd' = [cmd EXCEPT ![h] = NoCmd]
        /\ active' = [active EXCEPT ![t] = NoIssue]
        /\ status' = Patched(i, "interrupted")
        /\ ScheduleAll
        /\ UNCHANGED <<queue, rerun, resumeDue, lane, faults, handling>>
    BY <1>1, <1>3, <1>6, <2>1 DEF InterruptEnd, InterruptTarget, Clear, envVars
  <2>3. CommandsOK' /\ \A p \in Threads : lane[p]["queue"].pc # "loop"
    BY <1>2, <2>2
  <2>4. /\ t \in Threads /\ NoneDeleted'
        /\ \A j \in Issues : j \notin Own(t) => status'[j] = status[j]
    BY <1>4, <1>5, <2>1, <2>2
  <2> HIDE DEF i
  <2> QED
    BY <2>2, <2>3, <2>4, ReleasedStall
<1>7. ASSUME NEW errors \in BOOLEAN, NEW refresh \in BOOLEAN, UnlockEnd(h, errors, refresh)
      PROVE  StallInv'
  <2>1. /\ cmd[h].op = "unlock" /\ StopAnswered(h, errors)
        /\ cmd' = [cmd EXCEPT ![h] = NoCmd]
        /\ UNCHANGED <<queue, rerun, resumeDue, lane, faults, handling>>
    BY <1>7 DEF UnlockEnd, envVars
  <2>2. CommandsOK' /\ \A p \in Threads : lane[p]["queue"].pc # "loop"
    BY <1>2, <2>1
  <2>3. CASE errors /\ ~refresh
    <3>1. UNCHANGED <<status, active, due>>
      BY <1>7, <2>3 DEF UnlockEnd
    <3>2. \A p \in Threads : PipelineOK(p)' /\ ReleaseOK(p)' /\ WakeOK(p)'
      BY <2>1, <3>1, OtherWake DEF FlagOK, TypeOK
    <3> QED
      BY <1>1, <2>2, <3>1, <3>2 DEF StallInv, NoneDeleted
  <2>4. CASE ~(errors /\ ~refresh)
    <3>1. /\ active' = [active EXCEPT ![t] = NoIssue]
          /\ status' = Patched(i, "failed")
          /\ ScheduleAll
      BY <1>3, <1>7, <2>4 DEF UnlockEnd, Clear
    <3>2. /\ t \in Threads /\ NoneDeleted'
          /\ \A j \in Issues : j \notin Own(t) => status'[j] = status[j]
      BY <1>4, <1>5, <2>1, <3>1
    <3> HIDE DEF i
    <3> QED
      BY <2>1, <2>2, <3>1, <3>2, ReleasedStall
  <2> QED
    BY <2>3, <2>4
<1> QED
  BY <1>1, <1>6, <1>7 DEF CommandAnswered, DeleteStopped, DeleteEnd, StopEnd

\* The end of a turn leaves its thread awake until its second half schedules it.
LEMMA TerminalStall ==
  ASSUME StallHyp, NEW t \in Threads,
         \/ \E outcome \in TerminalStatuses : ApplyTerminal(t, outcome)
         \/ SettleTerminal(t)
  PROVE  StallInv'
<1> USE DEF StallHyp, LineHyp
<1>1. /\ StatusOK /\ ActiveOK /\ EventOK /\ FlagOK /\ NoneDeleted /\ NoneNow
      /\ \A p \in Threads : lane[p]["queue"].pc # "loop"
  BY DEF ApplyTerminal, TakeEvent, SettleTerminal, TypeOK, StallInv, Quiescent, NoneNow, Lanes
<1>2. /\ UNCHANGED <<queue, rerun, resumeDue, lane, cmd, faults>>
      /\ CommandsOK'
  BY <1>1, SameCommands DEF ApplyTerminal, SettleTerminal, envVars
<1>3. ASSUME NEW outcome \in TerminalStatuses, ApplyTerminal(t, outcome)
      PROVE  StallInv'
  <2> DEFINE i == Current(t)
             e == Head(inbox[t])
  <2>1. UNCHANGED active /\ status' = Patched(i, outcome) /\ e.kind # "none"
    BY <1>3 DEF ApplyTerminal
  <2>2. /\ NoneDeleted'
        /\ \A j \in Issues : j \notin Own(t) => status'[j] = status[j]
    <3>1. i \in Own(t) \/ i = NoIssue
      BY <1>1 DEF Current, ActiveOK, OwnOrNone
    <3> HIDE DEF i, e
    <3> QED
      BY <1>1, <2>1, <3>1, NoIssueAssumption
         DEF Patched, NoneDeleted, StatusOK, HasCard, TerminalStatuses
  <2>3. CASE i = NoIssue
    <3>1. /\ ScheduleAll /\ UNCHANGED handling
          /\ active[t] = NoIssue
      BY <1>3, <2>3 DEF ApplyTerminal, Current
    <3>2. active' = [active EXCEPT ![t] = NoIssue]
      BY <1>1, <2>1, <3>1 DEF ActiveOK
    <3> HIDE DEF i, e
    <3> QED
      BY <1>1, <1>2, <2>2, <3>1, <3>2, ReleasedStall
  <2>4. CASE i # NoIssue
    <3>1. handling' = [handling EXCEPT ![t] = e] /\ UNCHANGED due
      BY <1>3, <2>4 DEF ApplyTerminal
    <3>2. e # NoEvent
      BY <2>1 DEF NoEvent
    <3> HIDE DEF i, e
    <3>3. /\ handling'[t] # NoEvent
          /\ \A p \in Threads : p # t => handling'[p] = handling[p]
      BY <1>1, <3>1, <3>2 DEF EventOK
    <3>4. PipelineOK(t)' /\ WakeOK(t)' /\ ReleaseOK(t)'
      BY <1>2, <3>1, <3>3, SameWake DEF Awake, ReleaseOK, FlagOK
    <3> QED
      BY <1>1, <1>2, <2>1, <2>2, <3>1, <3>3, <3>4, StallStep
  <2> QED
    BY <2>3, <2>4
<1>4. CASE SettleTerminal(t)
  <2>1. /\ ScheduleAll /\ UNCHANGED status
        /\ active' = [active EXCEPT ![t] = NoIssue]
        /\ handling' = [handling EXCEPT ![t] = NoEvent]
    BY <1>4 DEF SettleTerminal
  <2>2. \A p \in Threads : p # t => handling'[p] = handling[p]
    BY <1>1, <2>1 DEF EventOK
  <2>3. NoneDeleted'
    BY <1>1, <2>1 DEF NoneDeleted
  <2> QED
    BY <1>1, <1>2, <2>1, <2>2, <2>3, ReleasedStall
<1> QED
  BY <1>3, <1>4

\* The watchdog names a running issue, or lets an issue without a card go.
LEMMA WatchStall ==
  ASSUME StallHyp, NEW t \in Threads, WatchRunningIssues(t) \/ ReconcileOrphan(t)
  PROVE  StallInv'
<1> USE DEF StallHyp, LineHyp
<1>1. ActiveOK /\ FlagOK /\ NoneDeleted /\ NoneNow
  BY DEF WatchRunningIssues, ReconcileOrphan, TypeOK, StallInv, Quiescent, NoneNow
<1>2. UNCHANGED <<status, queue, rerun, resumeDue, lane, due, cmd, handling, faults>>
  BY DEF WatchRunningIssues, ReconcileOrphan, contVars, envVars
<1>3. PICK a : /\ active' = [active EXCEPT ![t] = a]
               /\ a = NoIssue \/ a \in RunningIn(t)
  BY DEF WatchRunningIssues, ReconcileOrphan, Clear, Adoptable
<1>4. active'[t] = a /\ \A p \in Threads : p # t => active'[p] = active[p]
  BY <1>1, <1>3 DEF ActiveOK
<1>5. ReleaseOK(t)'
  BY <1>2, <1>3, <1>4 DEF ReleaseOK, RunningIn
<1>6. PipelineOK(t)' /\ WakeOK(t)'
  BY <1>1, <1>2, SameWake DEF Awake, RunningIn, FlagOK
<1>7. NoneDeleted' /\ CommandsOK'
  BY <1>1, <1>2, SameCommands DEF NoneDeleted
<1> QED
  BY <1>1, <1>2, <1>4, <1>5, <1>6, <1>7, StallStep DEF FlagOK

LEMMA ReadyStall ==
  ASSUME StallHyp, AppServerReady
  PROVE  StallInv'
<1>1. /\ NoneDeleted /\ NoneNow
      /\ \A t \in Threads : lane[t]["queue"].pc # "loop"
  BY DEF StallHyp, AppServerReady, StallInv, Quiescent, NoneNow, Lanes
<1>2. UNCHANGED <<status, queue, active, rerun, lane, cmd, handling, faults>> /\ ScheduleAll
  BY DEF AppServerReady, envVars
<1>3. ASSUME NEW t \in Threads PROVE PipelineOK(t)' /\ ReleaseOK(t)' /\ WakeOK(t)'
  <2>1. due'[t] # "none"
    BY <1>2, ScheduledAll
  <2> QED
    BY <1>1, <1>2, <2>1, AllScheduled, SameRelease DEF RunningIn
<1> QED
  BY <1>1, <1>2, <1>3, SameCommands DEF StallInv, NoneDeleted

LEMMA SameStall ==
  ASSUME StallHyp, UNCHANGED vars
  PROVE  StallInv'
BY DEF StallHyp, StallInv, vars, NoneDeleted, CommandsOK, PipelineOK, ReleaseOK, WakeOK,
   Awake, RunningIn

LEMMA InitStall == Init => StallInv
<1> SUFFICES ASSUME Init PROVE StallInv
  OBVIOUS
<1>1. IdleLane.pc = "idle" /\ IdleLane.mode = "recover" /\ NoCmd.op = "none" /\ NoCmd.pc = "none"
  BY DEF IdleLane, NoCmd
<1>2. \A t \in Threads : lane[t]["queue"] = IdleLane
  BY DEF Init, Lanes
<1> QED
  BY <1>1, <1>2
     DEF Init, StallInv, NoneDeleted, CommandsOK, PipelineOK, ReleaseOK, WakeOK

LEMMA NextStall ==
  ASSUME Commands \subseteq {"interrupt", "unlock", "reorder"}, OneThrow,
         TypeOK, LockInv, PastInv, LineInv, StallInv, [Next]_vars
  PROVE  StallInv'
<1>1. StallHyp
  BY DEF StallHyp, LineHyp
<1>2. /\ "restage" \notin Commands /\ "normalize" \notin Commands
      /\ Commands \cap {"restage", "delete", "stop"} = {}
  OBVIOUS
<1>3. CASE UNCHANGED vars \/ AppServerReady
  BY <1>1, <1>3, SameStall, ReadyStall
<1>4. CASE (\E i \in Issues : CreateThreadIssue(i)) \/ \E k \in 1..Len(turns) : EndTurn(k)
  BY <1>1, <1>4, QuietStall
<1>5. CASE \E i \in Issues, op \in {"interrupt", "restage"} : InterruptIdle(i, op)
  BY <1>1, <1>2, <1>5, IdleInterruptStall
<1>6. CASE \E t \in Threads : QueueStep(t)
  BY <1>1, <1>6, QueueStall, LoopStall, StartStall, QuietStall DEF QueueStep
<1>7. ASSUME NEW t \in Threads, NEW l \in Lanes, LaneStep(t, l)
      PROVE  StallInv'
  <2>1. \/ ProcessIssueQueueOnce(t, l)
        \/ StageDone(t, l) \/ EnsureDone(t, l)
        \/ TurnThreadNotFound(t, l) \/ RebindDone(t, l)
        \/ (\E recoverable \in BOOLEAN : StartFails(t, l, recoverable)) \/ StartMissing(t, l)
        \/ TurnResponds(t, l) \/ TurnStartFails(t, l)
        \/ (\E refresh \in BOOLEAN : NormalizeListed(t, l, refresh)) \/ NormalizeFails(t, l)
    BY <1>7 DEF LaneStep
  <2> QED
    BY <1>1, <2>1, OnceStall, BeginStall, RetryStall, ThrowStall, AnswerStall, RepairStall
<1>8. CASE \E t \in Threads : EventStep(t)
  BY <1>1, <1>8, QuietStall, TerminalStall, WatchStall DEF EventStep
<1>9. CASE \E h \in Handlers : CommandBegins(h) \/ CommandAnswered(h)
  BY <1>1, <1>2, <1>9, CommandBeginsStall, CommandAnsweredStall
<1>10. ~\E t \in Threads : NormalizeRootThread(t)
  BY <1>2 DEF NormalizeRootThread
<1> QED
  BY <1>3, <1>4, <1>5, <1>6, <1>7, <1>8, <1>9, <1>10 DEF Next

\* No lost wake-up: when the bridge comes to rest, a queue that holds issues is behind
\* a running one, whose end drains it.  Of the user commands, interrupting, unlocking
\* and reordering keep it; a second start that throws while the queue is being
\* repaired after a first one is excluded, for it gives up the lock with the rerun.
THEOREM NoLostWakeUp ==
  ASSUME Commands \subseteq {"interrupt", "unlock", "reorder"}, OneThrow
  PROVE  Spec => []NoStall
<1>1. Commands \cap {"restage", "normalize"} = {} /\ "normalize" \notin Commands
  OBVIOUS
<1>2. Init => StallInv
  BY InitStall
<1>3. TypeOK /\ LockInv /\ (PastInv /\ LineInv) /\ StallInv /\ [Next]_vars => StallInv'
  BY NextStall
<1>4. StallInv => NoStall
  <2> SUFFICES ASSUME StallInv, Idle, NEW t \in Threads, Waiting(t)
               PROVE  FALSE
    BY DEF NoStall
  <2>1. ~Awake(t)
    BY DEF Awake, Idle, Waiting
  <2>2. lane[t]["queue"].pc = "idle" /\ due[t] = "none"
    BY DEF Idle, Quiescent, Lanes
  <2> QED
    BY <2>1, <2>2 DEF StallInv, WakeOK, Waiting
<1>5. Spec => []LockInv
  BY <1>1, OneOccupant
<1>6. Spec => [](PastInv /\ LineInv)
  BY <1>1, QueueExact
<1> QED
  BY <1>2, <1>3, <1>4, <1>5, <1>6, TypeCorrect, PTL DEF Spec
=============================================================================
