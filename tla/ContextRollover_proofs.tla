----------------------- MODULE ContextRollover_proofs -----------------------
(***************************************************************************)
(* Proofs about ContextRollover, for every set of issues, every choice of  *)
(* faults and commands and every bound.                                    *)
(***************************************************************************)
EXTENDS ContextRollover, TLAPS, SequenceTheorems, FiniteSetTheorems,
        WellFoundedInduction

USE DEF cards, server, threads, commands

-----------------------------------------------------------------------------
(***************************************************************************)
(* Facts about data                                                        *)
(***************************************************************************)

\* A set of naturals that is not empty has its minimum.
LEMMA MinIsMember ==
  ASSUME NEW S, S \subseteq Nat, S # {}
  PROVE  Min(S) \in S
<1> DEFINE R == {r \in Nat \X Nat : r[1] < r[2]}
<1>1. IsWellFoundedOn(R, Nat)
  BY NatLessThanWellFounded DEF OpToRel
<1>2. \E x \in S : \A y \in S : ~(<<y, x>> \in R)
  <2> HIDE DEF R
  <2> QED
    BY <1>1, WFMin
<1>3. \E x \in S : \A y \in S : x =< y
  <2>1. PICK x \in S : \A y \in S : ~(<<y, x>> \in R)
    BY <1>2
  <2>2. ASSUME NEW y \in S PROVE x =< y
    <3>1. ~(<<y, x>> \in R)
      BY <2>1
    <3>2. y \in Nat /\ x \in Nat
      OBVIOUS
    <3>3. ~(y < x)
      BY <3>1, <3>2
    <3> QED
      BY <3>2, <3>3
  <2> QED
    BY <2>2
<1> QED
  BY <1>3 DEF Min

\* Replacing an element of a sequence, if it is one, keeps length and type.
LEMMA ExceptFacts ==
  ASSUME NEW S, NEW s \in Seq(S), NEW p, NEW e, p \in 1..Len(s) => e \in S
  PROVE  /\ [s EXCEPT ![p] = e] \in Seq(S)
         /\ Len([s EXCEPT ![p] = e]) = Len(s)
         /\ DOMAIN [s EXCEPT ![p] = e] = DOMAIN s
         /\ \A q \in 1..Len(s) : [s EXCEPT ![p] = e][q] = IF q = p THEN e ELSE s[q]
<1>1. Len(s) \in Nat /\ DOMAIN s = 1..Len(s)
  BY LenProperties
<1> DEFINE t == [s EXCEPT ![p] = e]
<1>2. t = [q \in 1..Len(s) |-> IF q = p THEN e ELSE s[q]]
  BY <1>1
<1>3. \A q \in 1..Len(s) : (IF q = p THEN e ELSE s[q]) \in S
  BY ElementOfSeq
<1>4. t \in [1..Len(s) -> S]
  BY <1>2, <1>3
<1>5. t \in Seq(S)
  BY <1>1, <1>4, SeqDef
<1>6. Len(t) = Len(s)
  BY <1>1, <1>4, <1>5, LenProperties
<1> QED
  BY <1>1, <1>2, <1>5, <1>6

\* A function on the positions of a sequence is a sequence of that length.
LEMMA MapFacts ==
  ASSUME NEW S, NEW n \in Nat, NEW f \in [1..n -> S]
  PROVE  f \in Seq(S) /\ Len(f) = n
<1>1. f \in Seq(S)
  BY SeqDef
<1> QED
  BY <1>1, LenProperties

-----------------------------------------------------------------------------
(***************************************************************************)
(* The inductive invariant.  Its parts are operators of the values they    *)
(* speak of and of the numbers of physical threads (np), routed Codex      *)
(* threads (nr) and turns (nt), which only grow.                           *)
(***************************************************************************)
IssueOrNone == Issues \cup {NoIssue}
Works == [pc : Pcs, kind : {"plain", "preflight", "runtime"}, issue : IssueOrNone,
          p : Nat, src : Nat, cap : PhysicalThreads, was : BOOLEAN, turn : Nat]
Requested == {"create", "interrupt", "stage", "ensure", "turn"}

\* A physical thread refers to Codex threads and turns that exist.
Refers(r, nr, nt) == r \in PhysicalThreads /\ r.codex \in 0..nr /\ r.turn \in 0..nt

\* A start or a rollover under way: what it is about is known, only a rollover
\* creates a successor, a turn is requested on a bound Codex thread.
WorkOK(w, np, nr, nt) ==
  /\ w \in Works
  /\ w.p \in 0..np /\ w.src \in 0..np /\ w.turn \in 0..nt
  /\ Refers(w.cap, nr, nt)
  /\ w.pc \in Requested => w.issue \in Issues
  /\ w.pc \in Requested \cup {"sync"} => w.p # NoThread
  /\ w.pc \in {"create", "interrupt"} => w.kind # "plain" /\ w.src # NoThread
  /\ w.pc = "turn" => w.cap.codex # NoThread
  /\ w.pc \in {"idle", "sync"} => w.kind = "plain"

PhysOK(ph, nr, nt) == ph \in Seq(PhysicalThreads) /\ \A p \in 1..Len(ph) : Refers(ph[p], nr, nt)
LanesOK(ln, np, nr, nt) == ln \in [Lanes -> Works] /\ \A l \in Lanes : WorkOK(ln[l], np, nr, nt)
RootOK(r, np) == r \in [active : 1..np, seq : Nat, deleted : BOOLEAN, degraded : BOOLEAN]
RouteOK(r, np) == r \in Seq(0..np)
CardsOK(st, q, a, ap, np) == /\ st \in [Issues -> Statuses]
                             /\ q \in Seq(Issues)
                             /\ a \in IssueOrNone
                             /\ ap \in [1..np -> IssueOrNone]
FlagsOK(lk, cd, tb, sp, np) == /\ lk \in {"free", "rollover", "delete"}
                               /\ cd \in BOOLEAN
                               /\ tb \subseteq 1..np
                               /\ sp \in IssueOrNone
ServerOK(ts, ib, nr) ==
  /\ ts \in Seq([codex : 1..nr, issue : Issues, live : BOOLEAN])
  /\ ib \in Seq([kind : {"usage", "end"}, turn : 1..Len(ts), level : Levels])
DeletingOK(d, np, nr, nt) ==
  /\ d \in [pc : {"none", "stop", "clean", "done"}, cap : Seq(PhysicalThreads)]
  /\ Len(d.cap) <= np
  /\ \A p \in 1..Len(d.cap) : Refers(d.cap[p], nr, nt)

Typed == /\ PhysOK(phys, Len(route), Len(turns))
         /\ LanesOK(lane, Len(phys), Len(route), Len(turns))
         /\ RootOK(root, Len(phys))
         /\ RouteOK(route, Len(phys))
         /\ CardsOK(status, queue, active, activeP, Len(phys))
         /\ FlagsOK(lock, cooldown, tomb, stopping, Len(phys))
         /\ ServerOK(turns, inbox, Len(route))
         /\ DeletingOK(deleting, Len(phys), Len(route), Len(turns))

\* Until the deletion removes them no physical thread is deleted, nor does
\* anything remember one as deleted; afterwards nothing is queued.
Erasure(d, r, q, ph, ln) ==
  /\ d.pc # "none" => r.deleted
  /\ d.pc # "done" => /\ \A p \in 1..Len(ph) : ~ph[p].deleted
                      /\ \A p \in 1..Len(d.cap) : ~d.cap[p].deleted
                      /\ \A l \in Lanes : ~ln[l].cap.deleted
  /\ d.pc = "done" => q = <<>>

\* The lock and its one holder.
Holder(lk, d, ln) ==
  /\ \A l, m \in Lanes : ln[l].kind # "plain" /\ ln[m].kind # "plain" => l = m
  /\ lk = "rollover" <=> \E l \in Lanes : ln[l].kind # "plain"
  /\ lk = "delete" <=> d.pc \in {"stop", "clean"}

IInv == /\ Typed
        /\ Erasure(deleting, root, queue, phys, lane)
        /\ Holder(lock, deleting, lane)

-----------------------------------------------------------------------------
(***************************************************************************)
(* The parts survive growth                                                *)
(***************************************************************************)
LEMMA RefersGrows ==
  ASSUME NEW r, NEW nr \in Nat, NEW nt \in Nat, NEW mr \in Nat, NEW mt \in Nat,
         nr <= mr, nt <= mt, Refers(r, nr, nt)
  PROVE  Refers(r, mr, mt)
BY DEF Refers

LEMMA WorkGrows ==
  ASSUME NEW w, NEW np \in Nat, NEW nr \in Nat, NEW nt \in Nat,
         NEW mp \in Nat, NEW mr \in Nat, NEW mt \in Nat,
         np <= mp, nr <= mr, nt <= mt, WorkOK(w, np, nr, nt)
  PROVE  WorkOK(w, mp, mr, mt)
<1>1. Refers(w.cap, mr, mt)
  BY RefersGrows DEF WorkOK
<1>2. w.p \in 0..mp /\ w.src \in 0..mp /\ w.turn \in 0..mt
  BY DEF WorkOK
<1> QED
  BY <1>1, <1>2 DEF WorkOK

LEMMA PhysGrows ==
  ASSUME NEW ph, NEW nr \in Nat, NEW nt \in Nat, NEW mr \in Nat, NEW mt \in Nat,
         nr <= mr, nt <= mt, PhysOK(ph, nr, nt)
  PROVE  PhysOK(ph, mr, mt)
BY RefersGrows DEF PhysOK

LEMMA LanesGrow ==
  ASSUME NEW ln, NEW np \in Nat, NEW nr \in Nat, NEW nt \in Nat,
         NEW mp \in Nat, NEW mr \in Nat, NEW mt \in Nat,
         np <= mp, nr <= mr, nt <= mt, LanesOK(ln, np, nr, nt)
  PROVE  LanesOK(ln, mp, mr, mt)
BY WorkGrows DEF LanesOK

LEMMA DeletingGrows ==
  ASSUME NEW d, NEW np \in Nat, NEW nr \in Nat, NEW nt \in Nat,
         NEW mp \in Nat, NEW mr \in Nat, NEW mt \in Nat,
         np <= mp, nr <= mr, nt <= mt, DeletingOK(d, np, nr, nt)
  PROVE  DeletingOK(d, mp, mr, mt)
<1>1. Len(d.cap) \in Nat
  BY LenProperties DEF DeletingOK
<1>2. Len(d.cap) <= mp
  BY <1>1 DEF DeletingOK
<1>3. \A p \in 1..Len(d.cap) : Refers(d.cap[p], mr, mt)
  BY RefersGrows DEF DeletingOK
<1> QED
  BY <1>2, <1>3 DEF DeletingOK

LEMMA RouteGrows ==
  ASSUME NEW r, NEW np \in Nat, NEW mp \in Nat, np <= mp, RouteOK(r, np)
  PROVE  RouteOK(r, mp)
<1>1. 0..np \subseteq 0..mp
  OBVIOUS
<1> QED
  BY <1>1, SeqMonotonic DEF RouteOK

LEMMA ServerGrows ==
  ASSUME NEW ts, NEW ib, NEW nr \in Nat, NEW mr \in Nat, nr <= mr, ServerOK(ts, ib, nr)
  PROVE  ServerOK(ts, ib, mr)
<1>1. [codex : 1..nr, issue : Issues, live : BOOLEAN]
        \subseteq [codex : 1..mr, issue : Issues, live : BOOLEAN]
  OBVIOUS
<1> QED
  BY <1>1, SeqMonotonic DEF ServerOK

\* Numbers are numbers.
LEMMA Sizes ==
  ASSUME Typed
  PROVE  /\ Len(phys) \in Nat \ {0} /\ Len(route) \in Nat /\ Len(turns) \in Nat /\ Len(inbox) \in Nat
         /\ DOMAIN phys = 1..Len(phys) /\ DOMAIN route = 1..Len(route)
         /\ DOMAIN turns = 1..Len(turns) /\ DOMAIN inbox = 1..Len(inbox)
         /\ DOMAIN activeP = 1..Len(phys)
<1>1. /\ Len(phys) \in Nat /\ DOMAIN phys = 1..Len(phys)
      /\ Len(route) \in Nat /\ DOMAIN route = 1..Len(route)
      /\ Len(turns) \in Nat /\ DOMAIN turns = 1..Len(turns)
      /\ Len(inbox) \in Nat /\ DOMAIN inbox = 1..Len(inbox)
  BY LenProperties DEF Typed, PhysOK, RouteOK, ServerOK
<1>2. 1..Len(phys) # {}
  BY DEF Typed, RootOK
<1> QED
  BY <1>1, <1>2 DEF Typed, CardsOK

\* Two ways to change the lanes.
LEMMA LaneSet ==
  ASSUME NEW ln, NEW np, NEW nr, NEW nt, LanesOK(ln, np, nr, nt),
         NEW l \in Lanes, NEW w, WorkOK(w, np, nr, nt)
  PROVE  /\ LanesOK([ln EXCEPT ![l] = w], np, nr, nt)
         /\ \A m \in Lanes : [ln EXCEPT ![l] = w][m] = IF m = l THEN w ELSE ln[m]
BY DEF LanesOK, WorkOK

LEMMA IdleOK ==
  ASSUME NEW np \in Nat, NEW nr \in Nat, NEW nt \in Nat
  PROVE  WorkOK(Idle, np, nr, nt) /\ Idle.kind = "plain" /\ ~Idle.cap.deleted
BY DEF WorkOK, Works, Idle, Fresh, Refers, PhysicalThreads, Pcs, Requested, IssueOrNone, NoThread, Levels

-----------------------------------------------------------------------------
(***************************************************************************)
(* Shared parts of the actions                                             *)
(***************************************************************************)

\* What is known of the work of a lane.
LEMMA LaneFacts ==
  ASSUME IInv, NEW l \in Lanes
  PROVE  /\ WorkOK(lane[l], Len(phys), Len(route), Len(turns))
         /\ lane[l] \in Works
         /\ lane \in [Lanes -> Works]
         /\ deleting.pc # "done" => ~lane[l].cap.deleted
         /\ lane[l].kind # "plain" => lock = "rollover"
         /\ lock \in {"free", "rollover", "delete"}
BY DEF IInv, Typed, LanesOK, WorkOK, Erasure, Holder, FlagsOK

\* The lock's holder is the same as before.
LEMMA HolderKept ==
  ASSUME IInv, UNCHANGED lock,
         deleting'.pc \in {"stop", "clean"} <=> deleting.pc \in {"stop", "clean"},
         \A l \in Lanes : lane'[l].kind = lane[l].kind
  PROVE  Holder(lock', deleting', lane')
BY DEF IInv, Holder

\* A lane that has finished gives back the lock it held.
LEMMA HolderDone ==
  ASSUME IInv, NEW l \in Lanes, Unlock(l), lane' = [lane EXCEPT ![l] = Idle], UNCHANGED deleting
  PROVE  /\ Holder(lock', deleting', lane')
         /\ lock' \in {"free", "rollover", "delete"}
         /\ LanesOK(lane', Len(phys), Len(route), Len(turns))
         /\ \A m \in Lanes : lane'[m] = IF m = l THEN Idle ELSE lane[m]
         /\ ~Idle.cap.deleted
<1>1. \A m \in Lanes : lane'[m] = IF m = l THEN Idle ELSE lane[m]
  BY LaneFacts
<1>2. Idle.kind = "plain" /\ ~Idle.cap.deleted
  BY DEF Idle, Fresh
<1>3. LanesOK(lane', Len(phys), Len(route), Len(turns))
  BY IdleOK, LaneSet, Sizes DEF IInv, Typed
<1>4. lock' \in {"free", "rollover", "delete"}
  BY LaneFacts DEF Unlock
<1>5. Holder(lock', deleting', lane')
  <2>1. CASE lane[l].kind = "plain"
    <3>1. \A m \in Lanes : lane'[m].kind = lane[m].kind
      BY <1>1, <1>2, <2>1
    <3>2. UNCHANGED lock
      BY <2>1 DEF Unlock
    <3> QED
      BY <3>1, <3>2, HolderKept
  <2>2. CASE lane[l].kind # "plain"
    <3>1. lock' = "free" /\ lock = "rollover"
      BY <2>2, LaneFacts DEF Unlock
    <3>2. \A m \in Lanes : lane'[m].kind = "plain"
      BY <1>1, <1>2, <2>2 DEF IInv, Holder
    <3>3. deleting.pc \notin {"stop", "clean"}
      BY <3>1 DEF IInv, Holder
    <3> QED
      BY <3>1, <3>2, <3>3 DEF Holder
  <2> QED
    BY <2>1, <2>2
<1> QED
  BY <1>1, <1>2, <1>3, <1>4, <1>5

\* Overwriting or closing a physical thread.
LEMMA PhysSet ==
  ASSUME NEW ph, NEW nr, NEW nt, PhysOK(ph, nr, nt), NEW p, NEW r,
         p \in 1..Len(ph) => Refers(r, nr, nt)
  PROVE  /\ PhysOK([ph EXCEPT ![p] = r], nr, nt)
         /\ Len([ph EXCEPT ![p] = r]) = Len(ph)
         /\ DOMAIN [ph EXCEPT ![p] = r] = DOMAIN ph
         /\ \A q \in 1..Len(ph) : [ph EXCEPT ![p] = r][q] = IF q = p THEN r ELSE ph[q]
<1>1. p \in 1..Len(ph) => r \in PhysicalThreads
  BY DEF Refers
<1>2. /\ [ph EXCEPT ![p] = r] \in Seq(PhysicalThreads)
      /\ Len([ph EXCEPT ![p] = r]) = Len(ph)
      /\ DOMAIN [ph EXCEPT ![p] = r] = DOMAIN ph
      /\ \A q \in 1..Len(ph) : [ph EXCEPT ![p] = r][q] = IF q = p THEN r ELSE ph[q]
  BY <1>1, ExceptFacts DEF PhysOK
<1>3. \A q \in 1..Len(ph) : Refers([ph EXCEPT ![p] = r][q], nr, nt)
  BY <1>2 DEF PhysOK
<1> QED
  BY <1>2, <1>3 DEF PhysOK

LEMMA ClosedFacts ==
  ASSUME NEW ph, NEW nr \in Nat, NEW nt \in Nat, PhysOK(ph, nr, nt), NEW p \in 1..Len(ph)
  PROVE  /\ PhysOK(Closed(ph, p), nr, nt)
         /\ Len(Closed(ph, p)) = Len(ph)
         /\ \A q \in 1..Len(ph) : Closed(ph, p)[q].deleted = ph[q].deleted
         /\ \A q \in 1..Len(ph) : Closed(ph, p)[q].seq = ph[q].seq
<1> DEFINE r == [ph[p] EXCEPT !.closed = TRUE]
<1>1. Refers(ph[p], nr, nt)
  BY DEF PhysOK
<1>2. Refers(r, nr, nt) /\ r.deleted = ph[p].deleted /\ r.seq = ph[p].seq
  BY <1>1 DEF Refers, PhysicalThreads
<1>3. Closed(ph, p) = [ph EXCEPT ![p] = r]
  BY DEF Closed
<1> HIDE DEF r
<1>4. /\ PhysOK([ph EXCEPT ![p] = r], nr, nt)
      /\ Len([ph EXCEPT ![p] = r]) = Len(ph)
      /\ \A q \in 1..Len(ph) : [ph EXCEPT ![p] = r][q] = IF q = p THEN r ELSE ph[q]
  BY <1>2, PhysSet
<1> QED
  BY <1>2, <1>3, <1>4

\* clearRunningIssueTracking leaves a map of the same physical threads.
LEMMA ClearedFacts ==
  ASSUME IInv
  PROVE  ClearedP \in [1..Len(phys) -> IssueOrNone]
BY Sizes DEF IInv, Typed, CardsOK, ClearedP, IssueOrNone

\* The active physical thread of a root thread that is not erased.
LEMMA ActiveFacts ==
  ASSUME IInv, NEW ph, DOMAIN ph = DOMAIN phys, \A p \in DOMAIN ph : ~ph[p].deleted
  PROVE  ActivePhysical(ph) = root.active /\ root.active \in 1..Len(phys)
BY Sizes DEF IInv, Typed, RootOK, ActivePhysical

LEMMA UnboundFacts ==
  ASSUME IInv
  PROVE  /\ PhysOK(Unbound(phys), Len(route), Len(turns))
         /\ Len(Unbound(phys)) = Len(phys)
         /\ \A p \in 1..Len(phys) : Unbound(phys)[p].deleted = phys[p].deleted
<1>1. PhysOK(phys, Len(route), Len(turns))
  BY DEF IInv, Typed
<1>2. phys \in [1..Len(phys) -> PhysicalThreads]
  BY <1>1, LenProperties DEF PhysOK
<1>3. CASE ActivePhysical(phys) \in 1..Len(phys)
  <2> DEFINE a == ActivePhysical(phys)
             r == [phys[a] EXCEPT !.codex = NoThread]
  <2>1. a \in 1..Len(phys)
    BY <1>3
  <2>2. Refers(r, Len(route), Len(turns)) /\ r.deleted = phys[a].deleted
    <3> HIDE DEF a
    <3>1. Refers(phys[a], Len(route), Len(turns)) /\ Len(route) \in Nat
      BY <1>1, <2>1, Sizes DEF PhysOK, IInv
    <3> QED
      BY <3>1 DEF Refers, PhysicalThreads, NoThread
  <2>3. Unbound(phys) = [phys EXCEPT ![a] = r]
    BY <2>1 DEF Unbound, NoThread
  <2> HIDE DEF a, r
  <2>4. /\ PhysOK([phys EXCEPT ![a] = r], Len(route), Len(turns))
        /\ Len([phys EXCEPT ![a] = r]) = Len(phys)
        /\ \A q \in 1..Len(phys) : [phys EXCEPT ![a] = r][q] = IF q = a THEN r ELSE phys[q]
    BY <1>1, <2>1, <2>2, PhysSet
  <2> QED
    BY <2>2, <2>3, <2>4
<1>4. CASE ActivePhysical(phys) \notin 1..Len(phys)
  <2>1. Unbound(phys) = phys
    BY <1>2, <1>4 DEF Unbound
  <2> QED
    BY <1>1, <2>1
<1> QED
  BY <1>3, <1>4

LEMMA UnroutedFacts ==
  ASSUME IInv
  PROVE  RouteOK(Unrouted(phys), Len(phys)) /\ Len(Unrouted(phys)) = Len(route)
<1>1. Unrouted(phys) \in [1..Len(route) -> 0..Len(phys)]
  BY Sizes DEF IInv, Typed, RouteOK, Unrouted, NoThread
<1> QED
  BY <1>1, MapFacts, Sizes DEF RouteOK, IInv

\* A turn that ends is marked and announced.
LEMMA EndedFacts ==
  ASSUME IInv, NEW n \in 1..Len(turns), EndedBy(n)
  PROVE  ServerOK(turns', inbox', Len(route)) /\ Len(turns') = Len(turns)
<1> DEFINE T == [codex : 1..Len(route), issue : Issues, live : BOOLEAN]
           N == [kind : {"usage", "end"}, turn : 1..Len(turns), level : Levels]
           e == [kind |-> "end", turn |-> n, level |-> "low"]
           u == [turns[n] EXCEPT !.live = FALSE]
<1>1. turns \in Seq(T) /\ inbox \in Seq(N)
  BY DEF IInv, Typed, ServerOK
<1>2. turns[n] \in T
  BY <1>1, ElementOfSeq
<1>3. u \in T /\ turns' = [turns EXCEPT ![n] = u]
  BY <1>2 DEF EndedBy
<1>4. turns' \in Seq(T) /\ Len(turns') = Len(turns)
  <2> HIDE DEF T, u
  <2> QED
    BY <1>1, <1>3, ExceptFacts
<1>5. e \in N /\ inbox' = Append(inbox, e)
  BY DEF EndedBy, Levels
<1>6. inbox' \in Seq(N)
  <2> HIDE DEF N, e
  <2> QED
    BY <1>1, <1>5, AppendProperties
<1> QED
  BY <1>4, <1>6 DEF ServerOK

\* The end of a turn, if there is one that lives.
LEMMA MaybeEnded ==
  ASSUME IInv, NEW n \in 0..Len(turns),
         \/ n # 0 /\ EndedBy(n)
         \/ NothingEnded
  PROVE  ServerOK(turns', inbox', Len(route)) /\ Len(turns') = Len(turns)
<1>1. CASE n # 0 /\ EndedBy(n)
  BY <1>1, EndedFacts, Sizes DEF IInv
<1>2. CASE NothingEnded
  BY <1>2 DEF IInv, Typed, NothingEnded
<1> QED
  BY <1>1, <1>2

\* resolving the Codex thread of a notification yields a physical thread or none.
LEMMA OwnerFacts ==
  ASSUME IInv, NEW c \in 1..Len(route)
  PROVE  Owner(c) \in 0..Len(phys)
<1>1. route[c] \in 0..Len(phys)
  BY ElementOfSeq DEF IInv, Typed, RouteOK
<1> DEFINE H == {p \in DOMAIN phys : phys[p].codex = c}
<1>2. H \subseteq 1..Len(phys) /\ H \subseteq Nat
  BY Sizes DEF IInv
<1>3. H # {} => Min(H) \in H
  <2> HIDE DEF H
  <2> QED
    BY <1>2, MinIsMember
<1>4. Owner(c) = IF route[c] # NoThread THEN route[c] ELSE IF H = {} THEN NoThread ELSE Min(H)
  BY DEF Owner
<1>5. Len(phys) \in Nat
  BY Sizes DEF IInv
<1> HIDE DEF H
<1>6. CASE route[c] # NoThread
  BY <1>1, <1>4, <1>6
<1>7. CASE route[c] = NoThread /\ H = {}
  BY <1>4, <1>5, <1>7 DEF NoThread
<1>8. CASE route[c] = NoThread /\ H # {}
  <2>1. Owner(c) = Min(H) /\ Min(H) \in 1..Len(phys)
    BY <1>2, <1>3, <1>4, <1>8
  <2> QED
    BY <1>5, <2>1
<1> QED
  BY <1>6, <1>7, <1>8

\* The notification at the head of the inbox.
LEMMA TakeFacts ==
  ASSUME IInv, NEW e, Take(e)
  PROVE  /\ e.turn \in 1..Len(turns) /\ e.level \in Levels
         /\ turns[e.turn].codex \in 1..Len(route)
         /\ Owner(turns[e.turn].codex) \in 0..Len(phys)
         /\ ServerOK(turns, inbox', Len(route))
         /\ lane["handler"].pc = "idle"
<1> DEFINE N == [kind : {"usage", "end"}, turn : 1..Len(turns), level : Levels]
           T == [codex : 1..Len(route), issue : Issues, live : BOOLEAN]
<1>1. inbox \in Seq(N) /\ turns \in Seq(T) /\ inbox # <<>> /\ e = Head(inbox) /\ inbox' = Tail(inbox)
  BY DEF IInv, Typed, ServerOK, Take
<1>2. e \in N /\ inbox' \in Seq(N)
  <2> HIDE DEF N
  <2> QED
    BY <1>1, HeadTailProperties
<1>3. turns[e.turn] \in T
  BY <1>1, <1>2, ElementOfSeq
<1>4. Owner(turns[e.turn].codex) \in 0..Len(phys)
  BY <1>3, OwnerFacts
<1> QED
  BY <1>1, <1>2, <1>3, <1>4 DEF ServerOK, Take

LEMMA IssueOnFacts ==
  ASSUME IInv, NEW p \in 1..Len(phys)
  PROVE  IssueOn(p) \in IssueOrNone
BY DEF IInv, Typed, CardsOK, IssueOn

-----------------------------------------------------------------------------
(***************************************************************************)
(* Rollover                                                                *)
(***************************************************************************)

\* The successor is added; the lane that was idle holds the lock.
LEMMA BeginFacts ==
  ASSUME IInv, NEW l \in Lanes, lane[l].pc = "idle",
         NEW ph, PhysOK(ph, Len(route), Len(turns)), Len(ph) = Len(phys),
         \A p \in 1..Len(ph) : ph[p].deleted = phys[p].deleted,
         NEW i \in IssueOrNone, NEW kind \in {"preflight", "runtime"},
         CanRollOver(i, ph), BeginRollover(l, i, kind, ph), UNCHANGED deleting
  PROVE  /\ ~root.deleted
         /\ Len(phys') = Len(phys) + 1
         /\ PhysOK(phys', Len(route), Len(turns))
         /\ LanesOK(lane', Len(phys'), Len(route), Len(turns))
         /\ activeP' \in [1..Len(phys') -> IssueOrNone]
         /\ lock' = "rollover"
         /\ Holder(lock', deleting', lane')
         /\ deleting.pc = "none"
         /\ \A p \in 1..Len(phys') : ~phys'[p].deleted
         /\ \A m \in Lanes : ~lane'[m].cap.deleted
<1> DEFINE a == ActivePhysical(ph)
           new == Fresh(root.seq + 1)
           w == [Idle EXCEPT !.pc = "create", !.kind = kind, !.issue = i, !.p = Len(ph) + 1,
                             !.src = a, !.cap = new, !.turn = ph[a].turn]
<1>1. ~root.deleted /\ lock = "free" /\ i # NoIssue
  BY DEF CanRollOver, IgnoringLock
<1>2. deleting.pc = "none" /\ \A p \in 1..Len(phys) : ~phys[p].deleted
  <2>1. deleting.pc \in {"none", "stop", "clean", "done"}
    BY DEF IInv, Typed, DeletingOK
  <2>2. deleting.pc = "none"
    BY <1>1, <2>1 DEF IInv, Erasure
  <2> QED
    BY <2>2 DEF IInv, Erasure
<1>3. Len(phys) \in Nat \ {0} /\ Len(route) \in Nat /\ Len(turns) \in Nat /\ DOMAIN ph = 1..Len(phys)
  BY Sizes, LenProperties DEF IInv, PhysOK
<1>4. a \in 1..Len(phys)
  BY <1>2, <1>3, ActiveFacts, Sizes DEF IInv
<1>5. Refers(new, Len(route), Len(turns)) /\ ~new.deleted
  <2>1. root.seq + 1 \in Nat
    BY DEF IInv, Typed, RootOK
  <2> QED
    BY <1>3, <2>1 DEF Refers, PhysicalThreads, Fresh, NoThread, Levels
<1>6. phys' = Append(ph, new)
  BY DEF BeginRollover
<1>7. /\ Len(phys') = Len(phys) + 1
      /\ phys' \in Seq(PhysicalThreads)
      /\ \A p \in 1..Len(phys') : phys'[p] = IF p <= Len(phys) THEN ph[p] ELSE new
  <2>1. new \in PhysicalThreads /\ ph \in Seq(PhysicalThreads)
    BY <1>5 DEF Refers, PhysOK
  <2> HIDE DEF new
  <2>2. /\ Append(ph, new) \in Seq(PhysicalThreads)
        /\ Len(Append(ph, new)) = Len(ph) + 1
        /\ \A p \in 1..Len(ph) : Append(ph, new)[p] = ph[p]
        /\ Append(ph, new)[Len(ph) + 1] = new
    BY <2>1, AppendProperties
  <2> QED
    BY <1>3, <1>6, <2>2
<1>8. PhysOK(phys', Len(route), Len(turns))
  <2>1. \A p \in 1..Len(phys') : Refers(phys'[p], Len(route), Len(turns))
    BY <1>3, <1>5, <1>7 DEF PhysOK
  <2> QED
    BY <1>7, <2>1 DEF PhysOK
<1>9. \A p \in 1..Len(phys') : ~phys'[p].deleted
  BY <1>2, <1>3, <1>5, <1>7
<1>10. WorkOK(w, Len(phys'), Len(route), Len(turns))
  <2>1. ph[a].turn \in 0..Len(turns)
    BY <1>4 DEF PhysOK, Refers
  <2>2. /\ w.pc = "create" /\ w.kind = kind /\ w.issue = i /\ w.p = Len(phys) + 1 /\ w.src = a
        /\ w.cap = new /\ w.turn = ph[a].turn /\ w.was = FALSE
    BY DEF Idle
  <2>3. w \in Works
    <3>1. new \in PhysicalThreads
      BY <1>5 DEF Refers
    <3>2. ph[a].turn \in Nat /\ Len(ph) + 1 \in Nat /\ a \in Nat
      BY <1>3, <1>4, <2>1
    <3> HIDE DEF new, a
    <3> QED
      BY <3>1, <3>2 DEF Works, Idle, Pcs
  <2> HIDE DEF w, new, a
  <2> QED
    BY <1>1, <1>3, <1>4, <1>5, <1>7, <2>1, <2>2, <2>3 DEF WorkOK, Requested, NoThread, IssueOrNone
<1>11. LanesOK(lane, Len(phys'), Len(route), Len(turns))
  BY <1>3, <1>7, LanesGrow DEF IInv, Typed
<1>12. lane' = [lane EXCEPT ![l] = w]
  BY DEF BeginRollover
<1>13. w.cap = new /\ w.kind = kind
  BY DEF Idle
<1>14. /\ LanesOK(lane', Len(phys'), Len(route), Len(turns))
       /\ \A m \in Lanes : lane'[m] = IF m = l THEN w ELSE lane[m]
  <2> HIDE DEF w
  <2>1. /\ LanesOK([lane EXCEPT ![l] = w], Len(phys'), Len(route), Len(turns))
        /\ \A m \in Lanes : [lane EXCEPT ![l] = w][m] = IF m = l THEN w ELSE lane[m]
    BY <1>10, <1>11, LaneSet
  <2> QED
    BY <1>12, <2>1
<1> HIDE DEF w, new, a
<1>15. \A m \in Lanes : ~lane'[m].cap.deleted
  BY <1>2, <1>5, <1>13, <1>14, LaneFacts
<1>16. lock' = "rollover"
  BY DEF BeginRollover
<1>17. Holder(lock', deleting', lane')
  <2>1. \A m \in Lanes : lane[m].kind = "plain"
    BY <1>1, LaneFacts
  <2> QED
    BY <1>2, <1>13, <1>14, <1>16, <2>1 DEF Holder
<1>18. activeP' \in [1..Len(phys') -> IssueOrNone]
  <2>1. activeP \in [1..Len(phys) -> IssueOrNone] /\ NoIssue \in IssueOrNone
    BY DEF IInv, Typed, CardsOK, IssueOrNone
  <2>2. activeP \in Seq(IssueOrNone) /\ Len(activeP) = Len(phys)
    BY <1>3, <2>1, MapFacts
  <2>3. activeP' = Append(activeP, NoIssue)
    BY DEF BeginRollover
  <2>4. activeP' \in Seq(IssueOrNone) /\ Len(activeP') = Len(phys) + 1
    BY <2>1, <2>2, <2>3, AppendProperties
  <2> QED
    BY <1>7, <2>4, LenProperties
<1> QED
  BY <1>1, <1>2, <1>7, <1>8, <1>9, <1>14, <1>15, <1>16, <1>17, <1>18

\* The switch from the source to the successor.
LEMMA SwitchFacts ==
  ASSUME IInv, NEW l \in Lanes, lane[l].pc \in {"create", "interrupt"},
         NEW ph, NEW nr \in Nat, PhysOK(ph, nr, Len(turns)), Len(ph) = Len(phys), Len(route) <= nr,
         SwitchTo(l, ph)
  PROVE  /\ PhysOK(phys', nr, Len(turns)) /\ Len(phys') = Len(phys)
         /\ \A p \in 1..Len(phys) : phys'[p].deleted = ph[p].deleted
         /\ RootOK(root', Len(phys)) /\ root'.deleted = root.deleted
         /\ status' \in [Issues -> Statuses]
         /\ activeP' \in [1..Len(phys) -> IssueOrNone]
         /\ tomb' \subseteq 1..Len(phys)
         /\ LanesOK(lane', Len(phys), nr, Len(turns))
         /\ \A m \in Lanes : lane'[m].kind = lane[m].kind /\ lane'[m].cap = lane[m].cap
<1> DEFINE w == lane[l]
           v == [w EXCEPT !.pc = "stage"]
<1>1. /\ w.p \in 1..Len(phys) /\ w.src \in 1..Len(phys) /\ w.issue \in Issues
      /\ WorkOK(w, Len(phys), Len(route), Len(turns)) /\ w \in Works
  BY LaneFacts, Sizes DEF WorkOK, Requested, NoThread, IInv
<1>2. Len(phys) \in Nat /\ Len(route) \in Nat /\ Len(turns) \in Nat
  BY Sizes DEF IInv
<1>3. /\ phys' = Closed(ph, w.src) /\ tomb' = tomb \cup {w.src}
      /\ activeP' = [activeP EXCEPT ![w.src] = NoIssue]
      /\ root' = [root EXCEPT !.active = w.p, !.seq = ph[w.p].seq, !.degraded = FALSE]
      /\ status' = [status EXCEPT ![w.issue] = "running"]
      /\ lane' = [lane EXCEPT ![l].pc = "stage"]
  BY DEF SwitchTo
<1>4. /\ PhysOK(phys', nr, Len(turns)) /\ Len(phys') = Len(phys)
      /\ \A p \in 1..Len(phys) : phys'[p].deleted = ph[p].deleted
  BY <1>1, <1>2, <1>3, ClosedFacts
<1>5. ph[w.p].seq \in Nat
  BY <1>1 DEF PhysOK, Refers, PhysicalThreads
<1>6. RootOK(root', Len(phys)) /\ root'.deleted = root.deleted
  <2> HIDE DEF w
  <2> QED
    BY <1>1, <1>3, <1>5 DEF IInv, Typed, RootOK
<1>7. /\ status' \in [Issues -> Statuses] /\ activeP' \in [1..Len(phys) -> IssueOrNone]
      /\ tomb' \subseteq 1..Len(phys)
  <2> HIDE DEF w
  <2> QED
    BY <1>1, <1>3 DEF IInv, Typed, CardsOK, FlagsOK, Statuses, IssueOrNone
<1>8. lane' = [lane EXCEPT ![l] = v]
  BY <1>3
<1>9. WorkOK(w, Len(phys), nr, Len(turns))
  BY <1>1, <1>2, WorkGrows
<1>10. WorkOK(v, Len(phys), nr, Len(turns)) /\ v.kind = w.kind /\ v.cap = w.cap
  <2> HIDE DEF w
  <2>1. /\ v.pc = "stage" /\ v.kind = w.kind /\ v.cap = w.cap /\ v.issue = w.issue
        /\ v.p = w.p /\ v.src = w.src /\ v.turn = w.turn /\ v \in Works
    BY <1>1 DEF Works, Pcs
  <2> HIDE DEF v
  <2> QED
    BY <1>1, <1>9, <2>1 DEF WorkOK, NoThread
<1>11. LanesOK(lane, Len(phys), nr, Len(turns))
  BY <1>2, LanesGrow DEF IInv, Typed
<1>12. /\ LanesOK(lane', Len(phys), nr, Len(turns))
       /\ \A m \in Lanes : lane'[m] = IF m = l THEN v ELSE lane[m]
  <2> HIDE DEF v
  <2>1. WorkOK(v, Len(phys), nr, Len(turns))
    BY <1>10
  <2>2. /\ LanesOK([lane EXCEPT ![l] = v], Len(phys), nr, Len(turns))
        /\ \A m \in Lanes : [lane EXCEPT ![l] = v][m] = IF m = l THEN v ELSE lane[m]
    BY <1>11, <2>1, LaneSet
  <2> QED
    BY <1>8, <2>2
<1> HIDE DEF v
<1> QED
  BY <1>4, <1>6, <1>7, <1>10, <1>12

LEMMA TargetCreatedStep ==
  ASSUME IInv, NEW l \in Lanes, TargetCreated(l)
  PROVE  IInv'
<1> DEFINE w == lane[l]
           c == Len(route) + 1
           r == [w.cap EXCEPT !.codex = c]
           bound == [phys EXCEPT ![w.p] = r]
           v == [w EXCEPT !.pc = "interrupt"]
<1>1. /\ w.pc = "create" /\ w.p \in 1..Len(phys) /\ w.p # NoThread
      /\ WorkOK(w, Len(phys), Len(route), Len(turns)) /\ w \in Works
      /\ deleting.pc # "done" => ~w.cap.deleted
  BY LaneFacts, Sizes DEF WorkOK, Requested, NoThread, IInv, TargetCreated
<1>2. Len(phys) \in Nat /\ Len(route) \in Nat /\ Len(turns) \in Nat /\ c \in Nat /\ Len(route) <= c
  BY Sizes DEF IInv
<1>3. Refers(r, c, Len(turns)) /\ r.deleted = w.cap.deleted
  <2>1. w.cap \in PhysicalThreads /\ w.cap.turn \in 0..Len(turns)
    BY <1>1 DEF WorkOK, Refers
  <2> HIDE DEF w, c
  <2>2. /\ r \in PhysicalThreads /\ r.codex = c /\ r.turn = w.cap.turn
        /\ r.deleted = w.cap.deleted
    BY <1>2, <2>1 DEF PhysicalThreads
  <2>3. c \in 0..c
    BY <1>2
  <2> QED
    BY <2>1, <2>2, <2>3 DEF Refers
<1>4. PhysOK(phys, c, Len(turns))
  BY <1>2, PhysGrows DEF IInv, Typed
<1>5. /\ PhysOK(bound, c, Len(turns)) /\ Len(bound) = Len(phys)
      /\ \A p \in 1..Len(phys) : bound[p] = IF p = w.p THEN r ELSE phys[p]
  <2> HIDE DEF r
  <2> QED
    BY <1>1, <1>3, <1>4, PhysSet
<1>6. route' = Append(route, w.p) /\ RouteOK(route', Len(phys)) /\ Len(route') = c
  <2>1. w.p \in 0..Len(phys) /\ route \in Seq(0..Len(phys))
    BY <1>1, <1>2 DEF IInv, Typed, RouteOK
  <2>2. route' = Append(route, w.p)
    BY DEF TargetCreated
  <2> HIDE DEF w
  <2> QED
    BY <2>1, <2>2, AppendProperties DEF RouteOK
<1>7. deleting.pc # "done" => \A p \in 1..Len(phys) : ~bound[p].deleted
  BY <1>1, <1>3, <1>5 DEF IInv, Erasure
<1>8. UNCHANGED <<queue, active, lock, cooldown, deleting, stopping, turns, inbox>>
  BY DEF TargetCreated
<1>9. /\ PhysOK(phys', c, Len(turns)) /\ Len(phys') = Len(phys)
      /\ \A p \in 1..Len(phys) : phys'[p].deleted = bound[p].deleted
      /\ RootOK(root', Len(phys)) /\ root'.deleted = root.deleted
      /\ status' \in [Issues -> Statuses]
      /\ activeP' \in [1..Len(phys) -> IssueOrNone]
      /\ tomb' \subseteq 1..Len(phys)
      /\ LanesOK(lane', Len(phys), c, Len(turns))
      /\ \A m \in Lanes : lane'[m].kind = lane[m].kind /\ lane'[m].cap = lane[m].cap
  <2>1. CASE w.kind = "preflight"
    <3>1. SwitchTo(l, bound)
      BY <2>1 DEF TargetCreated
    <3> HIDE DEF bound, c
    <3> QED
      BY <1>1, <1>2, <1>5, <3>1, SwitchFacts
  <2>2. CASE w.kind # "preflight"
    <3>1. phys' = bound /\ lane' = [lane EXCEPT ![l] = v] /\ UNCHANGED <<root, tomb, status, activeP>>
      BY <2>2 DEF TargetCreated
    <3>2. WorkOK(w, Len(phys), c, Len(turns)) /\ LanesOK(lane, Len(phys), c, Len(turns))
      <4> HIDE DEF c
      <4> QED
        BY <1>1, <1>2, WorkGrows, LanesGrow DEF IInv, Typed
    <3>3. WorkOK(v, Len(phys), c, Len(turns)) /\ v.kind = w.kind /\ v.cap = w.cap
      <4> HIDE DEF w, c
      <4>1. /\ v.pc = "interrupt" /\ v.kind = w.kind /\ v.cap = w.cap /\ v.issue = w.issue
            /\ v.p = w.p /\ v.src = w.src /\ v.turn = w.turn /\ v \in Works
        BY <1>1 DEF Works, Pcs
      <4> HIDE DEF v
      <4> QED
        BY <1>1, <3>2, <4>1 DEF WorkOK, Requested
    <3>4. /\ LanesOK([lane EXCEPT ![l] = v], Len(phys), c, Len(turns))
          /\ \A m \in Lanes : [lane EXCEPT ![l] = v][m] = IF m = l THEN v ELSE lane[m]
      <4> HIDE DEF v, c
      <4> QED
        BY <3>2, <3>3, LaneSet
    <3> HIDE DEF v, c, bound
    <3> QED
      BY <1>5, <3>1, <3>3, <3>4 DEF IInv, Typed, RootOK, CardsOK, FlagsOK
  <2> QED
    BY <2>1, <2>2
<1> HIDE DEF w, r, bound, v, c
<1>10. Typed'
  <2>1. ServerOK(turns, inbox, c) /\ DeletingOK(deleting, Len(phys), c, Len(turns))
    BY <1>2, ServerGrows, DeletingGrows DEF IInv, Typed
  <2>2. CardsOK(status', queue', active', activeP', Len(phys'))
    BY <1>8, <1>9 DEF IInv, Typed, CardsOK
  <2>3. FlagsOK(lock', cooldown', tomb', stopping', Len(phys'))
    BY <1>8, <1>9 DEF IInv, Typed, FlagsOK
  <2> QED
    BY <1>6, <1>8, <1>9, <2>1, <2>2, <2>3 DEF Typed
<1>11. Erasure(deleting', root', queue', phys', lane')
  BY <1>7, <1>8, <1>9 DEF IInv, Erasure
<1>12. Holder(lock', deleting', lane')
  BY <1>8, <1>9, HolderKept
<1> QED
  BY <1>10, <1>11, <1>12 DEF IInv

\* The rest of a rollover that switches without a new Codex thread.
LEMMA SwitchStep ==
  ASSUME IInv, NEW l \in Lanes, lane[l].pc = "interrupt", SwitchTo(l, phys),
         UNCHANGED <<route, queue, active, lock, cooldown, deleting, stopping>>,
         ServerOK(turns', inbox', Len(route)), Len(turns') = Len(turns)
  PROVE  IInv'
<1>1. /\ PhysOK(phys', Len(route), Len(turns)) /\ Len(phys') = Len(phys)
      /\ \A p \in 1..Len(phys) : phys'[p].deleted = phys[p].deleted
      /\ RootOK(root', Len(phys)) /\ root'.deleted = root.deleted
      /\ status' \in [Issues -> Statuses]
      /\ activeP' \in [1..Len(phys) -> IssueOrNone]
      /\ tomb' \subseteq 1..Len(phys)
      /\ LanesOK(lane', Len(phys), Len(route), Len(turns))
      /\ \A m \in Lanes : lane'[m].kind = lane[m].kind /\ lane'[m].cap = lane[m].cap
  <2>1. PhysOK(phys, Len(route), Len(turns)) /\ Len(route) \in Nat
    BY Sizes DEF IInv, Typed
  <2> QED
    BY <2>1, SwitchFacts
<1>2. Typed'
  BY <1>1 DEF IInv, Typed, CardsOK, FlagsOK
<1>3. Erasure(deleting', root', queue', phys', lane')
  BY <1>1 DEF IInv, Erasure
<1>4. Holder(lock', deleting', lane')
  BY <1>1, HolderKept
<1> QED
  BY <1>2, <1>3, <1>4 DEF IInv

LEMMA SourceInterruptedStep ==
  ASSUME IInv, NEW l \in Lanes, SourceInterrupted(l)
  PROVE  IInv'
<1>1. lane[l].turn \in 0..Len(turns)
  BY LaneFacts DEF WorkOK
<1>2. (lane[l].turn # 0 /\ EndedBy(lane[l].turn)) \/ NothingEnded
  BY DEF SourceInterrupted
<1>3. ServerOK(turns', inbox', Len(route)) /\ Len(turns') = Len(turns)
  BY <1>1, <1>2, MaybeEnded
<1> QED
  BY <1>3, SwitchStep DEF SourceInterrupted

LEMMA SourceInterruptFailsStep ==
  ASSUME IInv, NEW l \in Lanes, SourceInterruptFails(l)
  PROVE  IInv'
<1>1. ServerOK(turns', inbox', Len(route)) /\ Len(turns') = Len(turns)
  BY DEF IInv, Typed, SourceInterruptFails
<1> QED
  BY <1>1, SwitchStep DEF SourceInterruptFails

\* A start or a rollover is given up.
LEMMA GivenUp ==
  ASSUME IInv, NEW l \in Lanes, lane[l].pc \in Requested,
         UNCHANGED status, Restore(l), Unlock(l), Degrade(l),
         lane' = [lane EXCEPT ![l] = Idle],
         UNCHANGED <<phys, route, tomb, active, activeP, cooldown, deleting, stopping, turns, inbox>>
  PROVE  IInv'
<1>1. lane[l].issue \in Issues
  BY LaneFacts DEF WorkOK
<1>2. queue' \in Seq(Issues) /\ (deleting.pc = "done" => queue' = queue)
  <2>1. <<lane[l].issue>> \in Seq(Issues)
    BY <1>1
  <2>2. <<lane[l].issue>> \o queue \in Seq(Issues)
    BY <2>1, ConcatProperties DEF IInv, Typed, CardsOK
  <2> QED
    BY <2>2 DEF Restore, Erased, IInv, Typed, CardsOK
<1>3. RootOK(root', Len(phys)) /\ root'.deleted = root.deleted
  <2>1. (root.degraded \/ lane[l].kind # "plain") \in BOOLEAN
    OBVIOUS
  <2> QED
    BY <2>1 DEF IInv, Typed, RootOK, Degrade
<1>4. /\ Holder(lock', deleting', lane')
      /\ lock' \in {"free", "rollover", "delete"}
      /\ LanesOK(lane', Len(phys), Len(route), Len(turns))
      /\ \A m \in Lanes : lane'[m] = IF m = l THEN Idle ELSE lane[m]
      /\ ~Idle.cap.deleted
  BY HolderDone
<1>5. Typed'
  BY <1>2, <1>3, <1>4 DEF IInv, Typed, CardsOK, FlagsOK
<1>6. Erasure(deleting', root', queue', phys', lane')
  BY <1>2, <1>3, <1>4 DEF IInv, Erasure
<1> QED
  BY <1>4, <1>5, <1>6 DEF IInv

LEMMA TargetFailsStep ==
  ASSUME IInv, NEW l \in Lanes, TargetFails(l) \/ StartThrows(l)
  PROVE  IInv'
<1>1. lane[l].pc \in Requested
  BY DEF TargetFails, StartThrows, Requested
<1> QED
  BY <1>1, GivenUp DEF TargetFails, StartThrows

-----------------------------------------------------------------------------
(***************************************************************************)
(* Starting an issue                                                       *)
(***************************************************************************)

\* Overwriting the work of one lane.
LEMMA LaneWritten ==
  ASSUME IInv, NEW l \in Lanes, NEW v, NEW nr, NEW nt, nr \in Nat, nt \in Nat,
         Len(route) <= nr, Len(turns) <= nt,
         WorkOK(v, Len(phys), nr, nt), lane' = [lane EXCEPT ![l] = v]
  PROVE  /\ LanesOK(lane', Len(phys), nr, nt)
         /\ \A m \in Lanes : lane'[m] = IF m = l THEN v ELSE lane[m]
<1>1. LanesOK(lane, Len(phys), nr, nt)
  BY Sizes, LanesGrow DEF IInv, Typed
<1>2. v \in Works /\ lane \in [Lanes -> Works]
  BY <1>1 DEF WorkOK, LanesOK
<1>3. lane' \in [Lanes -> Works] /\ \A m \in Lanes : lane'[m] = IF m = l THEN v ELSE lane[m]
  BY <1>2
<1>4. \A m \in Lanes : WorkOK(lane'[m], Len(phys), nr, nt)
  BY <1>1, <1>3 DEF LanesOK
<1> QED
  BY <1>3, <1>4 DEF LanesOK

\* The execution is projected onto the physical thread of the lane, which is bound.
LEMMA BeginTurnFacts ==
  ASSUME IInv, NEW l \in Lanes, lane[l].pc \in {"stage", "ensure"},
         NEW ph, NEW nr \in Nat, Len(route) <= nr,
         PhysOK(ph, nr, Len(turns)), Len(ph) = Len(phys),
         ph[lane[l].p].codex # NoThread, NEW act,
         BeginTurn(l, ph, act)
  PROVE  /\ PhysOK(phys', nr, Len(turns)) /\ Len(phys') = Len(phys)
         /\ \A p \in 1..Len(phys) : phys'[p].deleted = ph[p].deleted
         /\ RootOK(root', Len(phys)) /\ root'.deleted = root.deleted
         /\ status' \in [Issues -> Statuses] /\ active' \in IssueOrNone
         /\ activeP' \in [1..Len(phys) -> IssueOrNone]
         /\ LanesOK(lane', Len(phys), nr, Len(turns))
         /\ \A m \in Lanes : lane'[m].kind = lane[m].kind
         /\ \A m \in Lanes : lane'[m].cap = lane[m].cap \/ lane'[m].cap = ph[lane[l].p]
         /\ lane[l].p \in 1..Len(phys)
<1> DEFINE w == lane[l]
           r == [ph[w.p] EXCEPT !.turn = 0]
           v == [w EXCEPT !.pc = "turn", !.turn = 0, !.cap = ph[w.p]]
<1>1. /\ w.p \in 1..Len(phys) /\ w.issue \in Issues /\ w \in Works
      /\ WorkOK(w, Len(phys), Len(route), Len(turns))
  BY LaneFacts, Sizes DEF WorkOK, Requested, NoThread, IInv
<1>2. Len(phys) \in Nat /\ Len(route) \in Nat /\ Len(turns) \in Nat
  BY Sizes DEF IInv
<1>3. Refers(ph[w.p], nr, Len(turns))
  BY <1>1 DEF PhysOK
<1>4. Refers(r, nr, Len(turns)) /\ r.deleted = ph[w.p].deleted
  BY <1>2, <1>3 DEF Refers, PhysicalThreads
<1>5. /\ PhysOK(phys', nr, Len(turns)) /\ Len(phys') = Len(phys)
      /\ \A p \in 1..Len(phys) : phys'[p].deleted = ph[p].deleted
  <2>1. phys' = [ph EXCEPT ![w.p] = r] \/ phys' = ph
    BY DEF BeginTurn
  <2> HIDE DEF r, w
  <2>2. /\ PhysOK([ph EXCEPT ![w.p] = r], nr, Len(turns))
        /\ Len([ph EXCEPT ![w.p] = r]) = Len(ph)
        /\ \A q \in 1..Len(ph) : [ph EXCEPT ![w.p] = r][q] = IF q = w.p THEN r ELSE ph[q]
    <3> DEFINE k == w.p
    <3>1. Refers(r, nr, Len(turns)) /\ PhysOK(ph, nr, Len(turns)) /\ k \in 1..Len(ph)
      BY <1>1, <1>4
    <3> HIDE DEF k
    <3>2. /\ PhysOK([ph EXCEPT ![k] = r], nr, Len(turns))
          /\ Len([ph EXCEPT ![k] = r]) = Len(ph)
          /\ \A q \in 1..Len(ph) : [ph EXCEPT ![k] = r][q] = IF q = k THEN r ELSE ph[q]
      BY <3>1, PhysSet
    <3> QED
      BY <3>2 DEF k
  <2> QED
    BY <1>4, <2>1, <2>2
<1>6. RootOK(root', Len(phys)) /\ root'.deleted = root.deleted
  <2>1. ph[w.p].seq \in Nat
    BY <1>3 DEF Refers, PhysicalThreads
  <2>2. \/ root' = [[root EXCEPT !.active = w.p, !.seq = ph[w.p].seq] EXCEPT !.degraded = FALSE]
        \/ root' = [root EXCEPT !.active = w.p, !.seq = ph[w.p].seq]
        \/ root' = root
    BY DEF BeginTurn, Activated
  <2> HIDE DEF w
  <2> QED
    BY <1>1, <2>1, <2>2 DEF IInv, Typed, RootOK
<1>7. /\ status' \in [Issues -> Statuses] /\ active' \in IssueOrNone
      /\ activeP' \in [1..Len(phys) -> IssueOrNone]
  <2>1. /\ active' = w.issue /\ activeP' = [activeP EXCEPT ![w.p] = w.issue]
        /\ status' = [status EXCEPT ![w.issue] = "running"]
    BY DEF BeginTurn
  <2> HIDE DEF w
  <2> QED
    BY <1>1, <2>1 DEF IInv, Typed, CardsOK, IssueOrNone, Statuses
<1>8. lane' = [lane EXCEPT ![l] = v]
  BY DEF BeginTurn
<1>9. WorkOK(w, Len(phys), nr, Len(turns))
  BY <1>1, <1>2, WorkGrows
<1>10. WorkOK(v, Len(phys), nr, Len(turns)) /\ v.kind = w.kind /\ v.cap = ph[w.p]
  <2>1. ph[w.p] \in PhysicalThreads /\ ph[w.p].codex # NoThread
    BY <1>3 DEF Refers
  <2> HIDE DEF w
  <2>2. /\ v.pc = "turn" /\ v.kind = w.kind /\ v.cap = ph[w.p] /\ v.issue = w.issue
        /\ v.p = w.p /\ v.src = w.src /\ v.turn = 0 /\ v \in Works
    BY <1>1, <2>1 DEF Works, Pcs
  <2> HIDE DEF v
  <2> QED
    BY <1>1, <1>2, <1>3, <1>9, <2>1, <2>2 DEF WorkOK, NoThread
<1>11. /\ LanesOK(lane', Len(phys), nr, Len(turns))
       /\ \A m \in Lanes : lane'[m] = IF m = l THEN v ELSE lane[m]
  <2> HIDE DEF v
  <2>1. WorkOK(v, Len(phys), nr, Len(turns))
    BY <1>10
  <2>2. nr \in Nat /\ Len(turns) \in Nat /\ Len(route) <= nr /\ Len(turns) <= Len(turns)
    BY <1>2
  <2> QED
    BY <1>8, <2>1, <2>2, LaneWritten, Zenon
<1> HIDE DEF v
<1> QED
  BY <1>1, <1>5, <1>6, <1>7, <1>10, <1>11

LEMMA StageDoneStep ==
  ASSUME IInv, NEW l \in Lanes, StageDone(l)
  PROVE  IInv'
<1> DEFINE w == lane[l]
           v == [w EXCEPT !.pc = "ensure", !.cap = phys[w.p], !.was = (root.active = w.p)]
<1>1. /\ w.pc = "stage" /\ w.p \in 1..Len(phys) /\ w \in Works
      /\ WorkOK(w, Len(phys), Len(route), Len(turns))
  BY LaneFacts, Sizes DEF WorkOK, Requested, NoThread, IInv, StageDone
<1>2. UNCHANGED <<route, tomb, queue, lock, cooldown, deleting, stopping, turns, inbox>>
  BY DEF StageDone
<1>3. PhysOK(phys, Len(route), Len(turns)) /\ Len(route) \in Nat /\ Len(turns) \in Nat
  BY Sizes DEF IInv, Typed
<1>4. /\ PhysOK(phys', Len(route), Len(turns)) /\ Len(phys') = Len(phys)
      /\ \A p \in 1..Len(phys) : phys'[p].deleted = phys[p].deleted
      /\ RootOK(root', Len(phys)) /\ root'.deleted = root.deleted
      /\ status' \in [Issues -> Statuses] /\ active' \in IssueOrNone
      /\ activeP' \in [1..Len(phys) -> IssueOrNone]
      /\ LanesOK(lane', Len(phys), Len(route), Len(turns))
      /\ \A m \in Lanes : lane'[m].kind = lane[m].kind
      /\ \A m \in Lanes : lane'[m].cap = lane[m].cap \/ lane'[m].cap = phys[w.p]
  <2>1. CASE phys[w.p].codex # NoThread
    <3>1. BeginTurn(l, phys, FALSE)
      BY <2>1 DEF StageDone
    <3>2. Len(route) <= Len(route)
      BY <1>3
    <3> QED
      BY <1>1, <1>3, <2>1, <3>1, <3>2, BeginTurnFacts, Zenon
  <2>2. CASE phys[w.p].codex = NoThread
    <3>1. lane' = [lane EXCEPT ![l] = v] /\ UNCHANGED <<root, phys, active, activeP, status>>
      BY <2>2 DEF StageDone
    <3>2. Refers(phys[w.p], Len(route), Len(turns))
      BY <1>1, <1>3 DEF PhysOK
    <3>3. WorkOK(v, Len(phys), Len(route), Len(turns)) /\ v.kind = w.kind /\ v.cap = phys[w.p]
      <4>1. phys[w.p] \in PhysicalThreads /\ (root.active = w.p) \in BOOLEAN
        BY <3>2 DEF Refers
      <4> HIDE DEF w
      <4>2. /\ v.pc = "ensure" /\ v.kind = w.kind /\ v.cap = phys[w.p] /\ v.issue = w.issue
            /\ v.p = w.p /\ v.src = w.src /\ v.turn = w.turn /\ v \in Works
        BY <1>1, <4>1 DEF Works, Pcs
      <4> HIDE DEF v
      <4> QED
        BY <1>1, <3>2, <4>2 DEF WorkOK, Requested
    <3> HIDE DEF v
    <3>4. /\ LanesOK(lane', Len(phys), Len(route), Len(turns))
          /\ \A m \in Lanes : lane'[m] = IF m = l THEN v ELSE lane[m]
      <4>1. Len(route) <= Len(route) /\ Len(turns) <= Len(turns)
        BY <1>3
      <4> QED
        BY <1>3, <3>1, <3>3, <4>1, LaneWritten, Zenon
    <3> QED
      BY <3>1, <3>3, <3>4 DEF IInv, Typed, CardsOK
  <2> QED
    BY <2>1, <2>2
<1>5. Typed'
  BY <1>2, <1>4 DEF IInv, Typed, CardsOK
<1>6. Erasure(deleting', root', queue', phys', lane')
  <2> HIDE DEF w
  <2> QED
    BY <1>1, <1>2, <1>4 DEF IInv, Erasure
<1>7. Holder(lock', deleting', lane')
  BY <1>2, <1>4, HolderKept
<1> QED
  BY <1>5, <1>6, <1>7 DEF IInv

LEMMA EnsureDoneStep ==
  ASSUME IInv, NEW l \in Lanes, EnsureDone(l)
  PROVE  IInv'
<1> DEFINE w == lane[l]
           c == Len(route) + 1
           r == [w.cap EXCEPT !.codex = c]
           bound == [phys EXCEPT ![w.p] = r]
<1>1. /\ w.pc = "ensure" /\ w.p \in 1..Len(phys) /\ w \in Works
      /\ WorkOK(w, Len(phys), Len(route), Len(turns))
      /\ deleting.pc # "done" => ~w.cap.deleted
  BY LaneFacts, Sizes DEF WorkOK, Requested, NoThread, IInv, EnsureDone
<1>2. Len(phys) \in Nat /\ Len(route) \in Nat /\ Len(turns) \in Nat /\ c \in Nat \ {0} /\ Len(route) <= c
  BY Sizes DEF IInv
<1>3. Refers(r, c, Len(turns)) /\ r.deleted = w.cap.deleted /\ r.codex = c
  <2>1. w.cap \in PhysicalThreads /\ w.cap.turn \in 0..Len(turns)
    BY <1>1 DEF WorkOK, Refers
  <2> HIDE DEF w, c
  <2>2. /\ r \in PhysicalThreads /\ r.codex = c /\ r.turn = w.cap.turn
        /\ r.deleted = w.cap.deleted
    BY <1>2, <2>1 DEF PhysicalThreads
  <2>3. c \in 0..c
    BY <1>2
  <2> QED
    BY <2>1, <2>2, <2>3 DEF Refers
<1>4. PhysOK(phys, c, Len(turns))
  BY <1>2, PhysGrows DEF IInv, Typed
<1>5. /\ PhysOK(bound, c, Len(turns)) /\ Len(bound) = Len(phys)
      /\ \A p \in 1..Len(phys) : bound[p] = IF p = w.p THEN r ELSE phys[p]
  <2> HIDE DEF r
  <2> QED
    BY <1>1, <1>3, <1>4, PhysSet
<1>6. route' = Append(route, w.p) /\ RouteOK(route', Len(phys)) /\ Len(route') = c
  <2>1. w.p \in 0..Len(phys) /\ route \in Seq(0..Len(phys))
    BY <1>1, <1>2 DEF IInv, Typed, RouteOK
  <2>2. route' = Append(route, w.p)
    BY DEF EnsureDone
  <2> HIDE DEF w
  <2> QED
    BY <2>1, <2>2, AppendProperties DEF RouteOK
<1>7. deleting.pc # "done" => \A p \in 1..Len(phys) : ~bound[p].deleted
  BY <1>1, <1>3, <1>5 DEF IInv, Erasure
<1>8. UNCHANGED <<tomb, queue, lock, cooldown, deleting, stopping, turns, inbox>>
  BY DEF EnsureDone
<1>9. BeginTurn(l, bound, w.was) /\ w.was \in BOOLEAN /\ bound[w.p].codex # NoThread
  BY <1>1, <1>2, <1>3, <1>5 DEF EnsureDone, Works, NoThread
<1> HIDE DEF bound, c, r
<1>10. /\ PhysOK(phys', c, Len(turns)) /\ Len(phys') = Len(phys)
       /\ \A p \in 1..Len(phys) : phys'[p].deleted = bound[p].deleted
       /\ RootOK(root', Len(phys)) /\ root'.deleted = root.deleted
       /\ status' \in [Issues -> Statuses] /\ active' \in IssueOrNone
       /\ activeP' \in [1..Len(phys) -> IssueOrNone]
       /\ LanesOK(lane', Len(phys), c, Len(turns))
       /\ \A m \in Lanes : lane'[m].kind = lane[m].kind
       /\ \A m \in Lanes : lane'[m].cap = lane[m].cap \/ lane'[m].cap = bound[w.p]
  BY <1>1, <1>2, <1>5, <1>9, BeginTurnFacts
<1> HIDE DEF w
<1>11. Typed'
  <2>1. ServerOK(turns, inbox, c) /\ DeletingOK(deleting, Len(phys), c, Len(turns))
    BY <1>2, ServerGrows, DeletingGrows DEF IInv, Typed
  <2> QED
    BY <1>6, <1>8, <1>10, <2>1 DEF IInv, Typed, CardsOK
<1>12. Erasure(deleting', root', queue', phys', lane')
  BY <1>1, <1>7, <1>8, <1>10 DEF IInv, Erasure
<1>13. Holder(lock', deleting', lane')
  BY <1>8, <1>10, HolderKept
<1> QED
  BY <1>11, <1>12, <1>13 DEF IInv

LEMMA AcceptStep ==
  ASSUME IInv, NEW l \in Lanes, Accept(l)
  PROVE  IInv'
<1> DEFINE w == lane[l]
           n == Len(turns) + 1
           t == [codex |-> w.cap.codex, issue |-> w.issue, live |-> TRUE]
           v == [w EXCEPT !.turn = n]
           T == [codex : 1..Len(route), issue : Issues, live : BOOLEAN]
<1>1. /\ w.pc = "turn" /\ w.issue \in Issues /\ w \in Works /\ w.cap.codex \in 1..Len(route)
      /\ WorkOK(w, Len(phys), Len(route), Len(turns))
  BY LaneFacts, Sizes DEF WorkOK, Requested, NoThread, IInv, Accept, Refers
<1>2. Len(phys) \in Nat /\ Len(route) \in Nat /\ Len(turns) \in Nat /\ n \in Nat
      /\ Len(turns) <= n /\ Len(route) <= Len(route) /\ Len(phys) <= Len(phys)
  BY Sizes DEF IInv
<1>3. turns' = Append(turns, t) /\ lane' = [lane EXCEPT ![l] = v]
  BY DEF Accept
<1>4. UNCHANGED <<threads, cards, lock, cooldown, deleting, stopping, inbox>>
  BY DEF Accept
<1>5. t \in T /\ turns \in Seq(T)
  <2> HIDE DEF w
  <2> QED
    BY <1>1 DEF IInv, Typed, ServerOK
<1>6. turns' \in Seq(T) /\ Len(turns') = n
  <2> HIDE DEF t, T
  <2> QED
    BY <1>3, <1>5, AppendProperties
<1>7. ServerOK(turns', inbox', Len(route))
  <2>1. inbox \in Seq([kind : {"usage", "end"}, turn : 1..Len(turns), level : Levels])
    BY DEF IInv, Typed, ServerOK
  <2> DEFINE N == [kind : {"usage", "end"}, turn : 1..Len(turns), level : Levels]
             M == [kind : {"usage", "end"}, turn : 1..n, level : Levels]
  <2>2. N \subseteq M
    BY <1>2
  <2>3. inbox \in Seq(M)
    <3>1. inbox \in Seq(N)
      BY <2>1
    <3> HIDE DEF N, M
    <3> QED
      BY <2>2, <3>1, SeqMonotonic
  <2> QED
    BY <1>4, <1>6, <2>3 DEF ServerOK
<1> HIDE DEF t, T
<1>8. WorkOK(v, Len(phys), Len(route), n) /\ v.kind = w.kind /\ v.cap = w.cap
  <2>1. WorkOK(w, Len(phys), Len(route), n)
    <3> HIDE DEF w, n
    <3> QED
      BY <1>1, <1>2, WorkGrows, Zenon
  <2> HIDE DEF w
  <2>2. /\ v.pc = w.pc /\ v.kind = w.kind /\ v.cap = w.cap /\ v.issue = w.issue
        /\ v.p = w.p /\ v.src = w.src /\ v.turn = n /\ v \in Works
    BY <1>1, <1>2 DEF Works
  <2>3. n \in 0..n
    BY <1>2
  <2> HIDE DEF v, n
  <2> QED
    BY <1>1, <2>1, <2>2, <2>3 DEF WorkOK
<1> HIDE DEF v, n
<1>9. /\ LanesOK(lane', Len(phys), Len(route), n)
      /\ \A m \in Lanes : lane'[m] = IF m = l THEN v ELSE lane[m]
  BY <1>2, <1>3, <1>8, LaneWritten, Zenon
<1>10. PhysOK(phys, Len(route), n) /\ DeletingOK(deleting, Len(phys), Len(route), n)
  <2>1. PhysOK(phys, Len(route), Len(turns)) /\ DeletingOK(deleting, Len(phys), Len(route), Len(turns))
    BY DEF IInv, Typed
  <2> QED
    BY <1>2, <2>1, PhysGrows, DeletingGrows, Zenon
<1>11. Typed'
  BY <1>4, <1>6, <1>7, <1>9, <1>10 DEF IInv, Typed
<1>12. Erasure(deleting', root', queue', phys', lane')
  <2>1. \A m \in Lanes : lane'[m].cap = lane[m].cap
    BY <1>8, <1>9
  <2> QED
    BY <1>4, <2>1 DEF IInv, Erasure
<1>13. Holder(lock', deleting', lane')
  <2>1. \A m \in Lanes : lane'[m].kind = lane[m].kind
    BY <1>8, <1>9
  <2> QED
    BY <1>4, <2>1, HolderKept
<1> QED
  BY <1>11, <1>12, <1>13 DEF IInv

LEMMA TurnRespondsStep ==
  ASSUME IInv, NEW l \in Lanes, TurnResponds(l)
  PROVE  IInv'
<1> DEFINE w == lane[l]
           r == [phys[w.p] EXCEPT !.turn = w.turn]
<1>1. /\ w.p \in 1..Len(phys) /\ w.issue \in Issues /\ w.turn \in 0..Len(turns)
      /\ Len(phys) \in Nat /\ Len(turns) \in Nat
  BY LaneFacts, Sizes DEF WorkOK, Requested, NoThread, IInv, TurnResponds
<1>2. UNCHANGED <<root, route, tomb, queue, active, activeP, deleting, stopping, turns, inbox>>
  BY DEF TurnResponds
<1>3. phys' = [phys EXCEPT ![w.p] = r]
  BY DEF TurnResponds
<1>4. PhysOK(phys, Len(route), Len(turns)) /\ Refers(phys[w.p], Len(route), Len(turns))
  BY <1>1 DEF IInv, Typed, PhysOK
<1>5. Refers(r, Len(route), Len(turns)) /\ r.deleted = phys[w.p].deleted
  <2> HIDE DEF w
  <2> QED
    BY <1>1, <1>4 DEF Refers, PhysicalThreads
<1>6. /\ PhysOK(phys', Len(route), Len(turns)) /\ Len(phys') = Len(phys)
      /\ \A p \in 1..Len(phys) : phys'[p].deleted = phys[p].deleted
  <2> HIDE DEF w, r
  <2>1. /\ PhysOK([phys EXCEPT ![w.p] = r], Len(route), Len(turns))
        /\ Len([phys EXCEPT ![w.p] = r]) = Len(phys)
        /\ \A q \in 1..Len(phys) : [phys EXCEPT ![w.p] = r][q] = IF q = w.p THEN r ELSE phys[q]
    BY <1>1, <1>4, <1>5, PhysSet
  <2> QED
    BY <1>3, <1>5, <2>1
<1>7. status' \in [Issues -> Statuses] /\ cooldown' \in BOOLEAN
  <2>1. status' = [status EXCEPT ![w.issue] = "running"] /\ cooldown' = (cooldown \/ w.kind # "plain")
    BY DEF TurnResponds
  <2>2. (cooldown \/ w.kind # "plain") \in BOOLEAN
    OBVIOUS
  <2>3. cooldown' \in BOOLEAN
    BY <2>1, <2>2, Zenon
  <2> HIDE DEF w
  <2> QED
    BY <1>1, <2>1, <2>3 DEF IInv, Typed, CardsOK, Statuses
<1> HIDE DEF w, r
<1>8. /\ Holder(lock', deleting', lane')
      /\ lock' \in {"free", "rollover", "delete"}
      /\ LanesOK(lane', Len(phys), Len(route), Len(turns))
      /\ \A m \in Lanes : lane'[m] = IF m = l THEN Idle ELSE lane[m]
      /\ ~Idle.cap.deleted
  BY <1>2, HolderDone DEF TurnResponds
<1>9. Typed'
  BY <1>2, <1>6, <1>7, <1>8 DEF IInv, Typed, CardsOK, FlagsOK
<1>10. Erasure(deleting', root', queue', phys', lane')
  BY <1>2, <1>6, <1>8 DEF IInv, Erasure
<1> QED
  BY <1>8, <1>9, <1>10 DEF IInv

LEMMA TurnStartFailsStep ==
  ASSUME IInv, NEW l \in Lanes, TurnStartFails(l)
  PROVE  IInv'
<1> DEFINE w == lane[l]
           ph == Unbound(phys)
           r == [ph[w.p] EXCEPT !.turn = 0]
<1>1. w.p \in 1..Len(phys) /\ w.issue \in Issues /\ Len(phys) \in Nat /\ Len(turns) \in Nat
  BY LaneFacts, Sizes DEF WorkOK, Requested, NoThread, IInv, TurnStartFails
<1>2. UNCHANGED <<tomb, queue, cooldown, deleting, stopping, turns, inbox>>
  BY DEF TurnStartFails
<1>3. /\ PhysOK(ph, Len(route), Len(turns)) /\ Len(ph) = Len(phys)
      /\ \A p \in 1..Len(phys) : ph[p].deleted = phys[p].deleted
  BY UnboundFacts
<1>4. phys' = [ph EXCEPT ![w.p] = r] \/ phys' = ph
  BY DEF TurnStartFails
<1> HIDE DEF ph
<1>5. Refers(ph[w.p], Len(route), Len(turns))
  BY <1>1, <1>3 DEF PhysOK
<1>6. Refers(r, Len(route), Len(turns)) /\ r.deleted = ph[w.p].deleted
  <2> HIDE DEF w
  <2> QED
    BY <1>1, <1>5 DEF Refers, PhysicalThreads
<1>7. /\ PhysOK(phys', Len(route), Len(turns)) /\ Len(phys') = Len(phys)
      /\ \A p \in 1..Len(phys) : phys'[p].deleted = phys[p].deleted
  <2> HIDE DEF w, r
  <2>1. /\ PhysOK([ph EXCEPT ![w.p] = r], Len(route), Len(turns))
        /\ Len([ph EXCEPT ![w.p] = r]) = Len(ph)
        /\ \A q \in 1..Len(ph) : [ph EXCEPT ![w.p] = r][q] = IF q = w.p THEN r ELSE ph[q]
    BY <1>1, <1>3, <1>6, PhysSet
  <2> QED
    BY <1>3, <1>4, <1>6, <2>1
<1>8. RouteOK(route', Len(phys)) /\ Len(route') = Len(route)
  BY UnroutedFacts DEF TurnStartFails
<1>9. RootOK(root', Len(phys)) /\ root'.deleted = root.deleted
  <2>1. root' = [root EXCEPT !.degraded = @ \/ w.kind # "plain"]
    BY DEF TurnStartFails, Degrade
  <2>2. (root.degraded \/ w.kind # "plain") \in BOOLEAN
    OBVIOUS
  <2> QED
    BY <2>1, <2>2 DEF IInv, Typed, RootOK
<1>10. /\ active' \in IssueOrNone /\ activeP' \in [1..Len(phys) -> IssueOrNone]
       /\ status' \in [Issues -> Statuses]
  <2>1. /\ active' = NoIssue /\ activeP' = [ClearedP EXCEPT ![w.p] = NoIssue]
        /\ status' = [status EXCEPT ![w.issue] = "ended"]
    BY DEF TurnStartFails
  <2> HIDE DEF w
  <2> QED
    BY <1>1, <2>1, ClearedFacts DEF IInv, Typed, CardsOK, IssueOrNone, Statuses
<1> HIDE DEF w, r
<1>11. /\ Holder(lock', deleting', lane')
       /\ lock' \in {"free", "rollover", "delete"}
       /\ LanesOK(lane', Len(phys), Len(route), Len(turns))
       /\ \A m \in Lanes : lane'[m] = IF m = l THEN Idle ELSE lane[m]
       /\ ~Idle.cap.deleted
  BY <1>2, HolderDone DEF TurnStartFails
<1>12. Typed'
  BY <1>2, <1>7, <1>8, <1>9, <1>10, <1>11 DEF IInv, Typed, CardsOK, FlagsOK
<1>13. Erasure(deleting', root', queue', phys', lane')
  BY <1>2, <1>7, <1>9, <1>11 DEF IInv, Erasure
<1> QED
  BY <1>11, <1>12, <1>13 DEF IInv

LEMMA StartThreadStep ==
  ASSUME IInv, NEW i \in Issues, StartThreadIssues(i)
  PROVE  IInv'
<1>1. status' \in [Issues -> Statuses] /\ queue' \in Seq(Issues)
  BY AppendProperties DEF IInv, Typed, CardsOK, StartThreadIssues, Statuses
<1>2. UNCHANGED <<threads, active, activeP, lock, cooldown, lane, commands, turns, inbox>>
  BY DEF StartThreadIssues
<1>3. deleting.pc # "done"
  BY DEF IInv, Erasure, StartThreadIssues
<1>4. Typed'
  BY <1>1, <1>2 DEF IInv, Typed, CardsOK
<1> QED
  BY <1>2, <1>3, <1>4 DEF IInv, Erasure, Holder

LEMMA ProcessStep ==
  ASSUME IInv, ProcessIssueQueueOnce
  PROVE  IInv'
<1>1. /\ lane["pipeline"].pc = "idle" /\ queue # <<>> /\ queue \in Seq(Issues)
      /\ UNCHANGED <<root, route, tomb, status, cooldown, deleting, stopping, turns, inbox>>
  BY DEF ProcessIssueQueueOnce, IInv, Typed, CardsOK
<1>2. deleting.pc # "done"
  BY <1>1 DEF IInv, Erasure
<1>3. CASE Running # {} /\ ~Erased
  <2>1. active' \in Issues /\ UNCHANGED <<queue, phys, activeP, lock, lane>>
    BY <1>3 DEF ProcessIssueQueueOnce, Running
  <2>2. Typed'
    BY <1>1, <2>1 DEF IInv, Typed, CardsOK, IssueOrNone
  <2> QED
    BY <1>1, <2>1, <2>2 DEF IInv, Erasure, Holder
<1>4. CASE ~(Running # {} /\ ~Erased)
  <2>1. queue' = Tail(queue) /\ UNCHANGED active
    BY <1>4 DEF ProcessIssueQueueOnce
  <2>2. queue' \in Seq(Issues) /\ Head(queue) \in Issues
    BY <1>1, <2>1, HeadTailProperties
  <2>3. CASE CanRollOver(Head(queue), phys)
    <3>1. BeginRollover("pipeline", Head(queue), "preflight", phys)
      BY <1>4, <2>3 DEF ProcessIssueQueueOnce
    <3>2. PhysOK(phys, Len(route), Len(turns)) /\ "pipeline" \in Lanes /\ Head(queue) \in IssueOrNone
      BY <2>2 DEF IInv, Typed, Lanes, IssueOrNone
    <3>3. /\ ~root.deleted
          /\ PhysOK(phys', Len(route), Len(turns))
          /\ LanesOK(lane', Len(phys'), Len(route), Len(turns))
          /\ activeP' \in [1..Len(phys') -> IssueOrNone]
          /\ lock' = "rollover"
          /\ Holder(lock', deleting', lane')
          /\ deleting.pc = "none"
          /\ Len(phys') = Len(phys) + 1
          /\ \A p \in 1..Len(phys') : ~phys'[p].deleted
          /\ \A m \in Lanes : ~lane'[m].cap.deleted
      BY <1>1, <2>3, <3>1, <3>2, BeginFacts
    <3>4. Typed'
      <4>1. /\ Len(phys) \in Nat /\ Len(phys') \in Nat /\ Len(phys) <= Len(phys')
            /\ Len(route) \in Nat /\ Len(turns) \in Nat /\ Len(route) <= Len(route) /\ Len(turns) <= Len(turns)
        BY <3>3, Sizes DEF IInv
      <4>2. RouteOK(route, Len(phys')) /\ DeletingOK(deleting, Len(phys'), Len(route), Len(turns))
        <5>1. RouteOK(route, Len(phys)) /\ DeletingOK(deleting, Len(phys), Len(route), Len(turns))
          BY DEF IInv, Typed
        <5> QED
          BY <4>1, <5>1, RouteGrows, DeletingGrows, Zenon
      <4>3. RootOK(root, Len(phys')) /\ tomb \subseteq 1..Len(phys')
        BY <4>1 DEF IInv, Typed, RootOK, FlagsOK
      <4>4. CardsOK(status', queue', active', activeP', Len(phys'))
        BY <1>1, <2>1, <2>2, <3>3 DEF IInv, Typed, CardsOK
      <4>5. FlagsOK(lock', cooldown', tomb', stopping', Len(phys'))
        BY <1>1, <3>3, <4>3 DEF IInv, Typed, FlagsOK
      <4> QED
        BY <1>1, <3>3, <4>2, <4>3, <4>4, <4>5 DEF IInv, Typed
    <3>5. Erasure(deleting', root', queue', phys', lane')
      BY <1>1, <3>3 DEF Erasure, IInv, Typed, DeletingOK
    <3> QED
      BY <3>3, <3>4, <3>5 DEF IInv
  <2>4. CASE ~CanRollOver(Head(queue), phys)
    <3> DEFINE a == ActivePhysical(phys)
               v == [Idle EXCEPT !.pc = "stage", !.issue = Head(queue), !.p = a]
    <3>1. StartPlain(Head(queue), a)
      BY <1>4, <2>4 DEF ProcessIssueQueueOnce
    <3>2. lane' = [lane EXCEPT !["pipeline"] = v] /\ UNCHANGED <<phys, activeP, lock>>
      BY <3>1 DEF StartPlain
    <3>3. a \in 1..Len(phys)
      <4>1. \A p \in DOMAIN phys : ~phys[p].deleted
        BY <1>2, Sizes DEF IInv, Erasure
      <4> QED
        BY <4>1, ActiveFacts
    <3>4. Len(phys) \in Nat /\ Len(route) \in Nat /\ Len(turns) \in Nat
          /\ Len(route) <= Len(route) /\ Len(turns) <= Len(turns)
      BY Sizes DEF IInv
    <3>5. WorkOK(v, Len(phys), Len(route), Len(turns)) /\ v.kind = "plain" /\ ~v.cap.deleted
      <4>1. WorkOK(Idle, Len(phys), Len(route), Len(turns))
        BY <3>4, IdleOK
      <4> HIDE DEF a
      <4>2. /\ v.pc = "stage" /\ v.kind = "plain" /\ v.issue = Head(queue) /\ v.p = a
            /\ v.src = Idle.src /\ v.turn = Idle.turn /\ v.cap = Idle.cap
        BY DEF Idle
      <4>3. v \in Works
        <5>1. Fresh(0) \in PhysicalThreads
          BY DEF Fresh, PhysicalThreads, NoThread, Levels
        <5>2. a \in Nat /\ NoThread \in Nat
          BY <3>3, <3>4 DEF NoThread
        <5> QED
          BY <2>2, <5>1, <5>2 DEF Works, Idle, Pcs, IssueOrNone
      <4>4. ~Idle.cap.deleted
        BY DEF Idle, Fresh
      <4> HIDE DEF v
      <4> QED
        BY <2>2, <3>3, <3>4, <4>1, <4>2, <4>3, <4>4 DEF WorkOK, Requested, NoThread
    <3> HIDE DEF v
    <3>6. "pipeline" \in Lanes
      BY DEF Lanes
    <3>7. /\ LanesOK(lane', Len(phys), Len(route), Len(turns))
          /\ \A m \in Lanes : lane'[m] = IF m = "pipeline" THEN v ELSE lane[m]
      BY <3>2, <3>4, <3>5, <3>6, LaneWritten, Zenon
    <3>8. lane["pipeline"].kind = "plain"
      BY <1>1, <3>6, LaneFacts DEF WorkOK
    <3>9. Typed'
      BY <1>1, <2>1, <2>2, <3>2, <3>7 DEF IInv, Typed, CardsOK
    <3>10. Erasure(deleting', root', queue', phys', lane')
      BY <1>1, <1>2, <3>2, <3>5, <3>7 DEF IInv, Erasure
    <3>11. Holder(lock', deleting', lane')
      <4>1. \A m \in Lanes : lane'[m].kind = lane[m].kind
        BY <3>5, <3>7, <3>8
      <4> QED
        BY <1>1, <3>2, <4>1, HolderKept
    <3> QED
      BY <3>9, <3>10, <3>11 DEF IInv
  <2> QED
    BY <2>3, <2>4
<1> QED
  BY <1>3, <1>4

-----------------------------------------------------------------------------
(***************************************************************************)
(* Notifications, commands and app-server                                  *)
(***************************************************************************)
LEMMA ExpiryStep ==
  ASSUME IInv, CooldownExpires \/ \E p \in tomb : TombstoneExpires(p)
  PROVE  IInv'
<1>1. /\ UNCHANGED <<root, phys, route, cards, lock, lane, deleting, stopping, turns, inbox>>
      /\ cooldown' \in BOOLEAN
      /\ tomb' \subseteq tomb
  BY DEF CooldownExpires, TombstoneExpires, IInv, Typed, FlagsOK
<1>2. Typed'
  BY <1>1 DEF IInv, Typed, FlagsOK
<1> QED
  BY <1>1, <1>2 DEF IInv, Erasure, Holder

LEMMA DropStep ==
  ASSUME IInv, DropEvent
  PROVE  IInv'
<1>1. PICK e \in ToSet(inbox) : Take(e)
  BY DEF DropEvent
<1>2. UNCHANGED <<threads, cards, lock, cooldown, lane, deleting, stopping, turns>>
  BY DEF DropEvent
<1>3. ServerOK(turns, inbox', Len(route))
  BY <1>1, TakeFacts
<1>4. Typed'
  BY <1>2, <1>3 DEF IInv, Typed
<1> QED
  BY <1>2, <1>4 DEF IInv, Erasure, Holder

\* A notification that is not dropped belongs to an open physical thread of a root
\* thread that is not deleted.
LEMMA KeptFacts ==
  ASSUME IInv, NEW e, Take(e), ~Dropped(e)
  PROVE  Owner(turns[e.turn].codex) \in 1..Len(phys) /\ ~root.deleted
<1>1. Owner(turns[e.turn].codex) \in 0..Len(phys) /\ Len(phys) \in Nat
  BY TakeFacts, Sizes DEF IInv
<1>2. Owner(turns[e.turn].codex) # NoThread /\ ~root.deleted
  BY DEF Dropped, DropClosed
<1> QED
  BY <1>1, <1>2 DEF NoThread

LEMMA UsageStep ==
  ASSUME IInv, ApplyUsage
  PROVE  IInv'
<1>1. PICK e \in ToSet(inbox) :
        LET p == Owner(turns[e.turn].codex)
            noted == [phys EXCEPT ![p].usage = e.level]
        IN /\ Take(e)
           /\ e.kind = "usage" /\ ~Dropped(e)
           /\ root' = [root EXCEPT !.degraded = FALSE]
           /\ IF noted[ActivePhysical(noted)].usage = "full" /\ CanRollOver(IssueOn(p), noted)
              THEN BeginRollover("handler", IssueOn(p), "runtime", noted)
              ELSE /\ phys' = noted
                   /\ UNCHANGED <<activeP, lock, lane>>
  BY DEF ApplyUsage
<1> DEFINE p == Owner(turns[e.turn].codex)
           r == [phys[p] EXCEPT !.usage = e.level]
           noted == [phys EXCEPT ![p] = r]
<1>2. UNCHANGED <<route, tomb, status, queue, active, cooldown, deleting, stopping, turns>>
  BY DEF ApplyUsage
<1>3. Take(e) /\ ~Dropped(e)
  BY <1>1
<1>4. p \in 1..Len(phys) /\ ~root.deleted
  BY <1>3, KeptFacts
<1>5. e.level \in Levels /\ ServerOK(turns, inbox', Len(route)) /\ lane["handler"].pc = "idle"
  BY <1>3, TakeFacts
<1>6. IssueOn(p) \in IssueOrNone
  BY <1>4, IssueOnFacts
<1>7. /\ root' = [root EXCEPT !.degraded = FALSE]
      /\ \/ CanRollOver(IssueOn(p), noted) /\ BeginRollover("handler", IssueOn(p), "runtime", noted)
         \/ phys' = noted /\ UNCHANGED <<activeP, lock, lane>>
  BY <1>1
<1> HIDE DEF p
<1>8. PhysOK(phys, Len(route), Len(turns)) /\ Refers(phys[p], Len(route), Len(turns))
  BY <1>4 DEF IInv, Typed, PhysOK
<1>9. Refers(r, Len(route), Len(turns)) /\ r.deleted = phys[p].deleted
  BY <1>5, <1>8 DEF Refers, PhysicalThreads
<1> HIDE DEF r
<1>10. /\ PhysOK(noted, Len(route), Len(turns)) /\ Len(noted) = Len(phys)
       /\ \A q \in 1..Len(phys) : noted[q].deleted = phys[q].deleted
  <2>1. /\ PhysOK(noted, Len(route), Len(turns)) /\ Len(noted) = Len(phys)
        /\ \A q \in 1..Len(phys) : noted[q] = IF q = p THEN r ELSE phys[q]
    BY <1>4, <1>8, <1>9, PhysSet
  <2> QED
    BY <1>9, <2>1
<1> HIDE DEF noted
<1>11. RootOK(root', Len(phys)) /\ root'.deleted = root.deleted /\ root'.active = root.active
  BY <1>7 DEF IInv, Typed, RootOK
<1>12. CASE CanRollOver(IssueOn(p), noted) /\ BeginRollover("handler", IssueOn(p), "runtime", noted)
  <2>1. /\ PhysOK(phys', Len(route), Len(turns))
        /\ LanesOK(lane', Len(phys'), Len(route), Len(turns))
        /\ activeP' \in [1..Len(phys') -> IssueOrNone]
        /\ lock' = "rollover"
        /\ Holder(lock', deleting', lane')
        /\ deleting.pc = "none"
        /\ Len(phys') = Len(phys) + 1
        /\ \A q \in 1..Len(phys') : ~phys'[q].deleted
        /\ \A m \in Lanes : ~lane'[m].cap.deleted
    <3>1. "handler" \in Lanes /\ UNCHANGED deleting
      BY <1>2 DEF Lanes
    <3> QED
      BY <1>5, <1>6, <1>10, <1>12, <3>1, BeginFacts
  <2>2. /\ Len(phys) \in Nat /\ Len(phys') \in Nat /\ Len(phys) <= Len(phys')
        /\ Len(route) \in Nat /\ Len(turns) \in Nat /\ Len(route) <= Len(route) /\ Len(turns) <= Len(turns)
    BY <2>1, Sizes DEF IInv
  <2>3. RouteOK(route, Len(phys')) /\ DeletingOK(deleting, Len(phys'), Len(route), Len(turns))
    <3>1. RouteOK(route, Len(phys)) /\ DeletingOK(deleting, Len(phys), Len(route), Len(turns))
      BY DEF IInv, Typed
    <3> QED
      BY <2>2, <3>1, RouteGrows, DeletingGrows, Zenon
  <2>4. RootOK(root', Len(phys')) /\ tomb \subseteq 1..Len(phys')
    BY <1>11, <2>2 DEF IInv, Typed, RootOK, FlagsOK
  <2>5. CardsOK(status', queue', active', activeP', Len(phys'))
    BY <1>2, <2>1 DEF IInv, Typed, CardsOK
  <2>6. FlagsOK(lock', cooldown', tomb', stopping', Len(phys'))
    BY <1>2, <2>1, <2>4 DEF IInv, Typed, FlagsOK
  <2>7. Typed'
    BY <1>2, <1>5, <2>1, <2>3, <2>4, <2>5, <2>6 DEF Typed
  <2>8. Erasure(deleting', root', queue', phys', lane')
    BY <1>2, <2>1 DEF Erasure, IInv, Typed, DeletingOK
  <2> QED
    BY <2>1, <2>7, <2>8 DEF IInv
<1>13. CASE phys' = noted /\ UNCHANGED <<activeP, lock, lane>>
  <2>1. Typed'
    BY <1>2, <1>5, <1>10, <1>11, <1>13 DEF IInv, Typed
  <2>2. Erasure(deleting', root', queue', phys', lane')
    BY <1>2, <1>10, <1>11, <1>13 DEF IInv, Erasure
  <2> QED
    BY <1>2, <1>13, <2>1, <2>2 DEF IInv, Holder
<1> QED
  BY <1>7, <1>12, <1>13

LEMMA TerminalStep ==
  ASSUME IInv, ApplyTerminal
  PROVE  IInv'
<1>1. PICK e \in ToSet(inbox) :
        LET p == Owner(turns[e.turn].codex)
            i == IssueOn(p)
        IN /\ Take(e)
           /\ e.kind = "end" /\ ~Dropped(e)
           /\ root' = [root EXCEPT !.degraded = FALSE]
           /\ status' = IF i = NoIssue THEN status ELSE [status EXCEPT ![i] = "ended"]
           /\ lane' = [lane EXCEPT !["handler"] = [Idle EXCEPT !.pc = "sync", !.p = p]]
  BY DEF ApplyTerminal
<1> DEFINE p == Owner(turns[e.turn].codex)
           v == [Idle EXCEPT !.pc = "sync", !.p = p]
<1>2. UNCHANGED <<phys, route, tomb, queue, active, activeP, lock, cooldown, deleting, stopping, turns>>
  BY DEF ApplyTerminal
<1>3. Take(e) /\ ~Dropped(e)
  BY <1>1
<1>4. p \in 1..Len(phys) /\ ServerOK(turns, inbox', Len(route)) /\ lane["handler"].pc = "idle"
  BY <1>3, KeptFacts, TakeFacts
<1>5. RootOK(root', Len(phys)) /\ root'.deleted = root.deleted
  BY <1>1 DEF IInv, Typed, RootOK
<1>6. status' \in [Issues -> Statuses]
  BY <1>1 DEF IInv, Typed, CardsOK, Statuses
<1>7. lane' = [lane EXCEPT !["handler"] = v]
  BY <1>1
<1> HIDE DEF p
<1>8. Len(phys) \in Nat /\ Len(route) \in Nat /\ Len(turns) \in Nat
      /\ Len(route) <= Len(route) /\ Len(turns) <= Len(turns) /\ "handler" \in Lanes
  BY Sizes DEF IInv, Lanes
<1>9. WorkOK(v, Len(phys), Len(route), Len(turns)) /\ v.kind = "plain" /\ ~v.cap.deleted
  <2>1. WorkOK(Idle, Len(phys), Len(route), Len(turns))
    BY <1>8, IdleOK
  <2>2. /\ v.pc = "sync" /\ v.kind = "plain" /\ v.issue = Idle.issue /\ v.p = p
        /\ v.src = Idle.src /\ v.turn = Idle.turn /\ v.cap = Idle.cap
    BY DEF Idle
  <2>3. v \in Works
    <3>1. Fresh(0) \in PhysicalThreads
      BY DEF Fresh, PhysicalThreads, NoThread, Levels
    <3>2. p \in Nat /\ NoThread \in Nat
      BY <1>4, <1>8 DEF NoThread
    <3> QED
      BY <3>1, <3>2 DEF Works, Idle, Pcs, IssueOrNone
  <2>4. ~Idle.cap.deleted
    BY DEF Idle, Fresh
  <2> HIDE DEF v
  <2> QED
    BY <1>4, <1>8, <2>1, <2>2, <2>3, <2>4 DEF WorkOK, Requested, NoThread
<1> HIDE DEF v
<1>10. /\ LanesOK(lane', Len(phys), Len(route), Len(turns))
       /\ \A m \in Lanes : lane'[m] = IF m = "handler" THEN v ELSE lane[m]
  BY <1>7, <1>8, <1>9, LaneWritten, Zenon
<1>11. lane["handler"].kind = "plain"
  BY <1>4, <1>8, LaneFacts DEF WorkOK
<1>12. Typed'
  BY <1>2, <1>4, <1>5, <1>6, <1>10 DEF IInv, Typed, CardsOK
<1>13. Erasure(deleting', root', queue', phys', lane')
  BY <1>2, <1>5, <1>9, <1>10 DEF IInv, Erasure
<1>14. Holder(lock', deleting', lane')
  <2>1. \A m \in Lanes : lane'[m].kind = lane[m].kind
    BY <1>9, <1>10, <1>11
  <2> QED
    BY <1>2, <2>1, HolderKept
<1> QED
  BY <1>12, <1>13, <1>14 DEF IInv

LEMMA SettleStep ==
  ASSUME IInv, SettleTerminal
  PROVE  IInv'
<1> DEFINE w == lane["handler"]
<1>1. w.pc = "sync" /\ lane' = [lane EXCEPT !["handler"] = Idle] /\ "handler" \in Lanes
  BY DEF SettleTerminal, Lanes
<1>2. UNCHANGED <<threads, status, queue, lock, cooldown, deleting, stopping, turns, inbox>>
  BY DEF SettleTerminal
<1>3. active' \in IssueOrNone /\ activeP' \in [1..Len(phys) -> IssueOrNone]
  BY ClearedFacts DEF SettleTerminal, IssueOrNone
<1>4. w.kind = "plain"
  BY <1>1, LaneFacts DEF WorkOK
<1>5. Unlock("handler")
  BY <1>2, <1>4 DEF Unlock
<1>6. /\ Holder(lock', deleting', lane')
      /\ LanesOK(lane', Len(phys), Len(route), Len(turns))
      /\ \A m \in Lanes : lane'[m] = IF m = "handler" THEN Idle ELSE lane[m]
      /\ ~Idle.cap.deleted
  BY <1>1, <1>2, <1>5, HolderDone
<1>7. Typed'
  BY <1>2, <1>3, <1>6 DEF IInv, Typed, CardsOK
<1>8. Erasure(deleting', root', queue', phys', lane')
  BY <1>2, <1>6 DEF IInv, Erasure
<1> QED
  BY <1>6, <1>7, <1>8 DEF IInv

LEMMA DeleteBeginStep ==
  ASSUME IInv, DeleteBegin
  PROVE  IInv'
<1>1. /\ lock = "free" /\ lock' = "delete" /\ ~root.deleted
      /\ root' = [root EXCEPT !.deleted = TRUE]
      /\ deleting' = [pc |-> "stop", cap |-> phys]
      /\ UNCHANGED <<phys, route, tomb, cards, cooldown, lane, stopping, turns, inbox>>
  BY DEF DeleteBegin, MayDelete
<1>2. RootOK(root', Len(phys)) /\ root'.deleted
  BY <1>1 DEF IInv, Typed, RootOK
<1>3. deleting.pc = "none"
  BY <1>1 DEF IInv, Typed, DeletingOK, Erasure
<1>4. DeletingOK(deleting', Len(phys), Len(route), Len(turns))
  <2>1. PhysOK(phys, Len(route), Len(turns)) /\ Len(phys) <= Len(phys)
    BY Sizes DEF IInv, Typed
  <2> QED
    BY <1>1, <2>1 DEF PhysOK, DeletingOK
<1>5. Typed'
  BY <1>1, <1>2, <1>4 DEF IInv, Typed, FlagsOK
<1>6. Erasure(deleting', root', queue', phys', lane')
  BY <1>1, <1>2, <1>3 DEF IInv, Erasure
<1>7. Holder(lock', deleting', lane')
  BY <1>1 DEF IInv, Holder
<1> QED
  BY <1>5, <1>6, <1>7 DEF IInv

LEMMA DeleteStoppedStep ==
  ASSUME IInv, DeleteStopped
  PROVE  IInv'
<1> DEFINE n == phys[root.active].turn
<1>1. n \in 0..Len(turns)
  BY DEF IInv, Typed, RootOK, PhysOK, Refers
<1>2. (n # 0 /\ EndedBy(n)) \/ NothingEnded
  BY DEF DeleteStopped
<1>3. ServerOK(turns', inbox', Len(route)) /\ Len(turns') = Len(turns)
  BY <1>1, <1>2, MaybeEnded
<1>4. /\ deleting.pc = "stop" /\ deleting' = [deleting EXCEPT !.pc = "clean"]
      /\ UNCHANGED <<threads, cards, lock, cooldown, lane, stopping>>
  BY DEF DeleteStopped
<1>5. /\ DeletingOK(deleting', Len(phys), Len(route), Len(turns))
      /\ deleting'.pc = "clean" /\ deleting'.cap = deleting.cap
  BY <1>4 DEF IInv, Typed, DeletingOK
<1>6. Typed'
  BY <1>3, <1>4, <1>5 DEF IInv, Typed
<1>7. Erasure(deleting', root', queue', phys', lane')
  BY <1>4, <1>5 DEF IInv, Erasure
<1>8. Holder(lock', deleting', lane')
  BY <1>4, <1>5 DEF IInv, Holder
<1> QED
  BY <1>6, <1>7, <1>8 DEF IInv

LEMMA DeleteEndStep ==
  ASSUME IInv, DeleteEnd
  PROVE  IInv' /\ Len(phys') = Len(phys)
<1> DEFINE cap == deleting.cap
           f == [p \in DOMAIN phys |-> IF p \in DOMAIN cap
                                       THEN [cap[p] EXCEPT !.deleted = TRUE, !.closed = TRUE]
                                       ELSE phys[p]]
<1>1. /\ deleting.pc = "clean" /\ queue' = <<>> /\ active' = NoIssue /\ lock' = "free"
      /\ deleting' = [pc |-> "done", cap |-> <<>>]
      /\ phys' = f
      /\ tomb' = tomb \cup DOMAIN cap
      /\ UNCHANGED <<root, status, cooldown, lane, stopping, turns, inbox>>
  BY DEF DeleteEnd
<1>2. /\ Len(phys) \in Nat /\ Len(route) \in Nat /\ Len(turns) \in Nat
      /\ DOMAIN phys = 1..Len(phys) /\ DOMAIN route = 1..Len(route)
  BY Sizes DEF IInv
<1>3. /\ cap \in Seq(PhysicalThreads) /\ DOMAIN cap = 1..Len(cap) /\ Len(cap) \in Nat /\ Len(cap) <= Len(phys)
      /\ \A p \in 1..Len(cap) : Refers(cap[p], Len(route), Len(turns))
  BY LenProperties DEF IInv, Typed, DeletingOK
<1>4. \A p \in 1..Len(phys) : Refers(f[p], Len(route), Len(turns))
  <2>1. ASSUME NEW p \in 1..Len(phys), p \in DOMAIN cap PROVE Refers(f[p], Len(route), Len(turns))
    <3>1. Refers(cap[p], Len(route), Len(turns))
      BY <1>3, <2>1
    <3>2. f[p] = [cap[p] EXCEPT !.deleted = TRUE, !.closed = TRUE]
      BY <1>2, <2>1
    <3> HIDE DEF f, cap
    <3> QED
      BY <3>1, <3>2 DEF Refers, PhysicalThreads
  <2>2. ASSUME NEW p \in 1..Len(phys), p \notin DOMAIN cap PROVE Refers(f[p], Len(route), Len(turns))
    BY <1>2, <2>2 DEF IInv, Typed, PhysOK
  <2> QED
    BY <2>1, <2>2
<1>5. PhysOK(phys', Len(route), Len(turns)) /\ Len(phys') = Len(phys)
  <2>1. f \in [1..Len(phys) -> PhysicalThreads]
    <3>1. DOMAIN f = 1..Len(phys) /\ f = [p \in 1..Len(phys) |-> f[p]]
      BY <1>2
    <3>2. \A p \in 1..Len(phys) : f[p] \in PhysicalThreads
      BY <1>4 DEF Refers
    <3> HIDE DEF f
    <3> QED
      BY <3>1, <3>2
  <2> HIDE DEF f
  <2>2. f \in Seq(PhysicalThreads) /\ Len(f) = Len(phys)
    BY <1>2, <2>1, MapFacts
  <2> QED
    BY <1>1, <1>4, <2>2 DEF PhysOK
<1> HIDE DEF f
<1>6. RouteOK(route', Len(phys)) /\ Len(route') = Len(route)
  <2>1. \A c \in 1..Len(route) : route[c] \in 0..Len(phys)
    BY ElementOfSeq DEF IInv, Typed, RouteOK
  <2> DEFINE H(c) == \E p \in DOMAIN cap : cap[p].codex = c
             g == [c \in 1..Len(route) |-> IF H(c) THEN NoThread ELSE route[c]]
  <2>2. route' = g
    BY <1>2 DEF DeleteEnd
  <2>3. g \in [1..Len(route) -> 0..Len(phys)]
    <3> HIDE DEF H
    <3> QED
      BY <1>2, <2>1 DEF NoThread
  <2> HIDE DEF g
  <2> QED
    BY <1>2, <2>2, <2>3, MapFacts DEF RouteOK
<1>7. activeP' \in [1..Len(phys) -> IssueOrNone]
  BY <1>2, ClearedFacts DEF DeleteEnd, IssueOrNone
<1>8. DeletingOK(deleting', Len(phys), Len(route), Len(turns)) /\ deleting'.pc = "done"
  BY <1>1, <1>2 DEF DeletingOK
<1>9. tomb' \subseteq 1..Len(phys)
  <2>1. tomb \subseteq 1..Len(phys)
    BY DEF IInv, Typed, FlagsOK
  <2>2. \A p \in DOMAIN cap : p \in 1..Len(phys)
    <3>1. ASSUME NEW p \in DOMAIN cap PROVE p \in 1..Len(phys)
      <4>1. p \in 1..Len(cap)
        BY <1>3, <3>1
      <4> HIDE DEF cap
      <4> QED
        BY <1>2, <1>3, <4>1
    <3> QED
      BY <3>1
  <2> HIDE DEF cap
  <2> QED
    BY <1>1, <2>1, <2>2
<1> HIDE DEF cap
<1>10. Typed'
  BY <1>1, <1>5, <1>6, <1>7, <1>8, <1>9 DEF IInv, Typed, CardsOK, FlagsOK, IssueOrNone
<1>11. Erasure(deleting', root', queue', phys', lane')
  BY <1>1, <1>8 DEF IInv, Erasure
<1>12. Holder(lock', deleting', lane')
  BY <1>1, <1>8 DEF IInv, Holder
<1> QED
  BY <1>5, <1>10, <1>11, <1>12 DEF IInv

LEMMA InterruptBeginStep ==
  ASSUME IInv, NEW i \in Issues, InterruptBegin(i)
  PROVE  IInv'
<1>1. stopping' = i /\ UNCHANGED <<threads, cards, lock, cooldown, lane, deleting, turns, inbox>>
  BY DEF InterruptBegin
<1>2. Typed'
  BY <1>1 DEF IInv, Typed, FlagsOK, IssueOrNone
<1> QED
  BY <1>1, <1>2 DEF IInv, Erasure, Holder

LEMMA InterruptEndStep ==
  ASSUME IInv, InterruptEnd
  PROVE  IInv' /\ Len(phys') = Len(phys)
<1> DEFINE p == root.active
           n == phys[p].turn
           r == [phys[p] EXCEPT !.turn = 0]
<1>1. p \in 1..Len(phys) /\ Refers(phys[p], Len(route), Len(turns)) /\ n \in 0..Len(turns)
  BY DEF IInv, Typed, RootOK, PhysOK, Refers
<1>2. (n # 0 /\ EndedBy(n)) \/ NothingEnded
  BY DEF InterruptEnd
<1>3. ServerOK(turns', inbox', Len(route)) /\ Len(turns') = Len(turns)
  BY <1>1, <1>2, MaybeEnded
<1>4. /\ active' = NoIssue /\ activeP' = ClearedP /\ stopping' = NoIssue
      /\ status' = [status EXCEPT ![stopping] = "interrupted"]
      /\ UNCHANGED <<root, route, tomb, queue, lock, cooldown, lane, deleting>>
      /\ phys' = [phys EXCEPT ![p] = r] \/ phys' = phys
  BY DEF InterruptEnd
<1>5. Refers(r, Len(route), Len(turns)) /\ r.deleted = phys[p].deleted
  <2>1. Len(turns) \in Nat
    BY Sizes DEF IInv
  <2> QED
    BY <1>1, <2>1 DEF Refers, PhysicalThreads
<1> HIDE DEF r, p
<1>6. /\ PhysOK(phys', Len(route), Len(turns)) /\ Len(phys') = Len(phys)
      /\ \A q \in 1..Len(phys) : phys'[q].deleted = phys[q].deleted
  <2>1. PhysOK(phys, Len(route), Len(turns))
    BY DEF IInv, Typed
  <2>2. /\ PhysOK([phys EXCEPT ![p] = r], Len(route), Len(turns))
        /\ Len([phys EXCEPT ![p] = r]) = Len(phys)
        /\ \A q \in 1..Len(phys) : [phys EXCEPT ![p] = r][q] = IF q = p THEN r ELSE phys[q]
    BY <1>1, <1>5, <2>1, PhysSet
  <2> QED
    BY <1>4, <1>5, <2>1, <2>2
<1>7. Typed'
  <2>1. CardsOK(status', queue', active', activeP', Len(phys'))
    BY <1>4, <1>6, ClearedFacts DEF IInv, Typed, CardsOK, IssueOrNone, Statuses
  <2> QED
    BY <1>3, <1>4, <1>6, <2>1 DEF IInv, Typed, FlagsOK, IssueOrNone
<1>8. Erasure(deleting', root', queue', phys', lane')
  BY <1>4, <1>6 DEF IInv, Erasure
<1> QED
  BY <1>4, <1>6, <1>7, <1>8 DEF IInv, Holder

LEMMA ServerStep ==
  ASSUME IInv, NEW n \in DOMAIN turns,
         EndTurn(n) \/ \E level \in Levels \ {"low"} : Report(n, level)
  PROVE  IInv'
<1>1. n \in 1..Len(turns)
  BY Sizes DEF IInv
<1>2. UNCHANGED <<threads, cards, lock, cooldown, lane, deleting, stopping>>
  BY DEF EndTurn, Report
<1>3. ServerOK(turns', inbox', Len(route)) /\ Len(turns') = Len(turns)
  <2>1. CASE EndTurn(n)
    BY <1>1, <2>1, EndedFacts DEF EndTurn
  <2>2. CASE \E level \in Levels \ {"low"} : Report(n, level)
    <3>1. PICK level \in Levels : Report(n, level)
      BY <2>2
    <3> DEFINE N == [kind : {"usage", "end"}, turn : 1..Len(turns), level : Levels]
               e == [kind |-> "usage", turn |-> n, level |-> level]
    <3>2. e \in N /\ inbox \in Seq(N) /\ inbox' = Append(inbox, e) /\ turns' = turns
      BY <1>1, <3>1 DEF Report, IInv, Typed, ServerOK
    <3>3. inbox' \in Seq(N)
      <4> HIDE DEF N, e
      <4> QED
        BY <3>2, AppendProperties
    <3> QED
      BY <3>2, <3>3 DEF IInv, Typed, ServerOK
  <2> QED
    BY <2>1, <2>2
<1>4. Typed'
  BY <1>2, <1>3 DEF IInv, Typed
<1> QED
  BY <1>2, <1>4 DEF IInv, Erasure, Holder

-----------------------------------------------------------------------------
(***************************************************************************)
(* The invariant holds                                                     *)
(***************************************************************************)
LEMMA InitIInv == Init => IInv
<1> SUFFICES ASSUME Init PROVE IInv
  OBVIOUS
<1>1. Fresh(1) \in PhysicalThreads /\ Refers(Fresh(1), 0, 0) /\ ~Fresh(1).deleted
  BY DEF Fresh, PhysicalThreads, NoThread, Levels, Refers
<1>2. Len(phys) = 1 /\ phys[1] = Fresh(1) /\ phys \in Seq(PhysicalThreads)
  <2> DEFINE x == Fresh(1)
  <2>1. phys = <<x>> /\ x \in PhysicalThreads
    BY <1>1 DEF Init
  <2> HIDE DEF x
  <2> QED
    BY <2>1 DEF x
<1>3. Len(route) = 0 /\ Len(turns) = 0 /\ route = <<>> /\ turns = <<>> /\ inbox = <<>>
  BY DEF Init
<1>4. PhysOK(phys, Len(route), Len(turns))
  BY <1>1, <1>2, <1>3 DEF PhysOK
<1>5. /\ LanesOK(lane, Len(phys), Len(route), Len(turns))
      /\ \A l \in Lanes : lane[l].kind = "plain" /\ ~lane[l].cap.deleted
  <2>1. \A l \in Lanes : lane[l] = Idle
    BY DEF Init
  <2>2. /\ WorkOK(Idle, Len(phys), Len(route), Len(turns))
        /\ Idle.kind = "plain" /\ ~Idle.cap.deleted
    BY <1>2, <1>3, IdleOK
  <2>3. lane \in [Lanes -> Works]
    <3>1. Idle \in Works
      BY <2>2 DEF WorkOK
    <3> QED
      BY <3>1 DEF Init
  <2> QED
    BY <2>1, <2>2, <2>3 DEF LanesOK
<1>6. RootOK(root, Len(phys)) /\ RouteOK(route, Len(phys))
  BY <1>2, <1>3 DEF Init, RootOK, RouteOK
<1>7. /\ CardsOK(status, queue, active, activeP, Len(phys))
      /\ FlagsOK(lock, cooldown, tomb, stopping, Len(phys))
  <2>1. activeP \in [1..Len(phys) -> IssueOrNone]
    <3>1. NoIssue \in IssueOrNone
      BY DEF IssueOrNone
    <3> QED
      BY <1>2, <3>1 DEF Init
  <2>2. status \in [Issues -> Statuses] /\ queue \in Seq(Issues) /\ active \in IssueOrNone
    BY DEF Init, Statuses, IssueOrNone
  <2>3. /\ lock \in {"free", "rollover", "delete"} /\ cooldown \in BOOLEAN
        /\ tomb \subseteq 1..Len(phys) /\ stopping \in IssueOrNone
    BY DEF Init, IssueOrNone
  <2> QED
    BY <2>1, <2>2, <2>3 DEF CardsOK, FlagsOK
<1>8. ServerOK(turns, inbox, Len(route))
  BY <1>3 DEF ServerOK
<1>9. DeletingOK(deleting, Len(phys), Len(route), Len(turns))
  <2>1. deleting = [pc |-> "none", cap |-> <<>>] /\ Len(deleting.cap) = 0
    BY DEF Init
  <2> QED
    BY <1>2, <2>1 DEF DeletingOK
<1>10. Typed
  BY <1>4, <1>5, <1>6, <1>7, <1>8, <1>9 DEF Typed
<1>11. Erasure(deleting, root, queue, phys, lane)
  BY <1>1, <1>2, <1>5 DEF Init, Erasure
<1>12. Holder(lock, deleting, lane)
  BY <1>5 DEF Init, Holder
<1> QED
  BY <1>10, <1>11, <1>12 DEF IInv

LEMMA NextIInv ==
  ASSUME IInv, [Next]_vars
  PROVE  IInv'
<1>1. CASE \E i \in Issues : StartThreadIssues(i) \/ InterruptBegin(i)
  BY <1>1, StartThreadStep, InterruptBeginStep
<1>2. CASE ProcessIssueQueueOnce
  BY <1>2, ProcessStep
<1>3. CASE \E l \in Lanes : Rollover(l) \/ Start(l)
  <2>1. PICK l \in Lanes : Rollover(l) \/ Start(l)
    BY <1>3
  <2>2. CASE Rollover(l)
    BY <2>2, TargetCreatedStep, SourceInterruptedStep, SourceInterruptFailsStep,
       TargetFailsStep DEF Rollover
  <2>3. CASE Start(l)
    BY <2>3, StageDoneStep, EnsureDoneStep, TargetFailsStep, AcceptStep,
       TurnRespondsStep, TurnStartFailsStep DEF Start
  <2> QED
    BY <2>1, <2>2, <2>3
<1>4. CASE CooldownExpires \/ \E p \in tomb : TombstoneExpires(p)
  BY <1>4, ExpiryStep
<1>5. CASE Handle
  BY <1>5, DropStep, UsageStep, TerminalStep, SettleStep DEF Handle
<1>6. CASE DeleteBegin \/ Delete
  BY <1>6, DeleteBeginStep, DeleteStoppedStep, DeleteEndStep DEF Delete
<1>7. CASE InterruptEnd
  BY <1>7, InterruptEndStep
<1>8. CASE \E n \in DOMAIN turns : EndTurn(n) \/ \E level \in Levels \ {"low"} : Report(n, level)
  BY <1>8, ServerStep
<1>9. CASE UNCHANGED vars
  BY <1>9 DEF vars, IInv, Typed, Erasure, Holder
<1> QED
  BY <1>1, <1>2, <1>3, <1>4, <1>5, <1>6, <1>7, <1>8, <1>9 DEF Next

\* The invariant is inductive: everything below follows from it.
THEOREM Inductive == Spec => []IInv
<1>1. IInv /\ [Next]_vars => IInv'
  BY NextIInv
<1> QED
  BY <1>1, InitIInv, PTL DEF Spec

-----------------------------------------------------------------------------
(***************************************************************************)
(* Theorems                                                                *)
(***************************************************************************)
LEMMA TypedTypeOK ==
  ASSUME IInv
  PROVE  TypeOK
<1>1. /\ DOMAIN phys = 1..Len(phys) /\ DOMAIN route = 1..Len(route)
      /\ Len(phys) \in Nat /\ Len(turns) \in Nat
  BY Sizes DEF IInv
<1>2. DOMAIN phys \cup {NoThread} = 0..Len(phys)
  BY <1>1 DEF NoThread
<1>3. root \in [active : DOMAIN phys, seq : Nat, deleted : BOOLEAN, degraded : BOOLEAN]
  BY <1>1 DEF IInv, Typed, RootOK
<1>4. phys \in Seq(PhysicalThreads) /\ route \in Seq(DOMAIN phys \cup {NoThread})
  BY <1>2 DEF IInv, Typed, PhysOK, RouteOK
<1>5. /\ status \in [Issues -> Statuses] /\ queue \in Seq(Issues)
      /\ active \in Issues \cup {NoIssue}
      /\ activeP \in [DOMAIN phys -> Issues \cup {NoIssue}]
  BY <1>1 DEF IInv, Typed, CardsOK, IssueOrNone
<1>6. /\ lock \in {"free", "rollover", "delete"} /\ cooldown \in BOOLEAN
      /\ tomb \subseteq DOMAIN phys /\ stopping \in Issues \cup {NoIssue}
  BY <1>1 DEF IInv, Typed, FlagsOK, IssueOrNone
<1> DEFINE W == [pc : Pcs, kind : {"plain", "preflight", "runtime"},
                 issue : Issues \cup {NoIssue}, p : DOMAIN phys \cup {NoThread},
                 src : DOMAIN phys \cup {NoThread}, cap : PhysicalThreads,
                 was : BOOLEAN, turn : Nat]
<1>7. lane \in [Lanes -> W]
  <2>1. ASSUME NEW l \in Lanes PROVE lane[l] \in W
    <3>1. /\ lane[l] \in Works
          /\ lane[l].p \in DOMAIN phys \cup {NoThread}
          /\ lane[l].src \in DOMAIN phys \cup {NoThread}
      BY <1>2, LaneFacts DEF WorkOK
    <3> QED
      BY <3>1 DEF Works, IssueOrNone
  <2>2. lane \in [Lanes -> Works]
    BY DEF IInv, Typed, LanesOK
  <2> HIDE DEF W
  <2> QED
    BY <2>1, <2>2
<1>8. deleting.pc \in {"none", "stop", "clean", "done"}
  BY DEF IInv, Typed, DeletingOK
<1>9. turns \in Seq([codex : DOMAIN route, issue : Issues, live : BOOLEAN])
  BY <1>1 DEF IInv, Typed, ServerOK
<1> QED
  BY <1>3, <1>4, <1>5, <1>6, <1>7, <1>8, <1>9 DEF TypeOK

\* Every variable keeps its type, for any number of issues, rollovers, failures
\* and notifications: an active physical thread always exists, and no route,
\* tombstone or start under way names one that does not.
THEOREM RolloverTypeCorrect == Spec => []TypeOK
<1>1. IInv => TypeOK
  BY TypedTypeOK
<1> QED
  BY <1>1, Inductive, PTL

\* The lock of a root thread never has two holders, and it is free exactly when
\* no rollover and no deletion is under way, so that no failure on the way, of
\* either kind of rollover, leaves the root thread locked.
THEOREM LockKept == Spec => []LockHeld
<1>1. IInv => LockHeld
  <2> SUFFICES ASSUME IInv PROVE LockHeld
    OBVIOUS
  <2>1. Cardinality(RollingOver) <= 1
    <3>1. CASE RollingOver = {}
      BY <3>1, FS_EmptySet
    <3>2. CASE RollingOver # {}
      <4>1. PICK l \in RollingOver : TRUE
        BY <3>2
      <4>2. RollingOver = {l}
        BY <4>1 DEF RollingOver, IInv, Holder
      <4> QED
        BY <4>2, FS_Singleton
    <3> QED
      BY <3>1, <3>2
  <2>2. lock = "rollover" <=> RollingOver # {}
    BY DEF RollingOver, IInv, Holder
  <2>3. lock = "delete" <=> deleting.pc \in {"stop", "clean"}
    BY DEF IInv, Holder
  <2> QED
    BY <2>1, <2>2, <2>3 DEF LockHeld
<1> QED
  BY <1>1, Inductive, PTL

\* Whoever adds a physical thread has read that the root thread is not deleted.
LEMMA AddsNone ==
  ASSUME IInv, root.deleted, [Next]_vars
  PROVE  DOMAIN phys' = DOMAIN phys
<1>1. CASE \E i \in Issues : StartThreadIssues(i) \/ InterruptBegin(i)
  BY <1>1 DEF StartThreadIssues, InterruptBegin
<1>2. CASE ProcessIssueQueueOnce
  BY <1>2 DEF ProcessIssueQueueOnce, CanRollOver, IgnoringLock, StartPlain
<1>3. CASE \E l \in Lanes : Rollover(l)
  <2>1. PICK l \in Lanes : Rollover(l)
    BY <1>3
  <2>2. CASE TargetCreated(l)
    BY <2>2 DEF TargetCreated, SwitchTo, Closed
  <2>3. CASE SourceInterrupted(l) \/ SourceInterruptFails(l)
    BY <2>3 DEF SourceInterrupted, SourceInterruptFails, SwitchTo, Closed
  <2>4. CASE TargetFails(l)
    BY <2>4 DEF TargetFails
  <2> QED
    BY <2>1, <2>2, <2>3, <2>4 DEF Rollover
<1>4. CASE \E l \in Lanes : Start(l)
  <2>1. PICK l \in Lanes : Start(l)
    BY <1>4
  <2>2. CASE StageDone(l)
    BY <2>2 DEF StageDone, BeginTurn
  <2>3. CASE EnsureDone(l)
    BY <2>3 DEF EnsureDone, BeginTurn
  <2>4. CASE StartThrows(l) \/ Accept(l)
    BY <2>4 DEF StartThrows, Accept
  <2>5. CASE TurnResponds(l)
    BY <2>5 DEF TurnResponds
  <2>6. CASE TurnStartFails(l)
    <3>1. DOMAIN Unbound(phys) = DOMAIN phys
      BY DEF Unbound
    <3> QED
      BY <2>6, <3>1 DEF TurnStartFails
  <2> QED
    BY <2>1, <2>2, <2>3, <2>4, <2>5, <2>6 DEF Start
<1>5. CASE CooldownExpires \/ \E p \in tomb : TombstoneExpires(p)
  BY <1>5 DEF CooldownExpires, TombstoneExpires
<1>6. CASE Handle
  <2>1. CASE ApplyUsage
    BY <2>1, KeptFacts DEF ApplyUsage
  <2>2. CASE DropEvent \/ ApplyTerminal \/ SettleTerminal
    BY <2>2 DEF DropEvent, ApplyTerminal, SettleTerminal
  <2> QED
    BY <1>6, <2>1, <2>2 DEF Handle
<1>7. CASE DeleteBegin \/ Delete
  BY <1>7 DEF DeleteBegin, Delete, DeleteStopped, DeleteEnd
<1>8. CASE InterruptEnd
  BY <1>8 DEF InterruptEnd
<1>9. CASE \E n \in DOMAIN turns : EndTurn(n) \/ \E level \in Levels \ {"low"} : Report(n, level)
  BY <1>9 DEF EndTurn, Report
<1>10. CASE UNCHANGED vars
  BY <1>10 DEF vars
<1> QED
  BY <1>1, <1>2, <1>3, <1>4, <1>5, <1>6, <1>7, <1>8, <1>9, <1>10 DEF Next

\* Once the deletion of a root thread has begun no rollover gives it another
\* physical thread: not one started from the queue, nor one a late usage report
\* asks for, whatever the deletion itself is waiting for.
THEOREM NoSuccessor == Spec => NoSuccessorAfterDeletion
<1>1. ASSUME IInv, IInv', [Next]_vars, root.deleted PROVE Len(phys') = Len(phys)
  <2>1. DOMAIN phys' = DOMAIN phys
    BY <1>1, AddsNone
  <2>2. DOMAIN phys = 1..Len(phys) /\ Len(phys) \in Nat
    BY <1>1, LenProperties DEF IInv, Typed, PhysOK
  <2>3. DOMAIN phys' = 1..Len(phys') /\ Len(phys') \in Nat
    BY <1>1, LenProperties DEF IInv, Typed, PhysOK
  <2> QED
    BY <2>1, <2>2, <2>3
<1>2. IInv /\ IInv' /\ [Next]_vars => [root.deleted => Len(phys') = Len(phys)]_vars
  BY <1>1
<1> QED
  BY <1>2, Inductive, PTL DEF Spec, NoSuccessorAfterDeletion

-----------------------------------------------------------------------------
(***************************************************************************)
(* What app-server still says                                              *)
(*                                                                         *)
(* The end of a turn is the last that is said of it, and it is said of     *)
(* every turn that lives no more and is still heard.                       *)
(***************************************************************************)
LastWord ==
  \A k \in DOMAIN inbox :
    LET n == inbox[k].turn
    IN /\ inbox[k].kind = "end" =>
            /\ ~turns[n].live
            /\ \A j \in DOMAIN inbox : j > k => inbox[j].turn # n
       /\ turns[n].live \/ \E j \in DOMAIN inbox : inbox[j].kind = "end" /\ inbox[j].turn = n

Speaks(n) == turns[n].live \/ \E k \in DOMAIN inbox : inbox[k].turn = n

SameTurns == /\ DOMAIN turns' = DOMAIN turns
             /\ \A n \in DOMAIN turns : /\ turns'[n].codex = turns[n].codex
                                        /\ turns'[n].issue = turns[n].issue

LEMMA TurnFacts ==
  ASSUME IInv
  PROVE  /\ DOMAIN inbox = 1..Len(inbox) /\ Len(inbox) \in Nat
         /\ DOMAIN turns = 1..Len(turns) /\ Len(turns) \in Nat
         /\ \A k \in DOMAIN inbox : /\ inbox[k].turn \in DOMAIN turns
                                    /\ inbox[k].kind \in {"usage", "end"}
         /\ \A n \in DOMAIN turns : /\ turns[n].codex \in 1..Len(route)
                                    /\ turns[n].issue \in Issues
                                    /\ turns[n].live \in BOOLEAN
<1> DEFINE N == [kind : {"usage", "end"}, turn : 1..Len(turns), level : Levels]
           T == [codex : 1..Len(route), issue : Issues, live : BOOLEAN]
<1>1. inbox \in Seq(N) /\ turns \in Seq(T)
  BY DEF IInv, Typed, ServerOK
<1>2. /\ DOMAIN inbox = 1..Len(inbox) /\ Len(inbox) \in Nat
      /\ DOMAIN turns = 1..Len(turns) /\ Len(turns) \in Nat
  BY Sizes DEF IInv
<1>3. (\A k \in 1..Len(inbox) : inbox[k] \in N) /\ \A n \in 1..Len(turns) : turns[n] \in T
  <2> HIDE DEF N, T
  <2> QED
    BY <1>1, ElementOfSeq
<1> QED
  BY <1>2, <1>3

\* A notification is appended.
LEMMA Appended ==
  ASSUME IInv, NEW e, inbox' = Append(inbox, e), IInv'
  PROVE  /\ DOMAIN inbox' = 1..(Len(inbox) + 1)
         /\ \A k \in DOMAIN inbox : inbox'[k] = inbox[k]
         /\ inbox'[Len(inbox) + 1] = e
<1> DEFINE N == [kind : {"usage", "end"}, turn : 1..Len(turns), level : Levels]
           N2 == [kind : {"usage", "end"}, turn : 1..Len(turns'), level : Levels]
<1>1. inbox \in Seq(N) /\ inbox' \in Seq(N2)
  BY DEF IInv, Typed, ServerOK
<1>2. /\ DOMAIN inbox = 1..Len(inbox) /\ Len(inbox) \in Nat
      /\ DOMAIN inbox' = 1..Len(inbox')
  BY TurnFacts
<1> HIDE DEF N, N2
<1> QED
  BY <1>1, <1>2

LEMMA EndedTurn ==
  ASSUME IInv, IInv', LastWord, NEW n \in DOMAIN turns, turns[n].live, EndedBy(n)
  PROVE  /\ LastWord' /\ SameTurns
         /\ \A m \in DOMAIN turns : Speaks(m)' <=> Speaks(m)
         /\ \A m \in DOMAIN turns : m # n => turns'[m] = turns[m]
         /\ \A k \in DOMAIN inbox' : inbox'[k].turn = n \/ (k \in DOMAIN inbox /\ inbox'[k] = inbox[k])
<1>1. PICK e : e = [kind |-> "end", turn |-> n, level |-> "low"]
  OBVIOUS
<1>2. e.kind = "end" /\ e.turn = n
  BY <1>1
<1>3. /\ DOMAIN inbox' = 1..(Len(inbox) + 1)
      /\ \A k \in DOMAIN inbox : inbox'[k] = inbox[k]
      /\ inbox'[Len(inbox) + 1] = e
  BY <1>1, Appended DEF EndedBy
<1>4. /\ DOMAIN inbox = 1..Len(inbox) /\ Len(inbox) \in Nat
      /\ \A k \in DOMAIN inbox : inbox[k].turn \in DOMAIN turns
  BY TurnFacts
<1>5. /\ SameTurns
      /\ ~turns'[n].live /\ \A m \in DOMAIN turns : m # n => turns'[m] = turns[m]
  <2>1. turns' = [turns EXCEPT ![n] = [turns[n] EXCEPT !.live = FALSE]]
    BY DEF EndedBy
  <2>2. PICK v : v = [turns[n] EXCEPT !.live = FALSE]
    OBVIOUS
  <2>3. turns[n] \in [codex : 1..Len(route), issue : Issues, live : BOOLEAN]
    <3> DEFINE T == [codex : 1..Len(route), issue : Issues, live : BOOLEAN]
    <3>1. turns \in Seq(T) /\ n \in 1..Len(turns)
      BY TurnFacts DEF IInv, Typed, ServerOK
    <3> HIDE DEF T
    <3>2. turns[n] \in T
      BY <3>1, ElementOfSeq
    <3> QED
      BY <3>2 DEF T
  <2>4. ~v.live /\ v.codex = turns[n].codex /\ v.issue = turns[n].issue
    BY <2>2, <2>3
  <2>5. turns' = [turns EXCEPT ![n] = v]
    BY <2>1, <2>2
  <2> QED
    BY <2>4, <2>5 DEF SameTurns
<1>6. \A k \in DOMAIN inbox' : k \in DOMAIN inbox \/ k = Len(inbox) + 1
  BY <1>3, <1>4
<1>7. LastWord'
  <2> SUFFICES ASSUME NEW k \in DOMAIN inbox'
               PROVE  /\ inbox'[k].kind = "end" =>
                           /\ ~turns'[inbox'[k].turn].live
                           /\ \A j \in DOMAIN inbox' : j > k => inbox'[j].turn # inbox'[k].turn
                      /\ \/ turns'[inbox'[k].turn].live
                         \/ \E j \in DOMAIN inbox' : inbox'[j].kind = "end"
                                                     /\ inbox'[j].turn = inbox'[k].turn
    BY DEF LastWord
  <2>1. CASE k = Len(inbox) + 1
    <3>1. \A j \in DOMAIN inbox' : ~(j > k)
      BY <1>3, <1>4, <2>1
    <3> QED
      BY <1>2, <1>3, <1>5, <2>1, <3>1
  <2>2. CASE k \in DOMAIN inbox
    <3>1. inbox'[k] = inbox[k] /\ inbox[k].turn \in DOMAIN turns
      BY <1>3, <1>4, <2>2
    <3>2. ASSUME inbox[k].kind = "end"
          PROVE  /\ ~turns'[inbox[k].turn].live
                 /\ \A j \in DOMAIN inbox' : j > k => inbox'[j].turn # inbox[k].turn
      <4>1. /\ ~turns[inbox[k].turn].live
            /\ \A j \in DOMAIN inbox : j > k => inbox[j].turn # inbox[k].turn
        BY <2>2, <3>2 DEF LastWord
      <4>2. inbox[k].turn # n
        BY <4>1
      <4> QED
        BY <1>2, <1>3, <1>5, <1>6, <3>1, <4>1, <4>2
    <3>3. \/ turns'[inbox[k].turn].live
          \/ \E j \in DOMAIN inbox' : inbox'[j].kind = "end" /\ inbox'[j].turn = inbox[k].turn
      <4>1. CASE inbox[k].turn = n
        BY <1>2, <1>3, <1>4, <4>1
      <4>2. CASE inbox[k].turn # n /\ ~turns[inbox[k].turn].live
        <5>1. PICK j \in DOMAIN inbox : inbox[j].kind = "end" /\ inbox[j].turn = inbox[k].turn
          BY <2>2, <4>2 DEF LastWord
        <5> QED
          BY <1>3, <1>4, <5>1
      <4>3. CASE inbox[k].turn # n /\ turns[inbox[k].turn].live
        BY <1>5, <3>1, <4>3
      <4> QED
        BY <4>1, <4>2, <4>3
    <3> QED
      BY <3>1, <3>2, <3>3
  <2> QED
    BY <1>6, <2>1, <2>2
<1>8. ASSUME NEW m \in DOMAIN turns PROVE Speaks(m)' <=> Speaks(m)
  <2>1. CASE m = n
    <3>1. Speaks(n)' /\ Speaks(n)
      BY <1>2, <1>3, <1>4 DEF Speaks
    <3> QED
      BY <2>1, <3>1
  <2>2. CASE m # n
    BY <1>2, <1>3, <1>5, <1>6, <2>2 DEF Speaks
  <2> QED
    BY <2>1, <2>2
<1> QED
  BY <1>2, <1>3, <1>5, <1>6, <1>7, <1>8

LEMMA ReportedTurn ==
  ASSUME IInv, IInv', LastWord, NEW n \in DOMAIN turns, NEW level, Report(n, level)
  PROVE  /\ LastWord' /\ SameTurns /\ UNCHANGED turns
         /\ \A m \in DOMAIN turns : Speaks(m)' <=> Speaks(m)
         /\ \A k \in DOMAIN inbox' : inbox'[k].turn = n \/ (k \in DOMAIN inbox /\ inbox'[k] = inbox[k])
<1>1. PICK e : e = [kind |-> "usage", turn |-> n, level |-> level]
  OBVIOUS
<1>2. e.kind # "end" /\ e.turn = n /\ turns[n].live /\ UNCHANGED turns
  BY <1>1 DEF Report
<1>3. /\ DOMAIN inbox' = 1..(Len(inbox) + 1)
      /\ \A k \in DOMAIN inbox : inbox'[k] = inbox[k]
      /\ inbox'[Len(inbox) + 1] = e
  BY <1>1, Appended DEF Report
<1>4. /\ DOMAIN inbox = 1..Len(inbox) /\ Len(inbox) \in Nat
      /\ \A k \in DOMAIN inbox' : k \in DOMAIN inbox \/ k = Len(inbox) + 1
  BY <1>3, TurnFacts
<1>5. LastWord'
  <2> SUFFICES ASSUME NEW k \in DOMAIN inbox'
               PROVE  /\ inbox'[k].kind = "end" =>
                           /\ ~turns'[inbox'[k].turn].live
                           /\ \A j \in DOMAIN inbox' : j > k => inbox'[j].turn # inbox'[k].turn
                      /\ \/ turns'[inbox'[k].turn].live
                         \/ \E j \in DOMAIN inbox' : inbox'[j].kind = "end"
                                                     /\ inbox'[j].turn = inbox'[k].turn
    BY DEF LastWord
  <2>1. CASE k = Len(inbox) + 1
    BY <1>2, <1>3, <2>1
  <2>2. CASE k \in DOMAIN inbox
    <3>1. /\ inbox'[k] = inbox[k]
          /\ inbox[k].kind = "end" =>
               /\ ~turns[inbox[k].turn].live
               /\ \A j \in DOMAIN inbox : j > k => inbox[j].turn # inbox[k].turn
          /\ \/ turns[inbox[k].turn].live
             \/ \E j \in DOMAIN inbox : inbox[j].kind = "end" /\ inbox[j].turn = inbox[k].turn
      BY <1>3, <2>2 DEF LastWord
    <3>2. \A j \in DOMAIN inbox : j \in DOMAIN inbox' /\ inbox'[j] = inbox[j]
      BY <1>3, <1>4
    <3>3. inbox[k].kind = "end" => inbox[k].turn # n
      BY <1>2, <3>1
    <3>4. ASSUME inbox[k].kind = "end", NEW j \in DOMAIN inbox', j > k
          PROVE  inbox'[j].turn # inbox[k].turn
      BY <1>2, <1>3, <1>4, <3>1, <3>2, <3>3, <3>4
    <3> QED
      BY <1>2, <3>1, <3>2, <3>4
  <2> QED
    BY <1>4, <2>1, <2>2
<1>6. ASSUME NEW m \in DOMAIN turns PROVE Speaks(m)' <=> Speaks(m)
  BY <1>2, <1>3, <1>4 DEF Speaks
<1> QED
  BY <1>2, <1>3, <1>4, <1>5, <1>6 DEF SameTurns

\* The first notification is taken.
LEMMA TakenTurn ==
  ASSUME IInv, IInv', LastWord, NEW e, Take(e), UNCHANGED turns
  PROVE  /\ LastWord'
         /\ e.turn \in DOMAIN turns /\ Speaks(e.turn)
         /\ \E k \in DOMAIN inbox : inbox[k].turn = e.turn
         /\ \A m \in DOMAIN turns : m # e.turn => (Speaks(m)' <=> Speaks(m))
         /\ e.kind = "end" => ~Speaks(e.turn)'
         /\ e.kind # "end" => Speaks(e.turn)'
         /\ \A k \in DOMAIN inbox' : \E j \in DOMAIN inbox : inbox'[k] = inbox[j]
<1>1. inbox # <<>> /\ e = Head(inbox) /\ inbox' = Tail(inbox)
  BY DEF Take
<1>2. /\ DOMAIN inbox = 1..Len(inbox) /\ Len(inbox) \in Nat \ {0}
      /\ e = inbox[1]
      /\ DOMAIN inbox' = 1..(Len(inbox) - 1)
      /\ \A k \in 1..(Len(inbox) - 1) : inbox'[k] = inbox[k + 1]
  <2> DEFINE N == [kind : {"usage", "end"}, turn : 1..Len(turns), level : Levels]
  <2>1. inbox \in Seq(N)
    BY DEF IInv, Typed, ServerOK
  <2>2. DOMAIN inbox = 1..Len(inbox) /\ DOMAIN inbox' = 1..Len(inbox')
    BY TurnFacts
  <2> HIDE DEF N
  <2> QED
    BY <1>1, <2>1, <2>2, HeadTailProperties, EmptySeq
<1>3. \A k \in DOMAIN inbox : inbox[k].turn \in DOMAIN turns
  BY TurnFacts
<1>4. 1 \in DOMAIN inbox /\ e.turn \in DOMAIN turns
  BY <1>2, <1>3
<1>5. \A k \in DOMAIN inbox' : k + 1 \in DOMAIN inbox /\ inbox'[k] = inbox[k + 1] /\ k + 1 > 1
  BY <1>2
<1>6. \A j \in DOMAIN inbox : j = 1 \/ (j - 1 \in DOMAIN inbox' /\ inbox'[j - 1] = inbox[j])
  <2> SUFFICES ASSUME NEW j \in DOMAIN inbox, j # 1
               PROVE  j - 1 \in DOMAIN inbox' /\ inbox'[j - 1] = inbox[j]
    OBVIOUS
  <2>1. j - 1 \in 1..(Len(inbox) - 1) /\ (j - 1) + 1 = j
    BY <1>2
  <2> QED
    BY <1>2, <2>1
<1>7. LastWord'
  <2> SUFFICES ASSUME NEW k \in DOMAIN inbox'
               PROVE  /\ inbox'[k].kind = "end" =>
                           /\ ~turns'[inbox'[k].turn].live
                           /\ \A j \in DOMAIN inbox' : j > k => inbox'[j].turn # inbox'[k].turn
                      /\ \/ turns'[inbox'[k].turn].live
                         \/ \E j \in DOMAIN inbox' : inbox'[j].kind = "end"
                                                     /\ inbox'[j].turn = inbox'[k].turn
    BY DEF LastWord
  <2>1. k + 1 \in DOMAIN inbox /\ inbox'[k] = inbox[k + 1]
    BY <1>5
  <2> DEFINE n == inbox[k + 1].turn
  <2>2. /\ inbox[k + 1].kind = "end" =>
             ~turns[n].live /\ \A j \in DOMAIN inbox : j > k + 1 => inbox[j].turn # n
        /\ turns[n].live \/ \E j \in DOMAIN inbox : inbox[j].kind = "end" /\ inbox[j].turn = n
    BY <2>1 DEF LastWord
  <2>3. \A j \in DOMAIN inbox' : j > k => j + 1 > k + 1
    BY <1>2
  <2>4. \A j \in DOMAIN inbox' : j > k /\ inbox[k + 1].kind = "end" => inbox'[j].turn # n
    BY <1>5, <2>2, <2>3
  <2>5. ASSUME ~turns[n].live
        PROVE  \E j \in DOMAIN inbox' : inbox'[j].kind = "end" /\ inbox'[j].turn = n
    <3>1. PICK j \in DOMAIN inbox : inbox[j].kind = "end" /\ inbox[j].turn = n
      BY <2>2, <2>5
    <3>2. j # 1
      <4>1. j = 1 => k + 1 > j
        BY <1>2
      <4> QED
        BY <2>1, <3>1, <4>1 DEF LastWord
    <3> QED
      BY <1>6, <3>1, <3>2
  <2> QED
    BY <2>1, <2>2, <2>4, <2>5
<1>8. ASSUME NEW m \in DOMAIN turns, m # e.turn PROVE Speaks(m)' <=> Speaks(m)
  BY <1>2, <1>5, <1>6, <1>8 DEF Speaks
<1>9. e.kind = "end" => ~Speaks(e.turn)'
  <2> SUFFICES ASSUME e.kind = "end", Speaks(e.turn)'
               PROVE  FALSE
    OBVIOUS
  <2>1. /\ ~turns[e.turn].live
        /\ \A j \in DOMAIN inbox : j > 1 => inbox[j].turn # e.turn
    BY <1>2, <1>4 DEF LastWord
  <2> QED
    BY <1>5, <2>1 DEF Speaks
<1>10. e.kind # "end" => Speaks(e.turn)'
  <2> SUFFICES ASSUME e.kind # "end", ~turns[e.turn].live
               PROVE  Speaks(e.turn)'
    BY DEF Speaks
  <2>1. PICK j \in DOMAIN inbox : inbox[j].kind = "end" /\ inbox[j].turn = e.turn
    BY <1>2, <1>4 DEF LastWord
  <2> QED
    BY <1>2, <1>6, <2>1 DEF Speaks
<1> QED
  BY <1>2, <1>4, <1>5, <1>7, <1>8, <1>9, <1>10 DEF Speaks

\* A turn is accepted.
LEMMA AcceptedTurn ==
  ASSUME IInv, IInv', LastWord, NEW t, turns' = Append(turns, t), t.live, UNCHANGED inbox
  PROVE  /\ LastWord'
         /\ DOMAIN turns' = 1..(Len(turns) + 1) /\ Len(turns') = Len(turns) + 1
         /\ turns'[Len(turns) + 1] = t
         /\ Len(turns) + 1 \notin DOMAIN turns
         /\ \A m \in DOMAIN turns : turns'[m] = turns[m] /\ (Speaks(m)' <=> Speaks(m))
         /\ \A k \in DOMAIN inbox : inbox[k].turn # Len(turns) + 1
<1> DEFINE T == [codex : 1..Len(route), issue : Issues, live : BOOLEAN]
           T2 == [codex : 1..Len(route'), issue : Issues, live : BOOLEAN]
<1>1. turns \in Seq(T) /\ turns' \in Seq(T2)
  BY DEF IInv, Typed, ServerOK
<1>2. /\ DOMAIN turns = 1..Len(turns) /\ Len(turns) \in Nat
      /\ DOMAIN turns' = 1..Len(turns')
      /\ \A k \in DOMAIN inbox : inbox[k].turn \in DOMAIN turns
  BY TurnFacts
<1> HIDE DEF T, T2
<1>3. /\ Len(turns') = Len(turns) + 1
      /\ turns'[Len(turns) + 1] = t
      /\ \A m \in DOMAIN turns : turns'[m] = turns[m]
  BY <1>1, <1>2
<1>4. LastWord'
  BY <1>2, <1>3 DEF LastWord
<1> QED
  BY <1>2, <1>3, <1>4 DEF Speaks

LEMMA LastStep ==
  ASSUME IInv, IInv', LastWord, [Next]_vars
  PROVE  LastWord'
<1>1. CASE UNCHANGED <<turns, inbox>>
  BY <1>1 DEF LastWord
<1>2. CASE \E n \in DOMAIN turns : turns[n].live /\ EndedBy(n)
  BY <1>2, EndedTurn
<1>3. CASE (\E e : Take(e)) /\ UNCHANGED turns
  BY <1>3, TakenTurn
<1>4. CASE \E n \in DOMAIN turns, level \in Levels : Report(n, level)
  BY <1>4, ReportedTurn
<1>5. ASSUME NEW l \in Lanes, Accept(l)
      PROVE  LastWord'
  <2>1. PICK t : t = [codex |-> lane[l].cap.codex, issue |-> lane[l].issue, live |-> TRUE]
    OBVIOUS
  <2> QED
    BY <1>5, <2>1, AcceptedTurn DEF Accept
<1>6. ASSUME NEW n, n \in 0..Len(turns),
             IF n # 0 /\ turns[n].live THEN EndedBy(n) \/ NothingEnded ELSE NothingEnded
      PROVE  LastWord'
  <2>1. n # 0 => n \in DOMAIN turns
    BY <1>6, TurnFacts
  <2> QED
    BY <1>1, <1>2, <1>6, <2>1 DEF NothingEnded
<1>7. \A l \in Lanes : lane[l].turn \in 0..Len(turns)
  BY LaneFacts DEF WorkOK
<1>8. phys[root.active].turn \in 0..Len(turns)
  BY DEF IInv, Typed, PhysOK, Refers, RootOK
<1>9. CASE \E l \in Lanes : Rollover(l)
  BY <1>1, <1>6, <1>7, <1>9
     DEF Rollover, TargetCreated, SourceInterrupted, SourceInterruptFails, TargetFails
<1>10. CASE \E l \in Lanes : Start(l)
  BY <1>1, <1>5, <1>10
     DEF Start, StageDone, EnsureDone, StartThrows, TurnResponds, TurnStartFails
<1>11. CASE Handle
  BY <1>1, <1>3, <1>11 DEF Handle, DropEvent, ApplyUsage, ApplyTerminal, SettleTerminal
<1>12. CASE DeleteBegin \/ Delete \/ InterruptEnd
  BY <1>1, <1>6, <1>8, <1>12 DEF DeleteBegin, Delete, DeleteStopped, DeleteEnd, InterruptEnd
<1>13. CASE \E n \in DOMAIN turns : EndTurn(n)
  BY <1>2, <1>13 DEF EndTurn
<1>14. CASE \/ \E i \in Issues : StartThreadIssues(i) \/ InterruptBegin(i)
            \/ ProcessIssueQueueOnce \/ CooldownExpires
            \/ \E p \in tomb : TombstoneExpires(p)
            \/ UNCHANGED vars
  BY <1>1, <1>14 DEF StartThreadIssues, InterruptBegin, ProcessIssueQueueOnce,
     CooldownExpires, TombstoneExpires, vars
<1> QED
  BY <1>4, <1>9, <1>10, <1>11, <1>12, <1>13, <1>14 DEF Next

LEMMA InitLast ==
  ASSUME Init
  PROVE  LastWord
BY DEF Init, LastWord

-----------------------------------------------------------------------------
(***************************************************************************)
(* One tail                                                                *)
(*                                                                         *)
(* As long as the user neither interrupts nor deletes, one lane at most is *)
(* at work, all that is open and bound is the active physical thread (and  *)
(* the successor a rollover is about to switch to), and the one turn that  *)
(* is still heard on it is the last one given and belongs to the active    *)
(* issue.                                                                  *)
(***************************************************************************)
Calm == stops = 0 /\ ~root.deleted

\* A turn of the active physical thread that is still heard.
Engages(n) == turns[n].codex = phys[root.active].codex /\ Speaks(n)
NoneEngages == \A n \in DOMAIN turns : ~Engages(n)

\* A route to an open physical thread leads to the one that is bound, and what
\* is bound and open is the active one or the successor of a rollover.
Bindings ==
  /\ \A c \in DOMAIN route :
       route[c] # NoThread /\ Open(phys, route[c]) => phys[route[c]].codex = c
  /\ phys[root.active].codex # NoThread => route[phys[root.active].codex] = root.active
  /\ root.active \notin tomb
  /\ Open(phys, root.active)
  /\ \A p \in DOMAIN phys \ {root.active} :
       Open(phys, p) /\ phys[p].codex # NoThread =>
         \E l \in Lanes : lane[l].pc = "interrupt" /\ lane[l].p = p

Solo == \A l, m \in Lanes : l # m => lane[l].pc = "idle" \/ lane[m].pc = "idle"

\* Where a lane is at work,
Place(l) ==
  LET w == lane[l]
  IN /\ w.pc = "create" => /\ w.src = root.active /\ w.p # root.active
                           /\ ~w.cap.closed /\ phys[w.p].codex = NoThread
                           /\ Open(phys, w.p) /\ w.p \notin tomb
     /\ w.pc = "interrupt" =>
          /\ w.src = root.active /\ w.p # root.active
          /\ Open(phys, w.p) /\ phys[w.p].codex # NoThread
          /\ w.p \notin tomb /\ route[phys[w.p].codex] = w.p
          /\ \A n \in DOMAIN turns : turns[n].codex # phys[w.p].codex
     /\ w.pc \in {"stage", "ensure", "turn", "sync"} => w.p = root.active
     /\ w.pc = "stage" => w.kind = "plain" \/ phys[w.p].codex # NoThread
     /\ w.pc = "ensure" => w.kind = "plain" /\ phys[w.p].codex = NoThread /\ ~w.cap.closed
     /\ w.pc = "turn" => w.cap.codex = phys[w.p].codex
\* for which issue,
Claim(l) ==
  LET w == lane[l]
  IN /\ w.pc \in {"create", "interrupt", "stage", "ensure"} =>
          active = IF l = "handler" THEN w.issue ELSE NoIssue
     /\ w.pc = "turn" => active = w.issue
     /\ w.pc = "sync" => active # NoIssue
\* and with which turn.
Talk(l) ==
  LET w == lane[l]
  IN /\ w.pc \in {"stage", "ensure", "sync"} => NoneEngages
     /\ w.pc = "turn" /\ w.turn = 0 => NoneEngages
     /\ w.pc = "turn" /\ w.turn # 0 =>
          /\ Engages(w.turn) /\ turns[w.turn].live /\ turns[w.turn].issue = w.issue
          /\ \A k \in DOMAIN inbox : inbox[k].turn # w.turn

Turning == \A n \in DOMAIN turns :
             Engages(n) => /\ n = Len(turns) /\ turns[n].issue = active
                           /\ \A l \in Lanes : lane[l].pc = "turn" => lane[l].turn = n

Naming == \A p \in DOMAIN activeP : activeP[p] \in {NoIssue, active}

CalmState == /\ stopped = NoStop /\ stopping = NoIssue
             /\ Bindings /\ Solo
             /\ \A l \in Lanes : Place(l) /\ Claim(l) /\ Talk(l)
             /\ Turning /\ Naming
CalmInv == stops \in Nat /\ (Calm => CalmState)

LEMMA InitCalm ==
  ASSUME Init
  PROVE  CalmInv
<1>1. /\ root.active = 1 /\ phys = <<Fresh(1)>> /\ route = <<>> /\ tomb = {} /\ turns = <<>>
      /\ activeP = <<NoIssue>> /\ stopped = NoStop /\ stopping = NoIssue /\ stops = 0
      /\ \A l \in Lanes : lane[l].pc = "idle"
  BY DEF Init, Idle
<1>2. phys[1].codex = NoThread /\ Open(phys, 1) /\ DOMAIN phys = {1}
  BY <1>1 DEF Fresh, Open
<1>3. Bindings /\ Solo
  BY <1>1, <1>2 DEF Bindings, Solo
<1>4. \A l \in Lanes : Place(l) /\ Claim(l) /\ Talk(l)
  BY <1>1 DEF Place, Claim, Talk
<1>5. Turning /\ Naming
  BY <1>1 DEF Turning, Naming
<1> QED
  BY <1>1, <1>3, <1>4, <1>5 DEF CalmInv, CalmState

-----------------------------------------------------------------------------
(***************************************************************************)
(* Parts of the steps                                                      *)
(***************************************************************************)

\* While the root thread lives nothing of it is deleted.
LEMMA Living ==
  ASSUME IInv, ~root.deleted
  PROVE  /\ deleting.pc = "none"
         /\ \A p \in 1..Len(phys) : ~phys[p].deleted /\ (Open(phys, p) <=> ~phys[p].closed)
         /\ \A l \in Lanes : ~lane[l].cap.deleted
         /\ DOMAIN phys = 1..Len(phys) /\ root.active \in 1..Len(phys)
         /\ ActivePhysical(phys) = root.active
<1>1. deleting.pc \in {"none", "stop", "clean", "done"}
  BY DEF IInv, Typed, DeletingOK
<1>2. deleting.pc = "none"
  BY <1>1 DEF IInv, Erasure
<1>3. /\ \A p \in 1..Len(phys) : ~phys[p].deleted /\ phys[p].closed \in BOOLEAN
      /\ \A l \in Lanes : ~lane[l].cap.deleted
  BY <1>2 DEF IInv, Erasure, Typed, PhysOK, Refers, PhysicalThreads
<1>4. DOMAIN phys = 1..Len(phys)
  BY Sizes DEF IInv
<1>5. ActivePhysical(phys) = root.active /\ root.active \in 1..Len(phys)
  BY <1>3, <1>4, ActiveFacts
<1> QED
  BY <1>2, <1>3, <1>4, <1>5 DEF Open

\* A lane that moves while the other one rests.
LEMMA Alone ==
  ASSUME IInv, Solo, NEW l \in Lanes, NEW v, lane' = [lane EXCEPT ![l] = v],
         lane[l].pc # "idle" \/ \A m \in Lanes \ {l} : lane[m].pc = "idle"
  PROVE  /\ Solo'
         /\ lane'[l] = v
         /\ \A m \in Lanes \ {l} : lane'[m] = lane[m] /\ lane[m].pc = "idle"
<1>1. lane'[l] = v /\ \A m \in Lanes \ {l} : lane'[m] = lane[m]
  BY LaneFacts
<1>2. \A m \in Lanes \ {l} : lane[m].pc = "idle"
  BY DEF Solo
<1>3. Solo'
  BY <1>1, <1>2 DEF Solo
<1> QED
  BY <1>1, <1>2, <1>3

\* A lane at rest asks for nothing.
LEMMA Resting ==
  ASSUME NEW l \in Lanes, lane'[l].pc = "idle"
  PROVE  Place(l)' /\ Claim(l)' /\ Talk(l)'
BY DEF Place, Claim, Talk

\* A lane that gives up leaves the rest as it is.
LEMMA Rests ==
  ASSUME IInv, CalmState, NEW l \in Lanes, lane[l].pc \notin {"idle", "interrupt"},
         lane' = [lane EXCEPT ![l] = Idle], root'.active = root.active,
         UNCHANGED <<phys, route, tomb, active, activeP, stopped, stopping, turns, inbox>>
  PROVE  CalmState'
<1>1. /\ Solo' /\ lane'[l] = Idle
      /\ \A m \in Lanes \ {l} : lane'[m] = lane[m] /\ lane[m].pc = "idle"
  BY Alone DEF CalmState
<1>2. \A m \in Lanes : lane'[m].pc = "idle" /\ lane[m].pc # "interrupt"
  BY <1>1 DEF Idle
<1>3. Bindings'
  BY <1>2 DEF CalmState, Bindings, Open
<1>4. \A m \in Lanes : Place(m)' /\ Claim(m)' /\ Talk(m)'
  BY <1>2, Resting
<1>5. Turning'
  BY <1>2 DEF CalmState, Turning, Engages, Speaks
<1> QED
  BY <1>1, <1>3, <1>4, <1>5 DEF CalmState, Naming

LEMMA GivenUpCalm ==
  ASSUME IInv, CalmState, NEW l \in Lanes, TargetFails(l) \/ StartThrows(l)
  PROVE  CalmState'
<1>1. /\ lane[l].pc \notin {"idle", "interrupt"}
      /\ lane' = [lane EXCEPT ![l] = Idle]
      /\ Degrade(l)
      /\ UNCHANGED <<phys, route, tomb, active, activeP, stopped, stopping, turns, inbox>>
  BY DEF TargetFails, StartThrows
<1>2. root'.active = root.active
  BY <1>1 DEF Degrade, IInv, Typed, RootOK
<1> QED
  BY <1>1, <1>2, Rests

\* app-server says something of a turn that is answered.
LEMMA SaidCalm ==
  ASSUME IInv, IInv', CalmState, NEW n \in DOMAIN turns, Answered(n),
         \A m \in DOMAIN turns : m # n => turns'[m] = turns[m],
         SameTurns, Len(turns') = Len(turns),
         \A m \in DOMAIN turns : Speaks(m)' <=> Speaks(m),
         \A k \in DOMAIN inbox' : inbox'[k].turn = n \/ (k \in DOMAIN inbox /\ inbox'[k] = inbox[k]),
         UNCHANGED <<root, phys, route, tomb, active, activeP, lane, stopped, stopping>>
  PROVE  CalmState'
<1>1. \A m \in DOMAIN turns : Engages(m)' <=> Engages(m)
  BY DEF Engages, SameTurns
<1>2. DOMAIN turns' = DOMAIN turns
  BY DEF SameTurns
<1>3. Bindings' /\ Solo' /\ Naming'
  BY DEF CalmState, Bindings, Solo, Naming, Open
<1>4. Turning'
  BY <1>1, <1>2 DEF CalmState, Turning, SameTurns
<1>5. ASSUME NEW l \in Lanes PROVE Place(l)' /\ Claim(l)' /\ Talk(l)'
  <2>1. Place(l) /\ Claim(l) /\ Talk(l)
    BY DEF CalmState
  <2>2. Place(l)'
    <3>1. \A n0 \in DOMAIN turns : turns'[n0].codex = turns[n0].codex
      BY DEF SameTurns
    <3>2. \A n0 \in DOMAIN turns' :
            turns[n0].codex # phys[lane[l].p].codex => turns'[n0].codex # phys[lane[l].p].codex
      BY <1>2, <3>1
    <3> QED
      BY <1>2, <2>1, <3>2 DEF Place, Open
  <2>3. Claim(l)'
    BY <2>1 DEF Claim
  <2>4. NoneEngages => NoneEngages'
    BY <1>1, <1>2 DEF NoneEngages
  <2>5. ASSUME lane[l].pc = "turn", lane[l].turn # 0
        PROVE  /\ Engages(lane[l].turn)' /\ turns'[lane[l].turn].live
               /\ turns'[lane[l].turn].issue = lane[l].issue
               /\ \A k \in DOMAIN inbox' : inbox'[k].turn # lane[l].turn
    <3>1. lane[l].turn \in DOMAIN turns /\ lane[l].turn # n
      BY <2>5, LaneFacts, TurnFacts DEF WorkOK, Answered
    <3> QED
      BY <1>1, <2>1, <2>5, <3>1 DEF Talk
  <2>6. Talk(l)'
    BY <2>1, <2>4, <2>5 DEF Talk
  <2> QED
    BY <2>2, <2>3, <2>6
<1> QED
  BY <1>3, <1>4, <1>5 DEF CalmState

LEMMA SameLength ==
  ASSUME NEW m \in Nat, NEW n \in Nat, 1..m = 1..n
  PROVE  m = n
<1>1. m > n => m \in 1..m /\ m \notin 1..n
  OBVIOUS
<1>2. n > m => n \in 1..n /\ n \notin 1..m
  OBVIOUS
<1> QED
  BY <1>1, <1>2

LEMMA ServerCalm ==
  ASSUME IInv, IInv', LastWord, CalmState, NEW n \in DOMAIN turns,
         EndTurn(n) \/ \E level \in Levels : Report(n, level)
  PROVE  CalmState'
<1>1. /\ Answered(n)
      /\ UNCHANGED <<root, phys, route, tomb, active, activeP, lane, stopped, stopping>>
  BY DEF EndTurn, Report
<1>2. /\ SameTurns
      /\ \A m \in DOMAIN turns : Speaks(m)' <=> Speaks(m)
      /\ \A m \in DOMAIN turns : m # n => turns'[m] = turns[m]
      /\ \A k \in DOMAIN inbox' : inbox'[k].turn = n \/ (k \in DOMAIN inbox /\ inbox'[k] = inbox[k])
  BY EndedTurn, ReportedTurn DEF EndTurn
<1>3. Len(turns') = Len(turns)
  <2>1. DOMAIN turns' = 1..Len(turns') /\ Len(turns') \in Nat
        /\ DOMAIN turns = 1..Len(turns) /\ Len(turns) \in Nat
    BY TurnFacts, Sizes DEF IInv
  <2>2. DOMAIN turns' = DOMAIN turns
    BY <1>2 DEF SameTurns
  <2> QED
    BY <2>1, <2>2, SameLength
<1> QED
  BY <1>1, <1>2, <1>3, SaidCalm

\* A notification that is not dropped is of the one turn that is heard, on the
\* active physical thread, of the active issue, and neither lane is at work.
LEMMA HeardFacts ==
  ASSUME IInv, LastWord, CalmState, ~root.deleted, NEW e, Take(e), ~Dropped(e),
         \E k \in DOMAIN inbox : inbox[k].turn = e.turn
  PROVE  /\ Owner(turns[e.turn].codex) = root.active
         /\ e.turn \in DOMAIN turns /\ Engages(e.turn)
         /\ e.turn = Len(turns) /\ turns[e.turn].issue = active
         /\ active \in Issues
         /\ IssueOn(root.active) = active
         /\ \A l \in Lanes : lane[l].pc = "idle"
<1> DEFINE c == turns[e.turn].codex
           p == Owner(c)
<1>1. /\ e.turn \in DOMAIN turns /\ c \in 1..Len(route) /\ lane["handler"].pc = "idle"
      /\ p \in 1..Len(phys)
  BY TakeFacts, KeptFacts, TurnFacts
<1>2. p \notin tomb /\ Open(phys, p)
  BY DEF Dropped, DropClosed
<1>3. DOMAIN phys = 1..Len(phys) /\ DOMAIN route = 1..Len(route) /\ root.active \in 1..Len(phys)
  BY Living, Sizes DEF IInv
<1>4. phys[p].codex = c
  <2>1. CASE route[c] # NoThread
    BY <1>1, <1>2, <1>3, <2>1 DEF Owner, CalmState, Bindings
  <2>2. CASE route[c] = NoThread
    <3> DEFINE holders == {q \in DOMAIN phys : phys[q].codex = c}
    <3>1. p = IF holders = {} THEN NoThread ELSE Min(holders)
      BY <2>2 DEF Owner
    <3>2. holders # {} /\ holders \subseteq Nat
      BY <1>1, <1>3, <3>1 DEF NoThread
    <3> HIDE DEF holders
    <3>3. p \in holders
      BY <3>1, <3>2, MinIsMember
    <3> QED
      BY <3>3 DEF holders
  <2> QED
    BY <2>1, <2>2
<1>5. p = root.active
  <2> SUFFICES ASSUME p # root.active PROVE FALSE
    OBVIOUS
  <2>1. c # NoThread
    BY <1>1 DEF NoThread
  <2>2. PICK l \in Lanes : lane[l].pc = "interrupt" /\ lane[l].p = p
    BY <1>1, <1>2, <1>3, <1>4, <2>1 DEF CalmState, Bindings
  <2>3. turns[e.turn].codex # phys[p].codex
    BY <1>1, <2>2 DEF CalmState, Place
  <2> QED
    BY <1>4, <2>3
<1>6. Engages(e.turn)
  BY <1>1, <1>4, <1>5 DEF Engages, Speaks
<1>7. e.turn = Len(turns) /\ turns[e.turn].issue = active
  BY <1>1, <1>6 DEF CalmState, Turning
<1>8. active \in Issues
  BY <1>1, <1>7, TurnFacts
<1>9. IssueOn(root.active) = active
  <2>1. root.active \in DOMAIN activeP
    BY <1>3, Sizes DEF IInv
  <2> QED
    BY <2>1 DEF CalmState, Naming, IssueOn
<1>10. lane["pipeline"].pc = "idle"
  <2> DEFINE w == lane["pipeline"]
  <2>1. "pipeline" \in Lanes
    BY DEF Lanes
  <2> HIDE DEF w
  <2>5. /\ w.pc \in Pcs /\ Claim("pipeline") /\ Talk("pipeline")
        /\ w.pc \in Requested => w.issue \in Issues
    BY <2>1, LaneFacts DEF CalmState, WorkOK, Works, w
  <2>2. w.pc \notin {"create", "interrupt", "stage", "ensure"}
    BY <1>8, <2>5, NoIssueAssumption DEF Claim, w
  <2>3. w.pc # "sync"
    BY <1>1, <1>6, <2>5 DEF Talk, NoneEngages, w
  <2>4. w.pc # "turn"
    <3> SUFFICES ASSUME w.pc = "turn" PROVE FALSE
      OBVIOUS
    <3>1. w.turn = e.turn
      BY <1>1, <1>6, <2>1 DEF CalmState, Turning, w
    <3>2. w.turn # 0
      BY <1>1, <1>6, <2>5 DEF Talk, NoneEngages, w
    <3> QED
      BY <1>1, <1>6, <2>5, <3>1, <3>2 DEF Talk, w
  <2> QED
    BY <2>2, <2>3, <2>4, <2>5 DEF Pcs, w
<1> QED
  BY <1>1, <1>5, <1>6, <1>7, <1>8, <1>9, <1>10 DEF Lanes

\* One physical thread is rewritten.
Rewritten(ph, old, a, r) == ph = [old EXCEPT ![a] = r]

LEMMA PhysChanged ==
  ASSUME NEW old, NEW nr, NEW nt, PhysOK(old, nr, nt), NEW a \in 1..Len(old),
         NEW r, Refers(r, nr, nt), NEW ph, Rewritten(ph, old, a, r)
  PROVE  /\ PhysOK(ph, nr, nt) /\ Len(ph) = Len(old)
         /\ DOMAIN ph = DOMAIN old
         /\ ph[a] = r
         /\ \A q \in 1..Len(old) : q # a => ph[q] = old[q]
<1>1. old \in Seq(PhysicalThreads) /\ r \in PhysicalThreads
  BY DEF PhysOK, Refers
<1>2. /\ ph \in Seq(PhysicalThreads) /\ Len(ph) = Len(old) /\ DOMAIN ph = DOMAIN old
      /\ \A q \in 1..Len(old) : ph[q] = IF q = a THEN r ELSE old[q]
  BY <1>1, ExceptFacts DEF Rewritten
<1>3. \A q \in 1..Len(ph) : Refers(ph[q], nr, nt)
  BY <1>2 DEF PhysOK
<1> QED
  BY <1>2, <1>3 DEF PhysOK

\* A rollover begins with both lanes at rest.
LEMMA BeginCalm ==
  ASSUME IInv, IInv', CalmState, ~root.deleted, NEW l \in Lanes,
         \A m \in Lanes : lane[m].pc = "idle",
         NEW i, NEW kind,
         NEW ph, ph \in Seq(PhysicalThreads), Len(ph) = Len(phys), ActivePhysical(ph) = root.active,
         \A p \in 1..Len(phys) : /\ ph[p].codex = phys[p].codex
                                 /\ ph[p].closed = phys[p].closed
                                 /\ ph[p].deleted = phys[p].deleted,
         BeginRollover(l, i, kind, ph),
         active = IF l = "handler" THEN i ELSE NoIssue,
         \A n \in DOMAIN turns : Speaks(n)' => Speaks(n),
         root'.active = root.active, stopped' = NoStop,
         UNCHANGED <<route, tomb, active, stopping, turns>>
  PROVE  CalmState'
<1>1. PICK new : new = Fresh(root.seq + 1)
  OBVIOUS
<1>2. PICK w : w = [Idle EXCEPT !.pc = "create", !.kind = kind, !.issue = i, !.p = Len(ph) + 1,
                      !.src = root.active, !.cap = new, !.turn = ph[root.active].turn]
  OBVIOUS
<1>3. /\ phys' = Append(ph, new) /\ activeP' = Append(activeP, NoIssue)
      /\ lane' = [lane EXCEPT ![l] = w]
  BY <1>1, <1>2 DEF BeginRollover
<1>4. ~new.closed /\ new.codex = NoThread /\ ~new.deleted /\ new \in PhysicalThreads
  <2>1. root.seq + 1 \in Nat
    BY DEF IInv, Typed, RootOK
  <2> QED
    BY <1>1, <2>1 DEF Fresh, PhysicalThreads, NoThread, Levels
<1>5. /\ w.pc = "create" /\ w.issue = i /\ w.p = Len(phys) + 1
      /\ w.src = root.active /\ w.cap = new
  BY <1>2 DEF Idle
<1>6. /\ Len(phys) \in Nat /\ root.active \in 1..Len(phys) /\ DOMAIN route = 1..Len(route)
      /\ DOMAIN phys = 1..Len(phys)
  BY Living, Sizes DEF IInv
<1>7. /\ DOMAIN phys' = 1..(Len(phys) + 1)
      /\ \A p \in 1..Len(phys) : phys'[p] = ph[p]
      /\ phys'[Len(phys) + 1] = new
  BY <1>3, <1>4, <1>6
<1>8. \A p \in 1..Len(phys) : /\ phys'[p].codex = phys[p].codex
                              /\ Open(phys, p)' <=> Open(phys, p)
  BY <1>7 DEF Open
<1>9. \A c \in DOMAIN route : route[c] \in 0..Len(phys)
  <2>1. route \in Seq(0..Len(phys))
    BY DEF IInv, Typed, RouteOK
  <2> QED
    BY <1>6, <2>1, ElementOfSeq
<1>10. /\ Solo' /\ lane'[l] = w
       /\ \A m \in Lanes \ {l} : lane'[m].pc = "idle"
  BY <1>3, Alone DEF CalmState
<1>11. Bindings'
  <2>1. \A c \in DOMAIN route :
          route[c] # NoThread => route[c] \in 1..Len(phys)
    BY <1>6, <1>9 DEF NoThread
  <2>2. \A p \in 1..Len(phys) : p # root.active => ~(Open(phys, p) /\ phys[p].codex # NoThread)
    BY <1>6 DEF CalmState, Bindings
  <2>3. \A p \in DOMAIN phys' : p \in 1..Len(phys) \/ p = Len(phys) + 1
    BY <1>6, <1>7
  <2>4. \A p \in DOMAIN phys' \ {root.active} : ~(Open(phys, p)' /\ phys'[p].codex # NoThread)
    BY <1>4, <1>7, <1>8, <2>2, <2>3
  <2>5. \A c \in DOMAIN route : route[c] # NoThread /\ Open(phys, route[c])' => phys'[route[c]].codex = c
    BY <1>8, <2>1 DEF CalmState, Bindings
  <2>6. /\ phys'[root.active].codex # NoThread => route[phys'[root.active].codex] = root.active
        /\ root.active \notin tomb /\ Open(phys, root.active)'
    BY <1>6, <1>8 DEF CalmState, Bindings
  <2>7. \A q : Open(phys, q)' <=> Open(phys', q)
    BY DEF Open
  <2> QED
    BY <2>4, <2>5, <2>6, <2>7 DEF Bindings
<1>12. \A n \in DOMAIN turns : Engages(n)' => Engages(n)
  BY <1>6, <1>8 DEF Engages
<1>13. Turning'
  <2>1. \A m \in Lanes : lane'[m].pc # "turn"
    BY <1>5, <1>10
  <2> QED
    BY <1>12, <2>1 DEF CalmState, Turning
<1>14. Naming'
  <2>1. activeP \in Seq(IssueOrNone) /\ Len(activeP) = Len(phys)
    BY <1>6, MapFacts DEF IInv, Typed, CardsOK
  <2>2. /\ DOMAIN activeP' = 1..(Len(phys) + 1) /\ DOMAIN activeP = 1..Len(phys)
        /\ \A p \in 1..Len(phys) : activeP'[p] = activeP[p]
        /\ activeP'[Len(phys) + 1] = NoIssue
    BY <1>3, <1>6, <2>1, AppendProperties, LenProperties DEF IssueOrNone
  <2>3. \A p \in DOMAIN activeP' : p \in DOMAIN activeP \/ p = Len(phys) + 1
    BY <1>6, <2>2
  <2> QED
    BY <2>2, <2>3 DEF CalmState, Naming
<1>15. ASSUME NEW m \in Lanes PROVE Place(m)' /\ Claim(m)' /\ Talk(m)'
  <2>1. CASE m = l
    <3>1. w.p # root.active /\ w.p \notin tomb
      BY <1>5, <1>6 DEF IInv, Typed, FlagsOK
    <3>2. Place(l)'
      BY <1>4, <1>5, <1>7, <1>10, <3>1 DEF Place, Open
    <3>3. Claim(l)' /\ Talk(l)'
      BY <1>5, <1>10 DEF Claim, Talk
    <3> QED
      BY <2>1, <3>2, <3>3
  <2>2. CASE m # l
    BY <1>10, <2>2, Resting
  <2> QED
    BY <2>1, <2>2
<1> QED
  BY <1>10, <1>11, <1>13, <1>14, <1>15 DEF CalmState

\* The queue is processed.
LEMMA ProcessCalm ==
  ASSUME IInv, IInv', CalmState, ~root.deleted, ProcessIssueQueueOnce
  PROVE  CalmState'
<1>1. /\ lane["pipeline"].pc = "idle" /\ queue # <<>> /\ active = NoIssue
      /\ UNCHANGED <<root, route, tomb, turns, inbox, stopped, stopping>>
      /\ "pipeline" \in Lanes /\ "handler" \in Lanes
  BY DEF ProcessIssueQueueOnce, Lanes
<1>2. \A m \in Lanes : lane[m].pc = "idle"
  <2>1. Claim("handler") /\ lane["handler"].pc \in Pcs
        /\ (lane["handler"].pc \in Requested => lane["handler"].issue \in Issues)
    BY <1>1, LaneFacts DEF CalmState, WorkOK, Works
  <2>2. lane["handler"].pc \notin {"create", "interrupt", "stage", "ensure", "turn", "sync"}
    BY <1>1, <2>1, NoIssueAssumption DEF Claim, Requested
  <2> QED
    BY <1>1, <2>1, <2>2 DEF Pcs, Lanes
<1>3. NoneEngages
  BY <1>1, TurnFacts, NoIssueAssumption DEF CalmState, Turning, NoneEngages
<1>4. NoneEngages' \/ phys' # phys
  BY <1>1, <1>3 DEF NoneEngages, Engages, Speaks
<1>5. CASE active' \in Running /\ UNCHANGED <<phys, activeP, lane>>
  <2>1. Bindings' /\ Solo'
    BY <1>1, <1>5 DEF CalmState, Bindings, Solo, Open
  <2>2. \A m \in Lanes : Place(m)' /\ Claim(m)' /\ Talk(m)'
    BY <1>2, <1>5, Resting
  <2>3. Turning' /\ Naming'
    BY <1>1, <1>4, <1>5 DEF CalmState, Naming, Turning, NoneEngages
  <2> QED
    BY <1>1, <2>1, <2>2, <2>3 DEF CalmState
<1>6. CASE /\ UNCHANGED active
           /\ CanRollOver(Head(queue), phys)
           /\ BeginRollover("pipeline", Head(queue), "preflight", phys)
  <2>1. ActivePhysical(phys) = root.active /\ phys \in Seq(PhysicalThreads)
    BY Living DEF IInv, Typed, PhysOK
  <2>2. \A n \in DOMAIN turns : Speaks(n)' => Speaks(n)
    BY <1>1 DEF Speaks
  <2>3. active = IF "pipeline" = "handler" THEN Head(queue) ELSE NoIssue
    BY <1>1
  <2> QED
    BY <1>1, <1>2, <1>6, <2>1, <2>2, <2>3, BeginCalm DEF CalmState
<1>7. CASE UNCHANGED active /\ StartPlain(Head(queue), ActivePhysical(phys))
  <2>1. PICK w : w = [Idle EXCEPT !.pc = "stage", !.issue = Head(queue), !.p = root.active]
    OBVIOUS
  <2>2. /\ lane' = [lane EXCEPT !["pipeline"] = w]
        /\ UNCHANGED <<phys, activeP>>
    BY <1>7, <2>1, Living DEF StartPlain
  <2>3. w.pc = "stage" /\ w.p = root.active /\ w.kind = "plain" /\ w.issue = Head(queue)
    BY <2>1 DEF Idle
  <2>4. /\ Solo' /\ lane'["pipeline"] = w
        /\ \A m \in Lanes \ {"pipeline"} : lane'[m].pc = "idle"
    BY <1>1, <1>2, <2>2, Alone DEF CalmState
  <2>5. Bindings'
    BY <1>1, <1>2, <2>2 DEF CalmState, Bindings, Open
  <2>6. Turning' /\ Naming'
    BY <1>1, <1>4, <1>7, <2>2 DEF CalmState, Naming, Turning, NoneEngages
  <2>7. ASSUME NEW m \in Lanes PROVE Place(m)' /\ Claim(m)' /\ Talk(m)'
    <3>1. CASE m = "pipeline"
      <4>1. Place("pipeline")' /\ Claim("pipeline")'
        BY <1>1, <1>7, <2>3, <2>4 DEF Place, Claim
      <4>2. Talk("pipeline")'
        BY <1>4, <2>2, <2>3, <2>4 DEF Talk
      <4> QED
        BY <3>1, <4>1, <4>2
    <3>2. CASE m # "pipeline"
      BY <2>4, <3>2, Resting
    <3> QED
      BY <3>1, <3>2
  <2> QED
    BY <1>1, <2>4, <2>5, <2>6, <2>7 DEF CalmState
<1> QED
  BY <1>5, <1>6, <1>7 DEF ProcessIssueQueueOnce

-----------------------------------------------------------------------------
(***************************************************************************)
(* Notifications                                                           *)
(***************************************************************************)

\* What a taken notification leaves: nobody is engaged who was not, and what is
\* at work is not spoken of.
LEMMA TakenCalm ==
  ASSUME IInv, IInv', LastWord, CalmState, NEW e, Take(e), UNCHANGED turns
  PROVE  /\ stopped' = NoStop
         /\ \A n \in DOMAIN turns : Speaks(n)' => Speaks(n)
         /\ \A n \in DOMAIN turns : turns[n].live => Speaks(n)'
         /\ \A n \in DOMAIN turns : (\A k \in DOMAIN inbox : inbox[k].turn # n)
                                      => \A k \in DOMAIN inbox' : inbox'[k].turn # n
         /\ \E k \in DOMAIN inbox : inbox[k].turn = e.turn
<1>1. stopped' = NoStop
  BY DEF Take, CalmState
<1>2. /\ \A m \in DOMAIN turns : m # e.turn => (Speaks(m)' <=> Speaks(m))
      /\ Speaks(e.turn)
      /\ \E k \in DOMAIN inbox : inbox[k].turn = e.turn
      /\ \A k \in DOMAIN inbox' : \E j \in DOMAIN inbox : inbox'[k] = inbox[j]
  BY TakenTurn
<1>3. \A n \in DOMAIN turns : Speaks(n)' => Speaks(n)
  BY <1>2
<1>4. \A n \in DOMAIN turns : turns[n].live => Speaks(n)'
  BY DEF Speaks
<1> QED
  BY <1>1, <1>2, <1>3, <1>4

LEMMA DropCalm ==
  ASSUME IInv, IInv', LastWord, CalmState, DropEvent
  PROVE  CalmState'
<1>1. PICK e : Take(e)
  BY DEF DropEvent
<1>2. UNCHANGED <<root, phys, route, tomb, active, activeP, lane, stopping, turns>>
  BY DEF DropEvent
<1>3. /\ stopped' = NoStop
      /\ \A n \in DOMAIN turns : Speaks(n)' => Speaks(n)
      /\ \A n \in DOMAIN turns : turns[n].live => Speaks(n)'
      /\ \A n \in DOMAIN turns : (\A k \in DOMAIN inbox : inbox[k].turn # n)
                                   => \A k \in DOMAIN inbox' : inbox'[k].turn # n
  BY <1>1, <1>2, TakenCalm
<1>4. \A n \in DOMAIN turns : Engages(n)' => Engages(n)
  BY <1>2, <1>3 DEF Engages
<1>5. Bindings' /\ Solo' /\ Naming' /\ Turning'
  BY <1>2, <1>4 DEF CalmState, Bindings, Solo, Naming, Turning, Open
<1>6. ASSUME NEW l \in Lanes PROVE Place(l)' /\ Claim(l)' /\ Talk(l)'
  <2>1. Place(l) /\ Claim(l) /\ Talk(l)
    BY DEF CalmState
  <2>2. Place(l)' /\ Claim(l)'
    BY <1>2, <2>1 DEF Place, Claim, Open
  <2>3. NoneEngages => NoneEngages'
    BY <1>2, <1>4 DEF NoneEngages
  <2>4. ASSUME lane[l].pc = "turn", lane[l].turn # 0
        PROVE  /\ Engages(lane[l].turn)'
               /\ \A k \in DOMAIN inbox' : inbox'[k].turn # lane[l].turn
    <3>1. lane[l].turn \in DOMAIN turns
      BY <2>4, LaneFacts, TurnFacts DEF WorkOK
    <3> QED
      BY <1>2, <1>3, <2>1, <2>4, <3>1 DEF Talk, Engages
  <2>5. Talk(l)'
    BY <1>2, <2>1, <2>3, <2>4 DEF Talk
  <2> QED
    BY <2>2, <2>5
<1> QED
  BY <1>2, <1>3, <1>5, <1>6 DEF CalmState

LEMMA UsageCalm ==
  ASSUME IInv, IInv', LastWord, CalmState, ~root.deleted, ApplyUsage
  PROVE  CalmState'
<1>1. PICK e \in ToSet(inbox) :
        LET p == Owner(turns[e.turn].codex)
            noted == [phys EXCEPT ![p].usage = e.level]
        IN /\ Take(e)
           /\ e.kind = "usage" /\ ~Dropped(e)
           /\ root' = [root EXCEPT !.degraded = FALSE]
           /\ IF noted[ActivePhysical(noted)].usage = "full" /\ CanRollOver(IssueOn(p), noted)
              THEN BeginRollover("handler", IssueOn(p), "runtime", noted)
              ELSE /\ phys' = noted
                   /\ UNCHANGED <<activeP, lock, lane>>
  BY DEF ApplyUsage
<1>2. UNCHANGED <<route, tomb, active, stopping, turns>> /\ Take(e) /\ ~Dropped(e)
  BY <1>1 DEF ApplyUsage
<1>3. /\ stopped' = NoStop
      /\ \A n \in DOMAIN turns : Speaks(n)' => Speaks(n)
      /\ \E k \in DOMAIN inbox : inbox[k].turn = e.turn
  BY <1>2, TakenCalm
<1>4. /\ Owner(turns[e.turn].codex) = root.active
      /\ active \in Issues /\ IssueOn(root.active) = active
      /\ \A l \in Lanes : lane[l].pc = "idle"
  BY <1>2, <1>3, HeardFacts
<1>5. PICK r : r = [phys[root.active] EXCEPT !.usage = e.level]
  OBVIOUS
<1>6. PICK noted : Rewritten(noted, phys, root.active, r)
  BY DEF Rewritten
<1>7. \/ BeginRollover("handler", active, "runtime", noted)
      \/ phys' = noted /\ UNCHANGED <<activeP, lane>>
  BY <1>1, <1>4, <1>5, <1>6 DEF Rewritten
<1>8. root'.active = root.active
  BY <1>1 DEF IInv, Typed, RootOK
<1>9. /\ DOMAIN phys = 1..Len(phys) /\ root.active \in 1..Len(phys)
      /\ PhysOK(phys, Len(route), Len(turns)) /\ phys[root.active] \in PhysicalThreads
  BY Living DEF IInv, Typed, PhysOK, Refers
<1>10. /\ Refers(r, Len(route), Len(turns))
       /\ r.codex = phys[root.active].codex /\ r.closed = phys[root.active].closed
       /\ r.deleted = phys[root.active].deleted
  <2>1. e.level \in Levels /\ Refers(phys[root.active], Len(route), Len(turns))
    BY <1>2, <1>9, TakeFacts DEF PhysOK
  <2> QED
    BY <1>5, <2>1 DEF Refers, PhysicalThreads
<1>11. /\ PhysOK(noted, Len(route), Len(turns)) /\ Len(noted) = Len(phys)
       /\ DOMAIN noted = DOMAIN phys /\ noted[root.active] = r
       /\ \A q \in 1..Len(phys) : q # root.active => noted[q] = phys[q]
  BY <1>6, <1>9, <1>10, PhysChanged
<1>12. \A q \in 1..Len(phys) : /\ noted[q].codex = phys[q].codex
                               /\ noted[q].closed = phys[q].closed
                               /\ noted[q].deleted = phys[q].deleted
  BY <1>10, <1>11
<1>13. CASE BeginRollover("handler", active, "runtime", noted)
  <2>1. ActivePhysical(noted) = root.active
    BY <1>9, <1>11, <1>12, Living, ActiveFacts
  <2>2. noted \in Seq(PhysicalThreads) /\ "handler" \in Lanes
    BY <1>11 DEF PhysOK, Lanes
  <2> QED
    BY <1>2, <1>3, <1>4, <1>8, <1>11, <1>12, <1>13, <2>1, <2>2, BeginCalm
<1>14. CASE phys' = noted /\ UNCHANGED <<activeP, lane>>
  <2>1. \A q \in 1..Len(phys) : phys'[q].codex = phys[q].codex /\ (Open(phys', q) <=> Open(phys, q))
    BY <1>12, <1>14 DEF Open
  <2>2. \A c \in DOMAIN route : route[c] # NoThread => route[c] \in DOMAIN phys
    <3>1. route \in Seq(0..Len(phys)) /\ DOMAIN route = 1..Len(route)
      BY Sizes DEF IInv, Typed, RouteOK
    <3>2. \A c \in DOMAIN route : route[c] \in 0..Len(phys)
      BY <3>1, ElementOfSeq
    <3> QED
      BY <1>9, <3>2 DEF NoThread
  <2>3. Bindings'
    BY <1>2, <1>4, <1>8, <1>9, <1>11, <1>14, <2>1, <2>2 DEF CalmState, Bindings
  <2>4. Solo' /\ Naming' /\ \A l \in Lanes : lane'[l].pc = "idle"
    BY <1>2, <1>4, <1>14 DEF CalmState, Solo, Naming
  <2>5. Turning'
    <3>1. \A n \in DOMAIN turns : Engages(n)' => Engages(n)
      BY <1>2, <1>3, <1>8, <1>9, <2>1 DEF Engages
    <3> QED
      BY <1>2, <2>4, <3>1 DEF CalmState, Turning
  <2>6. \A l \in Lanes : Place(l)' /\ Claim(l)' /\ Talk(l)'
    BY <2>4, Resting
  <2> QED
    BY <1>2, <1>3, <2>3, <2>4, <2>5, <2>6 DEF CalmState
<1> QED
  BY <1>7, <1>13, <1>14

\* The end of the one turn that is heard: nobody is engaged after it.
LEMMA TerminalCalm ==
  ASSUME IInv, IInv', LastWord, CalmState, ~root.deleted, ApplyTerminal
  PROVE  CalmState'
<1>1. PICK e \in ToSet(inbox) :
        LET p == Owner(turns[e.turn].codex)
            i == IssueOn(p)
        IN /\ Take(e)
           /\ e.kind = "end" /\ ~Dropped(e)
           /\ root' = [root EXCEPT !.degraded = FALSE]
           /\ status' = IF i = NoIssue THEN status ELSE [status EXCEPT ![i] = "ended"]
           /\ lane' = [lane EXCEPT !["handler"] = [Idle EXCEPT !.pc = "sync", !.p = p]]
  BY DEF ApplyTerminal
<1>2. /\ UNCHANGED <<phys, route, tomb, active, activeP, stopping, turns>>
      /\ Take(e) /\ ~Dropped(e) /\ e.kind = "end"
  BY <1>1 DEF ApplyTerminal
<1>3. /\ stopped' = NoStop
      /\ \A n \in DOMAIN turns : Speaks(n)' => Speaks(n)
      /\ \E k \in DOMAIN inbox : inbox[k].turn = e.turn
  BY <1>2, TakenCalm
<1>4. /\ Owner(turns[e.turn].codex) = root.active
      /\ e.turn = Len(turns) /\ active \in Issues
      /\ \A l \in Lanes : lane[l].pc = "idle"
  BY <1>2, <1>3, HeardFacts
<1>5. root'.active = root.active
  BY <1>1 DEF IInv, Typed, RootOK
<1>6. PICK v : v = [Idle EXCEPT !.pc = "sync", !.p = root.active]
  OBVIOUS
<1>7. v.pc = "sync" /\ v.p = root.active /\ lane' = [lane EXCEPT !["handler"] = v]
  BY <1>1, <1>4, <1>6 DEF Idle
<1>8. /\ Solo' /\ lane'["handler"] = v /\ "handler" \in Lanes
      /\ \A m \in Lanes \ {"handler"} : lane'[m].pc = "idle"
  <2>1. "handler" \in Lanes
    BY DEF Lanes
  <2> QED
    BY <1>4, <1>7, <2>1, Alone DEF CalmState
<1>9. NoneEngages'
  <2>1. ~Speaks(e.turn)'
    BY <1>2, TakenTurn
  <2>2. \A n \in DOMAIN turns : Engages(n)' => Engages(n)
    BY <1>2, <1>3, <1>5 DEF Engages
  <2>3. \A n \in DOMAIN turns : Engages(n) => n = Len(turns)
    BY DEF CalmState, Turning
  <2>4. \A n \in DOMAIN turns : ~Engages(n)'
    BY <1>4, <2>1, <2>2, <2>3 DEF Engages
  <2> QED
    BY <1>2, <2>4 DEF NoneEngages
<1>10. Bindings' /\ Naming' /\ Turning'
  BY <1>2, <1>4, <1>5, <1>9 DEF CalmState, Bindings, Naming, Turning, NoneEngages, Open
<1>11. ASSUME NEW m \in Lanes PROVE Place(m)' /\ Claim(m)' /\ Talk(m)'
  <2>1. CASE m = "handler"
    <3>1. active # NoIssue
      BY <1>4, NoIssueAssumption
    <3>2. Place("handler")' /\ Claim("handler")' /\ Talk("handler")'
      BY <1>2, <1>5, <1>7, <1>8, <1>9, <3>1 DEF Place, Claim, Talk
    <3> QED
      BY <2>1, <3>2
  <2>2. CASE m # "handler"
    BY <1>8, <2>2, Resting
  <2> QED
    BY <2>1, <2>2
<1> QED
  BY <1>2, <1>3, <1>8, <1>10, <1>11 DEF CalmState

\* clearRunningIssueTracking forgets the one issue that is named.
LEMMA NamesCleared ==
  ASSUME IInv, CalmState, NEW p, active' = NoIssue, activeP' = [ClearedP EXCEPT ![p] = NoIssue]
  PROVE  Naming'
<1>1. ClearedP = [q \in DOMAIN activeP |-> NoIssue]
  BY DEF ClearedP, CalmState, Naming
<1> QED
  BY <1>1 DEF Naming

LEMMA SettleCalm ==
  ASSUME IInv, IInv', CalmState, SettleTerminal
  PROVE  CalmState'
<1>1. /\ lane["handler"].pc = "sync"
      /\ active' = NoIssue /\ activeP' = [ClearedP EXCEPT ![lane["handler"].p] = NoIssue]
      /\ lane' = [lane EXCEPT !["handler"] = Idle]
      /\ UNCHANGED <<root, phys, route, tomb, turns, inbox, stopped, stopping>>
      /\ "handler" \in Lanes
  BY DEF SettleTerminal, Lanes
<1>2. Solo' /\ \A m \in Lanes : lane'[m].pc = "idle" /\ lane[m].pc # "interrupt"
  <2>1. Idle.pc = "idle"
    BY DEF Idle
  <2>2. /\ Solo' /\ lane'["handler"] = Idle
        /\ \A m \in Lanes \ {"handler"} : lane'[m] = lane[m] /\ lane[m].pc = "idle"
    BY <1>1, Alone DEF CalmState
  <2>3. ASSUME NEW m \in Lanes PROVE lane'[m].pc = "idle" /\ lane[m].pc # "interrupt"
    BY <1>1, <2>1, <2>2
  <2> QED
    BY <2>2, <2>3
<1>3. NoneEngages
  BY <1>1 DEF CalmState, Talk
<1>4. Bindings'
  BY <1>1, <1>2 DEF CalmState, Bindings, Open
<1>5. Turning'
  BY <1>1, <1>3 DEF Turning, NoneEngages, Engages, Speaks
<1>6. Naming'
  BY <1>1, NamesCleared
<1>7. \A m \in Lanes : Place(m)' /\ Claim(m)' /\ Talk(m)'
  BY <1>2, Resting
<1> QED
  BY <1>1, <1>2, <1>4, <1>5, <1>6, <1>7 DEF CalmState

-----------------------------------------------------------------------------
(***************************************************************************)
(* Rollovers and starts                                                    *)
(***************************************************************************)

\* A Codex thread is added for a physical thread.
LEMMA RouteAdded ==
  ASSUME IInv, NEW p \in 1..Len(phys), route' = Append(route, p)
  PROVE  /\ DOMAIN route = 1..Len(route) /\ Len(route) \in Nat
         /\ DOMAIN route' = 1..(Len(route) + 1)
         /\ \A c \in DOMAIN route : route'[c] = route[c]
         /\ route'[Len(route) + 1] = p
         /\ \A c \in DOMAIN route' : c \in DOMAIN route \/ c = Len(route) + 1
         /\ \A n \in DOMAIN turns : turns[n].codex # Len(route) + 1
<1>1. route \in Seq(0..Len(phys)) /\ Len(phys) \in Nat
      /\ DOMAIN route = 1..Len(route) /\ Len(route) \in Nat
  BY Sizes DEF IInv, Typed, RouteOK
<1>2. \A n \in DOMAIN turns : turns[n].codex # Len(route) + 1
  BY <1>1, TurnFacts
<1>3. p \in 0..Len(phys)
  BY <1>1
<1>4. /\ DOMAIN route' = 1..(Len(route) + 1)
      /\ \A c \in 1..Len(route) : route'[c] = route[c]
      /\ route'[Len(route) + 1] = p
  BY <1>1, <1>3
<1> QED
  BY <1>1, <1>2, <1>4

\* The switch to a successor that is open, bound and has had no turn yet.
LEMMA SwitchCalm ==
  ASSUME IInv, IInv', CalmState, ~root.deleted,
         NEW l \in Lanes, lane[l].pc \in {"create", "interrupt"},
         NEW nr, NEW ph, PhysOK(ph, nr, Len(turns)), Len(ph) = Len(phys),
         Open(ph, lane[l].p), ph[lane[l].p].codex # NoThread,
         \A q \in 1..Len(phys) : q # lane[l].p => ph[q] = phys[q],
         route'[ph[lane[l].p].codex] = lane[l].p,
         \A c \in DOMAIN route' : IF route'[c] = lane[l].p
                                  THEN ph[lane[l].p].codex = c
                                  ELSE c \in DOMAIN route /\ route'[c] = route[c],
         SameTurns, \A n \in DOMAIN turns : turns[n].codex # ph[lane[l].p].codex,
         SwitchTo(l, ph),
         UNCHANGED <<active, stopped, stopping>>
  PROVE  CalmState'
<1>1. PICK w : w = lane[l]
  OBVIOUS
<1>2. PICK v : v = [w EXCEPT !.pc = "stage"]
  OBVIOUS
<1>3. /\ phys' = [ph EXCEPT ![w.src].closed = TRUE] /\ tomb' = tomb \cup {w.src}
      /\ activeP' = [activeP EXCEPT ![w.src] = NoIssue]
      /\ root' = [root EXCEPT !.active = w.p, !.seq = ph[w.p].seq, !.degraded = FALSE]
      /\ lane' = [lane EXCEPT ![l] = v]
  BY <1>1, <1>2 DEF SwitchTo, Closed
<1>4. /\ w.src = root.active /\ w.p # w.src /\ w.p \notin tomb
      /\ Claim(l) /\ w.pc \in {"create", "interrupt"}
  BY <1>1 DEF CalmState, Place
<1>5. /\ w \in Works /\ w.p \in 1..Len(phys) /\ w.src \in 1..Len(phys)
      /\ DOMAIN phys = 1..Len(phys)
  BY <1>1, <1>4, LaneFacts, Living DEF WorkOK, Requested, NoThread
<1>6. v.pc = "stage" /\ v.p = w.p /\ v.issue = w.issue
  BY <1>2, <1>5 DEF Works
<1>7. root'.active = w.p
  BY <1>3 DEF IInv, Typed, RootOK
<1>8. PICK r : r = [ph[w.src] EXCEPT !.closed = TRUE]
  OBVIOUS
<1>9. Refers(r, nr, Len(turns)) /\ r.closed
  <2>1. Refers(ph[w.src], nr, Len(turns))
    BY <1>5 DEF PhysOK
  <2> QED
    BY <1>8, <2>1 DEF Refers, PhysicalThreads
<1>10. /\ DOMAIN phys' = DOMAIN phys
       /\ phys'[w.src].closed
       /\ \A q \in 1..Len(phys) : q # w.src => phys'[q] = ph[q]
  <2>1. Rewritten(phys', ph, w.src, r)
    BY <1>3, <1>8 DEF Rewritten
  <2>2. PICK a \in 1..Len(ph) : a = w.src
    BY <1>5
  <2>3. /\ Len(phys') = Len(ph) /\ DOMAIN phys' = DOMAIN ph /\ phys'[a] = r
        /\ \A q \in 1..Len(ph) : q # a => phys'[q] = ph[q]
    BY <1>9, <2>1, <2>2, PhysChanged
  <2>4. DOMAIN ph = 1..Len(ph)
    BY LenProperties DEF PhysOK
  <2> QED
    BY <1>5, <1>9, <2>2, <2>3, <2>4
<1>11. \A q \in 1..Len(phys) : q # w.src => (Open(phys', q) <=> Open(ph, q))
  BY <1>10 DEF Open
<1>12. /\ Solo' /\ lane'[l] = v
       /\ \A m \in Lanes \ {l} : lane'[m] = lane[m] /\ lane[m].pc = "idle"
  BY <1>1, <1>3, <1>4, Alone DEF CalmState
<1>13. NoneEngages'
  <2>1. phys'[w.p].codex = ph[w.p].codex
    BY <1>4, <1>5, <1>10
  <2> QED
    BY <1>1, <1>7, <2>1 DEF NoneEngages, Engages, SameTurns
<1>14. Bindings'
  <2>1. ASSUME NEW q \in 1..Len(phys), q # w.p, Open(phys', q)
        PROVE  q # root.active /\ phys'[q] = phys[q] /\ Open(phys, q)
    BY <1>1, <1>4, <1>5, <1>10, <2>1 DEF Open
  <2>2. ASSUME NEW q \in 1..Len(phys), q # w.p, Open(phys', q)
        PROVE  phys'[q].codex = NoThread
    <3>1. q # root.active /\ phys'[q] = phys[q] /\ Open(phys, q)
      BY <2>1, <2>2
    <3>2. ~\E m \in Lanes : lane[m].pc = "interrupt" /\ lane[m].p = q
      BY <1>1, <1>12, <2>2
    <3> QED
      BY <1>5, <3>1, <3>2 DEF CalmState, Bindings
  <2>3. ASSUME NEW c \in DOMAIN route', route'[c] # NoThread, Open(phys', route'[c])
        PROVE  phys'[route'[c]].codex = c
    <3>1. CASE route'[c] = w.p
      BY <1>1, <1>4, <1>5, <1>10, <3>1
    <3>2. CASE route'[c] # w.p
      <4>1. c \in DOMAIN route /\ route'[c] = route[c]
        BY <1>1, <3>2
      <4>2. route[c] \in 0..Len(phys)
        <5>1. route \in Seq(0..Len(phys)) /\ DOMAIN route = 1..Len(route)
          BY Sizes DEF IInv, Typed, RouteOK
        <5> QED
          BY <4>1, <5>1, ElementOfSeq
      <4>3. route[c] \in 1..Len(phys)
        BY <2>3, <4>1, <4>2, Sizes DEF NoThread, IInv
      <4>4. phys'[route[c]] = phys[route[c]] /\ Open(phys, route[c])
        BY <2>1, <2>3, <3>2, <4>1, <4>3
      <4> QED
        BY <2>3, <4>1, <4>4 DEF CalmState, Bindings
    <3> QED
      BY <3>1, <3>2
  <2>4. /\ phys'[w.p].codex # NoThread => route'[phys'[w.p].codex] = w.p
        /\ w.p \notin tomb'
        /\ Open(phys', w.p)
    BY <1>1, <1>3, <1>4, <1>5, <1>10, <1>11
  <2> QED
    BY <1>5, <1>7, <1>10, <2>2, <2>3, <2>4 DEF Bindings
<1>15. Turning' /\ Naming'
  BY <1>3, <1>13 DEF CalmState, Turning, Naming, NoneEngages
<1>16. ASSUME NEW m \in Lanes PROVE Place(m)' /\ Claim(m)' /\ Talk(m)'
  <2>1. CASE m = l
    <3>1. phys'[w.p].codex # NoThread
      BY <1>1, <1>4, <1>5, <1>10
    <3>2. Place(l)'
      BY <1>6, <1>7, <1>12, <3>1 DEF Place
    <3>3. Claim(l)'
      BY <1>1, <1>4, <1>6, <1>12 DEF Claim
    <3>4. Talk(l)'
      BY <1>6, <1>12, <1>13 DEF Talk
    <3> QED
      BY <2>1, <3>2, <3>3, <3>4
  <2>2. CASE m # l
    BY <1>12, <2>2, Resting
  <2> QED
    BY <2>1, <2>2
<1> QED
  BY <1>12, <1>14, <1>15, <1>16 DEF CalmState

LEMMA TargetCreatedCalm ==
  ASSUME IInv, IInv', CalmState, ~root.deleted, NEW l \in Lanes, TargetCreated(l)
  PROVE  CalmState'
<1>1. PICK w : w = lane[l]
  OBVIOUS
<1>2. PICK c : c = Len(route) + 1
  OBVIOUS
<1>3. PICK r : r = [w.cap EXCEPT !.codex = c]
  OBVIOUS
<1>4. PICK bound : Rewritten(bound, phys, w.p, r)
  BY DEF Rewritten
<1>5. /\ w.pc = "create" /\ route' = Append(route, w.p)
      /\ UNCHANGED <<active, stopped, stopping, turns, inbox>>
      /\ \/ SwitchTo(l, bound)
         \/ /\ phys' = bound
            /\ lane' = [lane EXCEPT ![l].pc = "interrupt"]
            /\ UNCHANGED <<root, tomb, activeP>>
  BY <1>1, <1>2, <1>3, <1>4 DEF TargetCreated, Rewritten
<1>6. /\ w.src = root.active /\ w.p # root.active /\ w.p \notin tomb
      /\ ~w.cap.closed /\ phys[w.p].codex = NoThread /\ Open(phys, w.p)
      /\ Claim(l)
  BY <1>1, <1>5 DEF CalmState, Place
<1>7. /\ w \in Works /\ w.p \in 1..Len(phys) /\ ~w.cap.deleted
      /\ DOMAIN phys = 1..Len(phys) /\ root.active \in 1..Len(phys)
      /\ Refers(w.cap, Len(route), Len(turns))
  BY <1>1, <1>5, LaneFacts, Living DEF WorkOK, Requested, NoThread
<1>8. /\ DOMAIN route = 1..Len(route) /\ Len(route) \in Nat
      /\ DOMAIN route' = 1..(Len(route) + 1)
      /\ \A d \in DOMAIN route : route'[d] = route[d]
      /\ route'[c] = w.p
      /\ \A d \in DOMAIN route' : d \in DOMAIN route \/ d = c
      /\ \A n \in DOMAIN turns : turns[n].codex # c
      /\ c \in Nat /\ c # NoThread
  <2>1. /\ DOMAIN route = 1..Len(route) /\ Len(route) \in Nat
        /\ DOMAIN route' = 1..(Len(route) + 1)
        /\ \A d \in DOMAIN route : route'[d] = route[d]
        /\ route'[Len(route) + 1] = w.p
        /\ \A d \in DOMAIN route' : d \in DOMAIN route \/ d = Len(route) + 1
        /\ \A n \in DOMAIN turns : turns[n].codex # Len(route) + 1
    BY <1>5, <1>7, RouteAdded
  <2> QED
    BY <1>2, <2>1 DEF NoThread
<1>9. Refers(r, c, Len(turns)) /\ r.codex = c /\ ~r.closed /\ ~r.deleted
  <2>1. w.cap \in PhysicalThreads /\ w.cap.turn \in 0..Len(turns) /\ c \in Nat /\ c \in 0..c
    BY <1>7, <1>8 DEF Refers
  <2>2. /\ r \in PhysicalThreads /\ r.codex = c /\ r.turn = w.cap.turn
        /\ r.closed = w.cap.closed /\ r.deleted = w.cap.deleted
    BY <1>3, <2>1 DEF PhysicalThreads
  <2> QED
    BY <1>6, <1>7, <2>1, <2>2 DEF Refers
<1>10. /\ PhysOK(bound, c, Len(turns)) /\ Len(bound) = Len(phys) /\ DOMAIN bound = DOMAIN phys
       /\ bound[w.p] = r
       /\ \A q \in 1..Len(phys) : q # w.p => bound[q] = phys[q]
  <2>1. PhysOK(phys, c, Len(turns))
    BY <1>2, <1>8, PhysGrows, Sizes DEF IInv, Typed
  <2> QED
    BY <1>4, <1>7, <1>9, <2>1, PhysChanged
<1>11. Open(bound, w.p) /\ \A q \in 1..Len(phys) : q # w.p => (Open(bound, q) <=> Open(phys, q))
  BY <1>9, <1>10 DEF Open
<1>12. \A d \in DOMAIN route : route[d] # w.p
  BY <1>6, <1>7, <1>8 DEF CalmState, Bindings, NoThread
<1>13. CASE SwitchTo(l, bound)
  <2>1. Open(bound, lane[l].p) /\ bound[lane[l].p].codex = c /\ lane[l].p = w.p
        /\ lane[l].pc \in {"create", "interrupt"}
    BY <1>1, <1>5, <1>9, <1>10, <1>11
  <2>2. \A d \in DOMAIN route' : IF route'[d] = lane[l].p
                                 THEN bound[lane[l].p].codex = d
                                 ELSE d \in DOMAIN route /\ route'[d] = route[d]
    BY <1>8, <1>12, <2>1
  <2>3. SameTurns
    BY <1>5 DEF SameTurns
  <2> QED
    BY <1>5, <1>8, <1>10, <1>13, <2>1, <2>2, <2>3, SwitchCalm
<1>14. CASE /\ phys' = bound
            /\ lane' = [lane EXCEPT ![l].pc = "interrupt"]
            /\ UNCHANGED <<root, tomb, activeP>>
  <2>1. PICK v : v = [w EXCEPT !.pc = "interrupt"]
    OBVIOUS
  <2>2. /\ lane' = [lane EXCEPT ![l] = v]
        /\ v.pc = "interrupt" /\ v.p = w.p /\ v.issue = w.issue /\ v.src = w.src
    BY <1>1, <1>7, <1>14, <2>1 DEF Works
  <2>3. /\ Solo' /\ lane'[l] = v
        /\ \A m \in Lanes \ {l} : lane'[m] = lane[m] /\ lane[m].pc = "idle"
    BY <1>1, <1>5, <2>2, Alone DEF CalmState
  <2>4. Bindings'
    <3>1. \A d \in DOMAIN route' : route'[d] # NoThread /\ Open(bound, route'[d]) =>
             bound[route'[d]].codex = d
      <4>1. ASSUME NEW d \in DOMAIN route, route[d] # NoThread, Open(bound, route[d])
            PROVE  bound[route[d]].codex = d
        <5>1. route[d] \in 0..Len(phys)
          <6>1. route \in Seq(0..Len(phys))
            BY DEF IInv, Typed, RouteOK
          <6> QED
            BY <1>8, <4>1, <6>1, ElementOfSeq
        <5>2. route[d] \in 1..Len(phys) /\ route[d] # w.p
          BY <1>12, <4>1, <5>1, Sizes DEF IInv, NoThread
        <5> QED
          BY <1>10, <1>11, <4>1, <5>2 DEF CalmState, Bindings
      <4> QED
        BY <1>8, <1>9, <1>10, <4>1
    <3>2. \A q \in 1..Len(phys) : q # w.p /\ q # root.active =>
             ~(Open(bound, q) /\ bound[q].codex # NoThread)
      <4>1. ~\E m \in Lanes : lane[m].pc = "interrupt"
        BY <1>1, <1>5, <2>3
      <4> QED
        BY <1>7, <1>10, <1>11, <4>1 DEF CalmState, Bindings
    <3>3. /\ bound[root.active] = phys[root.active] /\ Open(bound, root.active)
          /\ root.active \notin tomb
          /\ bound[root.active].codex # NoThread => route'[bound[root.active].codex] = root.active
      <4>1. bound[root.active] = phys[root.active] /\ Open(bound, root.active) /\ root.active \notin tomb
        BY <1>6, <1>7, <1>10, <1>11 DEF CalmState, Bindings
      <4>2. phys[root.active].codex \in 0..Len(route)
        BY <1>7 DEF IInv, Typed, PhysOK, Refers
      <4>3. phys[root.active].codex # NoThread => phys[root.active].codex \in DOMAIN route
        BY <1>8, <4>2 DEF NoThread
      <4> QED
        BY <1>8, <4>1, <4>3 DEF CalmState, Bindings
    <3>4. ASSUME NEW q \in DOMAIN phys' \ {root'.active}, Open(phys', q), phys'[q].codex # NoThread
          PROVE  \E m \in Lanes : lane'[m].pc = "interrupt" /\ lane'[m].p = q
      <4>1. q = w.p
        BY <1>7, <1>10, <1>14, <3>2, <3>4
      <4> QED
        BY <2>2, <2>3, <4>1
    <3> QED
      BY <1>14, <3>1, <3>3, <3>4 DEF Bindings
  <2>5. Turning' /\ Naming'
    <3>1. bound[root.active] = phys[root.active]
      BY <1>6, <1>7, <1>10
    <3>2. \A n \in DOMAIN turns : Engages(n)' => Engages(n)
      BY <1>5, <1>14, <3>1 DEF Engages, Speaks
    <3>3. \A m \in Lanes : lane'[m].pc # "turn"
      BY <2>2, <2>3
    <3> QED
      BY <1>5, <1>14, <3>2, <3>3 DEF CalmState, Turning, Naming
  <2>6. ASSUME NEW m \in Lanes PROVE Place(m)' /\ Claim(m)' /\ Talk(m)'
    <3>1. CASE m = l
      <4>1. Place(l)'
        BY <1>5, <1>6, <1>8, <1>9, <1>10, <1>11, <1>14, <2>2, <2>3 DEF Place, Open
      <4>2. Claim(l)' /\ Talk(l)'
        BY <1>1, <1>5, <1>6, <2>2, <2>3 DEF Claim, Talk
      <4> QED
        BY <3>1, <4>1, <4>2
    <3>2. CASE m # l
      BY <2>3, <3>2, Resting
    <3> QED
      BY <3>1, <3>2
  <2> QED
    BY <1>5, <2>3, <2>4, <2>5, <2>6 DEF CalmState
<1> QED
  BY <1>5, <1>13, <1>14

LEMMA InterruptedCalm ==
  ASSUME IInv, IInv', LastWord, CalmState, ~root.deleted, NEW l \in Lanes,
         SourceInterrupted(l) \/ SourceInterruptFails(l)
  PROVE  CalmState'
<1>1. /\ lane[l].pc = "interrupt" /\ SwitchTo(l, phys)
      /\ UNCHANGED <<route, active, stopped, stopping>>
      /\ UNCHANGED <<turns, inbox>> \/ \E n \in DOMAIN turns : turns[n].live /\ EndedBy(n)
  <2>1. lane[l].turn # 0 => lane[l].turn \in DOMAIN turns
    BY LaneFacts, TurnFacts DEF WorkOK
  <2> QED
    BY <2>1 DEF SourceInterrupted, SourceInterruptFails, NothingEnded
<1>2. SameTurns
  BY <1>1, EndedTurn DEF SameTurns
<1>3. /\ lane[l].p # root.active /\ Open(phys, lane[l].p) /\ phys[lane[l].p].codex # NoThread
      /\ route[phys[lane[l].p].codex] = lane[l].p
      /\ \A n \in DOMAIN turns : turns[n].codex # phys[lane[l].p].codex
      /\ lane[l].p # NoThread
  BY <1>1, LaneFacts DEF CalmState, Place, WorkOK, Requested
<1>4. \A c \in DOMAIN route' : IF route'[c] = lane[l].p
                               THEN phys[lane[l].p].codex = c
                               ELSE c \in DOMAIN route /\ route'[c] = route[c]
  BY <1>1, <1>3 DEF CalmState, Bindings
<1>5. PhysOK(phys, Len(route), Len(turns))
  BY DEF IInv, Typed
<1> QED
  BY <1>1, <1>2, <1>3, <1>4, <1>5, SwitchCalm

\* The execution is projected onto the active physical thread, which is open,
\* bound, and has no turn that is still heard.
LEMMA BeginTurnCalm ==
  ASSUME IInv, IInv', CalmState, ~root.deleted,
         NEW l \in Lanes, lane[l].pc \in {"stage", "ensure"},
         NEW a, a = root.active, NEW act,
         NEW nr, NEW ph, PhysOK(ph, nr, Len(turns)), Len(ph) = Len(phys),
         Open(ph, a), ph[a].codex # NoThread,
         \A q \in 1..Len(phys) : q # a => ph[q] = phys[q],
         route'[ph[a].codex] = a,
         \A c \in DOMAIN route' : IF route'[c] = a THEN ph[a].codex = c
                                  ELSE c \in DOMAIN route /\ route'[c] = route[c],
         \A n \in DOMAIN turns : turns[n].codex = ph[a].codex => ~Speaks(n),
         BeginTurn(l, ph, act),
         UNCHANGED <<tomb, turns, inbox, stopping>>
  PROVE  CalmState'
<1>1. PICK w : w = lane[l]
  OBVIOUS
<1>2. w.p = a /\ Claim(l) /\ w.pc \in {"stage", "ensure"}
  BY <1>1 DEF CalmState, Place
<1>3. /\ w \in Works /\ a \in 1..Len(phys) /\ DOMAIN phys = 1..Len(phys)
  BY <1>1, LaneFacts, Living
<1>4. Refers(ph[a], nr, Len(turns)) /\ ph[a] \in PhysicalThreads
  BY <1>3 DEF PhysOK, Refers
<1>5. PICK v : v = [w EXCEPT !.pc = "turn", !.turn = 0, !.cap = ph[a]]
  OBVIOUS
<1>6. v.pc = "turn" /\ v.turn = 0 /\ v.cap = ph[a] /\ v.p = a /\ v.issue = w.issue
  BY <1>2, <1>3, <1>5 DEF Works
<1>7. PICK r : r = [ph[a] EXCEPT !.turn = 0]
  OBVIOUS
<1>8. /\ Rewritten(phys', ph, a, r)
      /\ root' = [[root EXCEPT !.active = a, !.seq = ph[a].seq] EXCEPT !.degraded = FALSE]
      /\ stopped' = NoStop
      /\ active' = w.issue /\ activeP' = [activeP EXCEPT ![a] = w.issue]
      /\ lane' = [lane EXCEPT ![l] = v]
  BY <1>1, <1>2, <1>5, <1>7 DEF BeginTurn, Activated, Rewritten
<1>9. root'.active = a
  BY <1>8 DEF IInv, Typed, RootOK
<1>10. /\ Refers(r, nr, Len(turns)) /\ r.codex = ph[a].codex
       /\ r.closed = ph[a].closed /\ r.deleted = ph[a].deleted
  <2>1. Len(turns) \in Nat
    BY Sizes DEF IInv
  <2> QED
    BY <1>4, <1>7, <2>1 DEF Refers, PhysicalThreads
<1>11. /\ Len(phys') = Len(ph) /\ DOMAIN phys' = DOMAIN ph /\ DOMAIN ph = DOMAIN phys
       /\ phys'[a] = r
       /\ \A q \in 1..Len(phys) : q # a => phys'[q] = phys[q]
  <2>1. a \in 1..Len(ph)
    BY <1>3
  <2>2. /\ Len(phys') = Len(ph) /\ DOMAIN phys' = DOMAIN ph /\ phys'[a] = r
        /\ \A q \in 1..Len(ph) : q # a => phys'[q] = ph[q]
    BY <1>8, <1>10, <2>1, PhysChanged
  <2>3. DOMAIN ph = 1..Len(ph)
    BY LenProperties DEF PhysOK
  <2> QED
    BY <1>3, <2>2, <2>3
<1>12. /\ Open(phys', a)
       /\ \A q \in 1..Len(phys) : q # a => (Open(phys', q) <=> Open(phys, q))
  BY <1>10, <1>11 DEF Open
<1>13. /\ Solo' /\ lane'[l] = v
       /\ \A m \in Lanes \ {l} : lane'[m] = lane[m] /\ lane[m].pc = "idle"
  BY <1>1, <1>2, <1>8, Alone DEF CalmState
<1>14. NoneEngages'
  BY <1>9, <1>10, <1>11 DEF NoneEngages, Engages, Speaks
<1>15. Bindings'
  <2>1. ASSUME NEW c \in DOMAIN route', route'[c] # NoThread, Open(phys', route'[c])
        PROVE  phys'[route'[c]].codex = c
    <3>1. CASE route'[c] = a
      BY <1>10, <1>11, <3>1
    <3>2. CASE route'[c] # a
      <4>1. c \in DOMAIN route /\ route'[c] = route[c]
        BY <3>2
      <4>2. route[c] \in 0..Len(phys)
        <5>1. route \in Seq(0..Len(phys)) /\ DOMAIN route = 1..Len(route)
          BY Sizes DEF IInv, Typed, RouteOK
        <5> QED
          BY <4>1, <5>1, ElementOfSeq
      <4>3. route[c] \in 1..Len(phys)
        BY <2>1, <4>1, <4>2, Sizes DEF NoThread, IInv
      <4> QED
        BY <1>11, <1>12, <2>1, <3>2, <4>1, <4>3 DEF CalmState, Bindings
    <3> QED
      BY <3>1, <3>2
  <2>2. ASSUME NEW q \in 1..Len(phys), q # a
        PROVE  ~(Open(phys', q) /\ phys'[q].codex # NoThread)
    <3>1. ~\E m \in Lanes : lane[m].pc = "interrupt"
      BY <1>1, <1>2, <1>13
    <3> QED
      BY <1>3, <1>11, <1>12, <2>2, <3>1 DEF CalmState, Bindings
  <2>3. /\ phys'[a].codex # NoThread => route'[phys'[a].codex] = a
        /\ a \notin tomb'
    BY <1>10, <1>11 DEF CalmState, Bindings
  <2> QED
    BY <1>3, <1>9, <1>11, <1>12, <2>1, <2>2, <2>3 DEF Bindings
<1>16. Turning'
  BY <1>14 DEF Turning, NoneEngages
<1>17. Naming'
  <2>1. active \in {NoIssue, w.issue}
    BY <1>1, <1>2 DEF Claim
  <2> QED
    BY <1>8, <2>1 DEF CalmState, Naming
<1>18. ASSUME NEW m \in Lanes PROVE Place(m)' /\ Claim(m)' /\ Talk(m)'
  <2>1. CASE m = l
    <3>1. Place(l)'
      BY <1>6, <1>9, <1>10, <1>11, <1>13 DEF Place
    <3>2. Claim(l)' /\ Talk(l)'
      BY <1>6, <1>8, <1>13, <1>14 DEF Claim, Talk
    <3> QED
      BY <2>1, <3>1, <3>2
  <2>2. CASE m # l
    BY <1>13, <2>2, Resting
  <2> QED
    BY <2>1, <2>2
<1> QED
  BY <1>8, <1>13, <1>15, <1>16, <1>17, <1>18 DEF CalmState

LEMMA StageDoneCalm ==
  ASSUME IInv, IInv', CalmState, ~root.deleted, NEW l \in Lanes, StageDone(l)
  PROVE  CalmState'
<1>1. PICK a : a = root.active
  OBVIOUS
<1>2. /\ lane[l].pc = "stage" /\ lane[l].p = a /\ NoneEngages
      /\ lane[l].kind = "plain" \/ phys[a].codex # NoThread
      /\ Claim(l)
  BY <1>1 DEF StageDone, CalmState, Place, Talk
<1>3. UNCHANGED <<route, tomb, stopping, turns, inbox>>
  BY DEF StageDone
<1>4. Open(phys, a) /\ a \notin tomb /\ (phys[a].codex # NoThread => route[phys[a].codex] = a)
  BY <1>1 DEF CalmState, Bindings
<1>5. a \in 1..Len(phys) /\ ~phys[a].closed /\ lane[l] \in Works /\ DOMAIN phys = 1..Len(phys)
  BY <1>1, <1>4, LaneFacts, Living DEF Open
<1>6. CASE phys[a].codex # NoThread
  <2>1. BeginTurn(l, phys, FALSE)
    BY <1>2, <1>6 DEF StageDone
  <2>2. \A c \in DOMAIN route' : IF route'[c] = a THEN phys[a].codex = c
                                 ELSE c \in DOMAIN route /\ route'[c] = route[c]
    BY <1>3, <1>4, <1>5 DEF CalmState, Bindings, NoThread
  <2>3. \A n \in DOMAIN turns : turns[n].codex = phys[a].codex => ~Speaks(n)
    BY <1>1, <1>2 DEF NoneEngages, Engages
  <2>4. PhysOK(phys, Len(route), Len(turns))
    BY DEF IInv, Typed
  <2> QED
    BY <1>1, <1>2, <1>3, <1>4, <1>6, <2>1, <2>2, <2>3, <2>4, BeginTurnCalm
<1>7. CASE phys[a].codex = NoThread
  <2>1. PICK w : w = lane[l]
    OBVIOUS
  <2>2. PICK v : v = [w EXCEPT !.pc = "ensure", !.cap = phys[a], !.was = (root.active = a)]
    OBVIOUS
  <2>3. /\ v.pc = "ensure" /\ v.kind = w.kind /\ v.p = w.p /\ v.cap = phys[a] /\ v.issue = w.issue
    BY <1>5, <2>1, <2>2 DEF Works
  <2>4. /\ lane' = [lane EXCEPT ![l] = v]
        /\ UNCHANGED <<root, phys, stopped, active, activeP>>
    BY <1>2, <1>7, <2>1, <2>2 DEF StageDone
  <2>5. /\ Solo' /\ lane'[l] = v
        /\ \A m \in Lanes \ {l} : lane'[m] = lane[m] /\ lane[m].pc = "idle"
    BY <1>2, <2>4, Alone DEF CalmState
  <2>6. Bindings'
    <3>1. \A m \in Lanes : lane[m].pc # "interrupt"
      BY <1>2, <2>5
    <3> QED
      BY <1>3, <2>4, <3>1 DEF CalmState, Bindings
  <2>7. NoneEngages'
    BY <1>2, <1>3, <2>4 DEF NoneEngages, Engages, Speaks
  <2>8. Turning' /\ Naming'
    BY <2>4, <2>7 DEF CalmState, Turning, Naming, NoneEngages
  <2>9. ASSUME NEW m \in Lanes PROVE Place(m)' /\ Claim(m)' /\ Talk(m)'
    <3>1. CASE m = l
      <4>1. Place(l)'
        BY <1>1, <1>2, <1>5, <1>7, <2>1, <2>3, <2>4, <2>5 DEF Place
      <4>2. Claim(l)' /\ Talk(l)'
        BY <1>2, <2>1, <2>3, <2>4, <2>5, <2>7 DEF Claim, Talk
      <4> QED
        BY <3>1, <4>1, <4>2
    <3>2. CASE m # l
      BY <2>5, <3>2, Resting
    <3> QED
      BY <3>1, <3>2
  <2> QED
    BY <1>3, <2>4, <2>5, <2>6, <2>8, <2>9 DEF CalmState
<1> QED
  BY <1>6, <1>7

LEMMA EnsureDoneCalm ==
  ASSUME IInv, IInv', CalmState, ~root.deleted, NEW l \in Lanes, EnsureDone(l)
  PROVE  CalmState'
<1>1. PICK w : w = lane[l]
  OBVIOUS
<1>2. PICK a : a = root.active
  OBVIOUS
<1>3. PICK c : c = Len(route) + 1
  OBVIOUS
<1>4. PICK r : r = [w.cap EXCEPT !.codex = c]
  OBVIOUS
<1>5. /\ w.pc = "ensure" /\ w.p = a /\ phys[a].codex = NoThread /\ ~w.cap.closed
  BY <1>1, <1>2 DEF EnsureDone, CalmState, Place
<1>6. PICK ph : Rewritten(ph, phys, a, r)
  BY DEF Rewritten
<1>7. /\ route' = Append(route, a)
      /\ BeginTurn(l, ph, w.was)
      /\ UNCHANGED <<tomb, stopping, turns, inbox>>
  BY <1>1, <1>3, <1>4, <1>5, <1>6 DEF EnsureDone, Rewritten
<1>8. /\ w \in Works /\ ~w.cap.deleted /\ a \in 1..Len(phys)
      /\ DOMAIN phys = 1..Len(phys)
      /\ Refers(w.cap, Len(route), Len(turns))
  BY <1>1, <1>2, LaneFacts, Living DEF WorkOK
<1>9. /\ DOMAIN route = 1..Len(route) /\ Len(route) \in Nat
      /\ \A d \in DOMAIN route : route'[d] = route[d]
      /\ route'[c] = a
      /\ \A d \in DOMAIN route' : d \in DOMAIN route \/ d = c
      /\ \A n \in DOMAIN turns : turns[n].codex # c
      /\ c \in Nat /\ c # NoThread
  <2>1. /\ DOMAIN route = 1..Len(route) /\ Len(route) \in Nat
        /\ \A d \in DOMAIN route : route'[d] = route[d]
        /\ route'[Len(route) + 1] = a
        /\ \A d \in DOMAIN route' : d \in DOMAIN route \/ d = Len(route) + 1
        /\ \A n \in DOMAIN turns : turns[n].codex # Len(route) + 1
    BY <1>7, <1>8, RouteAdded
  <2> QED
    BY <1>3, <2>1 DEF NoThread
<1>10. Refers(r, c, Len(turns)) /\ r.codex = c /\ ~r.closed /\ ~r.deleted
  <2>1. w.cap \in PhysicalThreads /\ w.cap.turn \in 0..Len(turns) /\ c \in Nat /\ c \in 0..c
    BY <1>8, <1>9 DEF Refers
  <2>2. /\ r \in PhysicalThreads /\ r.codex = c /\ r.turn = w.cap.turn
        /\ r.closed = w.cap.closed /\ r.deleted = w.cap.deleted
    BY <1>4, <2>1 DEF PhysicalThreads
  <2> QED
    BY <1>5, <1>8, <2>1, <2>2 DEF Refers
<1>11. /\ PhysOK(ph, c, Len(turns)) /\ Len(ph) = Len(phys) /\ ph[a] = r
       /\ \A q \in 1..Len(phys) : q # a => ph[q] = phys[q]
  <2>1. PhysOK(phys, c, Len(turns))
    BY <1>3, <1>9, PhysGrows, Sizes DEF IInv, Typed
  <2> QED
    BY <1>6, <1>8, <1>10, <2>1, PhysChanged
<1>12. Open(ph, a) /\ ph[a].codex = c
  BY <1>10, <1>11 DEF Open
<1>13. \A d \in DOMAIN route : route[d] # a
  <2>1. Open(phys, a)
    BY <1>2 DEF CalmState, Bindings
  <2>2. a # NoThread
    BY <1>8 DEF NoThread
  <2> QED
    BY <1>5, <1>9, <2>1, <2>2 DEF CalmState, Bindings, NoThread
<1>14. \A d \in DOMAIN route' : IF route'[d] = a THEN ph[a].codex = d
                                ELSE d \in DOMAIN route /\ route'[d] = route[d]
  BY <1>9, <1>12, <1>13
<1> QED
  BY <1>1, <1>2, <1>5, <1>7, <1>9, <1>11, <1>12, <1>14, BeginTurnCalm

LEMMA AcceptCalm ==
  ASSUME IInv, IInv', LastWord, CalmState, NEW l \in Lanes, Accept(l)
  PROVE  CalmState'
<1>1. PICK w : w = lane[l]
  OBVIOUS
<1>2. PICK n : n = Len(turns) + 1
  OBVIOUS
<1>3. PICK v : v = [w EXCEPT !.turn = n]
  OBVIOUS
<1>4. PICK t : t = [codex |-> w.cap.codex, issue |-> w.issue, live |-> TRUE]
  OBVIOUS
<1>5. /\ w.pc = "turn" /\ w.turn = 0
      /\ turns' = Append(turns, t) /\ lane' = [lane EXCEPT ![l] = v]
      /\ UNCHANGED <<root, phys, route, tomb, active, activeP, stopped, stopping, inbox>>
  BY <1>1, <1>2, <1>3, <1>4 DEF Accept
<1>6. t.codex = w.cap.codex /\ t.issue = w.issue /\ t.live
  BY <1>4
<1>7. /\ w.p = root.active /\ w.cap.codex = phys[w.p].codex /\ active = w.issue /\ NoneEngages
  BY <1>1, <1>5 DEF CalmState, Place, Claim, Talk
<1>8. w \in Works /\ n # 0
  BY <1>1, <1>2, LaneFacts, TurnFacts
<1>9. v.pc = "turn" /\ v.turn = n /\ v.p = w.p /\ v.cap = w.cap /\ v.issue = w.issue
  BY <1>3, <1>5, <1>8 DEF Works
<1>10. /\ DOMAIN turns' = 1..n /\ Len(turns') = n /\ turns'[n] = t
       /\ \A m \in DOMAIN turns' : m = n \/ m \in DOMAIN turns
       /\ \A m \in DOMAIN turns : turns'[m] = turns[m] /\ (Speaks(m)' <=> Speaks(m))
       /\ \A k \in DOMAIN inbox : inbox[k].turn # n
       /\ n \in DOMAIN turns'
  <2>1. /\ DOMAIN turns' = 1..(Len(turns) + 1) /\ Len(turns') = Len(turns) + 1
        /\ turns'[Len(turns) + 1] = t
        /\ \A m \in DOMAIN turns : turns'[m] = turns[m] /\ (Speaks(m)' <=> Speaks(m))
        /\ \A k \in DOMAIN inbox : inbox[k].turn # Len(turns) + 1
    BY <1>5, <1>6, AcceptedTurn
  <2>2. DOMAIN turns = 1..Len(turns) /\ Len(turns) \in Nat
    BY TurnFacts
  <2> QED
    BY <1>2, <2>1, <2>2
<1>11. /\ Solo' /\ lane'[l] = v
       /\ \A m \in Lanes \ {l} : lane'[m] = lane[m] /\ lane[m].pc = "idle"
  BY <1>1, <1>5, Alone DEF CalmState
<1>12. Engages(n)' /\ \A m \in DOMAIN turns : ~Engages(m)'
  BY <1>5, <1>6, <1>7, <1>10 DEF Engages, Speaks, NoneEngages
<1>13. Bindings'
  <2>1. \A m \in Lanes : lane[m].pc # "interrupt"
    BY <1>1, <1>5, <1>11
  <2> QED
    BY <1>5, <2>1 DEF CalmState, Bindings
<1>14. Turning'
  BY <1>5, <1>6, <1>7, <1>9, <1>10, <1>11, <1>12 DEF Turning
<1>15. ASSUME NEW m \in Lanes PROVE Place(m)' /\ Claim(m)' /\ Talk(m)'
  <2>1. CASE m = l
    <3>1. Place(l)' /\ Claim(l)'
      BY <1>5, <1>7, <1>9, <1>11 DEF Place, Claim
    <3>2. Talk(l)'
      BY <1>5, <1>6, <1>8, <1>9, <1>10, <1>11, <1>12 DEF Talk
    <3> QED
      BY <2>1, <3>1, <3>2
  <2>2. CASE m # l
    BY <1>11, <2>2, Resting
  <2> QED
    BY <2>1, <2>2
<1> QED
  BY <1>5, <1>11, <1>13, <1>14, <1>15 DEF CalmState, Naming

\* The lane of a turn/start comes to rest; the active physical thread keeps its
\* binding or loses it.
LEMMA AnsweredCalm ==
  ASSUME IInv, IInv', CalmState, ~root.deleted, NEW l \in Lanes, lane[l].pc = "turn",
         lane' = [lane EXCEPT ![l] = Idle], root'.active = root.active,
         NEW a, a = root.active, NEW nr, NEW nt, PhysOK(phys, nr, nt),
         NEW r, Refers(r, nr, nt), ~r.closed, ~r.deleted,
         Rewritten(phys', phys, a, r),
         \/ /\ r.codex = phys[a].codex
            /\ UNCHANGED <<route, active, activeP>>
         \/ /\ r.codex = NoThread
            /\ DOMAIN route' = DOMAIN route
            /\ \A c \in DOMAIN route :
                 route'[c] = IF c = phys[a].codex THEN NoThread ELSE route[c]
            /\ Naming',
         UNCHANGED <<tomb, turns, inbox, stopped, stopping>>
  PROVE  CalmState'
<1>1. /\ Solo' /\ lane'[l] = Idle
      /\ \A m \in Lanes \ {l} : lane'[m] = lane[m] /\ lane[m].pc = "idle"
  BY Alone DEF CalmState
<1>2. \A m \in Lanes : lane'[m].pc = "idle" /\ lane[m].pc # "interrupt"
  BY <1>1 DEF Idle
<1>3. a \in 1..Len(phys) /\ DOMAIN phys = 1..Len(phys)
  BY Living
<1>4. /\ DOMAIN phys' = DOMAIN phys /\ phys'[a] = r
      /\ \A q \in 1..Len(phys) : q # a => phys'[q] = phys[q]
  BY <1>3, PhysChanged
<1>5. /\ Open(phys', a)
      /\ \A q \in 1..Len(phys) : q # a => (Open(phys', q) <=> Open(phys, q))
      /\ Open(phys, a)
  BY <1>4 DEF Open, CalmState, Bindings
<1>6. \A c \in DOMAIN route : route[c] \in 0..Len(phys)
  <2>1. route \in Seq(0..Len(phys)) /\ DOMAIN route = 1..Len(route)
    BY Sizes DEF IInv, Typed, RouteOK
  <2> QED
    BY <2>1, ElementOfSeq
<1>7. \A q \in DOMAIN phys' \ {a} : ~(Open(phys', q) /\ phys'[q].codex # NoThread)
  BY <1>2, <1>3, <1>4, <1>5 DEF CalmState, Bindings
<1>8. Bindings' /\ Turning' /\ Naming'
  <2>1. CASE r.codex = phys[a].codex /\ UNCHANGED <<route, active, activeP>>
    <3>1. \A c \in DOMAIN route : route[c] # NoThread /\ Open(phys', route[c]) => phys'[route[c]].codex = c
      <4>1. \A c \in DOMAIN route : route[c] # NoThread => route[c] \in 1..Len(phys)
        BY <1>6, Sizes DEF NoThread, IInv
      <4> QED
        BY <1>4, <1>5, <2>1, <4>1 DEF CalmState, Bindings
    <3>2. Bindings'
      BY <1>4, <1>5, <1>7, <2>1, <3>1 DEF CalmState, Bindings
    <3>3. \A n \in DOMAIN turns : Engages(n)' => Engages(n)
      BY <1>4, <2>1 DEF Engages, Speaks
    <3> QED
      BY <1>2, <2>1, <3>2, <3>3 DEF CalmState, Turning, Naming
  <2>2. CASE /\ r.codex = NoThread
             /\ DOMAIN route' = DOMAIN route
             /\ \A c \in DOMAIN route :
                  route'[c] = IF c = phys[a].codex THEN NoThread ELSE route[c]
             /\ Naming'
    <3>1. ASSUME NEW c \in DOMAIN route, route'[c] # NoThread, Open(phys', route'[c])
          PROVE  phys'[route'[c]].codex = c
      <4>1. route'[c] = route[c] /\ c # phys[a].codex
        BY <2>2, <3>1
      <4>2. route[c] \in 1..Len(phys)
        BY <1>6, <3>1, <4>1, Sizes DEF NoThread, IInv
      <4>3. route[c] # a
        BY <1>5, <3>1, <4>1 DEF CalmState, Bindings
      <4> QED
        BY <1>4, <1>5, <3>1, <4>1, <4>2, <4>3 DEF CalmState, Bindings
    <3>2. Bindings'
      BY <1>4, <1>5, <1>7, <2>2, <3>1 DEF CalmState, Bindings
    <3>3. NoneEngages'
      BY <1>4, <2>2, TurnFacts DEF NoneEngages, Engages, NoThread
    <3> QED
      BY <2>2, <3>2, <3>3 DEF Turning, NoneEngages
  <2> QED
    BY <2>1, <2>2
<1>9. \A m \in Lanes : Place(m)' /\ Claim(m)' /\ Talk(m)'
  BY <1>2, Resting
<1> QED
  BY <1>1, <1>8, <1>9 DEF CalmState

LEMMA RespondsCalm ==
  ASSUME IInv, IInv', CalmState, ~root.deleted, NEW l \in Lanes, TurnResponds(l)
  PROVE  CalmState'
<1>1. PICK a : a = root.active
  OBVIOUS
<1>2. PICK n : n = lane[l].turn
  OBVIOUS
<1>3. PICK r : r = [phys[a] EXCEPT !.turn = n]
  OBVIOUS
<1>4. /\ lane[l].pc = "turn" /\ lane' = [lane EXCEPT ![l] = Idle]
      /\ phys' = [phys EXCEPT ![lane[l].p].turn = n]
      /\ UNCHANGED <<root, route, tomb, active, activeP, turns, inbox, stopped, stopping>>
  BY <1>2 DEF TurnResponds
<1>5. lane[l].p = a
  BY <1>1, <1>4 DEF CalmState, Place
<1>6. Rewritten(phys', phys, a, r)
  BY <1>3, <1>4, <1>5 DEF Rewritten
<1>7. PhysOK(phys, Len(route), Len(turns)) /\ a \in 1..Len(phys) /\ n \in 0..Len(turns)
  BY <1>1, <1>2, LaneFacts, Living DEF IInv, Typed, WorkOK
<1>8. /\ Refers(r, Len(route), Len(turns)) /\ r.codex = phys[a].codex
      /\ r.closed = phys[a].closed /\ r.deleted = phys[a].deleted
  <2>1. Refers(phys[a], Len(route), Len(turns)) /\ Len(turns) \in Nat
    BY <1>7, Sizes DEF PhysOK, IInv
  <2> QED
    BY <1>3, <1>7, <2>1 DEF Refers, PhysicalThreads
<1>9. ~r.closed /\ ~r.deleted
  BY <1>1, <1>8 DEF CalmState, Bindings, Open
<1> QED
  BY <1>1, <1>4, <1>6, <1>7, <1>8, <1>9, AnsweredCalm

LEMMA StartFailsCalm ==
  ASSUME IInv, IInv', CalmState, ~root.deleted, NEW l \in Lanes, TurnStartFails(l)
  PROVE  CalmState'
<1>1. PICK a : a = root.active
  OBVIOUS
<1>2. PICK s : s = [phys[a] EXCEPT !.codex = NoThread]
  OBVIOUS
<1>3. PICK r : r = [s EXCEPT !.turn = 0]
  OBVIOUS
<1>4. PICK ph : Rewritten(ph, phys, a, s)
  BY DEF Rewritten
<1>5. /\ lane[l].pc = "turn" /\ lane[l].p = a
      /\ Open(phys, a)
  BY <1>1 DEF TurnStartFails, CalmState, Place, Bindings
<1>6. /\ PhysOK(phys, Len(route), Len(turns)) /\ a \in 1..Len(phys) /\ a # NoThread
      /\ ActivePhysical(phys) = a
      /\ Len(route) \in Nat /\ Len(turns) \in Nat
  BY <1>1, Living, Sizes DEF IInv, Typed, NoThread
<1>7. /\ Refers(s, Len(route), Len(turns)) /\ s.codex = NoThread
      /\ s.closed = phys[a].closed /\ s.deleted = phys[a].deleted
  <2>1. Refers(phys[a], Len(route), Len(turns))
    BY <1>6 DEF PhysOK
  <2> QED
    BY <1>2, <1>6, <2>1 DEF Refers, PhysicalThreads, NoThread
<1>8. /\ Refers(r, Len(route), Len(turns)) /\ r.codex = NoThread
      /\ r.closed = phys[a].closed /\ r.deleted = phys[a].deleted
  BY <1>3, <1>6, <1>7 DEF Refers, PhysicalThreads
<1>9. ph[a] = s /\ Open(ph, a)
  <2>1. ph[a] = s
    BY <1>4, <1>6, <1>7, PhysChanged
  <2> QED
    BY <1>5, <1>7, <2>1 DEF Open
<1>10. Unbound(phys) = ph
  BY <1>2, <1>4, <1>6 DEF Unbound, Rewritten
<1>11. /\ lane' = [lane EXCEPT ![l] = Idle]
       /\ phys' = [ph EXCEPT ![a].turn = 0]
       /\ active' = NoIssue /\ activeP' = [ClearedP EXCEPT ![a] = NoIssue]
       /\ route' = Unrouted(phys) /\ Degrade(l)
       /\ UNCHANGED <<tomb, turns, inbox, stopped, stopping>>
  BY <1>5, <1>9, <1>10 DEF TurnStartFails
<1>12. Rewritten(phys', phys, a, r)
  <2>1. phys' = [ph EXCEPT ![a] = r]
    BY <1>3, <1>9, <1>11
  <2> QED
    BY <1>4, <2>1 DEF Rewritten
<1>13. root'.active = root.active
  BY <1>11 DEF Degrade, IInv, Typed, RootOK
<1>14. Naming'
  BY <1>11, NamesCleared
<1>15. /\ DOMAIN route' = DOMAIN route
       /\ \A c \in DOMAIN route : route'[c] = IF c = phys[a].codex THEN NoThread ELSE route[c]
  BY <1>6, <1>11 DEF Unrouted
<1>16. ~r.closed /\ ~r.deleted
  BY <1>5, <1>8 DEF Open
<1> QED
  BY <1>1, <1>5, <1>6, <1>8, <1>11, <1>12, <1>13, <1>14, <1>15, <1>16, AnsweredCalm

\* What happens to cards that wait, or only by the passing of time.
LEMMA QuietCalm ==
  ASSUME CalmState, tomb' \subseteq tomb,
         UNCHANGED <<root, phys, route, active, activeP, lane, stopped, stopping, turns, inbox>>
  PROVE  CalmState'
<1>1. Bindings' /\ Solo' /\ Turning' /\ Naming'
  BY DEF CalmState, Bindings, Solo, Turning, Naming, Engages, Speaks
<1>2. \A l \in Lanes : Place(l)' /\ Claim(l)' /\ Talk(l)'
  BY DEF CalmState, Place, Claim, Talk, NoneEngages, Engages, Speaks
<1> QED
  BY <1>1, <1>2 DEF CalmState

\* Only an interrupt counts as one, and only the deletion deletes.
LEMMA RegimeKept ==
  ASSUME IInv, [Next]_vars, ~DeleteBegin, \A i \in Issues : ~InterruptBegin(i)
  PROVE  stops' = stops /\ root'.deleted = root.deleted
<1>1. root \in [active : 1..Len(phys), seq : Nat, deleted : BOOLEAN, degraded : BOOLEAN]
  BY DEF IInv, Typed, RootOK
<1>2. CASE \E l \in Lanes : Rollover(l)
  <2>1. PICK l \in Lanes : Rollover(l)
    BY <1>2
  <2>2. CASE TargetCreated(l)
    BY <1>1, <2>2 DEF TargetCreated, SwitchTo
  <2>3. CASE SourceInterrupted(l) \/ SourceInterruptFails(l)
    BY <1>1, <2>3 DEF SourceInterrupted, SourceInterruptFails, SwitchTo
  <2>4. CASE TargetFails(l)
    BY <1>1, <2>4 DEF TargetFails, Degrade
  <2> QED
    BY <2>1, <2>2, <2>3, <2>4 DEF Rollover
<1>3. CASE \E l \in Lanes : Start(l)
  <2>1. PICK l \in Lanes : Start(l)
    BY <1>3
  <2>2. CASE StageDone(l) \/ EnsureDone(l)
    BY <1>1, <2>2 DEF StageDone, EnsureDone, BeginTurn, Activated
  <2>3. CASE StartThrows(l) \/ TurnStartFails(l)
    BY <1>1, <2>3 DEF StartThrows, TurnStartFails, Degrade
  <2>4. CASE Accept(l) \/ TurnResponds(l)
    BY <2>4 DEF Accept, TurnResponds
  <2> QED
    BY <2>1, <2>2, <2>3, <2>4 DEF Start
<1>4. CASE Handle
  BY <1>1, <1>4 DEF Handle, DropEvent, ApplyUsage, ApplyTerminal, SettleTerminal
<1>5. CASE Delete \/ InterruptEnd
  BY <1>5 DEF Delete, DeleteStopped, DeleteEnd, InterruptEnd
<1>6. CASE \/ \E i \in Issues : StartThreadIssues(i)
           \/ ProcessIssueQueueOnce \/ CooldownExpires
           \/ \E p \in tomb : TombstoneExpires(p)
           \/ \E n \in DOMAIN turns : EndTurn(n) \/ \E level \in Levels \ {"low"} : Report(n, level)
           \/ UNCHANGED vars
  BY <1>6 DEF StartThreadIssues, ProcessIssueQueueOnce, CooldownExpires, TombstoneExpires,
     EndTurn, Report, vars
<1> QED
  BY <1>2, <1>3, <1>4, <1>5, <1>6 DEF Next

LEMMA CalmStep ==
  ASSUME IInv, IInv', LastWord, CalmInv, [Next]_vars
  PROVE  CalmInv'
<1>1. CASE \E i \in Issues : InterruptBegin(i)
  BY <1>1 DEF InterruptBegin, CalmInv, Calm
<1>2. CASE DeleteBegin
  <2>1. root'.deleted /\ stops' = stops
    BY <1>2 DEF DeleteBegin, IInv, Typed, RootOK
  <2> QED
    BY <2>1 DEF CalmInv, Calm
<1>3. CASE ~DeleteBegin /\ \A i \in Issues : ~InterruptBegin(i)
  <2>1. stops' = stops /\ root'.deleted = root.deleted
    BY <1>3, RegimeKept
  <2> SUFFICES ASSUME CalmState, ~root.deleted PROVE CalmState'
    BY <2>1 DEF CalmInv, Calm
  <2>2. CASE ProcessIssueQueueOnce
    BY <2>2, ProcessCalm
  <2>3. ASSUME NEW l \in Lanes, Rollover(l) PROVE CalmState'
    BY <2>3, TargetCreatedCalm, InterruptedCalm, GivenUpCalm DEF Rollover
  <2>4. ASSUME NEW l \in Lanes, Start(l) PROVE CalmState'
    BY <2>4, StageDoneCalm, EnsureDoneCalm, GivenUpCalm, AcceptCalm, RespondsCalm, StartFailsCalm
       DEF Start
  <2>5. CASE Handle
    BY <2>5, DropCalm, UsageCalm, TerminalCalm, SettleCalm DEF Handle
  <2>6. CASE Delete
    BY <2>6, Living DEF Delete, DeleteStopped, DeleteEnd
  <2>7. CASE InterruptEnd
    BY <2>7 DEF InterruptEnd, CalmState
  <2>8. CASE \E n \in DOMAIN turns : EndTurn(n) \/ \E level \in Levels \ {"low"} : Report(n, level)
    BY <2>8, ServerCalm
  <2>9. CASE \/ \E i \in Issues : StartThreadIssues(i)
             \/ CooldownExpires \/ \E p \in tomb : TombstoneExpires(p)
             \/ UNCHANGED vars
    <3>1. /\ tomb' \subseteq tomb
          /\ UNCHANGED <<root, phys, route, active, activeP, lane, stopped, stopping, turns, inbox>>
      BY <2>9 DEF StartThreadIssues, CooldownExpires, TombstoneExpires, vars
    <3> QED
      BY <3>1, QuietCalm
  <2> QED
    BY <1>3, <2>2, <2>3, <2>4, <2>5, <2>6, <2>7, <2>8, <2>9 DEF Next
<1> QED
  BY <1>1, <1>2, <1>3

\* The invariant is inductive, together with IInv and LastWord.
THEOREM CalmKept == Spec => [](IInv /\ LastWord /\ CalmInv)
<1>1. Init => IInv /\ LastWord /\ CalmInv
  BY InitIInv, InitLast, InitCalm
<1>2. IInv /\ LastWord /\ CalmInv /\ [Next]_vars => (IInv /\ LastWord /\ CalmInv)'
  BY NextIInv, LastStep, CalmStep
<1> QED
  BY <1>1, <1>2, PTL DEF Spec

\* Until the user first interrupts an issue, new work goes to one tail, however
\* many rollovers, failed requests and late reports there are: the active
\* physical thread is open, and no other open one keeps a Codex thread, except
\* the successor a rollover is about to switch to.
THEOREM TailUntilInterrupted == Spec => [](stops = 0 => OneTail)
<1>1. ASSUME CalmInv, stops = 0 PROVE OneTail
  BY <1>1 DEF CalmInv, Calm, CalmState, Bindings, OneTail
<1> QED
  BY <1>1, CalmKept, PTL

\* Without the command that interrupts an issue there always is one tail.
THEOREM OneTailKept ==
  ASSUME "interrupt" \notin Commands
  PROVE  Spec => []OneTail
<1>1. Init => stops = 0
  BY DEF Init
<1>2. ASSUME IInv, stops = 0, [Next]_vars PROVE stops' = 0
  <2>1. CASE DeleteBegin
    BY <1>2, <2>1 DEF DeleteBegin
  <2>2. CASE ~DeleteBegin
    <3>1. \A i \in Issues : ~InterruptBegin(i)
      BY DEF InterruptBegin
    <3> QED
      BY <1>2, <2>2, <3>1, RegimeKept
  <2> QED
    BY <2>1, <2>2
<1>3. Spec => [](stops = 0)
  <2>1. IInv /\ stops = 0 /\ [Next]_vars => (stops = 0)'
    BY <1>2
  <2> QED
    BY <1>1, <2>1, Inductive, PTL DEF Spec
<1> QED
  BY <1>3, TailUntilInterrupted, PTL

\* What a closed source still reports never ends the issue that continues on its
\* successor: as long as nothing has been interrupted, a turn/completed that ends
\* an issue is that of the last turn the issue was given.
THEOREM EndsItsOwn == Spec => EndsContinued
<1>1. ASSUME IInv, LastWord, CalmInv, NEW i \in Issues,
             ApplyTerminal, stops = 0, status[i] = "running", status'[i] = "ended"
      PROVE  /\ Head(inbox).turn \in TurnsOf(i)
             /\ \A n \in TurnsOf(i) : n <= Head(inbox).turn
  <2>1. PICK e \in ToSet(inbox) :
          /\ Take(e) /\ e.kind = "end" /\ ~Dropped(e)
          /\ LET j == IssueOn(Owner(turns[e.turn].codex))
             IN status' = IF j = NoIssue THEN status ELSE [status EXCEPT ![j] = "ended"]
    BY <1>1 DEF ApplyTerminal
  <2>2. ~root.deleted /\ CalmState
    BY <1>1, <2>1, KeptFacts DEF CalmInv, Calm
  <2>3. e = Head(inbox) /\ \E k \in DOMAIN inbox : inbox[k].turn = e.turn
    BY <2>1 DEF Take, ToSet
  <2>4. /\ e.turn \in DOMAIN turns /\ e.turn = Len(turns) /\ turns[e.turn].issue = active
        /\ IssueOn(Owner(turns[e.turn].codex)) = active
    BY <1>1, <2>1, <2>2, <2>3, HeardFacts
  <2>5. i = active
    BY <1>1, <2>1, <2>4 DEF IInv, Typed, CardsOK
  <2>6. DOMAIN turns = 1..Len(turns) /\ Len(turns) \in Nat
    BY <1>1, TurnFacts
  <2> QED
    BY <2>3, <2>4, <2>5, <2>6 DEF TurnsOf
<1>2. IInv /\ LastWord /\ CalmInv /\ [Next]_vars =>
        [\A i \in Issues :
           (ApplyTerminal /\ stops = 0 /\ status[i] = "running" /\ status'[i] = "ended")
             => Head(inbox).turn \in TurnsOf(i) /\ \A n \in TurnsOf(i) : n <= Head(inbox).turn]_vars
  BY <1>1
<1> QED
  BY <1>2, CalmKept, PTL DEF Spec, EndsContinued

-----------------------------------------------------------------------------
(***************************************************************************)
(* Nothing is stranded                                                     *)
(*                                                                         *)
(* As long as, besides, attachments can be prepared, an issue that runs is *)
(* being started or belongs to the turn that is still heard, and one whose *)
(* start is given up is still queued and goes back into the queue.         *)
(***************************************************************************)
Sure == Calm /\ faults["prepare"] = 0

Serves(i) ==
  \/ \E l \in Lanes : lane[l].issue = i /\ lane[l].pc \in {"interrupt", "stage", "ensure", "turn"}
  \/ \E n \in DOMAIN turns : Engages(n) /\ turns[n].issue = i
Driving == \A i \in Issues : status[i] = "running" => Serves(i)

Lining ==
  /\ \A m, n \in DOMAIN queue : queue[m] = queue[n] => m = n
  /\ \A k \in DOMAIN queue : status[queue[k]] = "queued"
  /\ \A l \in Lanes : lane[l].pc \in Requested =>
       /\ status[lane[l].issue] # "staged"
       /\ \A k \in DOMAIN queue : queue[k] # lane[l].issue
  /\ LET w == lane["pipeline"]
     IN w.pc = "create" \/ (w.kind = "plain" /\ w.pc \in {"stage", "ensure"})
          => status[w.issue] = "queued"
  /\ lane["handler"].pc \in Requested => lane["handler"].kind # "plain"
  /\ active # NoIssue => status[active] \notin {"queued", "staged"}

SureInv == faults \in [FaultKinds -> Nat] /\ (Sure => Lining /\ Driving)

LEMMA InitSure ==
  ASSUME Init
  PROVE  SureInv
<1>1. faults \in [FaultKinds -> Nat]
  BY DEF Init
<1>2. \A l \in Lanes : lane[l].pc = "idle"
  BY DEF Init, Idle
<1>3. Lining
  BY <1>2 DEF Init, Lining, Requested, Lanes
<1>4. Driving
  BY DEF Init, Driving
<1> QED
  BY <1>1, <1>3, <1>4 DEF SureInv

\* While a lane is at work no issue runs but its own.
LEMMA OnlyOne ==
  ASSUME IInv, CalmState, Driving, NEW l \in Lanes, lane[l].pc \in Requested,
         NEW i \in Issues, status[i] = "running"
  PROVE  i = lane[l].issue
<1>1. Serves(i)
  BY DEF Driving
<1>2. CASE \E m \in Lanes : lane[m].issue = i /\ lane[m].pc \in {"interrupt", "stage", "ensure", "turn"}
  BY <1>2 DEF CalmState, Solo, Requested
<1>3. CASE \E n \in DOMAIN turns : Engages(n) /\ turns[n].issue = i
  <2>1. active = i
    BY <1>3 DEF CalmState, Turning
  <2>2. active \in {NoIssue, lane[l].issue}
    BY DEF CalmState, Claim, Requested
  <2> QED
    BY <2>1, <2>2, NoIssueAssumption
<1> QED
  BY <1>1, <1>2, <1>3 DEF Serves

\* With nobody at work and no turn heard none runs.
LEMMA NoneRuns ==
  ASSUME IInv, CalmState, Driving, NoneEngages, \A l \in Lanes : lane[l].pc \in {"idle", "create", "sync"}
  PROVE  \A i \in Issues : status[i] # "running"
BY DEF Driving, Serves, NoneEngages

\* Nothing changes for the cards, the lanes or the turn that is heard.
LEMMA SameSure ==
  ASSUME IInv, CalmState, Lining, Driving,
         UNCHANGED <<status, queue>>,
         \A l \in Lanes : /\ lane'[l].pc = lane[l].pc /\ lane'[l].kind = lane[l].kind
                          /\ lane'[l].issue = lane[l].issue,
         active' \in {NoIssue, active},
         DOMAIN turns \subseteq DOMAIN turns',
         \A n \in DOMAIN turns : turns'[n].issue = turns[n].issue /\ (Engages(n) => Engages(n)')
  PROVE  Lining' /\ Driving'
<1>1. "pipeline" \in Lanes /\ "handler" \in Lanes
  BY DEF Lanes
<1>2. Lining'
  BY <1>1 DEF Lining
<1>3. ASSUME NEW i \in Issues, status'[i] = "running" PROVE Serves(i)'
  <2>1. Serves(i)
    BY <1>3 DEF Driving
  <2> QED
    BY <2>1 DEF Serves
<1> QED
  BY <1>2, <1>3 DEF Driving

\* The issue of the lane at work is noted as running.
LEMMA RunsSure ==
  ASSUME IInv, CalmState, Lining, Driving, NEW l \in Lanes, lane[l].pc \in Requested,
         UNCHANGED queue, status' = [status EXCEPT ![lane[l].issue] = "running"],
         NEW v, lane' = [lane EXCEPT ![l] = v],
         v.issue = lane[l].issue, v.kind = lane[l].kind, v.pc \in {"stage", "turn"},
         v.pc = "stage" => v.kind # "plain",
         active' \in {active, lane[l].issue}
  PROVE  Lining' /\ Driving'
<1>1. /\ lane'[l] = v
      /\ \A m \in Lanes \ {l} : lane'[m] = lane[m] /\ lane[m].pc = "idle"
  BY Alone DEF CalmState, Requested
<1>2. lane[l].issue \in Issues /\ "pipeline" \in Lanes /\ "handler" \in Lanes
  BY LaneFacts DEF WorkOK, Lanes
<1>3. \A i \in Issues : status'[i] = IF i = lane[l].issue THEN "running" ELSE status[i]
  BY <1>2 DEF IInv, Typed, CardsOK
<1>4. \A k \in DOMAIN queue : queue[k] \in Issues /\ queue[k] # lane[l].issue
  <2>1. queue \in Seq(Issues)
    BY DEF IInv, Typed, CardsOK
  <2>2. \A k \in DOMAIN queue : queue[k] \in Issues
    BY <2>1, ElementOfSeq, LenProperties
  <2> QED
    BY <2>2 DEF Lining
<1>5. \A k \in DOMAIN queue : status'[queue[k]] = "queued"
  BY <1>3, <1>4 DEF Lining
<1>6. active \in IssueOrNone
  BY DEF IInv, Typed, CardsOK
<1>7. active' # NoIssue => status'[active'] \notin {"queued", "staged"}
  BY <1>2, <1>3, <1>6 DEF Lining, IssueOrNone
<1>8. \A m \in Lanes : lane'[m].pc \in Requested => m = l
  BY <1>1 DEF Requested
<1>9. Lining'
  <2>1. \A m \in Lanes : lane'[m].pc \in Requested =>
          /\ status'[lane'[m].issue] # "staged"
          /\ \A k \in DOMAIN queue : queue[k] # lane'[m].issue
    BY <1>1, <1>2, <1>3, <1>4, <1>8
  <2>2. lane'["handler"].pc \in Requested => lane'["handler"].kind # "plain"
    BY <1>1, <1>2, <1>8 DEF Lining
  <2>3. /\ lane'["pipeline"].pc # "create"
        /\ ~(lane'["pipeline"].kind = "plain" /\ lane'["pipeline"].pc \in {"stage", "ensure"})
    BY <1>1, <1>2
  <2> QED
    BY <1>5, <1>7, <2>1, <2>2, <2>3 DEF Lining
<1>10. ASSUME NEW i \in Issues, status'[i] = "running" PROVE Serves(i)'
  <2>1. i = lane[l].issue
    BY <1>3, <1>10, OnlyOne
  <2> QED
    BY <1>1, <2>1 DEF Serves
<1> QED
  BY <1>9, <1>10 DEF Driving

\* All come to rest and none runs.
LEMMA RestSure ==
  ASSUME IInv, Lining, UNCHANGED queue,
         \A l \in Lanes : lane'[l].pc \notin Requested,
         NEW j, status' = status \/ status' = [status EXCEPT ![j] = "ended"],
         \A k \in DOMAIN queue : queue[k] # j,
         active' # NoIssue => status'[active'] \notin {"queued", "staged"},
         \A i \in Issues : status'[i] # "running"
  PROVE  Lining' /\ Driving'
<1>1. "pipeline" \in Lanes /\ "handler" \in Lanes
  BY DEF Lanes
<1>2. lane'["pipeline"].pc \notin Requested /\ lane'["handler"].pc \notin Requested
  BY <1>1
<1>3. \A k \in DOMAIN queue : queue[k] \in Issues
  <2>1. queue \in Seq(Issues)
    BY DEF IInv, Typed, CardsOK
  <2> QED
    BY <2>1, ElementOfSeq, LenProperties
<1>4. \A k \in DOMAIN queue : status'[queue[k]] = "queued"
  BY <1>3 DEF Lining, IInv, Typed, CardsOK
<1>5. Lining'
  BY <1>2, <1>4 DEF Lining, Requested
<1> QED
  BY <1>5 DEF Driving

\* The queue as a sequence.
LEMMA QueueFacts ==
  ASSUME IInv
  PROVE  /\ queue \in Seq(Issues) /\ Len(queue) \in Nat /\ DOMAIN queue = 1..Len(queue)
         /\ \A k \in DOMAIN queue : queue[k] \in Issues
         /\ status \in [Issues -> Statuses]
<1>1. queue \in Seq(Issues) /\ status \in [Issues -> Statuses]
  BY DEF IInv, Typed, CardsOK
<1>2. Len(queue) \in Nat /\ DOMAIN queue = 1..Len(queue)
  BY <1>1, LenProperties
<1> QED
  BY <1>1, <1>2, ElementOfSeq

LEMMA HeadTaken ==
  ASSUME IInv, queue # <<>>, queue' = Tail(queue)
  PROVE  /\ Head(queue) = queue[1] /\ 1 \in DOMAIN queue
         /\ \A k \in DOMAIN queue' : k + 1 \in DOMAIN queue /\ queue'[k] = queue[k + 1]
                                     /\ k + 1 # 1
         /\ \A k, m \in DOMAIN queue' : k + 1 = m + 1 => k = m
<1>1. /\ queue \in Seq(Issues) /\ Len(queue) \in Nat /\ DOMAIN queue = 1..Len(queue)
  BY QueueFacts
<1>2. /\ Head(queue) = queue[1] /\ Len(queue) # 0
      /\ DOMAIN queue' = 1..(Len(queue) - 1)
      /\ \A k \in 1..(Len(queue) - 1) : queue'[k] = queue[k + 1]
  <2>1. Len(queue) # 0
    BY <1>1, EmptySeq
  <2>2. /\ queue' \in Seq(Issues) /\ Len(queue') = Len(queue) - 1
        /\ \A k \in 1..Len(queue') : queue'[k] = queue[k + 1]
    BY <1>1, HeadTailProperties
  <2>3. DOMAIN queue' = 1..Len(queue')
    BY <2>2, LenProperties
  <2> QED
    BY <1>1, <2>1, <2>2, <2>3
<1> QED
  BY <1>1, <1>2

LEMMA HeadPut ==
  ASSUME IInv, NEW i \in Issues, queue' = <<i>> \o queue
  PROVE  \A k \in DOMAIN queue' :
           \/ k = 1 /\ queue'[k] = i
           \/ k - 1 \in DOMAIN queue /\ queue'[k] = queue[k - 1]
<1>1. /\ queue \in Seq(Issues) /\ Len(queue) \in Nat /\ DOMAIN queue = 1..Len(queue)
  BY QueueFacts
<1>2. <<i>> \in Seq(Issues) /\ Len(<<i>>) = 1 /\ <<i>>[1] = i
  OBVIOUS
<1>3. PICK s \in Seq(Issues) : s = <<i>>
  BY <1>2
<1>4. Len(s) = 1 /\ s[1] = i /\ queue' = s \o queue
  BY <1>2, <1>3
<1>5. /\ queue' \in Seq(Issues) /\ Len(queue') = Len(queue) + 1
      /\ \A k \in 1..(Len(queue) + 1) : queue'[k] = IF k <= 1 THEN s[k] ELSE queue[k - 1]
  <2>1. /\ s \o queue \in Seq(Issues) /\ Len(s \o queue) = Len(s) + Len(queue)
        /\ \A k \in 1..(Len(s) + Len(queue)) :
             (s \o queue)[k] = IF k <= Len(s) THEN s[k] ELSE queue[k - Len(s)]
    BY <1>1, <1>3, ConcatProperties
  <2> QED
    BY <1>1, <1>4, <2>1
<1>6. DOMAIN queue' = 1..(Len(queue) + 1)
  BY <1>1, <1>5, LenProperties
<1> QED
  BY <1>1, <1>4, <1>5, <1>6

LEMMA StagedSure ==
  ASSUME IInv, CalmState, Lining, Driving, NEW i \in Issues, StartThreadIssues(i)
  PROVE  Lining' /\ Driving'
<1>1. /\ status[i] = "staged" /\ status' = [status EXCEPT ![i] = "queued"]
      /\ queue' = Append(queue, i)
      /\ UNCHANGED <<root, phys, lane, active, turns, inbox>>
  BY DEF StartThreadIssues
<1>2. /\ queue \in Seq(Issues) /\ Len(queue) \in Nat /\ DOMAIN queue = 1..Len(queue)
      /\ \A k \in DOMAIN queue : queue[k] \in Issues /\ queue[k] # i
      /\ status \in [Issues -> Statuses]
  BY <1>1, QueueFacts DEF Lining
<1>3. /\ DOMAIN queue' = 1..(Len(queue) + 1)
      /\ \A k \in DOMAIN queue : queue'[k] = queue[k]
      /\ queue'[Len(queue) + 1] = i
      /\ \A k \in DOMAIN queue' : k \in DOMAIN queue \/ k = Len(queue) + 1
  <2>1. /\ queue' \in Seq(Issues) /\ Len(queue') = Len(queue) + 1
        /\ \A k \in 1..Len(queue) : queue'[k] = queue[k]
        /\ queue'[Len(queue) + 1] = i
    BY <1>1, <1>2, AppendProperties
  <2>2. DOMAIN queue' = 1..(Len(queue) + 1)
    BY <2>1, LenProperties
  <2> QED
    BY <1>2, <2>1, <2>2
<1>4. \A j \in Issues : status'[j] = IF j = i THEN "queued" ELSE status[j]
  BY <1>1, <1>2
<1>5. "pipeline" \in Lanes /\ "handler" \in Lanes
      /\ \A l \in Lanes : lane[l].pc \in Requested => lane[l].issue \in Issues /\ lane[l].issue # i
  BY <1>1, LaneFacts DEF Lining, WorkOK, Lanes
<1>6. Lining'
  <2>1. \A m, n \in DOMAIN queue' : queue'[m] = queue'[n] => m = n
    BY <1>2, <1>3 DEF Lining
  <2>2. \A k \in DOMAIN queue' : status'[queue'[k]] = "queued"
    BY <1>2, <1>3, <1>4 DEF Lining
  <2>3. \A l \in Lanes : lane[l].pc \in Requested =>
          /\ status'[lane[l].issue] # "staged"
          /\ \A k \in DOMAIN queue' : queue'[k] # lane[l].issue
    BY <1>3, <1>4, <1>5 DEF Lining
  <2>4. LET w == lane["pipeline"]
        IN w.pc = "create" \/ (w.kind = "plain" /\ w.pc \in {"stage", "ensure"})
             => status'[w.issue] = "queued"
    BY <1>4, <1>5 DEF Lining, Requested
  <2>5. active # NoIssue => status'[active] \notin {"queued", "staged"}
    BY <1>1, <1>4 DEF Lining, IInv, Typed, CardsOK, IssueOrNone
  <2> QED
    BY <1>1, <2>1, <2>2, <2>3, <2>4, <2>5 DEF Lining
<1>7. ASSUME NEW j \in Issues, status'[j] = "running" PROVE Serves(j)'
  <2>1. Serves(j)
    BY <1>4, <1>7 DEF Driving
  <2> QED
    BY <1>1, <2>1 DEF Serves, Engages, Speaks
<1> QED
  BY <1>6, <1>7 DEF Driving

LEMMA ProcessSure ==
  ASSUME IInv, CalmState, ~root.deleted, Lining, Driving, ProcessIssueQueueOnce
  PROVE  Lining' /\ Driving'
<1>1. /\ lane["pipeline"].pc = "idle" /\ queue # <<>> /\ active = NoIssue
      /\ UNCHANGED status
      /\ "pipeline" \in Lanes /\ "handler" \in Lanes
  BY DEF ProcessIssueQueueOnce, Lanes
<1>2. lane["handler"].pc = "idle"
  <2>1. Claim("handler") /\ lane["handler"].pc \in Pcs
        /\ (lane["handler"].pc \in Requested => lane["handler"].issue \in Issues)
    BY <1>1, LaneFacts DEF CalmState, WorkOK, Works
  <2>2. lane["handler"].pc \notin {"create", "interrupt", "stage", "ensure", "turn", "sync"}
    BY <1>1, <2>1, NoIssueAssumption DEF Claim, Requested
  <2> QED
    BY <2>1, <2>2 DEF Pcs
<1>3. \A m \in Lanes : lane[m].pc = "idle"
  BY <1>1, <1>2 DEF Lanes
<1>4. NoneEngages
  BY <1>1, TurnFacts, NoIssueAssumption DEF CalmState, Turning, NoneEngages
<1>5. \A i \in Issues : status[i] # "running"
  BY <1>3, <1>4, NoneRuns
<1>6. PICK i \in Issues : i = Head(queue)
  <2>1. Head(queue) \in Issues
    BY <1>1, QueueFacts, HeadTailProperties
  <2> QED
    BY <2>1
<1>7. PICK w : /\ lane' = [lane EXCEPT !["pipeline"] = w]
               /\ w.issue = i
               /\ w.pc = "create" \/ (w.pc = "stage" /\ w.kind = "plain")
  <2>1. \/ BeginRollover("pipeline", i, "preflight", phys)
        \/ StartPlain(i, ActivePhysical(phys))
    BY <1>5, <1>6 DEF ProcessIssueQueueOnce, Running
  <2>2. CASE BeginRollover("pipeline", i, "preflight", phys)
    <3>1. PICK w : w = [Idle EXCEPT !.pc = "create", !.kind = "preflight", !.issue = i,
                          !.p = Len(phys) + 1, !.src = ActivePhysical(phys),
                          !.cap = Fresh(root.seq + 1), !.turn = phys[ActivePhysical(phys)].turn]
      OBVIOUS
    <3>2. w.pc = "create" /\ w.issue = i
      BY <3>1 DEF Idle
    <3> QED
      BY <2>2, <3>1, <3>2 DEF BeginRollover
  <2>3. CASE StartPlain(i, ActivePhysical(phys))
    <3>1. PICK w : w = [Idle EXCEPT !.pc = "stage", !.issue = i, !.p = ActivePhysical(phys)]
      OBVIOUS
    <3>2. w.pc = "stage" /\ w.kind = "plain" /\ w.issue = i
      BY <3>1 DEF Idle
    <3> QED
      BY <2>3, <3>1, <3>2 DEF StartPlain
  <2> QED
    BY <2>1, <2>2, <2>3
<1>8. queue' = Tail(queue) /\ active' = NoIssue
  BY <1>1, <1>5 DEF ProcessIssueQueueOnce, Running
<1>9. /\ i = queue[1] /\ 1 \in DOMAIN queue
      /\ \A k \in DOMAIN queue' : k + 1 \in DOMAIN queue /\ queue'[k] = queue[k + 1] /\ k + 1 # 1
      /\ \A k, m \in DOMAIN queue' : k + 1 = m + 1 => k = m
  BY <1>1, <1>6, <1>8, HeadTaken
<1>10. status[i] = "queued" /\ \A k \in DOMAIN queue' : queue'[k] # i /\ status[queue'[k]] = "queued"
  BY <1>9 DEF Lining
<1>11. lane'["pipeline"] = w /\ \A m \in Lanes \ {"pipeline"} : lane'[m].pc = "idle"
  BY <1>1, <1>3, <1>7, Alone DEF CalmState
<1>12. \A m, n \in DOMAIN queue' : queue'[m] = queue'[n] => m = n
  BY <1>9 DEF Lining
<1>13. Lining'
  <2>1. \A m \in Lanes : lane'[m].pc \in Requested => m = "pipeline"
    BY <1>11 DEF Requested
  <2>2. \A m \in Lanes : lane'[m].pc \in Requested =>
          /\ status'[lane'[m].issue] # "staged"
          /\ \A k \in DOMAIN queue' : queue'[k] # lane'[m].issue
    BY <1>1, <1>7, <1>10, <1>11, <2>1
  <2> QED
    BY <1>1, <1>7, <1>8, <1>10, <1>11, <1>12, <2>1, <2>2 DEF Lining
<1>14. Driving'
  BY <1>1, <1>5 DEF Driving
<1> QED
  BY <1>13, <1>14

\* A lane at work goes on to its next request.
LEMMA MovesSure ==
  ASSUME IInv, CalmState, Lining, Driving, NEW l \in Lanes, lane[l].pc \in Requested,
         UNCHANGED <<status, queue, active>>,
         NEW v, lane' = [lane EXCEPT ![l] = v],
         v.issue = lane[l].issue, v.kind = lane[l].kind, v.pc \in {"interrupt", "ensure"},
         v.pc = "ensure" => lane[l].pc = "stage"
  PROVE  Lining' /\ Driving'
<1>1. /\ lane'[l] = v
      /\ \A m \in Lanes \ {l} : lane'[m] = lane[m] /\ lane[m].pc = "idle"
      /\ "pipeline" \in Lanes /\ "handler" \in Lanes
  <2>1. "pipeline" \in Lanes /\ "handler" \in Lanes
    BY DEF Lanes
  <2> QED
    BY <2>1, Alone DEF CalmState, Requested
<1>2. \A m \in Lanes : lane'[m].pc \in Requested => m = l
  BY <1>1 DEF Requested
<1>3. Lining'
  <2>1. \A m \in Lanes : lane'[m].pc \in Requested =>
          /\ status[lane'[m].issue] # "staged"
          /\ \A k \in DOMAIN queue : queue[k] # lane'[m].issue
    BY <1>1, <1>2 DEF Lining
  <2>2. lane'["handler"].pc \in Requested => lane'["handler"].kind # "plain"
    BY <1>1, <1>2 DEF Lining
  <2>3. LET w == lane'["pipeline"]
        IN w.pc = "create" \/ (w.kind = "plain" /\ w.pc \in {"stage", "ensure"})
             => status[w.issue] = "queued"
    <3>1. CASE l = "pipeline"
      BY <1>1, <3>1 DEF Lining
    <3>2. CASE l # "pipeline"
      BY <1>1, <3>2
    <3> QED
      BY <3>1, <3>2
  <2> QED
    BY <2>1, <2>2, <2>3 DEF Lining
<1>4. ASSUME NEW i \in Issues, status[i] = "running" PROVE Serves(i)'
  <2>1. i = lane[l].issue
    BY <1>4, OnlyOne
  <2> QED
    BY <1>1, <2>1 DEF Serves
<1> QED
  BY <1>3, <1>4 DEF Driving

\* A rollover switches to its successor.
LEMMA SwitchSure ==
  ASSUME IInv, CalmState, Lining, Driving, NEW l \in Lanes,
         lane[l].pc \in {"create", "interrupt"}, NEW ph, SwitchTo(l, ph),
         UNCHANGED <<queue, active>>
  PROVE  Lining' /\ Driving'
<1>1. PICK w : w = lane[l]
  OBVIOUS
<1>2. PICK v : v = [w EXCEPT !.pc = "stage"]
  OBVIOUS
<1>3. w \in Works /\ w.kind # "plain"
  BY <1>1, LaneFacts DEF WorkOK
<1>4. v.pc = "stage" /\ v.issue = w.issue /\ v.kind = w.kind
  BY <1>2, <1>3 DEF Works
<1>5. lane' = [lane EXCEPT ![l] = v] /\ status' = [status EXCEPT ![lane[l].issue] = "running"]
  BY <1>1, <1>2 DEF SwitchTo
<1>6. lane[l].pc \in Requested
  BY DEF Requested
<1>7. v.issue = lane[l].issue /\ v.kind = lane[l].kind /\ v.kind # "plain"
  BY <1>1, <1>3, <1>4
<1> QED
  BY <1>4, <1>5, <1>6, <1>7, RunsSure

LEMMA TargetCreatedSure ==
  ASSUME IInv, CalmState, Lining, Driving, NEW l \in Lanes, TargetCreated(l)
  PROVE  Lining' /\ Driving'
<1>1. PICK w : w = lane[l]
  OBVIOUS
<1>2. PICK bound : bound = [phys EXCEPT ![w.p] = [w.cap EXCEPT !.codex = Len(route) + 1]]
  OBVIOUS
<1>3. /\ lane[l].pc = "create" /\ UNCHANGED <<queue, active>>
      /\ \/ SwitchTo(l, bound)
         \/ lane' = [lane EXCEPT ![l].pc = "interrupt"] /\ UNCHANGED status
  BY <1>1, <1>2 DEF TargetCreated
<1>4. CASE SwitchTo(l, bound)
  BY <1>3, <1>4, SwitchSure
<1>5. CASE lane' = [lane EXCEPT ![l].pc = "interrupt"] /\ UNCHANGED status
  <2>1. PICK v : v = [w EXCEPT !.pc = "interrupt"]
    OBVIOUS
  <2>2. w \in Works
    BY <1>1, LaneFacts
  <2>3. v.pc = "interrupt" /\ v.issue = w.issue /\ v.kind = w.kind
    BY <2>1, <2>2 DEF Works
  <2>4. lane' = [lane EXCEPT ![l] = v]
    BY <1>1, <1>5, <2>1
  <2>5. lane[l].pc \in Requested
    BY <1>3 DEF Requested
  <2> QED
    BY <1>1, <1>3, <1>5, <2>3, <2>4, <2>5, MovesSure
<1> QED
  BY <1>3, <1>4, <1>5

LEMMA InterruptedSure ==
  ASSUME IInv, CalmState, Lining, Driving, NEW l \in Lanes,
         SourceInterrupted(l) \/ SourceInterruptFails(l)
  PROVE  Lining' /\ Driving'
<1>1. lane[l].pc = "interrupt" /\ SwitchTo(l, phys) /\ UNCHANGED <<queue, active>>
  BY DEF SourceInterrupted, SourceInterruptFails
<1> QED
  BY <1>1, SwitchSure

\* A turn is requested for the issue.
LEMMA BeginTurnSure ==
  ASSUME IInv, CalmState, Lining, Driving, NEW l \in Lanes, lane[l].pc \in {"stage", "ensure"},
         NEW ph, NEW act, BeginTurn(l, ph, act), UNCHANGED queue
  PROVE  Lining' /\ Driving'
<1>1. PICK w : w = lane[l]
  OBVIOUS
<1>2. PICK v : v = [w EXCEPT !.pc = "turn", !.turn = 0, !.cap = ph[w.p]]
  OBVIOUS
<1>3. w \in Works
  BY <1>1, LaneFacts
<1>4. v.pc = "turn" /\ v.issue = lane[l].issue /\ v.kind = lane[l].kind
  BY <1>1, <1>2, <1>3 DEF Works
<1>5. /\ lane' = [lane EXCEPT ![l] = v]
      /\ status' = [status EXCEPT ![lane[l].issue] = "running"]
      /\ active' = lane[l].issue
  BY <1>1, <1>2 DEF BeginTurn
<1>6. lane[l].pc \in Requested
  BY DEF Requested
<1> QED
  BY <1>4, <1>5, <1>6, RunsSure

LEMMA StageDoneSure ==
  ASSUME IInv, CalmState, Lining, Driving, NEW l \in Lanes, StageDone(l)
  PROVE  Lining' /\ Driving'
<1>1. PICK w : w = lane[l]
  OBVIOUS
<1>2. PICK v : v = [w EXCEPT !.pc = "ensure", !.cap = phys[w.p], !.was = (root.active = w.p)]
  OBVIOUS
<1>3. /\ lane[l].pc = "stage" /\ UNCHANGED queue
      /\ \/ BeginTurn(l, phys, FALSE)
         \/ lane' = [lane EXCEPT ![l] = v] /\ UNCHANGED <<status, active>>
  BY <1>1, <1>2 DEF StageDone
<1>4. CASE BeginTurn(l, phys, FALSE)
  BY <1>3, <1>4, BeginTurnSure
<1>5. CASE lane' = [lane EXCEPT ![l] = v] /\ UNCHANGED <<status, active>>
  <2>1. w \in Works
    BY <1>1, LaneFacts
  <2>2. v.pc = "ensure" /\ v.issue = lane[l].issue /\ v.kind = lane[l].kind
    BY <1>1, <1>2, <2>1 DEF Works
  <2>3. lane[l].pc \in Requested
    BY <1>3 DEF Requested
  <2> QED
    BY <1>3, <1>5, <2>2, <2>3, MovesSure
<1> QED
  BY <1>3, <1>4, <1>5

LEMMA EnsureDoneSure ==
  ASSUME IInv, CalmState, Lining, Driving, NEW l \in Lanes, EnsureDone(l)
  PROVE  Lining' /\ Driving'
<1>1. PICK ph : ph = [phys EXCEPT ![lane[l].p] = [lane[l].cap EXCEPT !.codex = Len(route) + 1]]
  OBVIOUS
<1>2. lane[l].pc = "ensure" /\ BeginTurn(l, ph, lane[l].was) /\ UNCHANGED queue
  BY <1>1 DEF EnsureDone
<1> QED
  BY <1>2, BeginTurnSure

LEMMA AcceptSure ==
  ASSUME IInv, IInv', LastWord, CalmState, Lining, Driving, NEW l \in Lanes, Accept(l)
  PROVE  Lining' /\ Driving'
<1>1. PICK w : w = lane[l]
  OBVIOUS
<1>2. PICK v : v = [w EXCEPT !.turn = Len(turns) + 1]
  OBVIOUS
<1>3. PICK t : t = [codex |-> w.cap.codex, issue |-> w.issue, live |-> TRUE]
  OBVIOUS
<1>4. /\ turns' = Append(turns, t) /\ lane' = [lane EXCEPT ![l] = v]
      /\ UNCHANGED <<root, phys, status, queue, active, inbox>>
  BY <1>1, <1>2, <1>3 DEF Accept
<1>5. w \in Works /\ t.live
  BY <1>1, <1>3, LaneFacts
<1>6. v.pc = w.pc /\ v.kind = w.kind /\ v.issue = w.issue
  BY <1>2, <1>5 DEF Works
<1>7. \A m \in Lanes : lane'[m] = IF m = l THEN v ELSE lane[m]
  BY <1>4, LaneFacts
<1>8. \A m \in Lanes : /\ lane'[m].pc = lane[m].pc /\ lane'[m].kind = lane[m].kind
                       /\ lane'[m].issue = lane[m].issue
  BY <1>1, <1>6, <1>7
<1>9. /\ DOMAIN turns' = 1..(Len(turns) + 1)
      /\ \A m \in DOMAIN turns : turns'[m] = turns[m] /\ (Speaks(m)' <=> Speaks(m))
      /\ DOMAIN turns = 1..Len(turns) /\ Len(turns) \in Nat
  BY <1>4, <1>5, AcceptedTurn, TurnFacts
<1>10. DOMAIN turns \subseteq DOMAIN turns'
  BY <1>9
<1>11. \A n \in DOMAIN turns : turns'[n].issue = turns[n].issue /\ (Engages(n) => Engages(n)')
  BY <1>4, <1>9 DEF Engages
<1> QED
  BY <1>4, <1>8, <1>10, <1>11, SameSure

\* turn/start is answered: the issue runs with the turn it was given.
LEMMA RespondsSure ==
  ASSUME IInv, CalmState, ~root.deleted, Lining, Driving, NEW l \in Lanes, TurnResponds(l)
  PROVE  Lining' /\ Driving'
<1>1. PICK a : a = root.active
  OBVIOUS
<1>2. PICK w : w = lane[l]
  OBVIOUS
<1>3. PICK r : r = [phys[a] EXCEPT !.turn = w.turn]
  OBVIOUS
<1>4. /\ w.pc = "turn" /\ w.turn # 0
      /\ phys' = [phys EXCEPT ![w.p].turn = w.turn]
      /\ status' = [status EXCEPT ![w.issue] = "running"]
      /\ lane' = [lane EXCEPT ![l] = Idle]
      /\ UNCHANGED <<root, queue, active, turns, inbox>>
  BY <1>2 DEF TurnResponds
<1>5. /\ w.p = a /\ active = w.issue
      /\ Engages(w.turn) /\ turns[w.turn].issue = w.issue
  BY <1>1, <1>2, <1>4 DEF CalmState, Place, Claim, Talk
<1>6. /\ w.issue \in Issues /\ w.turn \in DOMAIN turns
      /\ phys[a] \in PhysicalThreads /\ a \in DOMAIN phys
      /\ "pipeline" \in Lanes /\ "handler" \in Lanes
  <2>1. /\ WorkOK(w, Len(phys), Len(route), Len(turns))
        /\ DOMAIN turns = 1..Len(turns) /\ Len(turns) \in Nat
        /\ a \in 1..Len(phys) /\ DOMAIN phys = 1..Len(phys)
    BY <1>1, <1>2, LaneFacts, TurnFacts, Living
  <2>2. phys[a] \in PhysicalThreads
    BY <2>1 DEF IInv, Typed, PhysOK, Refers
  <2> QED
    BY <1>4, <2>1, <2>2 DEF WorkOK, Requested, Lanes
<1>7. phys'[a] = r /\ r.codex = phys[a].codex
  <2>1. phys' = [phys EXCEPT ![a] = r]
    BY <1>3, <1>4, <1>5
  <2> QED
    BY <1>3, <1>6, <2>1 DEF PhysicalThreads
<1>8. Engages(w.turn)'
  BY <1>1, <1>4, <1>5, <1>7 DEF Engages, Speaks
<1>9. \A i \in Issues : status'[i] = IF i = w.issue THEN "running" ELSE status[i]
  BY <1>4, <1>6, QueueFacts
<1>10. lane[l].pc \in Requested
  BY <1>2, <1>4 DEF Requested
<1>11. \A m \in Lanes : lane'[m].pc = "idle"
  <2>1. Idle.pc = "idle"
    BY DEF Idle
  <2>2. lane'[l] = Idle /\ \A m \in Lanes \ {l} : lane'[m] = lane[m] /\ lane[m].pc = "idle"
    BY <1>2, <1>4, Alone DEF CalmState
  <2> QED
    BY <2>1, <2>2
<1>12. \A k \in DOMAIN queue : queue[k] \in Issues /\ queue[k] # w.issue
  BY <1>2, <1>10, QueueFacts DEF Lining
<1>13. Lining'
  <2>1. lane'["pipeline"].pc = "idle" /\ lane'["handler"].pc = "idle"
    BY <1>6, <1>11
  <2>2. \A k \in DOMAIN queue : status'[queue[k]] = "queued"
    BY <1>9, <1>12 DEF Lining
  <2>3. status'[active] \notin {"queued", "staged"}
    BY <1>5, <1>6, <1>9
  <2> QED
    BY <1>4, <1>11, <2>1, <2>2, <2>3 DEF Lining, Requested
<1>14. ASSUME NEW i \in Issues, status'[i] = "running" PROVE Serves(i)'
  <2>1. i = w.issue
    BY <1>2, <1>9, <1>10, <1>14, OnlyOne
  <2> QED
    BY <1>4, <1>5, <1>6, <1>8, <2>1 DEF Serves
<1> QED
  BY <1>13, <1>14 DEF Driving

\* turn/start fails: its issue ends, and no other one was running.
LEMMA StartFailsSure ==
  ASSUME IInv, CalmState, Lining, Driving, NEW l \in Lanes, TurnStartFails(l)
  PROVE  Lining' /\ Driving'
<1>1. /\ lane[l].pc = "turn" /\ lane' = [lane EXCEPT ![l] = Idle]
      /\ status' = [status EXCEPT ![lane[l].issue] = "ended"]
      /\ active' = NoIssue /\ UNCHANGED queue
  BY DEF TurnStartFails
<1>2. lane[l].pc \in Requested /\ lane[l].issue \in Issues
  BY <1>1, LaneFacts DEF WorkOK, Requested
<1>3. \A m \in Lanes : lane'[m].pc \notin Requested
  <2>1. Idle.pc \notin Requested /\ "idle" \notin Requested
    BY DEF Idle, Requested
  <2>2. lane'[l] = Idle /\ \A m \in Lanes \ {l} : lane'[m] = lane[m] /\ lane[m].pc = "idle"
    BY <1>1, Alone DEF CalmState
  <2> QED
    BY <2>1, <2>2
<1>4. \A i \in Issues : status'[i] = IF i = lane[l].issue THEN "ended" ELSE status[i]
  BY <1>1, <1>2, QueueFacts
<1>5. \A i \in Issues : status'[i] # "running"
  BY <1>2, <1>4, OnlyOne
<1>6. \A k \in DOMAIN queue : queue[k] # lane[l].issue
  BY <1>2 DEF Lining
<1> QED
  BY <1>1, <1>3, <1>5, <1>6, RestSure

\* A start or a rollover is given up before its turn is requested: a queued issue
\* goes back to the head of the queue, another one keeps its turn.
LEMMA GivenUpSure ==
  ASSUME IInv, CalmState, ~root.deleted, Lining, Driving, NEW l \in Lanes,
         lane[l].pc \in {"create", "ensure"}, TargetFails(l) \/ StartThrows(l)
  PROVE  Lining' /\ Driving'
<1>1. /\ UNCHANGED <<status, phys, active, turns, inbox>> /\ Restore(l) /\ Degrade(l)
      /\ lane' = [lane EXCEPT ![l] = Idle]
  BY DEF TargetFails, StartThrows
<1>2. lane[l].pc \in Requested /\ lane[l].issue \in Issues
      /\ "pipeline" \in Lanes /\ "handler" \in Lanes
  BY LaneFacts DEF WorkOK, Requested, Lanes
<1>3. \A m \in Lanes : lane'[m].pc = "idle" /\ (m # l => lane[m].pc = "idle")
  <2>1. Idle.pc = "idle"
    BY DEF Idle
  <2>2. lane'[l] = Idle /\ \A m \in Lanes \ {l} : lane'[m] = lane[m] /\ lane[m].pc = "idle"
    BY <1>1, Alone DEF CalmState
  <2> QED
    BY <2>1, <2>2
<1>4. root'.active = root.active
  BY <1>1 DEF Degrade, IInv, Typed, RootOK
<1>5. \A k \in DOMAIN queue' :
        \/ k \in DOMAIN queue /\ queue' = queue
        \/ /\ status[lane[l].issue] = "queued"
           /\ k = 1 /\ queue'[k] = lane[l].issue
        \/ /\ queue' # queue
           /\ k - 1 \in DOMAIN queue /\ queue'[k] = queue[k - 1]
  <2>1. CASE queue' = queue
    BY <2>1
  <2>2. CASE queue' # queue
    <3>1. status[lane[l].issue] = "queued" /\ queue' = <<lane[l].issue>> \o queue
      BY <1>1, <2>2 DEF Restore
    <3>2. \A k \in DOMAIN queue' :
            \/ k = 1 /\ queue'[k] = lane[l].issue
            \/ k - 1 \in DOMAIN queue /\ queue'[k] = queue[k - 1]
      BY <1>2, <3>1, HeadPut
    <3> QED
      BY <2>2, <3>1, <3>2
  <2> QED
    BY <2>1, <2>2
<1>6. \A k \in DOMAIN queue : queue[k] # lane[l].issue
  BY <1>2 DEF Lining
<1>7. Lining'
  <2>1. \A m, n \in DOMAIN queue' : queue'[m] = queue'[n] => m = n
    <3>1. DOMAIN queue = 1..Len(queue) /\ Len(queue) \in Nat
      BY QueueFacts
    <3>2. CASE queue' = queue
      BY <3>2 DEF Lining
    <3>3. CASE queue' # queue
      <4>1. queue' = <<lane[l].issue>> \o queue
        BY <1>1, <3>3 DEF Restore
      <4>2. queue' \in Seq(Issues)
        <5>1. <<lane[l].issue>> \in Seq(Issues) /\ queue \in Seq(Issues)
          BY <1>2, QueueFacts
        <5> QED
          BY <4>1, <5>1, ConcatProperties
      <4>3. DOMAIN queue' = 1..Len(queue') /\ Len(queue') \in Nat
        BY <4>2, LenProperties
      <4>4. \A k \in DOMAIN queue' :
              \/ k = 1 /\ queue'[k] = lane[l].issue
              \/ k - 1 \in DOMAIN queue /\ queue'[k] = queue[k - 1]
        BY <1>5, <3>3
      <4> QED
        BY <1>6, <3>1, <4>3, <4>4 DEF Lining
    <3> QED
      BY <3>2, <3>3
  <2>2. \A k \in DOMAIN queue' : status[queue'[k]] = "queued"
    BY <1>5 DEF Lining
  <2> QED
    BY <1>1, <1>2, <1>3, <2>1, <2>2 DEF Lining, Requested
<1>8. ASSUME NEW i \in Issues, status[i] = "running" PROVE Serves(i)'
  <2>1. i = lane[l].issue
    BY <1>2, <1>8, OnlyOne
  <2>2. lane[l].pc = "create"
    <3> SUFFICES ASSUME lane[l].pc = "ensure" PROVE FALSE
      OBVIOUS
    <3>1. lane[l].kind = "plain"
      BY DEF CalmState, Place
    <3>2. l = "pipeline"
      BY <1>2, <3>1 DEF Lining, Lanes
    <3> QED
      BY <1>8, <2>1, <3>1, <3>2 DEF Lining
  <2>3. PICK n \in DOMAIN turns : Engages(n) /\ turns[n].issue = i
    BY <1>3, <1>8, <2>2 DEF Driving, Serves
  <2>4. Engages(n)'
    BY <1>1, <1>4, <2>3 DEF Engages, Speaks
  <2> QED
    BY <1>1, <2>3, <2>4 DEF Serves
<1> QED
  BY <1>1, <1>7, <1>8 DEF Driving

\* A notification that is dropped is not of the turn that is heard.
LEMMA DropSure ==
  ASSUME IInv, IInv', LastWord, CalmState, ~root.deleted, Lining, Driving, DropEvent
  PROVE  Lining' /\ Driving'
<1>1. PICK e : Take(e) /\ Dropped(e)
  BY DEF DropEvent
<1>2. UNCHANGED <<root, phys, lane, status, queue, active, turns>>
  BY DEF DropEvent
<1>3. /\ e.turn \in DOMAIN turns
      /\ \A n \in DOMAIN turns : n # e.turn => (Speaks(n)' <=> Speaks(n))
  BY <1>1, <1>2, TakenTurn
<1>4. ~Engages(e.turn)
  <2> SUFFICES ASSUME Engages(e.turn) PROVE FALSE
    OBVIOUS
  <2>1. PICK c : c = turns[e.turn].codex
    OBVIOUS
  <2>2. /\ c = phys[root.active].codex /\ c # NoThread
        /\ root.active \in 1..Len(phys) /\ root.active # NoThread
    BY <1>3, <2>1, TurnFacts, Living DEF Engages, NoThread
  <2>3. route[c] = root.active /\ root.active \notin tomb /\ Open(phys, root.active)
    BY <2>2 DEF CalmState, Bindings
  <2>4. Owner(c) = root.active
    BY <2>2, <2>3 DEF Owner
  <2>5. LocallyStopped(e, root.active) \/ DropClosed(root.active)
    BY <1>1, <2>1, <2>2, <2>4 DEF Dropped
  <2> QED
    BY <2>3, <2>5 DEF LocallyStopped, DropClosed, CalmState
<1>5. \A n \in DOMAIN turns : turns'[n].issue = turns[n].issue /\ (Engages(n) => Engages(n)')
  BY <1>2, <1>3, <1>4 DEF Engages
<1> QED
  BY <1>2, <1>5, SameSure

\* A usage report leaves the turn that reports in place; a rollover that begins
\* is for the issue of that turn.
LEMMA UsageSure ==
  ASSUME IInv, IInv', LastWord, CalmState, ~root.deleted, Lining, Driving, ApplyUsage
  PROVE  Lining' /\ Driving'
<1>1. PICK e \in ToSet(inbox) :
        LET p == Owner(turns[e.turn].codex)
            noted == [phys EXCEPT ![p].usage = e.level]
        IN /\ Take(e)
           /\ e.kind = "usage" /\ ~Dropped(e)
           /\ root' = [root EXCEPT !.degraded = FALSE]
           /\ IF noted[ActivePhysical(noted)].usage = "full" /\ CanRollOver(IssueOn(p), noted)
              THEN BeginRollover("handler", IssueOn(p), "runtime", noted)
              ELSE /\ phys' = noted
                   /\ UNCHANGED <<activeP, lock, lane>>
  BY DEF ApplyUsage
<1>2. UNCHANGED <<status, queue, active, turns>> /\ Take(e) /\ ~Dropped(e) /\ e.kind # "end"
  BY <1>1 DEF ApplyUsage
<1>3. Speaks(e.turn)' /\ \E k \in DOMAIN inbox : inbox[k].turn = e.turn
  BY <1>2, TakenTurn
<1>4. /\ Owner(turns[e.turn].codex) = root.active
      /\ e.turn \in DOMAIN turns /\ Engages(e.turn) /\ turns[e.turn].issue = active
      /\ active \in Issues /\ IssueOn(root.active) = active
      /\ \A l \in Lanes : lane[l].pc = "idle"
  BY <1>2, <1>3, HeardFacts
<1>5. PICK r : r = [phys[root.active] EXCEPT !.usage = e.level]
  OBVIOUS
<1>6. PICK noted : Rewritten(noted, phys, root.active, r)
  BY DEF Rewritten
<1>7. \/ BeginRollover("handler", active, "runtime", noted)
      \/ phys' = noted /\ UNCHANGED lane
  BY <1>1, <1>4, <1>5, <1>6 DEF Rewritten
<1>8. root'.active = root.active
  BY <1>1 DEF IInv, Typed, RootOK
<1>9. /\ DOMAIN phys = 1..Len(phys) /\ root.active \in 1..Len(phys)
      /\ PhysOK(phys, Len(route), Len(turns)) /\ phys[root.active] \in PhysicalThreads
      /\ Refers(phys[root.active], Len(route), Len(turns))
  BY Living DEF IInv, Typed, PhysOK, Refers
<1>10. Refers(r, Len(route), Len(turns)) /\ r.codex = phys[root.active].codex
  <2>1. e.level \in Levels
    BY <1>2, TakeFacts
  <2> QED
    BY <1>5, <1>9, <2>1 DEF Refers, PhysicalThreads
<1>11. /\ noted \in Seq(PhysicalThreads) /\ DOMAIN noted = 1..Len(noted) /\ Len(noted) \in Nat
       /\ root.active \in 1..Len(noted)
       /\ noted[root.active].codex = phys[root.active].codex
  <2>1. /\ PhysOK(noted, Len(route), Len(turns)) /\ Len(noted) = Len(phys)
        /\ noted[root.active] = r
    BY <1>6, <1>9, <1>10, PhysChanged
  <2>2. noted \in Seq(PhysicalThreads)
    BY <2>1 DEF PhysOK
  <2>3. DOMAIN noted = 1..Len(noted) /\ Len(noted) \in Nat
    BY <2>2, LenProperties
  <2> QED
    BY <1>9, <1>10, <2>1, <2>2, <2>3
<1>12. phys'[root.active].codex = phys[root.active].codex
  <2>1. CASE phys' = noted
    BY <1>11, <2>1
  <2>2. CASE BeginRollover("handler", active, "runtime", noted)
    <3>1. PICK f \in PhysicalThreads : phys' = Append(noted, f)
      <4>1. root.seq + 1 \in Nat
        BY DEF IInv, Typed, RootOK
      <4>2. Fresh(root.seq + 1) \in PhysicalThreads
        BY <4>1 DEF Fresh, PhysicalThreads, Levels, NoThread
      <4> QED
        BY <2>2, <4>2 DEF BeginRollover
    <3>2. phys'[root.active] = noted[root.active]
      BY <1>11, <3>1, AppendProperties
    <3> QED
      BY <1>11, <3>2
  <2> QED
    BY <1>7, <2>1, <2>2
<1>13. Engages(e.turn)'
  BY <1>2, <1>3, <1>4, <1>8, <1>12 DEF Engages
<1>14. Driving'
  <2> SUFFICES ASSUME NEW i \in Issues, status[i] = "running" PROVE Serves(i)'
    BY <1>2 DEF Driving
  <2>1. PICK n \in DOMAIN turns : Engages(n) /\ turns[n].issue = i
    BY <1>4 DEF Driving, Serves
  <2>2. i = active
    BY <2>1 DEF CalmState, Turning
  <2> QED
    BY <1>2, <1>4, <1>13, <2>2 DEF Serves
<1>15. /\ "pipeline" \in Lanes /\ "handler" \in Lanes
       /\ status[active] \notin {"queued", "staged"}
       /\ \A k \in DOMAIN queue : queue[k] # active
  BY <1>4, NoIssueAssumption DEF Lining, Lanes
<1>16. Lining'
  <2>1. CASE UNCHANGED lane
    BY <1>2, <2>1 DEF Lining
  <2>2. CASE BeginRollover("handler", active, "runtime", noted)
    <3>1. PICK v : /\ lane' = [lane EXCEPT !["handler"] = v]
                   /\ v.pc = "create" /\ v.kind = "runtime" /\ v.issue = active
      <4>1. PICK v : v = [Idle EXCEPT !.pc = "create", !.kind = "runtime", !.issue = active,
                            !.p = Len(noted) + 1, !.src = ActivePhysical(noted),
                            !.cap = Fresh(root.seq + 1),
                            !.turn = noted[ActivePhysical(noted)].turn]
        OBVIOUS
      <4>2. v.pc = "create" /\ v.kind = "runtime" /\ v.issue = active
        BY <4>1 DEF Idle
      <4> QED
        BY <2>2, <4>1, <4>2 DEF BeginRollover
    <3>2. lane'["handler"] = v /\ lane'["pipeline"].pc = "idle"
          /\ \A m \in Lanes : m # "handler" => lane'[m].pc = "idle"
      BY <1>4, <1>15, <3>1, LaneFacts
    <3>3. \A m \in Lanes : lane'[m].pc \in Requested =>
            /\ status[lane'[m].issue] # "staged"
            /\ \A k \in DOMAIN queue : queue[k] # lane'[m].issue
      BY <1>15, <3>1, <3>2 DEF Requested
    <3> QED
      BY <1>2, <3>1, <3>2, <3>3 DEF Lining
  <2> QED
    BY <1>7, <2>1, <2>2
<1> QED
  BY <1>14, <1>16

\* The one turn that is heard ends, and its issue with it.
LEMMA TerminalSure ==
  ASSUME IInv, LastWord, CalmState, ~root.deleted, Lining, Driving, ApplyTerminal, IInv'
  PROVE  Lining' /\ Driving'
<1>1. PICK e \in ToSet(inbox) :
        LET p == Owner(turns[e.turn].codex)
            i == IssueOn(p)
        IN /\ Take(e)
           /\ e.kind = "end" /\ ~Dropped(e)
           /\ status' = IF i = NoIssue THEN status ELSE [status EXCEPT ![i] = "ended"]
           /\ lane' = [lane EXCEPT !["handler"] = [Idle EXCEPT !.pc = "sync", !.p = p]]
  BY DEF ApplyTerminal
<1>2. UNCHANGED <<queue, active, turns>> /\ Take(e) /\ ~Dropped(e)
  BY <1>1 DEF ApplyTerminal
<1>3. \E k \in DOMAIN inbox : inbox[k].turn = e.turn
  BY <1>2, TakenCalm
<1>4. /\ Owner(turns[e.turn].codex) = root.active
      /\ active \in Issues /\ IssueOn(root.active) = active
      /\ \A l \in Lanes : lane[l].pc = "idle"
  BY <1>2, <1>3, HeardFacts
<1>5. PICK v : v = [Idle EXCEPT !.pc = "sync", !.p = root.active]
  OBVIOUS
<1>6. v.pc = "sync" /\ lane' = [lane EXCEPT !["handler"] = v]
  BY <1>1, <1>4, <1>5 DEF Idle
<1>7. status' = [status EXCEPT ![active] = "ended"]
  BY <1>1, <1>4, NoIssueAssumption
<1>8. \A m \in Lanes : lane'[m].pc \notin Requested
  <2>1. \A m \in Lanes : lane'[m] = IF m = "handler" THEN v ELSE lane[m]
    BY <1>6, LaneFacts
  <2> QED
    BY <1>4, <1>6, <2>1 DEF Requested
<1>9. \A i \in Issues : status'[i] = IF i = active THEN "ended" ELSE status[i]
  BY <1>4, <1>7, QueueFacts
<1>10. \A i \in Issues : status'[i] # "running"
  BY <1>4, <1>9 DEF Driving, Serves, CalmState, Turning
<1>11. \A k \in DOMAIN queue : queue[k] # active
  BY <1>4, NoIssueAssumption DEF Lining
<1>12. UNCHANGED queue /\ (active' # NoIssue => status'[active'] \notin {"queued", "staged"})
  BY <1>2, <1>4, <1>9
<1>13. status' = status \/ status' = [status EXCEPT ![active] = "ended"]
  BY <1>7
<1> QED
  BY <1>8, <1>10, <1>11, <1>12, <1>13, RestSure

\* thread/read has answered: nothing is tracked any longer, and nothing ran.
LEMMA SettleSure ==
  ASSUME IInv, CalmState, Lining, Driving, SettleTerminal
  PROVE  Lining' /\ Driving'
<1>1. /\ lane["handler"].pc = "sync" /\ active' = NoIssue
      /\ lane' = [lane EXCEPT !["handler"] = Idle]
      /\ UNCHANGED <<status, queue>>
      /\ "handler" \in Lanes
  BY DEF SettleTerminal, Lanes
<1>2. \A m \in Lanes : lane'[m].pc \notin Requested /\ lane[m].pc \in {"idle", "sync"}
  <2>1. Idle.pc \notin Requested /\ "idle" \notin Requested
    BY DEF Idle, Requested
  <2>2. lane'["handler"] = Idle
        /\ \A m \in Lanes \ {"handler"} : lane'[m] = lane[m] /\ lane[m].pc = "idle"
    BY <1>1, Alone DEF CalmState
  <2> QED
    BY <1>1, <2>1, <2>2
<1>3. NoneEngages
  BY <1>1 DEF CalmState, Talk
<1>4. \A i \in Issues : status'[i] # "running"
  BY <1>1, <1>2, <1>3, NoneRuns
<1>5. \A k \in DOMAIN queue : queue[k] # NoIssue
  BY QueueFacts, NoIssueAssumption
<1> QED
  BY <1>1, <1>2, <1>4, <1>5, RestSure

\* app-server ends a turn or reports of it: the last word on it is still to come.
LEMMA ServerSure ==
  ASSUME IInv, IInv', LastWord, CalmState, Lining, Driving, NEW n \in DOMAIN turns,
         EndTurn(n) \/ \E level \in Levels : Report(n, level)
  PROVE  Lining' /\ Driving'
<1>1. UNCHANGED <<root, phys, lane, status, queue, active>>
  BY DEF EndTurn, Report
<1>2. SameTurns /\ \A m \in DOMAIN turns : Speaks(m)' <=> Speaks(m)
  BY EndedTurn, ReportedTurn DEF EndTurn
<1>3. \A m \in DOMAIN turns : turns'[m].issue = turns[m].issue /\ (Engages(m) => Engages(m)')
  BY <1>1, <1>2 DEF SameTurns, Engages
<1>4. DOMAIN turns \subseteq DOMAIN turns'
  BY <1>2 DEF SameTurns
<1> QED
  BY <1>1, <1>3, <1>4, SameSure

\* Failures are only counted up.
LEMMA FaultsCounted ==
  ASSUME [Next]_vars, faults \in [FaultKinds -> Nat]
  PROVE  /\ faults' \in [FaultKinds -> Nat]
         /\ faults'["prepare"] = 0 => faults["prepare"] = 0
<1>1. UNCHANGED faults \/ \E k \in Faults : Fail(k)
  <2>1. CASE \E i \in Issues : StartThreadIssues(i) \/ InterruptBegin(i)
    BY <2>1 DEF StartThreadIssues, InterruptBegin
  <2>2. CASE ProcessIssueQueueOnce
    BY <2>2 DEF ProcessIssueQueueOnce
  <2>3. CASE \E l \in Lanes : Rollover(l)
    BY <2>3 DEF Rollover, TargetCreated, SourceInterrupted, SourceInterruptFails, TargetFails, Fail
  <2>4. CASE \E l \in Lanes : Start(l)
    BY <2>4 DEF Start, StageDone, EnsureDone, StartThrows, Accept, TurnResponds, TurnStartFails, Fail
  <2>5. CASE CooldownExpires \/ \E p \in tomb : TombstoneExpires(p)
    BY <2>5 DEF CooldownExpires, TombstoneExpires
  <2>6. CASE Handle
    BY <2>6 DEF Handle, DropEvent, ApplyUsage, ApplyTerminal, SettleTerminal
  <2>7. CASE DeleteBegin \/ Delete \/ InterruptEnd
    BY <2>7 DEF DeleteBegin, Delete, DeleteStopped, DeleteEnd, InterruptEnd
  <2>8. CASE \E n \in DOMAIN turns : EndTurn(n) \/ \E level \in Levels \ {"low"} : Report(n, level)
    BY <2>8 DEF EndTurn, Report
  <2>9. CASE UNCHANGED vars
    BY <2>9 DEF vars
  <2> QED
    BY <2>1, <2>2, <2>3, <2>4, <2>5, <2>6, <2>7, <2>8, <2>9 DEF Next
<1>2. ASSUME NEW k \in Faults, Fail(k)
      PROVE  /\ faults' \in [FaultKinds -> Nat]
             /\ faults'["prepare"] = 0 => faults["prepare"] = 0
  <2>1. k \in FaultKinds /\ "prepare" \in FaultKinds
    BY FaultAssumption DEF FaultKinds
  <2>2. /\ faults' = [faults EXCEPT ![k] = faults[k] + 1]
        /\ faults[k] \in Nat /\ faults["prepare"] \in Nat
    BY <1>2, <2>1 DEF Fail
  <2>3. faults[k] + 1 \in Nat /\ faults[k] + 1 # 0
    BY <2>2
  <2>4. \A j \in FaultKinds : faults'[j] = IF j = k THEN faults[k] + 1 ELSE faults[j]
    BY <2>2
  <2> QED
    BY <2>1, <2>2, <2>3, <2>4
<1> QED
  BY <1>1, <1>2

\* A start that throws once attachments are known to be prepared was waiting for
\* the Codex thread.
LEMMA ThrowsUnprepared ==
  ASSUME faults \in [FaultKinds -> Nat], faults'["prepare"] = 0, NEW l \in Lanes, StartThrows(l)
  PROVE  lane[l].pc = "ensure"
<1> SUFFICES ASSUME lane[l].pc = "stage" PROVE FALSE
  BY DEF StartThrows
<1>1. faults' = [faults EXCEPT !["prepare"] = faults["prepare"] + 1]
  BY DEF StartThrows, Fail
<1>2. faults["prepare"] \in Nat /\ faults'["prepare"] = faults["prepare"] + 1
  BY <1>1 DEF FaultKinds
<1> QED
  BY <1>2

LEMMA SureStep ==
  ASSUME IInv, IInv', LastWord, CalmInv, SureInv, [Next]_vars
  PROVE  SureInv'
<1>1. faults' \in [FaultKinds -> Nat] /\ (faults'["prepare"] = 0 => faults["prepare"] = 0)
  BY FaultsCounted DEF SureInv
<1> SUFFICES ASSUME Sure' PROVE Lining' /\ Driving'
  BY <1>1 DEF SureInv
<1>2. ~DeleteBegin /\ \A i \in Issues : ~InterruptBegin(i)
  <2>1. ~DeleteBegin
    BY DEF DeleteBegin, Sure, Calm, IInv, Typed, RootOK
  <2>2. ASSUME NEW i \in Issues PROVE ~InterruptBegin(i)
    BY DEF InterruptBegin, Sure, Calm, CalmInv
  <2> QED
    BY <2>1, <2>2
<1>3. Sure
  BY <1>1, <1>2, RegimeKept DEF Sure, Calm
<1>4. ~root.deleted /\ CalmState /\ Lining /\ Driving
  BY <1>3 DEF Sure, Calm, SureInv, CalmInv
<1>5. CASE ProcessIssueQueueOnce
  BY <1>4, <1>5, ProcessSure
<1>6. ASSUME NEW l \in Lanes, Rollover(l) PROVE Lining' /\ Driving'
  <2>1. CASE TargetCreated(l)
    BY <1>4, <2>1, TargetCreatedSure
  <2>2. CASE SourceInterrupted(l) \/ SourceInterruptFails(l)
    BY <1>4, <2>2, InterruptedSure
  <2>3. CASE TargetFails(l)
    <3>1. lane[l].pc = "create"
      BY <2>3 DEF TargetFails
    <3> QED
      BY <1>4, <2>3, <3>1, GivenUpSure
  <2> QED
    BY <1>6, <2>1, <2>2, <2>3 DEF Rollover
<1>7. ASSUME NEW l \in Lanes, Start(l) PROVE Lining' /\ Driving'
  <2>1. CASE StageDone(l)
    BY <1>4, <2>1, StageDoneSure
  <2>2. CASE EnsureDone(l)
    BY <1>4, <2>2, EnsureDoneSure
  <2>3. CASE StartThrows(l)
    <3>1. lane[l].pc = "ensure"
      BY <2>3, ThrowsUnprepared DEF Sure, SureInv
    <3> QED
      BY <1>4, <2>3, <3>1, GivenUpSure
  <2>4. CASE Accept(l)
    BY <1>4, <2>4, AcceptSure
  <2>5. CASE TurnResponds(l)
    BY <1>4, <2>5, RespondsSure
  <2>6. CASE TurnStartFails(l)
    BY <1>4, <2>6, StartFailsSure
  <2> QED
    BY <1>7, <2>1, <2>2, <2>3, <2>4, <2>5, <2>6 DEF Start
<1>8. CASE Handle
  <2>1. CASE DropEvent
    BY <1>4, <2>1, DropSure
  <2>2. CASE ApplyUsage
    BY <1>4, <2>2, UsageSure
  <2>3. CASE ApplyTerminal
    BY <1>4, <2>3, TerminalSure
  <2>4. CASE SettleTerminal
    BY <1>4, <2>4, SettleSure
  <2> QED
    BY <1>8, <2>1, <2>2, <2>3, <2>4 DEF Handle
<1>9. CASE Delete
  BY <1>4, <1>9, Living DEF Delete, DeleteStopped, DeleteEnd
<1>10. CASE InterruptEnd
  BY <1>4, <1>10 DEF InterruptEnd, CalmState
<1>11. CASE \E n \in DOMAIN turns : EndTurn(n) \/ \E level \in Levels \ {"low"} : Report(n, level)
  BY <1>4, <1>11, ServerSure
<1>12. CASE \E i \in Issues : StartThreadIssues(i)
  BY <1>4, <1>12, StagedSure
<1>13. CASE CooldownExpires \/ (\E p \in tomb : TombstoneExpires(p)) \/ UNCHANGED vars
  <2>1. UNCHANGED <<root, phys, lane, status, queue, active, turns, inbox>>
    BY <1>13 DEF CooldownExpires, TombstoneExpires, vars
  <2>2. \A n \in DOMAIN turns : Engages(n) => Engages(n)'
    BY <2>1 DEF Engages, Speaks
  <2> QED
    BY <1>4, <2>1, <2>2, SameSure
<1> QED
  BY <1>2, <1>5, <1>6, <1>7, <1>8, <1>9, <1>10, <1>11, <1>12, <1>13 DEF Next

\* The turn that is heard can still make itself heard: its end, if it has been
\* sent, is the last notification of it.
LEMMA EngagedHeard ==
  ASSUME IInv, LastWord, CalmState, ~root.deleted, NEW n \in DOMAIN turns, Engages(n)
  PROVE  Heard(n)
<1>1. PICK c : c = turns[n].codex
  OBVIOUS
<1>2. /\ c = phys[root.active].codex /\ c # NoThread
      /\ root.active \in 1..Len(phys) /\ root.active # NoThread
  BY <1>1, TurnFacts, Living DEF Engages, NoThread
<1>3. route[c] = root.active /\ root.active \notin tomb /\ Open(phys, root.active)
  BY <1>2 DEF CalmState, Bindings
<1>4. Owner(c) = root.active
  BY <1>2, <1>3 DEF Owner
<1>5. turns[n].live \/ \E k \in DOMAIN inbox : inbox[k].kind = "end" /\ inbox[k].turn = n
  BY DEF Engages, Speaks, LastWord
<1> QED
  BY <1>1, <1>2, <1>3, <1>4, <1>5 DEF Heard

\* A rollover strands no issue, whichever of its requests fail: as long as the
\* user does not interrupt or delete and attachments can be prepared, an issue
\* that runs is being started or has a turn whose end will still be applied.
THEOREM NotStrandedKept == Spec => []NotStranded
<1>1. Init => IInv /\ LastWord /\ CalmInv /\ SureInv
  BY InitIInv, InitLast, InitCalm, InitSure
<1>2. IInv /\ LastWord /\ CalmInv /\ SureInv /\ [Next]_vars
        => (IInv /\ LastWord /\ CalmInv /\ SureInv)'
  BY NextIInv, LastStep, CalmStep, SureStep
<1>3. IInv /\ LastWord /\ CalmInv /\ SureInv => NotStranded
  <2> SUFFICES ASSUME IInv, LastWord, CalmInv, SureInv,
                      ~root.deleted, stops = 0, faults["prepare"] = 0,
                      NEW i \in Issues, status[i] = "running"
               PROVE  Driven(i)
    BY DEF NotStranded, Running
  <2>1. CalmState /\ Driving
    BY DEF CalmInv, SureInv, Sure, Calm
  <2> QED
    BY <2>1, EngagedHeard DEF Driving, Serves, Driven
<1> QED
  BY <1>1, <1>2, <1>3, PTL DEF Spec
=============================================================================
