------------------------ MODULE AppServerClient_proofs ------------------------
(***************************************************************************)
(* Proofs about AppServerClient, for every set of sockets and callers.     *)
(***************************************************************************)
EXTENDS AppServerClient, TLAPS

USE NamesAssumption, MissesAssumption, FlagsAssumption
    DEF readyVars, requestVars, heartVars, Requesters, Silent, Active, Messaged

-----------------------------------------------------------------------------
(***************************************************************************)
(* Types                                                                   *)
(***************************************************************************)

\* What Transmit does to the map of requests: the types, and the entries.
LEMMA TransmitFacts ==
  ASSUME TypeOK, NEW done, NEW new, NEW ws \in Sockets \cup {None},
         NEW level \in 0..2, Transmit(done, new, ws, level)
  PROVE  /\ pending' \in [Requesters -> Sockets \cup {None}]
         /\ seen' \in [Requesters -> 0..2]
         /\ \A r \in Requesters :
              pending'[r] = IF r \in new THEN ws
                            ELSE IF r \in done THEN None ELSE pending[r]
<1>1. PICK fresh \in 0..2 :
        seen' = [r \in Requesters |->
          IF r \in new THEN fresh
          ELSE IF r \in done \/ pending[r] = None THEN 0
          ELSE IF seen[r] < level THEN level ELSE seen[r]]
  <2>1. CASE new = {}  BY <2>1 DEF Transmit
  <2>2. CASE new # {}  BY <2>2 DEF Transmit
  <2> QED  BY <2>1, <2>2
<1>2. \A r \in Requesters : (IF r \in new THEN fresh
          ELSE IF r \in done \/ pending[r] = None THEN 0
          ELSE IF seen[r] < level THEN level ELSE seen[r]) \in 0..2
  BY DEF TypeOK
<1>3. seen' \in [Requesters -> 0..2]  BY <1>1, <1>2
<1>4. pending' \in [Requesters -> Sockets \cup {None}]
  BY DEF TypeOK, Transmit
<1> QED  BY <1>3, <1>4 DEF Transmit

LEMMA MarkType ==
  ASSUME TypeOK, NEW level \in 0..2, MarkSocketActivity(level)
  PROVE  probe' \in BOOLEAN /\ beats' \in 0..Misses /\ missed' \in 0..Misses
<1>1. probe' \in BOOLEAN  BY DEF MarkSocketActivity
<1>2. beats' \in 0..Misses  BY DEF MarkSocketActivity
<1>3. missed' \in 0..Misses  BY DEF TypeOK, MarkSocketActivity
<1> QED  BY <1>1, <1>2, <1>3

\* Rejection: types, and which requests leave the map.
LEMMA RejectFacts ==
  ASSUME TypeOK, NEW R, R \subseteq Requesters, Reject(R)
  PROVE  /\ pending' \in [Requesters -> Sockets \cup {None}]
         /\ seen' \in [Requesters -> 0..2]
         /\ \A r \in Requesters :
              pending'[r] = IF r \in R THEN None ELSE pending[r]
         /\ rejected' = rejected \cup (R \ {Start})
         /\ rejected' \subseteq Calls \cup {Reconnect}
         /\ phase' = IF Start \in R THEN "failing" ELSE phase
         /\ phase' \in Phases
<1>1. Transmit(R, {}, None, 0)  BY DEF Reject
<1>2. /\ pending' \in [Requesters -> Sockets \cup {None}]
      /\ seen' \in [Requesters -> 0..2]
      /\ \A r \in Requesters :
           pending'[r] = IF r \in {} THEN None
                         ELSE IF r \in R THEN None ELSE pending[r]
  BY <1>1, TransmitFacts
<1> QED  BY <1>2 DEF Reject, TypeOK, Phases

LEMMA ResetFacts ==
  ASSUME TypeOK, NEW ws \in Sockets \cup {None}, ResetSocketState(ws)
  PROVE  /\ connected' = FALSE /\ initialized' = FALSE /\ missed' = 0
         /\ socket' = IF ws = None \/ socket = ws THEN None ELSE socket
         /\ socket' \in Sockets \cup {None}
         /\ heart' \in Sockets \cup {None} /\ probe' \in BOOLEAN
         /\ beats' \in 0..Misses
         /\ socket' # None => heart' = heart
         /\ pending' = [r \in Requesters |-> None]
         /\ seen' \in [Requesters -> 0..2]
         /\ rejected' = rejected \cup {c \in Calls : pending[c] # None}
         /\ rejected' \subseteq Calls \cup {Reconnect}
         /\ phase' = IF pending[Start] # None THEN "failing" ELSE phase
         /\ phase' \in Phases
         /\ UNCHANGED <<signedIn, late, waiters, awaiting>>
<1>1. Reject(Pending) /\ Pending \subseteq Requesters
  BY DEF ResetSocketState, Pending
<1>2. /\ pending' \in [Requesters -> Sockets \cup {None}]
      /\ seen' \in [Requesters -> 0..2]
      /\ \A r \in Requesters :
           pending'[r] = IF r \in Pending THEN None ELSE pending[r]
      /\ rejected' = rejected \cup (Pending \ {Start})
      /\ rejected' \subseteq Calls \cup {Reconnect}
      /\ phase' = IF Start \in Pending THEN "failing" ELSE phase
      /\ phase' \in Phases
  BY <1>1, RejectFacts
<1>3. \A r \in Requesters : pending'[r] = None  BY <1>2 DEF Pending
<1>4. pending' = [r \in Requesters |-> None]  BY <1>2, <1>3
<1>5. Pending \ {Start} = {c \in Calls : pending[c] # None}
  BY DEF Pending
<1>6. /\ heart' \in Sockets \cup {None} /\ probe' \in BOOLEAN
      /\ beats' \in 0..Misses
      /\ socket' # None => heart' = heart
  <2>1. StopHeartbeat(ws) /\ (socket' # None => ws # None /\ socket' # ws)
    BY DEF ResetSocketState
  <2>2. CASE UNCHANGED heartVars /\ socket' # None  BY <2>2 DEF TypeOK
  <2>3. CASE heart' = None /\ probe' = FALSE /\ beats' = 0
             /\ socket' = None
    <3>1. beats' \in 0..Misses  BY <2>3
    <3>2. heart' \in Sockets \cup {None} /\ probe' \in BOOLEAN  BY <2>3
    <3> QED  BY <2>1, <2>3, <3>1, <3>2
  <2>4. CASE ws # None /\ socket' # None /\ socket' # ws
    BY <2>1, <2>2, <2>4 DEF StopHeartbeat
  <2>5. CASE ~(ws # None /\ socket' # None /\ socket' # ws)
    BY <2>1, <2>3, <2>5 DEF StopHeartbeat
  <2> QED  BY <2>4, <2>5
<1>7. (Start \in Pending) <=> pending[Start] # None  BY DEF Pending
<1> QED  BY <1>2, <1>4, <1>5, <1>6, <1>7 DEF ResetSocketState, TypeOK

LEMMA ForceFacts ==
  ASSUME TypeOK, ForceReconnect(socket)
  PROVE  TypeOK'
<1>1. socket \in Sockets /\ ResetSocketState(socket)
  BY DEF ForceReconnect, TypeOK
<1>2. timer' \in BOOLEAN  BY DEF ForceReconnect, Scheduled, Busy, TypeOK
<1>3. net' \in [Sockets -> {"free", "connecting", "open", "closing"}]
  BY <1>1 DEF ForceReconnect, TypeOK
<1>4. UNCHANGED <<child, greeted>>  BY DEF ForceReconnect
<1>5. /\ connected' = FALSE /\ initialized' = FALSE /\ missed' = 0
      /\ socket' \in Sockets \cup {None}
      /\ heart' \in Sockets \cup {None} /\ probe' \in BOOLEAN
      /\ beats' \in 0..Misses
      /\ pending' = [r \in Requesters |-> None]
      /\ seen' \in [Requesters -> 0..2]
      /\ rejected' \subseteq Calls \cup {Reconnect}
      /\ phase' \in Phases
      /\ UNCHANGED <<signedIn, late, waiters, awaiting>>
  BY <1>1, ResetFacts
<1>6. pending' \in [Requesters -> Sockets \cup {None}]  BY <1>5
<1>7. /\ connected' \in BOOLEAN /\ initialized' \in BOOLEAN
      /\ signedIn' \in BOOLEAN /\ late' \in BOOLEAN /\ child' \in BOOLEAN
  BY <1>4, <1>5 DEF TypeOK
<1>8. missed' \in 0..Misses  BY <1>5
<1>9. /\ waiters' \subseteq Calls \cup {Reconnect} /\ awaiting' \subseteq Calls
      /\ greeted' \subseteq Sockets
  BY <1>4, <1>5 DEF TypeOK
<1> QED  BY <1>2, <1>3, <1>5, <1>6, <1>7, <1>8, <1>9 DEF TypeOK

LEMMA EnsureReadyType ==
  ASSUME TypeOK, NEW who \in Calls \cup {Reconnect}, EnsureReady(who)
  PROVE  /\ phase' \in Phases /\ late' \in BOOLEAN /\ child' \in BOOLEAN
         /\ waiters' \subseteq Calls \cup {Reconnect}
         /\ net' \in [Sockets -> {"free", "connecting", "open", "closing"}]
BY DEF EnsureReady, Dial, TypeOK, Phases

LEMMA RequestByType ==
  ASSUME TypeOK, NEW c \in Calls, RequestBy(c)
  PROVE  /\ phase' \in Phases /\ late' \in BOOLEAN /\ child' \in BOOLEAN
         /\ waiters' \subseteq Calls \cup {Reconnect}
         /\ net' \in [Sockets -> {"free", "connecting", "open", "closing"}]
         /\ pending' \in [Requesters -> Sockets \cup {None}]
         /\ seen' \in [Requesters -> 0..2]
         /\ awaiting' \subseteq Calls
<1>1. CASE Ready /\ signedIn /\ Transmit({}, {c}, socket, Silent)
           /\ awaiting' = awaiting \cup {c}
           /\ UNCHANGED <<phase, late, waiters, child, net>>
  <2>1. /\ pending' \in [Requesters -> Sockets \cup {None}]
        /\ seen' \in [Requesters -> 0..2]
    BY <1>1, TransmitFacts DEF TypeOK
  <2> QED  BY <1>1, <2>1 DEF TypeOK
<1>2. CASE awaiting' = awaiting \ {c}
           /\ UNCHANGED <<phase, late, waiters, requestVars, child, net>>
  BY <1>2 DEF TypeOK
<1>3. CASE EnsureReady(c) /\ awaiting' = awaiting \cup {c}
           /\ UNCHANGED requestVars
  BY <1>3, EnsureReadyType DEF TypeOK
<1> QED  BY <1>1, <1>2, <1>3 DEF RequestBy

LEMMA TypeInit == Init => TypeOK
<1> SUFFICES ASSUME Init PROVE TypeOK  OBVIOUS
<1>1. /\ connected \in BOOLEAN /\ initialized \in BOOLEAN
      /\ signedIn \in BOOLEAN /\ late \in BOOLEAN /\ probe \in BOOLEAN
      /\ timer \in BOOLEAN /\ child \in BOOLEAN
  BY DEF Init
<1>2. missed \in 0..Misses /\ beats \in 0..Misses  BY DEF Init
<1>3. seen \in [Requesters -> 0..2]  BY DEF Init
<1>4. /\ socket \in Sockets \cup {None} /\ heart \in Sockets \cup {None}
      /\ phase \in Phases
      /\ waiters \subseteq Calls \cup {Reconnect}
      /\ rejected \subseteq Calls \cup {Reconnect}
      /\ pending \in [Requesters -> Sockets \cup {None}]
      /\ awaiting \subseteq Calls /\ greeted \subseteq Sockets
      /\ net \in [Sockets -> {"free", "connecting", "open", "closing"}]
  BY DEF Init, Phases
<1> QED  BY <1>1, <1>2, <1>3, <1>4 DEF TypeOK

LEMMA CappedType == ASSUME NEW n \in Nat PROVE Capped(n) \in 0..Misses
BY DEF Capped

\* Types, one step per action.
LEMMA TypeStep == TypeOK /\ [Next]_vars => TypeOK'
<1> SUFFICES ASSUME TypeOK, [Next]_vars PROVE TypeOK'  OBVIOUS
<1>1. ASSUME NEW c \in Calls, Request(c) PROVE TypeOK'
  <2>1. RequestBy(c)  BY <1>1 DEF Request
  <2> QED  BY <1>1, <2>1, RequestByType DEF TypeOK, Request
<1>2. ASSUME NEW c \in Calls, RequestBestEffort(c) PROVE TypeOK'
  <2>1. /\ pending' \in [Requesters -> Sockets \cup {None}]
        /\ seen' \in [Requesters -> 0..2]
    BY <1>2, TransmitFacts DEF RequestBestEffort, TypeOK
  <2> QED  BY <1>2, <2>1 DEF TypeOK, RequestBestEffort
<1>3. ASSUME NEW c \in Calls, CallRejected(c) PROVE TypeOK'
  <2>1. CASE awaiting' = awaiting \ {c}
             /\ UNCHANGED <<phase, late, waiters, requestVars, child, net>>
    <3>1. timer' \in BOOLEAN  BY <1>3 DEF CallRejected, Scheduled, Busy, TypeOK
    <3> QED  BY <1>3, <2>1, <3>1 DEF CallRejected, TypeOK
  <2>2. CASE RequestBy(c) /\ UNCHANGED timer
    BY <1>3, <2>2, RequestByType DEF CallRejected, TypeOK
  <2> QED  BY <1>3, <2>1, <2>2 DEF CallRejected
<1>4. ASSUME NEW c \in Calls, Answer(c) PROVE TypeOK'
  <2>1. /\ pending' \in [Requesters -> Sockets \cup {None}]
        /\ seen' \in [Requesters -> 0..2]
    BY <1>4, TransmitFacts DEF Answer
  <2>2. probe' \in BOOLEAN /\ beats' \in 0..Misses /\ missed' \in 0..Misses
    BY <1>4, MarkType DEF Answer
  <2> QED  BY <1>4, <2>1, <2>2 DEF TypeOK, Answer
<1>5. ASSUME NEW r \in Requesters, RequestTimeout(r) PROVE TypeOK'
  <2>1. /\ pending' \in [Requesters -> Sockets \cup {None}]
        /\ seen' \in [Requesters -> 0..2]
        /\ rejected' \subseteq Calls \cup {Reconnect}
        /\ phase' \in Phases
    BY <1>5, RejectFacts, {r} \subseteq Requesters DEF RequestTimeout
  <2>2. missed' \in 0..Misses
    BY <1>5, CappedType DEF RequestTimeout, TypeOK
  <2> QED  BY <1>5, <2>1, <2>2 DEF TypeOK, RequestTimeout
<1>6. ASSUME NEW r \in Requesters, RequestTimeoutReconnects(r) PROVE TypeOK'
  BY <1>6, ForceFacts DEF RequestTimeoutReconnects
<1>7. ASSUME NEW s \in Sockets, OpenSucceeds(s) PROVE TypeOK'
  <2>1. /\ pending' \in [Requesters -> Sockets \cup {None}]
        /\ seen' \in [Requesters -> 0..2]
    BY <1>7, TransmitFacts DEF OpenSucceeds
  <2>2. probe' \in BOOLEAN /\ beats' \in 0..Misses /\ missed' \in 0..Misses
    BY <1>7, MarkType DEF OpenSucceeds
  <2> QED  BY <1>7, <2>1, <2>2 DEF TypeOK, OpenSucceeds, Phases
<1>8. ASSUME NEW s \in Sockets, OpenFails(s) PROVE TypeOK'
  BY <1>8 DEF TypeOK, OpenFails, Phases
<1>9. ASSUME NEW s \in Sockets, InitializeAnswered(s) PROVE TypeOK'
  <2>1. /\ pending' \in [Requesters -> Sockets \cup {None}]
        /\ seen' \in [Requesters -> 0..2]
    BY <1>9, TransmitFacts DEF InitializeAnswered, TypeOK
  <2>2. probe' \in BOOLEAN /\ beats' \in 0..Misses /\ missed' \in 0..Misses
    BY <1>9, MarkType DEF InitializeAnswered
  <2>3. phase' \in Phases /\ greeted' \subseteq Sockets
    BY <1>9 DEF InitializeAnswered, Phases, TypeOK
  <2> QED  BY <1>9, <2>1, <2>2, <2>3 DEF TypeOK, InitializeAnswered
<1>10. ASSUME NEW s \in Sockets, AccountAnswered(s) PROVE TypeOK'
  <2>1. /\ pending' \in [Requesters -> Sockets \cup {None}]
        /\ seen' \in [Requesters -> 0..2]
    <3>1. CASE Transmit({Start}, waiters \ {Reconnect}, socket, 2)
      BY <3>1, TransmitFacts DEF TypeOK
    <3>2. CASE Transmit({Start}, {}, None, 2)
      <4>1. None \in Sockets \cup {None} /\ 2 \in 0..2  OBVIOUS
      <4> QED  BY ONLY TypeOK, <3>2, <4>1, TransmitFacts
    <3> QED  BY <1>10, <3>1, <3>2 DEF AccountAnswered, AccountRead
  <2>2. probe' \in BOOLEAN /\ beats' \in 0..Misses /\ missed' \in 0..Misses
    BY <1>10, MarkType DEF AccountAnswered
  <2>3. initialized' \in BOOLEAN /\ signedIn' \in BOOLEAN /\ timer' \in BOOLEAN
    BY <1>10 DEF AccountAnswered, AccountRead, TypeOK
  <2>4. /\ phase' \in Phases /\ waiters' \subseteq Calls \cup {Reconnect}
        /\ rejected' \subseteq Calls \cup {Reconnect}
    BY <1>10 DEF AccountAnswered, AccountRead, TypeOK, Phases
  <2> QED  BY <1>10, <2>1, <2>2, <2>3, <2>4 DEF TypeOK, AccountAnswered
<1>11. ASSUME NEW s \in Sockets, Notification(s) \/ Pong(s) PROVE TypeOK'
  <2>1. /\ pending' \in [Requesters -> Sockets \cup {None}]
        /\ seen' \in [Requesters -> 0..2]
    BY <1>11, TransmitFacts DEF Notification, Pong
  <2>2. probe' \in BOOLEAN /\ beats' \in 0..Misses /\ missed' \in 0..Misses
    BY <1>11, MarkType DEF Notification, Pong
  <2> QED  BY <1>11, <2>1, <2>2 DEF TypeOK, Notification, Pong
<1>12. ASSUME NEW s \in Sockets, SocketDrop(s) \/ SocketError(s) PROVE TypeOK'
  BY <1>12 DEF TypeOK, SocketDrop, SocketError
<1>13. ASSUME NEW s \in Sockets, SocketClose(s) PROVE TypeOK'
  <2>1. /\ connected' \in BOOLEAN /\ initialized' \in BOOLEAN
        /\ signedIn' \in BOOLEAN /\ late' \in BOOLEAN /\ child' \in BOOLEAN
        /\ timer' \in BOOLEAN
    BY <1>13 DEF SocketClose, ResetSocketState, Scheduled, Busy, TypeOK
  <2>2. /\ socket' \in Sockets \cup {None}
        /\ heart' \in Sockets \cup {None} /\ probe' \in BOOLEAN
        /\ beats' \in 0..Misses /\ missed' = 0
        /\ pending' = [r \in Requesters |-> None]
        /\ seen' \in [Requesters -> 0..2]
        /\ rejected' \subseteq Calls \cup {Reconnect}
        /\ phase' \in Phases
    BY <1>13, ResetFacts DEF SocketClose
  <2>3. pending' \in [Requesters -> Sockets \cup {None}]  BY <2>2
  <2>4. missed' \in 0..Misses  BY <2>2
  <2>5. /\ waiters' \subseteq Calls \cup {Reconnect} /\ awaiting' \subseteq Calls
        /\ greeted' \subseteq Sockets
        /\ net' \in [Sockets -> {"free", "connecting", "open", "closing"}]
    BY <1>13 DEF SocketClose, ResetSocketState, TypeOK
  <2> QED  BY <2>1, <2>2, <2>3, <2>4, <2>5 DEF TypeOK
<1>14. ASSUME ProcessExit PROVE TypeOK'
  <2>1. /\ connected' \in BOOLEAN /\ initialized' \in BOOLEAN
        /\ signedIn' \in BOOLEAN /\ late' \in BOOLEAN /\ child' \in BOOLEAN
        /\ timer' \in BOOLEAN
    BY <1>14 DEF ProcessExit, ResetSocketState, TypeOK
  <2>2. /\ socket' \in Sockets \cup {None}
        /\ heart' \in Sockets \cup {None} /\ probe' \in BOOLEAN
        /\ beats' \in 0..Misses /\ missed' = 0
        /\ pending' = [r \in Requesters |-> None]
        /\ seen' \in [Requesters -> 0..2]
        /\ rejected' \subseteq Calls \cup {Reconnect}
        /\ phase' \in Phases
    BY <1>14, ResetFacts DEF ProcessExit
  <2>3. pending' \in [Requesters -> Sockets \cup {None}]  BY <2>2
  <2>4. missed' \in 0..Misses  BY <2>2
  <2>5. /\ waiters' \subseteq Calls \cup {Reconnect} /\ awaiting' \subseteq Calls
        /\ greeted' \subseteq Sockets
        /\ net' \in [Sockets -> {"free", "connecting", "open", "closing"}]
    BY <1>14 DEF ProcessExit, ResetSocketState, TypeOK
  <2> QED  BY <2>1, <2>2, <2>3, <2>4, <2>5 DEF TypeOK
<1>15. ASSUME NEW s \in Sockets, HeartbeatProbe(s) PROVE TypeOK'
  BY <1>15 DEF TypeOK, HeartbeatProbe
<1>16. ASSUME NEW s \in Sockets, HeartbeatTimeout(s) PROVE TypeOK'
  <2>1. beats' \in 0..Misses  BY <1>16, CappedType DEF HeartbeatTimeout, TypeOK
  <2> QED  BY <1>16, <2>1 DEF TypeOK, HeartbeatTimeout
<1>17. ASSUME NEW s \in Sockets, HeartbeatReconnects(s) PROVE TypeOK'
  BY <1>17, ForceFacts DEF HeartbeatReconnects, Watched
<1>18. ASSUME BackfillReconnects PROVE TypeOK'
  BY <1>18, ForceFacts DEF BackfillReconnects
<1>19. ASSUME Deadline PROVE TypeOK'  BY <1>19 DEF TypeOK, Deadline
<1>20. ASSUME Redial PROVE TypeOK'  BY <1>20 DEF TypeOK, Redial, Dial, Phases
<1>21. ASSUME StartRejected PROVE TypeOK'
  <2>1. timer' \in BOOLEAN  BY <1>21 DEF StartRejected, Scheduled, Busy, TypeOK
  <2> QED  BY <1>21, <2>1 DEF TypeOK, StartRejected, Phases
<1>22. ASSUME TimerRejected PROVE TypeOK'
  <2>1. timer' \in BOOLEAN  BY <1>22 DEF TimerRejected, Scheduled, Busy, TypeOK
  <2> QED  BY <1>22, <2>1 DEF TypeOK, TimerRejected
<1>23. ASSUME TimerFires PROVE TypeOK'
  <2>1. CASE UNCHANGED <<phase, late, waiters, child, net>>
    BY <1>23, <2>1 DEF TypeOK, TimerFires
  <2>2. CASE EnsureReady(Reconnect)
    BY <1>23, <2>2, EnsureReadyType DEF TypeOK, TimerFires
  <2> QED  BY <1>23, <2>1, <2>2 DEF TimerFires
<1>24. CASE UNCHANGED vars  BY <1>24 DEF TypeOK, vars
<1> QED
  BY <1>1, <1>2, <1>3, <1>4, <1>5, <1>6, <1>7, <1>8, <1>9, <1>10, <1>11, <1>12,
     <1>13, <1>14, <1>15, <1>16, <1>17, <1>18, <1>19, <1>20, <1>21, <1>22,
     <1>23, <1>24 DEF Next

\* Types hold for every set of sockets and callers.
THEOREM ClientTypeCorrect == Spec => []TypeOK
<1>1. Init => TypeOK  BY TypeInit
<1>2. TypeOK /\ [Next]_vars => TypeOK'  BY TypeStep
<1> QED  BY <1>1, <1>2, PTL DEF Spec

-----------------------------------------------------------------------------
(***************************************************************************)
(* The heartbeat                                                           *)
(***************************************************************************)

LEMMA HeartReset ==
  ASSUME TypeOK, HeartbeatFollowsSocket, NEW ws \in Sockets \cup {None},
         ResetSocketState(ws), \A s \in Sockets : net'[s] = "open" => net[s] = "open"
  PROVE  HeartbeatFollowsSocket'
<1>1. /\ socket' = IF ws = None \/ socket = ws THEN None ELSE socket
      /\ socket' # None => heart' = heart
  BY ResetFacts
<1> QED  BY <1>1 DEF HeartbeatFollowsSocket, Open, TypeOK

LEMMA HeartForce ==
  ASSUME TypeOK, HeartbeatFollowsSocket, ForceReconnect(socket)
  PROVE  HeartbeatFollowsSocket'
<1>1. socket \in Sockets /\ ResetSocketState(socket)
  BY DEF ForceReconnect, TypeOK
<1>2. \A s \in Sockets : net'[s] = "open" => net[s] = "open"
  BY <1>1 DEF ForceReconnect, TypeOK
<1> QED  BY <1>1, <1>2, HeartReset

\* No socket becomes open by dialling another one.
LEMMA HeartDial ==
  ASSUME TypeOK, HeartbeatFollowsSocket, UNCHANGED <<socket, heart>>,
         \A s \in Sockets : net'[s] = "open" => net[s] = "open"
  PROVE  HeartbeatFollowsSocket'
BY DEF HeartbeatFollowsSocket, Open, TypeOK

LEMMA HeartStep ==
  ASSUME TypeOK, HeartbeatFollowsSocket, [Next]_vars
  PROVE  HeartbeatFollowsSocket'
<1>1. ASSUME NEW s \in Sockets, OpenSucceeds(s) PROVE HeartbeatFollowsSocket'
  BY <1>1 DEF OpenSucceeds, HeartbeatFollowsSocket
<1>2. ASSUME NEW s \in Sockets, SocketClose(s) PROVE HeartbeatFollowsSocket'
  BY <1>2, HeartReset DEF SocketClose, TypeOK
<1>3. CASE ProcessExit
  BY <1>3, HeartReset DEF ProcessExit
<1>4. CASE ForceReconnect(socket)  BY <1>4, HeartForce
<1>5. CASE UNCHANGED <<socket, heart>>
           /\ \A s \in Sockets : net'[s] = "open" => net[s] = "open"
  BY <1>5, HeartDial
<1>6. ASSUME NEW c \in Calls,
             Request(c) \/ RequestBestEffort(c) \/ CallRejected(c) \/ Answer(c)
      PROVE  UNCHANGED <<socket, heart>>
             /\ \A s \in Sockets : net'[s] = "open" => net[s] = "open"
  BY <1>6 DEF Request, RequestBestEffort, CallRejected, Answer, RequestBy,
              EnsureReady, Dial, TypeOK
<1>7. ASSUME NEW r \in Requesters, RequestTimeout(r)
      PROVE  UNCHANGED <<socket, heart>> /\ net' = net
  BY <1>7 DEF RequestTimeout
<1>8. ASSUME NEW s \in Sockets,
             \/ OpenFails(s) \/ InitializeAnswered(s) \/ AccountAnswered(s)
             \/ Notification(s) \/ Pong(s) \/ SocketDrop(s) \/ SocketError(s)
             \/ HeartbeatProbe(s) \/ HeartbeatTimeout(s)
      PROVE  UNCHANGED <<socket, heart>>
             /\ \A q \in Sockets : net'[q] = "open" => net[q] = "open"
  BY <1>8 DEF OpenFails, InitializeAnswered, AccountAnswered, Notification,
              Pong, SocketDrop, SocketError, HeartbeatProbe, HeartbeatTimeout,
              TypeOK
<1>9. CASE Deadline \/ Redial \/ StartRejected \/ TimerRejected \/ TimerFires
  <2>1. UNCHANGED <<socket, heart>>
        /\ \A s \in Sockets : net'[s] = "open" => net[s] = "open"
    BY <1>9 DEF Deadline, Redial, StartRejected, TimerRejected, TimerFires,
                EnsureReady, Dial, TypeOK
  <2> QED  BY <2>1, HeartDial
<1>10. CASE UNCHANGED vars
  BY <1>10 DEF vars, HeartbeatFollowsSocket, Open
<1>11. ASSUME NEW s \in Sockets, HeartbeatReconnects(s)
       PROVE  ForceReconnect(socket)
  BY <1>11 DEF HeartbeatReconnects, Watched
<1>12. ASSUME NEW r \in Requesters, RequestTimeoutReconnects(r)
       PROVE  ForceReconnect(socket)
  BY <1>12 DEF RequestTimeoutReconnects
<1> QED
  BY <1>1, <1>2, <1>3, <1>4, <1>5, <1>6, <1>7, <1>8, <1>9, <1>10, <1>11, <1>12
     DEF Next, BackfillReconnects

\* Whatever sockets overlap, the heartbeat watches the socket in use.
THEOREM HeartbeatKept == Spec => []HeartbeatFollowsSocket
<1>1. Init => HeartbeatFollowsSocket
  BY DEF Init, HeartbeatFollowsSocket, Open
<1>2. TypeOK /\ HeartbeatFollowsSocket /\ [Next]_vars => HeartbeatFollowsSocket'
  BY HeartStep
<1> QED  BY <1>1, <1>2, ClientTypeCorrect, PTL DEF Spec

-----------------------------------------------------------------------------
(***************************************************************************)
(* Nobody is left waiting                                                  *)
(***************************************************************************)

\* NoLostCall by parts.
Settled(c) ==
  /\ c \in awaiting <=> c \in waiters \/ c \in rejected \/ pending[c] # None
  /\ ~(c \in waiters /\ c \in rejected)
  /\ pending[c] # None => c \notin waiters /\ c \notin rejected

StartHeld ==
  /\ waiters # {} => phase # "none"
  /\ pending[Start] # None <=> phase \in {"initialize", "account"}

\* What induction needs besides: connectSocket has one attempt under way.
OneDial ==
  /\ phase = "opening" <=> \E s \in Sockets : net[s] = "connecting"
  /\ \A s, q \in Sockets :
       net[s] = "connecting" /\ net[q] = "connecting" => s = q

Held == (\A c \in Calls : Settled(c)) /\ StartHeld /\ OneDial

LEMMA HeldMeans == Held => NoLostCall
BY DEF Held, Settled, StartHeld, OneDial, NoLostCall, Busy

LEMMA HeldInit == Init => Held
BY DEF Init, Held, Settled, StartHeld, OneDial

\* Nothing that Held reads changes, but for sockets that are not dialling.
LEMMA HeldSame ==
  ASSUME Held, UNCHANGED <<phase, waiters, rejected, pending, awaiting>>,
         \A s \in Sockets : net'[s] = "connecting" <=> net[s] = "connecting"
  PROVE  Held'
BY DEF Held, Settled, StartHeld, OneDial

\* Requests are rejected, or only looked at, while no socket starts dialling.
LEMMA HeldReject ==
  ASSUME TypeOK, Held, NEW R, R \subseteq Requesters, Reject(R),
         \A r \in R : pending[r] # None,
         UNCHANGED <<waiters, awaiting>>,
         \A s \in Sockets : net'[s] = "connecting" <=> net[s] = "connecting"
  PROVE  Held'
<1>1. /\ \A r \in Requesters :
           pending'[r] = IF r \in R THEN None ELSE pending[r]
      /\ rejected' = rejected \cup (R \ {Start})
      /\ phase' = IF Start \in R THEN "failing" ELSE phase
  BY RejectFacts
<1>2. ASSUME NEW c \in Calls PROVE Settled(c)'
  BY <1>1 DEF Held, Settled
<1>3. StartHeld'  BY <1>1 DEF Held, StartHeld
<1>4. OneDial'  BY <1>1 DEF Held, StartHeld, OneDial
<1> QED  BY <1>2, <1>3, <1>4 DEF Held

LEMMA HeldReset ==
  ASSUME TypeOK, Held, NEW ws \in Sockets \cup {None}, ResetSocketState(ws),
         \A s \in Sockets : net'[s] = "connecting" <=> net[s] = "connecting"
  PROVE  Held'
<1>1. Reject(Pending) /\ UNCHANGED <<waiters, awaiting>>
  BY DEF ResetSocketState
<1>2. Pending \subseteq Requesters /\ \A r \in Pending : pending[r] # None
  BY DEF Pending
<1> QED  BY <1>1, <1>2, HeldReject

\* The socket in use is not dialling: it has opened.
SocketOpened == socket # None => net[socket] \in {"open", "closing"}

\* net changes only for the socket in use, which begins to close.
LEMMA OpenedReset ==
  ASSUME TypeOK, SocketOpened, NEW ws \in Sockets \cup {None},
         ResetSocketState(ws),
         \A s \in Sockets \ {ws} : net'[s] = net[s]
  PROVE  SocketOpened'
<1>1. socket' = IF ws = None \/ socket = ws THEN None ELSE socket
  BY ResetFacts
<1> QED  BY <1>1 DEF SocketOpened, TypeOK

LEMMA OpenedStep == TypeOK /\ SocketOpened /\ [Next]_vars => SocketOpened'
<1> SUFFICES ASSUME TypeOK, SocketOpened, [Next]_vars PROVE SocketOpened'
  OBVIOUS
<1>1. ASSUME NEW s \in Sockets, OpenSucceeds(s) PROVE SocketOpened'
  BY <1>1 DEF OpenSucceeds, SocketOpened, TypeOK
<1>2. ASSUME NEW s \in Sockets, SocketClose(s) PROVE SocketOpened'
  BY <1>2, OpenedReset DEF SocketClose, TypeOK
<1>3. CASE ProcessExit
  BY <1>3, OpenedReset DEF ProcessExit
<1>4. CASE ForceReconnect(socket)
  <2>1. /\ socket \in Sockets /\ ResetSocketState(socket)
        /\ \A s \in Sockets \ {socket} : net'[s] = net[s]
    BY <1>4 DEF ForceReconnect, TypeOK
  <2> QED  BY <2>1, OpenedReset
<1>5. CASE /\ socket' = socket
           /\ \A s \in Sockets : \/ net'[s] = net[s]
                                 \/ net[s] \in {"free", "connecting"}
                                 \/ net'[s] = "closing"
  BY <1>5 DEF SocketOpened, TypeOK
<1>6. ASSUME NEW c \in Calls,
             Request(c) \/ RequestBestEffort(c) \/ CallRejected(c) \/ Answer(c)
      PROVE  /\ socket' = socket
             /\ \A s \in Sockets : net'[s] = net[s] \/ net[s] = "free"
  BY <1>6 DEF Request, RequestBestEffort, CallRejected, Answer, RequestBy,
              EnsureReady, Dial, TypeOK
<1>7. ASSUME NEW r \in Requesters, RequestTimeout(r)
      PROVE  socket' = socket /\ net' = net
  BY <1>7 DEF RequestTimeout
<1>8. ASSUME NEW s \in Sockets,
             \/ OpenFails(s) \/ InitializeAnswered(s) \/ AccountAnswered(s)
             \/ Notification(s) \/ Pong(s) \/ SocketDrop(s) \/ SocketError(s)
             \/ HeartbeatProbe(s) \/ HeartbeatTimeout(s)
      PROVE  /\ socket' = socket
             /\ \A q \in Sockets : \/ net'[q] = net[q]
                                   \/ net[q] = "connecting"
                                   \/ net'[q] = "closing"
  BY <1>8 DEF OpenFails, InitializeAnswered, AccountAnswered, Notification,
              Pong, SocketDrop, SocketError, HeartbeatProbe, HeartbeatTimeout,
              TypeOK
<1>9. CASE Deadline \/ Redial \/ StartRejected \/ TimerRejected \/ TimerFires
  <2>1. /\ socket' = socket
        /\ \A s \in Sockets : net'[s] = net[s] \/ net[s] = "free"
    BY <1>9 DEF Deadline, Redial, StartRejected, TimerRejected, TimerFires,
                EnsureReady, Dial, TypeOK
  <2> QED  BY <2>1, <1>5
<1>10. CASE UNCHANGED vars  BY <1>10, <1>5 DEF vars
<1>11. ASSUME NEW s \in Sockets, HeartbeatReconnects(s)
       PROVE  ForceReconnect(socket)
  BY <1>11 DEF HeartbeatReconnects, Watched
<1>12. ASSUME NEW r \in Requesters, RequestTimeoutReconnects(r)
       PROVE  ForceReconnect(socket)
  BY <1>12 DEF RequestTimeoutReconnects
<1> QED
  BY <1>1, <1>2, <1>3, <1>4, <1>5, <1>6, <1>7, <1>8, <1>9, <1>10, <1>11, <1>12
     DEF Next, BackfillReconnects

LEMMA HeldForce ==
  ASSUME TypeOK, Held, SocketOpened, ForceReconnect(socket)
  PROVE  Held'
<1>1. socket \in Sockets /\ ResetSocketState(socket)
  BY DEF ForceReconnect, TypeOK
<1>2. \A s \in Sockets : net'[s] = "connecting" <=> net[s] = "connecting"
  BY <1>1 DEF ForceReconnect, SocketOpened, TypeOK
<1> QED  BY <1>1, <1>2, HeldReset

\* One socket starts dialling when none was.
LEMMA DialFacts ==
  ASSUME TypeOK, OneDial, phase # "opening", Dial
  PROVE  OneDial' /\ phase' = "opening"
<1>1. PICK s \in Sockets : net' = [net EXCEPT ![s] = "connecting"]
  BY DEF Dial
<1>2. \A q \in Sockets : net'[q] = "connecting" <=> q = s
  BY <1>1 DEF OneDial, TypeOK
<1> QED  BY <1>2 DEF Dial, OneDial

LEMMA EnsureReadyFacts ==
  ASSUME TypeOK, Held, NEW who \in Calls \cup {Reconnect}, EnsureReady(who)
  PROVE  /\ OneDial'
         /\ phase' # "none"
         /\ phase' \in {"initialize", "account"} <=>
              phase \in {"initialize", "account"}
         /\ waiters' = waiters \cup {who}
<1>1. CASE Busy /\ waiters' = waiters \cup {who} /\ UNCHANGED <<phase, net>>
  BY <1>1 DEF Held, OneDial, Busy
<1>2. CASE ~Busy /\ waiters' = {who} /\ Dial
  <2>1. phase = "none" /\ waiters = {}
    BY <1>2 DEF Busy, Held, StartHeld
  <2>2. OneDial' /\ phase' = "opening"
    BY <1>2, <2>1, DialFacts DEF Held
  <2> QED  BY <1>2, <2>1, <2>2
<1> QED  BY <1>1, <1>2 DEF EnsureReady

\* A caller of request() that waits for nothing yet.
LEMMA HeldRequestBy ==
  ASSUME TypeOK, Held, NEW c \in Calls, RequestBy(c),
         c \notin waiters, pending[c] = None,
         rejected' = rejected \ {c},
         c \in awaiting => c \in rejected
  PROVE  Held'
<1>1. CASE /\ Ready /\ Transmit({}, {c}, socket, Silent)
           /\ awaiting' = awaiting \cup {c}
           /\ UNCHANGED <<phase, waiters, net>>
  <2>1. socket \in Sockets  BY <1>1 DEF Ready, Open, TypeOK
  <2>2. \A r \in Requesters :
          pending'[r] = IF r = c THEN socket ELSE pending[r]
    BY <1>1, <2>1, TransmitFacts
  <2>3. ASSUME NEW d \in Calls PROVE Settled(d)'
    BY <1>1, <2>1, <2>2 DEF Held, Settled
  <2>4. StartHeld' /\ OneDial'
    BY <1>1, <2>2 DEF Held, StartHeld, OneDial
  <2> QED  BY <2>3, <2>4 DEF Held
<1>2. CASE /\ awaiting' = awaiting \ {c}
           /\ UNCHANGED <<phase, waiters, pending, net>>
  BY <1>2 DEF Held, Settled, StartHeld, OneDial
<1>3. CASE EnsureReady(c) /\ awaiting' = awaiting \cup {c}
           /\ UNCHANGED pending
  <2>1. /\ OneDial' /\ phase' # "none"
        /\ phase' \in {"initialize", "account"} <=>
             phase \in {"initialize", "account"}
        /\ waiters' = waiters \cup {c}
    BY <1>3, EnsureReadyFacts
  <2>2. ASSUME NEW d \in Calls PROVE Settled(d)'
    BY <1>3, <2>1 DEF Held, Settled
  <2>3. StartHeld'  BY <1>3, <2>1 DEF Held, StartHeld
  <2> QED  BY <2>1, <2>2, <2>3 DEF Held
<1> QED  BY <1>1, <1>2, <1>3 DEF RequestBy

LEMMA HeldStep == TypeOK /\ Held /\ SocketOpened /\ [Next]_vars => Held'
<1> SUFFICES ASSUME TypeOK, Held, SocketOpened, [Next]_vars PROVE Held'
  OBVIOUS
<1>1. ASSUME NEW c \in Calls, Request(c) PROVE Held'
  <2>1. c \notin awaiting /\ RequestBy(c) /\ rejected' = rejected \ {c}
    BY <1>1 DEF Request, Held, Settled
  <2>2. c \notin waiters /\ pending[c] = None
    BY <2>1 DEF Held, Settled
  <2> QED  BY <2>1, <2>2, HeldRequestBy
<1>2. ASSUME NEW c \in Calls, RequestBestEffort(c) PROVE Held'
  <2>1. socket \in Sockets
    BY <1>2 DEF RequestBestEffort, Ready, Open, TypeOK
  <2>2. \A r \in Requesters :
          pending'[r] = IF r = c THEN socket ELSE pending[r]
    BY <1>2, <2>1, TransmitFacts DEF RequestBestEffort
  <2>3. ASSUME NEW d \in Calls PROVE Settled(d)'
    BY <1>2, <2>1, <2>2 DEF RequestBestEffort, Held, Settled
  <2>4. StartHeld' /\ OneDial'
    BY <1>2, <2>2 DEF RequestBestEffort, Held, StartHeld, OneDial
  <2> QED  BY <2>3, <2>4 DEF Held
<1>3. ASSUME NEW c \in Calls, CallRejected(c) PROVE Held'
  <2>1. CASE awaiting' = awaiting \ {c}
             /\ UNCHANGED <<phase, late, waiters, requestVars, child, net>>
    BY <1>3, <2>1 DEF CallRejected, Held, Settled, StartHeld, OneDial
  <2>2. CASE RequestBy(c)
    <3>1. /\ c \notin waiters /\ pending[c] = None
          /\ c \in rejected /\ rejected' = rejected \ {c}
      BY <1>3 DEF CallRejected, Held, Settled
    <3> QED  BY <2>2, <3>1, HeldRequestBy
  <2> QED  BY <1>3, <2>1, <2>2 DEF CallRejected
<1>4. ASSUME NEW c \in Calls, Answer(c) PROVE Held'
  <2>1. \A r \in Requesters :
          pending'[r] = IF r = c THEN None ELSE pending[r]
    <3>1. Transmit({c}, {}, None, 2)  BY <1>4 DEF Answer
    <3> QED  BY ONLY TypeOK, <3>1, TransmitFacts DEF Requesters
  <2>2. \/ awaiting' = awaiting \ {c} /\ rejected' = rejected
        \/ awaiting' = awaiting /\ rejected' = rejected \cup {c}
    BY <1>4 DEF Answer
  <2>3. c \in awaiting /\ pending[c] # None  BY <1>4 DEF Answer, Held, Settled
  <2>4. UNCHANGED <<phase, waiters, net>>  BY <1>4 DEF Answer
  <2>5. ASSUME NEW d \in Calls PROVE Settled(d)'
    BY <2>1, <2>2, <2>3, <2>4 DEF Held, Settled
  <2>6. StartHeld' /\ OneDial'
    BY <2>1, <2>4 DEF Held, StartHeld, OneDial
  <2> QED  BY <2>5, <2>6 DEF Held
<1>5. ASSUME NEW r \in Requesters, RequestTimeout(r) PROVE Held'
  BY <1>5, HeldReject, {r} \subseteq Requesters DEF RequestTimeout
<1>6. CASE ForceReconnect(socket)  BY <1>6, HeldForce
<1>7. ASSUME NEW s \in Sockets, OpenSucceeds(s) PROVE Held'
  <2>1. \A r \in Requesters :
          pending'[r] = IF r = Start THEN s ELSE pending[r]
    BY <1>7, TransmitFacts DEF OpenSucceeds
  <2>2. /\ phase = "opening" /\ phase' = "initialize"
        /\ \A q \in Sockets : net'[q] # "connecting"
    BY <1>7 DEF OpenSucceeds, Held, OneDial, TypeOK
  <2>3. UNCHANGED <<waiters, rejected, awaiting>>  BY <1>7 DEF OpenSucceeds
  <2>4. ASSUME NEW d \in Calls PROVE Settled(d)'
    BY <2>1, <2>3 DEF Held, Settled
  <2>5. StartHeld' /\ OneDial'  BY <2>1, <2>2 DEF StartHeld, OneDial
  <2> QED  BY <2>4, <2>5 DEF Held
<1>8. ASSUME NEW s \in Sockets, OpenFails(s) PROVE Held'
  <2>1. /\ phase = "opening" /\ phase' = "sleeping"
        /\ \A q \in Sockets : net'[q] # "connecting"
        /\ UNCHANGED <<waiters, rejected, pending, awaiting>>
    BY <1>8 DEF OpenFails, Held, OneDial, TypeOK
  <2> QED  BY <2>1 DEF Held, Settled, StartHeld, OneDial
<1>9. ASSUME NEW s \in Sockets, InitializeAnswered(s) PROVE Held'
  <2>1. UNCHANGED <<waiters, rejected, awaiting, net>> /\ phase = "initialize"
    BY <1>9 DEF InitializeAnswered
  <2>2. CASE /\ Open(socket) /\ phase' = "account"
             /\ Transmit({Start}, {Start}, socket, 2)
    <3>1. socket \in Sockets  BY <2>2 DEF Open, TypeOK
    <3>2. \A r \in Requesters :
            pending'[r] = IF r = Start THEN socket ELSE pending[r]
      BY ONLY TypeOK, <2>2, <3>1, TransmitFacts
    <3>3. ASSUME NEW d \in Calls PROVE Settled(d)'
      BY <2>1, <3>2 DEF Held, Settled
    <3>4. StartHeld' /\ OneDial'
      BY <2>1, <2>2, <3>1, <3>2 DEF Held, StartHeld, OneDial
    <3> QED  BY <3>3, <3>4 DEF Held
  <2>3. CASE phase' = "failing" /\ Transmit({Start}, {}, None, 2)
    <3>1. \A r \in Requesters :
            pending'[r] = IF r = Start THEN None ELSE pending[r]
      <4>1. None \in Sockets \cup {None} /\ 2 \in 0..2  OBVIOUS
      <4> QED  BY ONLY TypeOK, <2>3, <4>1, TransmitFacts
    <3>2. ASSUME NEW d \in Calls PROVE Settled(d)'
      BY <2>1, <3>1 DEF Held, Settled
    <3>3. StartHeld' /\ OneDial'
      BY <2>1, <2>3, <3>1 DEF Held, StartHeld, OneDial
    <3> QED  BY <3>2, <3>3 DEF Held
  <2> QED  BY <1>9, <2>2, <2>3 DEF InitializeAnswered
<1>10. ASSUME NEW s \in Sockets, AccountAnswered(s) PROVE Held'
  <2> DEFINE served == waiters \ {Reconnect}
  <2>1. UNCHANGED <<awaiting, net>> /\ phase = "account"
    BY <1>10 DEF AccountAnswered
  <2>2. CASE /\ Open(socket) /\ phase' = "none" /\ waiters' = {}
             /\ Transmit({Start}, served, socket, 2)
             /\ UNCHANGED rejected
    <3>1. socket \in Sockets  BY <2>2 DEF Open, TypeOK
    <3>2. \A r \in Requesters :
            pending'[r] = IF r \in served THEN socket
                          ELSE IF r = Start THEN None ELSE pending[r]
      BY ONLY TypeOK, <2>2, <3>1, TransmitFacts
    <3>3. served \subseteq Calls  BY DEF TypeOK
    <3>4. ASSUME NEW d \in Calls PROVE Settled(d)'
      BY <2>1, <2>2, <3>1, <3>2 DEF Held, Settled
    <3>5. StartHeld' /\ OneDial'
      BY <2>1, <2>2, <3>2, <3>3 DEF Held, StartHeld, OneDial
    <3> QED  BY <3>4, <3>5 DEF Held
  <2>3. CASE /\ Transmit({Start}, {}, None, 2)
             /\ \/ /\ phase' = "none" /\ waiters' = {}
                   /\ rejected' = rejected \cup served
                \/ phase' = "failing" /\ UNCHANGED <<waiters, rejected>>
    <3>1. \A r \in Requesters :
            pending'[r] = IF r = Start THEN None ELSE pending[r]
      <4>1. None \in Sockets \cup {None} /\ 2 \in 0..2  OBVIOUS
      <4> QED  BY ONLY TypeOK, <2>3, <4>1, TransmitFacts
    <3>2. ASSUME NEW d \in Calls PROVE Settled(d)'
      BY <2>1, <2>3, <3>1 DEF Held, Settled
    <3>3. StartHeld' /\ OneDial'
      BY <2>1, <2>3, <3>1 DEF Held, StartHeld, OneDial
    <3> QED  BY <3>2, <3>3 DEF Held
  <2> QED  BY <1>10, <2>2, <2>3 DEF AccountAnswered, AccountRead
<1>11. ASSUME NEW s \in Sockets, Notification(s) \/ Pong(s) PROVE Held'
  <2>1. \A r \in Requesters : pending'[r] = pending[r]
    BY <1>11, TransmitFacts DEF Notification, Pong
  <2>2. UNCHANGED <<phase, waiters, rejected, awaiting, net>>
    BY <1>11 DEF Notification, Pong
  <2> QED  BY <2>1, <2>2 DEF Held, Settled, StartHeld, OneDial
<1>12. ASSUME NEW s \in Sockets, SocketDrop(s) \/ SocketError(s) PROVE Held'
  BY <1>12, HeldSame DEF SocketDrop, SocketError, TypeOK
<1>13. ASSUME NEW s \in Sockets, SocketClose(s) PROVE Held'
  BY <1>13, HeldReset DEF SocketClose, TypeOK
<1>14. CASE ProcessExit  BY <1>14, HeldReset DEF ProcessExit
<1>15. ASSUME NEW s \in Sockets, HeartbeatProbe(s) \/ HeartbeatTimeout(s)
       PROVE Held'
  BY <1>15, HeldSame DEF HeartbeatProbe, HeartbeatTimeout
<1>16. ASSUME NEW s \in Sockets, HeartbeatReconnects(s)
       PROVE  ForceReconnect(socket)
  BY <1>16 DEF HeartbeatReconnects, Watched
<1>17. ASSUME NEW r \in Requesters, RequestTimeoutReconnects(r)
       PROVE  ForceReconnect(socket)
  BY <1>17 DEF RequestTimeoutReconnects
<1>18. CASE Deadline  BY <1>18, HeldSame DEF Deadline
<1>19. CASE Redial
  <2>1. /\ phase = "sleeping" /\ UNCHANGED <<waiters, rejected, pending, awaiting>>
        /\ \/ phase' = "failing" /\ UNCHANGED net
           \/ Dial
    BY <1>19 DEF Redial
  <2>2. OneDial' /\ phase' \in {"failing", "opening"}
    <3>1. CASE phase' = "failing" /\ UNCHANGED net
      BY <2>1, <3>1 DEF Held, OneDial
    <3>2. CASE Dial  BY <2>1, <3>2, DialFacts DEF Held
    <3> QED  BY <2>1, <3>1, <3>2
  <2> QED  BY <2>1, <2>2 DEF Held, Settled, StartHeld
<1>20. CASE StartRejected
  <2>1. /\ phase = "failing" /\ phase' = "none" /\ waiters' = {}
        /\ rejected' = rejected \cup waiters
        /\ UNCHANGED <<pending, awaiting, net>>
    BY <1>20 DEF StartRejected
  <2> QED  BY <2>1 DEF Held, Settled, StartHeld, OneDial
<1>21. CASE TimerRejected
  <2>1. /\ rejected' = rejected \ {Reconnect}
        /\ UNCHANGED <<phase, waiters, pending, awaiting, net>>
    BY <1>21 DEF TimerRejected
  <2> QED  BY <2>1 DEF Held, Settled, StartHeld, OneDial
<1>22. CASE TimerFires
  <2>1. UNCHANGED <<rejected, pending, awaiting>>  BY <1>22 DEF TimerFires
  <2>2. CASE UNCHANGED <<phase, late, waiters, child, net>>
    BY <2>1, <2>2, HeldSame
  <2>3. CASE EnsureReady(Reconnect)
    <3>1. /\ OneDial' /\ phase' # "none"
          /\ phase' \in {"initialize", "account"} <=>
               phase \in {"initialize", "account"}
          /\ waiters' = waiters \cup {Reconnect}
      BY <2>3, EnsureReadyFacts
    <3> QED  BY <2>1, <3>1 DEF Held, Settled, StartHeld
  <2> QED  BY <1>22, <2>2, <2>3 DEF TimerFires
<1>23. CASE UNCHANGED vars  BY <1>23, HeldSame DEF vars
<1> QED
  BY <1>1, <1>2, <1>3, <1>4, <1>5, <1>6, <1>7, <1>8, <1>9, <1>10, <1>11, <1>12,
     <1>13, <1>14, <1>15, <1>16, <1>17, <1>18, <1>19, <1>20, <1>21, <1>22,
     <1>23 DEF Next, BackfillReconnects

\* Whatever sockets overlap and whatever callers do when a request fails,
\* every promise that is awaited is held by exactly one thing that settles it.
THEOREM NobodyForgotten == Spec => []NoLostCall
<1>1. Init => Held /\ SocketOpened
  BY HeldInit DEF Init, SocketOpened
<1>2. TypeOK /\ Held /\ SocketOpened /\ [Next]_vars => Held' /\ SocketOpened'
  BY HeldStep, OpenedStep
<1>3. Held => NoLostCall  BY HeldMeans
<1> QED  BY <1>1, <1>2, <1>3, ClientTypeCorrect, PTL DEF Spec

-----------------------------------------------------------------------------
(***************************************************************************)
(* One connection at a time: with no overlap of sockets, requests go out   *)
(* on the socket in use and only after its handshake.                      *)
(***************************************************************************)

\* What induction needs: initialized and the account step belong to the
\* socket in use, never to an earlier one.
Alone ==
  /\ OwnConnection /\ HandshakeFirst
  /\ initialized => socket \in greeted
  /\ phase = "account" => socket \in greeted

\* Requests only leave the map.
LEMMA AloneSame ==
  ASSUME Alone, UNCHANGED <<socket, greeted>>,
         \A r \in Requesters : pending'[r] \in {None, pending[r]},
         initialized' => initialized,
         phase' = "account" => phase = "account"
  PROVE  Alone'
BY DEF Alone, OwnConnection, HandshakeFirst

\* A reset empties the map and forgets the handshake.
LEMMA AloneReset ==
  ASSUME TypeOK, Held, NEW ws \in Sockets \cup {None}, ResetSocketState(ws)
  PROVE  Alone'
<1>1. /\ initialized' = FALSE
      /\ pending' = [r \in Requesters |-> None]
      /\ phase' = IF pending[Start] # None THEN "failing" ELSE phase
  BY ResetFacts
<1>2. phase' # "account"  BY <1>1 DEF Held, StartHeld
<1> QED  BY <1>1, <1>2 DEF Alone, OwnConnection, HandshakeFirst

\* A request sent while the bridge is ready goes out on the socket in use.
LEMMA AloneRequestBy ==
  ASSUME TypeOK, Held, Alone, NEW c \in Calls, RequestBy(c),
         UNCHANGED <<socket, initialized, greeted>>
  PROVE  Alone'
<1>1. CASE Ready /\ Transmit({}, {c}, socket, Silent) /\ UNCHANGED phase
  <2>1. socket \in greeted  BY <1>1 DEF Ready, Alone
  <2>2. \A r \in Requesters :
          pending'[r] = IF r = c THEN socket ELSE pending[r]
    BY <1>1, TransmitFacts DEF TypeOK
  <2> QED  BY <1>1, <2>1, <2>2 DEF Alone, OwnConnection, HandshakeFirst
<1>2. CASE UNCHANGED <<phase, requestVars>>  BY <1>2, AloneSame
<1>3. CASE EnsureReady(c) /\ UNCHANGED requestVars
  <2>1. phase' = "account" => phase = "account"
    BY <1>3 DEF EnsureReady, Dial
  <2> QED  BY <1>3, <2>1, AloneSame
<1> QED  BY <1>1, <1>2, <1>3 DEF RequestBy

LEMMA AloneStep ==
  ASSUME ~Overlap, TypeOK, Held, SocketOpened, Alone, [Next]_vars
  PROVE  Alone'
<1>1. ASSUME NEW c \in Calls, Request(c) PROVE Alone'
  BY <1>1, AloneRequestBy DEF Request
<1>2. ASSUME NEW c \in Calls, RequestBestEffort(c) PROVE Alone'
  <2>1. socket \in greeted  BY <1>2 DEF RequestBestEffort, Ready, Alone
  <2>2. \A r \in Requesters :
          pending'[r] = IF r = c THEN socket ELSE pending[r]
    BY <1>2, TransmitFacts DEF RequestBestEffort, TypeOK
  <2> QED
    BY <1>2, <2>1, <2>2
       DEF RequestBestEffort, Alone, OwnConnection, HandshakeFirst
<1>3. ASSUME NEW c \in Calls, CallRejected(c) PROVE Alone'
  <2>1. UNCHANGED <<socket, initialized, greeted>>  BY <1>3 DEF CallRejected
  <2>2. CASE RequestBy(c)  BY <2>1, <2>2, AloneRequestBy
  <2>3. CASE UNCHANGED <<phase, requestVars>>  BY <2>1, <2>3, AloneSame
  <2> QED  BY <1>3, <2>2, <2>3 DEF CallRejected
<1>4. ASSUME NEW c \in Calls, Answer(c) PROVE Alone'
  <2>1. \A r \in Requesters :
          pending'[r] = IF r = c THEN None ELSE pending[r]
    <3>1. Transmit({c}, {}, None, 2)  BY <1>4 DEF Answer
    <3> QED  BY ONLY TypeOK, <3>1, TransmitFacts DEF Requesters
  <2>2. UNCHANGED <<socket, initialized, phase, greeted>>
    BY <1>4 DEF Answer
  <2> QED  BY <2>1, <2>2, AloneSame
<1>5. ASSUME NEW r \in Requesters, RequestTimeout(r) PROVE Alone'
  <2>1. /\ \A q \in Requesters :
             pending'[q] = IF q \in {r} THEN None ELSE pending[q]
        /\ phase' = IF Start \in {r} THEN "failing" ELSE phase
    BY <1>5, RejectFacts, {r} \subseteq Requesters DEF RequestTimeout
  <2>2. UNCHANGED <<socket, initialized, greeted>>  BY <1>5 DEF RequestTimeout
  <2> QED  BY <2>1, <2>2, AloneSame
<1>6. CASE ForceReconnect(socket)
  BY <1>6, AloneReset DEF ForceReconnect, TypeOK
\* The socket opens when no other is left, so none was in use.
<1>7. ASSUME NEW s \in Sockets, OpenSucceeds(s) PROVE Alone'
  <2>1. socket = None
    BY <1>7 DEF OpenSucceeds, SocketOpened, TypeOK
  <2>2. (\A r \in Requesters : pending[r] = None) /\ ~initialized
    BY <2>1 DEF Alone, OwnConnection, TypeOK
  <2>3. \A r \in Requesters :
          pending'[r] = IF r = Start THEN s ELSE pending[r]
    BY <1>7, TransmitFacts DEF OpenSucceeds
  <2>4. socket' = s /\ ~initialized' /\ phase' = "initialize"
    BY <1>7, <2>2 DEF OpenSucceeds
  <2> QED  BY <2>2, <2>3, <2>4 DEF Alone, OwnConnection, HandshakeFirst
<1>8. ASSUME NEW s \in Sockets, OpenFails(s) PROVE Alone'
  BY <1>8, AloneSame DEF OpenFails
<1>9. ASSUME NEW s \in Sockets, InitializeAnswered(s) PROVE Alone'
  <2>1. UNCHANGED <<socket, initialized>> /\ socket = s
    BY <1>9 DEF InitializeAnswered, Alone, OwnConnection
  <2>2. CASE /\ phase' = "account" /\ greeted' = greeted \cup {s}
             /\ Transmit({Start}, {Start}, socket, 2)
    <3>1. \A r \in Requesters :
            pending'[r] = IF r = Start THEN socket ELSE pending[r]
      BY ONLY TypeOK, <2>1, <2>2, TransmitFacts
    <3> QED  BY <2>1, <2>2, <3>1 DEF Alone, OwnConnection, HandshakeFirst
  <2>3. CASE /\ phase' = "failing" /\ greeted \subseteq greeted'
             /\ Transmit({Start}, {}, None, 2)
    <3>1. \A r \in Requesters :
            pending'[r] = IF r = Start THEN None ELSE pending[r]
      <4>1. None \in Sockets \cup {None} /\ 2 \in 0..2  OBVIOUS
      <4> QED  BY ONLY TypeOK, <2>3, <4>1, TransmitFacts
    <3> QED  BY <2>1, <2>3, <3>1 DEF Alone, OwnConnection, HandshakeFirst
  <2> QED  BY <1>9, <2>2, <2>3 DEF InitializeAnswered
<1>10. ASSUME NEW s \in Sockets, AccountAnswered(s) PROVE Alone'
  <2> DEFINE served == waiters \ {Reconnect}
  <2>1. /\ UNCHANGED <<socket, greeted>> /\ phase' # "account"
        /\ socket \in greeted
    BY <1>10 DEF AccountAnswered, AccountRead, Alone
  <2>2. CASE Transmit({Start}, served, socket, 2)
    <3>1. \A r \in Requesters :
            pending'[r] = IF r \in served THEN socket
                          ELSE IF r = Start THEN None ELSE pending[r]
      <4>1. socket \in Sockets \cup {None} /\ 2 \in 0..2  BY DEF TypeOK
      <4> QED  BY ONLY TypeOK, <2>2, <4>1, TransmitFacts
    <3> QED  BY <2>1, <3>1 DEF Alone, OwnConnection, HandshakeFirst
  <2>3. CASE Transmit({Start}, {}, None, 2)
    <3>1. \A r \in Requesters :
            pending'[r] = IF r = Start THEN None ELSE pending[r]
      <4>1. None \in Sockets \cup {None} /\ 2 \in 0..2  OBVIOUS
      <4> QED  BY ONLY TypeOK, <2>3, <4>1, TransmitFacts
    <3> QED  BY <2>1, <3>1 DEF Alone, OwnConnection, HandshakeFirst
  <2> QED  BY <1>10, <2>2, <2>3 DEF AccountAnswered, AccountRead
<1>11. ASSUME NEW s \in Sockets, Notification(s) \/ Pong(s) PROVE Alone'
  <2>1. \A r \in Requesters : pending'[r] = pending[r]
    BY <1>11, TransmitFacts DEF Notification, Pong
  <2>2. UNCHANGED <<socket, initialized, phase, greeted>>
    BY <1>11 DEF Notification, Pong
  <2> QED  BY <2>1, <2>2, AloneSame
<1>12. ASSUME NEW s \in Sockets,
              \/ SocketDrop(s) \/ SocketError(s)
              \/ HeartbeatProbe(s) \/ HeartbeatTimeout(s)
       PROVE  Alone'
  BY <1>12, AloneSame
     DEF SocketDrop, SocketError, HeartbeatProbe, HeartbeatTimeout
<1>13. ASSUME NEW s \in Sockets, SocketClose(s) PROVE Alone'
  BY <1>13, AloneReset DEF SocketClose
<1>14. CASE ProcessExit  BY <1>14, AloneReset DEF ProcessExit
<1>15. ASSUME NEW s \in Sockets, HeartbeatReconnects(s)
       PROVE  ForceReconnect(socket)
  BY <1>15 DEF HeartbeatReconnects, Watched
<1>16. ASSUME NEW r \in Requesters, RequestTimeoutReconnects(r)
       PROVE  ForceReconnect(socket)
  BY <1>16 DEF RequestTimeoutReconnects
<1>17. CASE Deadline \/ Redial \/ StartRejected \/ TimerRejected
  BY <1>17, AloneSame DEF Deadline, Redial, Dial, StartRejected, TimerRejected
<1>18. CASE TimerFires
  <2>1. /\ UNCHANGED <<socket, initialized, requestVars, greeted>>
        /\ phase' = "account" => phase = "account"
    BY <1>18 DEF TimerFires, EnsureReady, Dial
  <2> QED  BY <2>1, AloneSame
<1>19. CASE UNCHANGED vars  BY <1>19, AloneSame DEF vars
<1> QED
  BY <1>1, <1>2, <1>3, <1>4, <1>5, <1>6, <1>7, <1>8, <1>9, <1>10, <1>11, <1>12,
     <1>13, <1>14, <1>15, <1>16, <1>17, <1>18, <1>19
     DEF Next, BackfillReconnects

\* Of the sockets that have opened, one at most has not reported its close.
OneLive == \A s, q \in Sockets : Delivering(s) /\ Delivering(q) => s = q

LEMMA OneLiveStep ==
  ASSUME ~Overlap, TypeOK, SocketOpened, OneLive, [Next]_vars
  PROVE  OneLive'
<1>1. ASSUME NEW s \in Sockets, OpenSucceeds(s) PROVE OneLive'
  <2>1. \A q \in Sockets : Delivering(q)' => q = s
    BY <1>1 DEF OpenSucceeds, Delivering, TypeOK
  <2> QED  BY <2>1 DEF OneLive
<1>2. CASE \A s \in Sockets : Delivering(s)' => Delivering(s)
  BY <1>2 DEF OneLive
<1>3. CASE ForceReconnect(socket)
  <2>1. \A s \in Sockets : Delivering(s)' => Delivering(s)
    BY <1>3 DEF ForceReconnect, SocketOpened, Delivering, TypeOK
  <2> QED  BY <2>1, <1>2
<1>4. ASSUME NEW c \in Calls,
             Request(c) \/ RequestBestEffort(c) \/ CallRejected(c) \/ Answer(c)
      PROVE  \A s \in Sockets : Delivering(s)' => Delivering(s)
  BY <1>4 DEF Request, RequestBestEffort, CallRejected, Answer, RequestBy,
              EnsureReady, Dial, Delivering, TypeOK
<1>5. ASSUME NEW r \in Requesters, RequestTimeout(r) PROVE net' = net
  BY <1>5 DEF RequestTimeout
<1>6. ASSUME NEW s \in Sockets,
             \/ OpenFails(s) \/ InitializeAnswered(s) \/ AccountAnswered(s)
             \/ Notification(s) \/ Pong(s)
             \/ SocketDrop(s) \/ SocketError(s) \/ SocketClose(s)
             \/ HeartbeatProbe(s) \/ HeartbeatTimeout(s)
      PROVE  \A q \in Sockets : Delivering(q)' => Delivering(q)
  BY <1>6 DEF OpenFails, InitializeAnswered, AccountAnswered, Notification,
              Pong, SocketDrop, SocketError, SocketClose, HeartbeatProbe,
              HeartbeatTimeout, Delivering, TypeOK
<1>7. CASE \/ Deadline \/ Redial \/ StartRejected \/ TimerRejected
           \/ TimerFires \/ ProcessExit \/ UNCHANGED vars
  <2>1. \A s \in Sockets : Delivering(s)' => Delivering(s)
    BY <1>7 DEF Deadline, Redial, StartRejected, TimerRejected, TimerFires,
                ProcessExit, vars, EnsureReady, Dial, Delivering, TypeOK
  <2> QED  BY <2>1, <1>2
<1>8. ASSUME NEW s \in Sockets, HeartbeatReconnects(s)
      PROVE  ForceReconnect(socket)
  BY <1>8 DEF HeartbeatReconnects, Watched
<1>9. ASSUME NEW r \in Requesters, RequestTimeoutReconnects(r)
      PROVE  ForceReconnect(socket)
  BY <1>9 DEF RequestTimeoutReconnects
<1>10. net' = net => \A s \in Sockets : Delivering(s)' => Delivering(s)
  BY DEF Delivering
<1> QED
  BY <1>1, <1>2, <1>3, <1>4, <1>5, <1>6, <1>7, <1>8, <1>9, <1>10
     DEF Next, BackfillReconnects

AloneInv == TypeOK /\ Held /\ SocketOpened /\ OneLive /\ Alone

LEMMA AloneHolds == ASSUME ~Overlap PROVE Spec => []AloneInv
<1>1. Init => Held /\ SocketOpened /\ OneLive /\ Alone
  BY HeldInit DEF Init, SocketOpened, OneLive, Delivering, Alone,
                  OwnConnection, HandshakeFirst
<1>2. TypeOK /\ Held /\ SocketOpened /\ OneLive /\ Alone /\ [Next]_vars
        => Held' /\ SocketOpened' /\ OneLive' /\ Alone'
  BY HeldStep, OpenedStep, OneLiveStep, AloneStep
<1> QED  BY <1>1, <1>2, ClientTypeCorrect, PTL DEF Spec, AloneInv

\* With one connection at a time, a request in the map was sent on the socket
\* in use, so the close that rejects it is its own.
THEOREM OneConnection == ASSUME ~Overlap PROVE Spec => []OwnConnection
<1>1. AloneInv => OwnConnection  BY DEF AloneInv, Alone
<1> QED  BY <1>1, AloneHolds, PTL

\* With one connection at a time, a caller's request goes out only after
\* app-server has answered initialize on that socket.
THEOREM HandshakeKept == ASSUME ~Overlap PROVE Spec => []HandshakeFirst
<1>1. AloneInv => HandshakeFirst  BY DEF AloneInv, Alone
<1> QED  BY <1>1, AloneHolds, PTL

-----------------------------------------------------------------------------
(***************************************************************************)
(* Reconnection                                                            *)
(***************************************************************************)

\* A start that has failed is over before its waiters are told, and while a
\* start exchanges messages the link can only be down because the socket is
\* closing.
Reattempt ==
  /\ Reconnect \in rejected => phase = "none"
  /\ phase \in {"initialize", "account"} /\ ~connected
       => net[socket] = "closing"

LEMMA ReattemptSame ==
  ASSUME Reattempt, Held, UNCHANGED <<socket, connected>>,
         net'[socket] = net[socket] \/ net'[socket] = "closing",
         Reconnect \in rejected' => Reconnect \in rejected,
         phase' = phase \/ ~(Reconnect \in rejected),
         phase' \in {"initialize", "account"}
           => phase \in {"initialize", "account"}
  PROVE  Reattempt'
BY DEF Reattempt

\* After a reset the start, if any, has failed.
LEMMA ReattemptReset ==
  ASSUME TypeOK, Held, Drained, NEW ws \in Sockets \cup {None},
         ResetSocketState(ws)
  PROVE  Reattempt'
<1>1. /\ rejected' = rejected \cup {c \in Calls : pending[c] # None}
      /\ phase' = IF pending[Start] # None THEN "failing" ELSE phase
  BY ResetFacts
<1>2. Reconnect \notin rejected'  BY <1>1 DEF Drained
<1>3. phase' \notin {"initialize", "account"}
  BY <1>1 DEF Held, StartHeld
<1> QED  BY <1>2, <1>3 DEF Reattempt

LEMMA ReattemptStep ==
  ASSUME "retry" \notin Reactions, TypeOK, Held, SocketOpened, OneLive,
         Alone, Reattempt, [Next]_vars
  PROVE  Reattempt'
<1>1. ASSUME phase \in {"initialize", "account"}
      PROVE  socket \in Sockets /\ net[socket] \in {"open", "closing"}
  BY <1>1 DEF Held, StartHeld, Alone, OwnConnection, SocketOpened, TypeOK
<1>2. ASSUME NEW c \in Calls, Request(c) \/ RequestBestEffort(c)
      PROVE  Reattempt'
  <2>1. /\ UNCHANGED <<socket, connected>> /\ Drained /\ rejected' = rejected
        /\ \A s \in Sockets : net'[s] = net[s] \/ net[s] = "free"
        /\ phase' = phase \/ phase' = "opening"
    BY <1>2 DEF Request, RequestBestEffort, RequestBy, EnsureReady, Dial, TypeOK
  <2> QED  BY <1>1, <2>1 DEF Reattempt, Drained
<1>3. ASSUME NEW c \in Calls, CallRejected(c) PROVE Reattempt'
  <2>1. /\ UNCHANGED <<socket, connected, phase, net>>
        /\ rejected' = rejected \ {c}
    BY <1>3 DEF CallRejected
  <2> QED  BY <2>1 DEF Reattempt
<1>4. ASSUME NEW c \in Calls, Answer(c) PROVE Reattempt'
  <2>1. /\ UNCHANGED <<socket, connected, phase, net>> /\ Drained
        /\ rejected' \subseteq rejected \cup {c}
    BY <1>4 DEF Answer
  <2> QED  BY <2>1 DEF Reattempt, Drained
<1>5. ASSUME NEW r \in Requesters, RequestTimeout(r) PROVE Reattempt'
  <2>1. /\ rejected' = rejected \cup ({r} \ {Start})
        /\ phase' = IF Start \in {r} THEN "failing" ELSE phase
    BY <1>5, RejectFacts, {r} \subseteq Requesters DEF RequestTimeout
  <2>2. UNCHANGED <<socket, connected, net>> /\ Drained
    BY <1>5 DEF RequestTimeout
  <2> QED  BY <2>1, <2>2 DEF Reattempt, Drained
<1>6. CASE Drained /\ ForceReconnect(socket)
  BY <1>6, ReattemptReset DEF ForceReconnect, TypeOK
<1>7. ASSUME NEW s \in Sockets, OpenSucceeds(s) PROVE Reattempt'
  BY <1>7 DEF OpenSucceeds, Drained, Reattempt
<1>8. ASSUME NEW s \in Sockets, OpenFails(s) PROVE Reattempt'
  BY <1>8 DEF OpenFails, Drained, Reattempt
<1>9. ASSUME NEW s \in Sockets, InitializeAnswered(s) PROVE Reattempt'
  BY <1>9 DEF InitializeAnswered, Drained, Reattempt
<1>10. ASSUME NEW s \in Sockets, AccountAnswered(s) PROVE Reattempt'
  <2>1. /\ Drained /\ phase' \in {"none", "failing"}
        /\ rejected' \subseteq rejected \cup (waiters \ {Reconnect})
    BY <1>10 DEF AccountAnswered, AccountRead
  <2> QED  BY <2>1 DEF Drained, Reattempt
<1>11. ASSUME NEW s \in Sockets,
              \/ Notification(s) \/ Pong(s) \/ HeartbeatProbe(s)
              \/ HeartbeatTimeout(s)
       PROVE  Reattempt'
  BY <1>11, ReattemptSame
     DEF Notification, Pong, HeartbeatProbe, HeartbeatTimeout
<1>12. ASSUME NEW s \in Sockets, SocketDrop(s) PROVE Reattempt'
  <2>1. /\ UNCHANGED <<socket, connected, phase, rejected>>
        /\ \A q \in Sockets : net'[q] = net[q] \/ net'[q] = "closing"
    BY <1>12 DEF SocketDrop, TypeOK
  <2> QED  BY <1>1, <2>1 DEF Reattempt
<1>13. ASSUME NEW s \in Sockets, SocketError(s) PROVE Reattempt'
  <2>1. phase \in {"initialize", "account"} => s = socket
    BY <1>1, <1>13 DEF SocketError, OneLive, Delivering
  <2> QED  BY <1>13, <2>1 DEF SocketError, Reattempt, TypeOK
<1>14. ASSUME NEW s \in Sockets, SocketClose(s) PROVE Reattempt'
  BY <1>14, ReattemptReset DEF SocketClose
<1>15. CASE ProcessExit  BY <1>15, ReattemptReset DEF ProcessExit
<1>16. ASSUME NEW s \in Sockets, HeartbeatReconnects(s)
       PROVE  Drained /\ ForceReconnect(socket)
  BY <1>16 DEF HeartbeatReconnects, Watched
<1>17. ASSUME NEW r \in Requesters, RequestTimeoutReconnects(r)
       PROVE  Drained /\ ForceReconnect(socket)
  BY <1>17 DEF RequestTimeoutReconnects
<1>18. CASE Deadline  BY <1>18 DEF Deadline, Reattempt
<1>19. CASE Redial
  BY <1>19 DEF Redial, Dial, Drained, Reattempt
<1>20. CASE StartRejected
  BY <1>20 DEF StartRejected, Reattempt
<1>21. CASE TimerRejected
  BY <1>21 DEF TimerRejected, Reattempt
<1>22. CASE TimerFires
  <2>1. /\ UNCHANGED <<socket, connected>> /\ Drained /\ rejected' = rejected
        /\ \A s \in Sockets : net'[s] = net[s] \/ net[s] = "free"
        /\ phase' = phase \/ phase' = "opening"
    BY <1>22 DEF TimerFires, EnsureReady, Dial, TypeOK
  <2> QED  BY <1>1, <2>1 DEF Reattempt, Drained
<1>23. CASE UNCHANGED vars  BY <1>23 DEF vars, Reattempt
<1> QED
  BY <1>2, <1>3, <1>4, <1>5, <1>6, <1>7, <1>8, <1>9, <1>10, <1>11, <1>12, <1>13,
     <1>14, <1>15, <1>16, <1>17, <1>18, <1>19, <1>20, <1>21, <1>22, <1>23
     DEF Next, BackfillReconnects

\* The two ways an undertaking ends: the start succeeds, or the timer's own
\* rejection finds the bridge ready.
LEMMA UndertakingEnds ==
  ASSUME TypeOK, Held, SocketOpened, OneLive, Alone, Reattempt,
         [Next]_vars, Undertaken, ~Undertaken'
  PROVE  Ready' \/ \E s \in Sockets : net'[s] = "closing"
<1>1. ASSUME NEW s \in Sockets, AccountAnswered(s)
      PROVE  Ready' \/ net'[s] = "closing"
  <2>1. /\ s = socket /\ phase = "account"
        /\ net[s] \in {"open", "closing"}
    BY <1>1 DEF AccountAnswered, Delivering, Alone, OwnConnection
  <2>2. net[s] = "open" => connected  BY <2>1 DEF Reattempt
  <2>3. CASE AccountRead(s)
    <3>1. /\ initialized' = TRUE /\ UNCHANGED <<socket, connected, net>>
      BY <1>1, <2>3 DEF AccountAnswered, AccountRead
    <3> QED  BY <2>1, <2>2, <3>1 DEF Ready, Open
  <2>4. CASE UNCHANGED <<timer, waiters, rejected>>
    BY <2>4 DEF Undertaken
  <2> QED  BY <1>1, <2>3, <2>4 DEF AccountAnswered
<1>2. CASE TimerRejected
  <2>1. ~Busy  BY <1>2 DEF TimerRejected, Reattempt, Busy
  <2>2. timer' = (timer \/ ~Ready)  BY <1>2, <2>1 DEF TimerRejected, Scheduled
  <2>3. Ready  BY <2>2 DEF Undertaken
  <2> QED  BY <1>2, <2>3 DEF TimerRejected, Ready, Open
<1>3. CASE TimerFires
  <2>1. CASE Ready /\ UNCHANGED <<phase, late, waiters, child, net>>
    BY <1>3, <2>1 DEF TimerFires, Ready, Open
  <2>2. CASE EnsureReady(Reconnect)
    BY <2>2 DEF EnsureReady, Undertaken
  <2> QED  BY <1>3, <2>1, <2>2 DEF TimerFires
<1>4. ASSUME timer => timer',
             Reconnect \in waiters \cup rejected
               => Reconnect \in waiters' \cup rejected'
      PROVE  FALSE
  BY <1>4 DEF Undertaken
<1>5. ASSUME NEW ws \in Sockets \cup {None}, ResetSocketState(ws),
             timer => timer'
      PROVE  FALSE
  <2>1. rejected \subseteq rejected' /\ waiters' = waiters
    BY <1>5, ResetFacts
  <2> QED  BY <1>4, <1>5, <2>1
<1>6. CASE ForceReconnect(socket)
  <2>1. /\ socket \in Sockets \cup {None} /\ ResetSocketState(socket)
        /\ timer => timer'
    BY <1>6 DEF ForceReconnect, Scheduled, TypeOK
  <2> QED  BY <1>5, <2>1
<1>7. ASSUME NEW s \in Sockets, SocketClose(s) PROVE FALSE
  <2>1. ResetSocketState(s) /\ (timer => timer')
    BY <1>7 DEF SocketClose, Scheduled
  <2> QED  BY <1>5, <2>1
<1>8. CASE ProcessExit
  <2>1. ResetSocketState(None) /\ (timer => timer')
    BY <1>8 DEF ProcessExit
  <2> QED  BY <1>5, <2>1
<1>9. ASSUME NEW c \in Calls,
             Request(c) \/ RequestBestEffort(c) \/ CallRejected(c) \/ Answer(c)
      PROVE  FALSE
  <2>2. CASE RequestBy(c) /\ UNCHANGED timer
    <3>1. waiters \subseteq waiters'
      BY <2>2 DEF RequestBy, EnsureReady, Held, StartHeld, Busy
    <3>2. Reconnect \in rejected => Reconnect \in rejected'
      BY <1>9 DEF Request, RequestBestEffort, CallRejected, Answer
    <3> QED  BY <2>2, <3>1, <3>2, <1>4
  <2>3. CASE UNCHANGED waiters /\ (timer => timer')
    <3>1. Reconnect \in rejected => Reconnect \in rejected'
      BY <1>9 DEF Request, RequestBestEffort, CallRejected, Answer
    <3> QED  BY <2>3, <3>1, <1>4
  <2>4. CASE Request(c) \/ RequestBestEffort(c) \/ Answer(c)
    <3>1. (RequestBy(c) /\ UNCHANGED timer) \/ UNCHANGED <<waiters, timer>>
      BY <2>4 DEF Request, RequestBestEffort, Answer
    <3> QED  BY <3>1, <2>2, <2>3
  <2>5. CASE CallRejected(c)
    <3>1. \/ RequestBy(c) /\ UNCHANGED timer
          \/ UNCHANGED <<waiters, timer>>
          \/ UNCHANGED waiters /\ timer' = Scheduled(Busy, Ready)
      BY <2>5 DEF CallRejected
    <3>2. timer' = Scheduled(Busy, Ready) => (timer => timer')
      BY DEF Scheduled
    <3> QED  BY <3>1, <3>2, <2>2, <2>3
  <2> QED  BY <1>9, <2>4, <2>5
<1>10. ASSUME NEW r \in Requesters, RequestTimeout(r) PROVE FALSE
  <2>1. rejected \subseteq rejected'
    BY <1>10, RejectFacts, {r} \subseteq Requesters DEF RequestTimeout
  <2> QED  BY <1>10, <2>1, <1>4 DEF RequestTimeout
<1>11. ASSUME NEW s \in Sockets,
              \/ OpenSucceeds(s) \/ OpenFails(s) \/ InitializeAnswered(s)
              \/ Notification(s) \/ Pong(s) \/ SocketDrop(s) \/ SocketError(s)
              \/ HeartbeatProbe(s) \/ HeartbeatTimeout(s)
       PROVE  FALSE
  <2>1. UNCHANGED <<timer, waiters, rejected>>
    BY <1>11 DEF OpenSucceeds, OpenFails, InitializeAnswered, Notification,
                 Pong, SocketDrop, SocketError, HeartbeatProbe,
                 HeartbeatTimeout
  <2> QED  BY <2>1 DEF Undertaken
<1>12. CASE Deadline \/ Redial \/ StartRejected
  <2>1. timer => timer'
    BY <1>12 DEF Deadline, Redial, StartRejected, Scheduled
  <2>2. waiters \cup rejected \subseteq waiters' \cup rejected'
    <3>1. CASE Deadline \/ Redial  BY <3>1 DEF Deadline, Redial
    <3>2. CASE StartRejected  BY <3>2 DEF StartRejected
    <3> QED  BY <1>12, <3>1, <3>2
  <2>3. Reconnect \in waiters \cup rejected
          => Reconnect \in waiters' \cup rejected'
    BY <2>2
  <2> QED  BY <2>1, <2>3, <1>4
<1>13. CASE UNCHANGED vars
  <2>1. timer' = timer /\ waiters' = waiters /\ rejected' = rejected
    BY <1>13 DEF vars
  <2> QED  BY <2>1, <1>4
<1>14. ASSUME NEW s \in Sockets, HeartbeatReconnects(s)
       PROVE  ForceReconnect(socket)
  BY <1>14 DEF HeartbeatReconnects, Watched
<1>15. ASSUME NEW r \in Requesters, RequestTimeoutReconnects(r)
       PROVE  ForceReconnect(socket)
  BY <1>15 DEF RequestTimeoutReconnects
<1> QED
  BY <1>1, <1>2, <1>3, <1>6, <1>7, <1>8, <1>9, <1>10, <1>11, <1>12, <1>13,
     <1>14, <1>15 DEF Next, BackfillReconnects

\* With one connection at a time and callers that do not ask again at once,
\* a reconnection the bridge has undertaken is carried on until it is
\* connected or a close is due that schedules it again.
THEOREM ReconnectionKept ==
  ASSUME ~Overlap, "retry" \notin Reactions
  PROVE  Spec => KeptReconnecting
<1>1. Init => Reattempt  BY DEF Init, Reattempt
<1>2. AloneInv /\ Reattempt /\ [Next]_vars => Reattempt'
  BY ReattemptStep DEF AloneInv
<1>3. AloneInv /\ Reattempt /\ [Next]_vars
        => [Undertaken /\ ~Undertaken' =>
              Ready' \/ \E s \in Sockets : net'[s] = "closing"]_vars
  BY UndertakingEnds DEF AloneInv
<1> QED  BY <1>1, <1>2, <1>3, AloneHolds, PTL DEF Spec, KeptReconnecting
=============================================================================
