--------------------------- MODULE AppServerClient ---------------------------
(***************************************************************************)
(* The bridge's connection to the Codex app-server: class AppServerClient  *)
(* of services/codex-adapter/src/index.js.  It starts the process, opens a *)
(* WebSocket, performs the initialize and account/read exchange, matches   *)
(* answers to requests, times requests out, probes a silent socket, and    *)
(* reconnects with a timer.                                                *)
(*                                                                         *)
(* A socket callback or a timer callback is one action.  Promise reactions *)
(* that run before the next callback are actions too, because their order  *)
(* is not fixed by the class: the rejection of the start in progress and   *)
(* of the requests it served ("failing", rejected).  No callback runs      *)
(* while such a reaction is due (Drained).                                 *)
(*                                                                         *)
(* Time is abstract: a timeout may fire whenever what it waits for is      *)
(* still missing, and a socket identity is reused once its close event has *)
(* been delivered.                                                         *)
(***************************************************************************)
EXTENDS Integers, FiniteSets

CONSTANTS
  Sockets,     \* bound on the WebSockets alive at a time
  Calls,       \* callers of request(), one request each at a time
  BestEffort,  \* callers of requestAppServerBestEffort
  None,
  Start,       \* the requester behind start(): initialize, account/read
  Reconnect,   \* the reconnect timer, as a caller of ensureReady
  Autostart,   \* APP_SERVER_AUTOSTART
  Misses,      \* APP_SERVER_..._FORCE_RECONNECT_MISSES, both 2 by default
  Overlap,     \* a socket may open before an older one has reported its close
  Reactions    \* what callers do when they learn that a request failed

ReactionKinds == {"fail", "retry", "schedule"}

ASSUME NamesAssumption == /\ None \notin Sockets
                          /\ Start \notin Calls
                          /\ Reconnect \notin Calls
                          /\ BestEffort \subseteq Calls
ASSUME MissesAssumption == Misses \in Nat \ {0}
ASSUME FlagsAssumption == /\ Autostart \in BOOLEAN
                          /\ Overlap \in BOOLEAN
                          /\ Reactions \subseteq ReactionKinds

VARIABLES
  \* The client's fields.
  socket,       \* this.socket
  connected,
  initialized,
  signedIn,     \* this.account passes assertUsable
  phase,        \* readyPromise: what its start() awaits; "none" when null
  late,         \* connectSocket's APP_SERVER_STARTUP_TIMEOUT_MS has passed
  waiters,      \* who awaits readyPromise
  rejected,     \* who has been rejected and has not reacted yet
  pending,      \* requests: the socket the requester's request was sent on
  seen,         \* what was received since that request was sent
  missed,       \* requestTimeoutWithoutMessageCount
  heart,        \* the socket heartbeatTimer watches
  probe,        \* heartbeatProbeSentAt > 0
  beats,        \* heartbeatTimeoutCount
  timer,        \* reconnectTimer is set
  child,        \* the app-server process was started and has not exited
  \* Outside the client.
  awaiting,     \* the callers whose promise is not settled
  net,          \* readyState of each WebSocket object
  greeted       \* sockets on which app-server has answered initialize

readyVars == <<phase, late, waiters, rejected>>
requestVars == <<pending, seen>>
heartVars == <<heart, probe, beats>>
vars == <<socket, connected, initialized, signedIn, readyVars, requestVars,
          missed, heartVars, timer, child, awaiting, net, greeted>>

Requesters == Calls \cup {Start}
Phases == {"none", "opening", "sleeping", "initialize", "account", "failing"}
\* What has arrived since a request was sent: nothing, a ping or pong, a message.
Silent == 0
Active == 1
Messaged == 2

TypeOK ==
  /\ socket \in Sockets \cup {None}
  /\ connected \in BOOLEAN /\ initialized \in BOOLEAN /\ signedIn \in BOOLEAN
  /\ phase \in Phases /\ late \in BOOLEAN
  /\ waiters \subseteq Calls \cup {Reconnect}
  /\ rejected \subseteq Calls \cup {Reconnect}
  /\ pending \in [Requesters -> Sockets \cup {None}]
  /\ seen \in [Requesters -> Silent..Messaged]
  /\ missed \in 0..Misses
  /\ heart \in Sockets \cup {None} /\ probe \in BOOLEAN /\ beats \in 0..Misses
  /\ timer \in BOOLEAN /\ child \in BOOLEAN
  /\ awaiting \subseteq Calls
  /\ net \in [Sockets -> {"free", "connecting", "open", "closing"}]
  /\ greeted \subseteq Sockets

Init ==
  /\ socket = None /\ connected = FALSE /\ initialized = FALSE
  /\ signedIn = FALSE
  /\ phase = "none" /\ late = FALSE /\ waiters = {} /\ rejected = {}
  /\ pending = [r \in Requesters |-> None]
  /\ seen = [r \in Requesters |-> Silent]
  /\ missed = 0
  /\ heart = None /\ probe = FALSE /\ beats = 0
  /\ timer = FALSE /\ child = FALSE
  /\ awaiting = {}
  /\ net = [s \in Sockets |-> "free"]
  /\ greeted = {}

-----------------------------------------------------------------------------
(* Shared steps. *)

Open(s) == s # None /\ net[s] = "open"

\* Frames already received are still emitted while the socket closes.
Delivering(s) == net[s] \in {"open", "closing"}

\* The fast path of ensureReady.
ReadyOnceOpen == connected /\ Open(socket)
Ready == connected /\ initialized /\ Open(socket)

Busy == phase # "none"

Drained == phase # "failing" /\ rejected = {}

StartsPending == {r \in {Start} : pending[r] # None}
Pending == {r \in Requesters : pending[r] # None}

Capped(n) == IF n < Misses THEN n ELSE Misses

\* reconnectTimer after scheduleReconnect.
Scheduled(busy, up) == timer \/ (~busy /\ ~up)

\* The requests in done leave the map, those in new are sent on ws.
\* "Since" is a comparison of millisecond clocks: what arrived in the
\* millisecond a request was sent in counts, so a new request starts at any
\* level.
Transmit(done, new, ws, level) ==
  /\ pending' = [r \in Requesters |->
       IF r \in new THEN ws ELSE IF r \in done THEN None ELSE pending[r]]
  /\ seen' \in {[r \in Requesters |->
       IF r \in new THEN fresh
       ELSE IF r \in done \/ pending[r] = None THEN Silent
       ELSE IF seen[r] < level THEN level ELSE seen[r]]
         : fresh \in IF new = {} THEN {Silent} ELSE Silent..Messaged}

\* markSocketActivity.
MarkSocketActivity(level) ==
  /\ probe' = FALSE /\ beats' = 0
  /\ missed' = IF level = Messaged THEN 0 ELSE missed

\* pending.reject: start() fails in a later reaction, a caller reacts.
RejectNobody(R) ==
  /\ Transmit(R, {}, None, Silent)
  /\ phase' = IF Start \in R THEN "failing" ELSE phase
  /\ UNCHANGED rejected

Reject(R) ==
  /\ Transmit(R, {}, None, Silent)
  /\ rejected' = rejected \cup (R \ {Start})
  /\ phase' = IF Start \in R THEN "failing" ELSE phase

StopAnyHeartbeat(ws) == heart' = None /\ probe' = FALSE /\ beats' = 0
StopHeartbeat(ws) ==
  IF ws # None /\ socket' # None /\ socket' # ws
  THEN UNCHANGED heartVars
  ELSE heart' = None /\ probe' = FALSE /\ beats' = 0

ResetSocketState(ws) ==
  /\ connected' = FALSE /\ initialized' = FALSE /\ missed' = 0
  /\ socket' = IF ws = None \/ socket = ws THEN None ELSE socket
  /\ StopHeartbeat(ws)
  /\ Reject(Pending)
  /\ UNCHANGED <<signedIn, late, waiters, awaiting>>

\* Called with the current socket; a stale one is left alone.
ForceReconnect(ws) ==
  /\ ws # None
  /\ ResetSocketState(ws)
  /\ timer' = Scheduled(Busy, FALSE)
  /\ net' = [net EXCEPT ![ws] = "closing"]
  /\ UNCHANGED <<child, greeted>>

-----------------------------------------------------------------------------
(* ensureReady and start. *)

\* new WebSocket
Dial ==
  /\ phase' = "opening"
  /\ \E s \in Sockets : /\ net[s] = "free"
                        /\ net' = [net EXCEPT ![s] = "connecting"]

\* The slow path: join the start in progress or begin one.
EnsureReady(who) ==
  \/ /\ Busy
     /\ waiters' = waiters \cup {who}
     /\ UNCHANGED <<phase, late, child, net>>
  \/ /\ ~Busy
     /\ waiters' = {who} /\ late' = FALSE
     /\ child' = (child \/ Autostart)
     /\ Dial

\* request() up to its first wait.
RequestBy(c) ==
  \/ /\ Ready /\ signedIn
     /\ Transmit({}, {c}, socket, Silent)
     /\ awaiting' = awaiting \cup {c}
     /\ UNCHANGED <<phase, late, waiters, child, net>>
  \/ /\ Ready /\ ~signedIn
     /\ awaiting' = awaiting \ {c}
     /\ UNCHANGED <<phase, late, waiters, requestVars, child, net>>
  \/ /\ ~Ready
     /\ EnsureReady(c)
     /\ awaiting' = awaiting \cup {c}
     /\ UNCHANGED requestVars

Request(c) ==
  /\ Drained
  /\ c \notin awaiting /\ c \notin BestEffort
  /\ RequestBy(c)
  /\ UNCHANGED <<socket, connected, initialized, signedIn, rejected, missed,
                 heartVars, timer, greeted>>

RequestBestEffort(c) ==
  /\ Drained
  /\ c \notin awaiting /\ c \in BestEffort
  /\ Ready
  /\ Transmit({}, {c}, socket, Silent)
  /\ awaiting' = awaiting \cup {c}
  /\ UNCHANGED <<socket, connected, initialized, signedIn, readyVars, missed,
                 heartVars, timer, child, net, greeted>>

OpenSucceeds(s) ==
  /\ Drained /\ net[s] = "connecting"
  /\ Overlap \/ \A q \in Sockets \ {s} : net[q] = "free"
  /\ net' = [net EXCEPT ![s] = "open"]
  /\ socket' = s /\ connected' = TRUE
  /\ heart' = s
  /\ MarkSocketActivity(Active)
  /\ Transmit({}, {Start}, s, Active)
  /\ phase' = "initialize"
  /\ UNCHANGED <<initialized, signedIn, late, waiters, rejected, timer, child,
                 awaiting, greeted>>

OpenFails(s) ==
  /\ Drained /\ net[s] = "connecting"
  /\ net' = [net EXCEPT ![s] = "free"]
  /\ phase' = "sleeping"
  /\ UNCHANGED <<socket, connected, initialized, signedIn, late, waiters,
                 rejected, requestVars, missed, heartVars, timer, child,
                 awaiting, greeted>>

\* APP_SERVER_STARTUP_TIMEOUT_MS passes while connectSocket tries.
Deadline ==
  /\ Drained /\ phase \in {"opening", "sleeping"} /\ ~late
  /\ late' = TRUE
  /\ UNCHANGED <<socket, connected, initialized, signedIn, phase, waiters,
                 rejected, requestVars, missed, heartVars, timer, child,
                 awaiting, net, greeted>>

\* The 300 ms pause is over: try again, or give up after the deadline.
RedialForever ==
  /\ Drained /\ phase = "sleeping"
  /\ Dial
  /\ UNCHANGED <<socket, connected, initialized, signedIn, late, waiters,
                 rejected, requestVars, missed, heartVars, timer, child,
                 awaiting, greeted>>

Redial ==
  /\ Drained /\ phase = "sleeping"
  /\ \/ late /\ phase' = "failing" /\ UNCHANGED net
     \/ ~late /\ Dial
  /\ UNCHANGED <<socket, connected, initialized, signedIn, late, waiters,
                 rejected, requestVars, missed, heartVars, timer, child,
                 awaiting, greeted>>

\* The answer to initialize; account/read follows on the current socket and
\* throws when that has begun to close.
InitializeAnswered(s) ==
  /\ Drained /\ phase = "initialize" /\ pending[Start] = s /\ Delivering(s)
  /\ MarkSocketActivity(Messaged)
  /\ \/ /\ Open(socket)
        /\ phase' = "account" /\ greeted' = greeted \cup {s}
        /\ Transmit({Start}, {Start}, socket, Messaged)
     \/ /\ ~Open(socket)
        /\ phase' = "failing" /\ greeted' = greeted \cup {s}
        /\ Transmit({Start}, {}, None, Messaged)
     \/ /\ phase' = "failing" /\ UNCHANGED greeted
        /\ Transmit({Start}, {}, None, Messaged)
  /\ UNCHANGED <<socket, connected, initialized, signedIn, late, waiters,
                 rejected, heart, timer, child, awaiting, net>>

\* The answer to account/read: readyPromise resolves and the callers that
\* waited for it send their requests.
AccountRead(s) ==
  LET served == waiters \ {Reconnect} IN
  /\ initialized' = TRUE
  /\ signedIn' \in BOOLEAN
  /\ timer' = FALSE
  /\ phase' = "none" /\ waiters' = {}
  /\ \/ /\ signedIn' /\ Open(socket)
        /\ Transmit({Start}, served, socket, Messaged)
        /\ UNCHANGED rejected
     \/ /\ ~(signedIn' /\ Open(socket))
        /\ Transmit({Start}, {}, None, Messaged)
        /\ rejected' = rejected \cup served

AccountAnswered(s) ==
  /\ Drained /\ phase = "account" /\ pending[Start] = s /\ Delivering(s)
  /\ MarkSocketActivity(Messaged)
  /\ \/ AccountRead(s)
     \/ /\ phase' = "failing"
        /\ Transmit({Start}, {}, None, Messaged)
        /\ UNCHANGED <<initialized, signedIn, timer, waiters, rejected>>
  /\ UNCHANGED <<socket, connected, late, heart, child, awaiting, net, greeted>>

\* catch, which calls scheduleReconnect, before finally, which clears
\* readyPromise.
StartRejected ==
  /\ phase = "failing"
  /\ timer' = Scheduled(Busy, Ready)
  /\ phase' = "none" /\ waiters' = {}
  /\ rejected' = rejected \cup waiters
  /\ UNCHANGED <<socket, connected, initialized, signedIn, late, requestVars,
                 missed, heartVars, child, awaiting, net, greeted>>

-----------------------------------------------------------------------------
(* Callers. *)

\* A caller whose request was rejected gives up, calls scheduleReconnect
\* (the issue start pipeline), or asks again at once (a loop over threads).
CallRejected(c) ==
  /\ c \in rejected
  /\ rejected' = rejected \ {c}
  /\ \/ /\ "fail" \in Reactions \/ c \in BestEffort
        /\ awaiting' = awaiting \ {c}
        /\ UNCHANGED <<phase, late, waiters, requestVars, timer, child, net>>
     \/ /\ "schedule" \in Reactions /\ c \notin BestEffort
        /\ awaiting' = awaiting \ {c}
        /\ timer' = Scheduled(Busy, Ready)
        /\ UNCHANGED <<phase, late, waiters, requestVars, child, net>>
     \/ /\ "retry" \in Reactions /\ c \notin BestEffort
        /\ RequestBy(c)
        /\ UNCHANGED timer
  /\ UNCHANGED <<socket, connected, initialized, signedIn, missed, heartVars,
                 greeted>>

\* A result, or an error object that rejects.
Answer(c) ==
  /\ Drained /\ pending[c] # None /\ Delivering(pending[c])
  /\ MarkSocketActivity(Messaged)
  /\ Transmit({c}, {}, None, Messaged)
  /\ \/ awaiting' = awaiting \ {c} /\ UNCHANGED rejected
     \/ rejected' = rejected \cup {c} /\ UNCHANGED awaiting
  /\ UNCHANGED <<socket, connected, initialized, signedIn, phase, late,
                 waiters, heart, timer, child, net, greeted>>

\* A request that times out with nothing received since forces a reconnect, so
\* do Misses of them with no message; a live execution whose activity beacon
\* is fresh suppresses both.
RequestTimeout(r) ==
  /\ Drained /\ pending[r] # None
  /\ \/ /\ r \in BestEffort \/ seen[r] = Silent
        /\ UNCHANGED missed
     \/ /\ r \notin BestEffort /\ seen[r] = Active
        /\ missed' = Capped(missed + 1)
     \/ /\ r \notin BestEffort /\ seen[r] = Messaged
        /\ missed' = 0
  /\ Reject({r})
  /\ UNCHANGED <<socket, connected, initialized, signedIn, late, waiters,
                 heartVars, timer, child, awaiting, net, greeted>>

RequestTimeoutReconnects(r) ==
  /\ Drained /\ pending[r] # None /\ r \notin BestEffort
  /\ \/ seen[r] = Silent
     \/ seen[r] = Active /\ missed + 1 >= Misses
  /\ ForceReconnect(socket)

-----------------------------------------------------------------------------
(* Sockets, heartbeat, process, timer. *)

\* A notification from app-server.
Notification(s) ==
  /\ Drained /\ Delivering(s)
  /\ MarkSocketActivity(Messaged)
  /\ Transmit({}, {}, None, Messaged)
  /\ UNCHANGED <<socket, connected, initialized, signedIn, readyVars, heart,
                 timer, child, awaiting, net, greeted>>

Pong(s) ==
  /\ Drained /\ Delivering(s)
  /\ MarkSocketActivity(Active)
  /\ Transmit({}, {}, None, Active)
  /\ UNCHANGED <<socket, connected, initialized, signedIn, readyVars, heart,
                 timer, child, awaiting, net, greeted>>

\* The peer or the network ends the connection; close is emitted later.
SocketDrop(s) ==
  /\ Drained /\ net[s] = "open"
  /\ net' = [net EXCEPT ![s] = "closing"]
  /\ UNCHANGED <<socket, connected, initialized, signedIn, readyVars,
                 requestVars, missed, heartVars, timer, child, awaiting,
                 greeted>>

SocketError(s) ==
  /\ Drained /\ net[s] = "open"
  /\ net' = [net EXCEPT ![s] = "closing"]
  /\ connected' = FALSE
  /\ UNCHANGED <<socket, initialized, signedIn, readyVars, requestVars, missed,
                 heartVars, timer, child, awaiting, greeted>>

SocketClose(s) ==
  /\ Drained /\ net[s] = "closing"
  /\ net' = [net EXCEPT ![s] = "free"]
  /\ greeted' = greeted \ {s}
  /\ ResetSocketState(s)
  /\ timer' = Scheduled(Busy, FALSE)
  /\ UNCHANGED child

ProcessExit ==
  /\ Drained /\ child
  /\ child' = FALSE
  /\ ResetSocketState(None)
  /\ UNCHANGED <<timer, net, greeted>>

Watched(s) == heart = s /\ socket = s /\ net[s] = "open"

HeartbeatProbe(s) ==
  /\ Drained /\ Watched(s) /\ ~probe
  /\ probe' = TRUE
  /\ UNCHANGED <<socket, connected, initialized, signedIn, readyVars,
                 requestVars, missed, heart, beats, timer, child, awaiting,
                 net, greeted>>

HeartbeatTimeout(s) ==
  /\ Drained /\ Watched(s) /\ probe
  /\ probe' = FALSE /\ beats' = Capped(beats + 1)
  /\ UNCHANGED <<socket, connected, initialized, signedIn, readyVars,
                 requestVars, missed, heart, timer, child, awaiting, net,
                 greeted>>

\* Only while a turn runs, and unless its activity beacon is fresh.
HeartbeatReconnects(s) ==
  /\ Drained /\ Watched(s) /\ probe /\ beats + 1 >= Misses
  /\ ForceReconnect(s)

\* A backfill that sees no progress.
BackfillReconnects ==
  /\ Drained /\ connected /\ initialized
  /\ ForceReconnect(socket)

TimerFires ==
  /\ Drained /\ timer
  /\ timer' = FALSE
  /\ \/ /\ Ready
        /\ UNCHANGED <<phase, late, waiters, child, net>>
     \/ /\ ~Ready
        /\ EnsureReady(Reconnect)
  /\ UNCHANGED <<socket, connected, initialized, signedIn, rejected,
                 requestVars, missed, heartVars, awaiting, greeted>>

\* The timer's own catch.
TimerGivesUp ==
  /\ Reconnect \in rejected
  /\ rejected' = rejected \ {Reconnect}
  /\ UNCHANGED <<socket, connected, initialized, signedIn, phase, late,
                 waiters, requestVars, missed, heartVars, timer, child,
                 awaiting, net, greeted>>

TimerRejected ==
  /\ Reconnect \in rejected
  /\ rejected' = rejected \ {Reconnect}
  /\ timer' = Scheduled(Busy, Ready)
  /\ UNCHANGED <<socket, connected, initialized, signedIn, phase, late,
                 waiters, requestVars, missed, heartVars, child, awaiting, net,
                 greeted>>

-----------------------------------------------------------------------------
Next ==
  \/ \E c \in Calls : \/ Request(c) \/ RequestBestEffort(c)
                      \/ CallRejected(c) \/ Answer(c)
  \/ \E r \in Requesters : RequestTimeout(r) \/ RequestTimeoutReconnects(r)
  \/ \E s \in Sockets :
       \/ OpenSucceeds(s) \/ OpenFails(s)
       \/ InitializeAnswered(s) \/ AccountAnswered(s)
       \/ Notification(s) \/ Pong(s)
       \/ SocketDrop(s) \/ SocketError(s) \/ SocketClose(s)
       \/ HeartbeatProbe(s) \/ HeartbeatTimeout(s) \/ HeartbeatReconnects(s)
  \/ Deadline \/ Redial \/ StartRejected
  \/ ProcessExit \/ BackfillReconnects \/ TimerFires \/ TimerRejected

Spec == Init /\ [][Next]_vars

\* What the event loop guarantees: a timer that has expired is served, a
\* reaction that is due runs, and a WebSocket that is closing reports it
\* (ws closes it by itself after 30 s).
Fairness ==
  /\ WF_vars(Deadline) /\ WF_vars(Redial)
  /\ WF_vars(StartRejected) /\ WF_vars(TimerRejected) /\ WF_vars(TimerFires)
  /\ \A c \in Calls : WF_vars(CallRejected(c))
  /\ \A r \in Requesters :
       SF_vars(RequestTimeout(r) \/ RequestTimeoutReconnects(r))
  /\ \A s \in Sockets : WF_vars(SocketClose(s))

\* Whoever listens on the port answers an opening handshake or refuses it:
\* openWebSocket has no timeout of its own.
HandshakeFairness ==
  \A s \in Sockets : WF_vars(OpenSucceeds(s) \/ OpenFails(s))

FairSpec == Spec /\ Fairness /\ HandshakeFairness

-----------------------------------------------------------------------------
(* Properties. *)

\* Every promise somebody awaits is held by something that settles it: a call
\* waits for the start in progress, for the map's entry of its request, or for
\* its own reaction, and for one of them only.  resetSocketState, the timeout
\* and handleMessage all take entries from the same map, and whatever the
\* order, no caller may be left behind.
NoLostCall ==
  /\ \A c \in Calls :
       /\ c \in awaiting <=> \/ c \in waiters
                             \/ c \in rejected
                             \/ pending[c] # None
       /\ ~(c \in waiters /\ c \in rejected)
       /\ pending[c] # None => c \notin waiters /\ c \notin rejected
  /\ waiters # {} => Busy
  /\ pending[Start] # None <=> phase \in {"initialize", "account"}
  /\ phase = "opening" <=> \E s \in Sockets : net[s] = "connecting"

\* The socket in use is the one the heartbeat probes: the close of an older
\* socket must not stop the newer one's heartbeat, or a dead peer is never
\* noticed.
HeartbeatFollowsSocket == Open(socket) => heart = socket

\* A request in the map was sent on the socket in use, so the close that
\* rejects it is its own.
OwnConnection == \A r \in Requesters : pending[r] # None => pending[r] = socket

\* A caller's request goes out on a socket only after app-server has answered
\* initialize on it.
HandshakeFirst ==
  \A c \in Calls : pending[c] # None => pending[c] \in greeted

\* Once the bridge has undertaken to reconnect (the timer is set, or the
\* timer's own attempt is under way) it does not stop before it is connected,
\* or before a close is due that sets the timer again.
Undertaken == timer \/ Reconnect \in waiters \cup rejected

KeptReconnecting ==
  [][Undertaken /\ ~Undertaken' =>
       Ready' \/ \E s \in Sockets : net'[s] = "closing"]_vars

\* A failed ensureReady leaves a reconnect scheduled.
FailureReschedules == [][phase = "failing" /\ phase' = "none" => timer']_vars

\* Whoever waits for the connection or an answer is told in the end.
CallsEnd == \A c \in Calls : c \in awaiting ~> c \notin awaiting
=============================================================================
