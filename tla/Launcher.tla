------------------------------ MODULE Launcher ------------------------------
(***************************************************************************)
(* Supervision of app-server and bridge on the user's machine              *)
(* (scripts/run-local-agent.mjs, with scripts/local-agent-health.mjs).     *)
(* The launcher spawns both processes, restarts app-server when it exits,  *)
(* restarts the bridge when its health check stays without answer,         *)
(* restarts everything when too many restarts were in vain, and ends with  *)
(* the bridge.  Exits, timers, signals and the answers of health checks    *)
(* come in any order.                                                      *)
(***************************************************************************)
EXTENDS Naturals

CONSTANTS MaxAttempts,   \* APP_SERVER_RESTART_MAX_ATTEMPTS
          Threshold,     \* BRIDGE_HEALTHCHECK_FAILURE_THRESHOLD
          SpawnMayFail,  \* whether the system may refuse to create a process
          MaxProbes      \* bound for TLC: health checks awaited at once

ASSUME AttemptsAssumption == MaxAttempts \in Nat \ {0}
ASSUME ThresholdAssumption == Threshold \in Nat \ {0}
ASSUME SpawnAssumption == SpawnMayFail \in BOOLEAN
ASSUME ProbesAssumption == MaxProbes \in Nat

VARIABLES
  proc,       \* appServerProcess and bridgeProcess
  strays,     \* running processes that are no longer referred to
  timer,      \* appServerRestartTimer and bridgeRestartTimer are set
  reason,     \* pendingControlledAppServerRestartReason, ...BridgeRestartReason
  fullReason, fullTimer,      \* pendingFullServiceRestartReason and its timer
  monitor,    \* appServerHealthMonitorTimer is set
  checking,   \* appServerHealthCheckInFlight
  probes,     \* health checks whose answer is awaited
  misses,     \* bridgeHealthFailureCount
  attempts,   \* appServerRestartCount
  age,        \* time since appServerStartedAt
  shutting,   \* isShuttingDown
  over        \* how the launcher itself has ended: by exit, or with nothing to wait for

vars == <<proc, strays, timer, reason, fullReason, fullTimer, monitor, checking,
          probes, misses, attempts, age, shutting, over>>

-----------------------------------------------------------------------------
Children == {"app", "bridge"}

\* None, running, sent a signal (killed), or never created: a process that could
\* not be created is referred to like the others and never emits "exit".
ProcStates == {"none", "running", "told", "failed"}

\* Shorter than the stable window, than the grace of health checks, or older.
Ages == {"young", "stable", "settled"}

Neither == [k \in Children |-> FALSE]
IsRunning(pr, k) == pr[k] \in {"running", "told"}              \* isProcessRunning
HasRunning(pr) == \E k \in Children : IsRunning(pr, k)         \* hasRunningServiceProcesses
Referred(k) == proc[k] \in {"running", "failed"}               \* not null, not killed
ToldApp(pr) == [pr EXCEPT !["app"] = IF @ = "running" THEN "told" ELSE @]
ToldBridge(pr) == [pr EXCEPT !["bridge"] = IF @ = "running" THEN "told" ELSE @]
Told(pr) == [k \in Children |-> IF pr[k] = "running" THEN "told" ELSE pr[k]]

Spawned == {"running"} \cup (IF SpawnMayFail THEN {"failed"} ELSE {})

Init ==
  /\ proc \in [Children -> Spawned]
  /\ strays = 0
  /\ timer = Neither /\ reason = Neither
  /\ fullReason = FALSE /\ fullTimer = FALSE
  /\ monitor = TRUE /\ checking = FALSE /\ probes = 0
  /\ misses = 0 /\ attempts = 0 /\ age = "young"
  /\ shutting = FALSE /\ over = "no"

\* All timers of the launcher are unref'd: children and requests under way are
\* what keeps its event loop, and so its process, alive.
LoopAlive == over = "no" /\ (HasRunning(proc) \/ probes > 0)

-----------------------------------------------------------------------------
(***************************************************************************)
(* Starting                                                                *)
(***************************************************************************)
\* A process that still runs when its reference is overwritten goes astray.
Overwritten(ks) == {k \in ks : IsRunning(proc, k)}
Spawn(ks) ==
  /\ \E f \in [ks -> Spawned] : proc' = [k \in Children |-> IF k \in ks THEN f[k] ELSE proc[k]]
  /\ strays' = IF Overwritten(ks) = {} THEN strays ELSE strays + 1
  /\ age' = IF "app" \in ks THEN "young" ELSE age

AppTimer ==
  /\ LoopAlive /\ timer["app"]
  /\ timer' = [timer EXCEPT !["app"] = FALSE]
  /\ IF shutting
     THEN UNCHANGED <<proc, strays, age, reason>>
     ELSE Spawn({"app"}) /\ reason' = [reason EXCEPT !["app"] = FALSE]
  /\ UNCHANGED <<fullReason, fullTimer, monitor, checking, probes, misses, attempts,
                 shutting, over>>

BridgeTimer ==
  /\ LoopAlive /\ timer["bridge"]
  /\ timer' = [timer EXCEPT !["bridge"] = FALSE]
  /\ IF shutting
     THEN UNCHANGED <<proc, strays, age, reason, misses>>
     ELSE /\ Spawn({"bridge"})
          /\ reason' = [reason EXCEPT !["bridge"] = FALSE]
          /\ misses' = 0
  /\ UNCHANGED <<fullReason, fullTimer, monitor, checking, probes, attempts, shutting, over>>

\* scheduleFullServiceRestart's timer: the state is reset and both are started.
FullTimer ==
  /\ LoopAlive /\ fullTimer
  /\ fullTimer' = FALSE
  /\ IF shutting
     THEN UNCHANGED <<proc, strays, age, timer, reason, fullReason, monitor,
                      checking, misses, attempts>>
     ELSE /\ Spawn(Children)
          /\ fullReason' = FALSE
          /\ timer' = Neither /\ reason' = Neither
          /\ monitor' = TRUE /\ checking' = FALSE
          /\ misses' = 0 /\ attempts' = 0
  /\ UNCHANGED <<probes, shutting, over>>

-----------------------------------------------------------------------------
(***************************************************************************)
(* Exits.  pr stands for the processes after the exit.                     *)
(***************************************************************************)
CallOffKeepsReasons == /\ timer' = Neither /\ UNCHANGED reason
                       /\ monitor' = FALSE /\ checking' = FALSE /\ misses' = 0
CallOff == /\ timer' = Neither /\ reason' = Neither
           /\ monitor' = FALSE /\ checking' = FALSE /\ misses' = 0

\* maybeScheduleFullServiceRestart: only when nothing runs any more.
MayScheduleAtOnce(pr) == ~fullTimer
MayScheduleFull(pr) == ~HasRunning(pr) /\ ~fullTimer
AwaitFull(pr, rs) ==
  /\ proc' = pr
  /\ IF MayScheduleFull(pr)
     THEN fullTimer' = TRUE /\ attempts' = 0 /\ CallOff
     ELSE reason' = rs /\ UNCHANGED <<timer, fullTimer, monitor, checking, misses, attempts>>
  /\ UNCHANGED <<fullReason, shutting>>

\* requestFullServiceRestart: what is under way is called off, what runs is told
\* to stop.
RequestFull(pr) ==
  /\ fullReason' = TRUE
  /\ proc' = Told(pr)
  /\ CallOff
  /\ IF MayScheduleFull(pr) THEN fullTimer' = TRUE /\ attempts' = 0
                            ELSE UNCHANGED <<fullTimer, attempts>>
  /\ UNCHANGED shutting

RestartApp(pr, count) ==
  /\ proc' = pr
  /\ timer' = [timer EXCEPT !["app"] = TRUE]
  /\ reason' = [reason EXCEPT !["app"] = FALSE]
  /\ attempts' = count
  /\ UNCHANGED <<fullReason, fullTimer, monitor, checking, misses, shutting>>

Exceeded(count) == count > MaxAttempts

AppExits ==
  LET pr == [proc EXCEPT !["app"] = "none"]
      rs == [reason EXCEPT !["app"] = FALSE]
      count == (IF age = "young" THEN attempts ELSE 0) + 1
      giveUp == ~reason["app"] /\ Exceeded(count)
  IN /\ over = "no" /\ IsRunning(proc, "app")
     /\ \/ /\ shutting
           /\ proc' = pr /\ reason' = rs
           /\ UNCHANGED <<timer, fullReason, fullTimer, monitor, checking, misses,
                          attempts, shutting>>
        \/ ~shutting /\ ~fullReason /\ giveUp /\ RequestFull(pr)
        \/ /\ ~shutting /\ (fullReason \/ ~giveUp)
           /\ IF fullReason THEN AwaitFull(pr, rs)
              ELSE RestartApp(pr, IF reason["app"] THEN attempts ELSE count)
     /\ UNCHANGED <<strays, probes, age, over>>

EndWithBridgeAlone(pr) ==
  /\ shutting' = TRUE
  /\ proc' = pr
  /\ timer' = [timer EXCEPT !["app"] = FALSE]
  /\ monitor' = FALSE /\ fullTimer' = FALSE
  /\ over' \in {"no", "exit"}
  /\ UNCHANGED <<reason, fullReason, checking, misses, attempts>>
\* A bridge that ends for no reason of the launcher's ends the launcher: with its
\* exit code at once, or by the same signal, which stopAll handles.
EndWithBridge(pr) ==
  /\ shutting' = TRUE
  /\ proc' = Told(pr)
  /\ timer' = [timer EXCEPT !["app"] = FALSE]
  /\ monitor' = FALSE /\ fullTimer' = FALSE
  /\ over' \in {"no", "exit"}
  /\ UNCHANGED <<reason, fullReason, checking, misses, attempts>>

BridgeExits ==
  LET pr == [proc EXCEPT !["bridge"] = "none"]
  IN /\ over = "no" /\ IsRunning(proc, "bridge")
     /\ \/ /\ reason["bridge"]
           /\ proc' = pr /\ timer' = [timer EXCEPT !["bridge"] = TRUE]
           /\ UNCHANGED <<reason, fullReason, fullTimer, monitor, checking, misses,
                          attempts, shutting, over>>
        \/ ~reason["bridge"] /\ fullReason /\ AwaitFull(pr, reason) /\ UNCHANGED over
        \/ ~reason["bridge"] /\ ~fullReason /\ EndWithBridge(pr)
     /\ UNCHANGED <<strays, probes, age>>

\* stopAll on SIGINT or SIGTERM.
StopAll ==
  /\ LoopAlive
  /\ shutting' = TRUE
  /\ timer' = Neither /\ monitor' = FALSE /\ fullTimer' = FALSE
  /\ fullReason' = FALSE /\ reason' = [reason EXCEPT !["bridge"] = FALSE]
  /\ proc' = Told(proc)
  /\ UNCHANGED <<strays, checking, probes, misses, attempts, age, over>>

LoopEmpties ==
  /\ over = "no" /\ ~LoopAlive
  /\ over' = "idle"
  /\ UNCHANGED <<proc, strays, timer, reason, fullReason, fullTimer, monitor, checking,
                 probes, misses, attempts, age, shutting>>

-----------------------------------------------------------------------------
(***************************************************************************)
(* Health checks (monitorBridgeHealth)                                     *)
(***************************************************************************)
MayCheck ==
  /\ ~shutting /\ ~checking /\ age = "settled"
  /\ \A k \in Children : Referred(k) /\ ~timer[k] /\ ~reason[k]

Check ==
  /\ LoopAlive /\ monitor /\ MayCheck
  /\ probes < MaxProbes
  /\ checking' = TRUE /\ probes' = probes + 1
  /\ UNCHANGED <<proc, strays, timer, reason, fullReason, fullTimer, monitor, misses,
                 attempts, age, shutting, over>>

\* requestControlledBridgeRestart and ...AppServerRestart: a signal, which reaches
\* a process that runs.
MayRequest(k) == ~shutting /\ Referred(k) /\ ~reason[k]
Request(k) ==
  IF MayRequest(k)
  THEN /\ reason' = [reason EXCEPT ![k] = TRUE]
       /\ timer' = [timer EXCEPT ![k] = FALSE]
       /\ proc' = [proc EXCEPT ![k] = IF @ = "running" THEN "told" ELSE @]
  ELSE UNCHANGED <<proc, timer, reason>>

\* No answer (evaluateBridgeHealthAvailability).  Beyond the threshold the count
\* no longer matters.
Missed ==
  /\ IF misses + 1 >= Threshold
     THEN Request("bridge") /\ misses' = IF MayRequest("bridge") THEN 0 ELSE Threshold
     ELSE misses' = misses + 1 /\ UNCHANGED <<proc, timer, reason>>

\* What evaluateBridgeAppServerRecovery makes of an answer, in this order: a bridge
\* that is well, protected, or cannot be judged; app-server in fatal error; a state
\* check that fails.
Verdicts == {[recoverable |-> FALSE, shouldRestart |-> FALSE],
             [recoverable |-> FALSE, shouldRestart |-> TRUE],
             [recoverable |-> TRUE,  shouldRestart |-> FALSE]}

\* An answer.  Only a recoverable verdict gets as far as shouldRestart, and no
\* verdict is both: the request for app-server is in the code and is never made.
Answered(v) ==
  /\ misses' = 0
  /\ IF v.recoverable /\ v.shouldRestart THEN Request("app")
                                         ELSE UNCHANGED <<proc, timer, reason>>

CheckEnds ==
  /\ over = "no" /\ probes > 0
  /\ probes' = probes - 1
  /\ checking' = FALSE
  /\ Missed \/ \E v \in Verdicts : Answered(v)
  /\ UNCHANGED <<strays, fullReason, fullTimer, monitor, attempts, age, shutting, over>>

TimePasses ==
  /\ over = "no" /\ age # "settled"
  /\ age' = IF age = "young" THEN "stable" ELSE "settled"
  /\ UNCHANGED <<proc, strays, timer, reason, fullReason, fullTimer, monitor, checking,
                 probes, misses, attempts, shutting, over>>

-----------------------------------------------------------------------------
Next ==
  \/ AppTimer \/ BridgeTimer \/ FullTimer
  \/ AppExits \/ BridgeExits
  \/ StopAll \/ LoopEmpties
  \/ Check \/ CheckEnds \/ TimePasses

Spec == Init /\ [][Next]_vars

\* Node runs what is due and a health check is answered or times out; a process
\* that is told to stop does.
FairSpec ==
  /\ Spec
  /\ WF_vars(AppTimer) /\ WF_vars(BridgeTimer) /\ WF_vars(FullTimer)
  /\ WF_vars(LoopEmpties) /\ WF_vars(CheckEnds)
  /\ WF_vars(proc["app"] = "told" /\ AppExits)
  /\ WF_vars(proc["bridge"] = "told" /\ BridgeExits)

-----------------------------------------------------------------------------
(***************************************************************************)
(* Properties                                                              *)
(***************************************************************************)
TypeOK ==
  /\ proc \in [Children -> ProcStates] /\ strays \in Nat
  /\ timer \in [Children -> BOOLEAN] /\ reason \in [Children -> BOOLEAN]
  /\ fullReason \in BOOLEAN /\ fullTimer \in BOOLEAN
  /\ monitor \in BOOLEAN /\ checking \in BOOLEAN /\ probes \in 0..MaxProbes
  /\ misses \in 0..Threshold /\ attempts \in 0..MaxAttempts
  /\ age \in Ages
  /\ shutting \in BOOLEAN /\ over \in {"no", "exit", "idle"}

\* No process is out of the launcher's hands.  Whatever restarts, after whichever
\* exits, time-outs and late answers, there is never a second app-server or bridge
\* beside one that still runs, though startAppServer and startBridge overwrite the
\* reference to the process without looking at it; and a launcher that has ended
\* has told its processes to stop.
NoneAstray == /\ strays = 0
              /\ over # "no" => \A k \in Children : proc[k] # "running"

\* The one way to be stuck: a bridge that could not be created misses its health
\* checks, requestControlledBridgeRestart sets its reason and kill() reaches nothing.
\* It never exits, so the reason stays, and the reason silences monitorBridgeHealth.
Wedged == reason["bridge"] /\ proc["bridge"] = "failed" /\ ~fullReason

\* Nothing waits for a restart that nobody will make, but for a wedged bridge: a
\* pending reason, which silences the health monitor, has a process told to stop, a
\* timer or the full restart to wait for; a process that is gone has a timer or the
\* full restart coming; the full restart has its timer or waits for a process told
\* to stop; and otherwise the monitor is on, and is not kept silent by a health
\* check that is over (the early returns of monitorBridgeHealth, of
\* requestControlled...Restart and of maybeScheduleFullServiceRestart).
RestartComing ==
  over = "no" /\ ~shutting =>
    /\ \A k \in Children :
         /\ reason[k] => \/ proc[k] = "told" \/ timer[k] \/ fullReason
                       \/ (k = "bridge" /\ Wedged)
         /\ proc[k] = "none" => timer[k] \/ fullReason
    /\ fullReason => fullTimer \/ \E k \in Children : proc[k] = "told"
    /\ fullReason \/ monitor
    /\ checking => probes > 0

\* Where every process can be created nothing is wedged: whatever waits for a
\* restart gets one.
NeverWedged == over = "no" /\ ~shutting => ~Wedged

\* A process that is gone is spawned again, unless the launcher ends.
Respawned ==
  \A k \in Children : proc[k] = "none" ~> proc[k] # "none" \/ shutting \/ over # "no"

\* A launcher that is told to stop, or loses its bridge, ends.
ShutdownEnds == shutting ~> over # "no"
=============================================================================
