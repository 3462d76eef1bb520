--------------------------- MODULE Launcher_proofs ---------------------------
(***************************************************************************)
(* Proofs about Launcher: for every number of restarts and every threshold *)
(* there is one app-server and one bridge, and no restart is forgotten.    *)
(***************************************************************************)
EXTENDS Launcher, TLAPS

\* A process restarts only after it has gone, and nothing else restarts while the
\* full restart is coming.
Timers ==
  /\ \A k \in Children : timer[k] => proc[k] = "none" /\ ~fullReason
  /\ fullTimer => fullReason /\ \A k \in Children : proc[k] \in {"none", "failed"}

\* Once the full restart is decided everything has been told to stop, and a
\* pending reason can only be that of a process that was never created.
Stopping ==
  fullReason => /\ \A k \in Children : proc[k] # "running"
                /\ \A k \in Children : reason[k] => proc[k] = "failed"

\* No verdict of a health check is recoverable and asks for a restart at once.
Unasked == ~reason["app"]

IInv == TypeOK /\ NoneAstray /\ Timers /\ Stopping /\ Unasked /\ RestartComing

(* One lemma per action: it keeps the invariant. *)
LEMMA AppTimerKeeps == IInv /\ AppTimer => IInv'
<1> SUFFICES ASSUME IInv, AppTimer PROVE IInv'
  OBVIOUS
<1> USE DEF IInv, Children
<1>1. TypeOK'
  <2>1. proc' \in [Children -> ProcStates] /\ strays' \in Nat
    BY DEF TypeOK, ProcStates, AppTimer, Spawn, Spawned
  <2>2. timer' \in [Children -> BOOLEAN] /\ reason' \in [Children -> BOOLEAN]
    BY DEF TypeOK, AppTimer, Spawn, Spawned
  <2>3. fullReason' \in BOOLEAN /\ fullTimer' \in BOOLEAN /\ monitor' \in BOOLEAN
    BY DEF TypeOK, AppTimer, Spawn, Spawned
  <2>4. checking' \in BOOLEAN /\ probes' \in 0..MaxProbes
    BY ProbesAssumption DEF TypeOK, AppTimer, Spawn, Spawned
  <2>5. misses' \in 0..Threshold
    BY ThresholdAssumption DEF TypeOK, AppTimer, Spawn, Spawned
  <2>6. attempts' \in 0..MaxAttempts
    BY AttemptsAssumption DEF TypeOK, AppTimer, Spawn, Spawned
  <2>7. age' \in Ages
    BY DEF TypeOK, Ages, AppTimer, Spawn, Spawned
  <2>8. shutting' \in BOOLEAN /\ over' \in {"no", "exit", "idle"}
    BY DEF TypeOK, AppTimer, Spawn, Spawned
  <2> QED
    BY <2>1, <2>2, <2>3, <2>4, <2>5, <2>6, <2>7, <2>8 DEF TypeOK
<1>2. NoneAstray'
  BY DEF TypeOK, NoneAstray, Timers, ProcStates, AppTimer, Spawn, Spawned,
    LoopAlive, Overwritten, IsRunning
<1>3. Timers'
  BY DEF TypeOK, Timers, Stopping, ProcStates, AppTimer, Spawn, Spawned,
    LoopAlive, Overwritten, IsRunning
<1>4. Stopping'
  BY DEF TypeOK, Stopping, Timers, ProcStates, AppTimer, Spawn, Spawned,
    LoopAlive, Overwritten, IsRunning
<1>5. RestartComing'
  BY DEF TypeOK, RestartComing, Wedged, Unasked, Timers, Stopping, ProcStates,
    AppTimer, Spawn, Spawned, LoopAlive, Overwritten, IsRunning
<1>6. Unasked'
  BY DEF TypeOK, Unasked, AppTimer, Spawn, Spawned, LoopAlive, Overwritten,
    IsRunning
<1> QED
  BY <1>1, <1>2, <1>3, <1>4, <1>5, <1>6

LEMMA BridgeTimerKeeps == IInv /\ BridgeTimer => IInv'
<1> SUFFICES ASSUME IInv, BridgeTimer PROVE IInv'
  OBVIOUS
<1> USE DEF IInv, Children
<1>1. TypeOK'
  <2>1. proc' \in [Children -> ProcStates] /\ strays' \in Nat
    BY DEF TypeOK, ProcStates, BridgeTimer, Spawn, Spawned
  <2>2. timer' \in [Children -> BOOLEAN] /\ reason' \in [Children -> BOOLEAN]
    BY DEF TypeOK, BridgeTimer, Spawn, Spawned, Neither
  <2>3. fullReason' \in BOOLEAN /\ fullTimer' \in BOOLEAN /\ monitor' \in BOOLEAN
    BY DEF TypeOK, BridgeTimer, Spawn, Spawned
  <2>4. checking' \in BOOLEAN /\ probes' \in 0..MaxProbes
    BY ProbesAssumption DEF TypeOK, BridgeTimer, Spawn, Spawned
  <2>5. misses' \in 0..Threshold
    BY ThresholdAssumption DEF TypeOK, BridgeTimer, Spawn, Spawned
  <2>6. attempts' \in 0..MaxAttempts
    BY AttemptsAssumption DEF TypeOK, BridgeTimer, Spawn, Spawned
  <2>7. age' \in Ages
    BY DEF TypeOK, Ages, BridgeTimer, Spawn, Spawned
  <2>8. shutting' \in BOOLEAN /\ over' \in {"no", "exit", "idle"}
    BY DEF TypeOK, BridgeTimer, Spawn, Spawned
  <2> QED
    BY <2>1, <2>2, <2>3, <2>4, <2>5, <2>6, <2>7, <2>8 DEF TypeOK
<1>2. NoneAstray'
  BY DEF TypeOK, NoneAstray, Timers, ProcStates, BridgeTimer, Spawn, Spawned,
    Neither, LoopAlive, Overwritten, IsRunning
<1>3. Timers'
  BY DEF TypeOK, Timers, Stopping, ProcStates, BridgeTimer, Spawn, Spawned,
    Neither, LoopAlive, Overwritten, IsRunning
<1>4. Stopping'
  BY DEF TypeOK, Stopping, Timers, ProcStates, BridgeTimer, Spawn, Spawned,
    Neither, LoopAlive, Overwritten, IsRunning
<1>5. RestartComing'
  BY DEF TypeOK, RestartComing, Wedged, Unasked, Timers, Stopping, ProcStates,
    BridgeTimer, Spawn, Spawned, Neither, LoopAlive, Overwritten, IsRunning
<1>6. Unasked'
  BY DEF TypeOK, Unasked, BridgeTimer, Spawn, Spawned, Neither, LoopAlive,
    Overwritten, IsRunning
<1> QED
  BY <1>1, <1>2, <1>3, <1>4, <1>5, <1>6

LEMMA FullTimerKeeps == IInv /\ FullTimer => IInv'
<1> SUFFICES ASSUME IInv, FullTimer PROVE IInv'
  OBVIOUS
<1> USE DEF IInv, Children
<1>1. TypeOK'
  <2>1. proc' \in [Children -> ProcStates] /\ strays' \in Nat
    BY DEF TypeOK, ProcStates, FullTimer, Spawn, Spawned
  <2>2. timer' \in [Children -> BOOLEAN] /\ reason' \in [Children -> BOOLEAN]
    BY DEF TypeOK, FullTimer, Spawn, Spawned, Neither
  <2>3. fullReason' \in BOOLEAN /\ fullTimer' \in BOOLEAN /\ monitor' \in BOOLEAN
    BY DEF TypeOK, FullTimer, Spawn, Spawned
  <2>4. checking' \in BOOLEAN /\ probes' \in 0..MaxProbes
    BY ProbesAssumption DEF TypeOK, FullTimer, Spawn, Spawned
  <2>5. misses' \in 0..Threshold
    BY ThresholdAssumption DEF TypeOK, FullTimer, Spawn, Spawned
  <2>6. attempts' \in 0..MaxAttempts
    BY AttemptsAssumption DEF TypeOK, FullTimer, Spawn, Spawned
  <2>7. age' \in Ages
    BY DEF TypeOK, Ages, FullTimer, Spawn, Spawned
  <2>8. shutting' \in BOOLEAN /\ over' \in {"no", "exit", "idle"}
    BY DEF TypeOK, FullTimer, Spawn, Spawned
  <2> QED
    BY <2>1, <2>2, <2>3, <2>4, <2>5, <2>6, <2>7, <2>8 DEF TypeOK
<1>2. NoneAstray'
  BY DEF TypeOK, NoneAstray, Timers, ProcStates, FullTimer, Spawn, Spawned,
    Neither, LoopAlive, Overwritten, IsRunning
<1>3. Timers'
  BY DEF TypeOK, Timers, Stopping, ProcStates, FullTimer, Spawn, Spawned,
    Neither, LoopAlive, Overwritten, IsRunning
<1>4. Stopping'
  BY DEF TypeOK, Stopping, Timers, ProcStates, FullTimer, Spawn, Spawned,
    Neither, LoopAlive, Overwritten, IsRunning
<1>5. RestartComing'
  BY DEF TypeOK, RestartComing, Wedged, Unasked, Timers, Stopping, ProcStates,
    FullTimer, Spawn, Spawned, Neither, LoopAlive, Overwritten, IsRunning
<1>6. Unasked'
  BY DEF TypeOK, Unasked, FullTimer, Spawn, Spawned, Neither, LoopAlive,
    Overwritten, IsRunning
<1> QED
  BY <1>1, <1>2, <1>3, <1>4, <1>5, <1>6

LEMMA AppExitsKeeps == IInv /\ AppExits => IInv'
<1> SUFFICES ASSUME IInv, AppExits PROVE IInv'
  OBVIOUS
<1> USE DEF IInv, Children
<1>1. TypeOK'
  <2>1. proc' \in [Children -> ProcStates] /\ strays' \in Nat
    BY DEF TypeOK, ProcStates, AppExits, AwaitFull, RequestFull, RestartApp,
      CallOff, Exceeded, Told
  <2>2. timer' \in [Children -> BOOLEAN] /\ reason' \in [Children -> BOOLEAN]
    BY DEF TypeOK, AppExits, AwaitFull, RequestFull, RestartApp, CallOff,
      Exceeded, Told, Neither
  <2>3. fullReason' \in BOOLEAN /\ fullTimer' \in BOOLEAN /\ monitor' \in BOOLEAN
    BY DEF TypeOK, AppExits, AwaitFull, RequestFull, RestartApp, CallOff,
      Exceeded, Told
  <2>4. checking' \in BOOLEAN /\ probes' \in 0..MaxProbes
    BY ProbesAssumption DEF TypeOK, AppExits, AwaitFull, RequestFull,
      RestartApp, CallOff, Exceeded, Told
  <2>5. misses' \in 0..Threshold
    BY ThresholdAssumption DEF TypeOK, AppExits, AwaitFull, RequestFull,
      RestartApp, CallOff, Exceeded, Told
  <2>6. attempts' \in 0..MaxAttempts
    BY AttemptsAssumption DEF TypeOK, AppExits, AwaitFull, RequestFull,
      RestartApp, CallOff, Exceeded, Told
  <2>7. age' \in Ages
    BY DEF TypeOK, Ages, AppExits, AwaitFull, RequestFull, RestartApp, CallOff,
      Exceeded, Told
  <2>8. shutting' \in BOOLEAN /\ over' \in {"no", "exit", "idle"}
    BY DEF TypeOK, AppExits, AwaitFull, RequestFull, RestartApp, CallOff,
      Exceeded, Told
  <2> QED
    BY <2>1, <2>2, <2>3, <2>4, <2>5, <2>6, <2>7, <2>8 DEF TypeOK
<1>2. NoneAstray'
  BY DEF TypeOK, NoneAstray, Timers, ProcStates, AppExits, AwaitFull,
    RequestFull, RestartApp, CallOff, Exceeded, Told, Neither, MayScheduleFull,
    HasRunning, IsRunning
<1>3. Timers'
  BY DEF TypeOK, Timers, Stopping, ProcStates, AppExits, AwaitFull, RequestFull,
    RestartApp, CallOff, Exceeded, Told, Neither, MayScheduleFull, HasRunning,
    IsRunning
<1>4. Stopping'
  BY DEF TypeOK, Stopping, Timers, ProcStates, AppExits, AwaitFull, RequestFull,
    RestartApp, CallOff, Exceeded, Told, Neither, MayScheduleFull, HasRunning,
    IsRunning
<1>5. RestartComing'
  BY DEF TypeOK, RestartComing, Wedged, Unasked, Timers, Stopping, ProcStates,
    AppExits, AwaitFull, RequestFull, RestartApp, CallOff, Exceeded, Told,
    Neither, MayScheduleFull, HasRunning, IsRunning
<1>6. Unasked'
  BY DEF TypeOK, Unasked, AppExits, AwaitFull, RequestFull, RestartApp, CallOff,
    Exceeded, Told, Neither, MayScheduleFull, HasRunning, IsRunning
<1> QED
  BY <1>1, <1>2, <1>3, <1>4, <1>5, <1>6

LEMMA BridgeExitsKeeps == IInv /\ BridgeExits => IInv'
<1> SUFFICES ASSUME IInv, BridgeExits PROVE IInv'
  OBVIOUS
<1> USE DEF IInv, Children
<1>1. TypeOK'
  <2>1. proc' \in [Children -> ProcStates] /\ strays' \in Nat
    BY DEF TypeOK, ProcStates, BridgeExits, AwaitFull, EndWithBridge, CallOff,
      Told
  <2>2. timer' \in [Children -> BOOLEAN] /\ reason' \in [Children -> BOOLEAN]
    BY DEF TypeOK, BridgeExits, AwaitFull, EndWithBridge, CallOff, Told, Neither
  <2>3. fullReason' \in BOOLEAN /\ fullTimer' \in BOOLEAN /\ monitor' \in BOOLEAN
    BY DEF TypeOK, BridgeExits, AwaitFull, EndWithBridge, CallOff, Told
  <2>4. checking' \in BOOLEAN /\ probes' \in 0..MaxProbes
    BY ProbesAssumption DEF TypeOK, BridgeExits, AwaitFull, EndWithBridge,
      CallOff, Told
  <2>5. misses' \in 0..Threshold
    BY ThresholdAssumption DEF TypeOK, BridgeExits, AwaitFull, EndWithBridge,
      CallOff, Told
  <2>6. attempts' \in 0..MaxAttempts
    BY AttemptsAssumption DEF TypeOK, BridgeExits, AwaitFull, EndWithBridge,
      CallOff, Told
  <2>7. age' \in Ages
    BY DEF TypeOK, Ages, BridgeExits, AwaitFull, EndWithBridge, CallOff, Told
  <2>8. shutting' \in BOOLEAN /\ over' \in {"no", "exit", "idle"}
    BY DEF TypeOK, BridgeExits, AwaitFull, EndWithBridge, CallOff, Told
  <2> QED
    BY <2>1, <2>2, <2>3, <2>4, <2>5, <2>6, <2>7, <2>8 DEF TypeOK
<1>2. NoneAstray'
  BY DEF TypeOK, NoneAstray, Timers, ProcStates, BridgeExits, AwaitFull,
    EndWithBridge, CallOff, Told, Neither, MayScheduleFull, HasRunning,
    IsRunning
<1>3. Timers'
  BY DEF TypeOK, Timers, Stopping, ProcStates, BridgeExits, AwaitFull,
    EndWithBridge, CallOff, Told, Neither, MayScheduleFull, HasRunning,
    IsRunning
<1>4. Stopping'
  BY DEF TypeOK, Stopping, Timers, ProcStates, BridgeExits, AwaitFull,
    EndWithBridge, CallOff, Told, Neither, MayScheduleFull, HasRunning,
    IsRunning
<1>5. RestartComing'
  BY DEF TypeOK, RestartComing, Wedged, Unasked, Timers, Stopping, ProcStates,
    BridgeExits, AwaitFull, EndWithBridge, CallOff, Told, Neither,
    MayScheduleFull, HasRunning, IsRunning
<1>6. Unasked'
  BY DEF TypeOK, Unasked, BridgeExits, AwaitFull, EndWithBridge, CallOff, Told,
    Neither, MayScheduleFull, HasRunning, IsRunning
<1> QED
  BY <1>1, <1>2, <1>3, <1>4, <1>5, <1>6

LEMMA StopAllKeeps == IInv /\ StopAll => IInv'
<1> SUFFICES ASSUME IInv, StopAll PROVE IInv'
  OBVIOUS
<1> USE DEF IInv, Children
<1>1. TypeOK'
  BY DEF TypeOK, ProcStates, StopAll, Told, Neither
<1>2. NoneAstray'
  BY DEF TypeOK, NoneAstray, Timers, ProcStates, StopAll, Told, Neither,
    LoopAlive
<1>3. Timers'
  BY DEF TypeOK, Timers, Stopping, ProcStates, StopAll, Told, Neither, LoopAlive
<1>4. Stopping'
  BY DEF TypeOK, Stopping, Timers, ProcStates, StopAll, Told, Neither, LoopAlive
<1>5. RestartComing'
  BY DEF TypeOK, RestartComing, Wedged, Unasked, Timers, Stopping, ProcStates,
    StopAll, Told, Neither, LoopAlive
<1>6. Unasked'
  BY DEF TypeOK, Unasked, StopAll, Told, Neither, LoopAlive
<1> QED
  BY <1>1, <1>2, <1>3, <1>4, <1>5, <1>6

LEMMA LoopEmptiesKeeps == IInv /\ LoopEmpties => IInv'
<1> SUFFICES ASSUME IInv, LoopEmpties PROVE IInv'
  OBVIOUS
<1> USE DEF IInv, Children
<1>1. TypeOK'
  BY DEF TypeOK, LoopEmpties
<1>2. NoneAstray'
  BY DEF TypeOK, NoneAstray, Timers, ProcStates, LoopEmpties, LoopAlive,
    HasRunning, IsRunning
<1>3. Timers'
  BY DEF TypeOK, Timers, Stopping, ProcStates, LoopEmpties, LoopAlive,
    HasRunning, IsRunning
<1>4. Stopping'
  BY DEF TypeOK, Stopping, Timers, ProcStates, LoopEmpties, LoopAlive,
    HasRunning, IsRunning
<1>5. RestartComing'
  BY DEF TypeOK, RestartComing, Wedged, Unasked, Timers, Stopping, ProcStates,
    LoopEmpties, LoopAlive, HasRunning, IsRunning
<1>6. Unasked'
  BY DEF TypeOK, Unasked, LoopEmpties, LoopAlive, HasRunning, IsRunning
<1> QED
  BY <1>1, <1>2, <1>3, <1>4, <1>5, <1>6

LEMMA CheckKeeps == IInv /\ Check => IInv'
<1> SUFFICES ASSUME IInv, Check PROVE IInv'
  OBVIOUS
<1> USE DEF IInv, Children
<1>1. TypeOK'
  BY ProbesAssumption DEF TypeOK, Check
<1>2. NoneAstray'
  BY DEF TypeOK, NoneAstray, Timers, ProcStates, Check, LoopAlive
<1>3. Timers'
  BY DEF TypeOK, Timers, Stopping, ProcStates, Check, LoopAlive
<1>4. Stopping'
  BY DEF TypeOK, Stopping, Timers, ProcStates, Check, LoopAlive
<1>5. RestartComing'
  BY DEF TypeOK, RestartComing, Wedged, Unasked, Timers, Stopping, ProcStates,
    Check, LoopAlive
<1>6. Unasked'
  BY DEF TypeOK, Unasked, Check, LoopAlive
<1> QED
  BY <1>1, <1>2, <1>3, <1>4, <1>5, <1>6

LEMMA CheckEndsKeeps == IInv /\ CheckEnds => IInv'
<1> SUFFICES ASSUME IInv, CheckEnds PROVE IInv'
  OBVIOUS
<1> USE DEF IInv, Children
<1>0. ASSUME NEW v \in Verdicts, Answered(v)
      PROVE  misses' = 0 /\ UNCHANGED <<proc, timer, reason>>
  BY <1>0 DEF Answered, Verdicts
<1>1. TypeOK'
  <2>1. Request("bridge") \/ UNCHANGED <<proc, timer, reason>>
    BY <1>0 DEF CheckEnds, Missed
  <2>2. proc' \in [Children -> ProcStates] /\ strays' \in Nat
    BY <2>1 DEF TypeOK, ProcStates, Request, CheckEnds
  <2>9. timer' \in [Children -> BOOLEAN] /\ reason' \in [Children -> BOOLEAN]
    BY <2>1 DEF TypeOK, Request, MayRequest, Referred
  <2>3. fullReason' \in BOOLEAN /\ fullTimer' \in BOOLEAN /\ monitor' \in BOOLEAN
    BY DEF TypeOK, CheckEnds, Missed, Answered, Request
  <2>4. checking' \in BOOLEAN /\ probes' \in 0..MaxProbes
    <3>1. probes > 0 /\ probes' = probes - 1 /\ checking' = FALSE
      BY DEF CheckEnds
    <3>2. probes \in 0..MaxProbes /\ MaxProbes \in Nat
      BY ProbesAssumption DEF TypeOK
    <3>3. probes' \in 0..MaxProbes
      BY <3>1, <3>2
    <3> QED
      BY <3>1, <3>3
  <2>5. misses' \in 0..Threshold
    BY ThresholdAssumption DEF TypeOK, CheckEnds, Missed, Answered, Request
  <2>6. attempts' \in 0..MaxAttempts
    BY AttemptsAssumption DEF TypeOK, CheckEnds, Missed, Answered, Request
  <2>7. age' \in Ages
    BY DEF TypeOK, Ages, CheckEnds, Missed, Answered, Request
  <2>8. shutting' \in BOOLEAN /\ over' \in {"no", "exit", "idle"}
    BY DEF TypeOK, CheckEnds, Missed, Answered, Request
  <2> QED
    BY <2>2, <2>3, <2>4, <2>5, <2>6, <2>7, <2>8, <2>9 DEF TypeOK
<1>2. NoneAstray'
  BY DEF TypeOK, NoneAstray, Timers, ProcStates, CheckEnds, Missed, Answered,
    Request, MayRequest, Referred
<1>3. Timers'
  BY DEF TypeOK, Timers, Stopping, ProcStates, CheckEnds, Missed, Answered,
    Request, MayRequest, Referred
<1>4. Stopping'
  BY DEF TypeOK, Stopping, Timers, ProcStates, CheckEnds, Missed, Answered,
    Request, MayRequest, Referred
<1>5. RestartComing'
  BY DEF TypeOK, RestartComing, Wedged, Unasked, Timers, Stopping, ProcStates,
    CheckEnds, Missed, Answered, Request, MayRequest, Referred, Verdicts
<1>6. Unasked'
  BY DEF TypeOK, Unasked, CheckEnds, Missed, Answered, Request, MayRequest,
    Referred, Verdicts
<1> QED
  BY <1>1, <1>2, <1>3, <1>4, <1>5, <1>6

LEMMA TimePassesKeeps == IInv /\ TimePasses => IInv'
<1> SUFFICES ASSUME IInv, TimePasses PROVE IInv'
  OBVIOUS
<1> USE DEF IInv, Children
<1>1. TypeOK'
  BY DEF TypeOK, ProcStates, Ages, TimePasses
<1>2. NoneAstray'
  BY DEF TypeOK, NoneAstray, Timers, ProcStates, TimePasses
<1>3. Timers'
  BY DEF TypeOK, Timers, Stopping, ProcStates, TimePasses
<1>4. Stopping'
  BY DEF TypeOK, Stopping, Timers, ProcStates, TimePasses
<1>5. RestartComing'
  BY DEF TypeOK, RestartComing, Wedged, Unasked, Timers, Stopping, ProcStates,
    TimePasses
<1>6. Unasked'
  BY DEF TypeOK, Unasked, TimePasses
<1> QED
  BY <1>1, <1>2, <1>3, <1>4, <1>5, <1>6

-----------------------------------------------------------------------------
LEMMA InitEstablishes == Init => IInv
<1> SUFFICES ASSUME Init PROVE IInv
  OBVIOUS
<1> USE DEF Init, Neither, Spawned, Children
<1>1. proc \in [Children -> ProcStates] 
  BY DEF ProcStates
<1>2. probes \in 0..MaxProbes /\ misses \in 0..Threshold /\ attempts \in 0..MaxAttempts
  BY AttemptsAssumption, ThresholdAssumption, ProbesAssumption
<1>3. TypeOK
  BY <1>1, <1>2 DEF TypeOK, Ages
<1>4. NoneAstray /\ Timers /\ Stopping /\ Unasked /\ RestartComing
  BY DEF NoneAstray, Timers, Stopping, Unasked, RestartComing, Wedged
<1> QED
  BY <1>3, <1>4 DEF IInv

LEMMA StutterKeeps == IInv /\ UNCHANGED vars => IInv'
  BY DEF IInv, TypeOK, NoneAstray, Timers, Stopping, Unasked, RestartComing, Wedged, vars

\* The invariant holds of every behaviour of the launcher, whatever fails.
THEOREM Inductive == Spec => []IInv
<1>1. IInv /\ [Next]_vars => IInv'
  BY AppTimerKeeps, BridgeTimerKeeps, FullTimerKeeps, AppExitsKeeps, BridgeExitsKeeps,
     StopAllKeeps, LoopEmptiesKeeps, CheckKeeps, CheckEndsKeeps, TimePassesKeeps,
     StutterKeeps DEF Next
<1> QED
  BY InitEstablishes, <1>1, PTL DEF Spec

\* The launcher's variables keep their types: the restarts counted by
\* appServerRestartCount never exceed APP_SERVER_RESTART_MAX_ATTEMPTS.
THEOREM LauncherTypeCorrect == Spec => []TypeOK
<1>1. IInv => TypeOK
  BY DEF IInv
<1> QED
  BY Inductive, <1>1, PTL

\* startAppServer and startBridge never overwrite a process that still runs, and a
\* launcher that has ended has told its processes to stop.
THEOREM OneProcessEach == Spec => []NoneAstray
<1>1. IInv => NoneAstray
  BY DEF IInv
<1> QED
  BY Inductive, <1>1, PTL

\* While the launcher is at work every pending restart has somebody to make it, but for
\* that of a bridge that could not be created (requestControlledBridgeRestart).
THEOREM NoRestartForgotten == Spec => []RestartComing
<1>1. IInv => RestartComing
  BY DEF IInv
<1> QED
  BY Inductive, <1>1, PTL

-----------------------------------------------------------------------------
Created == \A k \in Children : proc[k] # "failed"

LEMMA StaysCreated ==
  ASSUME ~SpawnMayFail, TypeOK, Created, [Next]_vars
  PROVE  Created'
<1>1. \A f : f \in {"running"} \cup (IF SpawnMayFail THEN {"failed"} ELSE {}) => f # "failed"
  OBVIOUS
<1>2. ASSUME NEW ks \in SUBSET Children, Spawn(ks) PROVE Created'
  BY <1>2 DEF Spawn, Spawned, Created
<1>3. CASE AppTimer \/ BridgeTimer \/ FullTimer
  BY <1>2, <1>3 DEF AppTimer, BridgeTimer, FullTimer, Children, Created
<1>4. CASE AppExits
  BY <1>4 DEF AppExits, AwaitFull, RequestFull, RestartApp, Told, Created, TypeOK, Children
<1>5. CASE BridgeExits
  BY <1>5 DEF BridgeExits, AwaitFull, EndWithBridge, Told, Created, TypeOK, Children
<1>6. CASE StopAll \/ LoopEmpties \/ Check \/ TimePasses \/ UNCHANGED vars
  BY <1>6 DEF StopAll, LoopEmpties, Check, TimePasses, vars, Told, Created, Children
<1>7. CASE CheckEnds
  BY <1>7 DEF CheckEnds, Missed, Answered, Request, Created, TypeOK, Children
<1> QED
  BY <1>3, <1>4, <1>5, <1>6, <1>7 DEF Next

\* Where the system can always create a process nothing is wedged: every pending reason
\* then has a process told to stop, a timer or the full restart to wait for.
THEOREM NothingWedged ==
  ASSUME ~SpawnMayFail
  PROVE  Spec => [](RestartComing /\ NeverWedged)
<1>1. Init => Created
  BY DEF Init, Spawned, Created
<1>2. TypeOK /\ Created /\ [Next]_vars => Created'
  BY StaysCreated
<1>3. Created => NeverWedged
  BY DEF Created, NeverWedged, Wedged, Children
<1> QED
  BY <1>1, <1>2, <1>3, LauncherTypeCorrect, NoRestartForgotten, PTL DEF Spec

\* The controlled restart of app-server is never requested: monitorBridgeHealth gives up
\* on a verdict that is not recoverable (548), and evaluateBridgeAppServerRecovery asks
\* for a restart only with such a one (262-272, 314-323).
THEOREM AppNeverAsked == Spec => [](~reason["app"])
<1>1. IInv => ~reason["app"]
  BY DEF IInv, Unasked
<1> QED
  BY Inductive, <1>1, PTL
=============================================================================
