------------------------ MODULE SimulatorSessionProofs ------------------------
(***************************************************************************)
(* Who may send and what the watchdog still finds, proved for any watchdog *)
(* limit, with and without the pilot's watchdog, and any queue.            *)
(***************************************************************************)
EXTENDS SimulatorSession, TLAPS

\* The adapter's lock is held across two steps only by a step of the executor
\* that still has the authority.
LockInv == held => exec = "deciding" /\ AiAllowed

\* A step of the executor that goes on is one of an enabled executor, and a stop
\* that has come past the executor left it disabled.
EnabledInv ==
  /\ exec \in {"checked", "deciding", "distrusting"} => enabled
  /\ exec = "stopping" => stopper = "joining"
  /\ stopper \in {"leaving", "done"} => ~enabled

\* No AI frame is the last one out, unless its neutral frame failed.
AiIsSilent == wire # "ai" \/ lost

\* The executor's shutdown silences the AI for good.
StopInv == exec = "stopping" \/ stopper \in {"leaving", "done"} => AiIsSilent

SessionInv ==
  SessionTypeOK /\ LockInv /\ AiOutputIsWatched /\ EnabledInv /\ StopInv
------------------------------------------------------------------------------
\* A call of the adapter that is not the AI's.
AdapterCall(out) ==
  SubmitManual(out) \/ FailSafe(out) \/ CheckWatchdog(out) \/ ShutDown(out)

\* Such a call waits for the lock, keeps the types and the watchdog's stamp, and
\* never makes an AI frame the last one out.
LEMMA AdapterCalls ==
  ASSUME ControlTypeOK, AiOutputIsWatched, NEW out \in Outcomes, AdapterCall(out)
  PROVE  /\ ~held /\ ~held'
         /\ ControlTypeOK' /\ AiOutputIsWatched'
         /\ AiIsSilent => AiIsSilent'
  <1> USE ControlAssumption
  <1>1. 0 \in 0 .. Watchdog
    OBVIOUS
  <1>2. CASE SubmitManual(out)
    <2>1. CASE out = "raised"
      BY <1>2, <2>1 DEF SubmitManual, ControlTypeOK, AiOutputIsWatched, AiIsSilent, frameVars
    <2>2. CASE out = "sent"
      <3>1. /\ authState' = "manual" /\ override' = TRUE /\ aiEnabled' = aiEnabled
            /\ ~held /\ held' = held
            /\ wire' = "pilot" /\ lost' = FALSE /\ aiAge' = None /\ pilotAge' = 0
        BY <1>2, <2>2 DEF SubmitManual
      <3>2. ControlTypeOK'
        BY <1>1, <3>1 DEF ControlTypeOK
      <3> QED BY <3>1, <3>2 DEF AiOutputIsWatched, AiIsSilent
    <2> QED BY <1>2, <2>1, <2>2 DEF SubmitManual
  <1>3. ASSUME FailSafe(out)
        PROVE  /\ ~held /\ ~held'
               /\ ControlTypeOK' /\ AiOutputIsWatched'
               /\ AiIsSilent => AiIsSilent'
    BY <1>3 DEF FailSafe, FailAuthority, ControlTypeOK, AiOutputIsWatched, AiIsSilent
  <1>4. CASE CheckWatchdog(out)
    BY <1>3, <1>4 DEF CheckWatchdog, ControlTypeOK, AiOutputIsWatched, AiIsSilent, authVars
  <1>5. CASE ShutDown(out)
    BY <1>3, <1>5 DEF ShutDown, ControlTypeOK, AiOutputIsWatched, AiIsSilent, controlVars,
                      authVars, frameVars
  <1> QED BY <1>2, <1>3, <1>4, <1>5 DEF AdapterCall

\* A shutdown that does not raise silences the AI.
LEMMA ShutDownSilences ==
  ASSUME ControlTypeOK, AiOutputIsWatched, NEW out \in Outcomes, ShutDown(out),
         out # "raised"
  PROVE  AiIsSilent'
  <1>1. CASE StreamActive /\ FailSafe(out)
    BY <1>1 DEF FailSafe, AiIsSilent
  <1>2. CASE ~StreamActive /\ UNCHANGED controlVars
    BY <1>2 DEF StreamActive, AiOutputIsWatched, AiIsSilent, controlVars, frameVars
  <1> QED BY <1>1, <1>2 DEF ShutDown

\* What a step does to the adapter's part.
LEMMA ControlSteps ==
  ASSUME SessionInv, [Next]_vars
  PROVE  ControlTypeOK' /\ AiOutputIsWatched'
  <1> USE ControlAssumption DEF SessionInv, SessionTypeOK
  <1>1. ASSUME UNCHANGED <<frameVars, held>>, authState' \in {"manual", "ai", "paused", "failsafe"},
               aiEnabled' \in BOOLEAN, override' \in BOOLEAN
        PROVE  ControlTypeOK' /\ AiOutputIsWatched'
    BY <1>1 DEF ControlTypeOK, AiOutputIsWatched, frameVars
  <1>2. ASSUME NEW out \in Outcomes, AdapterCall(out) PROVE ControlTypeOK' /\ AiOutputIsWatched'
    BY <1>2, AdapterCalls
  <1>3. CASE UNCHANGED controlVars
    BY <1>3 DEF controlVars, authVars, frameVars, ControlTypeOK, AiOutputIsWatched
  <1>4. CASE EnableAi \/ EnableReleases \/ DisableDone \/ ReleaseManualControl
             \/ TakeManualControl \/ StepDistrusts \/ StopExecutorDone
    BY <1>1, <1>4 DEF EnableAi, EnableReleases, DisableDone, ReleaseManualControl,
       TakeManualControl, StepDistrusts, StopExecutorDone, EnableAuthority, ReleaseAuthority,
       DisableAuthority, TakeAuthority, FailAuthority, ControlTypeOK
  <1>5. CASE DisableAi \/ StepPolls \/ StepDoubts \/ StepFails \/ WatchdogTick \/ LoopPolls
             \/ LoopCloses \/ StopShutsDown \/ StopExecutor \/ StopReturns
    BY <1>2, <1>5 DEF DisableAi, StepPolls, StepDoubts, StepFails, WatchdogTick, LoopPolls,
       LoopCloses, StopShutsDown, StopExecutor, StopReturns, AdapterCall
  <1>6. CASE LoopReceives \/ Drains
    <2>1. PICK accepting \in BOOLEAN, raised \in BOOLEAN : ProcessDatagram(accepting, raised)
      BY <1>6 DEF LoopReceives, Drains, SessionTypeOK
    <2>2. \/ UNCHANGED controlVars
          \/ SubmitManual(IF raised THEN "raised" ELSE "sent")
      BY <2>1 DEF ProcessDatagram
    <2>3. (IF raised THEN "raised" ELSE "sent") \in Outcomes
      BY DEF Outcomes
    <2> QED BY <1>2, <1>3, <2>2, <2>3 DEF AdapterCall
  <1>7. CASE StepBegins \/ StepIsRefused \/ GatewayRuns \/ GatewayBinds \/ LoopStops
             \/ SelectTimesOut \/ DrainEnds \/ PilotSends \/ StopFlags
    BY <1>3, <1>7 DEF StepBegins, StepIsRefused, GatewayRuns, GatewayBinds, LoopStops,
       SelectTimesOut, DrainEnds, PilotSends, StopFlags
  <1>8. CASE StepSubmits
    BY <1>8 DEF StepSubmits, GrantAi, authVars, frameVars, ControlTypeOK, AiOutputIsWatched
  <1>9. CASE StepEmits
    <2>1. 0 \in 0 .. Watchdog
      OBVIOUS
    <2>2. PICK out \in Outcomes : EmitAi(out)
      BY <1>9 DEF StepEmits
    <2>3. CASE out = "raised"
      <3>1. UNCHANGED <<authState, aiEnabled, override, aiAge, pilotAge, wire, lost>>
        BY <2>2, <2>3 DEF EmitAi, authVars, frameVars
      <3>2. held' = FALSE
        BY <2>2 DEF EmitAi
      <3> QED BY <3>1, <3>2 DEF ControlTypeOK, AiOutputIsWatched
    <2>4. CASE out = "sent"
      <3>1. /\ UNCHANGED <<authState, aiEnabled, override>> /\ held' = FALSE
            /\ wire' = "ai" /\ lost' = FALSE /\ aiAge' = 0 /\ pilotAge' = None
        BY <2>2, <2>4 DEF EmitAi, authVars
      <3>2. ControlTypeOK'
        BY <2>1, <3>1 DEF ControlTypeOK
      <3>3. aiAge' # None
        BY <3>1
      <3> QED BY <3>2, <3>3 DEF AiOutputIsWatched
    <2> QED BY <2>2, <2>3, <2>4 DEF EmitAi
  <1>10. CASE Tick
    <2>1. \A age \in 0 .. Watchdog \union {None} :
             /\ Older(age) \in 0 .. Watchdog \union {None}
             /\ age # None => Older(age) # None
      BY DEF Older
    <2> QED BY <1>10, <2>1 DEF Tick, authVars, ControlTypeOK, AiOutputIsWatched
  <1>11. CASE UNCHANGED vars
    BY <1>3, <1>11 DEF vars
  <1> QED BY <1>4, <1>5, <1>6, <1>7, <1>8, <1>9, <1>10, <1>11 DEF Next

\* What a step does to the types of the rest.
LEMMA SessionTypes == ASSUME SessionInv, [Next]_vars PROVE SessionTypeOK'
  <1> USE SessionAssumption DEF SessionInv, SessionTypeOK
  <1>1. ControlTypeOK'
    BY ControlSteps
  <1>2. CASE EnableAi \/ EnableReleases \/ DisableAi \/ DisableDone \/ ReleaseManualControl
             \/ TakeManualControl
    BY <1>1, <1>2 DEF EnableAi, EnableReleases, DisableAi, DisableDone, ReleaseManualControl,
       TakeManualControl, executorVars, gatewayVars
  <1>3. CASE StepBegins \/ StepPolls \/ StepDoubts \/ StepDistrusts \/ StepFails \/ StepSubmits
             \/ StepIsRefused \/ StepEmits \/ WatchdogTick
    BY <1>1, <1>3 DEF StepBegins, StepPolls, StepDoubts, StepDistrusts, StepFails, StepSubmits,
       StepIsRefused, StepEmits, WatchdogTick, executorVars, gatewayVars
  <1>4. CASE GatewayRuns \/ GatewayBinds \/ LoopStops \/ LoopPolls \/ SelectTimesOut
             \/ DrainEnds
    BY <1>1, <1>4 DEF GatewayRuns, GatewayBinds, LoopStops, LoopPolls, SelectTimesOut,
       DrainEnds, executorVars
  <1>8. CASE LoopCloses \/ PilotSends
    <2>1. queue' \in 0 .. QueueLimit
      BY <1>8 DEF LoopCloses, PilotSends
    <2> QED BY <1>1, <1>8, <2>1 DEF LoopCloses, PilotSends, executorVars
  <1>5. CASE LoopReceives \/ Drains
    BY <1>1, <1>5 DEF LoopReceives, Drains, ProcessDatagram, executorVars
  <1>6. CASE StopFlags \/ StopShutsDown \/ StopExecutor \/ StopExecutorDone \/ StopReturns
    BY <1>1, <1>6 DEF StopFlags, StopShutsDown, StopExecutor, StopExecutorDone, StopReturns,
       executorVars, gatewayVars
  <1>7. CASE (Tick /\ UNCHANGED <<executorVars, gatewayVars, stopper>>) \/ UNCHANGED vars
    BY <1>1, <1>7 DEF vars, executorVars, gatewayVars
  <1> QED BY <1>2, <1>3, <1>4, <1>5, <1>6, <1>7, <1>8 DEF Next

\* While the lock is held nobody but the step that holds it reaches the authority.
LEMMA LockIsKept == ASSUME SessionInv, [Next]_vars PROVE LockInv'
  <1> USE DEF SessionInv
  <1>1. CASE held /\ ~StepEmits
    <2>1. exec = "deciding" /\ AiAllowed
      BY <1>1 DEF LockInv
    <2>2. ASSUME NEW out \in Outcomes PROVE ~AdapterCall(out)
      BY <1>1, <2>2, AdapterCalls DEF SessionTypeOK
    <2>3. UNCHANGED <<exec, authVars>>
      <3>1. CASE StepPolls \/ StepDoubts \/ StepFails \/ LoopPolls \/ LoopCloses
                 \/ StopShutsDown \/ StopReturns
        BY <2>2, <3>1 DEF StepPolls, StepDoubts, StepFails, LoopPolls, LoopCloses,
           StopShutsDown, StopReturns, AdapterCall
      <3>2. CASE LoopReceives \/ Drains
        <4>1. PICK accepting \in BOOLEAN, raised \in BOOLEAN : ProcessDatagram(accepting, raised)
          BY <3>2 DEF LoopReceives, Drains, SessionTypeOK
        <4>2. (IF raised THEN "raised" ELSE "sent") \in Outcomes
          BY DEF Outcomes
        <4>3. UNCHANGED controlVars
          BY <2>2, <4>1, <4>2 DEF ProcessDatagram, AdapterCall
        <4> QED BY <3>2, <4>3 DEF LoopReceives, Drains, controlVars, executorVars
      <3>3. CASE GatewayRuns \/ GatewayBinds \/ LoopStops \/ SelectTimesOut \/ DrainEnds
                 \/ PilotSends \/ StopFlags
        BY <3>3 DEF GatewayRuns, GatewayBinds, LoopStops, SelectTimesOut, DrainEnds, PilotSends,
           StopFlags, controlVars, executorVars
      <3>4. CASE (Tick /\ UNCHANGED <<executorVars, gatewayVars, stopper>>) \/ UNCHANGED vars
        BY <3>4 DEF Tick, vars, controlVars, executorVars
      <3>5. ~StepSubmits /\ ~StepIsRefused
        BY <1>1 DEF StepSubmits, StepIsRefused, GrantAi
      <3>6. ~(EnableAi \/ EnableReleases \/ DisableAi \/ DisableDone \/ ReleaseManualControl
              \/ TakeManualControl \/ StepBegins \/ StepDistrusts \/ WatchdogTick
              \/ StopExecutor \/ StopExecutorDone)
        BY <2>1 DEF EnableAi, EnableReleases, DisableAi, DisableDone, ReleaseManualControl,
           TakeManualControl, StepBegins, StepDistrusts, WatchdogTick, StopExecutor,
           StopExecutorDone
      <3> QED BY <1>1, <3>1, <3>2, <3>3, <3>4, <3>5, <3>6 DEF Next
    <2> QED BY <2>1, <2>3 DEF LockInv, AiAllowed, authVars
  <1>2. CASE StepEmits
    BY <1>2 DEF StepEmits, EmitAi, LockInv
  <1>3. CASE StepSubmits
    BY <1>3 DEF StepSubmits, GrantAi, LockInv, AiAllowed, authVars, executorVars
  <1>4. CASE ~held /\ ~StepSubmits /\ ~StepEmits
    <2>1. ASSUME NEW out \in Outcomes, AdapterCall(out) PROVE ~held'
      BY <2>1, AdapterCalls DEF SessionTypeOK
    <2>2. CASE DisableAi \/ StepPolls \/ StepDoubts \/ StepFails \/ WatchdogTick \/ LoopPolls
               \/ LoopCloses \/ StopShutsDown \/ StopExecutor \/ StopReturns
      BY <2>1, <2>2 DEF DisableAi, StepPolls, StepDoubts, StepFails, WatchdogTick, LoopPolls,
         LoopCloses, StopShutsDown, StopExecutor, StopReturns, AdapterCall, LockInv
    <2>3. CASE LoopReceives \/ Drains
      BY <1>4, <2>3 DEF LoopReceives, Drains, ProcessDatagram, SubmitManual, controlVars, LockInv
    <2>4. CASE EnableAi \/ EnableReleases \/ DisableDone \/ ReleaseManualControl
               \/ TakeManualControl \/ StepBegins \/ StepDistrusts \/ StepIsRefused
               \/ StopExecutorDone
      BY <1>4, <2>4 DEF EnableAi, EnableReleases, DisableDone, ReleaseManualControl,
         TakeManualControl, StepBegins, StepDistrusts, StepIsRefused, StopExecutorDone,
         controlVars, LockInv
    <2>5. CASE GatewayRuns \/ GatewayBinds \/ LoopStops \/ SelectTimesOut \/ DrainEnds
               \/ PilotSends \/ StopFlags \/ Tick \/ UNCHANGED vars
      BY <1>4, <2>5 DEF GatewayRuns, GatewayBinds, LoopStops, SelectTimesOut, DrainEnds,
         PilotSends, StopFlags, Tick, vars, controlVars, LockInv
    <2> QED BY <1>4, <2>2, <2>3, <2>4, <2>5 DEF Next
  <1> QED BY <1>1, <1>2, <1>3, <1>4

\* An executor that goes on is enabled, and one that was stopped is not.
LEMMA EnabledIsKept == ASSUME SessionInv, [Next]_vars PROVE EnabledInv'
  <1> USE DEF SessionInv, EnabledInv
  <1>1. CASE EnableAi \/ EnableReleases \/ DisableAi \/ DisableDone \/ ReleaseManualControl
             \/ TakeManualControl
    BY <1>1 DEF EnableAi, EnableReleases, DisableAi, DisableDone, ReleaseManualControl,
       TakeManualControl, executorVars
  <1>2. CASE StepBegins \/ StepPolls \/ StepDoubts \/ StepDistrusts \/ StepFails \/ StepSubmits
             \/ StepIsRefused \/ StepEmits \/ WatchdogTick
    BY <1>2 DEF StepBegins, StepPolls, StepDoubts, StepDistrusts, StepFails, StepSubmits,
       StepIsRefused, StepEmits, WatchdogTick, executorVars
  <1>3. CASE GatewayRuns \/ GatewayBinds \/ LoopStops \/ LoopPolls \/ SelectTimesOut
             \/ LoopReceives \/ Drains \/ DrainEnds \/ LoopCloses \/ PilotSends
    <2>1. UNCHANGED <<enabled, exec, stopper>>
      BY <1>3 DEF GatewayRuns, GatewayBinds, LoopStops, LoopPolls, SelectTimesOut,
         LoopReceives, Drains, DrainEnds, LoopCloses, PilotSends, executorVars
    <2> QED BY <2>1
  <1>4. CASE StopFlags \/ StopShutsDown \/ StopExecutor \/ StopExecutorDone \/ StopReturns
    BY <1>4 DEF StopFlags, StopShutsDown, StopExecutor, StopExecutorDone, StopReturns,
       executorVars
  <1>5. CASE (Tick /\ UNCHANGED <<executorVars, gatewayVars, stopper>>) \/ UNCHANGED vars
    BY <1>5 DEF vars, executorVars
  <1> QED BY <1>1, <1>2, <1>3, <1>4, <1>5 DEF Next

\* Once silent the AI stays so but for a frame of a step that is deciding, and
\* none is while, or after, the executor is stopped.
LEMMA StopIsKept == ASSUME SessionInv, [Next]_vars PROVE StopInv'
  <1> USE DEF SessionInv
  <1>1. CASE StopExecutor
    <2>1. PICK out \in Outcomes :
            /\ ShutDown(out)
            /\ exec' = IF out = "raised" THEN "idle" ELSE "stopping"
            /\ stopper' = IF out = "raised" THEN "idle" ELSE "joining"
      BY <1>1 DEF StopExecutor
    <2>2. CASE out # "raised"
      BY <2>1, <2>2, ShutDownSilences DEF SessionTypeOK, StopInv
    <2>3. CASE out = "raised"
      BY <2>1, <2>3 DEF StopInv
    <2> QED BY <2>2, <2>3
  <1>2. CASE ~StopExecutor /\ (exec = "stopping" \/ stopper \in {"leaving", "done"})
    <2>1. AiIsSilent
      BY <1>2 DEF StopInv
    <2>2. exec \notin {"checked", "deciding", "distrusting"}
      BY <1>2 DEF EnabledInv
    <2>3. ASSUME NEW out \in Outcomes, AdapterCall(out) PROVE AiIsSilent'
      BY <2>1, <2>3, AdapterCalls DEF SessionTypeOK
    <2>4. ASSUME UNCHANGED <<wire, lost>> PROVE AiIsSilent'
      BY <2>1, <2>4 DEF AiIsSilent
    <2>5. CASE DisableAi \/ WatchdogTick \/ LoopPolls \/ LoopCloses \/ StopShutsDown
               \/ StopReturns
      BY <2>3, <2>5 DEF DisableAi, WatchdogTick, LoopPolls, LoopCloses, StopShutsDown,
         StopReturns, AdapterCall, StopInv
    <2>6. CASE LoopReceives \/ Drains
      <3>1. PICK accepting \in BOOLEAN, raised \in BOOLEAN : ProcessDatagram(accepting, raised)
        BY <2>6 DEF LoopReceives, Drains, SessionTypeOK
      <3>2. (IF raised THEN "raised" ELSE "sent") \in Outcomes
        BY DEF Outcomes
      <3> QED BY <2>3, <2>4, <3>1, <3>2 DEF ProcessDatagram, AdapterCall, controlVars, frameVars,
                                             StopInv
    <2>7. CASE EnableAi \/ EnableReleases \/ DisableDone \/ ReleaseManualControl
               \/ TakeManualControl \/ StopExecutorDone
      BY <2>4, <2>7 DEF EnableAi, EnableReleases, DisableDone, ReleaseManualControl,
         TakeManualControl, StopExecutorDone, frameVars, StopInv
    <2>8. CASE GatewayRuns \/ GatewayBinds \/ LoopStops \/ SelectTimesOut \/ DrainEnds
               \/ PilotSends \/ StopFlags \/ Tick \/ UNCHANGED vars
      BY <2>4, <2>8 DEF GatewayRuns, GatewayBinds, LoopStops, SelectTimesOut, DrainEnds,
         PilotSends, StopFlags, Tick, vars, controlVars, frameVars, StopInv
    <2>9. ~(StepBegins \/ StepPolls \/ StepDoubts \/ StepDistrusts \/ StepFails \/ StepSubmits
            \/ StepIsRefused \/ StepEmits)
      <3>1. ~StepBegins
        BY <1>2 DEF StepBegins, EnabledInv
      <3> QED BY <2>2, <3>1 DEF StepPolls, StepDoubts, StepDistrusts, StepFails, StepSubmits,
                                StepIsRefused, StepEmits
    <2> QED BY <1>2, <2>5, <2>6, <2>7, <2>8, <2>9 DEF Next
  <1>3. CASE ~StopExecutor /\ exec # "stopping" /\ stopper \notin {"leaving", "done"}
    <2>1. exec' # "stopping" /\ stopper' \notin {"leaving", "done"}
      <3>1. CASE EnableAi \/ EnableReleases \/ DisableAi \/ DisableDone
                 \/ ReleaseManualControl \/ TakeManualControl
        BY <1>3, <3>1 DEF EnableAi, EnableReleases, DisableAi, DisableDone,
           ReleaseManualControl, TakeManualControl, executorVars
      <3>2. CASE StepBegins \/ StepPolls \/ StepDoubts \/ StepDistrusts \/ StepFails
                 \/ StepSubmits \/ StepIsRefused \/ StepEmits \/ WatchdogTick
        BY <1>3, <3>2 DEF StepBegins, StepPolls, StepDoubts, StepDistrusts, StepFails,
           StepSubmits, StepIsRefused, StepEmits, WatchdogTick, executorVars
      <3>3. CASE GatewayRuns \/ GatewayBinds \/ LoopStops \/ LoopPolls \/ SelectTimesOut
                 \/ LoopReceives \/ Drains \/ DrainEnds \/ LoopCloses \/ PilotSends
        BY <1>3, <3>3 DEF GatewayRuns, GatewayBinds, LoopStops, LoopPolls, SelectTimesOut,
           LoopReceives, Drains, DrainEnds, LoopCloses, PilotSends, executorVars
      <3>4. CASE StopFlags \/ StopShutsDown \/ StopExecutorDone \/ StopReturns
        BY <1>3, <3>4 DEF StopFlags, StopShutsDown, StopExecutorDone, StopReturns,
           executorVars, gatewayVars
      <3>5. CASE (Tick /\ UNCHANGED <<executorVars, gatewayVars, stopper>>) \/ UNCHANGED vars
        BY <1>3, <3>5 DEF vars, executorVars
      <3> QED BY <1>3, <3>1, <3>2, <3>3, <3>4, <3>5 DEF Next
    <2> QED BY <2>1 DEF StopInv
  <1> QED BY <1>1, <1>2, <1>3
------------------------------------------------------------------------------
LEMMA SessionInitially == Init => SessionInv
  <1> SUFFICES ASSUME Init PROVE SessionInv
    OBVIOUS
  <1> USE ControlAssumption, SessionAssumption
  <1>1. ControlTypeOK
    <2>1. aiEnabled \in BOOLEAN /\ override \in BOOLEAN
      BY Zenon DEF Init, ControlInit
    <2>2. FALSE \in BOOLEAN
      OBVIOUS
    <2> QED BY <2>1, <2>2 DEF Init, ControlInit, ControlTypeOK
  <1>2. SessionTypeOK
    <2>1. enabled = aiEnabled /\ aiEnabled \in BOOLEAN
      BY <1>1 DEF Init, ControlTypeOK
    <2>2. queue \in 0 .. QueueLimit
      BY DEF Init
    <2> QED BY <1>1, <2>1, <2>2 DEF Init, SessionTypeOK
  <1>3. LockInv /\ AiOutputIsWatched
    BY DEF Init, ControlInit, LockInv, AiOutputIsWatched
  <1>4. EnabledInv /\ StopInv
    BY DEF Init, EnabledInv, StopInv
  <1> QED BY <1>2, <1>3, <1>4 DEF SessionInv

LEMMA SessionStep == SessionInv /\ [Next]_vars => SessionInv'
  BY SessionTypes, ControlSteps, LockIsKept, EnabledIsKept, StopIsKept DEF SessionInv

\* The inductive invariant of the session holds in every reachable state.
THEOREM SessionInvariant == Spec => []SessionInv
  BY SessionInitially, SessionStep, PTL DEF Spec

\* Type correctness of the authority, the adapter, the executor and the gateway.
THEOREM SessionTypesHold == Spec => []SessionTypeOK
  <1>1. SessionInv => SessionTypeOK
    BY DEF SessionInv
  <1> QED BY <1>1, SessionInvariant, PTL

\* No takeover comes between the grant of an AI frame and the frame itself.
THEOREM FramesHaveAuthority == Spec => []AiFrameHasAuthority
  <1>1. SessionInv => AiFrameHasAuthority
    BY DEF SessionInv, LockInv, AiFrameHasAuthority
  <1> QED BY <1>1, SessionInvariant, PTL

\* The watchdog can still find the AI's last frame, whatever failed to be sent.
THEOREM OutputIsWatched == Spec => []AiOutputIsWatched
  <1>1. SessionInv => AiOutputIsWatched
    BY DEF SessionInv
  <1> QED BY <1>1, SessionInvariant, PTL

\* Past the executor's stop no AI frame is the last one out.
THEOREM StopSilencesAi == Spec => []AiEndsWithStop
  <1>1. SessionInv => AiEndsWithStop
    BY DEF SessionInv, StopInv, AiIsSilent, AiEndsWithStop
  <1> QED BY <1>1, SessionInvariant, PTL
------------------------------------------------------------------------------
(***************************************************************************)
(* What a step may never do.                                               *)
(***************************************************************************)
\* A takeover ends, and the AI gets the authority, only by the pilot's own
\* release or in a call of enable_ai that is under way.
TakeoverStep ==
  /\ override /\ ~override' => ReleaseManualControl \/ exec = "enabling"
  /\ authState # "ai" /\ authState' = "ai"
       => /\ aiEnabled /\ ~override'
          /\ ReleaseManualControl \/ exec = "enabling"

TakeoverEndsByRelease == [][TakeoverStep]_vars

\* The adapter's calls give the AI nothing and end no takeover.
LEMMA CallsKeepTakeover ==
  ASSUME NEW out \in Outcomes, AdapterCall(out)
  PROVE  /\ override => override'
         /\ authState' = "ai" => authState = "ai"
  BY DEF AdapterCall, SubmitManual, FailSafe, CheckWatchdog, ShutDown, FailAuthority,
         authVars, controlVars

\* How far EnableKeepsTakeover fails: of everything a session's threads do, the
\* second half of enable_ai alone ends a takeover that the pilot did not release.
THEOREM TakeoverHolds == Spec => TakeoverEndsByRelease
  <1>1. ASSUME SessionInv, [Next]_vars PROVE TakeoverStep
    <2>1. ASSUME NEW out \in Outcomes, AdapterCall(out) PROVE TakeoverStep
      BY <2>1, CallsKeepTakeover DEF TakeoverStep
    <2>2. CASE DisableAi \/ StepPolls \/ StepDoubts \/ StepFails \/ WatchdogTick \/ LoopPolls
               \/ LoopCloses \/ StopShutsDown \/ StopExecutor \/ StopReturns
      BY <2>1, <2>2 DEF DisableAi, StepPolls, StepDoubts, StepFails, WatchdogTick,
         LoopPolls, LoopCloses, StopShutsDown, StopExecutor, StopReturns, AdapterCall
    <2>3. ASSUME UNCHANGED authVars PROVE TakeoverStep
      BY <2>3 DEF authVars, TakeoverStep
    <2>4. CASE LoopReceives \/ Drains
      <3>1. PICK accepting \in BOOLEAN, raised \in BOOLEAN : ProcessDatagram(accepting, raised)
        BY <1>1, <2>4 DEF LoopReceives, Drains, SessionInv, SessionTypeOK
      <3>2. UNCHANGED controlVars \/ SubmitManual(IF raised THEN "raised" ELSE "sent")
        BY <3>1 DEF ProcessDatagram
      <3>3. (IF raised THEN "raised" ELSE "sent") \in Outcomes
        BY DEF Outcomes
      <3> QED BY <2>1, <2>3, <3>2, <3>3 DEF AdapterCall, controlVars
    <2>5. CASE EnableReleases \/ ReleaseManualControl
      BY <2>5 DEF EnableReleases, ReleaseManualControl, ReleaseAuthority, TakeoverStep
    <2>6. CASE EnableAi \/ DisableDone \/ TakeManualControl \/ StepDistrusts
               \/ StopExecutorDone
      BY <2>6 DEF EnableAi, DisableDone, TakeManualControl, StepDistrusts,
         StopExecutorDone, EnableAuthority, DisableAuthority, TakeAuthority, FailAuthority,
         TakeoverStep
    <2>7. CASE \/ StepBegins \/ StepSubmits \/ StepIsRefused \/ StepEmits \/ GatewayRuns
               \/ GatewayBinds \/ LoopStops \/ SelectTimesOut \/ DrainEnds \/ PilotSends
               \/ StopFlags \/ Tick \/ UNCHANGED vars
      BY <2>3, <2>7 DEF StepBegins, StepSubmits, GrantAi, StepIsRefused, StepEmits, EmitAi,
         GatewayRuns, GatewayBinds, LoopStops, SelectTimesOut, DrainEnds, PilotSends,
         StopFlags, Tick, vars, controlVars
    <2> QED BY <1>1, <2>2, <2>4, <2>5, <2>6, <2>7 DEF Next
  <1>2. SessionInv /\ [Next]_vars => [TakeoverStep]_vars
    BY <1>1
  <1> QED BY <1>2, SessionInvariant, PTL DEF Spec, TakeoverEndsByRelease
------------------------------------------------------------------------------
\* The stamp the watchdog looks at is cleared by a frame that replaces the AI's
\* or a neutral one that failed, set back by a new AI frame, and otherwise grows.
StampStep ==
  aiAge # None =>
    \/ aiAge' = None /\ (wire' # "ai" \/ lost')
    \/ aiAge' = 0 /\ wire' = "ai" /\ AiAllowed
    \/ aiAge' \in Nat /\ aiAge' >= aiAge /\ wire' = wire

StampIsKept == [][StampStep]_vars

LEMMA CallsKeepStamp ==
  ASSUME ControlTypeOK, NEW out \in Outcomes, AdapterCall(out)
  PROVE  StampStep
  <1>1. aiAge # None => aiAge \in Nat
    BY ControlAssumption DEF ControlTypeOK
  <1>2. ASSUME FailSafe(out) PROVE StampStep
    BY <1>2 DEF FailSafe, StampStep
  <1>3. ASSUME UNCHANGED <<aiAge, wire>> PROVE StampStep
    BY <1>1, <1>3 DEF StampStep
  <1>4. CASE SubmitManual(out)
    <2>1. CASE out = "sent"
      BY <1>4, <2>1 DEF SubmitManual, StampStep
    <2>2. CASE out = "raised"
      BY <1>3, <1>4, <2>2 DEF SubmitManual, frameVars
    <2> QED BY <1>4, <2>1, <2>2 DEF SubmitManual
  <1>5. CASE CheckWatchdog(out)
    BY <1>2, <1>3, <1>5 DEF CheckWatchdog
  <1>6. CASE ShutDown(out)
    BY <1>2, <1>3, <1>6 DEF ShutDown, controlVars, frameVars
  <1> QED BY <1>2, <1>4, <1>5, <1>6 DEF AdapterCall

\* What StaleAiIsNeutralized rests on beside fairness: no thread makes the
\* watchdog forget an AI frame that is still the last one out, and only an AI
\* that has the authority makes it young again.
THEOREM WatchdogRemembers == Spec => StampIsKept
  <1>1. ASSUME SessionInv, [Next]_vars PROVE StampStep
    <2>1. ControlTypeOK /\ LockInv /\ (aiAge # None => aiAge \in 0 .. Watchdog)
      BY <1>1 DEF SessionInv, SessionTypeOK, ControlTypeOK
    <2>2. aiAge # None => aiAge \in Nat
      BY <2>1, ControlAssumption
    <2>3. ASSUME NEW out \in Outcomes, AdapterCall(out) PROVE StampStep
      BY <2>1, <2>3, CallsKeepStamp
    <2>4. ASSUME UNCHANGED <<aiAge, wire>> PROVE StampStep
      BY <2>2, <2>4 DEF StampStep
    <2>5. CASE DisableAi \/ StepPolls \/ StepDoubts \/ StepFails \/ WatchdogTick \/ LoopPolls
               \/ LoopCloses \/ StopShutsDown \/ StopExecutor \/ StopReturns
      BY <2>3, <2>5 DEF DisableAi, StepPolls, StepDoubts, StepFails, WatchdogTick,
         LoopPolls, LoopCloses, StopShutsDown, StopExecutor, StopReturns, AdapterCall
    <2>6. CASE LoopReceives \/ Drains
      <3>1. PICK accepting \in BOOLEAN, raised \in BOOLEAN : ProcessDatagram(accepting, raised)
        BY <1>1, <2>6 DEF LoopReceives, Drains, SessionInv, SessionTypeOK
      <3>2. UNCHANGED controlVars \/ SubmitManual(IF raised THEN "raised" ELSE "sent")
        BY <3>1 DEF ProcessDatagram
      <3>3. (IF raised THEN "raised" ELSE "sent") \in Outcomes
        BY DEF Outcomes
      <3> QED BY <2>3, <2>4, <3>2, <3>3 DEF AdapterCall, controlVars, frameVars
    <2>7. CASE StepEmits
      <3>1. PICK out \in Outcomes : EmitAi(out)
        BY <2>7 DEF StepEmits
      <3>2. AiAllowed
        BY <2>1, <3>1 DEF EmitAi, LockInv
      <3>3. CASE out = "sent"
        BY <3>1, <3>2, <3>3 DEF EmitAi, StampStep
      <3>4. CASE out = "raised"
        BY <2>4, <3>1, <3>4 DEF EmitAi, frameVars
      <3> QED BY <3>1, <3>3, <3>4 DEF EmitAi
    <2>8. CASE Tick
      <3>1. aiAge' = Older(aiAge) /\ wire' = wire
        BY <2>8 DEF Tick
      <3>2. aiAge # None => Older(aiAge) \in Nat /\ Older(aiAge) >= aiAge
        BY <2>2, ControlAssumption DEF Older
      <3> QED BY <3>1, <3>2 DEF StampStep
    <2>9. CASE EnableAi \/ EnableReleases \/ DisableDone \/ ReleaseManualControl
               \/ TakeManualControl \/ StepDistrusts \/ StopExecutorDone \/ StepSubmits
      BY <2>4, <2>9 DEF EnableAi, EnableReleases, DisableDone, ReleaseManualControl,
         TakeManualControl, StepDistrusts, StopExecutorDone, StepSubmits, GrantAi, frameVars
    <2>10. CASE \/ StepBegins \/ StepIsRefused \/ GatewayRuns \/ GatewayBinds \/ LoopStops
                \/ SelectTimesOut \/ DrainEnds \/ PilotSends \/ StopFlags \/ UNCHANGED vars
      BY <2>4, <2>10 DEF StepBegins, StepIsRefused, GatewayRuns, GatewayBinds, LoopStops,
         SelectTimesOut, DrainEnds, PilotSends, StopFlags, vars, controlVars, frameVars
    <2> QED BY <1>1, <2>5, <2>6, <2>7, <2>8, <2>9, <2>10 DEF Next
  <1>2. SessionInv /\ [Next]_vars => [StampStep]_vars
    BY <1>1
  <1> QED BY <1>2, SessionInvariant, PTL DEF Spec, StampIsKept
------------------------------------------------------------------------------
\* Where a run that has been stopped can still get to.
Onward == [waiting |-> {"serving", "draining", "closing"},
           serving |-> {"draining", "closing"},
           draining |-> {"closing"},
           closing |-> {"ended"}]

StopStep ==
  stopped /\ loop \in DOMAIN Onward
    => stopped' /\ (loop' = loop \/ loop' \in Onward[loop])

StopIsOneWay == [][StopStep]_vars

\* What StopEndsTheRun rests on beside fairness: once the loop runs, nothing
\* takes a stop back, and a stopped run only moves towards its end; it never
\* waits for a datagram a second time.
THEOREM StopGoesForward == Spec => StopIsOneWay
  <1>1. ASSUME [Next]_vars PROVE StopStep
    <2>1. /\ DOMAIN Onward = {"waiting", "serving", "draining", "closing"}
          /\ Onward["waiting"] = {"serving", "draining", "closing"}
          /\ Onward["serving"] = {"draining", "closing"}
          /\ Onward["draining"] = {"closing"}
          /\ Onward["closing"] = {"ended"}
      BY DEF Onward
    <2>2. ASSUME UNCHANGED gatewayVars PROVE StopStep
      BY <2>2 DEF gatewayVars, StopStep
    <2>3. CASE GatewayRuns \/ GatewayBinds
      BY <2>1, <2>3 DEF GatewayRuns, GatewayBinds, StopStep
    <2>4. CASE LoopStops \/ LoopPolls \/ SelectTimesOut \/ DrainEnds \/ LoopCloses
      BY <2>1, <2>4 DEF LoopStops, LoopPolls, SelectTimesOut, DrainEnds, LoopCloses,
                        StopStep
    <2>5. CASE LoopReceives \/ Drains
      BY <2>1, <2>5 DEF LoopReceives, Drains, StopStep
    <2>6. CASE PilotSends \/ StopFlags
      BY <2>6 DEF PilotSends, StopFlags, StopStep
    <2>7. CASE EnableAi \/ EnableReleases \/ DisableAi \/ DisableDone
               \/ ReleaseManualControl \/ TakeManualControl \/ StepBegins \/ StepPolls
               \/ StepDoubts \/ StepDistrusts \/ StepFails \/ StepSubmits \/ StepIsRefused
               \/ StepEmits \/ WatchdogTick
      BY <2>2, <2>7 DEF EnableAi, EnableReleases, DisableAi, DisableDone,
         ReleaseManualControl, TakeManualControl, StepBegins, StepPolls, StepDoubts,
         StepDistrusts, StepFails, StepSubmits, StepIsRefused, StepEmits, WatchdogTick,
         executorVars
    <2>8. CASE StopShutsDown \/ StopExecutor \/ StopExecutorDone \/ StopReturns
               \/ (Tick /\ UNCHANGED <<executorVars, gatewayVars, stopper>>)
               \/ UNCHANGED vars
      BY <2>2, <2>8 DEF StopShutsDown, StopExecutor, StopExecutorDone, StopReturns, vars
    <2> QED BY <1>1, <2>3, <2>4, <2>5, <2>6, <2>7, <2>8 DEF Next
  <1>2. [Next]_vars => [StopStep]_vars
    BY <1>1
  <1> QED BY <1>2, PTL DEF Spec, StopIsOneWay
==============================================================================
