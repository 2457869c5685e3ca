--------------------------- MODULE SimulatorSession ---------------------------
(***************************************************************************)
(* A simulator session of the orchestrator without the interactive router: *)
(* the gateway thread that forwards the pilot's QGroundControl frames and  *)
(* polls the watchdog, the callers of the AI executor, and stop().         *)
(*                                                                         *)
(* The executor's methods hold its lock ("exec"), the adapter's calls the  *)
(* adapter's; the gateway takes the second only.  A method of the executor *)
(* is split where the gateway can come in between two of its calls.        *)
(***************************************************************************)
EXTENDS SimulatorControl

CONSTANT QueueLimit     \* bound: datagrams in the gateway's socket

ASSUME SessionAssumption == QueueLimit \in Nat \ {0}

VARIABLES enabled,          \* the executor's _enabled
          exec,             \* where the holder of the executor's lock is
          loop,             \* where the gateway's run is
          stopped,          \* the gateway's _stopped
          stopRequested,    \* ... its _stop_requested
          queue,            \* datagrams in its socket
          stopper           \* where the orchestrator's stop() is

executorVars == <<enabled, exec>>
gatewayVars == <<loop, stopped, stopRequested, queue>>
vars == <<controlVars, executorVars, gatewayVars, stopper>>
------------------------------------------------------------------------------
\* The executor.

\* enable_ai; its check of the authority and what follows are two steps.
EnableAi ==
  /\ exec = "idle" /\ stopper = "idle"
  /\ EnableAuthority
  /\ enabled' = TRUE
  /\ exec' = IF authState = "paused" /\ ~override THEN "enabling" ELSE "idle"
  /\ UNCHANGED <<frameVars, held, gatewayVars, stopper>>

EnableReleases ==
  /\ exec = "enabling"
  /\ ReleaseAuthority
  /\ exec' = "idle"
  /\ UNCHANGED <<frameVars, held, enabled, gatewayVars, stopper>>

\* disable_ai: shutdown, whose OSError is not caught, then the authority.
DisableAi ==
  /\ exec = "idle"
  /\ \E out \in Outcomes :
       /\ ShutDown(out)
       /\ exec' \in IF out = "raised" THEN {"idle", "disabling"} ELSE {"disabling"}
  /\ UNCHANGED <<enabled, gatewayVars, stopper>>

DisableDone ==
  /\ exec = "disabling"
  /\ DisableAuthority
  /\ enabled' = FALSE
  /\ exec' = "idle"
  /\ UNCHANGED <<frameVars, held, gatewayVars, stopper>>

ReleaseManualControl ==
  /\ exec = "idle" /\ aiEnabled
  /\ ReleaseAuthority
  /\ UNCHANGED <<frameVars, held, executorVars, gatewayVars, stopper>>

TakeManualControl ==
  /\ exec = "idle"
  /\ TakeAuthority
  /\ UNCHANGED <<frameVars, held, executorVars, gatewayVars, stopper>>

\* step, past the checks that end it without effect.
StepBegins ==
  /\ exec = "idle" /\ enabled /\ AiAllowed
  /\ exec' = "checked"
  /\ UNCHANGED <<controlVars, enabled, gatewayVars, stopper>>

\* Fresh telemetry: the watchdog is polled before the policy decides.
StepPolls ==
  /\ exec = "checked"
  /\ \E out \in Outcomes :
       /\ CheckWatchdog(out)
       /\ exec' = IF out = "none" THEN "deciding" ELSE "idle"
  /\ UNCHANGED <<enabled, gatewayVars, stopper>>

\* _watchdog_decision, for stale telemetry or a policy without a command; if
\* the watchdog sends nothing the authority fails all the same.
StepDoubts ==
  /\ exec \in {"checked", "deciding"} /\ ~held
  /\ \E out \in Outcomes :
       /\ CheckWatchdog(out)
       /\ exec' = IF out = "none" THEN "distrusting" ELSE "idle"
  /\ UNCHANGED <<enabled, gatewayVars, stopper>>

StepDistrusts ==
  /\ exec = "distrusting"
  /\ FailAuthority
  /\ exec' = "idle"
  /\ UNCHANGED <<frameVars, held, enabled, gatewayVars, stopper>>

\* The policy calls for a failsafe: request_failsafe.
StepFails ==
  /\ exec = "deciding"
  /\ \E out \in Outcomes : FailSafe(out)
  /\ exec' = "idle"
  /\ UNCHANGED <<enabled, gatewayVars, stopper>>

\* The policy's command: granted, or refused by the envelope or the authority.
StepSubmits ==
  /\ exec = "deciding"
  /\ GrantAi
  /\ UNCHANGED <<executorVars, gatewayVars, stopper>>

StepIsRefused ==
  /\ exec = "deciding" /\ ~held
  /\ exec' = "idle"
  /\ UNCHANGED <<controlVars, enabled, gatewayVars, stopper>>

StepEmits ==
  /\ exec = "deciding"
  /\ \E out \in Outcomes : EmitAi(out)
  /\ exec' = "idle"
  /\ UNCHANGED <<enabled, gatewayVars, stopper>>

\* watchdog_tick
WatchdogTick ==
  /\ exec = "idle"
  /\ \E out \in Outcomes : CheckWatchdog(out)
  /\ UNCHANGED <<executorVars, gatewayVars, stopper>>
------------------------------------------------------------------------------
\* The gateway's run().

GatewayRuns ==
  /\ loop = "idle"
  /\ loop' = "starting"
  /\ stopped' = FALSE /\ stopRequested' = FALSE
  /\ UNCHANGED <<controlVars, executorVars, queue, stopper>>

\* The flag is reset again after the socket was made; binding may fail.
GatewayBinds ==
  /\ loop = "starting"
  /\ stopped' = FALSE
  /\ loop' \in {"serving", "closing"}
  /\ UNCHANGED <<controlVars, executorVars, stopRequested, queue, stopper>>

\* The loop's top: a stop leads to the drain, a deadline to the end ...
LoopStops ==
  /\ loop = "serving"
  /\ loop' \in IF stopped THEN {"draining"} ELSE {"closing"}
  /\ UNCHANGED <<controlVars, executorVars, stopped, stopRequested, queue, stopper>>

\* ... and otherwise the watchdog is polled.
LoopPolls ==
  /\ loop = "serving" /\ ~stopped
  /\ \E out \in Outcomes :
       /\ CheckWatchdog(out)
       /\ loop' = IF out = "raised" THEN "closing" ELSE "waiting"
  /\ UNCHANGED <<executorVars, stopped, stopRequested, queue, stopper>>

\* Mutant: select has no timeout and only a datagram wakes it.
SelectWithoutTimeout ==
  /\ loop = "waiting" /\ queue > 0
  /\ loop' = "serving"
  /\ UNCHANGED <<controlVars, executorVars, stopped, stopRequested, queue, stopper>>

SelectTimesOut ==
  /\ loop = "waiting" /\ queue = 0
  /\ loop' = "serving"
  /\ UNCHANGED <<controlVars, executorVars, stopped, stopRequested, queue, stopper>>

\* process_datagram, accepted or rejected, and whether it raised.
ProcessDatagram(accepting, raised) ==
  /\ queue > 0
  /\ queue' = queue - 1
  /\ \/ accepting /\ SubmitManual(IF raised THEN "raised" ELSE "sent")
     \/ ~raised /\ UNCHANGED controlVars

LoopReceives ==
  /\ loop = "waiting"
  /\ \E raised \in BOOLEAN :
       /\ ProcessDatagram(~stopRequested, raised)
       /\ loop' = IF raised THEN "closing" ELSE IF stopped THEN "draining" ELSE "serving"
  /\ UNCHANGED <<executorVars, stopped, stopRequested, stopper>>

\* _drain_pending_datagrams, whose own frames are accepted.
Drains ==
  /\ loop = "draining"
  /\ \E raised \in BOOLEAN :
       /\ ProcessDatagram(TRUE, raised)
       /\ loop' = IF raised THEN "closing" ELSE "draining"
  /\ UNCHANGED <<executorVars, stopped, stopRequested, stopper>>

DrainEnds ==
  /\ loop = "draining" /\ queue = 0
  /\ loop' = "closing"
  /\ UNCHANGED <<controlVars, executorVars, stopped, stopRequested, queue, stopper>>

\* The finally clause.
LoopCloses ==
  /\ loop = "closing"
  /\ \E out \in Outcomes : ShutDown(out)
  /\ loop' = "ended"
  /\ stopRequested' = TRUE /\ queue' = 0
  /\ UNCHANGED <<executorVars, stopped, stopper>>

\* The pilot's station sends to the bound socket.
PilotSends ==
  /\ loop \in {"serving", "waiting", "draining"}
  /\ queue < QueueLimit
  /\ queue' = queue + 1
  /\ UNCHANGED <<controlVars, executorVars, loop, stopped, stopRequested, stopper>>
------------------------------------------------------------------------------
\* The orchestrator's stop(); when a step of it raises it may be called again.

\* The gateway's stop(): its flags, then shutdown.
StopFlags ==
  /\ stopper = "idle"
  /\ stopped' = TRUE /\ stopRequested' = TRUE
  /\ stopper' = "shutting"
  /\ UNCHANGED <<controlVars, executorVars, loop, queue>>

StopShutsDown ==
  /\ stopper = "shutting"
  /\ \E out \in Outcomes :
       /\ ShutDown(out)
       /\ stopper' = IF out = "raised" THEN "idle" ELSE "joining"
  /\ UNCHANGED <<executorVars, gatewayVars>>

\* The gateway's thread has ended, or the join has timed out; then the
\* executor's stop().
StopExecutor ==
  /\ stopper = "joining" /\ exec = "idle"
  /\ \E out \in Outcomes :
       /\ ShutDown(out)
       /\ exec' = IF out = "raised" THEN "idle" ELSE "stopping"
       /\ stopper' = IF out = "raised" THEN "idle" ELSE "joining"
  /\ UNCHANGED <<enabled, gatewayVars>>

\* Mutant: the executor is not disabled.
StopExecutorLeavesEnabled ==
  /\ exec = "stopping"
  /\ authState' = IF authState = "ai" THEN "failsafe" ELSE authState
  /\ exec' = "idle"
  /\ stopper' = "leaving"
  /\ UNCHANGED <<aiEnabled, override, frameVars, held, enabled, gatewayVars>>

StopExecutorDone ==
  /\ exec = "stopping"
  /\ authState' = IF authState = "ai" THEN "failsafe" ELSE authState
  /\ enabled' = FALSE
  /\ exec' = "idle"
  /\ stopper' = "leaving"
  /\ UNCHANGED <<aiEnabled, override, frameVars, held, gatewayVars>>

\* The last shutdown of the adapter.
StopReturns ==
  /\ stopper = "leaving"
  /\ \E out \in Outcomes :
       /\ ShutDown(out)
       /\ stopper' = IF out = "raised" THEN "idle" ELSE "done"
  /\ UNCHANGED <<executorVars, gatewayVars>>
------------------------------------------------------------------------------
Init ==
  /\ ControlInit
  /\ enabled = aiEnabled /\ exec = "idle"
  /\ loop = "idle" /\ stopped = FALSE /\ stopRequested = FALSE /\ queue = 0
  /\ stopper = "idle"

\* What the gateway's thread does next, but for the end of a drain.
LoopTurns ==
  \/ GatewayBinds \/ LoopPolls \/ SelectTimesOut \/ LoopReceives \/ Drains \/ LoopCloses
  \/ stopped /\ LoopStops

Next ==
  \/ EnableAi \/ EnableReleases \/ DisableAi \/ DisableDone
  \/ ReleaseManualControl \/ TakeManualControl
  \/ StepBegins \/ StepPolls \/ StepDoubts \/ StepDistrusts \/ StepFails
  \/ StepSubmits \/ StepIsRefused \/ StepEmits
  \/ WatchdogTick
  \/ GatewayRuns \/ GatewayBinds \/ LoopStops \/ LoopPolls \/ SelectTimesOut
  \/ LoopReceives \/ Drains \/ DrainEnds \/ LoopCloses
  \/ PilotSends
  \/ StopFlags \/ StopShutsDown \/ StopExecutor \/ StopExecutorDone \/ StopReturns
  \/ Tick /\ UNCHANGED <<executorVars, gatewayVars, stopper>>

Spec == Init /\ [][Next]_vars

\* A drain catches up with the pilot's station again and again: the source's
\* "bounded by the kernel receive queue" needs a station slower than the drain.
DrainCatchesUp == []<>(loop = "draining" => queue = 0)

\* The gateway's thread goes on, and gets the adapter's lock though an AI step
\* may hold it whenever it asks; an AI frame once granted is sent or raises.
\* Callers, pilot and clock need not do anything.
FairSpec ==
  /\ Spec
  /\ SF_vars(LoopTurns) /\ SF_vars(DrainEnds)
  /\ WF_vars(StepEmits)
  /\ DrainCatchesUp
------------------------------------------------------------------------------
SessionTypeOK ==
  /\ ControlTypeOK
  /\ enabled \in BOOLEAN
  /\ exec \in {"idle", "enabling", "disabling", "stopping", "checked", "deciding",
               "distrusting"}
  /\ loop \in {"idle", "starting", "serving", "waiting", "draining", "closing", "ended"}
  /\ stopped \in BOOLEAN /\ stopRequested \in BOOLEAN
  /\ queue \in 0 .. QueueLimit
  /\ stopper \in {"idle", "shutting", "joining", "leaving", "done"}

\* When an AI frame goes out the authority is still the AI's and no pilot has
\* taken over, though grant and frame are two steps and the pilot's frames,
\* takeovers and the watchdog come from other threads ("a manual takeover cannot
\* interleave with an AI frame").
AiFrameHasAuthority == held => AiAllowed

\* An AI frame that is the last one out has a stamp the watchdog will find,
\* whatever failed to be sent since, unless its neutral frame failed.
AiOutputIsWatched == wire = "ai" => aiAge # None \/ lost

\* Once the executor has been stopped no AI frame is the last one out, unless its
\* neutral frame failed: nothing that was under way when stop() came sends again.
AiEndsWithStop == stopper \in {"leaving", "done"} => wire # "ai" \/ lost

\* A stop of a gateway that serves ends its run, whatever is queued or comes in.
StopEndsTheRun ==
  stopped /\ loop \in {"serving", "waiting", "draining"} ~> loop = "ended"

\* While the gateway serves, an AI frame does not stay the last one out with
\* neither fresh ones nor a neutral behind it, whoever holds the authority.
StaleAiIsNeutralized ==
  wire = "ai" /\ aiAge = Watchdog /\ loop \in {"serving", "waiting"}
    ~> wire # "ai" \/ aiAge # Watchdog \/ loop = "ended"
------------------------------------------------------------------------------
\* enable_ai: "preserve an active manual takeover".  A pilot who has taken over
\* still has the authority when a call of enable_ai that is under way returns.
EnableKeepsTakeover ==
  [][exec = "enabling" /\ override => override']_vars
==============================================================================
