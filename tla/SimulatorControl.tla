--------------------------- MODULE SimulatorControl ---------------------------
(***************************************************************************)
(* simulator.control.SimulatorControlAuthority, which arbitrates between   *)
(* a pilot and an AI, under simulator.mavlink_control's                    *)
(* SimulatorMavlinkControlAdapter, the only output to PX4.                 *)
(*                                                                         *)
(* A call of the adapter holds its lock and is one step, but for the AI's: *)
(* between the authority's grant and the frame on the wire other threads   *)
(* may reach the authority, whose own lock is a different one.  Axes are   *)
(* left out; time is the age of the last AI and pilot frame.  Sending may  *)
(* raise.                                                                  *)
(***************************************************************************)
EXTENDS Naturals

CONSTANTS Watchdog,         \* ticks after which a stream is stale
          ManualWatchdog,   \* manual_watchdog_s is set
          None

ASSUME ControlAssumption ==
  /\ Watchdog \in Nat \ {0}
  /\ ManualWatchdog \in BOOLEAN
  /\ None \notin Nat

VARIABLES authState,    \* the authority's _state
          aiEnabled,    \* ... its _ai_enabled
          override,     \* ... its _manual_override
          aiAge,        \* since _last_ai_output_s, or None
          pilotAge,     \* since _last_manual_output_s, or None
          held,         \* the adapter's lock is held between grant and frame
          wire,         \* the last frame that went out
          lost          \* history: since then a neutral frame failed to

authVars == <<authState, aiEnabled, override>>
frameVars == <<aiAge, pilotAge, wire, lost>>
controlVars == <<authVars, frameVars, held>>

\* How a call of the adapter ends: without a frame, with one, or by raising.
Outcomes == {"none", "sent", "raised"}
------------------------------------------------------------------------------
\* The authority's own methods.

EnableAuthority == aiEnabled' = TRUE /\ UNCHANGED <<authState, override>>

DisableAuthority ==
  /\ aiEnabled' = FALSE
  /\ authState' = IF authState = "ai" THEN "paused" ELSE authState
  /\ UNCHANGED override

TakeAuthority == override' = TRUE /\ authState' = "manual" /\ UNCHANGED aiEnabled

ReleaseAuthority ==
  /\ override' = FALSE
  /\ authState' = IF aiEnabled THEN "ai" ELSE "paused"
  /\ UNCHANGED aiEnabled

FailAuthority == authState' = "failsafe" /\ UNCHANGED <<aiEnabled, override>>

\* What submit_ai of the authority requires.
AiAllowed == aiEnabled /\ ~override /\ authState = "ai"
------------------------------------------------------------------------------
\* The adapter.

\* Mutant: the adapter's lock is not taken.
SubmitManualUnlocked(out) ==
  /\ authState' = "manual" /\ override' = TRUE /\ UNCHANGED <<aiEnabled, held>>
  /\ \/ out = "sent" /\ wire' = "pilot" /\ lost' = FALSE /\ aiAge' = None /\ pilotAge' = 0
     \/ out = "raised" /\ UNCHANGED frameVars

\* Mutant: the AI's stamp is cleared before the pilot's frame has gone out.
SubmitManualClearsFirst(out) ==
  /\ ~held
  /\ authState' = "manual" /\ override' = TRUE /\ UNCHANGED <<aiEnabled, held>>
  /\ aiAge' = None
  /\ \/ out = "sent" /\ wire' = "pilot" /\ lost' = FALSE /\ pilotAge' = 0
     \/ out = "raised" /\ UNCHANGED <<wire, lost, pilotAge>>

\* submit_manual: the authority changes hands, then the frame goes out.
SubmitManual(out) ==
  /\ ~held
  /\ authState' = "manual" /\ override' = TRUE /\ UNCHANGED <<aiEnabled, held>>
  /\ \/ out = "sent" /\ wire' = "pilot" /\ lost' = FALSE /\ aiAge' = None /\ pilotAge' = 0
     \/ out = "raised" /\ UNCHANGED frameVars

\* submit_ai up to the authority's grant, and its frame.
GrantAi ==
  /\ ~held /\ AiAllowed
  /\ held' = TRUE
  /\ UNCHANGED <<authVars, frameVars>>

EmitAi(out) ==
  /\ held
  /\ held' = FALSE
  /\ \/ out = "sent" /\ wire' = "ai" /\ lost' = FALSE /\ aiAge' = 0 /\ pilotAge' = None
     \/ out = "raised" /\ UNCHANGED frameVars
  /\ UNCHANGED authVars

\* failsafe, the stamps cleared, and then one neutral frame.
FailSafe(out) ==
  /\ ~held
  /\ FailAuthority
  /\ aiAge' = None /\ pilotAge' = None
  /\ \/ out = "sent" /\ wire' = "neutral" /\ lost' = FALSE
     \/ out = "raised" /\ lost' = TRUE /\ UNCHANGED wire
  /\ UNCHANGED held

\* Mutant: while the pilot has taken over, the AI's last frame is not watched.
StaleUnlessTaken ==
  IF authState = "manual" THEN ManualWatchdog /\ pilotAge = Watchdog ELSE aiAge = Watchdog

\* The stream check_watchdog looks at is stale: the AI's, or the pilot's while
\* the authority is manual and the manual watchdog is on.
Stale ==
  IF aiAge # None THEN aiAge = Watchdog
  ELSE ManualWatchdog /\ authState = "manual" /\ pilotAge = Watchdog

\* check_watchdog; the pilot's stamp is dropped in any other state.
CheckWatchdog(out) ==
  \/ Stale /\ FailSafe(out)
  \/ /\ ~Stale /\ ~held /\ out = "none"
     /\ pilotAge' = IF authState = "manual" THEN pilotAge ELSE None
     /\ UNCHANGED <<authVars, aiAge, wire, lost, held>>

\* shutdown: a neutral frame if a stream is active.
StreamActive == aiAge # None \/ (pilotAge # None /\ authState = "manual")

ShutDown(out) ==
  \/ StreamActive /\ FailSafe(out)
  \/ ~StreamActive /\ ~held /\ out = "none" /\ UNCHANGED controlVars

\* Time passes; ages stop at Watchdog, where nothing distinguishes them.
Older(age) == IF age \in 0 .. Watchdog - 1 THEN age + 1 ELSE age

Tick ==
  /\ aiAge' = Older(aiAge) /\ pilotAge' = Older(pilotAge)
  /\ <<aiAge, pilotAge>>' # <<aiAge, pilotAge>>
  /\ UNCHANGED <<authVars, wire, lost, held>>
------------------------------------------------------------------------------
\* The authority selected by the orchestrator; AI implies that it is enabled.
ControlInit ==
  /\ authState \in {"manual", "ai", "paused", "failsafe"}
  /\ aiEnabled = (authState = "ai") /\ override = (authState = "manual")
  /\ aiAge = None /\ pilotAge = None
  /\ held = FALSE
  /\ wire = "idle" /\ lost = FALSE

ControlTypeOK ==
  /\ authState \in {"manual", "ai", "paused", "failsafe"}
  /\ aiEnabled \in BOOLEAN /\ override \in BOOLEAN
  /\ aiAge \in 0 .. Watchdog \union {None} /\ pilotAge \in 0 .. Watchdog \union {None}
  /\ held \in BOOLEAN
  /\ wire \in {"idle", "ai", "pilot", "neutral"} /\ lost \in BOOLEAN
==============================================================================
