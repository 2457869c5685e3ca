-------------------------- MODULE MissionCheckpoint --------------------------
(***************************************************************************)
(* What the durable mission transaction promises to the rest of the        *)
(* system, without files, handles or crashes: one checkpoint that follows  *)
(* the transition table and outlives every process, and start permits that *)
(* are handed out only at the checkpoint "start_permitted".                *)
(***************************************************************************)
EXTENDS MissionStates

VARIABLES checkpoint,   \* the state a restart would find
          permitted     \* some caller has been handed a start permit

checkpointVars == <<checkpoint, permitted>>

Init == checkpoint = "authorized" /\ permitted = FALSE

\* The next stage, or denial.
Advance ==
  /\ checkpoint' \in StateTransitions[checkpoint]
  /\ UNCHANGED permitted

\* A permit for the mission whose checkpoint allows the start; the last stage
\* and its permit may come in one step.
HandOut ==
  /\ checkpoint = "start_permitted" \/ "start_permitted" \in StateTransitions[checkpoint]
  /\ checkpoint' = "start_permitted"
  /\ permitted' = TRUE

Spec == Init /\ [][Advance \/ HandOut]_checkpointVars
==============================================================================
