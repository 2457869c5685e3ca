--------------------------- MODULE MissionController ---------------------------
(***************************************************************************)
(* mission.MissionController for a deployment-capable mission: it moves    *)
(* the mission phase (state_machine.py), the active deployment context,    *)
(* the authorization registry and the payload bays together.  Every public *)
(* method holds _operation_lock, so an action is one call.                 *)
(*                                                                         *)
(* A call takes its caller's time t, at most Tolerance behind the latest   *)
(* one seen (_validate_now).  What the safety rules, the tracker, the      *)
(* inventory provider and the operator's nonce answer is free; a scene is  *)
(* what a decision binds.  Left out: the tracker's and the ranker's work,  *)
(* served regions and their cooldown, patrol-only missions, and a failing  *)
(* audit sink, whose error ends the program.                               *)
(***************************************************************************)
EXTENDS PayloadBay, Authorization

\* _AuthorizationRecord and _DeploymentContext
ChallengeRecords == [status : Statuses, slot : Slots, scene : Scenes,
                     createdAt : Times, expiresAt : Times]

Contexts == [challenge : Challenges, slot : Slots, scene : Scenes,
             auth : Authorizations \union {None}, release : Releases \union {None}]

CONSTANTS Tolerance,             \* MISSION_CLOCK_QUANTIZATION_TOLERANCE_S
          TerminateAfterFirst    \* completion_policy is TERMINATE_AFTER_FIRST

\* A deployment-capable configuration has payload slots; the two "no value"
\* constants are not values.
ASSUME MissionAssumption ==
  /\ Tolerance \in Nat
  /\ TerminateAfterFirst \in BOOLEAN
  /\ Slots # {}
  /\ NoChallenge \notin ChallengeRecords
  /\ None \notin Contexts

VARIABLES phase,        \* state.phase
          context,      \* _context, or None
          registry,     \* authorizations._records
          clock         \* _last_now_s

vars == <<phase, context, registry, clock, bayVars>>

Phases == {"STANDBY", "NAVIGATING", "SEARCHING", "AWAITING_AUTHORIZATION",
           "DEPLOYMENT_READY", "DEPLOYING", "VERIFYING_RELEASE",
           "RETURN_REQUESTED", "TERMINATED", "FAULT"}

\* _validate_now
At(t) ==
  /\ t \in Times
  /\ t >= clock - Tolerance
  /\ clock' = IF t > clock THEN t ELSE clock

\* _expire_authorization_if_needed finds the active challenge expired.
HasExpired(t) ==
  /\ phase \in {"AWAITING_AUTHORIZATION", "DEPLOYMENT_READY"}
  /\ registry[context.challenge].expiresAt <= t

\* Mutant: every bay is locked again, whatever has become of it.
UnarmedAll == [s \in Slots |-> Relocked(bay[s])]

\* The bays with the context's bay locked again, if it was armed.
Unarmed == [s \in Slots |-> IF s = context.slot /\ bay[s].state = "ARMED"
                              THEN Relocked(bay[s]) ELSE bay[s]]

\* The context is dropped and the mission searches on.
BackToSearch(registryNow, bayNow) ==
  /\ phase' = "SEARCHING"
  /\ context' = None
  /\ registry' = registryNow
  /\ bay' = bayNow
  /\ UNCHANGED <<faulted, submitted>>

\* Mutant: an expired authorization leaves its bay armed.
ExpireContextArmed(t) == BackToSearch(Expire(registry, t), bay)

\* _expire_authorization_if_needed, once it applies.
ExpireContext(t) == BackToSearch(Expire(registry, t), Unarmed)
------------------------------------------------------------------------------
\* launch and arrive_task_area
Launch(t) ==
  /\ At(t) /\ phase = "STANDBY" /\ phase' = "NAVIGATING"
  /\ UNCHANGED <<context, registry, bayVars>>

ArriveTaskArea(t) ==
  /\ At(t) /\ phase = "NAVIGATING" /\ phase' = "SEARCHING"
  /\ UNCHANGED <<context, registry, bayVars>>

\* Registry and bays when the inventory or the new observation has revoked the
\* active context (_invalidate_for_payload_inventory,
\* _invalidate_for_changed_observation).
AfterRevocation(t) ==
  IF phase = "AWAITING_AUTHORIZATION"
    THEN <<Decide(registry, context.challenge, "DENIED", t), bay>>
    ELSE <<registry, Unarmed>>

\* The rest of process_observation, from SEARCHING: either no candidate gets
\* through, or a challenge is created for a locked bay.  With the interlock
\* released and no fault there is always one, and always one left to search
\* for (_finish_confirmed_release).  A challenge is created only while its
\* whole life and its release's fit into Times.
SelectTarget(registryNow, bayNow, eligible, scene, t) ==
  IF ~eligible
    THEN BackToSearch(registryNow, bayNow)
    ELSE \E c \in Fresh(registryNow) :
      LET s == CHOOSE free \in Slots : bayNow[free].state = "LOCKED"
      IN  /\ t + Ttl + Timeout <= MaxTime + 1
          /\ c = CHOOSE fresh \in Fresh(registryNow) : TRUE
          /\ phase' = "AWAITING_AUTHORIZATION"
          /\ context' = [challenge |-> c, slot |-> s, scene |-> scene,
                         auth |-> None, release |-> None]
          /\ registry' = Create(registryNow, c, s, scene, t)
          /\ bay' = bayNow
          /\ UNCHANGED <<faulted, submitted>>

\* Mutant: the payload keeps the binding it was armed with.
RefreshContextOnly(scene, t) ==
  /\ CanRebind(registry, context.challenge, context.scene, t)
  /\ registry' = Rebind(registry, context.challenge, scene, t)
  /\ context' = [context EXCEPT !.scene = scene]
  /\ UNCHANGED <<phase, bayVars>>

\* _refresh_active_context_if_equivalent, for an equivalent new scene.  An
\* authorization that the payload refuses faults the mission with its bay
\* locked and its context left in place.
RefreshContext(scene, t) ==
  IF ~CanRebind(registry, context.challenge, context.scene, t)
    THEN UNCHANGED <<phase, context, registry, bayVars>>
    ELSE
      /\ registry' = Rebind(registry, context.challenge, scene, t)
      /\ \/ /\ phase = "AWAITING_AUTHORIZATION"
            /\ context' = [context EXCEPT !.scene = scene]
            /\ UNCHANGED <<phase, bayVars>>
         \/ /\ phase = "DEPLOYMENT_READY"
            /\ Refresh(context.slot, scene, t)
            /\ context' = [context EXCEPT !.scene = scene, !.auth.scene = scene]
            /\ UNCHANGED phase
         \/ /\ phase = "DEPLOYMENT_READY"
            /\ ~CanRefresh(context.slot, t)
            /\ phase' = "FAULT"
            /\ bay' = Unarmed
            /\ UNCHANGED <<context, faulted, submitted>>

\* process_observation: first the expiry, then the inventory, then whether the
\* new frame continues the active context; whatever revokes the context, the
\* same call goes on to select a target.
ProcessObservation(t, inventory, equivalent, candidate, scene) ==
  /\ At(t)
  /\ phase \in {"SEARCHING", "AWAITING_AUTHORIZATION", "DEPLOYMENT_READY"}
  /\ \/ /\ phase = "SEARCHING"
        /\ SelectTarget(registry, bay, candidate /\ inventory, scene, t)
     \/ /\ HasExpired(t)
        /\ SelectTarget(Expire(registry, t), Unarmed, candidate /\ inventory, scene, t)
     \/ /\ phase # "SEARCHING" /\ ~HasExpired(t)
        /\ ~(inventory /\ equivalent)
        /\ SelectTarget(AfterRevocation(t)[1], AfterRevocation(t)[2],
                        candidate /\ inventory, scene, t)
     \/ /\ phase # "SEARCHING" /\ ~HasExpired(t)
        /\ inventory /\ equivalent
        /\ RefreshContext(scene, t)
------------------------------------------------------------------------------
\* The grant handed to the payload: consume's record for the context.
Granted(t) == [slot |-> context.slot, scene |-> context.scene, consumedAt |-> t,
               expiresAt |-> registry[context.challenge].expiresAt]

\* Mutant: an approved challenge is never consumed.
ApprovedOnly(t) == Decide(registry, context.challenge, "APPROVED", t)

\* approve and consume, one after the other.
ApprovedAndConsumed(t) ==
  LET approved == Decide(registry, context.challenge, "APPROVED", t)
  IN  IF CanConsume(approved, context.challenge, context.slot, context.scene, t)
        THEN Consume(approved, context.challenge)
        ELSE approved

\* approve_authorization.  An expired slide confirmation or changed evidence
\* drops the context but leaves its challenge pending; a wrong nonce or a time
\* before the challenge's creation raises and changes nothing.
ApproveAuthorization(t, confirmed, inventory, nonce, matches) ==
  /\ At(t)
  /\ phase = "AWAITING_AUTHORIZATION"
  /\ \/ ~confirmed /\ BackToSearch(registry, bay)
     \/ /\ confirmed /\ ~inventory
        /\ BackToSearch(Decide(registry, context.challenge, "DENIED", t), bay)
     \/ confirmed /\ inventory /\ HasExpired(t) /\ ExpireContext(t)
     \/ confirmed /\ inventory /\ ~HasExpired(t) /\ ~matches /\ BackToSearch(registry, bay)
     \/ /\ confirmed /\ inventory /\ ~HasExpired(t) /\ matches
        /\ ~(nonce /\ CanDecide(registry, context.challenge, t))
        /\ UNCHANGED <<phase, context, registry, bayVars>>
     \/ /\ confirmed /\ inventory /\ ~HasExpired(t) /\ matches
        /\ nonce /\ CanDecide(registry, context.challenge, t)
        /\ registry' = ApprovedAndConsumed(t)
        /\ context' = [context EXCEPT !.auth = Granted(t)]
        /\ Arm(context.slot, Granted(t), t)
        /\ phase' = "DEPLOYMENT_READY"

DenyAuthorization(t, nonce) ==
  /\ At(t)
  /\ phase = "AWAITING_AUTHORIZATION"
  /\ \/ HasExpired(t) /\ ExpireContext(t)
     \/ /\ ~HasExpired(t)
        /\ nonce /\ CanDecide(registry, context.challenge, t)
        /\ BackToSearch(Decide(registry, context.challenge, "DENIED", t), bay)
     \/ /\ ~HasExpired(t)
        /\ ~(nonce /\ CanDecide(registry, context.challenge, t))
        /\ UNCHANGED <<phase, context, registry, bayVars>>

\* request_simulated_deployment: the atomic recheck, then the release.  The
\* phase moves to DEPLOYING before the payload is asked, and to FAULT when the
\* payload refuses, whose bay keeps its state.
RequestDeployment(t, inventory, matches) ==
  /\ At(t)
  /\ phase = "DEPLOYMENT_READY"
  /\ \/ ~inventory /\ BackToSearch(registry, Unarmed)
     \/ inventory /\ HasExpired(t) /\ ExpireContext(t)
     \/ inventory /\ ~HasExpired(t) /\ ~matches /\ BackToSearch(registry, Unarmed)
     \/ /\ inventory /\ ~HasExpired(t) /\ matches
        /\ UNCHANGED registry
        /\ \/ \E r \in Releases :
                /\ BoundTo(r) = {}
                /\ r = CHOOSE fresh \in Releases : BoundTo(fresh) = {}
                /\ RequestRelease(context.slot, r, context.scene, t)
                /\ phase' = "DEPLOYING"
                /\ context' = [context EXCEPT !.release = r]
           \/ /\ ~CanRequest(context.slot, context.scene, t)
              /\ phase' = "FAULT"
              /\ UNCHANGED <<context, bayVars>>
------------------------------------------------------------------------------
\* _finish_confirmed_release, when the report just confirmed the bay.
AfterReport ==
  IF bay'[context.slot].state # "RELEASE_CONFIRMED"
    THEN phase' = "VERIFYING_RELEASE" /\ UNCHANGED context
    ELSE /\ context' = None
         /\ phase' = IF TerminateAfterFirst THEN "TERMINATED"
                     ELSE IF Remaining' > 0 THEN "SEARCHING"
                     ELSE "RETURN_REQUESTED"

\* Feedback that the payload rejects faults the mission; the context stays.
ToFault == phase' = "FAULT" /\ UNCHANGED context

\* report_simulated_execution
ReportSimulatedExecution(t, r) ==
  /\ At(t)
  /\ phase = "DEPLOYING"
  /\ ReportExecution(r, context.slot, t)
  /\ IF Miscorrelated(r, context.slot) THEN ToFault ELSE AfterReport
  /\ UNCHANGED registry

\* report_independent_confirmation (named apart from the payload's method).
ReportConfirmation(t, r) ==
  /\ At(t)
  /\ phase \in {"DEPLOYING", "VERIFYING_RELEASE"}
  /\ ReportIndependentConfirmation(r, context.slot)
  /\ CASE Miscorrelated(r, context.slot) -> ToFault
       [] ~Miscorrelated(r, context.slot) /\ phase = "DEPLOYING" ->
            UNCHANGED <<phase, context>>
       [] OTHER -> AfterReport
  /\ UNCHANGED registry

\* report_simulated_failure
ReportSimulatedFailure(t, r, uncertain) ==
  /\ At(t)
  /\ phase \in {"DEPLOYING", "VERIFYING_RELEASE"}
  /\ FailRelease(r, context.slot, uncertain)
  /\ ToFault
  /\ UNCHANGED registry

\* Mutant: only a release without a report is timed out.
TickDeploying(t) ==
  /\ At(t)
  /\ \/ HasExpired(t) /\ ExpireContext(t)
     \/ /\ phase = "DEPLOYING" /\ CheckTimeouts(t)
        /\ ToFault
        /\ UNCHANGED registry
     \/ /\ ~HasExpired(t) /\ ~(phase = "DEPLOYING" /\ TimedOut(t))
        /\ UNCHANGED <<phase, context, registry, bayVars>>

\* tick: expire the authorization, else time the release out
\* (check_release_timeout is the same second half, in any phase).
Tick(t) ==
  /\ At(t)
  /\ \/ HasExpired(t) /\ ExpireContext(t)
     \/ /\ phase \in {"DEPLOYING", "VERIFYING_RELEASE"}
        /\ CheckTimeouts(t)
        /\ ToFault
        /\ UNCHANGED registry
     \/ /\ ~HasExpired(t) /\ ~TimedOut(t)
        /\ UNCHANGED <<phase, context, registry, bayVars>>
------------------------------------------------------------------------------
Init ==
  /\ phase = "STANDBY"
  /\ context = None
  /\ registry = [c \in Challenges |-> NoChallenge]
  /\ clock = 0
  /\ BayInit

Next ==
  \E t \in Times :
    \/ Launch(t) \/ ArriveTaskArea(t) \/ Tick(t)
    \/ \E inventory, equivalent, candidate \in BOOLEAN, scene \in Scenes :
         ProcessObservation(t, inventory, equivalent, candidate, scene)
    \/ \E confirmed, inventory, nonce, matches \in BOOLEAN :
         ApproveAuthorization(t, confirmed, inventory, nonce, matches)
    \/ \E nonce \in BOOLEAN : DenyAuthorization(t, nonce)
    \/ \E inventory, matches \in BOOLEAN : RequestDeployment(t, inventory, matches)
    \/ \E r \in Releases :
         \/ ReportSimulatedExecution(t, r)
         \/ ReportConfirmation(t, r)
         \/ \E uncertain \in BOOLEAN : ReportSimulatedFailure(t, r, uncertain)

Spec == Init /\ [][Next]_vars

\* The frame loop of live.py ends every iteration with a tick, whatever the
\* frame and the operator did, on a monotonic clock.
FairSpec == Spec /\ WF_vars(\E t \in Times : t >= clock /\ Tick(t))
------------------------------------------------------------------------------
\* The mission's own variables have their types, and a context is there
\* exactly while an authorization or a release is under way (or has faulted).
MissionTypeOK ==
  /\ BayTypeOK
  /\ phase \in Phases
  /\ clock \in Times
  /\ registry \in [Challenges -> ChallengeRecords \union {NoChallenge}]
  /\ context \in Contexts \union {None}
  /\ phase \in {"AWAITING_AUTHORIZATION", "DEPLOYMENT_READY", "DEPLOYING",
                "VERIFYING_RELEASE"} => context # None

OnlyActive(s, state) == In(ActiveStates) = {s} /\ bay[s].state = state

\* The mission's phase and the bays tell the same story: armed exactly in
\* DEPLOYMENT_READY, a release in flight exactly while DEPLOYING or VERIFYING,
\* no bay active in any other phase but FAULT (docs/safety-case.md 11: a bay is
\* relocked before any new challenge can be created), and a locked bay left
\* wherever a target may be selected.
PhaseMatchesBays ==
  /\ phase = "DEPLOYMENT_READY" => OnlyActive(context.slot, "ARMED")
  /\ phase = "DEPLOYING" => OnlyActive(context.slot, "RELEASE_REQUESTED")
  /\ phase = "VERIFYING_RELEASE" => OnlyActive(context.slot, "RELEASED")
  /\ phase \notin {"DEPLOYMENT_READY", "DEPLOYING", "VERIFYING_RELEASE", "FAULT"}
       => In(ActiveStates) = {} /\ ~faulted
  /\ phase \in {"STANDBY", "NAVIGATING", "SEARCHING", "AWAITING_AUTHORIZATION"}
       => In({"LOCKED"}) # {}

\* The three copies of the binding agree: the context's, the registry's and the
\* armed bay's, in scene and in expiry (the optimistic, digest-guarded refresh
\* of all three is one step only as long as nothing fails in between).
BindingsAgree ==
  phase \in {"AWAITING_AUTHORIZATION", "DEPLOYMENT_READY"} =>
    LET record == registry[context.challenge]
    IN  /\ record # NoChallenge
        /\ record.slot = context.slot /\ record.scene = context.scene
        /\ phase = "AWAITING_AUTHORIZATION" => record.status = "PENDING"
        /\ phase = "DEPLOYMENT_READY" =>
             /\ record.status = "CONSUMED"
             /\ context.auth = bay[context.slot].auth
             /\ context.auth \in Authorizations
             /\ context.auth.scene = record.scene
             /\ context.auth.consumedAt >= record.createdAt
             /\ context.auth.expiresAt = record.expiresAt

\* docs/safety-case.md 2: each request at the port was made on a challenge of
\* its own, consumed for that bay after its creation and before its expiry.
EveryReleaseWasGranted ==
  \A q \in submitted :
    \E c \in Challenges :
      /\ registry[c] # NoChallenge
      /\ registry[c].status = "CONSUMED"
      /\ registry[c].slot = q.slot
      /\ registry[c].expiresAt = q.auth.expiresAt
      /\ registry[c].createdAt <= q.auth.consumedAt
      /\ q.at < registry[c].expiresAt

\* docs/architecture.md: refreshes never extend the original expiry, so an
\* unanswered or unused authorization always ends, however many equivalent
\* frames arrive.
AuthorizationEnds ==
  \A c \in Challenges :
    (phase \in {"AWAITING_AUTHORIZATION", "DEPLOYMENT_READY"} /\ context.challenge = c)
      ~> ~(phase \in {"AWAITING_AUTHORIZATION", "DEPLOYMENT_READY"} /\ context.challenge = c)

\* Every release is confirmed, or it faults: a silent controller or sensor ends
\* in the timeout.
ReleaseEnds ==
  \A s \in Slots : bay[s].state \in InFlightStates
                     ~> bay[s].state \in {"RELEASE_CONFIRMED", "FAILED"}
------------------------------------------------------------------------------
\* mission.py: a callback that is slightly behind the latest frame is within
\* the clock's tolerance, so it is no reason to fault; a mission faults only
\* with its payload.
FaultComesFromPayload == phase = "FAULT" => faulted
==============================================================================
