------------------------------ MODULE PayloadBay ------------------------------
(***************************************************************************)
(* payload.PayloadController over its FakePayloadPort: the single-slot     *)
(* interlock of a simulation-only payload.  A bay goes LOCKED -> ARMED ->  *)
(* RELEASE_REQUESTED -> RELEASED -> RELEASE_CONFIRMED; a fault is final    *)
(* for the whole controller (_enter_fault).                                *)
(*                                                                         *)
(* A consumed authorization is a record of the bay and scene it is bound   *)
(* to, when it was consumed and when it expires; a scene stands for target *)
(* revision, scene digest and ruleset version together.  Every method      *)
(* takes its caller's clock, and callers' clocks need not agree.           *)
(***************************************************************************)
EXTENDS Integers, FiniteSets

CONSTANTS Slots,        \* payload slots of the mission configuration
          Scenes,       \* values of the bindings of a safety decision
          Releases,     \* release identifiers
          None,         \* "no value"
          MaxTime,      \* bound on the clock
          Timeout       \* release_confirmation_timeout_seconds

ASSUME BayAssumption ==
  /\ MaxTime \in Nat
  /\ Timeout \in Nat \ {0}
  /\ None \notin Releases

VARIABLES bay,          \* _records
          faulted,      \* _faulted
          submitted     \* requests the port has received, with their bindings

bayVars == <<bay, faulted, submitted>>

Times == 0 .. MaxTime

PayloadStates == {"LOCKED", "ARMED", "RELEASE_REQUESTED", "RELEASED",
                  "RELEASE_CONFIRMED", "FAILED"}

Authorizations == [slot : Slots, scene : Scenes, consumedAt : Times, expiresAt : Times]

BayRecords == [state : PayloadStates, auth : Authorizations \union {None},
               release : Releases \union {None}, requestedAt : Times,
               executed : BOOLEAN, seen : BOOLEAN, uncertain : BOOLEAN]

\* _ACTIVE_STATES and active_slot_id
ActiveStates == {"ARMED", "RELEASE_REQUESTED", "RELEASED"}
InFlightStates == {"RELEASE_REQUESTED", "RELEASED"}
In(states) == {s \in Slots : bay[s].state \in states}

\* remaining_payload_count
Remaining == Cardinality(In({"LOCKED", "ARMED"}))

\* _validate_authorization
ValidAuthorization(auth, s, t) ==
  /\ auth.slot = s
  /\ auth.consumedAt <= t
  /\ t < auth.expiresAt

\* What _enter_fault does to one slot.
AfterFault(record, uncertain) ==
  CASE record.state = "ARMED" ->
         [record EXCEPT !.state = "LOCKED", !.auth = None]
    [] record.state \in InFlightStates ->
         [record EXCEPT !.state = "FAILED", !.auth = None, !.uncertain = uncertain]
    [] OTHER -> record

\* _enter_fault
EnterFault(uncertain) ==
  /\ faulted' = TRUE
  /\ bay' = [s \in Slots |-> AfterFault(bay[s], uncertain)]
  /\ UNCHANGED submitted
------------------------------------------------------------------------------
CanArm(s, auth, t) ==
  /\ ~faulted
  /\ bay[s].state = "LOCKED"
  /\ In(ActiveStates) = {}
  /\ ValidAuthorization(auth, s, t)

\* A refused call raises and changes nothing; so do the other calls below
\* whose guard fails.
Arm(s, auth, t) ==
  /\ CanArm(s, auth, t)
  /\ bay' = [bay EXCEPT ![s].state = "ARMED", ![s].auth = auth]
  /\ UNCHANGED <<faulted, submitted>>

Relocked(record) == [record EXCEPT !.state = "LOCKED", !.auth = None]

Lock(s) ==
  /\ bay[s].state = "ARMED"
  /\ bay' = [bay EXCEPT ![s] = Relocked(@)]
  /\ UNCHANGED <<faulted, submitted>>

\* refresh_armed_authorization: the same grant for a newer scene.
CanRefresh(s, t) ==
  /\ ~faulted
  /\ bay[s].state = "ARMED"
  /\ ValidAuthorization(bay[s].auth, s, t)

Refresh(s, scene, t) ==
  /\ CanRefresh(s, t)
  /\ bay' = [bay EXCEPT ![s].auth.scene = scene]
  /\ UNCHANGED <<faulted, submitted>>

\* The slot a release identifier is bound to (_release_to_slot).
BoundTo(r) == {s \in Slots : bay[s].release = r}

\* Mutant: the authorization is not validated again at the release.
CanRequestLate(s, scene, t) ==
  /\ ~faulted
  /\ bay[s].state = "ARMED"
  /\ bay[s].auth.scene = scene

\* _validate_release_decision, for a decision that allows deployment and is
\* neither stale nor from the future.
CanRequest(s, scene, t) ==
  /\ ~faulted
  /\ bay[s].state = "ARMED"
  /\ ValidAuthorization(bay[s].auth, s, t)
  /\ bay[s].auth.scene = scene

\* request_release: an identifier of another slot is a fault, one of the same
\* slot is a retry that returns at once.
RequestRelease(s, r, scene, t) ==
  \/ /\ BoundTo(r) \notin {{}, {s}}
     /\ EnterFault(TRUE)
  \/ /\ BoundTo(r) = {}
     /\ CanRequest(s, scene, t)
     /\ bay' = [bay EXCEPT ![s].state = "RELEASE_REQUESTED",
                           ![s].release = r, ![s].requestedAt = t]
     /\ submitted' = submitted \union {[release |-> r, slot |-> s, at |-> t, auth |-> bay[s].auth]}
     /\ UNCHANGED faulted

\* Mutant: the controller's own report is enough.
ConfirmedByReport(record) ==
  IF record.state = "RELEASED" /\ record.executed
    THEN [record EXCEPT !.state = "RELEASE_CONFIRMED", !.auth = None]
    ELSE record

\* _confirm_if_complete
Confirmed(record) ==
  IF record.state = "RELEASED" /\ record.executed /\ record.seen
    THEN [record EXCEPT !.state = "RELEASE_CONFIRMED", !.auth = None]
    ELSE record

\* _record_for_feedback raises: unknown identifier, or the wrong slot.
Miscorrelated(r, s) == BoundTo(r) # {s}

\* report_execution.  A repeated report returns and a report for a failed
\* release raises; a slot with a release is never LOCKED or ARMED, so the
\* "invalid state" branch has no step.
ReportExecution(r, s, t) ==
  \/ Miscorrelated(r, s) /\ EnterFault(TRUE)
  \/ /\ ~Miscorrelated(r, s)
     /\ bay[s].state = "RELEASE_REQUESTED"
     /\ bay' = [bay EXCEPT ![s] = Confirmed([@ EXCEPT !.state = "RELEASED", !.executed = TRUE])]
     /\ UNCHANGED <<faulted, submitted>>

ReportIndependentConfirmation(r, s) ==
  \/ Miscorrelated(r, s) /\ EnterFault(TRUE)
  \/ /\ ~Miscorrelated(r, s)
     /\ bay[s].state \in InFlightStates
     /\ bay' = [bay EXCEPT ![s] = Confirmed([@ EXCEPT !.seen = TRUE])]
     /\ UNCHANGED <<faulted, submitted>>

FailRelease(r, s, uncertain) ==
  \/ Miscorrelated(r, s) /\ EnterFault(TRUE)
  \/ /\ ~Miscorrelated(r, s)
     /\ bay[s].state \in InFlightStates
     /\ EnterFault(uncertain)

TimedOut(t) == \E s \in In(InFlightStates) : t - bay[s].requestedAt >= Timeout

CheckTimeouts(t) == TimedOut(t) /\ EnterFault(TRUE)
------------------------------------------------------------------------------
LockedBay == [state |-> "LOCKED", auth |-> None, release |-> None, requestedAt |-> 0,
              executed |-> FALSE, seen |-> FALSE, uncertain |-> FALSE]

BayInit == bay = [s \in Slots |-> LockedBay] /\ faulted = FALSE /\ submitted = {}

BayNext ==
  \/ \E s \in Slots, t \in Times :
       \/ \E auth \in Authorizations : Arm(s, auth, t)
       \/ \E scene \in Scenes : Refresh(s, scene, t)
       \/ \E r \in Releases, scene \in Scenes : RequestRelease(s, r, scene, t)
       \/ \E r \in Releases : ReportExecution(r, s, t)
  \/ \E s \in Slots :
       \/ Lock(s)
       \/ \E r \in Releases :
            \/ ReportIndependentConfirmation(r, s)
            \/ \E uncertain \in BOOLEAN : FailRelease(r, s, uncertain)
  \/ \E t \in Times : CheckTimeouts(t)

BaySpec == BayInit /\ [][BayNext]_bayVars
------------------------------------------------------------------------------
\* The bays, the fault flag and the port's requests have their types.
BayTypeOK ==
  /\ bay \in [Slots -> BayRecords]
  /\ faulted \in BOOLEAN
  /\ submitted \subseteq [release : Releases, slot : Slots, at : Times,
                          auth : Authorizations]

\* docs/safety-case.md 5: at most one bay is armed, requested or awaiting
\* confirmation, whatever the order of calls (the interlock of arm).
SingleInterlock ==
  \A s1, s2 \in Slots :
    bay[s1].state \in ActiveStates /\ bay[s2].state \in ActiveStates => s1 = s2

\* docs/safety-case.md 2 and 6: what reached the port was bound to its bay and
\* unexpired at the request, and no bay and no identifier was used twice.
PortRequestsAreAuthorized ==
  \A q \in submitted :
    /\ ValidAuthorization(q.auth, q.slot, q.at)
    /\ bay[q.slot].release = q.release
    /\ \A p \in submitted : p.slot = q.slot \/ p.release = q.release => p = q

\* docs/safety-case.md 7: a confirmed bay was submitted, reported executed and
\* seen empty by an independent source.
ConfirmedNeedsBoth ==
  \A s \in Slots : bay[s].state = "RELEASE_CONFIRMED" =>
    /\ bay[s].executed /\ bay[s].seen
    /\ \E q \in submitted : q.slot = s

\* The controller implements the abstract payload transaction.
Abstract == INSTANCE PayloadTransaction
              WITH inFlight <- In(InFlightStates),
                   confirmed <- In({"RELEASE_CONFIRMED"}),
                   failed <- In({"FAILED"}),
                   stopped <- faulted

\* docs/safety-case.md 6 and 10: releases run one at a time, each bay at most
\* once, and a fault ends all of them for good.
ImplementsTransaction == Abstract!Spec
==============================================================================
