------------------------ MODULE MissionControllerProofs ------------------------
(***************************************************************************)
(* The payload mission, proved for any number of bays, scenes, challenges  *)
(* and release identifiers, any lifetimes and any clock tolerance: phase,  *)
(* registry and bays agree, and every mission step is a step of the        *)
(* payload controller, which hands PayloadBay's theorems to the mission.   *)
(***************************************************************************)
EXTENDS MissionController, PayloadBayProofs, FiniteSetTheorems

MissionInv ==
  /\ BayInv
  /\ MissionTypeOK
  /\ PhaseMatchesBays
  /\ BindingsAgree
  /\ EveryReleaseWasGranted

\* reg is a registry in which every consumed challenge is still what it was.
KeepsGrants(reg) ==
  /\ reg \in [Challenges -> ChallengeRecords \union {NoChallenge}]
  /\ \A c \in Challenges :
       registry[c] # NoChallenge /\ registry[c].status = "CONSUMED" =>
         /\ reg[c] # NoChallenge /\ reg[c].status = "CONSUMED"
         /\ reg[c].slot = registry[c].slot
         /\ reg[c].createdAt = registry[c].createdAt
         /\ reg[c].expiresAt = registry[c].expiresAt

\* No bay of b is active and one is locked.
Idle(b) ==
  /\ b \in [Slots -> BayRecords]
  /\ \A s \in Slots : b[s].state \notin ActiveStates
  /\ \E s \in Slots : b[s].state = "LOCKED"
------------------------------------------------------------------------------
\* An issued challenge is a record; the identifiers left over are fresh.
LEMMA IssuedRecord ==
  ASSUME MissionTypeOK, NEW c \in Challenges, registry[c] # NoChallenge
  PROVE  registry[c] \in ChallengeRecords
  BY DEF MissionTypeOK

\* The registry as it is keeps its grants.
LEMMA SameKeepsGrants == MissionTypeOK => KeepsGrants(registry)
  BY DEF MissionTypeOK, KeepsGrants

\* Expiring never touches a consumed challenge.
LEMMA ExpireKeepsGrants ==
  ASSUME MissionTypeOK, NEW t \in Times
  PROVE  KeepsGrants(Expire(registry, t))
  <1>1. ASSUME NEW record \in ChallengeRecords
        PROVE  /\ Lapsed(record, t) \in ChallengeRecords
               /\ record.status = "CONSUMED" => Lapsed(record, t) = record
    BY DEF ChallengeRecords, Lapsed, Statuses
  <1>2. \A c \in Challenges : registry[c] # NoChallenge => registry[c] \in ChallengeRecords
    BY IssuedRecord
  <1> QED BY <1>1, <1>2, MissionAssumption DEF KeepsGrants, Expire

\* A decision is about a pending challenge, so it touches no consumed one.
LEMMA DecideKeepsGrants ==
  ASSUME MissionTypeOK, NEW t \in Times, NEW c \in Challenges, registry[c] # NoChallenge,
         NEW verdict \in Statuses
  PROVE  KeepsGrants(Decide(registry, c, verdict, t))
  <1>1. registry[c] \in ChallengeRecords
    BY IssuedRecord
  <1>2. CASE CanDecide(registry, c, t)
    <2> DEFINE record == [registry[c] EXCEPT !.status = verdict]
    <2>1. record \in ChallengeRecords /\ registry[c].status # "CONSUMED"
      BY <1>1, <1>2 DEF ChallengeRecords, CanDecide, Lapsed
    <2>2. Decide(registry, c, verdict, t) = [registry EXCEPT ![c] = record]
      BY <1>2 DEF Decide
    <2> HIDE DEF record
    <2> QED BY <2>1, <2>2 DEF KeepsGrants, MissionTypeOK
  <1>3. CASE ~CanDecide(registry, c, t) /\ t >= registry[c].createdAt
    <2>1. /\ Lapsed(registry[c], t) \in ChallengeRecords
          /\ registry[c].status = "CONSUMED" => Lapsed(registry[c], t) = registry[c]
      BY <1>1 DEF ChallengeRecords, Lapsed, Statuses
    <2>2. Decide(registry, c, verdict, t) = [registry EXCEPT ![c] = Lapsed(registry[c], t)]
      BY <1>3 DEF Decide
    <2> QED BY <2>1, <2>2, MissionAssumption DEF KeepsGrants, MissionTypeOK
  <1>4. CASE ~CanDecide(registry, c, t) /\ ~(t >= registry[c].createdAt)
    <2>1. Decide(registry, c, verdict, t) = registry
      BY <1>4 DEF Decide
    <2> QED BY <2>1, SameKeepsGrants
  <1> QED BY <1>2, <1>3, <1>4

\* A refreshed binding changes the scene only.
LEMMA RebindKeepsGrants ==
  ASSUME MissionTypeOK, NEW c \in Challenges, registry[c] # NoChallenge,
         NEW scene \in Scenes, NEW t \in Times
  PROVE  /\ KeepsGrants(Rebind(registry, c, scene, t))
         /\ Rebind(registry, c, scene, t)[c] = [registry[c] EXCEPT !.scene = scene]
         /\ Rebind(registry, c, scene, t)[c] # NoChallenge
  <1> DEFINE record == [registry[c] EXCEPT !.scene = scene]
  <1>1. registry[c] \in ChallengeRecords
    BY IssuedRecord
  <1>2. /\ record \in ChallengeRecords /\ record.status = registry[c].status
        /\ record.slot = registry[c].slot
        /\ record.createdAt = registry[c].createdAt /\ record.expiresAt = registry[c].expiresAt
    BY <1>1 DEF ChallengeRecords
  <1>3. Rebind(registry, c, scene, t) = [registry EXCEPT ![c] = record]
    BY DEF Rebind
  <1> HIDE DEF record
  <1>4. KeepsGrants([registry EXCEPT ![c] = record])
    BY <1>2, MissionAssumption DEF KeepsGrants, MissionTypeOK
  <1>5. [registry EXCEPT ![c] = record][c] = record /\ record # NoChallenge
    BY <1>2, MissionAssumption DEF MissionTypeOK
  <1> QED BY <1>3, <1>4, <1>5 DEF record

\* A new challenge takes a fresh identifier, so it replaces no grant.
LEMMA CreateKeepsGrants ==
  ASSUME MissionTypeOK, NEW reg, KeepsGrants(reg), NEW c \in Fresh(reg), NEW s \in Slots,
         NEW scene \in Scenes, NEW t \in Times, t + Ttl + Timeout <= MaxTime + 1
  PROVE  /\ KeepsGrants(Create(reg, c, s, scene, t))
         /\ Create(reg, c, s, scene, t)[c] =
              [status |-> "PENDING", slot |-> s, scene |-> scene,
               createdAt |-> t, expiresAt |-> t + Ttl]
         /\ Create(reg, c, s, scene, t)[c] # NoChallenge
  <1> DEFINE record == [status |-> "PENDING", slot |-> s, scene |-> scene,
                        createdAt |-> t, expiresAt |-> t + Ttl]
  <1>1. t + Ttl \in Times
    BY BayAssumption, AuthorizationAssumption DEF Times
  <1>2. record \in ChallengeRecords
    BY <1>1 DEF ChallengeRecords, Statuses
  <1>3. Create(reg, c, s, scene, t) = [reg EXCEPT ![c] = record]
    BY DEF Create
  <1> HIDE DEF record
  <1>4. c \in Challenges /\ reg[c] = NoChallenge
    BY DEF Fresh
  <1>5. KeepsGrants([reg EXCEPT ![c] = record])
    BY <1>2, <1>4, MissionAssumption DEF KeepsGrants
  <1>6. [reg EXCEPT ![c] = record][c] = record /\ record # NoChallenge
    BY <1>2, <1>4, MissionAssumption DEF KeepsGrants
  <1> QED BY <1>3, <1>5, <1>6 DEF record

\* Past requests stay granted while no new one is made.
LEMMA GrantsKept ==
  ASSUME MissionInv, KeepsGrants(registry'), UNCHANGED submitted
  PROVE  EveryReleaseWasGranted'
  BY DEF MissionInv, EveryReleaseWasGranted, KeepsGrants
------------------------------------------------------------------------------
\* A context under way names an issued challenge of its own bay and scene.
LEMMA ContextInOrder ==
  ASSUME MissionInv, phase \in {"AWAITING_AUTHORIZATION", "DEPLOYMENT_READY"}
  PROVE  /\ context \in Contexts
         /\ context.challenge \in Challenges /\ context.slot \in Slots
         /\ context.scene \in Scenes
         /\ registry[context.challenge] # NoChallenge
         /\ registry[context.challenge] \in ChallengeRecords
         /\ bay \in [Slots -> BayRecords] /\ ~faulted
  <1>1. context \in Contexts /\ context # None
    BY MissionAssumption DEF MissionInv, MissionTypeOK
  <1>2. registry[context.challenge] # NoChallenge
    BY DEF MissionInv, BindingsAgree
  <1>3. context.challenge \in Challenges /\ context.slot \in Slots /\ context.scene \in Scenes
    BY <1>1 DEF Contexts
  <1>4. ~faulted
    <2>1. CASE phase = "AWAITING_AUTHORIZATION"
      BY <2>1 DEF MissionInv, PhaseMatchesBays
    <2>2. CASE phase = "DEPLOYMENT_READY"
      BY <1>3, <2>2 DEF MissionInv, BayInv, PhaseMatchesBays, OnlyActive, FaultIsFinal,
                        ActiveStates
    <2> QED BY <2>1, <2>2
  <1> QED BY <1>1, <1>2, <1>3, <1>4, IssuedRecord DEF MissionInv, BayInv, BayTypeOK

\* Where a target may be selected the bays are idle.
LEMMA WaitingIsIdle ==
  ASSUME MissionInv, phase \in {"STANDBY", "NAVIGATING", "SEARCHING", "AWAITING_AUTHORIZATION"}
  PROVE  Idle(bay) /\ ~faulted
  <1>1. In(ActiveStates) = {} /\ ~faulted /\ In({"LOCKED"}) # {}
    BY DEF MissionInv, PhaseMatchesBays
  <1>2. bay \in [Slots -> BayRecords]
    BY DEF MissionInv, BayInv, BayTypeOK
  <1> QED BY <1>1, <1>2 DEF In, Idle

\* Relocking the context's bay leaves the bays idle, and is a step of the
\* payload controller or none.
LEMMA UnarmedIsIdle ==
  ASSUME MissionInv, phase \in {"AWAITING_AUTHORIZATION", "DEPLOYMENT_READY"}
  PROVE  /\ Idle(Unarmed)
         /\ bay' = Unarmed /\ UNCHANGED <<faulted, submitted>> => [BayNext]_bayVars
  <1>1. context.slot \in Slots /\ bay \in [Slots -> BayRecords]
    BY ContextInOrder
  <1>2. CASE phase = "AWAITING_AUTHORIZATION"
    <2>1. Idle(bay)
      BY <1>2, WaitingIsIdle
    <2>2. Unarmed = bay
      BY <1>1, <2>1 DEF Idle, Unarmed, ActiveStates
    <2> QED BY <2>1, <2>2 DEF bayVars
  <1>3. CASE phase = "DEPLOYMENT_READY"
    <2> DEFINE s == context.slot
    <2>1. /\ bay[s].state = "ARMED"
          /\ \A z \in Slots : z # s => bay[z].state \notin ActiveStates
      BY <1>1, <1>3 DEF MissionInv, PhaseMatchesBays, OnlyActive, In
    <2>2. Unarmed = [bay EXCEPT ![s] = Relocked(bay[s])]
      BY <1>1, <2>1 DEF Unarmed
    <2>3. Relocked(bay[s]) \in BayRecords /\ Relocked(bay[s]).state = "LOCKED"
      BY <1>1, <2>1 DEF Relocked, BayRecords, PayloadStates
    <2>4. Idle(Unarmed)
      BY <1>1, <2>1, <2>2, <2>3 DEF Idle, ActiveStates
    <2>5. bay' = Unarmed /\ UNCHANGED <<faulted, submitted>> => Lock(s)
      BY <2>1, <2>2 DEF Lock
    <2>6. Lock(s) => BayNext
      BY <1>1 DEF BayNext
    <2> QED BY <2>4, <2>5, <2>6
  <1> QED BY <1>2, <1>3
------------------------------------------------------------------------------
\* Dropping the context preserves the invariant when the bays are left idle.
LEMMA BackToSearchKeepsInv ==
  ASSUME MissionInv, BayInv', clock' \in Times, ~faulted,
         NEW reg, KeepsGrants(reg), NEW b, Idle(b), BackToSearch(reg, b)
  PROVE  MissionInv'
  <1>1. /\ phase' = "SEARCHING" /\ context' = None /\ registry' = reg /\ bay' = b
        /\ UNCHANGED <<faulted, submitted>>
    BY DEF BackToSearch
  <1>2. MissionTypeOK'
    BY <1>1 DEF MissionTypeOK, BayInv, KeepsGrants, Phases
  <1>3. PhaseMatchesBays'
    <2>1. In(ActiveStates)' = {} /\ In({"LOCKED"})' # {}
      BY <1>1 DEF Idle, In
    <2> QED BY <1>1, <2>1 DEF PhaseMatchesBays
  <1>4. BindingsAgree'
    BY <1>1 DEF BindingsAgree
  <1>5. EveryReleaseWasGranted'
    BY <1>1, GrantsKept
  <1> QED BY <1>2, <1>3, <1>4, <1>5 DEF MissionInv

\* Selecting a target on idle bays: a new challenge, or the search goes on.
LEMMA SelectTargetKeepsInv ==
  ASSUME MissionInv, BayInv', clock' \in Times, ~faulted,
         NEW reg, KeepsGrants(reg), NEW b, Idle(b),
         NEW eligible \in BOOLEAN, NEW scene \in Scenes, NEW t \in Times,
         SelectTarget(reg, b, eligible, scene, t)
  PROVE  MissionInv'
  <1>1. CASE ~eligible
    BY <1>1, BackToSearchKeepsInv DEF SelectTarget
  <1>2. CASE eligible
    <2> DEFINE s == CHOOSE free \in Slots : b[free].state = "LOCKED"
    <2>1. PICK c \in Fresh(reg) :
            /\ t + Ttl + Timeout <= MaxTime + 1
            /\ phase' = "AWAITING_AUTHORIZATION"
            /\ context' = [challenge |-> c, slot |-> s, scene |-> scene,
                           auth |-> None, release |-> None]
            /\ registry' = Create(reg, c, s, scene, t)
            /\ bay' = b
            /\ UNCHANGED <<faulted, submitted>>
      BY <1>2 DEF SelectTarget
    <2>2. s \in Slots
      BY DEF Idle
    <2> HIDE DEF s
    <2>3. c \in Challenges
      BY DEF Fresh
    <2>4. /\ KeepsGrants(registry')
          /\ registry'[c] = [status |-> "PENDING", slot |-> s, scene |-> scene,
                             createdAt |-> t, expiresAt |-> t + Ttl]
          /\ registry'[c] # NoChallenge
      BY <2>1, <2>2, CreateKeepsGrants DEF MissionInv
    <2>5. /\ context' \in Contexts /\ context'.challenge = c /\ context'.slot = s
          /\ context'.scene = scene /\ context' # None
      BY <2>1, <2>2, <2>3, MissionAssumption DEF Contexts
    <2>6. MissionTypeOK'
      BY <2>1, <2>4, <2>5 DEF MissionTypeOK, BayInv, KeepsGrants, Phases
    <2>7. PhaseMatchesBays'
      <3>1. In(ActiveStates)' = {} /\ In({"LOCKED"})' # {}
        BY <2>1 DEF Idle, In
      <3> QED BY <2>1, <3>1 DEF PhaseMatchesBays
    <2>8. BindingsAgree'
      BY <2>1, <2>4, <2>5 DEF BindingsAgree
    <2>9. EveryReleaseWasGranted'
      BY <2>1, <2>4, GrantsKept
    <2> QED BY <2>6, <2>7, <2>8, <2>9 DEF MissionInv
  <1> QED BY <1>1, <1>2

\* A fault of the mission asks for types only: nothing is under way any more.
LEMMA FaultKeepsMissionInv ==
  ASSUME MissionInv, BayInv', clock' \in Times, phase' = "FAULT", UNCHANGED context,
         KeepsGrants(registry'), UNCHANGED submitted
  PROVE  MissionInv'
  <1>1. MissionTypeOK'
    BY DEF MissionInv, MissionTypeOK, BayInv, KeepsGrants, Phases
  <1>2. PhaseMatchesBays' /\ BindingsAgree'
    BY DEF PhaseMatchesBays, BindingsAgree
  <1> QED BY <1>1, <1>2, GrantsKept DEF MissionInv

\* A call that only advances the clock preserves the invariant.
LEMMA NoChangeKeepsInv ==
  ASSUME MissionInv, clock' \in Times, UNCHANGED <<phase, context, registry, bayVars>>
  PROVE  MissionInv'
  <1>1. BayInv'
    BY BayStepKeepsInv DEF MissionInv, bayVars
  <1>2. MissionTypeOK'
    BY <1>1 DEF MissionInv, MissionTypeOK, BayInv
  <1>3. PhaseMatchesBays'
    BY DEF MissionInv, PhaseMatchesBays, OnlyActive, In, bayVars
  <1>4. BindingsAgree' /\ EveryReleaseWasGranted'
    BY DEF MissionInv, BindingsAgree, EveryReleaseWasGranted, bayVars
  <1> QED BY <1>1, <1>2, <1>3, <1>4 DEF MissionInv
------------------------------------------------------------------------------
\* A call's time is a time, and so is the clock after it.
LEMMA CallTime ==
  ASSUME MissionInv, NEW t \in Times, At(t)
  PROVE  clock' \in Times
  BY DEF MissionInv, MissionTypeOK, At

\* The expiry of the context.
LEMMA ExpireContextStep ==
  ASSUME MissionInv, NEW t \in Times, At(t), HasExpired(t), ExpireContext(t)
  PROVE  [BayNext]_bayVars /\ MissionInv'
  <1>1. phase \in {"AWAITING_AUTHORIZATION", "DEPLOYMENT_READY"}
    BY DEF HasExpired
  <1>2. KeepsGrants(Expire(registry, t)) /\ Idle(Unarmed) /\ ~faulted /\ clock' \in Times
    BY <1>1, ExpireKeepsGrants, UnarmedIsIdle, ContextInOrder, CallTime DEF MissionInv
  <1>3. BackToSearch(Expire(registry, t), Unarmed)
    BY DEF ExpireContext
  <1>4. [BayNext]_bayVars
    BY <1>1, <1>3, UnarmedIsIdle DEF BackToSearch
  <1>5. BayInv'
    BY <1>4, BayStepKeepsInv DEF MissionInv
  <1> QED BY <1>2, <1>3, <1>4, <1>5, BackToSearchKeepsInv

\* A revoked context, dropped with its bay relocked.
LEMMA RevokeStep ==
  ASSUME MissionInv, NEW t \in Times, At(t),
         phase \in {"AWAITING_AUTHORIZATION", "DEPLOYMENT_READY"},
         NEW reg, KeepsGrants(reg),
         NEW b \in {bay, Unarmed}, b = bay => phase = "AWAITING_AUTHORIZATION",
         BackToSearch(reg, b)
  PROVE  [BayNext]_bayVars /\ MissionInv'
  <1>1. Idle(b) /\ ~faulted /\ clock' \in Times
    BY UnarmedIsIdle, WaitingIsIdle, ContextInOrder, CallTime
  <1>2. [BayNext]_bayVars
    BY UnarmedIsIdle DEF BackToSearch, bayVars
  <1>3. BayInv'
    BY <1>2, BayStepKeepsInv DEF MissionInv
  <1> QED BY <1>1, <1>2, <1>3, BackToSearchKeepsInv

\* Selecting a target after whatever the frame has revoked.
LEMMA SelectStep ==
  ASSUME MissionInv, NEW t \in Times, At(t),
         NEW reg, KeepsGrants(reg), NEW b, Idle(b), ~faulted,
         bay' = b /\ UNCHANGED <<faulted, submitted>> => [BayNext]_bayVars,
         NEW eligible \in BOOLEAN, NEW scene \in Scenes,
         SelectTarget(reg, b, eligible, scene, t)
  PROVE  [BayNext]_bayVars /\ MissionInv'
  <1>1. [BayNext]_bayVars
    BY DEF SelectTarget, BackToSearch
  <1>2. BayInv'
    BY <1>1, BayStepKeepsInv DEF MissionInv
  <1> QED BY <1>1, <1>2, CallTime, SelectTargetKeepsInv

\* The refresh moves the three copies of the binding together.
LEMMA RefreshStep ==
  ASSUME MissionInv, NEW t \in Times, At(t), NEW scene \in Scenes,
         phase \in {"AWAITING_AUTHORIZATION", "DEPLOYMENT_READY"},
         RefreshContext(scene, t)
  PROVE  [BayNext]_bayVars /\ MissionInv'
  <1> DEFINE c == context.challenge
             s == context.slot
  <1>1. /\ context \in Contexts /\ c \in Challenges /\ s \in Slots
        /\ registry[c] # NoChallenge /\ registry[c] \in ChallengeRecords
        /\ bay \in [Slots -> BayRecords] /\ clock' \in Times
    BY ContextInOrder, CallTime
  <1>2. CASE ~CanRebind(registry, c, context.scene, t)
    <2>1. UNCHANGED <<phase, context, registry, bayVars>>
      BY <1>2 DEF RefreshContext
    <2> QED BY <1>1, <2>1, NoChangeKeepsInv
  <1>3. CASE CanRebind(registry, c, context.scene, t)
    <2>1. /\ registry' = Rebind(registry, c, scene, t)
          /\ KeepsGrants(registry')
          /\ registry'[c] = [registry[c] EXCEPT !.scene = scene]
          /\ registry'[c] # NoChallenge
      BY <1>1, <1>3, RebindKeepsGrants DEF RefreshContext, MissionInv
    <2>2. /\ registry'[c].scene = scene /\ registry'[c].status = registry[c].status
          /\ registry'[c].slot = registry[c].slot
          /\ registry'[c].createdAt = registry[c].createdAt
          /\ registry'[c].expiresAt = registry[c].expiresAt
      BY <1>1, <2>1 DEF ChallengeRecords
    <2>3. CASE /\ phase = "AWAITING_AUTHORIZATION"
               /\ context' = [context EXCEPT !.scene = scene]
               /\ UNCHANGED <<phase, bayVars>>
      <3>1. /\ context' \in Contexts /\ context'.challenge = c /\ context'.slot = s
            /\ context'.scene = scene /\ context' # None
        BY <1>1, <2>3, MissionAssumption DEF Contexts
      <3>2. BayInv'
        BY <2>3, BayStepKeepsInv DEF MissionInv
      <3>3. MissionTypeOK'
        BY <1>1, <2>1, <2>3, <3>1, <3>2 DEF MissionInv, MissionTypeOK, BayInv, KeepsGrants, Phases
      <3>4. PhaseMatchesBays'
        BY <2>3 DEF MissionInv, PhaseMatchesBays, In, bayVars
      <3>5. BindingsAgree'
        BY <2>2, <2>1, <2>3, <3>1 DEF MissionInv, BindingsAgree
      <3>6. EveryReleaseWasGranted'
        BY <2>1, <2>3, GrantsKept DEF bayVars
      <3> QED BY <2>3, <3>2, <3>3, <3>4, <3>5, <3>6 DEF MissionInv
    <2>4. CASE /\ phase = "DEPLOYMENT_READY"
               /\ Refresh(s, scene, t)
               /\ context' = [context EXCEPT !.scene = scene, !.auth.scene = scene]
               /\ UNCHANGED phase
      <3>1. /\ context.auth = bay[s].auth /\ context.auth \in Authorizations
            /\ registry[c].status = "CONSUMED" /\ registry[c].slot = s
            /\ context.auth.consumedAt >= registry[c].createdAt
            /\ context.auth.expiresAt = registry[c].expiresAt
        BY <2>4 DEF MissionInv, BindingsAgree
      <3>2. [context.auth EXCEPT !.scene = scene] \in Authorizations
        BY <3>1 DEF Authorizations
      <3>3. /\ context' \in Contexts /\ context'.challenge = c /\ context'.slot = s
            /\ context'.scene = scene /\ context' # None
            /\ context'.auth = [context.auth EXCEPT !.scene = scene]
        BY <1>1, <2>4, <3>2, MissionAssumption DEF Contexts
      <3>4. /\ bay'[s].auth = [context.auth EXCEPT !.scene = scene]
            /\ bay'[s].state = bay[s].state
            /\ \A z \in Slots : z # s => bay'[z] = bay[z]
            /\ UNCHANGED <<faulted, submitted>>
        BY <1>1, <2>4, <3>1 DEF Refresh, BayRecords
      <3>5. BayNext
        BY <1>1, <2>4 DEF BayNext
      <3>6. BayInv'
        BY <3>5, BayStepKeepsInv DEF MissionInv
      <3>7. MissionTypeOK'
        BY <1>1, <2>1, <2>4, <3>3, <3>6 DEF MissionInv, MissionTypeOK, BayInv, KeepsGrants, Phases
      <3>8. PhaseMatchesBays'
        <4>1. OnlyActive(s, "ARMED")
          BY <2>4 DEF MissionInv, PhaseMatchesBays
        <4>2. OnlyActive(s, "ARMED")'
          BY <3>3, <3>4, <4>1 DEF OnlyActive, In
        <4> QED BY <2>4, <3>3, <4>2 DEF PhaseMatchesBays
      <3>9. BindingsAgree'
        <4>1. /\ context'.auth.scene = scene
              /\ context'.auth.consumedAt = context.auth.consumedAt
              /\ context'.auth.expiresAt = context.auth.expiresAt
          BY <3>1, <3>3 DEF Authorizations
        <4> QED BY <2>1, <2>2, <2>4, <3>1, <3>2, <3>3, <3>4, <4>1 DEF BindingsAgree
      <3>10. EveryReleaseWasGranted'
        BY <2>1, <3>4, GrantsKept
      <3> QED BY <3>5, <3>6, <3>7, <3>8, <3>9, <3>10 DEF MissionInv
    <2>5. CASE /\ phase = "DEPLOYMENT_READY"
               /\ phase' = "FAULT"
               /\ bay' = Unarmed
               /\ UNCHANGED <<context, faulted, submitted>>
      <3>1. [BayNext]_bayVars
        BY <2>5, UnarmedIsIdle
      <3>2. BayInv'
        BY <3>1, BayStepKeepsInv DEF MissionInv
      <3> QED BY <1>1, <2>1, <2>5, <3>1, <3>2, FaultKeepsMissionInv
    <2> QED BY <1>3, <2>3, <2>4, <2>5 DEF RefreshContext
  <1> QED BY <1>2, <1>3

\* A frame: expiry, revocation, refresh or a new target.
LEMMA ObservationStep ==
  ASSUME MissionInv, NEW t \in Times, NEW inventory \in BOOLEAN, NEW equivalent \in BOOLEAN,
         NEW candidate \in BOOLEAN, NEW scene \in Scenes,
         ProcessObservation(t, inventory, equivalent, candidate, scene)
  PROVE  [BayNext]_bayVars /\ MissionInv'
  <1> DEFINE eligible == candidate /\ inventory
  <1>1. At(t) /\ phase \in {"SEARCHING", "AWAITING_AUTHORIZATION", "DEPLOYMENT_READY"}
        /\ eligible \in BOOLEAN
    BY DEF ProcessObservation
  <1>2. CASE phase = "SEARCHING" /\ SelectTarget(registry, bay, eligible, scene, t)
    <2>1. Idle(bay) /\ ~faulted /\ KeepsGrants(registry)
      BY <1>2, WaitingIsIdle, SameKeepsGrants DEF MissionInv
    <2>2. bay' = bay /\ UNCHANGED <<faulted, submitted>> => [BayNext]_bayVars
      BY DEF bayVars
    <2> HIDE DEF eligible
    <2> QED BY <1>1, <1>2, <2>1, <2>2, SelectStep
  <1>3. CASE HasExpired(t) /\ SelectTarget(Expire(registry, t), Unarmed, eligible, scene, t)
    <2>1. phase \in {"AWAITING_AUTHORIZATION", "DEPLOYMENT_READY"}
      BY <1>3 DEF HasExpired
    <2>2. /\ KeepsGrants(Expire(registry, t)) /\ Idle(Unarmed) /\ ~faulted
          /\ bay' = Unarmed /\ UNCHANGED <<faulted, submitted>> => [BayNext]_bayVars
      BY <2>1, ExpireKeepsGrants, UnarmedIsIdle, ContextInOrder DEF MissionInv
    <2> HIDE DEF eligible
    <2> QED BY <1>1, <1>3, <2>2, SelectStep
  <1>4. CASE /\ phase # "SEARCHING"
             /\ SelectTarget(AfterRevocation(t)[1], AfterRevocation(t)[2], eligible, scene, t)
    <2>1. CASE phase = "AWAITING_AUTHORIZATION"
      <3> DEFINE reg == Decide(registry, context.challenge, "DENIED", t)
      <3>1. AfterRevocation(t) = <<reg, bay>>
        BY <2>1 DEF AfterRevocation
      <3>2. KeepsGrants(reg) /\ Idle(bay) /\ ~faulted
        BY <2>1, ContextInOrder, DecideKeepsGrants, WaitingIsIdle DEF MissionInv, Statuses
      <3>3. bay' = bay /\ UNCHANGED <<faulted, submitted>> => [BayNext]_bayVars
        BY DEF bayVars
      <3> HIDE DEF eligible, reg
      <3>4. SelectTarget(reg, bay, eligible, scene, t)
        BY <1>4, <3>1
      <3> QED BY <1>1, <3>2, <3>3, <3>4, SelectStep
    <2>2. CASE phase = "DEPLOYMENT_READY"
      <3>1. AfterRevocation(t) = <<registry, Unarmed>>
        BY <2>2 DEF AfterRevocation
      <3>2. /\ KeepsGrants(registry) /\ Idle(Unarmed) /\ ~faulted
            /\ bay' = Unarmed /\ UNCHANGED <<faulted, submitted>> => [BayNext]_bayVars
        BY <2>2, SameKeepsGrants, UnarmedIsIdle, ContextInOrder DEF MissionInv
      <3> HIDE DEF eligible
      <3>3. SelectTarget(registry, Unarmed, eligible, scene, t)
        BY <1>4, <3>1
      <3> QED BY <1>1, <3>2, <3>3, SelectStep
    <2> QED BY <1>1, <1>4, <2>1, <2>2
  <1>5. CASE phase # "SEARCHING" /\ RefreshContext(scene, t)
    BY <1>1, <1>5, RefreshStep
  <1> QED BY <1>2, <1>3, <1>4, <1>5 DEF ProcessObservation
------------------------------------------------------------------------------
\* Approving and consuming the pending challenge of the context.
LEMMA ApprovedIsConsumed ==
  ASSUME MissionInv, NEW t \in Times, phase = "AWAITING_AUTHORIZATION",
         ~HasExpired(t), CanDecide(registry, context.challenge, t)
  PROVE  LET c == context.challenge
             reg == ApprovedAndConsumed(t)
         IN  /\ KeepsGrants(reg)
             /\ reg = [registry EXCEPT ![c] = [registry[c] EXCEPT !.status = "CONSUMED"]]
             /\ reg[c] # NoChallenge /\ reg[c].status = "CONSUMED"
             /\ reg[c].slot = context.slot /\ reg[c].scene = context.scene
             /\ reg[c].createdAt = registry[c].createdAt
             /\ reg[c].expiresAt = registry[c].expiresAt
             /\ t >= registry[c].createdAt /\ t < registry[c].expiresAt
  <1> DEFINE c == context.challenge
             approved == Decide(registry, c, "APPROVED", t)
             first == [registry[c] EXCEPT !.status = "APPROVED"]
             second == [first EXCEPT !.status = "CONSUMED"]
  <1>1. /\ c \in Challenges /\ registry[c] # NoChallenge /\ registry[c] \in ChallengeRecords
        /\ registry[c].slot = context.slot /\ registry[c].scene = context.scene
        /\ registry[c].status = "PENDING"
        /\ registry \in [Challenges -> ChallengeRecords \union {NoChallenge}]
    BY ContextInOrder DEF MissionInv, BindingsAgree, MissionTypeOK
  <1>2. t >= registry[c].createdAt /\ t < registry[c].expiresAt
    BY <1>1 DEF CanDecide, HasExpired, Times, ChallengeRecords
  <1>3. first \in ChallengeRecords /\ first.status = "APPROVED"
        /\ first.slot = context.slot /\ first.scene = context.scene
        /\ first.createdAt = registry[c].createdAt /\ first.expiresAt = registry[c].expiresAt
    BY <1>1 DEF ChallengeRecords, Statuses
  <1>4. approved = [registry EXCEPT ![c] = first] /\ approved[c] = first
    BY <1>1 DEF Decide
  <1> HIDE DEF approved, first
  <1>5. second \in ChallengeRecords /\ second.status = "CONSUMED"
        /\ second.slot = context.slot /\ second.scene = context.scene
        /\ second.createdAt = registry[c].createdAt /\ second.expiresAt = registry[c].expiresAt
    BY <1>3 DEF ChallengeRecords, Statuses
  <1>6. Lapsed(first, t) = first
    BY <1>2, <1>3 DEF Lapsed, Times, ChallengeRecords
  <1>7. CanConsume(approved, c, context.slot, context.scene, t)
    BY <1>2, <1>3, <1>4, <1>6 DEF CanConsume
  <1>8. ApprovedAndConsumed(t) = [approved EXCEPT ![c] = second]
    BY <1>4, <1>7 DEF ApprovedAndConsumed, Consume, approved
  <1>9. ApprovedAndConsumed(t) = [registry EXCEPT ![c] = second]
    BY <1>1, <1>4, <1>8
  <1>12. second = [registry[c] EXCEPT !.status = "CONSUMED"]
    BY <1>1 DEF first, ChallengeRecords
  <1> HIDE DEF second
  <1>10. KeepsGrants([registry EXCEPT ![c] = second])
    BY <1>1, <1>5, MissionAssumption DEF KeepsGrants
  <1>11. [registry EXCEPT ![c] = second][c] = second /\ second # NoChallenge
    BY <1>1, <1>5, MissionAssumption
  <1> QED BY <1>2, <1>5, <1>9, <1>10, <1>11, <1>12

\* An approval arms exactly the bay the operator was shown.
LEMMA ApproveStep ==
  ASSUME MissionInv, NEW t \in Times, NEW confirmed \in BOOLEAN, NEW inventory \in BOOLEAN,
         NEW nonce \in BOOLEAN, NEW matches \in BOOLEAN,
         ApproveAuthorization(t, confirmed, inventory, nonce, matches)
  PROVE  [BayNext]_bayVars /\ MissionInv'
  <1>1. At(t) /\ phase = "AWAITING_AUTHORIZATION" /\ clock' \in Times
    BY CallTime DEF ApproveAuthorization
  <1>2. /\ context \in Contexts /\ context.challenge \in Challenges /\ context.slot \in Slots
        /\ context.scene \in Scenes /\ registry[context.challenge] # NoChallenge
        /\ registry[context.challenge] \in ChallengeRecords
        /\ bay \in [Slots -> BayRecords]
    BY <1>1, ContextInOrder
  <1>3. CASE BackToSearch(registry, bay)
    BY <1>1, <1>3, RevokeStep, SameKeepsGrants DEF MissionInv
  <1>4. CASE BackToSearch(Decide(registry, context.challenge, "DENIED", t), bay)
    <2>1. KeepsGrants(Decide(registry, context.challenge, "DENIED", t))
      BY <1>2, DecideKeepsGrants DEF MissionInv, Statuses
    <2> QED BY <1>1, <1>4, <2>1, RevokeStep
  <1>5. CASE HasExpired(t) /\ ExpireContext(t)
    BY <1>1, <1>5, ExpireContextStep
  <1>6. CASE UNCHANGED <<phase, context, registry, bayVars>>
    BY <1>1, <1>6, NoChangeKeepsInv
  <1>7. CASE /\ ~HasExpired(t) /\ CanDecide(registry, context.challenge, t)
             /\ registry' = ApprovedAndConsumed(t)
             /\ context' = [context EXCEPT !.auth = Granted(t)]
             /\ Arm(context.slot, Granted(t), t)
             /\ phase' = "DEPLOYMENT_READY"
    <2> DEFINE c == context.challenge
               s == context.slot
               auth == Granted(t)
    <2>1. /\ KeepsGrants(registry')
          /\ registry'[c] # NoChallenge /\ registry'[c].status = "CONSUMED"
          /\ registry'[c].slot = s /\ registry'[c].scene = context.scene
          /\ registry'[c].createdAt = registry[c].createdAt
          /\ registry'[c].expiresAt = registry[c].expiresAt
          /\ t >= registry[c].createdAt
      BY <1>1, <1>7, ApprovedIsConsumed
    <2>2. /\ auth \in Authorizations /\ auth.slot = s /\ auth.scene = context.scene
          /\ auth.consumedAt = t /\ auth.expiresAt = registry[c].expiresAt
      BY <1>2 DEF Granted, Authorizations, ChallengeRecords
    <2>3. /\ context' \in Contexts /\ context'.challenge = c /\ context'.slot = s
          /\ context'.scene = context.scene /\ context'.auth = auth /\ context' # None
      <3> HIDE DEF auth
      <3>1. context' = [context EXCEPT !.auth = auth]
        BY <1>7 DEF auth
      <3>2. [context EXCEPT !.auth = auth] \in Contexts
        BY <1>2, <2>2 DEF Contexts
      <3>3. /\ context'.challenge = c /\ context'.slot = s
            /\ context'.scene = context.scene /\ context'.auth = auth
        BY <1>2, <3>1 DEF Contexts
      <3> QED BY <3>1, <3>2, <3>3, MissionAssumption
    <2>4. BayNext
      BY <1>2, <1>7, <2>2 DEF BayNext
    <2>5. BayInv'
      BY <2>4, BayStepKeepsInv DEF MissionInv
    <2>6. /\ bay'[s].state = "ARMED" /\ bay'[s].auth = auth
          /\ \A z \in Slots : z # s => bay'[z] = bay[z]
          /\ \A z \in Slots : bay[z].state \notin ActiveStates
          /\ UNCHANGED <<faulted, submitted>>
      BY <1>2, <1>7 DEF Arm, CanArm, BayRecords, In
    <2> HIDE DEF auth
    <2>7. MissionTypeOK'
      BY <1>1, <1>7, <2>1, <2>3, <2>5 DEF MissionTypeOK, BayInv, KeepsGrants, Phases
    <2>8. PhaseMatchesBays'
      <3>1. In(ActiveStates)' = {s}
        BY <1>2, <2>6 DEF In, ActiveStates
      <3>2. OnlyActive(context.slot, "ARMED")'
        BY <2>3, <2>6, <3>1 DEF OnlyActive
      <3> QED BY <1>7, <3>2 DEF PhaseMatchesBays
    <2>9. BindingsAgree'
      BY <1>7, <2>1, <2>2, <2>3, <2>6 DEF BindingsAgree
    <2>10. EveryReleaseWasGranted'
      BY <2>1, <2>6, GrantsKept
    <2> QED BY <2>4, <2>5, <2>7, <2>8, <2>9, <2>10 DEF MissionInv
  <1> QED BY <1>3, <1>4, <1>5, <1>6, <1>7 DEF ApproveAuthorization

\* A denial drops the context.
LEMMA DenyStep ==
  ASSUME MissionInv, NEW t \in Times, NEW nonce \in BOOLEAN, DenyAuthorization(t, nonce)
  PROVE  [BayNext]_bayVars /\ MissionInv'
  <1>1. At(t) /\ phase = "AWAITING_AUTHORIZATION" /\ clock' \in Times
    BY CallTime DEF DenyAuthorization
  <1>2. CASE HasExpired(t) /\ ExpireContext(t)
    BY <1>1, <1>2, ExpireContextStep
  <1>3. CASE BackToSearch(Decide(registry, context.challenge, "DENIED", t), bay)
    <2>1. KeepsGrants(Decide(registry, context.challenge, "DENIED", t))
      BY <1>1, ContextInOrder, DecideKeepsGrants DEF MissionInv, Statuses
    <2> QED BY <1>1, <1>3, <2>1, RevokeStep
  <1>4. CASE UNCHANGED <<phase, context, registry, bayVars>>
    BY <1>1, <1>4, NoChangeKeepsInv
  <1> QED BY <1>2, <1>3, <1>4 DEF DenyAuthorization
------------------------------------------------------------------------------
\* While the mission acts on a bay, that bay is the only active one.
LEMMA ActingOnBay ==
  ASSUME MissionInv, phase \in {"DEPLOYMENT_READY", "DEPLOYING", "VERIFYING_RELEASE"}
  PROVE  /\ context \in Contexts /\ context.slot \in Slots /\ context.scene \in Scenes
         /\ bay \in [Slots -> BayRecords] /\ ~faulted
         /\ bay[context.slot].state =
              CASE phase = "DEPLOYMENT_READY" -> "ARMED"
                [] phase = "DEPLOYING" -> "RELEASE_REQUESTED"
                [] phase = "VERIFYING_RELEASE" -> "RELEASED"
         /\ \A z \in Slots : z # context.slot => bay[z].state \notin ActiveStates
  <1>1. context \in Contexts /\ context.slot \in Slots /\ context.scene \in Scenes
        /\ bay \in [Slots -> BayRecords]
    BY MissionAssumption DEF MissionInv, MissionTypeOK, BayTypeOK, Contexts
  <1>2. \E state \in ActiveStates :
          /\ OnlyActive(context.slot, state)
          /\ state = CASE phase = "DEPLOYMENT_READY" -> "ARMED"
                       [] phase = "DEPLOYING" -> "RELEASE_REQUESTED"
                       [] phase = "VERIFYING_RELEASE" -> "RELEASED"
    BY DEF MissionInv, PhaseMatchesBays, ActiveStates
  <1>3. PICK state \in ActiveStates :
          /\ OnlyActive(context.slot, state)
          /\ state = CASE phase = "DEPLOYMENT_READY" -> "ARMED"
                       [] phase = "DEPLOYING" -> "RELEASE_REQUESTED"
                       [] phase = "VERIFYING_RELEASE" -> "RELEASED"
    BY <1>2
  <1>4. /\ bay[context.slot].state = state
        /\ \A z \in Slots : bay[z].state \in ActiveStates <=> z = context.slot
    BY <1>3 DEF OnlyActive, In
  <1>5. ~faulted
    BY <1>1, <1>3, <1>4 DEF MissionInv, BayInv, FaultIsFinal
  <1> QED BY <1>1, <1>3, <1>4, <1>5

\* The release is asked for on the grant of the active context.
LEMMA DeploymentStep ==
  ASSUME MissionInv, NEW t \in Times, NEW inventory \in BOOLEAN, NEW matches \in BOOLEAN,
         RequestDeployment(t, inventory, matches)
  PROVE  [BayNext]_bayVars /\ MissionInv'
  <1> DEFINE c == context.challenge
             s == context.slot
  <1>1. At(t) /\ phase = "DEPLOYMENT_READY" /\ clock' \in Times
    BY CallTime DEF RequestDeployment
  <1>2. CASE BackToSearch(registry, Unarmed)
    <2>1. Idle(Unarmed) /\ ~faulted /\ KeepsGrants(registry)
      BY <1>1, UnarmedIsIdle, ContextInOrder, SameKeepsGrants DEF MissionInv
    <2>2. [BayNext]_bayVars
      BY <1>1, <1>2, UnarmedIsIdle DEF BackToSearch
    <2>3. BayInv'
      BY <2>2, BayStepKeepsInv DEF MissionInv
    <2> QED BY <1>1, <1>2, <2>1, <2>2, <2>3, BackToSearchKeepsInv
  <1>3. CASE HasExpired(t) /\ ExpireContext(t)
    BY <1>1, <1>3, ExpireContextStep
  <1>4. CASE phase' = "FAULT" /\ UNCHANGED <<registry, context, bayVars>>
    <2>1. BayInv' /\ KeepsGrants(registry')
      BY <1>4, BayStepKeepsInv, SameKeepsGrants DEF MissionInv
    <2> QED BY <1>1, <1>4, <2>1, FaultKeepsMissionInv DEF bayVars
  <1>5. ASSUME NEW r \in Releases, BoundTo(r) = {}, UNCHANGED registry,
               RequestRelease(s, r, context.scene, t),
               phase' = "DEPLOYING", context' = [context EXCEPT !.release = r]
        PROVE  [BayNext]_bayVars /\ MissionInv'
    <2> DEFINE request == [release |-> r, slot |-> s, at |-> t, auth |-> bay[s].auth]
    <2>1. /\ context \in Contexts /\ s \in Slots /\ context.scene \in Scenes
          /\ bay \in [Slots -> BayRecords] /\ bay[s].state = "ARMED"
          /\ \A z \in Slots : z # s => bay[z].state \notin ActiveStates
      BY <1>1, ActingOnBay
    <2>2. BayNext
      BY <1>5, <2>1 DEF BayNext
    <2>3. BayInv'
      BY <2>2, BayStepKeepsInv DEF MissionInv
    <2>4. /\ CanRequest(s, context.scene, t)
          /\ bay'[s].state = "RELEASE_REQUESTED"
          /\ \A z \in Slots : z # s => bay'[z] = bay[z]
          /\ submitted' = submitted \union {request}
          /\ UNCHANGED faulted
      BY <1>5, <2>1 DEF RequestRelease, BayRecords
    <2>5. context' \in Contexts /\ context'.slot = s /\ context' # None
      BY <1>5, <2>1, MissionAssumption DEF Contexts
    <2>6. MissionTypeOK'
      BY <1>1, <1>5, <2>3, <2>5 DEF MissionInv, MissionTypeOK, BayInv, Phases
    <2>7. PhaseMatchesBays'
      <3>1. In(ActiveStates)' = {s}
        BY <2>1, <2>4 DEF In, ActiveStates
      <3>2. OnlyActive(context.slot, "RELEASE_REQUESTED")'
        BY <2>4, <2>5, <3>1 DEF OnlyActive
      <3> QED BY <1>5, <3>2 DEF PhaseMatchesBays
    <2>8. BindingsAgree'
      BY <1>5 DEF BindingsAgree
    <2>9. EveryReleaseWasGranted'
      <3>1. /\ c \in Challenges /\ registry[c] # NoChallenge
            /\ registry[c].status = "CONSUMED" /\ registry[c].slot = s
            /\ registry[c].expiresAt = bay[s].auth.expiresAt
            /\ registry[c].createdAt \in Times /\ bay[s].auth.consumedAt \in Times
            /\ bay[s].auth.consumedAt >= registry[c].createdAt
        <4>1. /\ context.auth = bay[s].auth /\ context.auth \in Authorizations
              /\ registry[c].status = "CONSUMED" /\ registry[c].slot = s
              /\ context.auth.consumedAt >= registry[c].createdAt
              /\ context.auth.expiresAt = registry[c].expiresAt
          BY <1>1 DEF MissionInv, BindingsAgree
        <4>2. /\ c \in Challenges /\ registry[c] # NoChallenge
              /\ registry[c] \in ChallengeRecords
          BY <1>1, ContextInOrder
        <4> QED BY <4>1, <4>2 DEF ChallengeRecords, Authorizations
      <3>2. t < bay[s].auth.expiresAt
        BY <2>4 DEF CanRequest, ValidAuthorization
      <3>3. request.slot = s /\ request.at = t /\ request.auth = bay[s].auth
        OBVIOUS
      <3> HIDE DEF request
      <3>4. ASSUME NEW q \in submitted'
            PROVE  \E d \in Challenges :
                     /\ registry[d] # NoChallenge
                     /\ registry[d].status = "CONSUMED"
                     /\ registry[d].slot = q.slot
                     /\ registry[d].expiresAt = q.auth.expiresAt
                     /\ registry[d].createdAt <= q.auth.consumedAt
                     /\ q.at < registry[d].expiresAt
        <4>1. CASE q \in submitted
          BY <4>1 DEF MissionInv, EveryReleaseWasGranted
        <4>2. CASE q = request
          <5>1. registry[c].createdAt <= request.auth.consumedAt
            BY <3>1, <3>3 DEF Times
          <5> QED BY <3>1, <3>2, <3>3, <4>2, <5>1
        <4> QED BY <2>4, <4>1, <4>2
      <3> QED BY <1>5, <3>4 DEF EveryReleaseWasGranted
    <2> QED BY <2>2, <2>3, <2>6, <2>7, <2>8, <2>9 DEF MissionInv
  <1> QED BY <1>2, <1>3, <1>4, <1>5 DEF RequestDeployment

\* What a report leaves behind: a bay to verify, or a finished release with
\* the bays idle.
LEMMA AfterReportKeepsInv ==
  ASSUME MissionInv, BayInv', clock' \in Times, phase \in {"DEPLOYING", "VERIFYING_RELEASE"},
         NEW record \in BayRecords, record.state \in {"RELEASED", "RELEASE_CONFIRMED"},
         bay' = [bay EXCEPT ![context.slot] = record],
         UNCHANGED <<faulted, submitted, registry>>, AfterReport
  PROVE  MissionInv'
  <1> DEFINE s == context.slot
  <1>1. /\ context \in Contexts /\ s \in Slots /\ bay \in [Slots -> BayRecords] /\ ~faulted
        /\ \A z \in Slots : z # s => bay[z].state \notin ActiveStates
    BY ActingOnBay
  <1>2. bay'[s] = record /\ \A z \in Slots : z # s => bay'[z] = bay[z]
    BY <1>1
  <1>3. KeepsGrants(registry')
    BY SameKeepsGrants DEF MissionInv
  <1>4. EveryReleaseWasGranted'
    BY <1>3, GrantsKept
  <1>5. CASE record.state = "RELEASED"
    <2>1. phase' = "VERIFYING_RELEASE" /\ context' = context
      BY <1>2, <1>5 DEF AfterReport
    <2>2. MissionTypeOK'
      BY <1>1, <1>3, <2>1, MissionAssumption DEF MissionTypeOK, BayInv, KeepsGrants, Phases
    <2>3. In(ActiveStates)' = {s}
      BY <1>1, <1>2, <1>5 DEF In, ActiveStates
    <2>4. OnlyActive(context.slot, "RELEASED")'
      BY <1>2, <1>5, <2>1, <2>3 DEF OnlyActive
    <2>5. PhaseMatchesBays' /\ BindingsAgree'
      BY <2>1, <2>4 DEF PhaseMatchesBays, BindingsAgree
    <2> QED BY <1>4, <2>2, <2>5 DEF MissionInv
  <1>6. CASE record.state = "RELEASE_CONFIRMED"
    <2>1. /\ context' = None
          /\ phase' \in {"TERMINATED", "SEARCHING", "RETURN_REQUESTED"}
          /\ phase' = "SEARCHING" => Remaining' > 0
      BY <1>2, <1>6 DEF AfterReport
    <2>2. MissionTypeOK'
      BY <1>3, <2>1 DEF MissionTypeOK, BayInv, KeepsGrants, Phases
    <2>3. In(ActiveStates)' = {}
      BY <1>1, <1>2, <1>6 DEF In, ActiveStates
    <2>4. phase' = "SEARCHING" => In({"LOCKED"})' # {}
      <3>1. In({"LOCKED", "ARMED"})' = In({"LOCKED"})'
        BY <2>3 DEF In, ActiveStates
      <3>2. In({"LOCKED"})' = {} => Remaining' = 0
        BY <3>1, FS_EmptySet DEF Remaining
      <3> QED BY <2>1, <3>2
    <2>5. PhaseMatchesBays' /\ BindingsAgree'
      BY <1>1, <2>1, <2>3, <2>4 DEF PhaseMatchesBays, BindingsAgree
    <2> QED BY <1>4, <2>2, <2>5 DEF MissionInv
  <1> QED BY <1>5, <1>6

\* A payload step that faults the mission, with the registry left alone.
LEMMA PayloadFaultStep ==
  ASSUME MissionInv, BayNext, clock' \in Times, UNCHANGED <<registry, submitted>>, ToFault
  PROVE  MissionInv'
  <1>1. BayInv' /\ KeepsGrants(registry')
    BY BayStepKeepsInv, SameKeepsGrants DEF MissionInv
  <1> QED BY <1>1, FaultKeepsMissionInv DEF ToFault

\* The controller's own report of the release.
LEMMA ExecutionStep ==
  ASSUME MissionInv, NEW t \in Times, NEW r \in Releases, ReportSimulatedExecution(t, r)
  PROVE  [BayNext]_bayVars /\ MissionInv'
  <1> DEFINE s == context.slot
             record == [bay[s] EXCEPT !.state = "RELEASED", !.executed = TRUE]
  <1>1. /\ phase = "DEPLOYING" /\ clock' \in Times /\ UNCHANGED registry
        /\ ReportExecution(r, s, t)
    BY CallTime DEF ReportSimulatedExecution
  <1>2. s \in Slots /\ bay \in [Slots -> BayRecords]
    BY <1>1, ActingOnBay
  <1>3. BayNext
    BY <1>1, <1>2 DEF BayNext
  <1>4. CASE Miscorrelated(r, s)
    <2>1. ToFault /\ UNCHANGED submitted
      BY <1>1, <1>4 DEF ReportSimulatedExecution, ReportExecution, EnterFault
    <2> QED BY <1>1, <1>3, <2>1, PayloadFaultStep
  <1>5. CASE ~Miscorrelated(r, s)
    <2>1. /\ AfterReport /\ bay' = [bay EXCEPT ![s] = Confirmed(record)]
          /\ UNCHANGED <<faulted, submitted>>
      BY <1>1, <1>5 DEF ReportSimulatedExecution, ReportExecution
    <2>2. record \in BayRecords /\ record.state = "RELEASED"
      BY <1>2 DEF BayRecords, PayloadStates
    <2> HIDE DEF record
    <2>3. Confirmed(record) \in BayRecords
          /\ Confirmed(record).state \in {"RELEASED", "RELEASE_CONFIRMED"}
      BY <2>2 DEF Confirmed, BayRecords, PayloadStates
    <2>4. BayInv'
      BY <1>3, BayStepKeepsInv DEF MissionInv
    <2> QED BY <1>1, <1>3, <2>1, <2>3, <2>4, AfterReportKeepsInv
  <1> QED BY <1>4, <1>5

\* The independent sensor's report, which may come before the controller's.
LEMMA ConfirmationStep ==
  ASSUME MissionInv, NEW t \in Times, NEW r \in Releases, ReportConfirmation(t, r)
  PROVE  [BayNext]_bayVars /\ MissionInv'
  <1> DEFINE s == context.slot
             record == [bay[s] EXCEPT !.seen = TRUE]
  <1>1. /\ phase \in {"DEPLOYING", "VERIFYING_RELEASE"} /\ clock' \in Times
        /\ UNCHANGED registry /\ ReportIndependentConfirmation(r, s)
    BY CallTime DEF ReportConfirmation
  <1>2. /\ context \in Contexts /\ s \in Slots /\ bay \in [Slots -> BayRecords]
        /\ phase = "DEPLOYING" => bay[s].state = "RELEASE_REQUESTED"
        /\ phase = "VERIFYING_RELEASE" => bay[s].state = "RELEASED"
        /\ \A z \in Slots : z # s => bay[z].state \notin ActiveStates
    BY <1>1, ActingOnBay
  <1>3. BayNext
    BY <1>1, <1>2 DEF BayNext
  <1>4. BayInv'
    BY <1>3, BayStepKeepsInv DEF MissionInv
  <1>5. record \in BayRecords /\ record.state = bay[s].state
    BY <1>2 DEF BayRecords
  <1>6. CASE Miscorrelated(r, s)
    <2>1. ToFault /\ UNCHANGED submitted
      BY <1>1, <1>6 DEF ReportConfirmation, ReportIndependentConfirmation, EnterFault
    <2> QED BY <1>1, <1>3, <2>1, PayloadFaultStep
  <1>7. CASE ~Miscorrelated(r, s) /\ phase = "DEPLOYING"
    <2>1. /\ UNCHANGED <<phase, context>> /\ bay' = [bay EXCEPT ![s] = Confirmed(record)]
          /\ UNCHANGED <<faulted, submitted>>
      BY <1>1, <1>7 DEF ReportConfirmation, ReportIndependentConfirmation
    <2> HIDE DEF record
    <2>2. Confirmed(record) = record
      BY <1>2, <1>5, <1>7 DEF Confirmed
    <2>3. bay'[s].state = "RELEASE_REQUESTED" /\ \A z \in Slots : z # s => bay'[z] = bay[z]
      BY <1>2, <1>5, <1>7, <2>1, <2>2
    <2>4. MissionTypeOK'
      BY <1>1, <1>4, <2>1 DEF MissionInv, MissionTypeOK, BayInv
    <2>5. PhaseMatchesBays'
      <3>1. In(ActiveStates)' = {s}
        BY <1>2, <2>3 DEF In, ActiveStates
      <3>2. OnlyActive(context.slot, "RELEASE_REQUESTED")'
        BY <2>1, <2>3, <3>1 DEF OnlyActive
      <3> QED BY <1>7, <2>1, <3>2 DEF PhaseMatchesBays
    <2>6. BindingsAgree' /\ EveryReleaseWasGranted'
      BY <1>1, <1>7, <2>1 DEF MissionInv, BindingsAgree, EveryReleaseWasGranted
    <2> QED BY <1>3, <1>4, <2>4, <2>5, <2>6 DEF MissionInv
  <1>8. CASE ~Miscorrelated(r, s) /\ phase = "VERIFYING_RELEASE"
    <2>1. /\ AfterReport /\ bay' = [bay EXCEPT ![s] = Confirmed(record)]
          /\ UNCHANGED <<faulted, submitted>>
      BY <1>1, <1>8 DEF ReportConfirmation, ReportIndependentConfirmation
    <2> HIDE DEF record
    <2>2. Confirmed(record) \in BayRecords
          /\ Confirmed(record).state \in {"RELEASED", "RELEASE_CONFIRMED"}
      BY <1>2, <1>5, <1>8 DEF Confirmed, BayRecords, PayloadStates
    <2> QED BY <1>1, <1>3, <1>4, <2>1, <2>2, AfterReportKeepsInv
  <1> QED BY <1>1, <1>6, <1>7, <1>8

\* A reported failure and a timeout fault payload and mission together.
LEMMA FailureStep ==
  ASSUME MissionInv, NEW t \in Times, NEW r \in Releases, NEW uncertain \in BOOLEAN,
         ReportSimulatedFailure(t, r, uncertain)
  PROVE  [BayNext]_bayVars /\ MissionInv'
  <1>1. /\ phase \in {"DEPLOYING", "VERIFYING_RELEASE"} /\ clock' \in Times
        /\ UNCHANGED registry /\ FailRelease(r, context.slot, uncertain) /\ ToFault
    BY CallTime DEF ReportSimulatedFailure
  <1>2. context.slot \in Slots
    BY <1>1, ActingOnBay
  <1>3. BayNext /\ UNCHANGED submitted
    BY <1>1, <1>2 DEF BayNext, FailRelease, EnterFault
  <1> QED BY <1>1, <1>3, PayloadFaultStep

LEMMA TickStep ==
  ASSUME MissionInv, NEW t \in Times, Tick(t)
  PROVE  [BayNext]_bayVars /\ MissionInv'
  <1>1. At(t) /\ clock' \in Times
    BY CallTime DEF Tick
  <1>2. CASE HasExpired(t) /\ ExpireContext(t)
    BY <1>1, <1>2, ExpireContextStep
  <1>3. CASE CheckTimeouts(t) /\ ToFault /\ UNCHANGED registry
    <2>1. BayNext /\ UNCHANGED submitted
      BY <1>3 DEF BayNext, CheckTimeouts, EnterFault
    <2> QED BY <1>1, <1>3, <2>1, PayloadFaultStep
  <1>4. CASE UNCHANGED <<phase, context, registry, bayVars>>
    BY <1>1, <1>4, NoChangeKeepsInv
  <1> QED BY <1>2, <1>3, <1>4 DEF Tick

\* Launch and arrival move the phase only.
LEMMA TravelStep ==
  ASSUME MissionInv, NEW t \in Times, Launch(t) \/ ArriveTaskArea(t)
  PROVE  [BayNext]_bayVars /\ MissionInv'
  <1>1. /\ phase \in {"STANDBY", "NAVIGATING"} /\ phase' \in {"NAVIGATING", "SEARCHING"}
        /\ clock' \in Times /\ UNCHANGED <<context, registry, bayVars>>
    BY CallTime DEF Launch, ArriveTaskArea
  <1>2. BayInv'
    BY <1>1, BayStepKeepsInv DEF MissionInv
  <1>3. MissionTypeOK'
    BY <1>1, <1>2 DEF MissionInv, MissionTypeOK, BayInv, Phases
  <1>4. PhaseMatchesBays'
    BY <1>1 DEF MissionInv, PhaseMatchesBays, In, bayVars
  <1>5. BindingsAgree' /\ EveryReleaseWasGranted'
    BY <1>1 DEF MissionInv, BindingsAgree, EveryReleaseWasGranted, bayVars
  <1> QED BY <1>1, <1>2, <1>3, <1>4, <1>5 DEF MissionInv
------------------------------------------------------------------------------
\* Every call of the mission preserves the invariant, and is a call of the
\* payload controller or leaves it alone.
LEMMA MissionStep ==
  ASSUME MissionInv, [Next]_vars
  PROVE  [BayNext]_bayVars /\ MissionInv'
  <1>1. CASE UNCHANGED vars
    <2>1. UNCHANGED <<phase, context, registry, bayVars>> /\ clock' \in Times
      BY <1>1 DEF vars, MissionInv, MissionTypeOK
    <2> QED BY <2>1, NoChangeKeepsInv
  <1>2. ASSUME NEW t \in Times, Launch(t) \/ ArriveTaskArea(t)
        PROVE  [BayNext]_bayVars /\ MissionInv'
    BY <1>2, TravelStep
  <1>3. ASSUME NEW t \in Times, Tick(t)
        PROVE  [BayNext]_bayVars /\ MissionInv'
    BY <1>3, TickStep
  <1>4. ASSUME NEW t \in Times, NEW inventory \in BOOLEAN, NEW equivalent \in BOOLEAN,
               NEW candidate \in BOOLEAN, NEW scene \in Scenes,
               ProcessObservation(t, inventory, equivalent, candidate, scene)
        PROVE  [BayNext]_bayVars /\ MissionInv'
    BY <1>4, ObservationStep
  <1>5. ASSUME NEW t \in Times, NEW confirmed \in BOOLEAN, NEW inventory \in BOOLEAN,
               NEW nonce \in BOOLEAN, NEW matches \in BOOLEAN,
               ApproveAuthorization(t, confirmed, inventory, nonce, matches)
        PROVE  [BayNext]_bayVars /\ MissionInv'
    BY <1>5, ApproveStep
  <1>6. ASSUME NEW t \in Times, NEW nonce \in BOOLEAN, DenyAuthorization(t, nonce)
        PROVE  [BayNext]_bayVars /\ MissionInv'
    BY <1>6, DenyStep
  <1>7. ASSUME NEW t \in Times, NEW inventory \in BOOLEAN, NEW matches \in BOOLEAN,
               RequestDeployment(t, inventory, matches)
        PROVE  [BayNext]_bayVars /\ MissionInv'
    BY <1>7, DeploymentStep
  <1>8. ASSUME NEW t \in Times, NEW r \in Releases, ReportSimulatedExecution(t, r)
        PROVE  [BayNext]_bayVars /\ MissionInv'
    BY <1>8, ExecutionStep
  <1>9. ASSUME NEW t \in Times, NEW r \in Releases, ReportConfirmation(t, r)
        PROVE  [BayNext]_bayVars /\ MissionInv'
    BY <1>9, ConfirmationStep
  <1>10. ASSUME NEW t \in Times, NEW r \in Releases, NEW uncertain \in BOOLEAN,
                ReportSimulatedFailure(t, r, uncertain)
         PROVE  [BayNext]_bayVars /\ MissionInv'
    BY <1>10, FailureStep
  <1> QED
    BY <1>1, <1>2, <1>3, <1>4, <1>5, <1>6, <1>7, <1>8, <1>9, <1>10 DEF Next

\* The invariant holds before the launch.
LEMMA MissionInitInv == Init => MissionInv
  <1> SUFFICES ASSUME Init PROVE MissionInv
    OBVIOUS
  <1>1. BayInv
    BY BayInitInv DEF Init
  <1>2. MissionTypeOK
    BY <1>1, BayAssumption DEF Init, MissionTypeOK, BayInv, Phases, Times
  <1>3. PhaseMatchesBays
    <2>1. \A s \in Slots : bay[s].state = "LOCKED"
      BY DEF Init, BayInit, LockedBay
    <2>2. In(ActiveStates) = {} /\ In({"LOCKED"}) # {}
      BY <2>1, MissionAssumption DEF In, ActiveStates
    <2> QED BY <2>2 DEF Init, BayInit, PhaseMatchesBays
  <1>4. BindingsAgree /\ EveryReleaseWasGranted
    BY DEF Init, BayInit, BindingsAgree, EveryReleaseWasGranted
  <1> QED BY <1>1, <1>2, <1>3, <1>4 DEF MissionInv

\* The invariant of the whole mission, for every order and timing of calls.
THEOREM MissionInvariant == Spec => []MissionInv
  <1>1. MissionInv /\ [Next]_vars => MissionInv'
    BY MissionStep
  <1> QED BY MissionInitInv, <1>1, PTL DEF Spec

\* The mission drives its payload through the payload's own calls only, with
\* well-formed grants: what PayloadBay promises holds within a mission.
THEOREM MissionIsPayload == Spec => BaySpec
  <1>1. Init => BayInit
    BY DEF Init
  <1>2. MissionInv /\ [Next]_vars => [BayNext]_bayVars
    BY MissionStep
  <1> QED BY <1>1, <1>2, MissionInvariant, PTL DEF Spec, BaySpec

\* Phase, registry, context and bays keep their types, and a context is there
\* while an authorization or a release is under way.
THEOREM MissionTypes == Spec => []MissionTypeOK
  <1>1. MissionInv => MissionTypeOK
    BY DEF MissionInv
  <1> QED BY MissionInvariant, <1>1, PTL

\* The phase says which bay is armed or in flight, and no other bay is.
THEOREM PhaseAndBays == Spec => []PhaseMatchesBays
  <1>1. MissionInv => PhaseMatchesBays
    BY DEF MissionInv
  <1> QED BY MissionInvariant, <1>1, PTL

\* Context, registry and armed bay never disagree about what was authorized.
THEOREM Bindings == Spec => []BindingsAgree
  <1>1. MissionInv => BindingsAgree
    BY DEF MissionInv
  <1> QED BY MissionInvariant, <1>1, PTL

\* Each release request at the port goes back to a consumed, unexpired grant.
THEOREM GrantedReleases == Spec => []EveryReleaseWasGranted
  <1>1. MissionInv => EveryReleaseWasGranted
    BY DEF MissionInv
  <1> QED BY MissionInvariant, <1>1, PTL

\* Within a mission, too, releases run one at a time, each bay once, and none
\* after a fault.
THEOREM MissionTransactions == Spec => ImplementsTransaction
  BY MissionIsPayload, TransactionRefinement, PTL
------------------------------------------------------------------------------
(***************************************************************************)
(* What the liveness of the runs rests on: no call lengthens the life of a *)
(* challenge or decides it again, and a tick leaves nothing overdue.       *)
(***************************************************************************)

\* No challenge stays approved: it is consumed in the same call; and it lives
\* for authorization_ttl_seconds.
ShortLived(reg) ==
  \A c \in Challenges : reg[c] # NoChallenge =>
    reg[c].status # "APPROVED" /\ reg[c].expiresAt = reg[c].createdAt + Ttl

\* reg is a registry in which every issued challenge is still bound to its bay
\* and its life, and decided the same way if it was decided.
OneWay(reg) ==
  /\ reg \in [Challenges -> ChallengeRecords \union {NoChallenge}]
  /\ \A c \in Challenges : registry[c] # NoChallenge =>
       /\ reg[c] # NoChallenge
       /\ reg[c].slot = registry[c].slot
       /\ reg[c].createdAt = registry[c].createdAt
       /\ reg[c].expiresAt = registry[c].expiresAt
       /\ registry[c].status # "PENDING" => reg[c].status = registry[c].status

LEMMA SameIsOneWay == MissionTypeOK => OneWay(registry)
  BY DEF MissionTypeOK, OneWay

\* A new record in place of one challenge's.
LEMMA ReplacedIsOneWay ==
  ASSUME MissionTypeOK, ShortLived(registry), NEW c \in Challenges, registry[c] # NoChallenge,
         NEW record \in ChallengeRecords,
         record.slot = registry[c].slot, record.createdAt = registry[c].createdAt,
         record.expiresAt = registry[c].expiresAt, record.status # "APPROVED",
         registry[c].status # "PENDING" => record.status = registry[c].status
  PROVE  OneWay([registry EXCEPT ![c] = record]) /\ ShortLived([registry EXCEPT ![c] = record])
  <1> DEFINE reg == [registry EXCEPT ![c] = record]
  <1>1. record # NoChallenge
    BY MissionAssumption
  <1>2. /\ reg \in [Challenges -> ChallengeRecords \union {NoChallenge}]
        /\ \A d \in Challenges : reg[d] = IF d = c THEN record ELSE registry[d]
    BY DEF MissionTypeOK
  <1> HIDE DEF reg
  <1>3. OneWay(reg)
    BY <1>1, <1>2 DEF OneWay
  <1>4. ShortLived(reg)
    BY <1>2 DEF ShortLived
  <1> QED BY <1>3, <1>4 DEF reg

\* What lapses was pending: no issued challenge is found approved.
LEMMA LapsedRecord ==
  ASSUME MissionTypeOK, ShortLived(registry), NEW t \in Times, NEW c \in Challenges,
         registry[c] # NoChallenge
  PROVE  LET record == Lapsed(registry[c], t)
         IN  /\ record \in ChallengeRecords
             /\ record.slot = registry[c].slot /\ record.createdAt = registry[c].createdAt
             /\ record.expiresAt = registry[c].expiresAt /\ record.status # "APPROVED"
             /\ registry[c].status # "PENDING" => record.status = registry[c].status
  <1>1. registry[c] \in ChallengeRecords /\ registry[c].status # "APPROVED"
    BY IssuedRecord DEF ShortLived
  <1> QED BY <1>1 DEF Lapsed, ChallengeRecords, Statuses

LEMMA ExpireIsOneWay ==
  ASSUME MissionTypeOK, ShortLived(registry), NEW t \in Times
  PROVE  OneWay(Expire(registry, t)) /\ ShortLived(Expire(registry, t))
  <1> DEFINE reg == Expire(registry, t)
  <1>1. \A c \in Challenges :
          reg[c] = IF registry[c] = NoChallenge THEN NoChallenge ELSE Lapsed(registry[c], t)
    BY DEF Expire
  <1>2. reg \in [Challenges -> ChallengeRecords \union {NoChallenge}]
    BY LapsedRecord DEF Expire
  <1> HIDE DEF reg
  <1>3. OneWay(reg)
    <2> SUFFICES ASSUME NEW c \in Challenges, registry[c] # NoChallenge
                 PROVE  /\ reg[c] # NoChallenge
                        /\ reg[c].slot = registry[c].slot
                        /\ reg[c].createdAt = registry[c].createdAt
                        /\ reg[c].expiresAt = registry[c].expiresAt
                        /\ registry[c].status # "PENDING"
                             => reg[c].status = registry[c].status
      BY <1>2 DEF OneWay
    <2>1. reg[c] = Lapsed(registry[c], t)
      BY <1>1
    <2> QED BY <2>1, LapsedRecord, MissionAssumption
  <1>4. ShortLived(reg)
    <2> SUFFICES ASSUME NEW c \in Challenges, reg[c] # NoChallenge
                 PROVE  reg[c].status # "APPROVED" /\ reg[c].expiresAt = reg[c].createdAt + Ttl
      BY DEF ShortLived
    <2>1. registry[c] # NoChallenge /\ reg[c] = Lapsed(registry[c], t)
      BY <1>1
    <2>2. registry[c].expiresAt = registry[c].createdAt + Ttl
      BY <2>1 DEF ShortLived
    <2> QED BY <2>1, <2>2, LapsedRecord
  <1> QED BY <1>3, <1>4 DEF reg

LEMMA DenyIsOneWay ==
  ASSUME MissionTypeOK, ShortLived(registry), NEW t \in Times, NEW c \in Challenges,
         registry[c] # NoChallenge
  PROVE  OneWay(Decide(registry, c, "DENIED", t)) /\ ShortLived(Decide(registry, c, "DENIED", t))
  <1>1. registry[c] \in ChallengeRecords
    BY IssuedRecord
  <1>2. CASE CanDecide(registry, c, t)
    <2> DEFINE record == [registry[c] EXCEPT !.status = "DENIED"]
    <2>1. /\ record \in ChallengeRecords /\ record.status = "DENIED"
          /\ record.slot = registry[c].slot /\ record.createdAt = registry[c].createdAt
          /\ record.expiresAt = registry[c].expiresAt
      BY <1>1 DEF ChallengeRecords, Statuses
    <2>2. registry[c].status = "PENDING"
      BY <1>1, <1>2 DEF CanDecide, Lapsed, ChallengeRecords
    <2>3. Decide(registry, c, "DENIED", t) = [registry EXCEPT ![c] = record]
      BY <1>2 DEF Decide
    <2> HIDE DEF record
    <2> QED BY <2>1, <2>2, <2>3, ReplacedIsOneWay
  <1>3. CASE ~CanDecide(registry, c, t) /\ t >= registry[c].createdAt
    <2>1. Decide(registry, c, "DENIED", t) = [registry EXCEPT ![c] = Lapsed(registry[c], t)]
      BY <1>3 DEF Decide
    <2> QED BY <2>1, LapsedRecord, ReplacedIsOneWay
  <1>4. CASE ~CanDecide(registry, c, t) /\ ~(t >= registry[c].createdAt)
    <2>1. Decide(registry, c, "DENIED", t) = registry
      BY <1>4 DEF Decide
    <2> QED BY <2>1, SameIsOneWay
  <1> QED BY <1>2, <1>3, <1>4

LEMMA RebindIsOneWay ==
  ASSUME MissionTypeOK, ShortLived(registry), NEW c \in Challenges, registry[c] # NoChallenge,
         NEW scene \in Scenes, NEW t \in Times
  PROVE  OneWay(Rebind(registry, c, scene, t)) /\ ShortLived(Rebind(registry, c, scene, t))
  <1> DEFINE record == [registry[c] EXCEPT !.scene = scene]
  <1>1. registry[c] \in ChallengeRecords /\ registry[c].status # "APPROVED"
    BY IssuedRecord DEF ShortLived
  <1>2. /\ record \in ChallengeRecords /\ record.status = registry[c].status
        /\ record.slot = registry[c].slot
        /\ record.createdAt = registry[c].createdAt /\ record.expiresAt = registry[c].expiresAt
    BY <1>1 DEF ChallengeRecords
  <1>3. Rebind(registry, c, scene, t) = [registry EXCEPT ![c] = record]
    BY DEF Rebind
  <1> HIDE DEF record
  <1> QED BY <1>1, <1>2, <1>3, ReplacedIsOneWay

LEMMA CreateIsOneWay ==
  ASSUME MissionTypeOK, NEW reg, OneWay(reg), ShortLived(reg), NEW c \in Fresh(reg),
         NEW s \in Slots, NEW scene \in Scenes, NEW t \in Times,
         t + Ttl + Timeout <= MaxTime + 1
  PROVE  OneWay(Create(reg, c, s, scene, t)) /\ ShortLived(Create(reg, c, s, scene, t))
  <1> DEFINE record == [status |-> "PENDING", slot |-> s, scene |-> scene,
                        createdAt |-> t, expiresAt |-> t + Ttl]
             new == Create(reg, c, s, scene, t)
  <1>1. t + Ttl \in Times
    BY BayAssumption, AuthorizationAssumption DEF Times
  <1>2. /\ record \in ChallengeRecords /\ record.status = "PENDING"
        /\ record.expiresAt = record.createdAt + Ttl
    BY <1>1 DEF ChallengeRecords, Statuses
  <1>3. c \in Challenges /\ reg[c] = NoChallenge
    BY DEF Fresh
  <1>4. new = [reg EXCEPT ![c] = record]
    BY DEF Create
  <1> HIDE DEF record, new
  <1>5. /\ new \in [Challenges -> ChallengeRecords \union {NoChallenge}]
        /\ \A d \in Challenges : new[d] = IF d = c THEN record ELSE reg[d]
    BY <1>2, <1>3, <1>4 DEF OneWay
  <1>6. OneWay(new)
    BY <1>3, <1>5 DEF OneWay
  <1>7. ShortLived(new)
    BY <1>2, <1>5 DEF ShortLived
  <1> QED BY <1>6, <1>7 DEF new

\* The challenge of the active context, approved and consumed in one call.
LEMMA ConsumeIsOneWay ==
  ASSUME MissionInv, ShortLived(registry), NEW t \in Times, phase = "AWAITING_AUTHORIZATION",
         ~HasExpired(t), CanDecide(registry, context.challenge, t)
  PROVE  OneWay(ApprovedAndConsumed(t)) /\ ShortLived(ApprovedAndConsumed(t))
  <1> DEFINE c == context.challenge
             record == [registry[c] EXCEPT !.status = "CONSUMED"]
  <1>1. /\ c \in Challenges /\ registry[c] # NoChallenge /\ registry[c] \in ChallengeRecords
        /\ registry[c].status = "PENDING" /\ MissionTypeOK
    BY ContextInOrder DEF MissionInv, BindingsAgree
  <1>2. ApprovedAndConsumed(t) = [registry EXCEPT ![c] = record]
    BY ApprovedIsConsumed
  <1>3. /\ record \in ChallengeRecords /\ record.status = "CONSUMED"
        /\ record.slot = registry[c].slot
        /\ record.createdAt = registry[c].createdAt /\ record.expiresAt = registry[c].expiresAt
    BY <1>1 DEF ChallengeRecords, Statuses
  <1> HIDE DEF record
  <1> QED BY <1>1, <1>2, <1>3, ReplacedIsOneWay

\* Selecting a target after whatever the frame has revoked.
LEMMA SelectIsOneWay ==
  ASSUME MissionTypeOK, NEW reg, OneWay(reg), ShortLived(reg), NEW b, Idle(b),
         NEW eligible \in BOOLEAN, NEW scene \in Scenes, NEW t \in Times,
         SelectTarget(reg, b, eligible, scene, t)
  PROVE  OneWay(registry') /\ ShortLived(registry')
  <1>1. CASE ~eligible
    BY <1>1 DEF SelectTarget, BackToSearch
  <1>2. CASE eligible
    <2> DEFINE s == CHOOSE free \in Slots : b[free].state = "LOCKED"
    <2>1. PICK c \in Fresh(reg) : /\ t + Ttl + Timeout <= MaxTime + 1
                                  /\ registry' = Create(reg, c, s, scene, t)
      BY <1>2 DEF SelectTarget
    <2>2. s \in Slots
      BY DEF Idle
    <2> HIDE DEF s
    <2> QED BY <2>1, <2>2, CreateIsOneWay
  <1> QED BY <1>1, <1>2

\* A refresh changes the binding's scene only.
LEMMA RefreshIsOneWay ==
  ASSUME MissionInv, ShortLived(registry), NEW t \in Times, NEW scene \in Scenes,
         phase \in {"AWAITING_AUTHORIZATION", "DEPLOYMENT_READY"}, RefreshContext(scene, t)
  PROVE  OneWay(registry') /\ ShortLived(registry')
  <1>1. registry' = registry \/ registry' = Rebind(registry, context.challenge, scene, t)
    BY DEF RefreshContext
  <1>2. context.challenge \in Challenges /\ registry[context.challenge] # NoChallenge
    BY ContextInOrder
  <1> QED BY <1>1, <1>2, SameIsOneWay, RebindIsOneWay DEF MissionInv

\* A frame.
LEMMA ObservationIsOneWay ==
  ASSUME MissionInv, ShortLived(registry), NEW t \in Times, NEW inventory \in BOOLEAN,
         NEW equivalent \in BOOLEAN, NEW candidate \in BOOLEAN, NEW scene \in Scenes,
         ProcessObservation(t, inventory, equivalent, candidate, scene)
  PROVE  OneWay(registry') /\ ShortLived(registry')
  <1> DEFINE eligible == candidate /\ inventory
  <1>1. /\ phase \in {"SEARCHING", "AWAITING_AUTHORIZATION", "DEPLOYMENT_READY"}
        /\ eligible \in BOOLEAN /\ MissionTypeOK
    BY DEF ProcessObservation, MissionInv
  <1>2. CASE phase = "SEARCHING" /\ SelectTarget(registry, bay, eligible, scene, t)
    <2> HIDE DEF eligible
    <2> QED BY <1>1, <1>2, WaitingIsIdle, SameIsOneWay, SelectIsOneWay
  <1>3. CASE HasExpired(t) /\ SelectTarget(Expire(registry, t), Unarmed, eligible, scene, t)
    <2>1. Idle(Unarmed)
      BY <1>3, UnarmedIsIdle DEF HasExpired
    <2> HIDE DEF eligible
    <2> QED BY <1>1, <1>3, <2>1, ExpireIsOneWay, SelectIsOneWay
  <1>4. CASE /\ phase # "SEARCHING"
             /\ SelectTarget(AfterRevocation(t)[1], AfterRevocation(t)[2], eligible, scene, t)
    <2>1. CASE phase = "AWAITING_AUTHORIZATION"
      <3> DEFINE reg == Decide(registry, context.challenge, "DENIED", t)
      <3>1. AfterRevocation(t) = <<reg, bay>>
        BY <2>1 DEF AfterRevocation
      <3>2. OneWay(reg) /\ ShortLived(reg) /\ Idle(bay)
        BY <1>1, <2>1, ContextInOrder, DenyIsOneWay, WaitingIsIdle
      <3> HIDE DEF eligible, reg
      <3>3. SelectTarget(reg, bay, eligible, scene, t)
        BY <1>4, <3>1
      <3> QED BY <1>1, <3>2, <3>3, SelectIsOneWay
    <2>2. CASE phase = "DEPLOYMENT_READY"
      <3>1. AfterRevocation(t) = <<registry, Unarmed>>
        BY <2>2 DEF AfterRevocation
      <3>2. Idle(Unarmed)
        BY <2>2, UnarmedIsIdle
      <3> HIDE DEF eligible
      <3>3. SelectTarget(registry, Unarmed, eligible, scene, t)
        BY <1>4, <3>1
      <3> QED BY <1>1, <3>2, <3>3, SameIsOneWay, SelectIsOneWay
    <2> QED BY <1>1, <1>4, <2>1, <2>2
  <1>5. CASE phase # "SEARCHING" /\ RefreshContext(scene, t)
    BY <1>1, <1>5, RefreshIsOneWay
  <1> QED BY <1>2, <1>3, <1>4, <1>5 DEF ProcessObservation

\* What a call other than a frame leaves of the registry.
LEMMA OtherCalls ==
  ASSUME Next,
         ~ \E t \in Times, inventory, equivalent, candidate \in BOOLEAN, scene \in Scenes :
             ProcessObservation(t, inventory, equivalent, candidate, scene)
  PROVE  \/ registry' = registry
         \/ \E t \in Times : registry' = Expire(registry, t)
         \/ /\ phase = "AWAITING_AUTHORIZATION"
            /\ \E t \in Times : registry' = Decide(registry, context.challenge, "DENIED", t)
         \/ /\ phase = "AWAITING_AUTHORIZATION"
            /\ \E t \in Times : /\ ~HasExpired(t) /\ CanDecide(registry, context.challenge, t)
                                /\ registry' = ApprovedAndConsumed(t)
  <1>1. ASSUME NEW t \in Times, Launch(t) \/ ArriveTaskArea(t) \/ Tick(t)
        PROVE  registry' = registry \/ registry' = Expire(registry, t)
    BY <1>1 DEF Launch, ArriveTaskArea, Tick, ExpireContext, BackToSearch
  <1>2. ASSUME NEW t \in Times, NEW confirmed \in BOOLEAN, NEW inventory \in BOOLEAN,
               NEW nonce \in BOOLEAN, NEW matches \in BOOLEAN,
               ApproveAuthorization(t, confirmed, inventory, nonce, matches)
        PROVE  /\ phase = "AWAITING_AUTHORIZATION"
               /\ \/ registry' = registry
                  \/ registry' = Expire(registry, t)
                  \/ registry' = Decide(registry, context.challenge, "DENIED", t)
                  \/ /\ ~HasExpired(t) /\ CanDecide(registry, context.challenge, t)
                     /\ registry' = ApprovedAndConsumed(t)
    BY <1>2 DEF ApproveAuthorization, ExpireContext, BackToSearch
  <1>3. ASSUME NEW t \in Times, NEW nonce \in BOOLEAN, DenyAuthorization(t, nonce)
        PROVE  /\ phase = "AWAITING_AUTHORIZATION"
               /\ \/ registry' = registry
                  \/ registry' = Expire(registry, t)
                  \/ registry' = Decide(registry, context.challenge, "DENIED", t)
    BY <1>3 DEF DenyAuthorization, ExpireContext, BackToSearch
  <1>4. ASSUME NEW t \in Times, NEW inventory \in BOOLEAN, NEW matches \in BOOLEAN,
               RequestDeployment(t, inventory, matches)
        PROVE  registry' = registry \/ registry' = Expire(registry, t)
    BY <1>4 DEF RequestDeployment, ExpireContext, BackToSearch
  <1>5. ASSUME NEW t \in Times, NEW r \in Releases,
               \/ ReportSimulatedExecution(t, r)
               \/ ReportConfirmation(t, r)
               \/ \E uncertain \in BOOLEAN : ReportSimulatedFailure(t, r, uncertain)
        PROVE  registry' = registry
    BY <1>5 DEF ReportSimulatedExecution, ReportConfirmation, ReportSimulatedFailure
  <1> QED BY <1>1, <1>2, <1>3, <1>4, <1>5 DEF Next

LEMMA RegistryStep ==
  ASSUME MissionInv, ShortLived(registry), [Next]_vars
  PROVE  OneWay(registry') /\ ShortLived(registry')
  <1>1. MissionTypeOK
    BY DEF MissionInv
  <1>2. CASE UNCHANGED vars
    BY <1>1, <1>2, SameIsOneWay DEF vars
  <1>3. CASE \E t \in Times, inventory, equivalent, candidate \in BOOLEAN, scene \in Scenes :
               ProcessObservation(t, inventory, equivalent, candidate, scene)
    BY <1>3, ObservationIsOneWay
  <1>4. CASE registry' = registry
    BY <1>1, <1>4, SameIsOneWay
  <1>5. ASSUME NEW t \in Times, registry' = Expire(registry, t)
        PROVE  OneWay(registry') /\ ShortLived(registry')
    BY <1>1, <1>5, ExpireIsOneWay
  <1>6. ASSUME NEW t \in Times, phase = "AWAITING_AUTHORIZATION",
               registry' = Decide(registry, context.challenge, "DENIED", t)
        PROVE  OneWay(registry') /\ ShortLived(registry')
    BY <1>1, <1>6, ContextInOrder, DenyIsOneWay
  <1>7. ASSUME NEW t \in Times, phase = "AWAITING_AUTHORIZATION", ~HasExpired(t),
               CanDecide(registry, context.challenge, t), registry' = ApprovedAndConsumed(t)
        PROVE  OneWay(registry') /\ ShortLived(registry')
    BY <1>7, ConsumeIsOneWay
  <1> QED BY <1>2, <1>3, <1>4, <1>5, <1>6, <1>7, OtherCalls

\* No call extends, revives or rebinds to another bay a challenge that was
\* issued, and none decides it twice.
ChallengesAreOneWay ==
  [][\A c \in Challenges : registry[c] # NoChallenge =>
       /\ registry'[c] # NoChallenge
       /\ registry'[c].slot = registry[c].slot
       /\ registry'[c].createdAt = registry[c].createdAt
       /\ registry'[c].expiresAt = registry[c].expiresAt
       /\ registry[c].status # "PENDING" => registry'[c].status = registry[c].status]_vars

\* However many equivalent frames refresh it, a challenge keeps the expiry it
\* was created with, and its one decision (docs/architecture.md: refreshes never
\* extend the original expiry).
THEOREM ChallengeLives == Spec => ChallengesAreOneWay
  <1>1. Init => ShortLived(registry)
    BY DEF Init, ShortLived
  <1>2. MissionInv /\ ShortLived(registry) /\ [Next]_vars => OneWay(registry') /\ ShortLived(registry')
    BY RegistryStep
  <1>3. ShortLived(registry)' = ShortLived(registry')
    BY DEF ShortLived
  <1>4. OneWay(registry') =>
          \A c \in Challenges : registry[c] # NoChallenge =>
            /\ registry'[c] # NoChallenge
            /\ registry'[c].slot = registry[c].slot
            /\ registry'[c].createdAt = registry[c].createdAt
            /\ registry'[c].expiresAt = registry[c].expiresAt
            /\ registry[c].status # "PENDING" => registry'[c].status = registry[c].status
    BY DEF OneWay
  <1>5. MissionInv /\ ShortLived(registry) /\ [Next]_vars => ShortLived(registry)'
    BY <1>2, <1>3
  <1>6. MissionInv /\ ShortLived(registry) /\ [Next]_vars =>
          \A c \in Challenges : registry[c] # NoChallenge =>
            /\ registry'[c] # NoChallenge
            /\ registry'[c].slot = registry[c].slot
            /\ registry'[c].createdAt = registry[c].createdAt
            /\ registry'[c].expiresAt = registry[c].expiresAt
            /\ registry[c].status # "PENDING" => registry'[c].status = registry[c].status
    BY <1>2, <1>4
  <1> QED BY <1>1, <1>5, <1>6, MissionInvariant, PTL DEF Spec, ChallengesAreOneWay
------------------------------------------------------------------------------
\* After a tick nothing it was due for is left, though a tick does one thing at
\* a time: it expires an authorization or times a release out, and the other
\* cannot be due at once.
TickLeavesNothingDue == [][\A t \in Times : Tick(t) => ~HasExpired(t)' /\ ~TimedOut(t)']_vars

\* Without an active bay no release is overdue.
LEMMA IdleIsNotDue ==
  ASSUME NEW t \in Times, \A s \in Slots : bay'[s].state \notin InFlightStates
  PROVE  ~TimedOut(t)'
  BY DEF TimedOut, In

\* Safety half of ReleaseEnds and AuthorizationEnds: each tick at or after a
\* deadline settles what the deadline is about.
THEOREM TicksSettle == Spec => TickLeavesNothingDue
  <1>1. ASSUME MissionInv, NEW t \in Times, Tick(t)
        PROVE  ~HasExpired(t)' /\ ~TimedOut(t)'
    <2>1. CASE HasExpired(t) /\ ExpireContext(t)
      <3>1. phase' = "SEARCHING" /\ bay' = Unarmed /\ Idle(Unarmed)
        BY <1>1, <2>1, UnarmedIsIdle DEF HasExpired, ExpireContext, BackToSearch
      <3>2. \A s \in Slots : bay'[s].state \notin InFlightStates
        BY <3>1 DEF Idle, ActiveStates, InFlightStates
      <3> QED BY <3>1, <3>2, IdleIsNotDue DEF HasExpired
    <2>2. CASE CheckTimeouts(t) /\ ToFault
      <3>1. BayInv' /\ faulted'
        <4>1. BayNext
          BY <2>2 DEF BayNext
        <4> QED BY <1>1, <2>2, <4>1, BayStepKeepsInv DEF MissionInv, CheckTimeouts, EnterFault
      <3>2. \A s \in Slots : bay'[s].state \notin InFlightStates
        BY <3>1 DEF BayInv, FaultIsFinal, ActiveStates, InFlightStates
      <3> QED BY <2>2, <3>2, IdleIsNotDue DEF ToFault, HasExpired
    <2>3. CASE ~HasExpired(t) /\ ~TimedOut(t) /\ UNCHANGED <<phase, context, registry, bayVars>>
      BY <2>3 DEF HasExpired, TimedOut, In, bayVars
    <2> QED BY <1>1, <2>1, <2>2, <2>3 DEF Tick
  <1>2. MissionInv /\ [Next]_vars =>
          \A t \in Times : Tick(t) => ~HasExpired(t)' /\ ~TimedOut(t)'
    BY <1>1
  <1> QED BY <1>2, MissionInvariant, PTL DEF Spec, TickLeavesNothingDue
------------------------------------------------------------------------------
\* The grant of an armed bay is that bay's, consumed at a time the mission has
\* seen.
GrantInOrder ==
  phase = "DEPLOYMENT_READY" =>
    context.auth.slot = context.slot /\ context.auth.consumedAt <= clock

\* A faulted mission has no release in flight; at most its context's bay is
\* left armed, when the payload itself has not faulted.
FaultIsQuiet ==
  phase = "FAULT" => \A s \in Slots : bay[s].state \in ActiveStates =>
                       /\ ~faulted
                       /\ context # None /\ s = context.slot
                       /\ bay[s].state = "ARMED"

\* The clock never runs back.
LEMMA ClockAdvances ==
  ASSUME MissionInv, NEW t \in Times, At(t)
  PROVE  clock \in Times /\ clock' \in Times /\ clock <= clock' /\ t <= clock'
  BY DEF MissionInv, MissionTypeOK, At, Times

\* How the mission comes to be, or stays, ready to deploy.
LEMMA WaysToBeReady ==
  ASSUME Next, phase' = "DEPLOYMENT_READY"
  PROVE  \E t \in Times :
           /\ At(t)
           /\ \/ phase = "DEPLOYMENT_READY" /\ context' = context
              \/ /\ phase = "DEPLOYMENT_READY"
                 /\ \E scene \in Scenes :
                      context' = [context EXCEPT !.scene = scene, !.auth.scene = scene]
              \/ /\ phase = "AWAITING_AUTHORIZATION"
                 /\ context' = [context EXCEPT !.auth = Granted(t)]
  <1> DEFINE Way(t) ==
        /\ At(t)
        /\ \/ phase = "DEPLOYMENT_READY" /\ context' = context
           \/ /\ phase = "DEPLOYMENT_READY"
              /\ \E scene \in Scenes :
                   context' = [context EXCEPT !.scene = scene, !.auth.scene = scene]
           \/ /\ phase = "AWAITING_AUTHORIZATION"
              /\ context' = [context EXCEPT !.auth = Granted(t)]
  <1>1. ASSUME NEW t \in Times, Launch(t) \/ ArriveTaskArea(t) \/ Tick(t)
        PROVE  Way(t)
    BY <1>1 DEF Launch, ArriveTaskArea, Tick, ExpireContext, BackToSearch, ToFault
  <1>2. ASSUME NEW t \in Times, NEW inventory \in BOOLEAN, NEW equivalent \in BOOLEAN,
               NEW candidate \in BOOLEAN, NEW scene \in Scenes,
               ProcessObservation(t, inventory, equivalent, candidate, scene)
        PROVE  Way(t)
    BY <1>2 DEF ProcessObservation, SelectTarget, BackToSearch, RefreshContext
  <1>3. ASSUME NEW t \in Times, NEW confirmed \in BOOLEAN, NEW inventory \in BOOLEAN,
               NEW nonce \in BOOLEAN, NEW matches \in BOOLEAN,
               ApproveAuthorization(t, confirmed, inventory, nonce, matches)
        PROVE  Way(t)
    BY <1>3 DEF ApproveAuthorization, ExpireContext, BackToSearch
  <1>4. ASSUME NEW t \in Times, NEW nonce \in BOOLEAN, DenyAuthorization(t, nonce)
        PROVE  FALSE
    BY <1>4 DEF DenyAuthorization, ExpireContext, BackToSearch
  <1>5. ASSUME NEW t \in Times, NEW inventory \in BOOLEAN, NEW matches \in BOOLEAN,
               RequestDeployment(t, inventory, matches)
        PROVE  FALSE
    BY <1>5 DEF RequestDeployment, ExpireContext, BackToSearch
  <1>6. ASSUME NEW t \in Times, NEW r \in Releases,
               \/ ReportSimulatedExecution(t, r)
               \/ ReportConfirmation(t, r)
               \/ \E uncertain \in BOOLEAN : ReportSimulatedFailure(t, r, uncertain)
        PROVE  FALSE
    BY <1>6 DEF ReportSimulatedExecution, ReportConfirmation, ReportSimulatedFailure,
                AfterReport, ToFault
  <1>7. \E t \in Times : Way(t)
    <2> HIDE DEF Way
    <2> QED BY <1>1, <1>2, <1>3, <1>4, <1>5, <1>6 DEF Next
  <1> QED BY <1>7

LEMMA GrantStep ==
  ASSUME MissionInv, GrantInOrder, [Next]_vars
  PROVE  GrantInOrder'
  <1>1. CASE UNCHANGED vars
    BY <1>1 DEF vars, GrantInOrder
  <1>2. CASE Next
    <2> SUFFICES ASSUME phase' = "DEPLOYMENT_READY"
                 PROVE  context'.auth.slot = context'.slot /\ context'.auth.consumedAt <= clock'
      BY DEF GrantInOrder
    <2>1. PICK t \in Times :
            /\ At(t)
            /\ \/ phase = "DEPLOYMENT_READY" /\ context' = context
               \/ /\ phase = "DEPLOYMENT_READY"
                  /\ \E scene \in Scenes :
                       context' = [context EXCEPT !.scene = scene, !.auth.scene = scene]
               \/ /\ phase = "AWAITING_AUTHORIZATION"
                  /\ context' = [context EXCEPT !.auth = Granted(t)]
      BY <1>2, WaysToBeReady
    <2>2. clock \in Times /\ clock' \in Times /\ clock <= clock' /\ t <= clock'
      BY <2>1, ClockAdvances
    <2>3. phase \in {"AWAITING_AUTHORIZATION", "DEPLOYMENT_READY"} /\ context \in Contexts
      BY <2>1, ContextInOrder
    <2>4. CASE phase = "DEPLOYMENT_READY" /\ context' = context
      <3>1. context.auth.consumedAt \in Times
        BY <2>4 DEF MissionInv, BindingsAgree, Authorizations
      <3> QED BY <2>2, <2>4, <3>1 DEF GrantInOrder, Times
    <2>5. ASSUME phase = "DEPLOYMENT_READY", NEW scene \in Scenes,
                 context' = [context EXCEPT !.scene = scene, !.auth.scene = scene]
          PROVE  context'.auth.slot = context'.slot /\ context'.auth.consumedAt <= clock'
      <3>1. context.auth \in Authorizations
        BY <2>5 DEF MissionInv, BindingsAgree
      <3>2. /\ context'.auth.slot = context.auth.slot /\ context'.slot = context.slot
            /\ context'.auth.consumedAt = context.auth.consumedAt
            /\ context.auth.consumedAt \in Times
        BY <2>3, <2>5, <3>1 DEF Contexts, Authorizations
      <3> QED BY <2>2, <2>5, <3>2 DEF GrantInOrder, Times
    <2>6. CASE /\ phase = "AWAITING_AUTHORIZATION"
               /\ context' = [context EXCEPT !.auth = Granted(t)]
      <3>1. context'.auth = Granted(t) /\ context'.slot = context.slot
        BY <2>3, <2>6 DEF Contexts
      <3> QED BY <2>2, <3>1 DEF Granted
    <2> QED BY <2>1, <2>4, <2>5, <2>6
  <1> QED BY <1>1, <1>2

\* The payload refuses the bay's own grant for one reason: the call is older
\* than its consumption.
LEMMA RefusedIsLate ==
  ASSUME MissionInv, GrantInOrder, phase = "DEPLOYMENT_READY", NEW t \in Times,
         ~HasExpired(t),
         ~CanRefresh(context.slot, t) \/ ~CanRequest(context.slot, context.scene, t)
  PROVE  t < context.auth.consumedAt
  <1> DEFINE s == context.slot
  <1>1. /\ context \in Contexts /\ s \in Slots /\ ~faulted
        /\ bay[s] \in BayRecords /\ bay[s].state = "ARMED"
    BY ActingOnBay
  <1>2. /\ context.auth = bay[s].auth /\ context.auth \in Authorizations
        /\ context.auth.scene = context.scene
        /\ context.auth.expiresAt = registry[context.challenge].expiresAt
    BY DEF MissionInv, BindingsAgree
  <1>3. context.auth.slot = s
    BY DEF GrantInOrder
  <1>4. t < context.auth.expiresAt
    BY <1>2, ContextInOrder DEF HasExpired, Times, ChallengeRecords
  <1>5. ~(context.auth.consumedAt <= t)
    BY <1>1, <1>2, <1>3, <1>4 DEF CanRefresh, CanRequest, ValidAuthorization
  <1> QED BY <1>2, <1>5 DEF Authorizations, Times

\* The ways into FAULT: with the payload, or on a grant the payload refuses.
LEMMA WaysToFault ==
  ASSUME MissionInv, Next, phase' = "FAULT"
  PROVE  \/ phase = "FAULT" /\ UNCHANGED <<context, bayVars>>
         \/ faulted'
         \/ /\ phase = "DEPLOYMENT_READY" /\ UNCHANGED <<context, faulted>>
            /\ bay' \in {bay, Unarmed}
            /\ \E t \in Times :
                 /\ At(t) /\ ~HasExpired(t)
                 /\ ~CanRefresh(context.slot, t) \/ ~CanRequest(context.slot, context.scene, t)
  <1>1. ASSUME NEW t \in Times, Launch(t) \/ ArriveTaskArea(t) \/ Tick(t)
        PROVE  \/ phase = "FAULT" /\ UNCHANGED <<context, bayVars>>
               \/ faulted'
    BY <1>1 DEF Launch, ArriveTaskArea, Tick, ExpireContext, BackToSearch, CheckTimeouts,
                EnterFault
  <1>2. ASSUME NEW t \in Times, NEW inventory \in BOOLEAN, NEW equivalent \in BOOLEAN,
               NEW candidate \in BOOLEAN, NEW scene \in Scenes,
               ProcessObservation(t, inventory, equivalent, candidate, scene)
        PROVE  /\ phase = "DEPLOYMENT_READY" /\ UNCHANGED <<context, faulted>>
               /\ bay' = Unarmed /\ At(t) /\ ~HasExpired(t) /\ ~CanRefresh(context.slot, t)
    BY <1>2 DEF ProcessObservation, SelectTarget, BackToSearch, RefreshContext
  <1>3. ASSUME NEW t \in Times, NEW confirmed \in BOOLEAN, NEW inventory \in BOOLEAN,
               NEW nonce \in BOOLEAN, NEW matches \in BOOLEAN,
               ApproveAuthorization(t, confirmed, inventory, nonce, matches)
        PROVE  FALSE
    BY <1>3 DEF ApproveAuthorization, ExpireContext, BackToSearch
  <1>4. ASSUME NEW t \in Times, NEW nonce \in BOOLEAN, DenyAuthorization(t, nonce)
        PROVE  FALSE
    BY <1>4 DEF DenyAuthorization, ExpireContext, BackToSearch
  <1>5. ASSUME NEW t \in Times, NEW inventory \in BOOLEAN, NEW matches \in BOOLEAN,
               RequestDeployment(t, inventory, matches)
        PROVE  /\ phase = "DEPLOYMENT_READY" /\ UNCHANGED <<context, faulted>> /\ bay' = bay
               /\ At(t) /\ ~HasExpired(t) /\ ~CanRequest(context.slot, context.scene, t)
    BY <1>5 DEF RequestDeployment, ExpireContext, BackToSearch, bayVars
  <1>6. ASSUME NEW t \in Times, NEW r \in Releases, ReportSimulatedExecution(t, r)
        PROVE  faulted'
    <2>1. CASE Miscorrelated(r, context.slot)
      BY <1>6, <2>1 DEF ReportSimulatedExecution, ReportExecution, EnterFault
    <2>2. CASE ~Miscorrelated(r, context.slot)
      BY <1>6, <2>2 DEF ReportSimulatedExecution, AfterReport
    <2> QED BY <2>1, <2>2
  <1>7. ASSUME NEW t \in Times, NEW r \in Releases, ReportConfirmation(t, r)
        PROVE  faulted'
    <2>1. CASE Miscorrelated(r, context.slot)
      BY <1>7, <2>1 DEF ReportConfirmation, ReportIndependentConfirmation, EnterFault
    <2>2. CASE ~Miscorrelated(r, context.slot)
      BY <1>7, <2>2 DEF ReportConfirmation, AfterReport
    <2> QED BY <2>1, <2>2
  <1>8. ASSUME NEW t \in Times, NEW r \in Releases, NEW uncertain \in BOOLEAN,
               ReportSimulatedFailure(t, r, uncertain)
        PROVE  faulted'
    BY <1>8 DEF ReportSimulatedFailure, FailRelease, EnterFault
  <1> QED BY <1>1, <1>2, <1>3, <1>4, <1>5, <1>6, <1>7, <1>8 DEF Next

\* A mission that faults without its payload does so on a call whose time lies
\* behind the consumption of its grant, though within the clock's tolerance.
FaultsAloneOnlyLate ==
  [][phase # "FAULT" /\ phase' = "FAULT" /\ ~faulted' =>
       /\ phase = "DEPLOYMENT_READY"
       /\ \E t \in Times : clock - Tolerance <= t /\ t < context.auth.consumedAt]_vars

LEMMA FaultStep ==
  ASSUME MissionInv, GrantInOrder, FaultIsQuiet, [Next]_vars
  PROVE  /\ FaultIsQuiet'
         /\ phase # "FAULT" /\ phase' = "FAULT" /\ ~faulted' =>
              /\ phase = "DEPLOYMENT_READY"
              /\ \E t \in Times : clock - Tolerance <= t /\ t < context.auth.consumedAt
  <1>1. CASE phase' # "FAULT"
    BY <1>1 DEF FaultIsQuiet
  <1>2. CASE phase = "FAULT" /\ phase' = "FAULT" /\ UNCHANGED <<context, bayVars>>
    BY <1>2 DEF FaultIsQuiet, bayVars
  <1>3. CASE faulted'
    <2>1. BayInv'
      BY MissionStep DEF MissionInv
    <2> QED BY <1>3, <2>1 DEF BayInv, FaultIsFinal, FaultIsQuiet
  <1>4. ASSUME phase' = "FAULT", phase = "DEPLOYMENT_READY", UNCHANGED <<context, faulted>>,
               bay' \in {bay, Unarmed}, NEW t \in Times, At(t), ~HasExpired(t),
               ~CanRefresh(context.slot, t) \/ ~CanRequest(context.slot, context.scene, t)
        PROVE  /\ FaultIsQuiet'
               /\ \E u \in Times : clock - Tolerance <= u /\ u < context.auth.consumedAt
    <2>1. /\ context \in Contexts /\ ~faulted
          /\ bay[context.slot].state = "ARMED"
          /\ \A z \in Slots : z # context.slot => bay[z].state \notin ActiveStates
      BY <1>4, ActingOnBay
    <2>2. \A z \in Slots : bay'[z].state \in ActiveStates =>
                             z = context.slot /\ bay'[z].state = "ARMED"
      BY <1>4, <2>1, UnarmedIsIdle DEF Idle
    <2>3. FaultIsQuiet'
      BY <1>4, <2>1, <2>2, MissionAssumption DEF FaultIsQuiet
    <2>4. t < context.auth.consumedAt
      BY <1>4, RefusedIsLate
    <2>5. clock - Tolerance <= t
      BY <1>4, MissionAssumption DEF At, MissionInv, MissionTypeOK, Times
    <2> QED BY <2>3, <2>4, <2>5
  <1>5. CASE UNCHANGED vars
    BY <1>1, <1>2, <1>5 DEF vars, bayVars
  <1>6. CASE Next /\ phase' = "FAULT"
    BY <1>2, <1>3, <1>4, <1>6, WaysToFault
  <1> QED BY <1>1, <1>5, <1>6

\* The invariant of the mission's grants and faults.
LEMMA FaultInvariant == Spec => [](GrantInOrder /\ FaultIsQuiet)
  <1>1. Init => GrantInOrder /\ FaultIsQuiet
    BY DEF Init, GrantInOrder, FaultIsQuiet
  <1>2. MissionInv /\ (GrantInOrder /\ FaultIsQuiet) /\ [Next]_vars
          => (GrantInOrder /\ FaultIsQuiet)'
    BY GrantStep, FaultStep
  <1> QED BY <1>1, <1>2, MissionInvariant, PTL DEF Spec

\* No release is in flight when the mission has faulted: the timeout and the
\* reports that fault it fail the release with it.
THEOREM FaultedIsQuiet == Spec => []FaultIsQuiet
  BY FaultInvariant, PTL

\* How far FaultComesFromPayload fails: only on a call behind the latest one,
\* and only between the consumption of a grant and its use.
THEOREM FaultsAlone == Spec => FaultsAloneOnlyLate
  <1>1. MissionInv /\ (GrantInOrder /\ FaultIsQuiet) /\ [Next]_vars =>
          (phase # "FAULT" /\ phase' = "FAULT" /\ ~faulted' =>
             /\ phase = "DEPLOYMENT_READY"
             /\ \E t \in Times : clock - Tolerance <= t /\ t < context.auth.consumedAt)
    BY FaultStep
  <1> QED BY <1>1, FaultInvariant, MissionInvariant, PTL DEF Spec, FaultsAloneOnlyLate

\* With a clock that tolerates no call out of order the mission faults only with
\* its payload.
THEOREM NoToleranceNoFault ==
  ASSUME Tolerance = 0
  PROVE  Spec => []FaultComesFromPayload
  <1>1. Init => FaultComesFromPayload
    BY DEF Init, FaultComesFromPayload
  <1>2. ASSUME MissionInv, GrantInOrder, FaultIsQuiet, FaultComesFromPayload, [Next]_vars
        PROVE  FaultComesFromPayload'
    <2> SUFFICES ASSUME phase' = "FAULT", ~faulted'
                 PROVE  FALSE
      BY DEF FaultComesFromPayload
    <2>1. CASE phase = "FAULT"
      <3>1. UNCHANGED faulted \/ faulted'
        BY <1>2, <2>1, WaysToFault DEF bayVars, vars
      <3> QED BY <1>2, <2>1, <3>1 DEF FaultComesFromPayload
    <2>2. CASE phase # "FAULT"
      <3>1. /\ phase = "DEPLOYMENT_READY"
            /\ \E t \in Times : clock - Tolerance <= t /\ t < context.auth.consumedAt
        BY <1>2, <2>2, FaultStep
      <3>2. context.auth.consumedAt <= clock /\ clock \in Times /\ context.auth.consumedAt \in Times
        BY <1>2, <3>1 DEF GrantInOrder, MissionInv, MissionTypeOK, BindingsAgree, Authorizations
      <3> QED BY <3>1, <3>2 DEF Times
    <2> QED BY <2>1, <2>2
  <1>3. MissionInv /\ (GrantInOrder /\ FaultIsQuiet) /\ FaultComesFromPayload /\ [Next]_vars
          => FaultComesFromPayload'
    BY <1>2
  <1> QED BY <1>1, <1>3, FaultInvariant, MissionInvariant, PTL DEF Spec
==============================================================================
