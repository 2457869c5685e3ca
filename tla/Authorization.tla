---------------------------- MODULE Authorization ----------------------------
(***************************************************************************)
(* authorization.AuthorizationService: the registry of operator            *)
(* challenges.  A challenge is bound to a bay and a scene, decided at most *)
(* once, consumed at most once, and useless from expires_at on.  The       *)
(* operators map a registry to the registry a call leaves behind; a call   *)
(* whose Can... condition is false raises.                                 *)
(***************************************************************************)
EXTENDS Integers

CONSTANTS Challenges,   \* challenge identifiers
          NoChallenge,  \* an identifier not issued yet
          Ttl           \* authorization_ttl_seconds

ASSUME AuthorizationAssumption == Ttl \in Nat \ {0}

Statuses == {"PENDING", "APPROVED", "DENIED", "CONSUMED", "EXPIRED"}

Fresh(registry) == {c \in Challenges : registry[c] = NoChallenge}

\* create_challenge
Create(registry, c, s, scene, t) ==
  [registry EXCEPT ![c] = [status |-> "PENDING", slot |-> s, scene |-> scene,
                           createdAt |-> t, expiresAt |-> t + Ttl]]

\* _expire_record_if_needed
Lapsed(record, t) ==
  IF record.status \in {"PENDING", "APPROVED"} /\ t >= record.expiresAt
    THEN [record EXCEPT !.status = "EXPIRED"]
    ELSE record

\* expire: every record of the registry.
Expire(registry, t) ==
  [c \in Challenges |-> IF registry[c] = NoChallenge THEN NoChallenge
                                                   ELSE Lapsed(registry[c], t)]

\* _decide: _validate_event_time, _expire_record_if_needed, then the status.
CanDecide(registry, c, t) ==
  /\ t >= registry[c].createdAt
  /\ Lapsed(registry[c], t).status = "PENDING"

Decide(registry, c, verdict, t) ==
  CASE CanDecide(registry, c, t) -> [registry EXCEPT ![c].status = verdict]
    [] ~CanDecide(registry, c, t) /\ t >= registry[c].createdAt ->
         [registry EXCEPT ![c] = Lapsed(@, t)]
    [] OTHER -> registry

\* consume, called with the bindings it compares.
CanConsume(registry, c, s, scene, t) ==
  /\ t >= registry[c].createdAt
  /\ Lapsed(registry[c], t).status = "APPROVED"
  /\ registry[c].slot = s
  /\ registry[c].scene = scene

Consume(registry, c) == [registry EXCEPT ![c].status = "CONSUMED"]

\* refresh_equivalent_binding
CanRebind(registry, c, previousScene, t) ==
  /\ t >= registry[c].createdAt
  /\ t < registry[c].expiresAt
  /\ registry[c].status \in {"PENDING", "APPROVED", "CONSUMED"}
  /\ registry[c].scene = previousScene

\* Mutant: the refreshed challenge starts a new lifetime.
RebindRenews(registry, c, scene, t) ==
  [registry EXCEPT ![c].scene = scene, ![c].expiresAt = t + Ttl]

\* The original expiry is kept.
Rebind(registry, c, scene, t) == [registry EXCEPT ![c].scene = scene]
==============================================================================
