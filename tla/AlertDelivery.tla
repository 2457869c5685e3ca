---------------------------- MODULE AlertDelivery ----------------------------
(***************************************************************************)
(* Fire alerts from the aircraft to the ground: the loop of                *)
(* live.LiveRuntime with its alerts.SqliteAlertOutbox, the retrying        *)
(* publisher over UDP, and the ground's AuthenticatedUdpAlertReceiver with *)
(* its deduplication store, across stops and deaths of either side.        *)
(*                                                                         *)
(* An alert is its identifier, numbered in the order of created_at, the    *)
(* order in which pending_alerts returns rows.  Delivered rows beyond      *)
(* keep_latest_delivered are deleted by the code; identifiers are never    *)
(* used again, so nothing tells a deleted row from a delivered one and     *)
(* both are "delivered".  Authentication is abstracted to what it lets     *)
(* through: messages of the two programs, and acknowledgements whose       *)
(* identifier and nonce are those of the attempt that waits.               *)
(***************************************************************************)
EXTENDS Naturals, FiniteSets

CONSTANTS AlertCount,           \* bound: alerts confirmed in a behaviour
          MaximumAttempts,      \* sends per publish
          Limit,                \* rows a start takes from the outbox
          Capacity,             \* identifiers the receiver remembers
          None

Alerts == 1 .. AlertCount

\* What receive() holds between the commit of its store and its return.
Handled == [alert : Alerts, live : BOOLEAN, answered : BOOLEAN]

ASSUME DeliveryAssumption ==
  /\ AlertCount \in Nat
  /\ MaximumAttempts \in Nat \ {0}
  /\ Limit \in Nat \ {0}
  /\ Capacity \in 1 .. AlertCount
  /\ None \notin Alerts \union Handled

VARIABLES
  confirmed,    \* identifiers given to alerts so far (and audited)
  outbox,       \* the rows: "absent", "pending" or "delivered"
  pc,           \* the aircraft's program: "down", "retry" or "serving"
  todo,         \* startup's snapshot of pending rows, still to be retried
  batch,        \* alerts of the current frame, not yet enqueued
  current,      \* the alert deliver_alert is working on
  stage,        \* "ready" to send, "waiting", "acked" or "failed"
  attempt,      \* sends made for it
  requests,     \* alert packets on the way
  acks,         \* acknowledgement packets on the way
  up,           \* the receiver runs
  store,        \* its store: "durable" (SQLite) or "memory"
  seen,         \* identifiers in the store
  above,        \* rows that stand before this one in the order of pruning
  handling,     \* the packet inside receive()
  since,        \* history: the alerts received since this one was
  ordered,      \* history: alerts received since a row was last put behind others
  recorded,     \* history: alerts the receiver has recorded at some time
  shown,        \* history: alerts receive() has returned to its caller
  unreported    \* history: alerts of a receive() that died after recording

aircraftVars == <<confirmed, outbox, pc, todo, batch, current, stage, attempt>>
storeVars == <<seen, above, since, ordered>>
receiverVars == <<up, store, storeVars, handling, recorded, shown, unreported>>
vars == <<aircraftVars, requests, acks, receiverVars>>

Pending == {a \in Alerts : outbox[a] = "pending"}
Packets == [alert : Alerts, live : BOOLEAN]

\* A packet is live while the attempt that sent it, or whose request it
\* answers, still waits: every attempt has a socket and a nonce of its own.
Stale(packets) == {[p EXCEPT !.live = FALSE] : p \in packets}

\* The attempt's socket closes.
CloseSocket ==
  /\ requests' = Stale(requests)
  /\ acks' = Stale(acks)
  /\ handling' = IF handling = None THEN None ELSE [handling EXCEPT !.live = FALSE]
  /\ UNCHANGED <<up, store, storeVars, recorded, shown, unreported>>
------------------------------------------------------------------------------
\* The aircraft's program.

\* Mutant: a start forgets what an earlier run could not deliver.
OldestNone == {}

\* pending_alerts(limit)
Oldest == {a \in Pending : Cardinality({b \in Pending : b < a}) < Limit}

Start ==
  /\ pc = "down"
  /\ pc' = "retry"
  /\ todo' = Oldest
  /\ UNCHANGED <<confirmed, outbox, batch, current, stage, attempt>>
  /\ UNCHANGED <<requests, acks, receiverVars>>

\* The program ends or dies anywhere; only the outbox survives.
Stop ==
  /\ pc # "down"
  /\ pc' = "down"
  /\ todo' = {} /\ batch' = {} /\ current' = None /\ stage' = "ready" /\ attempt' = 0
  /\ CloseSocket
  /\ UNCHANGED <<confirmed, outbox>>

\* Startup's loop over the pending rows it has read, oldest first.
RetryNext(a) ==
  /\ pc = "retry" /\ current = None
  /\ a \in todo /\ \A b \in todo : a <= b
  /\ todo' = todo \ {a}
  /\ current' = a
  /\ UNCHANGED <<confirmed, outbox, pc, batch, stage, attempt>>
  /\ UNCHANGED <<requests, acks, receiverVars>>

RetryDone ==
  /\ pc = "retry" /\ current = None /\ todo = {}
  /\ pc' = "serving"
  /\ UNCHANGED <<confirmed, outbox, todo, batch, current, stage, attempt>>
  /\ UNCHANGED <<requests, acks, receiverVars>>

\* A frame confirms targets: each gets a new identifier and an audit record.
ConfirmTargets(new) ==
  /\ pc = "serving" /\ current = None /\ batch = {}
  /\ new # {} /\ new \intersect confirmed = {}
  /\ confirmed' = confirmed \union new
  /\ batch' = new
  /\ UNCHANGED <<outbox, pc, todo, current, stage, attempt>>
  /\ UNCHANGED <<requests, acks, receiverVars>>

\* Mutant: an alert is delivered before it is enqueued.
DeliverNextUnqueued(a) ==
  /\ pc = "serving" /\ current = None
  /\ a \in batch
  /\ batch' = batch \ {a}
  /\ current' = a
  /\ UNCHANGED <<confirmed, outbox, pc, todo, stage, attempt>>
  /\ UNCHANGED <<requests, acks, receiverVars>>

\* enqueue, then deliver_alert, for one alert of the frame after the other.
DeliverNext(a) ==
  /\ pc = "serving" /\ current = None
  /\ a \in batch
  /\ batch' = batch \ {a}
  /\ outbox' = [outbox EXCEPT ![a] = IF @ = "absent" THEN "pending" ELSE @]
  /\ current' = a
  /\ UNCHANGED <<confirmed, pc, todo, stage, attempt>>
  /\ UNCHANGED <<requests, acks, receiverVars>>

\* publish: one send of the transport.
SendAttempt ==
  /\ current # None /\ stage = "ready"
  /\ stage' = "waiting"
  /\ attempt' = attempt + 1
  /\ requests' = requests \union {[alert |-> current, live |-> TRUE]}
  /\ UNCHANGED <<confirmed, outbox, pc, todo, batch, current, acks, receiverVars>>

\* Mutant: the acknowledgement is not correlated with the alert and the nonce.
TakeAcknowledgementOfAny(a) ==
  /\ stage = "waiting" /\ current = a
  /\ acks # {}
  /\ stage' = "acked"
  /\ CloseSocket
  /\ UNCHANGED <<confirmed, outbox, pc, todo, batch, current, attempt>>

\* The correlated acknowledgement reaches the attempt's socket in time.
TakeAcknowledgement(a) ==
  /\ stage = "waiting" /\ current = a
  /\ [alert |-> a, live |-> TRUE] \in acks
  /\ stage' = "acked"
  /\ CloseSocket
  /\ UNCHANGED <<confirmed, outbox, pc, todo, batch, current, attempt>>

\* Mutant: the last failed attempt is repeated for ever.
AttemptFailsForever ==
  /\ stage = "waiting"
  /\ stage' = "ready" /\ attempt' = 0
  /\ CloseSocket
  /\ UNCHANGED <<confirmed, outbox, pc, todo, batch, current>>

\* No acknowledgement in time, a wrong one, or an error of the socket.
AttemptFails ==
  /\ stage = "waiting"
  /\ stage' = IF attempt < MaximumAttempts THEN "ready" ELSE "failed"
  /\ CloseSocket
  /\ UNCHANGED <<confirmed, outbox, pc, todo, batch, current, attempt>>

\* deliver_alert after publish: mark_delivered, or mark_failed, which leaves the
\* row pending.  Both raise KeyError, and end the program, unless the row is
\* pending (OutcomeFindsItsRow: it is).
MarkDelivered ==
  /\ stage = "acked" /\ outbox[current] = "pending"
  /\ outbox' = [outbox EXCEPT ![current] = "delivered"]
  /\ current' = None /\ stage' = "ready" /\ attempt' = 0
  /\ UNCHANGED <<confirmed, pc, todo, batch, requests, acks, receiverVars>>

MarkFailed ==
  /\ stage = "failed" /\ outbox[current] = "pending"
  /\ current' = None /\ stage' = "ready" /\ attempt' = 0
  /\ UNCHANGED <<confirmed, outbox, pc, todo, batch, requests, acks, receiverVars>>
------------------------------------------------------------------------------
\* The link loses packets, delays them beyond their attempt (CloseSocket), and
\* may deliver one more than once (Receive).
LinkLoses ==
  /\ \/ \E p \in requests : requests' = requests \ {p} /\ UNCHANGED acks
     \/ \E p \in acks : acks' = acks \ {p} /\ UNCHANGED requests
  /\ UNCHANGED <<aircraftVars, receiverVars>>
------------------------------------------------------------------------------
\* The ground receiver.

\* What may stand before the row of an alert once it is received.  In memory its
\* identifier moves to the end that is dropped last.  In SQLite the rows are
\* ordered by last_received_at_unix_s, a reading of time.time() that may step
\* back, and where it repeats itself by a random alert_id: the row may come to
\* stand anywhere among the others.
Places(a) ==
  IF store = "memory"
    THEN {{}}
    ELSE {before \in SUBSET (seen \ {a}) : \A b \in before : above[b] \ {a} \subseteq before}

\* The order of the rows with a behind those.
Placed(a, before) ==
  [b \in Alerts |-> IF b = a THEN before
                    ELSE IF b \in before THEN above[b] \ {a} ELSE above[b] \union {a}]

\* Mutant: the store keeps one identifier more than its capacity.
RememberOneMore(a, before) ==
  IF a \in seen THEN seen
  ELSE {b \in seen \union {a} : Cardinality(Placed(a, before)[b]) <= Capacity}

\* check_and_record: a known row is updated; behind a new one, the row itself
\* included, all but the first Capacity rows are deleted.
Remember(a, before) ==
  IF a \in seen THEN seen
  ELSE {b \in seen \union {a} : Cardinality(Placed(a, before)[b]) < Capacity}

\* receive() up to the commit of the store; a duplicated packet stays.
Receive(packet) ==
  /\ up /\ handling = None
  /\ packet \in requests
  /\ requests' \in {requests, requests \ {packet}}
  /\ handling' = [alert |-> packet.alert, live |-> packet.live, answered |-> FALSE]
  /\ \E before \in Places(packet.alert) :
       /\ seen' = Remember(packet.alert, before)
       /\ above' = [b \in Alerts |->
                     IF b \in seen' THEN Placed(packet.alert, before)[b] ELSE {}]
       /\ ordered' = IF before = {} THEN ordered \union {packet.alert} ELSE {}
  /\ since' = [b \in Alerts |->
                IF b = packet.alert THEN {} ELSE since[b] \union {packet.alert}]
  /\ recorded' = recorded \union {packet.alert}
  /\ UNCHANGED <<aircraftVars, acks, up, store, shown, unreported>>

\* Mutant: the acknowledgement ends the call and the alert is not returned.
AnswerAndForget ==
  /\ handling # None /\ ~handling.answered
  /\ acks' = acks \union {[alert |-> handling.alert, live |-> handling.live]}
  /\ handling' = None
  /\ UNCHANGED <<aircraftVars, requests, up, store, storeVars, recorded, shown, unreported>>

\* ... its acknowledgement ...
Answer ==
  /\ handling # None /\ ~handling.answered
  /\ acks' = acks \union {[alert |-> handling.alert, live |-> handling.live]}
  /\ handling' = [handling EXCEPT !.answered = TRUE]
  /\ UNCHANGED <<aircraftVars, requests, up, store, storeVars, recorded, shown, unreported>>

\* ... and its return, to a caller that shows the alert.
Return ==
  /\ handling # None /\ handling.answered
  /\ shown' = shown \union {handling.alert}
  /\ handling' = None
  /\ UNCHANGED <<aircraftVars, requests, acks, up, store, storeVars, recorded, unreported>>

\* The receiver ends or dies; a store in memory is gone with it.
ReceiverStops ==
  /\ up
  /\ up' = FALSE
  /\ handling' = None
  /\ unreported' = IF handling = None THEN unreported
                   ELSE unreported \union {handling.alert}
  /\ \/ store = "durable" /\ UNCHANGED storeVars
     \/ /\ store = "memory"
        /\ seen' = {} /\ above' = [a \in Alerts |-> {}]
        /\ since' = [a \in Alerts |-> Alerts] /\ ordered' = {}
  /\ UNCHANGED <<aircraftVars, requests, acks, store, recorded, shown>>

ReceiverStarts ==
  /\ ~up
  /\ up' = TRUE
  /\ UNCHANGED <<aircraftVars, requests, acks, store, storeVars, handling, recorded,
                 shown, unreported>>
------------------------------------------------------------------------------
Init ==
  /\ confirmed = {}
  /\ outbox = [a \in Alerts |-> "absent"]
  /\ pc = "down" /\ todo = {} /\ batch = {}
  /\ current = None /\ stage = "ready" /\ attempt = 0
  /\ requests = {} /\ acks = {}
  /\ up = FALSE /\ store \in {"durable", "memory"} /\ handling = None
  /\ seen = {} /\ above = [a \in Alerts |-> {}]
  /\ since = [a \in Alerts |-> Alerts] /\ ordered = {}
  /\ recorded = {} /\ shown = {} /\ unreported = {}

Next ==
  \/ Start \/ Stop
  \/ \E a \in Alerts : RetryNext(a) \/ DeliverNext(a) \/ TakeAcknowledgement(a)
  \/ RetryDone
  \/ \E new \in SUBSET Alerts : ConfirmTargets(new)
  \/ SendAttempt \/ AttemptFails
  \/ MarkDelivered \/ MarkFailed
  \/ LinkLoses
  \/ \E packet \in requests : Receive(packet)
  \/ Answer \/ Return
  \/ ReceiverStops \/ ReceiverStarts

Spec == Init /\ [][Next]_vars

\* The program goes on while it runs: sends, waits and writes all return, waits by
\* their timeout.  The receiver's own steps return too.  Nothing is assumed of
\* the link, nor that either program is ever started again.
FairSpec ==
  /\ Spec
  /\ WF_vars(SendAttempt) /\ WF_vars(AttemptFails)
  /\ WF_vars(MarkDelivered) /\ WF_vars(MarkFailed)
  /\ WF_vars(\E a \in Alerts : RetryNext(a)) /\ WF_vars(RetryDone)
  /\ WF_vars(\E a \in Alerts : DeliverNext(a))
------------------------------------------------------------------------------
AlertTypeOK ==
  /\ confirmed \subseteq Alerts
  /\ outbox \in [Alerts -> {"absent", "pending", "delivered"}]
  /\ pc \in {"down", "retry", "serving"}
  /\ todo \subseteq Alerts /\ batch \subseteq Alerts
  /\ current \in Alerts \union {None}
  /\ stage \in {"ready", "waiting", "acked", "failed"}
  /\ attempt \in 0 .. MaximumAttempts
  /\ requests \subseteq Packets /\ acks \subseteq Packets
  /\ up \in BOOLEAN /\ store \in {"durable", "memory"}
  /\ seen \subseteq Alerts /\ above \in [Alerts -> SUBSET Alerts]
  /\ since \in [Alerts -> SUBSET Alerts] /\ ordered \subseteq Alerts
  /\ handling \in Handled \union {None}
  /\ recorded \subseteq Alerts /\ shown \subseteq Alerts /\ unreported \subseteq Alerts

\* The row an outcome is about to be written to is pending, whatever the
\* startup snapshot has become since it was read: mark_delivered and
\* mark_failed never raise KeyError out of the frame loop.
OutcomeFindsItsRow == current # None => outbox[current] = "pending"

\* An alert the aircraft has marked delivered has been returned by receive() to
\* the ground's program, unless that program ended between recording it and
\* returning it.
DeliveredIsShown ==
  \A a \in Alerts :
    outbox[a] = "delivered" =>
      \/ a \in shown \union unreported
      \/ handling # None /\ handling.alert = a

\* The alerts received in the life of the store.
Arrived == {a \in Alerts : a \notin since[a]}

\* What the store tells of duplicates.  Whatever the ground's clock does, no
\* alert is taken for a duplicate that was not received, and none is forgotten
\* before more than Capacity were.  From then on the last Capacity alerts by
\* their latest reception are known exactly, as far as every row came to stand
\* first when it was received: an alert received when the clock had stepped
\* back behind the rows may be forgotten at once.
DuplicateWindow ==
  /\ seen \subseteq Arrived
  /\ seen # Arrived => Cardinality(Arrived) > Capacity
  /\ \A a \in ordered : a \in seen <=> Cardinality(since[a]) < Capacity

\* The three parts keep the promise to every alert.
Promise == INSTANCE AlertPromise
  WITH owed <- Pending,
       settled <- {a \in Alerts : outbox[a] = "delivered"}

ImplementsPromise == Promise!Spec

\* Whatever the link does, work on an alert ends and a start gets to its frames.
StartupEnds == pc = "retry" ~> pc # "retry"

\* An alert that could not be delivered is only retried by a later start.  If the
\* program is started again and again and gets to its frames each time, and no
\* attempt fails any more from some point on, every pending alert is delivered,
\* those beyond the limit of one start included.
PendingIsDelivered ==
  ([]<>(pc = "down") /\ []<>(pc = "serving") /\ <>[][~AttemptFails]_vars)
    => \A a \in Alerts : outbox[a] = "pending" ~> outbox[a] = "delivered"
==============================================================================
