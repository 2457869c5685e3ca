------------------------- MODULE AlertDeliveryProofs -------------------------
(***************************************************************************)
(* The promise of the alert link, proved for any number of alerts, sends   *)
(* per publish, rows per start and identifiers remembered.                 *)
(***************************************************************************)
EXTENDS AlertDelivery, FiniteSetTheorems, TLAPS

\* Work on an alert: it has a pending row that no queue holds any more, sends
\* are left while it is ready, and only a recorded alert is acknowledged.
WorkInv ==
  /\ current = None => stage = "ready"
  /\ current # None => outbox[current] = "pending" /\ current \notin todo
  /\ pc = "down" => current = None
  /\ stage = "ready" => attempt < MaximumAttempts
  /\ stage = "acked" => current \in recorded

\* The queues: a start's snapshot holds pending rows, a frame's batch confirmed
\* alerts without one, and rows are those of confirmed alerts.
QueueInv ==
  /\ \A a \in todo : outbox[a] = "pending"
  /\ \A a \in batch : outbox[a] = "absent" /\ a \in confirmed
  /\ \A a \in Alerts : outbox[a] # "absent" => a \in confirmed

\* Nothing about an alert is on the way before it has a row, or acknowledged
\* before it is recorded.
LinkInv ==
  /\ \A p \in requests : outbox[p.alert] # "absent"
  /\ \A p \in acks : p.alert \in recorded
  /\ handling # None => handling.alert \in recorded
  /\ \A a \in Alerts : outbox[a] = "delivered" => a \in recorded

\* What was recorded was returned, is about to be, or died with the receiver.
RecordedIsShown ==
  \A a \in recorded : \/ a \in shown \union unreported
                      \/ handling # None /\ handling.alert = a

AlertInv == AlertTypeOK /\ WorkInv /\ QueueInv /\ LinkInv /\ RecordedIsShown
------------------------------------------------------------------------------
LEMMA AlertInitially == Init => AlertInv
  <1> SUFFICES ASSUME Init PROVE AlertInv
    OBVIOUS
  <1> USE DeliveryAssumption
  <1>1. AlertTypeOK
    <2>1. attempt \in 0 .. MaximumAttempts
      BY DEF Init
    <2> QED BY <2>1 DEF Init, AlertTypeOK
  <1>2. WorkInv /\ QueueInv /\ LinkInv /\ RecordedIsShown
    BY DEF Init, WorkInv, QueueInv, LinkInv, RecordedIsShown
  <1> QED BY <1>1, <1>2 DEF AlertInv

\* A closing socket makes packets stale and changes nothing else about them.
LEMMA ClosedSocket ==
  ASSUME AlertTypeOK, CloseSocket
  PROVE  /\ requests' \subseteq Packets /\ acks' \subseteq Packets
         /\ handling' \in Handled \union {None}
         /\ \A p \in requests' : \E q \in requests : p.alert = q.alert
         /\ \A p \in acks' : \E q \in acks : p.alert = q.alert
         /\ handling' = None <=> handling = None
         /\ handling # None => handling'.alert = handling.alert
         /\ UNCHANGED <<recorded, shown, unreported>>
  <1>1. \A p \in Packets : /\ [p EXCEPT !.live = FALSE] \in Packets
                           /\ [p EXCEPT !.live = FALSE].alert = p.alert
    BY DEF Packets
  <1>2. requests \subseteq Packets /\ acks \subseteq Packets
    BY DEF AlertTypeOK
  <1>3. \A p \in requests' : \E q \in requests : p = [q EXCEPT !.live = FALSE]
    BY DEF CloseSocket, Stale
  <1>4. \A p \in acks' : \E q \in acks : p = [q EXCEPT !.live = FALSE]
    BY DEF CloseSocket, Stale
  <1>5. \A p \in requests' : p \in Packets /\ \E q \in requests : p.alert = q.alert
    BY <1>1, <1>2, <1>3
  <1>6. \A p \in acks' : p \in Packets /\ \E q \in acks : p.alert = q.alert
    BY <1>1, <1>2, <1>4
  <1>7. /\ handling' \in Handled \union {None}
        /\ handling' = None <=> handling = None
        /\ handling # None => handling'.alert = handling.alert
    <2>1. CASE handling = None
      BY <2>1 DEF CloseSocket
    <2>2. CASE handling # None
      <3>1. handling \in Handled
        BY <2>2 DEF AlertTypeOK
      <3>2. handling' = [handling EXCEPT !.live = FALSE]
        BY <2>2 DEF CloseSocket
      <3>3. handling' \in Handled /\ handling'.alert = handling.alert
        BY <3>1, <3>2 DEF Handled
      <3> QED BY <2>2, <3>3, DeliveryAssumption
    <2> QED BY <2>1, <2>2
  <1>8. UNCHANGED <<recorded, shown, unreported>>
    BY DEF CloseSocket
  <1> QED BY <1>5, <1>6, <1>7, <1>8
------------------------------------------------------------------------------
\* Each operation preserves the types.
LEMMA TypesAreKept == ASSUME AlertInv, [Next]_vars PROVE AlertTypeOK'
  <1> USE DeliveryAssumption
  <1>1. AlertTypeOK /\ WorkInv
    BY DEF AlertInv
  <1>2. CASE Start
    BY <1>1, <1>2 DEF Start, Oldest, Pending, AlertTypeOK, receiverVars, storeVars
  <1>3. CASE Stop
    BY <1>1, <1>3, ClosedSocket DEF Stop, AlertTypeOK, CloseSocket, storeVars
  <1>4. ASSUME NEW a \in Alerts, RetryNext(a) PROVE AlertTypeOK'
    BY <1>1, <1>4 DEF RetryNext, AlertTypeOK, receiverVars, storeVars
  <1>5. ASSUME NEW a \in Alerts, DeliverNext(a) PROVE AlertTypeOK'
    BY <1>1, <1>5 DEF DeliverNext, AlertTypeOK, receiverVars, storeVars
  <1>6. ASSUME NEW a \in Alerts, TakeAcknowledgement(a) PROVE AlertTypeOK'
    BY <1>1, <1>6, ClosedSocket DEF TakeAcknowledgement, AlertTypeOK, CloseSocket,
                                 storeVars
  <1>7. CASE RetryDone
    BY <1>1, <1>7 DEF RetryDone, AlertTypeOK, receiverVars, storeVars
  <1>8. ASSUME NEW new \in SUBSET Alerts, ConfirmTargets(new) PROVE AlertTypeOK'
    BY <1>1, <1>8 DEF ConfirmTargets, AlertTypeOK, receiverVars, storeVars
  <1>9. CASE SendAttempt
    <2>1. attempt' \in 0 .. MaximumAttempts
      BY <1>1, <1>9 DEF SendAttempt, AlertTypeOK, WorkInv
    <2>2. [alert |-> current, live |-> TRUE] \in Packets
      BY <1>1, <1>9 DEF SendAttempt, AlertTypeOK, Packets
    <2> QED BY <1>1, <1>9, <2>1, <2>2 DEF SendAttempt, AlertTypeOK, receiverVars, storeVars
  <1>10. CASE AttemptFails
    BY <1>1, <1>10, ClosedSocket DEF AttemptFails, AlertTypeOK, CloseSocket, storeVars
  <1>11. CASE MarkDelivered
    <2>1. 0 \in 0 .. MaximumAttempts
      OBVIOUS
    <2> QED BY <1>1, <1>11, <2>1 DEF MarkDelivered, AlertTypeOK, receiverVars, storeVars
  <1>12. CASE MarkFailed
    BY <1>1, <1>12 DEF MarkFailed, AlertTypeOK, receiverVars, storeVars
  <1>13. CASE LinkLoses
    BY <1>1, <1>13 DEF LinkLoses, AlertTypeOK, aircraftVars, receiverVars, storeVars
  <1>14. ASSUME NEW p \in requests, Receive(p) PROVE AlertTypeOK'
    <2>1. p \in Packets /\ p.alert \in Alerts /\ p.live \in BOOLEAN
      BY <1>1 DEF AlertTypeOK, Packets
    <2>2. /\ seen' \subseteq Alerts /\ above' \in [Alerts -> SUBSET Alerts]
          /\ since' \in [Alerts -> SUBSET Alerts] /\ ordered' \subseteq Alerts
      <3>1. PICK before \in Places(p.alert) :
              /\ seen' = Remember(p.alert, before)
              /\ above' = [b \in Alerts |->
                            IF b \in seen' THEN Placed(p.alert, before)[b] ELSE {}]
              /\ ordered' = IF before = {} THEN ordered \union {p.alert} ELSE {}
        BY <1>14 DEF Receive
      <3>2. seen \subseteq Alerts /\ above \in [Alerts -> SUBSET Alerts]
            /\ since \in [Alerts -> SUBSET Alerts] /\ ordered \subseteq Alerts
        BY <1>1 DEF AlertTypeOK
      <3>3. before \subseteq Alerts
        BY <3>2 DEF Places
      <3>4. Placed(p.alert, before) \in [Alerts -> SUBSET Alerts]
        BY <2>1, <3>2, <3>3 DEF Placed
      <3>5. seen' \subseteq Alerts
        BY <2>1, <3>1, <3>2 DEF Remember
      <3>6. above' \in [Alerts -> SUBSET Alerts]
        BY <3>1, <3>4
      <3>7. since' \in [Alerts -> SUBSET Alerts]
        BY <1>14, <2>1, <3>2 DEF Receive
      <3> QED BY <2>1, <3>1, <3>2, <3>5, <3>6, <3>7
    <2>3. handling' \in Handled
      BY <1>14, <2>1 DEF Receive, Handled
    <2> QED BY <1>1, <1>14, <2>1, <2>2, <2>3 DEF Receive, AlertTypeOK, aircraftVars
  <1>15. CASE Answer
    <2>1. handling \in Handled
      BY <1>1, <1>15 DEF Answer, AlertTypeOK
    <2>2. /\ [alert |-> handling.alert, live |-> handling.live] \in Packets
          /\ handling' \in Handled
      BY <1>15, <2>1 DEF Answer, Packets, Handled
    <2> QED BY <1>1, <1>15, <2>2 DEF Answer, AlertTypeOK, aircraftVars, storeVars
  <1>16. CASE Return
    <2>1. handling \in Handled /\ handling.alert \in Alerts
      BY <1>1, <1>16 DEF Return, AlertTypeOK, Handled
    <2> QED BY <1>1, <1>16, <2>1 DEF Return, AlertTypeOK, aircraftVars, storeVars
  <1>17. CASE ReceiverStops
    <2>1. unreported' \subseteq Alerts
      BY <1>1, <1>17 DEF ReceiverStops, AlertTypeOK, Handled
    <2>2. /\ seen' \subseteq Alerts /\ above' \in [Alerts -> SUBSET Alerts]
          /\ since' \in [Alerts -> SUBSET Alerts] /\ ordered' \subseteq Alerts
      BY <1>1, <1>17 DEF ReceiverStops, AlertTypeOK, storeVars
    <2> QED BY <1>1, <1>17, <2>1, <2>2 DEF ReceiverStops, AlertTypeOK, aircraftVars
  <1>18. CASE ReceiverStarts
    BY <1>1, <1>18 DEF ReceiverStarts, AlertTypeOK, aircraftVars, storeVars
  <1>19. CASE UNCHANGED vars
    BY <1>1, <1>19 DEF AlertTypeOK, vars, aircraftVars, receiverVars, storeVars
  <1> QED BY <1>2, <1>3, <1>4, <1>5, <1>6, <1>7, <1>8, <1>9, <1>10, <1>11, <1>12,
             <1>13, <1>14, <1>15, <1>16, <1>17, <1>18, <1>19 DEF Next
------------------------------------------------------------------------------
\* The steps of the link and the receiver leave the aircraft alone and forget
\* nothing that was recorded.
LEMMA ElsewhereSteps ==
  ASSUME \/ LinkLoses \/ Answer \/ Return \/ ReceiverStops \/ ReceiverStarts
         \/ \E p \in requests : Receive(p)
         \/ UNCHANGED vars
  PROVE  UNCHANGED aircraftVars /\ recorded \subseteq recorded'
  BY DEF LinkLoses, Answer, Return, ReceiverStops, ReceiverStarts, Receive, vars,
         receiverVars

LEMMA WorkIsKept == ASSUME AlertInv, [Next]_vars PROVE WorkInv'
  <1> USE DeliveryAssumption
  <1>1. AlertTypeOK /\ WorkInv /\ QueueInv /\ LinkInv
    BY DEF AlertInv
  <1>2. CASE Start
    <2>1. \A a \in todo' : outbox[a] = "pending"
      BY <1>2 DEF Start, Oldest, Pending
    <2> QED BY <1>1, <1>2, <2>1 DEF Start, WorkInv, receiverVars
  <1>3. CASE Stop
    BY <1>1, <1>3 DEF Stop, WorkInv, CloseSocket
  <1>4. ASSUME NEW a \in Alerts, RetryNext(a) PROVE WorkInv'
    <2>1. outbox[a] = "pending"
      BY <1>1, <1>4 DEF RetryNext, QueueInv
    <2> QED BY <1>1, <1>4, <2>1 DEF RetryNext, WorkInv, receiverVars
  <1>5. ASSUME NEW a \in Alerts, DeliverNext(a) PROVE WorkInv'
    <2>1. outbox[a] = "absent" /\ outbox'[a] = "pending" /\ current' = a
      BY <1>1, <1>5 DEF DeliverNext, QueueInv, AlertTypeOK
    <2>2. a \notin todo
      BY <1>1, <2>1 DEF QueueInv
    <2> QED BY <1>1, <1>5, <2>1, <2>2 DEF DeliverNext, WorkInv, receiverVars
  <1>6. ASSUME NEW a \in Alerts, TakeAcknowledgement(a) PROVE WorkInv'
    <2>1. a \in recorded
      BY <1>1, <1>6 DEF TakeAcknowledgement, LinkInv
    <2> QED BY <1>1, <1>6, <2>1 DEF TakeAcknowledgement, WorkInv, CloseSocket
  <1>7. CASE RetryDone
    BY <1>1, <1>7 DEF RetryDone, WorkInv, receiverVars
  <1>8. ASSUME NEW new \in SUBSET Alerts, ConfirmTargets(new) PROVE WorkInv'
    BY <1>1, <1>8 DEF ConfirmTargets, WorkInv, receiverVars
  <1>9. CASE SendAttempt
    BY <1>1, <1>9 DEF SendAttempt, WorkInv, receiverVars
  <1>10. CASE AttemptFails
    BY <1>1, <1>10 DEF AttemptFails, WorkInv, CloseSocket
  <1>11. CASE MarkDelivered
    BY <1>1, <1>11 DEF MarkDelivered, WorkInv, receiverVars
  <1>12. CASE MarkFailed
    BY <1>1, <1>12 DEF MarkFailed, WorkInv, receiverVars
  <1>13. ASSUME UNCHANGED aircraftVars, recorded \subseteq recorded' PROVE WorkInv'
    BY <1>1, <1>13 DEF aircraftVars, WorkInv
  <1> QED BY <1>2, <1>3, <1>4, <1>5, <1>6, <1>7, <1>8, <1>9, <1>10, <1>11, <1>12,
             <1>13, ElsewhereSteps DEF Next

LEMMA QueuesAreKept == ASSUME AlertInv, [Next]_vars PROVE QueueInv'
  <1>1. AlertTypeOK /\ WorkInv /\ QueueInv
    BY DEF AlertInv
  <1>2. CASE Start
    <2>1. \A a \in todo' : outbox[a] = "pending"
      BY <1>2 DEF Start, Oldest, Pending
    <2> QED BY <1>1, <1>2, <2>1 DEF Start, QueueInv
  <1>3. CASE Stop
    BY <1>1, <1>3 DEF Stop, QueueInv
  <1>4. ASSUME NEW a \in Alerts, RetryNext(a) PROVE QueueInv'
    BY <1>1, <1>4 DEF RetryNext, QueueInv
  <1>5. ASSUME NEW a \in Alerts, DeliverNext(a) PROVE QueueInv'
    <2>1. outbox[a] = "absent" /\ a \in confirmed
      BY <1>1, <1>5 DEF DeliverNext, QueueInv
    <2>2. \A b \in Alerts : outbox'[b] = IF b = a THEN "pending" ELSE outbox[b]
      BY <1>1, <1>5, <2>1 DEF DeliverNext, AlertTypeOK
    <2>3. /\ todo' = todo /\ confirmed' = confirmed /\ batch' = batch \ {a}
          /\ todo \subseteq Alerts /\ batch \subseteq Alerts
      BY <1>1, <1>5 DEF DeliverNext, AlertTypeOK
    <2> QED BY <1>1, <2>1, <2>2, <2>3 DEF QueueInv
  <1>6. ASSUME NEW a \in Alerts, TakeAcknowledgement(a) PROVE QueueInv'
    BY <1>1, <1>6 DEF TakeAcknowledgement, QueueInv
  <1>7. CASE RetryDone
    BY <1>1, <1>7 DEF RetryDone, QueueInv
  <1>8. ASSUME NEW new \in SUBSET Alerts, ConfirmTargets(new) PROVE QueueInv'
    BY <1>1, <1>8 DEF ConfirmTargets, QueueInv, AlertTypeOK
  <1>9. CASE SendAttempt
    BY <1>1, <1>9 DEF SendAttempt, QueueInv
  <1>10. CASE AttemptFails
    BY <1>1, <1>10 DEF AttemptFails, QueueInv
  <1>11. CASE MarkDelivered
    <2>1. current \notin todo /\ current \notin batch
      BY <1>1, <1>11 DEF MarkDelivered, WorkInv, QueueInv
    <2>2. \A b \in Alerts : outbox'[b] = IF b = current THEN "delivered" ELSE outbox[b]
      BY <1>1, <1>11 DEF MarkDelivered, AlertTypeOK
    <2>3. /\ todo' = todo /\ confirmed' = confirmed /\ batch' = batch
          /\ todo \subseteq Alerts /\ batch \subseteq Alerts
      BY <1>1, <1>11 DEF MarkDelivered, AlertTypeOK
    <2>4. outbox[current] = "pending"
      BY <1>11 DEF MarkDelivered
    <2> QED BY <1>1, <2>1, <2>2, <2>3, <2>4 DEF QueueInv
  <1>12. CASE MarkFailed
    BY <1>1, <1>12 DEF MarkFailed, QueueInv
  <1>13. ASSUME UNCHANGED aircraftVars PROVE QueueInv'
    BY <1>1, <1>13 DEF aircraftVars, QueueInv
  <1> QED BY <1>2, <1>3, <1>4, <1>5, <1>6, <1>7, <1>8, <1>9, <1>10, <1>11, <1>12,
             <1>13, ElsewhereSteps DEF Next

LEMMA LinkIsKept == ASSUME AlertInv, [Next]_vars PROVE LinkInv'
  <1> USE DeliveryAssumption
  <1>1. AlertTypeOK /\ WorkInv /\ QueueInv /\ LinkInv
    BY DEF AlertInv
  <1>2. requests \subseteq Packets /\ \A p \in Packets : p.alert \in Alerts
    BY <1>1 DEF AlertTypeOK, Packets
  <1>3. ASSUME CloseSocket, UNCHANGED outbox PROVE LinkInv'
    BY <1>1, <1>3, ClosedSocket DEF LinkInv
  <1>4. CASE Start
    BY <1>1, <1>4 DEF Start, LinkInv, receiverVars
  <1>5. CASE Stop
    BY <1>3, <1>5 DEF Stop
  <1>6. ASSUME NEW a \in Alerts, RetryNext(a) PROVE LinkInv'
    BY <1>1, <1>6 DEF RetryNext, LinkInv, receiverVars
  <1>7. ASSUME NEW a \in Alerts, DeliverNext(a) PROVE LinkInv'
    <2>1. outbox[a] = "absent"
      BY <1>1, <1>7 DEF DeliverNext, QueueInv
    <2>2. \A b \in Alerts : outbox'[b] = IF b = a THEN "pending" ELSE outbox[b]
      BY <1>1, <1>7, <2>1 DEF DeliverNext, AlertTypeOK
    <2>3. UNCHANGED <<requests, acks, handling, recorded>>
      BY <1>7 DEF DeliverNext, receiverVars
    <2> QED BY <1>1, <1>2, <2>1, <2>2, <2>3 DEF LinkInv
  <1>8. ASSUME NEW a \in Alerts, TakeAcknowledgement(a) PROVE LinkInv'
    BY <1>3, <1>8 DEF TakeAcknowledgement
  <1>9. CASE RetryDone
    BY <1>1, <1>9 DEF RetryDone, LinkInv, receiverVars
  <1>10. ASSUME NEW new \in SUBSET Alerts, ConfirmTargets(new) PROVE LinkInv'
    BY <1>1, <1>10 DEF ConfirmTargets, LinkInv, receiverVars
  <1>11. CASE SendAttempt
    BY <1>1, <1>11 DEF SendAttempt, WorkInv, LinkInv, receiverVars
  <1>12. CASE AttemptFails
    BY <1>3, <1>12 DEF AttemptFails
  <1>13. CASE MarkDelivered
    <2>1. current \in recorded
      BY <1>1, <1>13 DEF MarkDelivered, WorkInv
    <2>2. \A b \in Alerts : outbox'[b] = IF b = current THEN "delivered" ELSE outbox[b]
      BY <1>1, <1>13 DEF MarkDelivered, AlertTypeOK
    <2>3. UNCHANGED <<requests, acks, handling, recorded>>
      BY <1>13 DEF MarkDelivered, receiverVars
    <2> QED BY <1>1, <1>2, <2>1, <2>2, <2>3 DEF LinkInv
  <1>14. CASE MarkFailed
    BY <1>1, <1>14 DEF MarkFailed, LinkInv, receiverVars
  <1>15. CASE LinkLoses
    BY <1>1, <1>15 DEF LinkLoses, LinkInv, aircraftVars, receiverVars
  <1>16. ASSUME NEW p \in requests, Receive(p) PROVE LinkInv'
    <2>1. handling'.alert \in recorded' /\ recorded \subseteq recorded'
      BY <1>16 DEF Receive
    <2>2. requests' \subseteq requests /\ UNCHANGED <<acks, outbox>>
      BY <1>16 DEF Receive, aircraftVars
    <2> QED BY <1>1, <2>1, <2>2 DEF LinkInv
  <1>17. CASE Answer
    <2>1. handling \in Handled /\ handling.alert \in recorded
      BY <1>1, <1>17 DEF Answer, AlertTypeOK, LinkInv
    <2>2. handling'.alert = handling.alert
      BY <1>17, <2>1 DEF Answer, Handled
    <2>3. /\ acks' = acks \union {[alert |-> handling.alert, live |-> handling.live]}
          /\ UNCHANGED <<requests, outbox, recorded>>
      BY <1>17 DEF Answer, aircraftVars
    <2> QED BY <1>1, <2>1, <2>2, <2>3 DEF LinkInv
  <1>18. CASE Return
    BY <1>1, <1>18 DEF Return, LinkInv, aircraftVars
  <1>19. CASE ReceiverStops
    BY <1>1, <1>19 DEF ReceiverStops, LinkInv, aircraftVars
  <1>20. CASE ReceiverStarts
    BY <1>1, <1>20 DEF ReceiverStarts, LinkInv, aircraftVars
  <1>21. CASE UNCHANGED vars
    BY <1>1, <1>21 DEF LinkInv, vars, aircraftVars, receiverVars
  <1> QED BY <1>4, <1>5, <1>6, <1>7, <1>8, <1>9, <1>10, <1>11, <1>12, <1>13, <1>14,
             <1>15, <1>16, <1>17, <1>18, <1>19, <1>20, <1>21 DEF Next

LEMMA ShownIsKept == ASSUME AlertInv, [Next]_vars PROVE RecordedIsShown'
  <1>1. AlertTypeOK /\ RecordedIsShown
    BY DEF AlertInv
  <1>2. ASSUME UNCHANGED <<recorded, handling, shown, unreported>> PROVE RecordedIsShown'
    BY <1>1, <1>2 DEF RecordedIsShown
  <1>3. ASSUME CloseSocket PROVE RecordedIsShown'
    BY <1>1, <1>3, ClosedSocket DEF RecordedIsShown
  <1>4. ASSUME NEW p \in requests, Receive(p) PROVE RecordedIsShown'
    <2>1. p.alert \in Alerts /\ p.live \in BOOLEAN
      BY <1>1 DEF AlertTypeOK, Packets
    <2>2. handling' \in Handled /\ handling'.alert = p.alert
      BY <1>4, <2>1 DEF Receive, Handled
    <2>3. handling' # None
      BY <2>2, DeliveryAssumption
    <2>4. /\ handling = None /\ recorded' = recorded \union {p.alert}
          /\ UNCHANGED <<shown, unreported>>
      BY <1>4 DEF Receive
    <2> QED BY <1>1, <2>2, <2>3, <2>4 DEF RecordedIsShown
  <1>5. CASE Answer
    <2>1. handling \in Handled
      BY <1>1, <1>5 DEF Answer, AlertTypeOK
    <2>2. handling' \in Handled /\ handling'.alert = handling.alert
      BY <1>5, <2>1 DEF Answer, Handled
    <2>3. handling' # None
      BY <2>2, DeliveryAssumption
    <2>4. UNCHANGED <<recorded, shown, unreported>>
      BY <1>5 DEF Answer
    <2> QED BY <1>1, <2>2, <2>3, <2>4 DEF RecordedIsShown
  <1>6. CASE Return
    BY <1>1, <1>6 DEF Return, RecordedIsShown
  <1>7. CASE ReceiverStops
    BY <1>1, <1>7 DEF ReceiverStops, RecordedIsShown
  <1>8. CASE Stop \/ AttemptFails \/ \E a \in Alerts : TakeAcknowledgement(a)
    BY <1>3, <1>8 DEF Stop, AttemptFails, TakeAcknowledgement
  <1>9. CASE \/ Start \/ RetryDone \/ SendAttempt \/ MarkDelivered \/ MarkFailed
             \/ \E a \in Alerts : RetryNext(a) \/ DeliverNext(a)
             \/ \E new \in SUBSET Alerts : ConfirmTargets(new)
    BY <1>2, <1>9 DEF Start, RetryDone, SendAttempt, MarkDelivered, MarkFailed,
                      RetryNext, DeliverNext, ConfirmTargets, receiverVars
  <1>10. CASE LinkLoses \/ ReceiverStarts \/ UNCHANGED vars
    BY <1>2, <1>10 DEF LinkLoses, ReceiverStarts, vars, receiverVars
  <1> QED BY <1>4, <1>5, <1>6, <1>7, <1>8, <1>9, <1>10 DEF Next

\* The inductive invariant of the alert link.
THEOREM AlertInvariant == Spec => []AlertInv
  <1>1. AlertInv /\ [Next]_vars => AlertInv'
    BY TypesAreKept, WorkIsKept, QueuesAreKept, LinkIsKept, ShownIsKept DEF AlertInv
  <1> QED BY <1>1, AlertInitially, PTL DEF Spec

\* Type correctness: in particular no alert is sent more often than configured.
THEOREM AlertTypes == Spec => []AlertTypeOK
  <1>1. AlertInv => AlertTypeOK
    BY DEF AlertInv
  <1> QED BY <1>1, AlertInvariant, PTL

\* mark_delivered and mark_failed find the row of the alert at hand pending,
\* however old the snapshot a start took it from.
THEOREM OutcomeRows == Spec => []OutcomeFindsItsRow
  <1>1. AlertInv => OutcomeFindsItsRow
    BY DEF AlertInv, WorkInv, OutcomeFindsItsRow
  <1> QED BY <1>1, AlertInvariant, PTL

\* An alert marked delivered was returned to the ground's program, unless that
\* program ended between recording and returning it.
THEOREM DeliveredAlertsShown == Spec => []DeliveredIsShown
  <1>1. AlertInv => DeliveredIsShown
    BY DEF AlertInv, LinkInv, RecordedIsShown, DeliveredIsShown
  <1> QED BY <1>1, AlertInvariant, PTL
------------------------------------------------------------------------------
\* The rows of the store stand in a total order, each behind fewer than Capacity.
RowsInv ==
  /\ \A b \in seen : above[b] \subseteq seen \ {b} /\ Cardinality(above[b]) < Capacity
  /\ \A b \in seen : \A c \in above[b] : above[c] \subseteq above[b]
  /\ \A b, c \in seen : b = c \/ b \in above[c] \/ c \in above[b]

\* Beside the window itself: what stands before an ordered row was received later.
WindowInv ==
  /\ DuplicateWindow
  /\ \A b \in ordered : b \in seen => above[b] = since[b]

StoreInv == RowsInv /\ WindowInv

\* Sets of alerts are finite, and a smaller one has no more elements.
LEMMA AlertSets ==
  ASSUME NEW S \in SUBSET Alerts, NEW T \in SUBSET S
  PROVE  /\ IsFiniteSet(S) /\ Cardinality(S) \in Nat /\ Cardinality(T) \in Nat
         /\ Cardinality(T) <= Cardinality(S)
         /\ T # S => Cardinality(T) < Cardinality(S)
  <1>1. IsFiniteSet(Alerts)
    BY FS_Interval, DeliveryAssumption DEF Alerts
  <1>2. IsFiniteSet(S)
    BY <1>1, FS_Subset
  <1>3. /\ IsFiniteSet(T) /\ Cardinality(T) <= Cardinality(S)
        /\ T # S => Cardinality(T) < Cardinality(S)
    BY <1>2, FS_Subset, FS_CardinalityType
  <1> QED BY <1>2, <1>3, FS_CardinalityType

LEMMA AllAlerts == Cardinality(Alerts) >= Capacity /\ Capacity \in Nat \ {0}
  <1>1. Cardinality(1 .. AlertCount) = IF 1 > AlertCount THEN 0 ELSE AlertCount - 1 + 1
    BY FS_Interval, DeliveryAssumption
  <1> QED BY <1>1, DeliveryAssumption DEF Alerts

\* Rows in a total order, each behind fewer than Capacity, are at most Capacity:
\* different rows have different numbers of rows before them.
LEMMA RowsAreFew == ASSUME AlertTypeOK, RowsInv PROVE Cardinality(seen) <= Capacity
  <1> DEFINE place == [b \in seen |-> Cardinality(above[b])]
             places == 0 .. Capacity - 1
  <1>1. ASSUME NEW b \in seen
        PROVE  above[b] \in SUBSET Alerts /\ b \notin above[b] /\ Cardinality(above[b]) \in places
    <2>1. above[b] \in SUBSET Alerts /\ b \notin above[b]
      BY DEF AlertTypeOK, RowsInv
    <2>2. Cardinality(above[b]) \in Nat
      BY <2>1, AlertSets
    <2>3. Cardinality(above[b]) < Capacity
      BY DEF RowsInv
    <2> QED BY <2>1, <2>2, <2>3, AllAlerts
  <1>2. ASSUME NEW b \in seen, NEW c \in seen, c \in above[b]
        PROVE  Cardinality(above[c]) # Cardinality(above[b])
    <2>1. above[c] \in SUBSET above[b] /\ above[c] # above[b]
      BY <1>1, <1>2 DEF RowsInv
    <2>2. /\ Cardinality(above[c]) \in Nat /\ Cardinality(above[b]) \in Nat
          /\ Cardinality(above[c]) < Cardinality(above[b])
      BY <1>1, <2>1, AlertSets
    <2> QED BY <2>2
  <1>3. place \in Injection(seen, places)
    <2>1. place \in [seen -> places]
      BY <1>1
    <2>2. \A b, c \in seen : place[b] = place[c] => b = c
      BY <1>2 DEF RowsInv
    <2> QED BY <2>1, <2>2 DEF Injection, IsInjective
  <1>4. IsFiniteSet(places) /\ Cardinality(places) = Capacity
    <2>1. 0 \in Int /\ Capacity - 1 \in Int /\ ~(0 > Capacity - 1)
      BY AllAlerts
    <2>2. /\ IsFiniteSet(places)
          /\ Cardinality(places) = IF 0 > Capacity - 1 THEN 0 ELSE Capacity - 1 - 0 + 1
      BY <2>1, FS_Interval
    <2> QED BY <2>1, <2>2, AllAlerts
  <1> HIDE DEF place, places
  <1> QED BY <1>3, <1>4, FS_Injection

\* A reception puts the row of a behind the rows in before, wherever they end,
\* and the rows stay in a total order; only a full store drops any.
LEMMA RowsMove ==
  ASSUME AlertTypeOK, RowsInv, NEW a \in Alerts, NEW before \in Places(a),
         seen' = Remember(a, before),
         above' = [b \in Alerts |-> IF b \in seen' THEN Placed(a, before)[b] ELSE {}]
  PROVE  /\ RowsInv'
         /\ seen' \subseteq seen \union {a}
         /\ \A b \in seen \union {a} : Placed(a, before)[b] \subseteq (seen \union {a}) \ {b}
         /\ \A b \in seen \union {a} : b \in seen' <=> Cardinality(Placed(a, before)[b]) < Capacity
  <1> DEFINE rows == seen \union {a}
             placed == Placed(a, before)
  <1>1. seen \subseteq Alerts /\ above \in [Alerts -> SUBSET Alerts] /\ rows \in SUBSET Alerts
    BY DEF AlertTypeOK
  <1>2. /\ before \subseteq seen \ {a}
        /\ \A b \in before : above[b] \ {a} \subseteq before
    BY DEF Places
  <1>3. \A b \in Alerts : placed[b] = IF b = a THEN before
                                      ELSE IF b \in before THEN above[b] \ {a}
                                      ELSE above[b] \union {a}
    BY DEF Placed
  <1> HIDE DEF placed
  <1>4. ASSUME NEW b \in rows PROVE placed[b] \subseteq rows \ {b}
    <2>1. b \in Alerts
      BY <1>1, <1>4
    <2>2. CASE b = a
      BY <1>2, <1>3, <2>1, <2>2
    <2>3. CASE b # a
      <3>1. b \in seen /\ above[b] \subseteq seen \ {b}
        BY <1>4, <2>3 DEF RowsInv
      <3>2. placed[b] \subseteq above[b] \union {a}
        BY <1>3, <2>1, <2>3
      <3> QED BY <2>3, <3>1, <3>2
    <2> QED BY <2>2, <2>3
  <1>5. ASSUME NEW b \in rows, NEW c \in placed[b] PROVE placed[c] \subseteq placed[b]
    <2>1. c \in rows /\ c # b /\ b \in Alerts /\ c \in Alerts
      BY <1>1, <1>4, <1>5
    <2>2. CASE b = a
      BY <1>1, <1>2, <1>3, <1>5, <2>1, <2>2
    <2>3. CASE b \in before
      <3>1. b # a /\ placed[b] = above[b] \ {a} /\ c \in above[b] /\ c # a /\ b \in seen
        BY <1>2, <1>3, <1>5, <2>1, <2>3
      <3>2. c \in before
        BY <1>2, <2>3, <3>1
      <3>3. placed[c] = above[c] \ {a}
        BY <1>3, <2>1, <3>1, <3>2
      <3>4. above[c] \subseteq above[b]
        BY <3>1 DEF RowsInv
      <3> QED BY <3>1, <3>3, <3>4
    <2>4. CASE b # a /\ b \notin before
      <3>1. placed[b] = above[b] \union {a} /\ b \in seen
        BY <1>3, <2>1, <2>4
      <3>2. CASE c = a
        <4>1. placed[c] = before
          BY <1>3, <2>1, <3>2
        <4>2. ASSUME NEW d \in before PROVE d \in above[b]
          <5>1. d \in seen /\ d # b /\ d # a
            BY <1>2, <2>4, <4>2
          <5>2. b \notin above[d]
            BY <1>2, <2>4, <4>2
          <5> QED BY <3>1, <5>1, <5>2 DEF RowsInv
        <4> QED BY <3>1, <4>1, <4>2
      <3>3. CASE c # a
        <4>1. c \in above[b]
          BY <1>5, <3>1, <3>3
        <4>2. above[c] \subseteq above[b]
          BY <3>1, <4>1 DEF RowsInv
        <4>3. placed[c] \subseteq above[c] \union {a}
          BY <1>3, <2>1, <3>3
        <4> QED BY <3>1, <4>2, <4>3
      <3> QED BY <3>2, <3>3
    <2> QED BY <2>2, <2>3, <2>4
  <1>6. ASSUME NEW b \in rows, NEW c \in rows
        PROVE  b = c \/ b \in placed[c] \/ c \in placed[b]
    <2>1. b \in Alerts /\ c \in Alerts
      BY <1>1
    <2>2. ASSUME NEW d \in seen, d # a PROVE d \in placed[a] \/ a \in placed[d]
      <3>1. d \in Alerts
        BY <1>1
      <3> QED BY <1>3, <2>2, <3>1
    <2>3. CASE b = a \/ c = a
      BY <2>2, <2>3
    <2>4. CASE b # a /\ c # a
      <3>1. b \in seen /\ c \in seen
        BY <2>4
      <3>2. b = c \/ b \in above[c] \/ c \in above[b]
        BY <3>1 DEF RowsInv
      <3>3. \A d \in Alerts : d # a => above[d] \ {a} \subseteq placed[d]
        BY <1>3
      <3> QED BY <2>1, <2>4, <3>2, <3>3
    <2> QED BY <2>3, <2>4
  <1>7. ASSUME NEW b \in rows, NEW c \in placed[b]
        PROVE  Cardinality(placed[b]) < Capacity => Cardinality(placed[c]) < Capacity
    <2>1. c \in rows /\ placed[b] \in SUBSET Alerts /\ placed[c] \in SUBSET placed[b]
      BY <1>1, <1>4, <1>5, <1>7
    <2>2. /\ Cardinality(placed[b]) \in Nat /\ Cardinality(placed[c]) \in Nat
          /\ Cardinality(placed[c]) <= Cardinality(placed[b])
      BY <2>1, AlertSets
    <2> QED BY <2>2, AllAlerts
  <1>8. \A b \in rows : b \in seen' <=> Cardinality(placed[b]) < Capacity
    <2>1. CASE a \notin seen
      BY <2>1 DEF Remember, placed
    <2>2. CASE a \in seen
      <3>1. seen' = seen /\ rows = seen
        BY <2>2 DEF Remember
      <3>2. ASSUME NEW b \in seen PROVE Cardinality(placed[b]) < Capacity
        <4>1. placed[b] \in SUBSET seen /\ placed[b] # seen /\ seen \in SUBSET Alerts
          BY <1>1, <1>4, <3>1, <3>2
        <4>2. /\ Cardinality(placed[b]) \in Nat /\ Cardinality(seen) \in Nat
              /\ Cardinality(placed[b]) < Cardinality(seen)
          BY <4>1, AlertSets
        <4> QED BY <4>2, RowsAreFew, AllAlerts
      <3> QED BY <3>1, <3>2
    <2> QED BY <2>1, <2>2
  <1>9. seen' \subseteq rows
    BY DEF Remember
  <1>10. \A b \in seen' : above'[b] = placed[b]
    BY <1>1, <1>9 DEF placed
  <1>11. \A b \in seen' : placed[b] \subseteq seen'
    BY <1>4, <1>7, <1>8, <1>9
  <1>12. RowsInv'
    <2>1. ASSUME NEW b \in seen'
          PROVE  above'[b] \subseteq seen' \ {b} /\ Cardinality(above'[b]) < Capacity
      BY <1>4, <1>8, <1>9, <1>10, <1>11, <2>1
    <2>2. ASSUME NEW b \in seen', NEW c \in above'[b] PROVE above'[c] \subseteq above'[b]
      BY <1>5, <1>9, <1>10, <1>11, <2>2
    <2>3. ASSUME NEW b \in seen', NEW c \in seen'
          PROVE  b = c \/ b \in above'[c] \/ c \in above'[b]
      BY <1>6, <1>9, <1>10, <2>3
    <2> QED BY <2>1, <2>2, <2>3 DEF RowsInv
  <1> QED BY <1>4, <1>8, <1>9, <1>12 DEF placed

\* The window over a reception: a row that comes to stand first pushes exactly
\* the rows of the alerts received before it; nothing is dropped but by a full
\* store, wherever the row comes to stand.
LEMMA WindowSlides ==
  ASSUME AlertTypeOK, StoreInv, NEW p \in requests, Receive(p)
  PROVE  StoreInv'
  <1> DEFINE a == p.alert
  <1>1. a \in Alerts
    BY DEF AlertTypeOK, Packets
  <1>2. PICK before \in Places(a) :
          /\ seen' = Remember(a, before)
          /\ above' = [b \in Alerts |-> IF b \in seen' THEN Placed(a, before)[b] ELSE {}]
          /\ ordered' = IF before = {} THEN ordered \union {a} ELSE {}
    BY DEF Receive
  <1>3. since' = [b \in Alerts |-> IF b = a THEN {} ELSE since[b] \union {a}]
    BY DEF Receive
  <1> HIDE DEF a
  <1> DEFINE rows == seen \union {a}
             placed == Placed(a, before)
  <1>4. /\ seen \subseteq Alerts /\ since \in [Alerts -> SUBSET Alerts]
        /\ above \in [Alerts -> SUBSET Alerts] /\ ordered \subseteq Alerts
    BY DEF AlertTypeOK
  <1>5. /\ RowsInv' /\ seen' \subseteq rows
        /\ \A b \in rows : placed[b] \subseteq rows \ {b}
        /\ \A b \in rows : b \in seen' <=> Cardinality(placed[b]) < Capacity
    BY <1>1, <1>2, RowsMove DEF StoreInv
  <1>6. \A b \in Alerts : since'[b] = IF b = a THEN {} ELSE since[b] \union {a}
    BY <1>3
  <1>7. Arrived' = Arrived \union {a}
    <2>1. \A b \in Alerts : b \notin since'[b] <=> b = a \/ b \notin since[b]
      BY <1>6
    <2> QED BY <1>1, <2>1 DEF Arrived
  <1>8. seen \subseteq Arrived /\ (seen # Arrived => Cardinality(Arrived) > Capacity)
    BY DEF StoreInv, WindowInv, DuplicateWindow
  <1>9. Arrived \in SUBSET Alerts /\ Arrived' \in SUBSET Alerts
    BY <1>1, <1>7 DEF Arrived
  <1>10. seen' # Arrived' => Cardinality(Arrived') > Capacity
    <2>1. CASE seen # Arrived
      <3>1. Arrived \in SUBSET Arrived'
        BY <1>7
      <3>2. /\ Cardinality(Arrived) \in Nat /\ Cardinality(Arrived') \in Nat
            /\ Cardinality(Arrived) <= Cardinality(Arrived')
        BY <1>9, <3>1, AlertSets
      <3> QED BY <1>8, <2>1, <3>2, AllAlerts
    <2>2. CASE seen = Arrived /\ seen' # Arrived'
      <3>1. PICK b \in rows : b \notin seen'
        BY <1>5, <1>7, <2>2
      <3>2. ~(Cardinality(placed[b]) < Capacity)
        BY <1>5, <3>1
      <3>3. placed[b] \in SUBSET Arrived' /\ placed[b] # Arrived'
        BY <1>5, <1>7, <2>2
      <3> HIDE DEF placed
      <3>4. /\ Cardinality(placed[b]) \in Nat /\ Cardinality(Arrived') \in Nat
            /\ Cardinality(placed[b]) < Cardinality(Arrived')
        BY <1>9, <3>3, AlertSets
      <3> QED BY <3>2, <3>4, AllAlerts
    <2> QED BY <2>1, <2>2
  <1>11. CASE before # {}
    BY <1>2, <1>5, <1>7, <1>8, <1>10, <1>11 DEF StoreInv, WindowInv, DuplicateWindow
  <1>12. CASE before = {}
    <2>1. ordered' = ordered \union {a}
      BY <1>2, <1>12
    <2>2. \A b \in rows : b # a => placed[b] = above[b] \union {a}
      BY <1>4, <1>12 DEF Placed
    <2>3. placed[a] = {} /\ since'[a] = {}
      BY <1>1, <1>6, <1>12 DEF Placed
    <2> HIDE DEF placed
    <2>4. ASSUME NEW b \in ordered', b \in rows PROVE placed[b] = since'[b]
      <3>1. CASE b = a
        BY <2>3, <3>1
      <3>2. CASE b # a
        <4>1. b \in ordered /\ b \in seen /\ b \in Alerts
          BY <1>4, <2>1, <2>4, <3>2
        <4>2. above[b] = since[b]
          BY <4>1 DEF StoreInv, WindowInv
        <4> QED BY <1>6, <2>2, <2>4, <3>2, <4>1, <4>2
      <3> QED BY <3>1, <3>2
    <2>5. ASSUME NEW b \in ordered' PROVE b \in seen' <=> Cardinality(since'[b]) < Capacity
      <3>1. CASE b \in rows
        BY <1>5, <2>4, <3>1
      <3>2. CASE b \notin rows
        <4>1. b \in ordered /\ b \in Alerts /\ b # a /\ b \notin seen /\ b \notin seen'
          BY <1>4, <1>5, <2>1, <2>5, <3>2
        <4>2. ~(Cardinality(since[b]) < Capacity)
          BY <4>1 DEF StoreInv, WindowInv, DuplicateWindow
        <4>3. since[b] \in SUBSET since'[b] /\ since'[b] \in SUBSET Alerts
          BY <1>1, <1>4, <1>6, <4>1
        <4>4. /\ Cardinality(since[b]) \in Nat /\ Cardinality(since'[b]) \in Nat
              /\ Cardinality(since[b]) <= Cardinality(since'[b])
          BY <4>3, AlertSets
        <4> QED BY <4>1, <4>2, <4>4, AllAlerts
      <3> QED BY <3>1, <3>2
    <2>6. \A b \in ordered' : b \in seen' => above'[b] = since'[b]
      <3>1. \A b \in seen' : b \in Alerts /\ above'[b] = Placed(a, before)[b]
        BY <1>1, <1>2, <1>4, <1>5
      <3> QED BY <1>5, <2>4, <3>1 DEF placed
    <2> QED BY <1>5, <1>7, <1>8, <1>10, <2>5, <2>6
        DEF StoreInv, WindowInv, DuplicateWindow
  <1> QED BY <1>11, <1>12

\* A store that has received nothing.
LEMMA EmptyStore ==
  ASSUME seen = {}, since = [b \in Alerts |-> Alerts], ordered = {} PROVE StoreInv
  <1>1. Arrived = {}
    BY DEF Arrived
  <1> QED BY <1>1 DEF StoreInv, RowsInv, WindowInv, DuplicateWindow

LEMMA StoreIsKept ==
  ASSUME AlertTypeOK, StoreInv, [Next]_vars PROVE StoreInv'
  <1>1. ASSUME UNCHANGED storeVars PROVE StoreInv'
    BY <1>1 DEF storeVars, StoreInv, RowsInv, WindowInv, DuplicateWindow, Arrived
  <1>2. CASE ReceiverStops
    <2>1. CASE store = "durable"
      BY <1>1, <1>2, <2>1 DEF ReceiverStops
    <2>2. CASE store # "durable"
      <3>1. seen' = {} /\ since' = [b \in Alerts |-> Alerts] /\ ordered' = {}
        BY <1>2, <2>2 DEF ReceiverStops
      <3>2. Arrived' = {}
        BY <3>1 DEF Arrived
      <3> QED BY <3>1, <3>2 DEF StoreInv, RowsInv, WindowInv, DuplicateWindow
    <2> QED BY <2>1, <2>2
  <1>3. CASE \E p \in requests : Receive(p)
    BY <1>3, WindowSlides
  <1>4. CASE \/ Start \/ Stop \/ RetryDone \/ SendAttempt \/ AttemptFails \/ MarkDelivered
             \/ MarkFailed
             \/ \E a \in Alerts : RetryNext(a) \/ DeliverNext(a) \/ TakeAcknowledgement(a)
             \/ \E new \in SUBSET Alerts : ConfirmTargets(new)
    <2>1. UNCHANGED storeVars
      BY <1>4 DEF Start, Stop, RetryDone, SendAttempt, AttemptFails, MarkDelivered,
                  MarkFailed, RetryNext, DeliverNext, TakeAcknowledgement,
                  ConfirmTargets, CloseSocket, receiverVars
    <2> QED BY <1>1, <2>1
  <1>5. CASE LinkLoses \/ Answer \/ Return \/ ReceiverStarts \/ UNCHANGED vars
    BY <1>1, <1>5 DEF LinkLoses, Answer, Return, ReceiverStarts, vars, receiverVars
  <1> QED BY <1>2, <1>3, <1>4, <1>5 DEF Next

\* The inductive invariant of the receiver's store: its rows are in a total order
\* and within its capacity, and the window says which alerts have one.
THEOREM StoreInvariant == Spec => []StoreInv
  <1>1. Init => StoreInv
    BY EmptyStore DEF Init
  <1>2. AlertTypeOK /\ StoreInv /\ [Next]_vars => StoreInv'
    BY StoreIsKept
  <1> QED BY <1>1, <1>2, AlertTypes, PTL DEF Spec

\* What the receiver's store tells of duplicates, for every capacity, over
\* restarts when it is a file, and with a clock that may step back: no alert it
\* has not received, none forgotten before the capacity is exceeded, and exactly
\* the last Capacity received as far as rows came to stand first.
THEOREM DuplicatesTold == Spec => []DuplicateWindow
  <1>1. StoreInv => DuplicateWindow
    BY DEF StoreInv, WindowInv
  <1> QED BY <1>1, StoreInvariant, PTL

\* The store never holds more identifiers than its capacity, for every capacity,
\* every order in which alerts are received and every reading of the clock.
THEOREM StoreIsBounded == Spec => [](Cardinality(seen) <= Capacity)
  <1>1. AlertTypeOK /\ StoreInv => Cardinality(seen) <= Capacity
    BY RowsAreFew DEF StoreInv
  <1> QED BY <1>1, StoreInvariant, AlertTypes, PTL
------------------------------------------------------------------------------
\* A packet that can still be taken belongs to the attempt that waits now: the
\* sockets of earlier attempts are closed, whatever of theirs is on the way.
LiveInv ==
  /\ \A p \in requests \union acks : p.live => p.alert = current /\ stage = "waiting"
  /\ handling # None /\ handling.live => handling.alert = current /\ stage = "waiting"

\* No live packet outlives its socket.
LEMMA ClosedSocketLive == ASSUME AlertTypeOK, CloseSocket PROVE LiveInv'
  <1>1. \A p \in Packets : [p EXCEPT !.live = FALSE].live = FALSE
    BY DEF Packets
  <1>2. \A h \in Handled : [h EXCEPT !.live = FALSE].live = FALSE
    BY DEF Handled
  <1>3. requests \subseteq Packets /\ acks \subseteq Packets
        /\ handling \in Handled \union {None}
    BY DEF AlertTypeOK
  <1>4. \A p \in requests' \union acks' : p.live = FALSE
    BY <1>1, <1>3 DEF CloseSocket, Stale
  <1>5. handling' # None => handling'.live = FALSE
    BY <1>2, <1>3 DEF CloseSocket
  <1> QED BY <1>4, <1>5 DEF LiveInv

LEMMA LiveIsKept == ASSUME AlertInv, LiveInv, [Next]_vars PROVE LiveInv'
  <1>1. AlertTypeOK /\ WorkInv
    BY DEF AlertInv
  <1>2. CASE Stop \/ AttemptFails \/ \E a \in Alerts : TakeAcknowledgement(a)
    BY <1>1, <1>2, ClosedSocketLive DEF Stop, AttemptFails, TakeAcknowledgement
  <1>3. ASSUME stage # "waiting", UNCHANGED <<requests, acks, handling>> PROVE LiveInv'
    BY <1>3 DEF LiveInv
  <1>4. CASE \/ MarkDelivered \/ MarkFailed
             \/ \E a \in Alerts : RetryNext(a) \/ DeliverNext(a)
    BY <1>1, <1>3, <1>4 DEF MarkDelivered, MarkFailed, RetryNext, DeliverNext, WorkInv,
                            receiverVars
  <1>5. CASE SendAttempt
    <2> DEFINE sent == [alert |-> current, live |-> TRUE]
    <2>1. /\ stage' = "waiting" /\ current' = current
          /\ requests' = requests \union {sent}
          /\ UNCHANGED <<acks, handling>>
      BY <1>5 DEF SendAttempt, receiverVars
    <2>2. sent.alert = current
      OBVIOUS
    <2> HIDE DEF sent
    <2> QED BY <2>1, <2>2 DEF LiveInv
  <1>6. CASE Start \/ RetryDone \/ \E new \in SUBSET Alerts : ConfirmTargets(new)
    BY <1>6 DEF Start, RetryDone, ConfirmTargets, LiveInv, receiverVars
  <1>7. ASSUME NEW p \in requests, Receive(p) PROVE LiveInv'
    <2>1. /\ requests' \subseteq requests /\ UNCHANGED <<acks, current, stage>>
          /\ handling'.alert = p.alert /\ handling'.live = p.live
      BY <1>7 DEF Receive, aircraftVars
    <2> QED BY <1>7, <2>1 DEF LiveInv
  <1>8. CASE Answer
    <2>1. handling \in Handled
      BY <1>1, <1>8 DEF Answer, AlertTypeOK
    <2> DEFINE answer == [alert |-> handling.alert, live |-> handling.live]
    <2>2. handling'.alert = handling.alert /\ handling'.live = handling.live
      BY <1>8, <2>1 DEF Answer, Handled
    <2>3. acks' = acks \union {answer} /\ UNCHANGED <<requests, current, stage>>
      BY <1>8 DEF Answer, aircraftVars
    <2>4. answer.alert = handling.alert /\ answer.live = handling.live /\ handling # None
      BY <1>8 DEF Answer
    <2> HIDE DEF answer
    <2> QED BY <2>2, <2>3, <2>4 DEF LiveInv
  <1>9. CASE Return \/ ReceiverStops \/ ReceiverStarts \/ LinkLoses \/ UNCHANGED vars
    BY <1>9 DEF Return, ReceiverStops, ReceiverStarts, LinkLoses, LiveInv, vars,
                aircraftVars, receiverVars
  <1> QED BY <1>2, <1>4, <1>5, <1>6, <1>7, <1>8, <1>9 DEF Next

\* Correlation by alert and nonce: an acknowledgement that is taken answers the
\* attempt that waits, never one that timed out or an earlier run's.
THEOREM LivePacketsAreCurrent == Spec => []LiveInv
  <1>1. Init => LiveInv
    BY DEF Init, LiveInv
  <1> QED BY <1>1, LiveIsKept, AlertInvariant, PTL DEF Spec
------------------------------------------------------------------------------
\* What the startup still has to do: the rows of its snapshot and the one at hand.
InRetry == IF pc = "retry" /\ current # None THEN 1 ELSE 0

StartBound == Cardinality(todo) + InRetry <= Limit

\* pending_alerts(limit) returns no more rows than its limit.
LEMMA OldestIsBounded ==
  ASSUME AlertTypeOK PROVE Cardinality(Oldest) <= Limit
  <1> DEFINE older(a) == {b \in Pending : b < a}
             places == 0 .. Limit - 1
             place == [a \in Oldest |-> Cardinality(older(a))]
  <1>1. Limit \in Nat \ {0}
    BY DeliveryAssumption
  <1>2. \A a \in Alerts : a \in Nat
    BY DeliveryAssumption DEF Alerts
  <1>3. Oldest \subseteq Pending /\ Pending \subseteq Alerts
    BY DEF Oldest, Pending
  <1>4. ASSUME NEW a \in Oldest
        PROVE  /\ older(a) \in SUBSET Alerts /\ IsFiniteSet(older(a))
               /\ Cardinality(older(a)) \in Nat /\ Cardinality(older(a)) < Limit
    <2>1. older(a) \in SUBSET Alerts
      BY <1>3
    <2>2. Cardinality(older(a)) < Limit
      BY DEF Oldest
    <2> HIDE DEF older
    <2> QED BY <2>1, <2>2, AlertSets
  <1>5. ASSUME NEW a \in Oldest, NEW c \in Oldest, a < c
        PROVE  Cardinality(older(a)) # Cardinality(older(c))
    <2>1. a \in Nat /\ c \in Nat /\ a \in Pending
      BY <1>2, <1>3
    <2>2. a \in older(c) /\ a \notin older(a)
      BY <1>5, <2>1
    <2>3. older(a) \subseteq older(c)
      <3>1. SUFFICES ASSUME NEW b \in Pending, b < a PROVE b < c
        OBVIOUS
      <3>2. b \in Nat
        BY <1>2, <1>3
      <3> QED BY <1>5, <2>1, <3>1, <3>2
    <2>4. IsFiniteSet(older(c))
      BY <1>4
    <2> HIDE DEF older
    <2>5. older(a) \in SUBSET older(c) /\ older(a) # older(c)
      BY <2>2, <2>3
    <2> QED BY <2>4, <2>5, FS_Subset
  <1>6. place \in Injection(Oldest, places)
    <2>1. \A a \in Oldest : Cardinality(older(a)) \in places
      <3> HIDE DEF older
      <3> QED BY <1>1, <1>4
    <2>2. \A a, c \in Oldest : place[a] = place[c] => a = c
      <3>1. SUFFICES ASSUME NEW a \in Oldest, NEW c \in Oldest, a # c
                     PROVE  Cardinality(older(a)) # Cardinality(older(c))
        OBVIOUS
      <3>2. a \in Nat /\ c \in Nat
        BY <1>2, <1>3
      <3>3. a < c \/ c < a
        BY <3>1, <3>2
      <3> HIDE DEF older
      <3> QED BY <1>5, <3>3
    <2> HIDE DEF older, places
    <2> QED BY <2>1, <2>2 DEF Injection, IsInjective
  <1>7. IsFiniteSet(places) /\ Cardinality(places) = Limit
    <2>1. 0 \in Int /\ Limit - 1 \in Int /\ ~(0 > Limit - 1)
      BY <1>1
    <2>2. /\ IsFiniteSet(places)
          /\ Cardinality(places) = IF 0 > Limit - 1 THEN 0 ELSE Limit - 1 - 0 + 1
      BY <2>1, FS_Interval
    <2> QED BY <1>1, <2>1, <2>2
  <1> HIDE DEF place, places
  <1> QED BY <1>6, <1>7, FS_Injection

LEMMA StartBoundIsKept == ASSUME AlertInv, StartBound, [Next]_vars PROVE StartBound'
  <1> USE DeliveryAssumption
  <1>1. AlertTypeOK /\ WorkInv
    BY DEF AlertInv
  <1>2. todo \in SUBSET Alerts /\ IsFiniteSet(todo) /\ Cardinality(todo) \in Nat
    BY <1>1, AlertSets DEF AlertTypeOK
  <1>3. CASE Start
    <2>1. todo' = Oldest /\ InRetry' = 0
      BY <1>1, <1>3 DEF Start, WorkInv, InRetry
    <2>2. Cardinality(Oldest) <= Limit /\ Oldest \in SUBSET Alerts
      BY <1>1, OldestIsBounded DEF Oldest, Pending
    <2>3. Cardinality(Oldest) \in Nat
      BY <2>2, AlertSets
    <2> QED BY <2>1, <2>2, <2>3 DEF StartBound
  <1>4. CASE Stop
    <2>1. todo' = {} /\ InRetry' = 0
      BY <1>4 DEF Stop, InRetry
    <2> QED BY <2>1, FS_EmptySet DEF StartBound
  <1>5. ASSUME NEW a \in Alerts, RetryNext(a) PROVE StartBound'
    <2>1. a \in todo /\ todo' = todo \ {a} /\ InRetry' = 1
      BY <1>5 DEF RetryNext, InRetry
    <2>2. Cardinality(todo \ {a}) = Cardinality(todo) - 1
      BY <1>2, <2>1, FS_RemoveElement
    <2>3. Cardinality(todo) <= Limit
      <3>1. InRetry = 0
        BY <1>5 DEF RetryNext, InRetry
      <3> QED BY <1>2, <3>1 DEF StartBound
    <2> QED BY <1>2, <2>1, <2>2, <2>3 DEF StartBound
  <1>6. ASSUME UNCHANGED todo, InRetry' <= InRetry PROVE StartBound'
    <2>1. InRetry \in Nat /\ InRetry' \in Nat
      BY DEF InRetry
    <2> HIDE DEF InRetry
    <2> QED BY <1>2, <1>6, <2>1 DEF StartBound
  <1>7. ASSUME UNCHANGED <<todo, pc, current>> PROVE StartBound'
    <2>1. InRetry' = InRetry /\ InRetry \in Nat
      BY <1>7 DEF InRetry
    <2> QED BY <1>6, <1>7, <2>1
  <1>8. CASE \/ MarkDelivered \/ MarkFailed \/ RetryDone
             \/ \E a \in Alerts : DeliverNext(a)
    <2>1. UNCHANGED todo /\ ~(pc' = "retry" /\ current' # None)
      BY <1>8 DEF MarkDelivered, MarkFailed, RetryDone, DeliverNext
    <2>2. InRetry' = 0 /\ InRetry \in Nat
      BY <2>1 DEF InRetry
    <2> QED BY <1>6, <2>1, <2>2
  <1>9. CASE \/ SendAttempt \/ AttemptFails
             \/ \E a \in Alerts : TakeAcknowledgement(a)
             \/ \E new \in SUBSET Alerts : ConfirmTargets(new)
    BY <1>7, <1>9 DEF SendAttempt, AttemptFails, TakeAcknowledgement, ConfirmTargets
  <1>10. ASSUME UNCHANGED aircraftVars PROVE StartBound'
    BY <1>7, <1>10 DEF aircraftVars
  <1> QED BY <1>3, <1>4, <1>5, <1>8, <1>9, <1>10, ElsewhereSteps DEF Next

\* A start retries at most Limit rows, however many are pending: the frames are
\* never kept waiting by a longer list.
THEOREM StartIsBounded == Spec => []StartBound
  <1>1. Init => StartBound
    <2>1. Init => Cardinality(todo) = 0 /\ InRetry = 0
      BY FS_EmptySet DEF Init, InRetry
    <2> QED BY <2>1, DeliveryAssumption DEF StartBound
  <1> QED BY <1>1, StartBoundIsKept, AlertInvariant, PTL DEF Spec

\* A step of the startup's retries: the list only shrinks, by the row that is
\* taken up; a row is put down once; and between the two only sends count.
StartupStep ==
  pc = "retry" /\ pc' = "retry" =>
    /\ todo' \subseteq todo
    /\ current' # current => \/ current' = None /\ todo' = todo
                             \/ current = None /\ current' \in todo \ todo'
    /\ current' = current => /\ todo' = todo
                             /\ attempt' >= attempt
                             /\ attempt' > attempt => stage = "ready" /\ stage' = "waiting"

StartupGoesForward == [][StartupStep]_vars

\* What StartupEnds rests on beside fairness: no step of the aircraft, the link
\* or the ground ever gives a startup back work it has done, so with
\* StartIsBounded and at most MaximumAttempts sends per row it is finite.
THEOREM StartupShrinks == Spec => StartupGoesForward
  <1>1. ASSUME AlertInv, [Next]_vars PROVE StartupStep
    <2>1. AlertTypeOK /\ WorkInv /\ attempt \in Nat /\ None \notin Alerts
      BY <1>1, DeliveryAssumption DEF AlertInv, AlertTypeOK
    <2>2. CASE \/ Start \/ Stop \/ RetryDone
               \/ \E a \in Alerts : DeliverNext(a)
               \/ \E new \in SUBSET Alerts : ConfirmTargets(new)
      BY <2>2 DEF Start, Stop, RetryDone, DeliverNext, ConfirmTargets, StartupStep
    <2>3. ASSUME NEW a \in Alerts, RetryNext(a) PROVE StartupStep
      BY <2>1, <2>3 DEF RetryNext, StartupStep
    <2>4. CASE SendAttempt
      BY <2>1, <2>4 DEF SendAttempt, StartupStep
    <2>5. CASE AttemptFails \/ \E a \in Alerts : TakeAcknowledgement(a)
      <3>1. UNCHANGED <<todo, current, attempt>>
        BY <2>5 DEF AttemptFails, TakeAcknowledgement
      <3> QED BY <2>1, <3>1 DEF StartupStep
    <2>6. CASE MarkDelivered \/ MarkFailed
      BY <2>1, <2>6 DEF MarkDelivered, MarkFailed, WorkInv, StartupStep
    <2>7. ASSUME UNCHANGED aircraftVars PROVE StartupStep
      BY <2>1, <2>7 DEF aircraftVars, StartupStep
    <2> QED BY <1>1, <2>2, <2>3, <2>4, <2>5, <2>6, <2>7, ElsewhereSteps DEF Next
  <1>2. AlertInv /\ [Next]_vars => [StartupStep]_vars
    BY <1>1
  <1> QED BY <1>2, AlertInvariant, PTL DEF Spec, StartupGoesForward
------------------------------------------------------------------------------
Settled == {a \in Alerts : outbox[a] = "delivered"}

LEMMA AlertStepKeepsPromise ==
  ASSUME AlertInv, [Next]_vars
  PROVE  Promise!Next \/ UNCHANGED <<Pending, recorded, Settled>>
  <1>1. AlertTypeOK /\ WorkInv /\ QueueInv /\ LinkInv
    BY DEF AlertInv
  <1>2. ASSUME UNCHANGED <<outbox, recorded>>
        PROVE  UNCHANGED <<Pending, recorded, Settled>>
    BY <1>2 DEF Pending, Settled
  <1>3. ASSUME NEW a \in Alerts, DeliverNext(a) PROVE Promise!Next
    <2>1. outbox[a] = "absent" /\ UNCHANGED recorded
      BY <1>1, <1>3 DEF DeliverNext, QueueInv, receiverVars
    <2>2. \A b \in Alerts : outbox'[b] = IF b = a THEN "pending" ELSE outbox[b]
      BY <1>1, <1>3, <2>1 DEF DeliverNext, AlertTypeOK
    <2>3. Promise!Owe(a)
      BY <2>1, <2>2 DEF Promise!Owe, Pending
    <2> QED BY <2>3 DEF Promise!Next
  <1>4. ASSUME NEW p \in requests, Receive(p) PROVE Promise!Next
    <2>1. p.alert \in Alerts
      BY <1>1 DEF AlertTypeOK, Packets
    <2>2. outbox[p.alert] \in {"pending", "delivered"}
      BY <1>1, <2>1 DEF LinkInv, AlertTypeOK
    <2>3. recorded' = recorded \union {p.alert} /\ UNCHANGED outbox
      BY <1>4 DEF Receive, aircraftVars
    <2>4. Promise!Record(p.alert)
      BY <2>1, <2>2, <2>3 DEF Promise!Record, Pending
    <2> QED BY <2>1, <2>4 DEF Promise!Next
  <1>5. CASE MarkDelivered
    <2>1. PICK c \in Alerts : c = current
      BY <1>1, <1>5 DEF MarkDelivered, WorkInv, AlertTypeOK
    <2>2. outbox[c] = "pending" /\ c \in recorded /\ UNCHANGED recorded
      BY <1>1, <1>5, <2>1 DEF MarkDelivered, WorkInv, receiverVars
    <2>3. \A b \in Alerts : outbox'[b] = IF b = c THEN "delivered" ELSE outbox[b]
      BY <1>1, <1>5, <2>1 DEF MarkDelivered, AlertTypeOK
    <2>4. Promise!Settle(c)
      BY <2>2, <2>3 DEF Promise!Settle, Pending
    <2> QED BY <2>4 DEF Promise!Next
  <1>6. CASE \/ Start \/ Stop \/ RetryDone \/ SendAttempt \/ AttemptFails \/ MarkFailed
             \/ \E a \in Alerts : RetryNext(a) \/ TakeAcknowledgement(a)
             \/ \E new \in SUBSET Alerts : ConfirmTargets(new)
    BY <1>2, <1>6 DEF Start, Stop, RetryDone, SendAttempt, AttemptFails, MarkFailed,
                      RetryNext, TakeAcknowledgement, ConfirmTargets, CloseSocket,
                      receiverVars
  <1>7. CASE LinkLoses \/ Answer \/ Return \/ ReceiverStops \/ ReceiverStarts
             \/ UNCHANGED vars
    BY <1>2, <1>7 DEF LinkLoses, Answer, Return, ReceiverStops, ReceiverStarts, vars,
                      aircraftVars, receiverVars
  <1> QED BY <1>3, <1>4, <1>5, <1>6, <1>7 DEF Next

\* Outbox, link and receiver keep the promise: an alert is owed before the
\* ground can record it, and settled only after it has.
THEOREM PromiseKept == Spec => ImplementsPromise
  <1>1. Init => Promise!Init
    BY DEF Init, Promise!Init, Pending
  <1>2. AlertInv /\ [Next]_vars
          => [Promise!Next]_<<Pending, recorded, {a \in Alerts : outbox[a] = "delivered"}>>
    BY AlertStepKeepsPromise DEF Settled
  <1> QED BY <1>1, <1>2, AlertInvariant, PTL DEF Spec, ImplementsPromise, Promise!Spec
==============================================================================
