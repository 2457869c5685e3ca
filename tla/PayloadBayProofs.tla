--------------------------- MODULE PayloadBayProofs ---------------------------
(***************************************************************************)
(* The interlock of the payload controller, proved for any number of bays, *)
(* scenes and release identifiers and any timeout.                         *)
(***************************************************************************)
EXTENDS PayloadBay, TLAPS

\* An armed bay holds an authorization; exactly the bays that were never
\* released have no release identifier, the others have a request at the port.
SlotInv(s) ==
  /\ bay[s].state = "ARMED" => bay[s].auth \in Authorizations
  /\ bay[s].state \in {"LOCKED", "ARMED"} <=> bay[s].release = None
  /\ bay[s].release # None
       => \E q \in submitted : q.slot = s /\ q.release = bay[s].release
  /\ bay[s].state = "RELEASE_CONFIRMED" => bay[s].executed /\ bay[s].seen

\* No identifier is bound to two bays.
ReleasesDiffer ==
  \A s1, s2 \in Slots :
    bay[s1].release = bay[s2].release /\ bay[s1].release # None => s1 = s2

\* After a fault no bay is active.
FaultIsFinal == faulted => \A s \in Slots : bay[s].state \notin ActiveStates

BayInv ==
  /\ BayTypeOK
  /\ SingleInterlock
  /\ PortRequestsAreAuthorized
  /\ \A s \in Slots : SlotInv(s)
  /\ ReleasesDiffer
  /\ FaultIsFinal
------------------------------------------------------------------------------
\* A fault leaves every bay's record well-typed, and takes no bay's history.
LEMMA FaultRecord ==
  ASSUME NEW record \in BayRecords, NEW uncertain \in BOOLEAN
  PROVE  LET after == AfterFault(record, uncertain)
         IN  /\ after \in BayRecords
             /\ after.state \notin ActiveStates
             /\ after.release = record.release
             /\ after.executed = record.executed /\ after.seen = record.seen
             /\ after.state \in InFlightStates => FALSE
             /\ after.state = "FAILED" <=> record.state \in InFlightStates \union {"FAILED"}
             /\ after.state = "RELEASE_CONFIRMED" <=> record.state = "RELEASE_CONFIRMED"
             /\ after.state = "LOCKED" <=> record.state \in {"LOCKED", "ARMED"}
  <1>1. CASE record.state = "ARMED"
    BY <1>1 DEF AfterFault, BayRecords, ActiveStates, InFlightStates, PayloadStates
  <1>2. CASE record.state \in InFlightStates
    BY <1>2 DEF AfterFault, BayRecords, ActiveStates, InFlightStates, PayloadStates
  <1>3. CASE record.state \notin InFlightStates \union {"ARMED"}
    <2>1. AfterFault(record, uncertain) = record
      BY <1>3 DEF AfterFault
    <2> QED BY <1>3, <2>1 DEF BayRecords, ActiveStates, InFlightStates, PayloadStates
  <1> QED BY <1>1, <1>2, <1>3

\* _enter_fault preserves the invariant.
LEMMA FaultKeepsInv ==
  ASSUME BayInv, NEW uncertain \in BOOLEAN, EnterFault(uncertain)
  PROVE  BayInv'
  <1>1. \A s \in Slots : /\ bay'[s] = AfterFault(bay[s], uncertain)
                         /\ bay[s] \in BayRecords
    BY DEF EnterFault, BayInv, BayTypeOK
  <1>2. \A s \in Slots :
          /\ bay'[s] \in BayRecords
          /\ bay'[s].state \notin ActiveStates
          /\ bay'[s].release = bay[s].release
          /\ bay'[s].executed = bay[s].executed /\ bay'[s].seen = bay[s].seen
          /\ bay'[s].state = "RELEASE_CONFIRMED" <=> bay[s].state = "RELEASE_CONFIRMED"
          /\ bay'[s].state = "LOCKED" <=> bay[s].state \in {"LOCKED", "ARMED"}
    BY <1>1, FaultRecord
  <1>3. submitted' = submitted /\ faulted' = TRUE
    BY DEF EnterFault
  <1>4. BayTypeOK'
    BY <1>2, <1>3 DEF EnterFault, BayInv, BayTypeOK
  <1>5. SingleInterlock' /\ FaultIsFinal'
    BY <1>2 DEF SingleInterlock, FaultIsFinal, ActiveStates
  <1>6. PortRequestsAreAuthorized'
    BY <1>2, <1>3 DEF BayInv, BayTypeOK, PortRequestsAreAuthorized, ValidAuthorization
  <1>7. ASSUME NEW s \in Slots PROVE SlotInv(s)'
    BY <1>2, <1>3, <1>7 DEF BayInv, SlotInv, ActiveStates
  <1>8. ReleasesDiffer'
    BY <1>2 DEF BayInv, ReleasesDiffer
  <1> QED BY <1>4, <1>5, <1>6, <1>7, <1>8 DEF BayInv

\* A step that changes one bay and neither the port nor the fault flag
\* preserves the invariant when the new record is in order.
LEMMA OneBayKeepsInv ==
  ASSUME BayInv, NEW s \in Slots, NEW record \in BayRecords,
         bay' = [bay EXCEPT ![s] = record],
         UNCHANGED <<faulted, submitted>>,
         record.release = bay[s].release,
         record.state = "ARMED" => record.auth \in Authorizations,
         record.state \in {"LOCKED", "ARMED"} <=> bay[s].state \in {"LOCKED", "ARMED"},
         record.state = "RELEASE_CONFIRMED" => record.executed /\ record.seen,
         record.state \in ActiveStates =>
           \/ bay[s].state \in ActiveStates
           \/ ~faulted /\ \A z \in Slots : bay[z].state \notin ActiveStates
  PROVE  BayInv'
  <1>1. \A z \in Slots : bay'[z] = IF z = s THEN record ELSE bay[z]
    BY DEF BayInv, BayTypeOK
  <1>2. BayTypeOK'
    BY DEF BayInv, BayTypeOK
  <1>3. SingleInterlock'
    BY <1>1 DEF BayInv, SingleInterlock
  <1>4. PortRequestsAreAuthorized'
    BY <1>1 DEF BayInv, BayTypeOK, PortRequestsAreAuthorized, ValidAuthorization
  <1>5. ASSUME NEW z \in Slots PROVE SlotInv(z)'
    BY <1>1, <1>5 DEF BayInv, SlotInv
  <1>6. ReleasesDiffer'
    BY <1>1 DEF BayInv, ReleasesDiffer
  <1>7. FaultIsFinal'
    BY <1>1 DEF BayInv, FaultIsFinal
  <1> QED BY <1>2, <1>3, <1>4, <1>5, <1>6, <1>7 DEF BayInv

\* Arming: the interlock was free, and the authorization is bound to the bay.
LEMMA ArmKeepsInv ==
  ASSUME BayInv, NEW s \in Slots, NEW auth \in Authorizations, NEW t \in Times,
         Arm(s, auth, t)
  PROVE  BayInv'
  <1> DEFINE record == [bay[s] EXCEPT !.state = "ARMED", !.auth = auth]
  <1>1. bay[s] \in BayRecords /\ bay[s].state = "LOCKED"
    BY DEF Arm, CanArm, BayInv, BayTypeOK
  <1>2. record \in BayRecords /\ record.state = "ARMED" /\ record.auth = auth
        /\ record.release = bay[s].release
    BY <1>1 DEF BayRecords, PayloadStates
  <1>3. bay' = [bay EXCEPT ![s] = record] /\ UNCHANGED <<faulted, submitted>>
    BY <1>1 DEF Arm, BayInv, BayTypeOK
  <1>4. ~faulted /\ \A z \in Slots : bay[z].state \notin ActiveStates
    BY DEF Arm, CanArm, In
  <1> QED BY <1>1, <1>2, <1>3, <1>4, OneBayKeepsInv

\* Locking an armed bay gives the interlock back.
LEMMA LockKeepsInv ==
  ASSUME BayInv, NEW s \in Slots, Lock(s)
  PROVE  BayInv'
  <1> DEFINE record == Relocked(bay[s])
  <1>1. bay[s] \in BayRecords /\ bay[s].state = "ARMED"
    BY DEF Lock, BayInv, BayTypeOK
  <1>2. record \in BayRecords /\ record.state = "LOCKED" /\ record.release = bay[s].release
    BY <1>1 DEF BayRecords, PayloadStates, Relocked
  <1>3. bay' = [bay EXCEPT ![s] = record] /\ UNCHANGED <<faulted, submitted>>
    BY DEF Lock
  <1> HIDE DEF record
  <1> QED BY <1>1, <1>2, <1>3, OneBayKeepsInv DEF ActiveStates

\* Refreshing an armed bay changes the scene it is bound to and nothing else.
LEMMA RefreshKeepsInv ==
  ASSUME BayInv, NEW s \in Slots, NEW scene \in Scenes, NEW t \in Times,
         Refresh(s, scene, t)
  PROVE  BayInv'
  <1> DEFINE record == [bay[s] EXCEPT !.auth.scene = scene]
  <1>1. bay[s] \in BayRecords /\ bay[s].state = "ARMED" /\ bay[s].auth \in Authorizations
    BY DEF Refresh, CanRefresh, BayInv, BayTypeOK, SlotInv
  <1>2. /\ record \in BayRecords /\ record.state = "ARMED"
        /\ record.release = bay[s].release /\ record.auth \in Authorizations
    BY <1>1 DEF BayRecords, Authorizations
  <1>3. bay' = [bay EXCEPT ![s] = record] /\ UNCHANGED <<faulted, submitted>>
    BY DEF Refresh
  <1> QED BY <1>1, <1>2, <1>3, OneBayKeepsInv DEF ActiveStates

\* A release request that is neither a retry nor a fault: the bay and the
\* identifier are new to the port, and the authorization is valid right now.
LEMMA RequestKeepsInv ==
  ASSUME BayInv, NEW s \in Slots, NEW r \in Releases, NEW scene \in Scenes,
         NEW t \in Times, RequestRelease(s, r, scene, t), BoundTo(r) = {}
  PROVE  BayInv'
  <1> DEFINE record == [bay[s] EXCEPT !.state = "RELEASE_REQUESTED",
                                      !.release = r, !.requestedAt = t]
             request == [release |-> r, slot |-> s, at |-> t, auth |-> bay[s].auth]
  <1>1. /\ CanRequest(s, scene, t)
        /\ bay' = [bay EXCEPT ![s] = record]
        /\ submitted' = submitted \union {request}
        /\ UNCHANGED faulted
    BY DEF RequestRelease
  <1>2. /\ bay[s] \in BayRecords /\ bay[s].state = "ARMED" /\ bay[s].auth \in Authorizations
        /\ bay[s].release = None /\ r # None /\ ~faulted
    BY <1>1, BayAssumption DEF CanRequest, BayInv, BayTypeOK, SlotInv
  <1>3. /\ record \in BayRecords /\ record.state = "RELEASE_REQUESTED"
        /\ record.release = r
    BY <1>2 DEF BayRecords, PayloadStates
  <1>4. \A z \in Slots : bay'[z] = IF z = s THEN record ELSE bay[z]
    BY <1>1 DEF BayInv, BayTypeOK
  <1>5. \A z \in Slots : bay[z].release # r
    BY DEF BoundTo
  <1>6. \A q \in submitted : q.slot \in Slots /\ q.release \in Releases
                             /\ bay[q.slot].release = q.release
    BY DEF BayInv, BayTypeOK, PortRequestsAreAuthorized
  <1>7. \A q \in submitted : q.slot # s /\ q.release # r
    BY <1>2, <1>5, <1>6, BayAssumption
  <1>8. request.slot = s /\ request.release = r /\ request.at = t /\ request.auth = bay[s].auth
    OBVIOUS
  <1>9. BayTypeOK'
    <2>1. bay' \in [Slots -> BayRecords]
      BY <1>1, <1>3 DEF BayInv, BayTypeOK
    <2>2. request \in [release : Releases, slot : Slots, at : Times, auth : Authorizations]
      BY <1>2
    <2> QED BY <1>1, <2>1, <2>2 DEF BayInv, BayTypeOK
  <1>10. SingleInterlock'
    BY <1>2, <1>3, <1>4 DEF BayInv, SingleInterlock, ActiveStates
  <1>11. PortRequestsAreAuthorized'
    <2>1. ValidAuthorization(request.auth, request.slot, request.at)
      BY <1>1, <1>8 DEF CanRequest
    <2>2. bay'[request.slot].release = request.release
      BY <1>3, <1>4, <1>8
    <2>3. \A q \in submitted : /\ ValidAuthorization(q.auth, q.slot, q.at)
                               /\ bay'[q.slot].release = q.release
      BY <1>4, <1>6, <1>7 DEF BayInv, PortRequestsAreAuthorized
    <2>4. \A p, q \in submitted' : p.slot = q.slot \/ p.release = q.release => p = q
      <3> HIDE DEF request
      <3> QED BY <1>1, <1>7, <1>8 DEF BayInv, PortRequestsAreAuthorized
    <2>5. \A q \in submitted' : /\ ValidAuthorization(q.auth, q.slot, q.at)
                                /\ bay'[q.slot].release = q.release
      <3> HIDE DEF request
      <3> QED BY <1>1, <2>1, <2>2, <2>3
    <2> QED BY <2>4, <2>5 DEF PortRequestsAreAuthorized, ValidAuthorization
  <1>12. ASSUME NEW z \in Slots PROVE SlotInv(z)'
    <2>1. CASE z = s
      BY <1>1, <1>2, <1>3, <1>4, <1>8, <2>1 DEF SlotInv
    <2>2. CASE z # s
      <3>1. bay'[z] = bay[z] /\ SlotInv(z)
        BY <1>4, <2>2 DEF BayInv
      <3> HIDE DEF request
      <3> QED BY <1>1, <3>1 DEF SlotInv
    <2> QED BY <2>1, <2>2
  <1>13. ReleasesDiffer'
    BY <1>3, <1>4, <1>5 DEF BayInv, ReleasesDiffer
  <1>14. FaultIsFinal'
    BY <1>1, <1>2 DEF FaultIsFinal
  <1> QED BY <1>9, <1>10, <1>11, <1>12, <1>13, <1>14 DEF BayInv

\* A bay that a release identifier is bound to was released.
LEMMA CorrelatedBay ==
  ASSUME BayInv, NEW s \in Slots, NEW r \in Releases, ~Miscorrelated(r, s)
  PROVE  /\ bay[s] \in BayRecords /\ bay[s].release = r
         /\ bay[s].state \notin {"LOCKED", "ARMED"}
  <1>1. bay[s].release = r
    BY DEF Miscorrelated, BoundTo
  <1> QED BY <1>1, BayAssumption DEF BayInv, BayTypeOK, SlotInv

\* Feedback keeps the invariant: confirmation needs both reports.
LEMMA FeedbackKeepsInv ==
  ASSUME BayInv, NEW s \in Slots, NEW r \in Releases, NEW record \in BayRecords,
         ~Miscorrelated(r, s), bay[s].state \in InFlightStates,
         record.release = bay[s].release,
         record.state \in InFlightStates,
         bay' = [bay EXCEPT ![s] = Confirmed(record)],
         UNCHANGED <<faulted, submitted>>
  PROVE  BayInv'
  <1> DEFINE after == Confirmed(record)
  <1>1. /\ after \in BayRecords /\ after.release = bay[s].release
        /\ after.state \in InFlightStates \union {"RELEASE_CONFIRMED"}
        /\ after.state = "RELEASE_CONFIRMED" => after.executed /\ after.seen
    BY DEF Confirmed, BayRecords, PayloadStates, InFlightStates
  <1>2. after.state \notin {"LOCKED", "ARMED"} /\ bay[s].state \notin {"LOCKED", "ARMED"}
        /\ bay[s].state \in ActiveStates
    BY <1>1 DEF InFlightStates, ActiveStates
  <1> HIDE DEF after
  <1> QED BY <1>1, <1>2, OneBayKeepsInv DEF after

\* Every step of the controller preserves the invariant.
LEMMA BayStepKeepsInv ==
  ASSUME BayInv, [BayNext]_bayVars
  PROVE  BayInv'
  <1>1. ASSUME NEW s \in Slots, NEW t \in Times, NEW auth \in Authorizations, Arm(s, auth, t)
        PROVE  BayInv'
    BY <1>1, ArmKeepsInv
  <1>2. ASSUME NEW s \in Slots, NEW t \in Times, NEW scene \in Scenes, Refresh(s, scene, t)
        PROVE  BayInv'
    BY <1>2, RefreshKeepsInv
  <1>3. ASSUME NEW s \in Slots, NEW t \in Times, NEW r \in Releases, NEW scene \in Scenes,
               RequestRelease(s, r, scene, t)
        PROVE  BayInv'
    <2>1. CASE BoundTo(r) = {}
      BY <1>3, <2>1, RequestKeepsInv
    <2>2. CASE BoundTo(r) # {}
      BY <1>3, <2>2, FaultKeepsInv DEF RequestRelease
    <2> QED BY <2>1, <2>2
  <1>4. ASSUME NEW s \in Slots, NEW t \in Times, NEW r \in Releases, ReportExecution(r, s, t)
        PROVE  BayInv'
    <2>1. CASE Miscorrelated(r, s)
      BY <1>4, <2>1, FaultKeepsInv DEF ReportExecution
    <2>2. CASE ~Miscorrelated(r, s)
      <3> DEFINE record == [bay[s] EXCEPT !.state = "RELEASED", !.executed = TRUE]
      <3>1. bay[s] \in BayRecords /\ bay[s].state = "RELEASE_REQUESTED"
        BY <1>4, <2>2, CorrelatedBay DEF ReportExecution
      <3>2. record \in BayRecords /\ record.state = "RELEASED" /\ record.release = bay[s].release
        BY <3>1 DEF BayRecords, PayloadStates
      <3>3. bay' = [bay EXCEPT ![s] = Confirmed(record)] /\ UNCHANGED <<faulted, submitted>>
        BY <1>4, <2>2 DEF ReportExecution
      <3> HIDE DEF record
      <3> QED BY <2>2, <3>1, <3>2, <3>3, FeedbackKeepsInv DEF InFlightStates
    <2> QED BY <2>1, <2>2
  <1>5. ASSUME NEW s \in Slots, NEW r \in Releases, ReportIndependentConfirmation(r, s)
        PROVE  BayInv'
    <2>1. CASE Miscorrelated(r, s)
      BY <1>5, <2>1, FaultKeepsInv DEF ReportIndependentConfirmation
    <2>2. CASE ~Miscorrelated(r, s)
      <3> DEFINE record == [bay[s] EXCEPT !.seen = TRUE]
      <3>1. bay[s] \in BayRecords /\ bay[s].state \in InFlightStates
        BY <1>5, <2>2, CorrelatedBay DEF ReportIndependentConfirmation
      <3>2. /\ record \in BayRecords /\ record.state = bay[s].state
            /\ record.release = bay[s].release
        BY <3>1 DEF BayRecords
      <3>3. bay' = [bay EXCEPT ![s] = Confirmed(record)] /\ UNCHANGED <<faulted, submitted>>
        BY <1>5, <2>2 DEF ReportIndependentConfirmation
      <3> HIDE DEF record
      <3> QED BY <2>2, <3>1, <3>2, <3>3, FeedbackKeepsInv
    <2> QED BY <2>1, <2>2
  <1>6. ASSUME NEW s \in Slots, NEW r \in Releases, NEW uncertain \in BOOLEAN,
               FailRelease(r, s, uncertain)
        PROVE  BayInv'
    BY <1>6, FaultKeepsInv DEF FailRelease
  <1>7. ASSUME NEW s \in Slots, Lock(s) PROVE BayInv'
    BY <1>7, LockKeepsInv
  <1>8. ASSUME NEW t \in Times, CheckTimeouts(t) PROVE BayInv'
    BY <1>8, FaultKeepsInv DEF CheckTimeouts
  <1>9. ASSUME UNCHANGED bayVars PROVE BayInv'
    BY <1>9 DEF bayVars, BayInv, BayTypeOK, SingleInterlock, PortRequestsAreAuthorized,
                ValidAuthorization, SlotInv, ReleasesDiffer, FaultIsFinal
  <1> QED BY <1>1, <1>2, <1>3, <1>4, <1>5, <1>6, <1>7, <1>8, <1>9 DEF BayNext
------------------------------------------------------------------------------
\* The invariant holds in the initial state.
LEMMA BayInitInv == BayInit => BayInv
  <1> SUFFICES ASSUME BayInit PROVE BayInv
    OBVIOUS
  <1>1. LockedBay \in BayRecords
    BY BayAssumption DEF LockedBay, BayRecords, PayloadStates, Times
  <1>2. \A s \in Slots : bay[s] = LockedBay
    BY DEF BayInit
  <1>3. LockedBay.state = "LOCKED" /\ LockedBay.release = None
    BY DEF LockedBay
  <1>4. BayTypeOK
    BY <1>1 DEF BayInit, BayTypeOK
  <1>5. SingleInterlock /\ ReleasesDiffer /\ FaultIsFinal /\ PortRequestsAreAuthorized
    BY <1>2, <1>3 DEF SingleInterlock, ReleasesDiffer, FaultIsFinal,
                      PortRequestsAreAuthorized, ActiveStates, BayInit
  <1>6. \A s \in Slots : SlotInv(s)
    BY <1>2, <1>3 DEF SlotInv
  <1> QED BY <1>4, <1>5, <1>6 DEF BayInv

\* The invariant of the payload controller, for every order of calls.
THEOREM BayInvariant == BaySpec => []BayInv
  <1>1. BayInv /\ [BayNext]_bayVars => BayInv'
    BY BayStepKeepsInv
  <1> QED BY BayInitInv, <1>1, PTL DEF BaySpec

\* Every bay's record keeps its type, and so do the fault flag and the port's log.
THEOREM BayTypes == BaySpec => []BayTypeOK
  <1>1. BayInv => BayTypeOK
    BY DEF BayInv
  <1> QED BY BayInvariant, <1>1, PTL

\* At most one bay is ever armed, requested or awaiting confirmation.
THEOREM Interlock == BaySpec => []SingleInterlock
  <1>1. BayInv => SingleInterlock
    BY DEF BayInv
  <1> QED BY BayInvariant, <1>1, PTL

\* Every request at the port was authorized then, and no bay or identifier is
\* ever used twice.
THEOREM AuthorizedRequests == BaySpec => []PortRequestsAreAuthorized
  <1>1. BayInv => PortRequestsAreAuthorized
    BY DEF BayInv
  <1> QED BY BayInvariant, <1>1, PTL

\* No bay is confirmed on one report alone.
THEOREM TwoSourceConfirmation == BaySpec => []ConfirmedNeedsBoth
  <1>1. BayInv => ConfirmedNeedsBoth
    <2> SUFFICES ASSUME BayInv, NEW s \in Slots, bay[s].state = "RELEASE_CONFIRMED"
                 PROVE  /\ bay[s].executed /\ bay[s].seen
                        /\ \E q \in submitted : q.slot = s
      BY DEF ConfirmedNeedsBoth
    <2> QED BY DEF BayInv, SlotInv
  <1> QED BY BayInvariant, <1>1, PTL
------------------------------------------------------------------------------
\* The abstract view depends on the states of the bays and the fault flag only.
Stutter == UNCHANGED <<In(InFlightStates), In({"RELEASE_CONFIRMED"}), In({"FAILED"}), faulted>>

\* A fault stops the abstract transaction and fails what was in flight.
LEMMA FaultStops ==
  ASSUME BayInv, NEW uncertain \in BOOLEAN, EnterFault(uncertain)
  PROVE  Abstract!Stop
  <1>1. \A s \in Slots : bay'[s] = AfterFault(bay[s], uncertain) /\ bay[s] \in BayRecords
    BY DEF EnterFault, BayInv, BayTypeOK
  <1>2. \A s \in Slots :
          /\ bay'[s].state \notin InFlightStates
          /\ bay'[s].state = "FAILED" <=> bay[s].state \in InFlightStates \union {"FAILED"}
          /\ bay'[s].state = "RELEASE_CONFIRMED" <=> bay[s].state = "RELEASE_CONFIRMED"
    BY <1>1, FaultRecord
  <1>3. In(InFlightStates)' = {} /\ In({"RELEASE_CONFIRMED"})' = In({"RELEASE_CONFIRMED"})
    BY <1>2 DEF In
  <1>4. In({"FAILED"})' = In({"FAILED"}) \union In(InFlightStates)
    BY <1>2 DEF In
  <1> QED BY <1>3, <1>4 DEF EnterFault, Abstract!Stop

\* A bay that moves between the states of one class is invisible above.
LEMMA OneBayStutters ==
  ASSUME BayInv, NEW s \in Slots, NEW record \in BayRecords,
         bay' = [bay EXCEPT ![s] = record], UNCHANGED faulted,
         \/ record.state \in {"LOCKED", "ARMED"} /\ bay[s].state \in {"LOCKED", "ARMED"}
         \/ record.state \in InFlightStates /\ bay[s].state \in InFlightStates
  PROVE  Stutter
  <1>1. \A z \in Slots : bay'[z] = IF z = s THEN record ELSE bay[z]
    BY DEF BayInv, BayTypeOK
  <1>2. In(InFlightStates)' = In(InFlightStates)
    BY <1>1 DEF In, InFlightStates
  <1>3. In({"RELEASE_CONFIRMED"})' = In({"RELEASE_CONFIRMED"}) /\ In({"FAILED"})' = In({"FAILED"})
    BY <1>1 DEF In, InFlightStates
  <1> QED BY <1>2, <1>3 DEF Stutter

\* Feedback for a release in flight confirms it or is invisible above.
LEMMA FeedbackConfirms ==
  ASSUME BayInv, NEW s \in Slots, NEW record \in BayRecords,
         bay[s].state \in InFlightStates, record.state \in InFlightStates,
         bay' = [bay EXCEPT ![s] = Confirmed(record)],
         UNCHANGED faulted
  PROVE  Abstract!Confirm(s) \/ Stutter
  <1>1. CASE Confirmed(record) = record
    BY <1>1, OneBayStutters
  <1>2. CASE Confirmed(record) # record
    <2>1. Confirmed(record).state = "RELEASE_CONFIRMED"
      BY <1>2 DEF Confirmed, BayRecords
    <2>2. \A z \in Slots : bay'[z] = IF z = s THEN Confirmed(record) ELSE bay[z]
      BY DEF BayInv, BayTypeOK
    <2>3. \A z \in Slots : bay[z].state \in InFlightStates <=> z = s
      BY DEF BayInv, SingleInterlock, ActiveStates, InFlightStates
    <2>4. ~faulted
      BY DEF BayInv, FaultIsFinal, ActiveStates, InFlightStates
    <2>5. s \in In(InFlightStates) /\ In(InFlightStates)' = {}
      BY <2>1, <2>2, <2>3 DEF In, InFlightStates
    <2>6. In({"RELEASE_CONFIRMED"})' = In({"RELEASE_CONFIRMED"}) \union {s}
      BY <2>1, <2>2 DEF In
    <2>7. In({"FAILED"})' = In({"FAILED"})
      BY <2>1, <2>2 DEF In, InFlightStates
    <2> QED BY <2>4, <2>5, <2>6, <2>7 DEF Abstract!Confirm
  <1> QED BY <1>1, <1>2

\* A release request starts the abstract transaction of its bay.
LEMMA RequestStarts ==
  ASSUME BayInv, NEW s \in Slots, NEW r \in Releases, NEW scene \in Scenes,
         NEW t \in Times, RequestRelease(s, r, scene, t), BoundTo(r) = {}
  PROVE  Abstract!Start(s)
  <1> DEFINE record == [bay[s] EXCEPT !.state = "RELEASE_REQUESTED",
                                      !.release = r, !.requestedAt = t]
  <1>1. bay' = [bay EXCEPT ![s] = record] /\ UNCHANGED faulted /\ ~faulted
        /\ bay[s].state = "ARMED" /\ bay[s] \in BayRecords
    BY DEF RequestRelease, CanRequest, BayInv, BayTypeOK
  <1>2. record.state = "RELEASE_REQUESTED"
    BY <1>1 DEF BayRecords
  <1>3. \A z \in Slots : bay'[z] = IF z = s THEN record ELSE bay[z]
    BY <1>1 DEF BayInv, BayTypeOK
  <1> HIDE DEF record
  <1>4. \A z \in Slots : bay[z].state \notin InFlightStates
    BY <1>1 DEF BayInv, SingleInterlock, ActiveStates, InFlightStates
  <1>5. In(InFlightStates) = {} /\ s \notin In({"RELEASE_CONFIRMED"})
    BY <1>1, <1>4 DEF In
  <1>6. In(InFlightStates)' = {s}
    BY <1>2, <1>3, <1>4 DEF In, InFlightStates
  <1>7. In({"RELEASE_CONFIRMED"})' = In({"RELEASE_CONFIRMED"}) /\ In({"FAILED"})' = In({"FAILED"})
    BY <1>1, <1>2, <1>3 DEF In
  <1> QED BY <1>1, <1>5, <1>6, <1>7 DEF Abstract!Start

\* Every step of the controller is a step of the abstract transaction, or
\* invisible there.
LEMMA BayStepRefines ==
  ASSUME BayInv, [BayNext]_bayVars
  PROVE  Abstract!Next \/ Stutter
  <1>1. ASSUME NEW s \in Slots, NEW t \in Times, NEW auth \in Authorizations, Arm(s, auth, t)
        PROVE  Stutter
    <2> DEFINE record == [bay[s] EXCEPT !.state = "ARMED", !.auth = auth]
    <2>1. bay[s] \in BayRecords /\ bay[s].state = "LOCKED"
      BY <1>1 DEF Arm, CanArm, BayInv, BayTypeOK
    <2>2. record \in BayRecords /\ record.state = "ARMED"
      BY <2>1 DEF BayRecords, PayloadStates
    <2>3. bay' = [bay EXCEPT ![s] = record] /\ UNCHANGED faulted
      BY <1>1, <2>1 DEF Arm, BayInv, BayTypeOK
    <2> QED BY <2>1, <2>2, <2>3, OneBayStutters
  <1>2. ASSUME NEW s \in Slots, NEW t \in Times, NEW scene \in Scenes, Refresh(s, scene, t)
        PROVE  Stutter
    <2> DEFINE record == [bay[s] EXCEPT !.auth.scene = scene]
    <2>1. bay[s] \in BayRecords /\ bay[s].state = "ARMED" /\ bay[s].auth \in Authorizations
      BY <1>2 DEF Refresh, CanRefresh, BayInv, BayTypeOK, SlotInv
    <2>2. record \in BayRecords /\ record.state = "ARMED"
      BY <2>1 DEF BayRecords, Authorizations
    <2>3. bay' = [bay EXCEPT ![s] = record] /\ UNCHANGED faulted
      BY <1>2 DEF Refresh
    <2> QED BY <2>1, <2>2, <2>3, OneBayStutters
  <1>3. ASSUME NEW s \in Slots, NEW t \in Times, NEW r \in Releases, NEW scene \in Scenes,
               RequestRelease(s, r, scene, t)
        PROVE  Abstract!Next
    <2>1. CASE BoundTo(r) = {}
      BY <1>3, <2>1, RequestStarts DEF Abstract!Next
    <2>2. CASE BoundTo(r) # {}
      BY <1>3, <2>2, FaultStops DEF RequestRelease, Abstract!Next
    <2> QED BY <2>1, <2>2
  <1>4. ASSUME NEW s \in Slots, NEW t \in Times, NEW r \in Releases, ReportExecution(r, s, t)
        PROVE  Abstract!Next \/ Stutter
    <2>1. CASE Miscorrelated(r, s)
      BY <1>4, <2>1, FaultStops DEF ReportExecution, Abstract!Next
    <2>2. CASE ~Miscorrelated(r, s)
      <3> DEFINE record == [bay[s] EXCEPT !.state = "RELEASED", !.executed = TRUE]
      <3>1. bay[s] \in BayRecords /\ bay[s].state = "RELEASE_REQUESTED"
        BY <1>4, <2>2, CorrelatedBay DEF ReportExecution
      <3>2. record \in BayRecords /\ record.state = "RELEASED"
        BY <3>1 DEF BayRecords, PayloadStates
      <3>3. bay' = [bay EXCEPT ![s] = Confirmed(record)] /\ UNCHANGED faulted
        BY <1>4, <2>2 DEF ReportExecution
      <3> HIDE DEF record
      <3>4. Abstract!Confirm(s) \/ Stutter
        BY <3>1, <3>2, <3>3, FeedbackConfirms DEF InFlightStates
      <3> QED BY <3>4 DEF Abstract!Next
    <2> QED BY <2>1, <2>2
  <1>5. ASSUME NEW s \in Slots, NEW r \in Releases, ReportIndependentConfirmation(r, s)
        PROVE  Abstract!Next \/ Stutter
    <2>1. CASE Miscorrelated(r, s)
      BY <1>5, <2>1, FaultStops DEF ReportIndependentConfirmation, Abstract!Next
    <2>2. CASE ~Miscorrelated(r, s)
      <3> DEFINE record == [bay[s] EXCEPT !.seen = TRUE]
      <3>1. bay[s] \in BayRecords /\ bay[s].state \in InFlightStates
        BY <1>5, <2>2, CorrelatedBay DEF ReportIndependentConfirmation
      <3>2. record \in BayRecords /\ record.state = bay[s].state
        BY <3>1 DEF BayRecords
      <3>3. bay' = [bay EXCEPT ![s] = Confirmed(record)] /\ UNCHANGED faulted
        BY <1>5, <2>2 DEF ReportIndependentConfirmation
      <3> HIDE DEF record
      <3>4. Abstract!Confirm(s) \/ Stutter
        BY <3>1, <3>2, <3>3, FeedbackConfirms
      <3> QED BY <3>4 DEF Abstract!Next
    <2> QED BY <2>1, <2>2
  <1>6. ASSUME NEW s \in Slots, NEW r \in Releases, NEW uncertain \in BOOLEAN,
               FailRelease(r, s, uncertain)
        PROVE  Abstract!Next
    BY <1>6, FaultStops DEF FailRelease, Abstract!Next
  <1>7. ASSUME NEW s \in Slots, Lock(s) PROVE Stutter
    <2>1. bay[s] \in BayRecords /\ bay[s].state = "ARMED"
      BY <1>7 DEF Lock, BayInv, BayTypeOK
    <2>2. Relocked(bay[s]) \in BayRecords /\ Relocked(bay[s]).state = "LOCKED"
      BY <2>1 DEF BayRecords, PayloadStates, Relocked
    <2> QED BY <1>7, <2>1, <2>2, OneBayStutters DEF Lock
  <1>8. ASSUME NEW t \in Times, CheckTimeouts(t) PROVE Abstract!Next
    BY <1>8, FaultStops DEF CheckTimeouts, Abstract!Next
  <1>9. ASSUME UNCHANGED bayVars PROVE Stutter
    BY <1>9 DEF bayVars, Stutter, In
  <1> QED BY <1>1, <1>2, <1>3, <1>4, <1>5, <1>6, <1>7, <1>8, <1>9 DEF BayNext

\* The payload controller implements the abstract payload transaction: one
\* release at a time, each bay once, and none after a fault.
THEOREM TransactionRefinement == BaySpec => ImplementsTransaction
  <1>1. BayInit => Abstract!Init
    <2> SUFFICES ASSUME BayInit PROVE Abstract!Init
      OBVIOUS
    <2>1. \A s \in Slots : bay[s].state = "LOCKED"
      BY DEF BayInit, LockedBay
    <2> QED BY <2>1 DEF BayInit, Abstract!Init, In, InFlightStates
  <1>2. BayInv /\ [BayNext]_bayVars
          => [Abstract!Next]_<<In(InFlightStates), In({"RELEASE_CONFIRMED"}), In({"FAILED"}), faulted>>
    BY BayStepRefines DEF Stutter
  <1> QED BY <1>1, <1>2, BayInvariant, PTL DEF BaySpec, ImplementsTransaction, Abstract!Spec
==============================================================================
