------------------------ MODULE ExternalMissionProofs ------------------------
(***************************************************************************)
(* Proofs about the in-memory transaction, for every number of items, and  *)
(* about the run that drives it against an external PX4, for every number  *)
(* of items, retries and leftover messages.                                *)
(***************************************************************************)
EXTENDS ExternalMission, TLAPS

\* Type correctness together with the completeness of the upload, which is
\* inductive as it stands: an item can only be requested while uploading.
TxInv == TxTypeOK /\ UploadIsComplete

\* Every call keeps the transaction in a known state with known items.
LEMMA TxNextKeepsTypes ==
  ASSUME TxTypeOK, [TxNext]_txVars
  PROVE  TxTypeOK'
  <1>1. CASE TxBeginUpload
    BY <1>1 DEF TxBeginUpload, AdvanceOrDeny, TxTypeOK, States
  <1>2. ASSUME NEW item \in Items, NEW legacy \in BOOLEAN, TxItemRequest(item, legacy)
        PROVE  TxTypeOK'
    BY <1>2 DEF TxItemRequest, AdvanceOrDeny, TxTypeOK, States
  <1>3. ASSUME NEW accepted \in BOOLEAN, TxAcceptUploadAck(accepted)
        PROVE  TxTypeOK'
    BY <1>3 DEF TxAcceptUploadAck, AdvanceOrDeny, TxTypeOK, States
  <1>4. ASSUME NEW same \in BOOLEAN, TxVerifyReadback(same)
        PROVE  TxTypeOK'
    BY <1>4 DEF TxVerifyReadback, AdvanceOrDeny, TxTypeOK, States
  <1>5. CASE TxCommit
    BY <1>5 DEF TxCommit, AdvanceOrDeny, TxTypeOK, States
  <1>6. CASE TxPermitStart
    BY <1>6 DEF TxPermitStart, AdvanceOrDeny, TxTypeOK, States
  <1>7. CASE GrantExpires
    BY <1>7 DEF GrantExpires, TxTypeOK
  <1>8. CASE UNCHANGED txVars
    BY <1>8 DEF txVars, TxTypeOK
  <1> QED BY <1>1, <1>2, <1>3, <1>4, <1>5, <1>6, <1>7, <1>8 DEF TxNext

\* No call gets behind the acknowledgement with items missing.
LEMMA TxNextKeepsComplete ==
  ASSUME TxInv, [TxNext]_txVars
  PROVE  UploadIsComplete'
  <1> USE DEF TxInv, UploadIsComplete, AfterUpload, AdvanceOrDeny
  <1>1. CASE TxBeginUpload
    BY <1>1 DEF TxBeginUpload
  <1>2. ASSUME NEW item \in Items, NEW legacy \in BOOLEAN, TxItemRequest(item, legacy)
        PROVE  UploadIsComplete'
    BY <1>2 DEF TxItemRequest
  <1>3. ASSUME NEW accepted \in BOOLEAN, TxAcceptUploadAck(accepted)
        PROVE  UploadIsComplete'
    BY <1>3 DEF TxAcceptUploadAck
  <1>4. ASSUME NEW same \in BOOLEAN, TxVerifyReadback(same)
        PROVE  UploadIsComplete'
    BY <1>4 DEF TxVerifyReadback
  <1>5. CASE TxCommit
    BY <1>5 DEF TxCommit
  <1>6. CASE TxPermitStart
    BY <1>6 DEF TxPermitStart
  <1>7. CASE GrantExpires
    BY <1>7 DEF GrantExpires
  <1>8. CASE UNCHANGED txVars
    BY <1>8 DEF txVars
  <1> QED BY <1>1, <1>2, <1>3, <1>4, <1>5, <1>6, <1>7, <1>8 DEF TxNext

\* A transaction past the upload acknowledgement has served every item, for
\* every plan and every order of calls.
THEOREM UploadCompleteness == TxSpec => []UploadIsComplete
  <1>1. TxInit => TxInv
    BY DEF TxInit, TxInv, TxTypeOK, UploadIsComplete, AfterUpload, States
  <1>2. TxInv /\ [TxNext]_txVars => TxInv'
    BY TxNextKeepsTypes, TxNextKeepsComplete DEF TxInv
  <1>3. TxInv => UploadIsComplete
    BY DEF TxInv
  <1> QED BY <1>1, <1>2, <1>3, PTL DEF TxSpec

\* An expired grant never advances the transaction, in whatever state it is.
THEOREM ExpiryStopsProgress == TxSpec => NoAdvanceAfterExpiry
  <1>1. [TxNext]_txVars => [expired => txState' \in {txState, "denied"}]_txVars
    BY DEF TxNext, AdvanceOrDeny, TxBeginUpload, TxItemRequest, TxAcceptUploadAck,
           TxVerifyReadback, TxCommit, TxPermitStart, GrantExpires
  <1> QED BY <1>1, PTL DEF TxSpec, NoAdvanceAfterExpiry
------------------------------------------------------------------------------
\* An item of the uploaded mission on the link was sent by a vehicle that stores
\* it, and so was every item of a readback that has matched so far.
ReadbackInv ==
  /\ \A m \in toGcs : m.kind = "mission_item" /\ m.mission = "new" => stored = "new"
  /\ VerifiedMissionIsStored

RunInv == TypeOK /\ ReadbackInv

\* The messages, by their kinds.
LEMMA MessageKinds ==
  /\ \A m \in ToGcs :
       /\ m.kind \in {"request", "ack", "mission_count", "mission_item", "foreign",
                      "forbidden"}
       /\ m.kind = "request" => m.seq \in Items
       /\ m.kind = "mission_item" => m.seq \in Items
  /\ \A m \in ToVehicle :
       /\ m.kind \in {"count", "list", "item", "fetch"}
       /\ m.kind = "fetch" => m.seq \in Items
       /\ m.kind = "item" => m.seq \in Items
  <1>1. ASSUME NEW m \in ToGcs
        PROVE  /\ m.kind \in {"request", "ack", "mission_count", "mission_item", "foreign",
                              "forbidden"}
               /\ m.kind = "request" => m.seq \in Items
               /\ m.kind = "mission_item" => m.seq \in Items
    BY DEF ToGcs, Leftovers, Ack, MissionCount, Foreign, Forbidden, Request, MissionItem
  <1>2. ASSUME NEW m \in ToVehicle
        PROVE  /\ m.kind \in {"count", "list", "item", "fetch"}
               /\ m.kind = "fetch" => m.seq \in Items
               /\ m.kind = "item" => m.seq \in Items
    BY DEF ToVehicle, Count, List, Item, Fetch
  <1> QED BY <1>1, <1>2

\* What the run sends and the vehicle answers are messages.
LEMMA MessagesSent ==
  /\ Count \in ToVehicle /\ List \in ToVehicle
  /\ \A i \in Items : Item(i) \in ToVehicle /\ Fetch(i) \in ToVehicle
  /\ \A ok \in BOOLEAN : Ack(ok) \in ToGcs
  /\ MissionCount \in ToGcs
  /\ \A i \in Items : Request(i) \in ToGcs
  /\ \A i \in Items, mission \in {"old", "new"} : MissionItem(i, mission) \in ToGcs
  BY DEF ToVehicle, ToGcs, Leftovers

\* The calls of the transaction the run makes keep its types.
LEMMA CallsKeepTxTypes ==
  ASSUME TxTypeOK
  PROVE  /\ \A item \in Items : TxItemRequest(item, FALSE) => TxTypeOK'
         /\ \A ok \in BOOLEAN : TxAcceptUploadAck(ok) => TxTypeOK'
         /\ \A ok \in BOOLEAN : TxVerifyReadback(ok) => TxTypeOK'
         /\ TxCommit => TxTypeOK'
         /\ TxPermitStart => TxTypeOK'
         /\ UNCHANGED txVars => TxTypeOK'
  <1>1. \A item \in Items : TxItemRequest(item, FALSE) => TxNext
    BY DEF TxNext
  <1>2. \A ok \in BOOLEAN : TxAcceptUploadAck(ok) => TxNext
    BY DEF TxNext
  <1>3. \A ok \in BOOLEAN : TxVerifyReadback(ok) => TxNext
    BY DEF TxNext
  <1>4. (TxCommit => TxNext) /\ (TxPermitStart => TxNext)
    BY DEF TxNext
  <1>5. [TxNext]_txVars => TxTypeOK'
    BY TxNextKeepsTypes
  <1> QED BY <1>1, <1>2, <1>3, <1>4, <1>5

\* The rest of TypeOK.
RunTypes ==
  /\ pc \in {"upload", "readback_count", "readback_items", "commit", "permit"} \union Ended
  /\ late \in BOOLEAN /\ matches \in BOOLEAN
  /\ idle \in 0 .. MaxIdle /\ premature \in 0 .. MaxIdle
  /\ expect \in Items /\ attempt \in 0 .. MaxAttempts
  /\ toVehicle \subseteq ToVehicle /\ toGcs \subseteq ToGcs
  /\ receiving \in BOOLEAN /\ next \in Items /\ stored \in {"old", "new"}

LEMMA TypeParts ==
  /\ TypeOK <=> TxTypeOK /\ RunTypes
  /\ TypeOK' <=> TxTypeOK' /\ RunTypes'
  BY DEF TypeOK, RunTypes

\* A turn of the upload loop.
LEMMA UploadReceivesKeeps ==
  ASSUME RunInv, NEW m \in toGcs, UploadReceives(m)
  PROVE  RunInv'
  <1> USE DEF RunInv, TypeOK, Fail, Take, Send
  <1>1. TxTypeOK /\ RunTypes
    BY TypeParts
  <1>2. m.kind = "request" => m.seq \in Items
    BY MessageKinds
  <1>3. TxTypeOK'
    <2>1. CASE UNCHANGED txVars
      BY <1>1, <2>1, CallsKeepTxTypes
    <2>2. CASE m.kind = "request" /\ TxItemRequest(m.seq, FALSE)
      BY <1>1, <1>2, <2>2, CallsKeepTxTypes
    <2>3. CASE TxAcceptUploadAck(m.ok)
      BY <1>1, <2>3 DEF TxAcceptUploadAck, AdvanceOrDeny, TxTypeOK, States
    <2> QED BY <2>1, <2>2, <2>3 DEF UploadReceives
  <1>4. RunTypes'
    <2>1. toGcs' \subseteq ToGcs /\ UNCHANGED vehicleVars
      BY <1>1 DEF UploadReceives, RunTypes
    <2>2. toVehicle' \subseteq ToVehicle
      <3>1. \/ toVehicle' = toVehicle
            \/ toVehicle' = toVehicle \union {List}
            \/ m.kind = "request" /\ toVehicle' = toVehicle \union {Item(m.seq)}
        BY DEF UploadReceives
      <3>2. toVehicle \subseteq ToVehicle
        BY <1>1 DEF RunTypes
      <3> QED BY <1>2, <3>1, <3>2, MessagesSent
    <2>3. premature' \in 0 .. MaxIdle
      <3>1. premature' = premature \/ (premature # MaxIdle /\ premature' = premature + 1)
        BY DEF UploadReceives, loopVars
      <3> QED BY <1>1, <3>1, RetryAssumption DEF RunTypes
    <2>4. /\ pc' \in {pc, "failed", "readback_count"} /\ late' \in {late, FALSE}
          /\ UNCHANGED <<idle, expect, attempt, matches>>
      BY DEF UploadReceives, loopVars
    <2> QED BY <1>1, <2>1, <2>2, <2>3, <2>4 DEF RunTypes, vehicleVars, Ended
  <1>5. txState' \in {"readback_verified", "committed", "start_permitted"}
          => txState' = txState
    BY DEF UploadReceives, TxItemRequest, TxAcceptUploadAck, AdvanceOrDeny, txVars
  <1>6. toGcs' \subseteq toGcs /\ stored' = stored
    BY DEF UploadReceives, vehicleVars
  <1>7. ReadbackInv'
    BY <1>5, <1>6 DEF ReadbackInv, VerifiedMissionIsStored
  <1> QED BY <1>3, <1>4, <1>7, TypeParts

\* A step that leaves the transaction and the vehicle alone and only takes
\* messages from the vehicle keeps what is known of the readback.
LEMMA QuietStepKeepsReadback ==
  ASSUME ReadbackInv, UNCHANGED txVars, toGcs' \subseteq toGcs, stored' = stored
  PROVE  ReadbackInv'
  BY DEF ReadbackInv, VerifiedMissionIsStored, txVars

LEMMA UploadIdlesKeeps ==
  ASSUME RunInv, UploadIdles
  PROVE  RunInv'
  <1> USE DEF RunInv, TypeOK, UploadIdles
  <1>1. TxTypeOK'
    BY CallsKeepTxTypes
  <1>2. RunTypes'
    BY MessagesSent, RetryAssumption
       DEF RunTypes, loopVars, vehicleVars, Ended, Fail, Send
  <1>3. ReadbackInv'
    BY QuietStepKeepsReadback DEF vehicleVars
  <1> QED BY <1>1, <1>2, <1>3, TypeParts

LEMMA ReadbackCountKeeps ==
  ASSUME RunInv, NEW m \in toGcs, ReadbackCount(m)
  PROVE  RunInv'
  <1> USE DEF RunInv, TypeOK, ReadbackCount, Take
  <1>1. TxTypeOK'
    BY CallsKeepTxTypes
  <1>2. 0 \in Items /\ 0 \in 0 .. MaxAttempts
    BY ItemCountAssumption, RetryAssumption DEF Items
  <1>3. RunTypes'
    BY <1>2, MessagesSent DEF RunTypes, loopVars, vehicleVars, Ended, Fail, Send
  <1>4. ReadbackInv'
    BY QuietStepKeepsReadback DEF vehicleVars
  <1> QED BY <1>1, <1>3, <1>4, TypeParts

\* A spent attempt asks again or ends the run.
LEMMA AttemptKeepsTypes ==
  ASSUME RunTypes, AttemptIsSpent
  PROVE  /\ pc' \in {pc, "failed"}
         /\ late' = late /\ matches' = matches /\ idle' = idle /\ premature' = premature
         /\ expect' = expect /\ attempt' \in 0 .. MaxAttempts
         /\ toVehicle' \subseteq ToVehicle
  BY MessagesSent, RetryAssumption DEF AttemptIsSpent, RunTypes, Fail, Send, loopVars

\* An item of the readback: the last one verifies the mission only when it is
\* the uploaded one, and then the vehicle has stored it.
LEMMA ReadbackItemKeeps ==
  ASSUME RunInv, NEW m \in toGcs, ReadbackItem(m)
  PROVE  RunInv'
  <1> USE DEF RunInv
  <1>1. TxTypeOK /\ RunTypes
    BY TypeParts
  <1>2. toGcs' \subseteq toGcs /\ UNCHANGED vehicleVars /\ stored' = stored
    BY DEF ReadbackItem, Take, vehicleVars
  <1>3. CASE m.kind \in {"forbidden", "ack"} /\ Fail /\ UNCHANGED txVars
    <2>1. TxTypeOK'
      BY <1>1, <1>3, CallsKeepTxTypes
    <2>2. RunTypes'
      BY <1>1, <1>2, <1>3 DEF RunTypes, Fail, loopVars, vehicleVars, Ended
    <2> QED BY <1>2, <1>3, <2>1, <2>2, TypeParts, QuietStepKeepsReadback
  <1>4. CASE AttemptIsSpent /\ UNCHANGED txVars
    <2>1. TxTypeOK'
      BY <1>1, <1>4, CallsKeepTxTypes
    <2>2. RunTypes'
      BY <1>1, <1>2, <1>4, AttemptKeepsTypes DEF RunTypes, vehicleVars, Ended
    <2> QED BY <1>2, <1>4, <2>1, <2>2, TypeParts, QuietStepKeepsReadback
  <1>5. CASE /\ expect + 1 \in Items
             /\ expect' = expect + 1 /\ attempt' = 0
             /\ matches' = (matches /\ m.mission = "new")
             /\ Send(Fetch(expect + 1))
             /\ UNCHANGED <<txVars, pc, late, idle, premature>>
    <2>1. TxTypeOK'
      BY <1>1, <1>5, CallsKeepTxTypes
    <2>2. 0 \in 0 .. MaxAttempts /\ Fetch(expect + 1) \in ToVehicle
      BY <1>5, RetryAssumption, MessagesSent
    <2>3. RunTypes'
      BY <1>1, <1>2, <1>5, <2>2 DEF RunTypes, vehicleVars, Send
    <2> QED BY <1>2, <1>5, <2>1, <2>3, TypeParts, QuietStepKeepsReadback
  <1>6. CASE /\ m.kind = "mission_item"
             /\ TxVerifyReadback(matches /\ m.mission = "new")
             /\ pc' = IF txState' = "denied" THEN "failed" ELSE "commit"
             /\ UNCHANGED <<loopVars, toVehicle>>
    <2>1. (matches /\ m.mission = "new") \in BOOLEAN
      OBVIOUS
    <2>2. TxTypeOK'
      BY <1>1, <1>6, <2>1, CallsKeepTxTypes
    <2>3. RunTypes'
      BY <1>1, <1>2, <1>6 DEF RunTypes, loopVars, vehicleVars, Ended
    <2>4. txState' # "denied" => m.mission = "new"
      BY <1>6 DEF TxVerifyReadback, AdvanceOrDeny
    <2>5. txState' # "denied" => stored = "new"
      BY <1>6, <2>4 DEF ReadbackInv
    <2>6. ReadbackInv'
      BY <1>2, <2>5 DEF ReadbackInv, VerifiedMissionIsStored
    <2> QED BY <2>2, <2>3, <2>6, TypeParts
  <1> QED BY <1>3, <1>4, <1>5, <1>6 DEF ReadbackItem

LEMMA ReadbackIdlesKeeps ==
  ASSUME RunInv, ReadbackIdles
  PROVE  RunInv'
  <1> USE DEF RunInv, ReadbackIdles
  <1>1. TxTypeOK /\ RunTypes
    BY TypeParts
  <1>2. TxTypeOK'
    BY <1>1, CallsKeepTxTypes
  <1>3. RunTypes'
    BY <1>1, AttemptKeepsTypes DEF RunTypes, vehicleVars, Ended
  <1> QED BY <1>2, <1>3, TypeParts, QuietStepKeepsReadback DEF vehicleVars

\* Committing and permitting only go on from a verified readback.
LEMMA RunEndsKeep ==
  ASSUME RunInv, RunCommits \/ RunPermits
  PROVE  RunInv'
  <1> USE DEF RunInv, RunCommits, RunPermits
  <1>1. TxTypeOK /\ RunTypes
    BY TypeParts
  <1>2. TxTypeOK'
    BY <1>1, CallsKeepTxTypes
  <1>3. RunTypes'
    BY <1>1 DEF RunTypes, loopVars, vehicleVars, Ended
  <1>4. txState' # "denied" => txState \in {"readback_verified", "committed"}
    BY DEF TxCommit, TxPermitStart, AdvanceOrDeny
  <1>5. ReadbackInv'
    BY <1>4 DEF ReadbackInv, VerifiedMissionIsStored, vehicleVars
  <1> QED BY <1>2, <1>3, <1>5, TypeParts

LEMMA InterruptionsKeep ==
  ASSUME RunInv, DeadlinePasses \/ JournalRaises \/ ClockAdvances \/ LinkDrops
  PROVE  RunInv'
  <1> USE DEF RunInv, DeadlinePasses, JournalRaises, ClockAdvances, LinkDrops, Fail
  <1>1. TxTypeOK /\ RunTypes
    BY TypeParts
  <1>2. UNCHANGED txVars /\ toGcs' \subseteq toGcs /\ UNCHANGED vehicleVars
    OBVIOUS
  <1>3. TxTypeOK'
    BY <1>1, <1>2, CallsKeepTxTypes
  <1>4. RunTypes'
    BY <1>1, <1>2 DEF RunTypes, loopVars, vehicleVars, Ended
  <1> QED BY <1>2, <1>3, <1>4, TypeParts, QuietStepKeepsReadback DEF vehicleVars

\* The vehicle stores the uploaded mission or keeps what it has, and answers
\* with items of what it stores.
LEMMA VehicleKeeps ==
  ASSUME RunInv, (\E m \in toVehicle : VehicleReceives(m)) \/ VehicleTimesOut
  PROVE  RunInv'
  <1> USE DEF RunInv
  <1>1. TxTypeOK /\ RunTypes
    BY TypeParts
  <1>2. UNCHANGED <<txVars, pc, loopVars>>
    BY DEF VehicleReceives, VehicleTimesOut
  <1>3. TxTypeOK'
    BY <1>1, <1>2, CallsKeepTxTypes
  <1>4. 0 \in Items
    BY ItemCountAssumption DEF Items
  <1>5. /\ toVehicle' \subseteq toVehicle
        /\ receiving' \in BOOLEAN /\ next' \in Items
        /\ stored' \in {stored, "new"}
    BY <1>1, <1>4 DEF VehicleReceives, VehicleTimesOut, RunTypes, vehicleVars
  <1> DEFINE Answered ==
        \E r \in ToGcs : /\ toGcs' \in {toGcs, toGcs \union {r}}
                         /\ r.kind = "mission_item" /\ r.mission = "new" => stored' = "new"
  <1>6. Answered
    <2>1. ASSUME NEW i \in Items, toGcs' = toGcs \union {Request(i)}
          PROVE  Answered
      BY <2>1, MessagesSent DEF Request
    <2>2. ASSUME NEW ok \in BOOLEAN, toGcs' = toGcs \union {Ack(ok)}
          PROVE  Answered
      BY <2>2, MessagesSent DEF Ack
    <2>3. ASSUME toGcs' = toGcs \union {MissionCount}
          PROVE  Answered
      BY <2>3, MessagesSent DEF MissionCount
    <2>4. ASSUME NEW i \in Items, toGcs' = toGcs \union {MissionItem(i, stored)},
                 stored' = stored
          PROVE  Answered
      BY <2>4, <1>1, MessagesSent DEF MissionItem, RunTypes
    <2>5. ASSUME toGcs' = toGcs
          PROVE  Answered
      BY <2>5, MessagesSent DEF MissionCount
    <2>6. ASSUME NEW m \in toVehicle, VehicleReceives(m)
          PROVE  Answered
      <3>1. m.kind = "fetch" => m.seq \in Items
        BY <1>1, MessageKinds DEF RunTypes
      <3> QED BY <2>6, <3>1, <2>1, <2>2, <2>3, <2>4, <2>5, <1>4
              DEF VehicleReceives, Reply, vehicleVars
    <2>7. CASE VehicleTimesOut
      BY <2>7, <1>1, <2>1, <2>2 DEF VehicleTimesOut, Reply, RunTypes
    <2> QED BY <2>6, <2>7
  <1>7. RunTypes'
    BY <1>1, <1>2, <1>5, <1>6 DEF RunTypes, loopVars
  <1>8. ReadbackInv'
    BY <1>2, <1>5, <1>6 DEF ReadbackInv, VerifiedMissionIsStored, txVars
  <1> QED BY <1>3, <1>7, <1>8, TypeParts

\* Every step of the run, the link and the vehicle.
LEMMA NextKeepsRunInv ==
  ASSUME RunInv, [Next]_vars
  PROVE  RunInv'
  <1>1. CASE UNCHANGED vars
    BY <1>1 DEF vars, RunInv, TypeOK, TxTypeOK, ReadbackInv, VerifiedMissionIsStored,
                loopVars, vehicleVars, Ended
  <1>2. CASE RunStep
    BY <1>2, UploadReceivesKeeps, ReadbackCountKeeps, ReadbackItemKeeps, UploadIdlesKeeps,
       ReadbackIdlesKeeps, RunEndsKeep, InterruptionsKeep DEF RunStep
  <1> QED BY <1>1, <1>2, InterruptionsKeep, VehicleKeeps DEF Next

LEMMA RunInitially == Init => RunInv
  <1> SUFFICES ASSUME Init PROVE RunInv
    OBVIOUS
  <1>1. 0 \in Items /\ 0 \in 0 .. MaxIdle /\ 0 \in 0 .. MaxAttempts
    BY ItemCountAssumption, RetryAssumption DEF Items
  <1>2. toGcs \subseteq Leftovers
    BY DEF Init
  <1>3. toGcs \subseteq ToGcs
    BY <1>2 DEF ToGcs
  <1>4. TypeOK
    BY <1>1, <1>3, MessagesSent DEF Init, TypeOK, TxTypeOK, States, Ended
  <1>5. \A m \in toGcs : m.kind = "mission_item" => m.mission = "old"
    BY <1>2 DEF Leftovers, Ack, MissionCount, Foreign, Forbidden, Request, MissionItem
  <1>6. ReadbackInv
    BY <1>5 DEF Init, ReadbackInv, VerifiedMissionIsStored
  <1> QED BY <1>4, <1>6 DEF RunInv

\* The types of the run, the link and the vehicle hold, and an item of the
\* uploaded mission on the link comes from a vehicle that stores it.
THEOREM ExternalInvariant == Spec => []RunInv
  BY RunInitially, NextKeepsRunInv, PTL DEF Spec

\* Every variable of the run keeps its type, for every number of items, retries
\* and leftover messages.
THEOREM ExternalTypes == Spec => []TypeOK
  <1>1. RunInv => TypeOK
    BY DEF RunInv
  <1> QED BY <1>1, ExternalInvariant, PTL

\* A run gets past the readback only when the vehicle stores the mission that
\* was uploaded, whatever stale messages the link delivers and whatever it loses.
THEOREM ReadbackIsTrue == Spec => []VerifiedMissionIsStored
  <1>1. RunInv => VerifiedMissionIsStored
    BY DEF RunInv, ReadbackInv
  <1> QED BY <1>1, ExternalInvariant, PTL
------------------------------------------------------------------------------
(***************************************************************************)
(* The run and its transaction.                                            *)
(***************************************************************************)
\* Where the run is and what its transaction says: each call finds the state it
\* requires, so that only its evidence can deny it, and a run that failed has
\* not permitted a start.
RunMatchesTransaction ==
  /\ pc = "upload" => txState = "uploading"
  /\ pc \in {"readback_count", "readback_items"} => txState = "uploaded"
  /\ pc = "commit" => txState = "readback_verified"
  /\ pc = "permit" => txState = "committed"
  /\ pc = "done" <=> txState = "start_permitted"
  /\ ~expired

\* Every step of the run is a call of the transaction or leaves it alone, and
\* keeps the two in agreement.
LEMMA RunCallsTransaction ==
  ASSUME RunInv, RunMatchesTransaction, [Next]_vars
  PROVE  [TxNext]_txVars /\ RunMatchesTransaction'
  <1> USE DEF RunMatchesTransaction
  <1>1. \A m \in toGcs : m.kind = "request" => m.seq \in Items
    BY MessageKinds DEF RunInv, TypeOK
  <1>2. CASE UNCHANGED <<txVars, pc>>
    BY <1>2 DEF txVars
  <1>3. CASE UNCHANGED txVars /\ pc \notin Ended /\ pc' = "failed"
    BY <1>3 DEF txVars, Ended
  <1>4. ASSUME NEW m \in toGcs, UploadReceives(m)
        PROVE  [TxNext]_txVars /\ RunMatchesTransaction'
    <2>1. pc = "upload" /\ txState = "uploading" /\ ~expired
      BY <1>4 DEF UploadReceives
    <2>2. CASE UNCHANGED txVars /\ (pc' = pc \/ Fail)
      BY <2>1, <2>2 DEF txVars, Fail
    <2>3. CASE m.kind = "request" /\ TxItemRequest(m.seq, FALSE) /\ UNCHANGED pc
      <3>1. TxNext
        BY <1>1, <2>3 DEF TxNext
      <3> QED BY <2>1, <2>3, <3>1 DEF TxItemRequest
    <2>4. CASE /\ requested = Items /\ TxAcceptUploadAck(m.ok)
               /\ pc' = IF txState' = "denied" THEN "failed" ELSE "readback_count"
      <3>1. txState' \in {"denied", "uploaded"} /\ UNCHANGED <<requested, expired>>
        BY <2>4 DEF TxAcceptUploadAck, AdvanceOrDeny
      <3>2. \E accepted \in BOOLEAN : TxAcceptUploadAck(accepted)
        <4>1. CASE txState' = "uploaded"
          BY <2>4, <4>1 DEF TxAcceptUploadAck, AdvanceOrDeny
        <4>2. CASE txState' = "denied"
          BY <3>1, <4>2 DEF TxAcceptUploadAck, AdvanceOrDeny
        <4> QED BY <3>1, <4>1, <4>2
      <3>3. TxNext
        BY <3>2 DEF TxNext
      <3> QED BY <2>1, <2>4, <3>1, <3>3
    <2> QED BY <1>4, <2>2, <2>3, <2>4 DEF UploadReceives, Fail
  <1>5. ASSUME NEW m \in toGcs, ReadbackCount(m)
        PROVE  [TxNext]_txVars /\ RunMatchesTransaction'
    <2>1. /\ pc = "readback_count" /\ pc' \in {pc, "failed", "readback_items"}
          /\ UNCHANGED txVars
      BY <1>5 DEF ReadbackCount, Fail
    <2> QED BY <2>1 DEF txVars
  <1>6. CASE AttemptIsSpent /\ pc = "readback_items" /\ UNCHANGED txVars
    BY <1>6 DEF AttemptIsSpent, Fail, txVars
  <1>7. ASSUME NEW m \in toGcs, ReadbackItem(m)
        PROVE  [TxNext]_txVars /\ RunMatchesTransaction'
    <2>1. pc = "readback_items"
      BY <1>7 DEF ReadbackItem
    <2>2. CASE /\ TxVerifyReadback(matches /\ m.mission = "new")
               /\ pc' = IF txState' = "denied" THEN "failed" ELSE "commit"
      <3>1. (matches /\ m.mission = "new") \in BOOLEAN
        OBVIOUS
      <3>2. TxNext
        BY <2>2, <3>1 DEF TxNext
      <3> QED BY <2>1, <2>2, <3>2 DEF TxVerifyReadback, AdvanceOrDeny
    <2> QED BY <1>2, <1>3, <1>6, <1>7, <2>1, <2>2 DEF ReadbackItem, Fail, Ended
  <1>8. CASE RunCommits \/ RunPermits
    <2>1. TxNext
      BY <1>8 DEF RunCommits, RunPermits, TxNext
    <2> QED BY <1>8, <2>1 DEF RunCommits, RunPermits, TxCommit, TxPermitStart, AdvanceOrDeny
  <1>9. CASE UploadIdles \/ ReadbackIdles \/ DeadlinePasses \/ JournalRaises
    BY <1>2, <1>3, <1>6, <1>9
       DEF UploadIdles, ReadbackIdles, DeadlinePasses, JournalRaises, Fail, Ended
  <1>10. CASE \/ ClockAdvances \/ LinkDrops \/ VehicleTimesOut
              \/ \E m \in toVehicle : VehicleReceives(m)
    BY <1>2, <1>10 DEF ClockAdvances, LinkDrops, VehicleTimesOut, VehicleReceives
  <1> QED BY <1>2, <1>4, <1>5, <1>7, <1>8, <1>9, <1>10 DEF Next, RunStep, vars, txVars

LEMMA RunAgrees == Spec => []RunMatchesTransaction
  <1>1. Init => RunMatchesTransaction
    BY DEF Init, RunMatchesTransaction
  <1>2. RunInv /\ RunMatchesTransaction /\ [Next]_vars => RunMatchesTransaction'
    BY RunCallsTransaction
  <1> QED BY <1>1, <1>2, ExternalInvariant, PTL DEF Spec

\* A run hands out a start permit exactly when it ends well: a deadline, a spent
\* retry, a forbidden message or a failing journal never leaves one behind, and
\* no call is refused for the transaction's state.
THEOREM PermitMeansDone == Spec => []RunMatchesTransaction
  BY RunAgrees

\* A run is a use of the transaction that has begun its upload: whatever the
\* vehicle sends, the transaction is only stepped by its own calls.
THEOREM RunIsTransaction ==
  Spec => /\ txState = "uploading" /\ requested = {} /\ ~expired
          /\ [][TxNext]_txVars
  <1>1. Init => txState = "uploading" /\ requested = {} /\ ~expired
    BY DEF Init
  <1>2. RunInv /\ RunMatchesTransaction /\ [Next]_vars => [TxNext]_txVars
    BY RunCallsTransaction
  <1> QED BY <1>1, <1>2, RunAgrees, ExternalInvariant, PTL DEF Spec

\* A run past the acknowledgement has served every item of the plan, whatever
\* stale requests and acknowledgements of earlier exchanges it took in.
THEOREM RunServesEveryItem == Spec => []UploadIsComplete
  <1>1. txState = "uploading" => UploadIsComplete
    BY DEF UploadIsComplete, AfterUpload
  <1>2. RunInv => TxTypeOK
    BY DEF RunInv, TypeOK
  <1>3. TxTypeOK /\ UploadIsComplete /\ [TxNext]_txVars => UploadIsComplete'
    BY TxNextKeepsComplete DEF TxInv
  <1> QED BY <1>1, <1>2, <1>3, RunIsTransaction, ExternalInvariant, PTL
------------------------------------------------------------------------------
\* The receives the readback of items has left before it raises.
Budget == (ItemCount - 1 - expect) * (MaxAttempts + 1) + (MaxAttempts - attempt)

\* While items are read back every receive, whatever it brought, is paid from
\* the budget: the readback ends after at most ItemCount * (MaxAttempts + 1).
ReceivesArePaid ==
  [][RunStep /\ pc = "readback_items" /\ pc' = "readback_items"
       => Budget \in Nat /\ Budget' \in Nat /\ Budget' < Budget]_vars

\* A budget in whole items and the attempts left for the next one.
LEMMA BudgetArithmetic ==
  ASSUME NEW n \in Nat, NEW k \in Nat, NEW a \in 0 .. k
  PROVE  /\ n * (k + 1) + (k - a) \in Nat
         /\ n > 0 => (n - 1) * (k + 1) + k < n * (k + 1) + (k - a)
         /\ a < k => n * (k + 1) + (k - (a + 1)) < n * (k + 1) + (k - a)
  <1> DEFINE p == n * (k + 1)
  <1>1. p \in Nat
    OBVIOUS
  <1>2. (n - 1) * (k + 1) = p - (k + 1)
    OBVIOUS
  <1> HIDE DEF p
  <1> QED BY <1>1, <1>2 DEF p

\* Safety half of RunEnds for the one loop without a deadline.
THEOREM ReadbackIsBounded == Spec => ReceivesArePaid
  <1>1. ASSUME RunInv, RunStep, pc = "readback_items", pc' = "readback_items"
        PROVE  Budget \in Nat /\ Budget' \in Nat /\ Budget' < Budget
    <2>1. /\ expect \in Items /\ attempt \in 0 .. MaxAttempts
          /\ ItemCount \in Nat \ {0} /\ MaxAttempts \in Nat
      BY <1>1, ItemCountAssumption, RetryAssumption DEF RunInv, TypeOK
    <2>2. \/ /\ expect' = expect /\ attempt' = attempt + 1 /\ attempt # MaxAttempts
          \/ /\ expect' = expect + 1 /\ expect + 1 \in Items /\ attempt' = 0
      BY <1>1 DEF RunStep, UploadReceives, ReadbackCount, ReadbackItem, UploadIdles,
                  ReadbackIdles, DeadlinePasses, RunCommits, RunPermits, JournalRaises,
                  AttemptIsSpent, Fail
    <2> DEFINE left == ItemCount - 1 - expect
    <2>3. left \in Nat
      BY <2>1 DEF Items
    <2>4. CASE /\ expect' = expect /\ attempt' = attempt + 1 /\ attempt # MaxAttempts
      <3>1. attempt < MaxAttempts /\ attempt + 1 \in 0 .. MaxAttempts
        BY <2>1, <2>4
      <3>2. Budget = left * (MaxAttempts + 1) + (MaxAttempts - attempt)
        BY DEF Budget
      <3>3. Budget' = left * (MaxAttempts + 1) + (MaxAttempts - (attempt + 1))
        BY <2>4 DEF Budget
      <3> HIDE DEF left
      <3> QED BY <2>1, <2>3, <3>1, <3>2, <3>3, BudgetArithmetic
    <2>5. CASE /\ expect' = expect + 1 /\ expect + 1 \in Items /\ attempt' = 0
      <3>1. left > 0 /\ ItemCount - 1 - (expect + 1) = left - 1 /\ left - 1 \in Nat
        BY <2>1, <2>5 DEF Items
      <3>2. Budget = left * (MaxAttempts + 1) + (MaxAttempts - attempt)
        BY DEF Budget
      <3>3. Budget' = (left - 1) * (MaxAttempts + 1) + (MaxAttempts - 0)
        BY <2>5, <3>1 DEF Budget
      <3> HIDE DEF left
      <3>4. 0 \in 0 .. MaxAttempts /\ MaxAttempts - 0 = MaxAttempts
        BY <2>1
      <3>5. Budget \in Nat
        BY <2>1, <2>3, <3>2, BudgetArithmetic
      <3>6. Budget' \in Nat
        BY <2>1, <3>1, <3>3, <3>4, BudgetArithmetic
      <3>7. Budget' < Budget
        BY <2>1, <2>3, <3>1, <3>2, <3>3, <3>4, BudgetArithmetic
      <3> QED BY <3>5, <3>6, <3>7
    <2> QED BY <2>2, <2>4, <2>5
  <1>2. RunInv /\ [Next]_vars =>
          [RunStep /\ pc = "readback_items" /\ pc' = "readback_items"
             => Budget \in Nat /\ Budget' \in Nat /\ Budget' < Budget]_vars
    BY <1>1
  <1> QED BY <1>2, ExternalInvariant, PTL DEF Spec, ReceivesArePaid
==============================================================================
