------------------------ MODULE Px4MissionTransaction ------------------------
(***************************************************************************)
(* px4_mission.Px4MissionTransaction: the in-memory gate between an        *)
(* operator grant and permission to start the mission.  Every method first *)
(* requires its state (_require_state), then its evidence; whatever fails  *)
(* moves the object to "denied" (_deny) and raises.  An action below is    *)
(* one call, denial included.  Evidence is abstracted to whether the       *)
(* method accepts it: an acknowledgement is accepted when its type,        *)
(* mission type and source are PX4's, a readback when its wire hash and    *)
(* source match.                                                           *)
(***************************************************************************)
EXTENDS MissionStates

VARIABLES txState,      \* _state
          requested,    \* _requested_sequences
          expired       \* the clock has reached _expires_at

txVars == <<txState, requested, expired>>

\* One guarded stage change: advance if the evidence holds, else deny.
AdvanceOrDeny(holds, to) ==
  /\ txState' = IF holds THEN to ELSE "denied"
  /\ UNCHANGED <<requested, expired>>

TxBeginUpload ==
  AdvanceOrDeny(txState = "authorized" /\ ~expired, "uploading")

\* A MISSION_REQUEST_INT for an item of the plan, or a legacy request.  There
\* is no expiry check here; a sequence outside the plan raises and changes
\* nothing.
TxItemRequest(item, legacy) ==
  IF txState = "uploading" /\ ~legacy
    THEN /\ requested' = requested \union {item}
         /\ UNCHANGED <<txState, expired>>
    ELSE AdvanceOrDeny(FALSE, "uploading")

\* accept_upload_ack, with its completeness check.
TxAcceptUploadAck(accepted) ==
  AdvanceOrDeny(/\ txState = "uploading"
                /\ ~expired
                /\ requested = Items
                /\ accepted, "uploaded")

\* Mutant: the readback is not compared.
TxVerifyReadbackUnchecked(matches) ==
  AdvanceOrDeny(txState = "uploaded" /\ ~expired, "readback_verified")

TxVerifyReadback(matches) ==
  AdvanceOrDeny(txState = "uploaded" /\ ~expired /\ matches, "readback_verified")

TxCommit ==
  AdvanceOrDeny(txState = "readback_verified" /\ ~expired, "committed")

\* Mutant: permit_start forgets the grant's expiry.
TxPermitStartUnchecked == AdvanceOrDeny(txState = "committed", "start_permitted")

TxPermitStart ==
  AdvanceOrDeny(txState = "committed" /\ ~expired, "start_permitted")

\* The clock passes the grant's expires_at.
GrantExpires ==
  /\ ~expired
  /\ expired' = TRUE
  /\ UNCHANGED <<txState, requested>>
------------------------------------------------------------------------------
TxInit == txState = "authorized" /\ requested = {} /\ expired = FALSE

TxNext ==
  \/ TxBeginUpload
  \/ \E item \in Items, legacy \in BOOLEAN : TxItemRequest(item, legacy)
  \/ \E accepted \in BOOLEAN : TxAcceptUploadAck(accepted)
  \/ \E matches \in BOOLEAN : TxVerifyReadback(matches)
  \/ TxCommit
  \/ TxPermitStart
  \/ GrantExpires

TxSpec == TxInit /\ [][TxNext]_txVars
------------------------------------------------------------------------------
\* The object is always in a known state and has served known items only.
TxTypeOK ==
  /\ txState \in States
  /\ requested \subseteq Items
  /\ expired \in BOOLEAN

\* No call sequence gets behind the upload acknowledgement while an item of
\* the plan was never requested (accept_upload_ack's completeness check).
UploadIsComplete == txState \in AfterUpload => requested = Items

\* However the calls are ordered, a grant that has expired never brings the
\* mission closer to start: only item requests and denials remain.
NoAdvanceAfterExpiry == [][expired => txState' \in {txState, "denied"}]_txVars
==============================================================================
