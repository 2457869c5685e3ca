--------------------------- MODULE ExternalMission ---------------------------
(***************************************************************************)
(* px4_external_mission.run_external_px4_mission_transaction: one upload,  *)
(* readback, commit and permit over a MAVLink that loses and reorders      *)
(* messages and may still hold messages of earlier exchanges, driving the  *)
(* gate of Px4MissionTransaction.  The vehicle is external: PX4's side of  *)
(* the mission protocol, which stores an upload when its last item has     *)
(* arrived.                                                                *)
(*                                                                         *)
(* A mission's items are abstracted to the mission they belong to: "new"   *)
(* is the one being uploaded, "old" the one the vehicle had.  Every call   *)
(* gets the now_utc with which the run began, so the grant never expires   *)
(* inside a run.                                                           *)
(***************************************************************************)
EXTENDS Px4MissionTransaction, FiniteSets

CONSTANTS MaxIdle,      \* maximum_idle_retries of the upload
          MaxAttempts,  \* maximum_retries_per_item of the readback
          MaxStale      \* bound: messages left over from earlier exchanges

ASSUME RetryAssumption == MaxIdle \in Nat /\ MaxAttempts \in Nat /\ MaxStale \in Nat

VARIABLES pc,           \* where the run is
          late,         \* the deadline of the current loop has passed
          idle,         \* retries: receives that returned nothing
          premature,    \* premature_ack_count
          expect,       \* expected_sequence of the readback
          attempt,      \* attempts spent on it
          matches,      \* every item read back so far is the uploaded one
          toVehicle,    \* messages on the way to the vehicle
          toGcs,        \* messages on the way to this process
          receiving,    \* the vehicle is in an upload
          next,         \* the item it asks for
          stored        \* the mission it would fly

loopVars == <<late, idle, premature, expect, attempt, matches>>
vehicleVars == <<receiving, next, stored>>
vars == <<txState, requested, expired, pc, loopVars, toVehicle, toGcs, vehicleVars>>

\* To the vehicle.
Count == [kind |-> "count"]
Item(i) == [kind |-> "item", seq |-> i]
List == [kind |-> "list"]
Fetch(i) == [kind |-> "fetch", seq |-> i]

\* To this process.  "foreign" is for another GCS and skipped; "forbidden" is a
\* legacy message, one of another mission type or a count of another size, and
\* raises.
Request(i) == [kind |-> "request", seq |-> i]
Ack(ok) == [kind |-> "ack", ok |-> ok]
MissionCount == [kind |-> "mission_count"]
MissionItem(i, mission) == [kind |-> "mission_item", seq |-> i, mission |-> mission]
Foreign == [kind |-> "foreign"]
Forbidden == [kind |-> "forbidden"]

Leftovers == {Ack(TRUE), MissionCount, Foreign, Forbidden}
             \union {Request(i) : i \in Items}
             \union {MissionItem(i, "old") : i \in Items}

ToVehicle == {Count, List} \union {Item(i) : i \in Items} \union {Fetch(i) : i \in Items}
ToGcs == Leftovers \union {Ack(FALSE)} \union {MissionItem(i, "new") : i \in Items}

Ended == {"done", "failed"}

Send(m) == toVehicle' = toVehicle \union {m}
Take(m) == m \in toGcs /\ toGcs' = toGcs \ {m}
Fail == pc' = "failed" /\ UNCHANGED <<loopVars, toVehicle>>
------------------------------------------------------------------------------
\* upload_mission_int, one turn of its loop that received a message.
UploadReceives(m) ==
  /\ pc = "upload" /\ ~late
  /\ Take(m)
  /\ UNCHANGED vehicleVars
  /\ \/ m.kind = "foreign" /\ UNCHANGED <<txVars, pc, loopVars, toVehicle>>
     \/ m.kind = "forbidden" /\ Fail /\ UNCHANGED txVars
     \/ /\ m.kind = "request"
        /\ TxItemRequest(m.seq, FALSE)
        /\ Send(Item(m.seq))
        /\ UNCHANGED <<pc, loopVars>>
     \/ /\ m.kind = "ack" /\ requested # Items
        /\ UNCHANGED txVars
        /\ IF premature = MaxIdle
             THEN Fail
             ELSE /\ premature' = premature + 1
                  /\ UNCHANGED <<pc, late, idle, expect, attempt, matches, toVehicle>>
     \/ /\ m.kind = "ack" /\ requested = Items
        /\ TxAcceptUploadAck(m.ok)
        /\ IF txState' = "denied"
             THEN Fail
             ELSE /\ pc' = "readback_count" /\ late' = FALSE
                  /\ Send(List)
                  /\ UNCHANGED <<idle, premature, expect, attempt, matches>>

\* ... and one that received nothing: announce the mission again.
UploadIdles ==
  /\ pc = "upload" /\ ~late
  /\ IF idle = MaxIdle
       THEN Fail
       ELSE /\ idle' = idle + 1
            /\ Send(Count)
            /\ UNCHANGED <<pc, late, premature, expect, attempt, matches>>
  /\ UNCHANGED <<txVars, toGcs, vehicleVars>>

\* readback_mission_int until the vehicle's MISSION_COUNT; a receive that
\* returns nothing changes nothing.
ReadbackCount(m) ==
  /\ pc = "readback_count" /\ ~late
  /\ Take(m)
  /\ \/ m.kind = "foreign" /\ UNCHANGED <<pc, loopVars, toVehicle>>
     \/ m.kind = "forbidden" /\ Fail
     \/ /\ m.kind = "mission_count"
        /\ pc' = "readback_items" /\ expect' = 0 /\ attempt' = 0 /\ matches' = TRUE
        /\ Send(Fetch(0))
        /\ UNCHANGED <<late, idle, premature>>
  /\ UNCHANGED <<txVars, vehicleVars>>

\* Mutant: only the upload loop has a deadline.
DeadlinePassesInUpload ==
  /\ pc = "upload" /\ late
  /\ Fail
  /\ UNCHANGED <<txVars, toGcs, vehicleVars>>

\* Both loops give up at their deadline.
DeadlinePasses ==
  /\ pc \in {"upload", "readback_count"} /\ late
  /\ Fail
  /\ UNCHANGED <<txVars, toGcs, vehicleVars>>

\* An attempt at an item that brought nothing usable: ask again, or raise.
AttemptIsSpent ==
  IF attempt = MaxAttempts
    THEN Fail
    ELSE /\ attempt' = attempt + 1
         /\ Send(Fetch(expect))
         /\ UNCHANGED <<pc, late, idle, premature, expect, matches>>

ReadbackItem(m) ==
  /\ pc = "readback_items"
  /\ Take(m)
  /\ UNCHANGED vehicleVars
  /\ \/ m.kind \in {"forbidden", "ack"} /\ Fail /\ UNCHANGED txVars
     \/ /\ m.kind = "foreign" \/ (m.kind = "mission_item" /\ m.seq # expect)
        /\ AttemptIsSpent
        /\ UNCHANGED txVars
     \/ /\ m.kind = "mission_item" /\ m.seq = expect
        /\ expect + 1 \in Items
        /\ expect' = expect + 1 /\ attempt' = 0
        /\ matches' = (matches /\ m.mission = "new")
        /\ Send(Fetch(expect + 1))
        /\ UNCHANGED <<txVars, pc, late, idle, premature>>
     \/ /\ m.kind = "mission_item" /\ m.seq = expect
        /\ expect + 1 \notin Items
        /\ TxVerifyReadback(matches /\ m.mission = "new")
        /\ pc' = IF txState' = "denied" THEN "failed" ELSE "commit"
        /\ UNCHANGED <<loopVars, toVehicle>>

ReadbackIdles ==
  /\ pc = "readback_items"
  /\ AttemptIsSpent
  /\ UNCHANGED <<txVars, toGcs, vehicleVars>>

RunCommits ==
  /\ pc = "commit"
  /\ TxCommit
  /\ pc' = IF txState' = "denied" THEN "failed" ELSE "permit"
  /\ UNCHANGED <<loopVars, toVehicle, toGcs, vehicleVars>>

RunPermits ==
  /\ pc = "permit"
  /\ TxPermitStart
  /\ pc' = IF txState' = "denied" THEN "failed" ELSE "done"
  /\ UNCHANGED <<loopVars, toVehicle, toGcs, vehicleVars>>

\* A call of the persistent adapter raises because its journal does.
JournalRaises ==
  /\ pc \notin Ended
  /\ Fail
  /\ UNCHANGED <<txVars, toGcs, vehicleVars>>
------------------------------------------------------------------------------
\* The environment: time, the link, and PX4.
ClockAdvances ==
  /\ pc \in {"upload", "readback_count"} /\ ~late
  /\ late' = TRUE
  /\ UNCHANGED <<txVars, pc, idle, premature, expect, attempt, matches,
                 toVehicle, toGcs, vehicleVars>>

\* A message is lost, or discarded by a receive that asked for other types.
LinkDrops ==
  /\ \/ \E m \in toVehicle : toVehicle' = toVehicle \ {m} /\ UNCHANGED toGcs
     \/ \E m \in toGcs : toGcs' = toGcs \ {m} /\ UNCHANGED toVehicle
  /\ UNCHANGED <<txVars, pc, loopVars, vehicleVars>>

Reply(m) == toGcs' = toGcs \union {m}

\* The vehicle receives a message.
VehicleReceives(m) ==
  /\ m \in toVehicle /\ toVehicle' = toVehicle \ {m}
  /\ \/ /\ m = Count
        /\ receiving' = TRUE /\ next' = 0
        /\ Reply(Request(0))
        /\ UNCHANGED stored
     \/ /\ m.kind = "item" /\ receiving /\ m.seq = next
        /\ IF next + 1 \in Items
             THEN /\ next' = next + 1
                  /\ Reply(Request(next + 1))
                  /\ UNCHANGED <<receiving, stored>>
             ELSE /\ receiving' = FALSE /\ stored' = "new"
                  /\ Reply(Ack(TRUE))
                  /\ UNCHANGED next
     \/ /\ m.kind = "item" /\ ~(receiving /\ m.seq = next)
        /\ UNCHANGED <<toGcs, vehicleVars>>
     \/ m = List /\ ~receiving /\ Reply(MissionCount) /\ UNCHANGED vehicleVars
     \/ /\ m.kind = "fetch" /\ ~receiving
        /\ Reply(MissionItem(m.seq, stored))
        /\ UNCHANGED vehicleVars
     \/ m.kind \in {"list", "fetch"} /\ receiving /\ UNCHANGED <<toGcs, vehicleVars>>
  /\ UNCHANGED <<txVars, pc, loopVars>>

\* It asks again for the item it waits for, or gives the upload up.
VehicleTimesOut ==
  /\ receiving
  /\ \/ Reply(Request(next)) /\ UNCHANGED receiving
     \/ Reply(Ack(FALSE)) /\ receiving' = FALSE
  /\ UNCHANGED <<txVars, pc, loopVars, toVehicle, next, stored>>
------------------------------------------------------------------------------
\* mission_count_send starts the upload of a transaction that has begun it.
Init ==
  /\ txState = "uploading" /\ requested = {} /\ expired = FALSE
  /\ pc = "upload" /\ late = FALSE
  /\ idle = 0 /\ premature = 0 /\ expect = 0 /\ attempt = 0 /\ matches = TRUE
  /\ toVehicle = {Count}
  /\ toGcs \in {m \in SUBSET Leftovers : Cardinality(m) <= MaxStale}
  /\ receiving = FALSE /\ next = 0 /\ stored = "old"

RunStep ==
  \/ \E m \in toGcs : UploadReceives(m) \/ ReadbackCount(m) \/ ReadbackItem(m)
  \/ UploadIdles \/ ReadbackIdles \/ DeadlinePasses
  \/ RunCommits \/ RunPermits
  \/ JournalRaises

Next ==
  \/ RunStep
  \/ ClockAdvances
  \/ LinkDrops
  \/ \E m \in toVehicle : VehicleReceives(m)
  \/ VehicleTimesOut

\* The deadlines are clock readings, so time passes; what the run does between
\* two readings returns (receives have a timeout).
Spec == Init /\ [][Next]_vars

FairSpec ==
  /\ Spec
  /\ WF_vars(ClockAdvances)
  /\ WF_vars(DeadlinePasses)
  /\ WF_vars(ReadbackIdles)
  /\ WF_vars(RunCommits) /\ WF_vars(RunPermits)
------------------------------------------------------------------------------
TypeOK ==
  /\ TxTypeOK
  /\ pc \in {"upload", "readback_count", "readback_items", "commit", "permit"} \union Ended
  /\ late \in BOOLEAN /\ matches \in BOOLEAN
  /\ idle \in 0 .. MaxIdle /\ premature \in 0 .. MaxIdle
  /\ expect \in Items /\ attempt \in 0 .. MaxAttempts
  /\ toVehicle \subseteq ToVehicle /\ toGcs \subseteq ToGcs
  /\ receiving \in BOOLEAN /\ next \in Items /\ stored \in {"old", "new"}

\* The transaction passes the readback only when the vehicle stores the mission
\* that was uploaded, whatever acknowledgements, counts and items of earlier
\* exchanges the link still delivers and whatever it loses.
VerifiedMissionIsStored ==
  txState \in {"readback_verified", "committed", "start_permitted"} => stored = "new"

\* However the vehicle and the link behave, the run ends: in particular a vehicle
\* that asks for the same item for ever does not hold it.
RunEnds == <>(pc \in Ended)
==============================================================================
