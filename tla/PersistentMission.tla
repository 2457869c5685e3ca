-------------------------- MODULE PersistentMission --------------------------
(***************************************************************************)
(* mission_journal.PersistentPx4MissionTransaction: the adapter that runs  *)
(* each call on the in-memory transaction first and records it in the      *)
(* journal second, across failing writes, deaths of the process, resumed   *)
(* checkpoints and repaired tails.                                         *)
(*                                                                         *)
(* Composes Px4MissionTransaction and MissionJournal.  A call is one       *)
(* action: _require_sync, the transaction's method, then the journal       *)
(* append, whose outcome `out' decides what the caller sees: only "ok"     *)
(* returns to it, every other outcome raises (or the process is gone).     *)
(***************************************************************************)
EXTENDS Px4MissionTransaction, MissionJournal

VARIABLES attached,     \* an adapter binds a transaction to the open journal
          issued        \* history: a caller has received a MissionStartPermit

vars == <<txState, requested, expired, exists, file, torn, quarantined,
          open, committed, recovery, residual, attached, issued>>

\* Mutant: calls do not compare the transaction with its journal.
Unsynced == attached

\* _require_sync
Synced == attached /\ txState = JournalState

\* The journal half of a call: a denied transaction is recorded as denied,
\* with the journal's own clock (_record_denial, unless the journal says so
\* already), anything else as the transition the transaction just made.
RecordResult(out) ==
  IF txState' = "denied"
    THEN /\ out # "clock_behind"
         /\ RecordTransition("denied", out)
    ELSE RecordTransition(txState', out)

\* The adapter dies with its process.
StayAttached(out) == attached' = (out # "died")

BeginUpload(out) ==
  /\ Synced
  /\ TxBeginUpload
  /\ RecordResult(out)
  /\ StayAttached(out) /\ UNCHANGED issued

MissionItemForRequest(item, legacy, out) ==
  /\ Synced
  /\ TxItemRequest(item, legacy)
  /\ IF txState' = "denied" THEN RecordResult(out) ELSE RecordItemRequest(item, out)
  /\ StayAttached(out) /\ UNCHANGED issued

AcceptUploadAck(accepted, out) ==
  /\ Synced
  /\ TxAcceptUploadAck(accepted)
  /\ RecordResult(out)
  /\ StayAttached(out) /\ UNCHANGED issued

VerifyReadback(matches, out) ==
  /\ Synced
  /\ TxVerifyReadback(matches)
  /\ RecordResult(out)
  /\ StayAttached(out) /\ UNCHANGED issued

Commit(out) ==
  /\ Synced
  /\ TxCommit
  /\ RecordResult(out)
  /\ StayAttached(out) /\ UNCHANGED issued

\* Mutant: the error of the failed append is swallowed.
PermitStartSwallows(out) ==
  /\ Synced
  /\ TxPermitStart
  /\ RecordResult(out)
  /\ StayAttached(out)
  /\ issued' = (issued \/ (out \in {"ok", "failed"} /\ txState' = "start_permitted"))

\* The permit goes to the caller only when the append has returned and the
\* transaction was not denied.
PermitStart(out) ==
  /\ Synced
  /\ TxPermitStart
  /\ RecordResult(out)
  /\ StayAttached(out)
  /\ issued' = (issued \/ (out = "ok" /\ txState' = "start_permitted"))

\* start_permit_from_checkpoint rebuilds the permit from the last record; the
\* payload of a recovery acknowledgement is not one, and raises.
StartPermitFromCheckpoint ==
  /\ Synced
  /\ txState = "start_permitted"
  /\ file[committed].event = "transition"
  /\ issued' = TRUE
  /\ UNCHANGED <<txVars, journalVars, attached>>

\* A new transaction object for the same grant (its constructor refuses an
\* expired one) and an adapter on the journal: at "authorized" as it is, at
\* any later checkpoint but "denied" through resume(), which restores the
\* state and the requested items.
Attach ==
  /\ open /\ ~recovery
  /\ ~expired
  /\ JournalState # "denied"
  /\ txState' = JournalState
  /\ requested' = IF JournalState = "authorized" THEN {} ELSE JournalRequested
  /\ attached' = TRUE
  /\ UNCHANGED <<expired, journalVars, issued>>
------------------------------------------------------------------------------
\* Steps of the journal and of its environment, which no adapter drives.
\* Closing the journal ends its adapter; repairing it does not.
JournalStep ==
  \/ /\ \/ \E out \in Outcomes : CreateJournal(out)
        \/ OpenJournal
        \/ CloseJournal
        \/ KillJournal
     /\ attached' = FALSE
  \/ /\ \E default \in BOOLEAN :
          \/ \E out \in Outcomes : RepairTail(default, out)
          \/ RepairInterrupted(default)
     /\ attached' = (attached /\ open')
  \/ ExternalTail /\ UNCHANGED attached

Init == TxInit /\ JournalInit /\ attached = FALSE /\ issued = FALSE

Next ==
  \/ \E out \in Outcomes :
       \/ BeginUpload(out)
       \/ \E item \in Items, legacy \in BOOLEAN : MissionItemForRequest(item, legacy, out)
       \/ \E accepted \in BOOLEAN : AcceptUploadAck(accepted, out)
       \/ \E matches \in BOOLEAN : VerifyReadback(matches, out)
       \/ Commit(out)
       \/ PermitStart(out)
  \/ StartPermitFromCheckpoint
  \/ Attach
  \/ JournalStep /\ UNCHANGED <<txVars, issued>>
  \/ GrantExpires /\ UNCHANGED <<journalVars, attached, issued>>

Spec == Init /\ [][Next]_vars
------------------------------------------------------------------------------
TypeOK == TxTypeOK /\ JournalTypeOK /\ attached \in BOOLEAN /\ issued \in BOOLEAN

\* Once a caller holds a start permit, every later reading of the journal says
\* so: no death, failed write, late flush or repaired tail takes the
\* start_permitted record back ("do not expose a permit" before it is durable).
PermitIsDurable == issued => file # <<>> /\ file[Len(file)].to = "start_permitted"

\* When memory and journal disagree, the memory is the one ahead, by the single
\* step whose append failed or by a denial: the journal never runs ahead of the
\* transaction it checkpoints, so no call can skip a stage.
DivergenceIsOneStep ==
  attached => \/ txState = JournalState
              \/ txState = "denied"
              \/ txState \in StateTransitions[JournalState]

\* After the grant has expired no process, resumed or not, writes a new forward
\* transition; only a line that was already in a stream's buffer may still
\* complete.
ExpiredGrantWritesNoProgress ==
  [][expired /\ Len(file') > Len(file)
       => LET record == file'[Len(file')]
          IN  \/ record = residual
              \/ record.event # "transition"
              \/ record.to = "denied"]_vars

\* The whole mechanism implements the abstract checkpoint.
Checkpoint == IF open THEN file[committed].to
              ELSE IF file = <<>> THEN "authorized"
              ELSE file[Len(file)].to

Abstract == INSTANCE MissionCheckpoint WITH checkpoint <- Checkpoint,
                                            permitted <- issued

\* What a restart finds moves only along the transition table and never leaves
\* "start_permitted" or "denied", and permits are handed out only there.
ImplementsCheckpoint == Abstract!Spec
------------------------------------------------------------------------------
\* docs/autonomy-architecture.md: each MISSION_REQUEST_INT sequence is an
\* fsynced record of its own, so a journal past the upload names every item.
EveryItemIsJournaled ==
  open /\ JournalState \in AfterUpload => JournalRequested = Items
==============================================================================
