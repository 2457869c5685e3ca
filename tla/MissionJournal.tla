--------------------------- MODULE MissionJournal ---------------------------
(***************************************************************************)
(* mission_journal.DurableMissionJournal: the append-only JSONL file of    *)
(* one mission transaction and the handle a process has on it.             *)
(*                                                                         *)
(* The file is a sequence of newline-terminated records followed perhaps   *)
(* by bytes without a newline (`torn').  A handle remembers how many       *)
(* records it knows to be fsynced (`committed'; _records is exactly that   *)
(* prefix).  A write that raises OSError may have put nothing, a part or   *)
(* the whole line into the file; what it did not write stays in the        *)
(* stream's buffer (`residual') and goes out when the stream is closed.    *)
(* The hash chain, identities and payloads are abstracted to the state     *)
(* each record leads to and the item it names.  One process writes the     *)
(* file; any process may die at any write.                                 *)
(***************************************************************************)
EXTENDS Sequences, MissionStates

CONSTANT MaxRecords     \* bound: repeated events stop at this file length

ASSUME MaxRecordsAssumption == MaxRecords \in Nat

VARIABLES exists,       \* the path exists
          file,         \* committed lines of the file
          torn,         \* the file ends in bytes without a newline
          quarantined,  \* the default ".recovery-tail" path exists
          open,         \* a process holds a DurableMissionJournal
          committed,    \* its number of records, _committed_bytes
          recovery,     \* its _recovery_required
          residual      \* the record stuck in its stream's buffer

disk == <<exists, file, torn, quarantined>>
handle == <<open, committed, recovery, residual>>
journalVars == <<exists, file, torn, quarantined,
                 open, committed, recovery, residual>>

NoItem == -1

Event(event, to, item) == [event |-> event, to |-> to, item |-> item]
Header == Event("journal_opened", "authorized", NoItem)
Transition(to) == Event("transition", to, NoItem)
ItemRequest(item) == Event("mission_item_requested", "uploading", item)
Acknowledgement(s) == Event("journal_recovery_acknowledged", s, NoItem)

Records == {Header}
           \union {Transition(s) : s \in States}
           \union {ItemRequest(i) : i \in Items}
           \union {Acknowledgement(s) : s \in States}
None == Event("none", "none", NoItem)

\* _validate_event: what may follow a record.
ValidEvent(previous, record) ==
  \/ /\ record.event = "journal_recovery_acknowledged"
     /\ record.to = previous.to
  \/ /\ record.event = "mission_item_requested"
     /\ previous.to = "uploading"
     /\ record.to = "uploading"
  \/ /\ record.event = "transition"
     /\ record.to \in StateTransitions[previous.to]

\* _validate_records: what _load accepts.
ValidRecords(f) ==
  /\ f # <<>>
  /\ f[1] = Header
  /\ \A i \in 2 .. Len(f) : ValidEvent(f[i - 1], f[i])

\* The `state' and `requested_sequences' of the handle.
JournalState == file[committed].to
JournalRequested ==
  {file[i].item : i \in {j \in 1 .. committed :
                           file[j].event = "mission_item_requested"}}
------------------------------------------------------------------------------
\* A handle that is gone, with its buffer.
ForgetHandle ==
  /\ open' = FALSE /\ committed' = 0 /\ recovery' = FALSE /\ residual' = None

\* The write of one record behind the lines f, ending in one of four ways.
WriteOk(f, record) ==
  /\ file' = Append(f, record) /\ torn' = FALSE
  /\ committed' = Len(f) + 1
  /\ recovery' = FALSE /\ residual' = None /\ open' = TRUE

\* An explicit now_utc before the last record's time raises before the write.
WriteClockBehind(f) ==
  /\ file' = f /\ torn' = FALSE
  /\ committed' = Len(f)
  /\ recovery' = FALSE /\ residual' = None /\ open' = TRUE

\* Mutant: the failure does not mark the handle.
WriteFailsUnmarked(f, record) ==
  /\ \/ file' = f /\ torn' \in BOOLEAN /\ residual' = record
     \/ file' = Append(f, record) /\ torn' = FALSE /\ residual' = None
  /\ committed' = Len(f)
  /\ recovery' = FALSE /\ open' = TRUE

\* OSError from write, flush or fsync.
WriteFails(f, record) ==
  /\ \/ file' = f /\ torn' \in BOOLEAN /\ residual' = record
     \/ file' = Append(f, record) /\ torn' = FALSE /\ residual' = None
  /\ committed' = Len(f)
  /\ recovery' = TRUE /\ open' = TRUE

\* The process dies before, within or after the write.
WriteDies(f, record) ==
  /\ \/ file' = f /\ torn' \in BOOLEAN
     \/ file' = Append(f, record) /\ torn' = FALSE
  /\ ForgetHandle

Outcomes == {"ok", "refused", "clock_behind", "failed", "died"}

Write(f, record, out) ==
  \/ out = "ok" /\ WriteOk(f, record)
  \/ out = "clock_behind" /\ WriteClockBehind(f)
  \/ out = "failed" /\ WriteFails(f, record)
  \/ out = "died" /\ WriteDies(f, record)

\* _append: _ensure_writable, _ensure_prefix_unchanged, then the write.
AppendRecord(record, out) ==
  /\ \/ /\ recovery \/ torn \/ Len(file) # committed
        /\ out = "refused"
        /\ recovery' = TRUE
        /\ UNCHANGED <<file, torn, open, committed, residual>>
     \/ /\ ~recovery /\ ~torn /\ Len(file) = committed
        /\ Write(file, record, out)
  /\ UNCHANGED <<exists, quarantined>>

\* record_transition; record_denied is RecordTransition("denied", _) without a
\* caller's clock.
RecordTransition(to, out) ==
  /\ open
  /\ IF to \in StateTransitions[JournalState]
       THEN AppendRecord(Transition(to), out)
       ELSE out = "refused" /\ UNCHANGED journalVars

\* record_item_request
RecordItemRequest(item, out) ==
  /\ open
  /\ IF JournalState = "uploading"
       THEN Len(file) < MaxRecords /\ AppendRecord(ItemRequest(item), out)
       ELSE out = "refused" /\ UNCHANGED journalVars

\* create(): a new path gets its header; a process that fails or dies in
\* between leaves an empty, torn or complete file and no handle.  (On an
\* existing file create() is OpenJournal; on an empty one it always raises,
\* for the header is written with open("xb").)
CreateJournal(out) ==
  /\ ~open /\ ~exists
  /\ exists' = TRUE
  /\ \/ out = "ok" /\ WriteOk(<<>>, Header)
     \/ out = "died" /\ WriteDies(<<>>, Header)
  /\ UNCHANGED quarantined

\* _load: every newline-terminated record is validated and believed; a tail
\* sets recovery_required.
OpenJournal ==
  /\ ~open
  /\ ValidRecords(file)
  /\ open' = TRUE
  /\ committed' = Len(file)
  /\ recovery' = torn
  /\ residual' = None
  /\ UNCHANGED disk

\* What closing the stream does to the lines: a buffered rest is flushed and
\* completes its line, or the flush fails.
FlushResidual ==
  \/ UNCHANGED file /\ torn' \in {torn, torn \/ residual # None}
  \/ residual # None /\ file' = Append(file, residual) /\ torn' = FALSE

\* close()
CloseJournal ==
  /\ open
  /\ FlushResidual
  /\ ForgetHandle
  /\ UNCHANGED <<exists, quarantined>>

\* The process dies between two calls; nothing is flushed.
KillJournal ==
  /\ open
  /\ ForgetHandle
  /\ UNCHANGED disk

\* repair_truncated_tail: copy the tail to the quarantine path, close the
\* stream, truncate to the committed prefix, acknowledge.  It raises before it
\* changes anything when there is a tail and the path is taken.
RepairAllowed(default) ==
  /\ open /\ recovery
  /\ Len(file) < MaxRecords
  /\ (torn \/ Len(file) > committed) /\ default => ~quarantined

QuarantineTail(default) ==
  quarantined' = (quarantined \/ (default /\ (torn \/ Len(file) > committed)))

\* Mutant: the truncation drops one committed record too many.
RepairTailTooFar(default, out) ==
  /\ RepairAllowed(default)
  /\ QuarantineTail(default)
  /\ Write(SubSeq(file, 1, IF committed > 1 THEN committed - 1 ELSE 1),
           Acknowledgement(JournalState), out)
  /\ UNCHANGED exists

\* Mutant: the acknowledgement sends the transaction back to its start.
RepairTailResets(default, out) ==
  /\ RepairAllowed(default)
  /\ QuarantineTail(default)
  /\ Write(SubSeq(file, 1, committed), Acknowledgement("authorized"), out)
  /\ UNCHANGED exists

\* repair_truncated_tail, completed or failing at its last write.
RepairTail(default, out) ==
  /\ RepairAllowed(default)
  /\ QuarantineTail(default)
  /\ Write(SubSeq(file, 1, committed), Acknowledgement(JournalState), out)
  /\ UNCHANGED exists

\* The repair raises, or the process dies, after the quarantine copy and before
\* the truncation.
RepairInterrupted(default) ==
  /\ RepairAllowed(default)
  /\ QuarantineTail(default)
  /\ FlushResidual
  /\ \/ ForgetHandle
     \/ residual' = None /\ UNCHANGED <<open, committed, recovery>>
  /\ UNCHANGED exists

\* Another program appends bytes without a newline to an intact file
\* (test_external_append_after_open_is_not_silently_extended).
ExternalTail ==
  /\ file # <<>> /\ ~torn /\ residual = None
  /\ torn' = TRUE
  /\ UNCHANGED <<exists, file, quarantined, handle>>
------------------------------------------------------------------------------
JournalInit ==
  /\ exists = FALSE /\ file = <<>> /\ torn = FALSE /\ quarantined = FALSE
  /\ open = FALSE /\ committed = 0 /\ recovery = FALSE /\ residual = None

JournalNext ==
  \/ \E out \in Outcomes :
       \/ CreateJournal(out)
       \/ \E to \in States : RecordTransition(to, out)
       \/ \E item \in Items : RecordItemRequest(item, out)
       \/ \E default \in BOOLEAN : RepairTail(default, out)
  \/ \E default \in BOOLEAN : RepairInterrupted(default)
  \/ OpenJournal
  \/ CloseJournal
  \/ KillJournal
  \/ ExternalTail

JournalSpec == JournalInit /\ [][JournalNext]_journalVars
------------------------------------------------------------------------------
JournalTypeOK ==
  /\ exists \in BOOLEAN /\ torn \in BOOLEAN /\ quarantined \in BOOLEAN
  /\ file \in Seq(Records)
  /\ open \in BOOLEAN /\ recovery \in BOOLEAN
  /\ committed \in Nat
  /\ residual \in Records \union {None}

\* Whatever fails or dies, however often the tail is repaired, every file that
\* holds a record is one that _load accepts: no interleaving of a failed write,
\* a late flush of its buffer and a repair glues or skips a record.
JournalReloads == file # <<>> => ValidRecords(file)

\* A record that some handle has seen fsynced stays where it is, across the
\* truncation of a repair too ("existing files are never silently repaired or
\* truncated", and a repair keeps the committed prefix).
CommittedRecordsKept ==
  [][/\ Len(file') >= committed
     /\ \A i \in 1 .. committed : file'[i] = file[i]]_journalVars

\* A handle that may write has nothing but its committed records before it: the
\* next line can only follow the record the handle believes to be last.
WritableHandleIsCurrent ==
  open /\ ~recovery => Len(file) = committed /\ residual = None
==============================================================================
