------------------------- MODULE MissionReplacement -------------------------
(***************************************************************************)
(* mission_replacement: MissionReplacementTransaction.execute, which       *)
(* pauses a flying vehicle, replaces its Mission and resumes it, and the   *)
(* append-only MissionReplacementJournal it writes on the way.             *)
(*                                                                         *)
(* execute is straight-line code, so it is a sequence of steps: journal    *)
(* appends and transport calls.  A transport call returns evidence the     *)
(* code accepts, or raises or returns evidence it refuses; either way the  *)
(* vehicle may have acted on it.  An append raises having put nothing, a   *)
(* part or the whole of its line into the file, and the journal, unlike    *)
(* DurableMissionJournal, neither remembers that nor re-reads the file     *)
(* before the next append.  The process may die at every step; a restart   *)
(* builds a transaction on the same binding and path.  Record contents     *)
(* are abstracted to their state: a line that is glued to torn bytes or    *)
(* repeats a sequence number makes the file unreadable (`garbled').        *)
(***************************************************************************)
EXTENDS Integers, Sequences

CONSTANT FallbackState  \* the record of a confirmed fallback (fallback_mode)

ASSUME FallbackAssumption == FallbackState \in {"hold_required", "return_required"}

VARIABLES phase,        \* what the process is doing; "down" is no process
          step,         \* its position in Program while phase = "running"
          file,         \* readable lines of the journal file
          torn,         \* the file ends in bytes without a newline
          garbled,      \* some line of the file fails _load
          records,      \* journal._records
          tailSeen,     \* journal._recovery_required
          uncertain,    \* _in_memory_recovery
          sent,         \* history: transport writes ever called
          replayed,     \* history: one of them was called a second time
          receipt       \* history: states of the receipts execute returned

vars == <<phase, step, file, torn, garbled, records, tailSeen, uncertain,
          sent, replayed, receipt>>
disk == <<file, torn, garbled>>
history == <<sent, replayed, receipt>>

Forward == <<"authorized", "pause_requested", "paused", "uploading",
             "upload_confirmed", "readback_verified", "commit_requested",
             "committed", "cursor_requested", "cursor_confirmed",
             "resume_requested", "resumed">>

Closing == {"resumed", "hold_required", "return_required",
            "recovery_required", "denied"}

ReplacementStates == {Forward[i] : i \in DOMAIN Forward} \union Closing

\* _TRANSITIONS: the next state in order or, once the pause is requested, an
\* exit; nothing follows a closing state.
Transitions(s) ==
  {Forward[i + 1] : i \in {j \in 1 .. Len(Forward) - 1 : Forward[j] = s}}
  \union IF s \in {"authorized"} \union Closing THEN {}
         ELSE Closing \ {"resumed"}

Append1(s) == [do |-> "append", what |-> s]
Call(m) == [do |-> "call", what |-> m]

\* Mutant: the replacement is uploaded before the upload is announced.
ProgramUploadsFirst ==
  << Append1("authorized"),
     Append1("pause_requested"), Call("request_pause"), Call("confirm_paused"),
     Append1("paused"), Call("upload_replacement"),
     Append1("uploading"), Append1("upload_confirmed"),
     Call("verify_readback"), Append1("readback_verified"),
     Append1("commit_requested"), Call("commit_replacement"), Append1("committed"),
     Append1("cursor_requested"), Call("request_resume_cursor"),
     Call("confirm_resume_cursor"), Append1("cursor_confirmed"),
     Append1("resume_requested"), Call("request_resume"), Call("confirm_resumed"),
     Append1("resumed") >>

\* The body of execute.
Program ==
  << Append1("authorized"),
     Append1("pause_requested"), Call("request_pause"), Call("confirm_paused"),
     Append1("paused"),
     Append1("uploading"), Call("upload_replacement"), Append1("upload_confirmed"),
     Call("verify_readback"), Append1("readback_verified"),
     Append1("commit_requested"), Call("commit_replacement"), Append1("committed"),
     Append1("cursor_requested"), Call("request_resume_cursor"),
     Call("confirm_resume_cursor"), Append1("cursor_confirmed"),
     Append1("resume_requested"), Call("request_resume"), Call("confirm_resumed"),
     Append1("resumed") >>

\* The calls that command the vehicle, with the record that announces each.
Intent == [request_pause |-> "pause_requested",
           upload_replacement |-> "uploading",
           commit_replacement |-> "commit_requested",
           request_resume_cursor |-> "cursor_requested",
           request_resume |-> "resume_requested"]

Commands == DOMAIN Intent \union {"fallback"}

Last(s) == s[Len(s)]
------------------------------------------------------------------------------
\* MissionReplacementJournal.append checks the transition against its records.
MayAppend(s) == IF records = <<>> THEN s = "authorized"
                                  ELSE s \in Transitions(Last(records))

\* A whole line reaches the file: readable only if the file is what the journal
\* believes it to be.
WholeLine(s) ==
  LET clean == ~torn /\ Len(file) = Len(records)
  IN  /\ file' = IF clean THEN Append(file, s) ELSE file
      /\ garbled' = (garbled \/ ~clean)
      /\ torn' = FALSE

AppendReturns(s) ==
  /\ MayAppend(s)
  /\ WholeLine(s)
  /\ records' = Append(records, s)

\* What an append that does not return leaves in the file: nothing when the
\* transition is refused; else nothing, a part of the line, or all of it.
PartialAppend(s) ==
  \/ UNCHANGED disk
  \/ MayAppend(s) /\ torn' = TRUE /\ UNCHANGED <<file, garbled>>
  \/ MayAppend(s) /\ WholeLine(s)

AppendRaises(s) == PartialAppend(s) /\ UNCHANGED records

NoteCall(m) ==
  IF m \in Commands
    THEN /\ sent' = sent \union {m}
         /\ replayed' = (replayed \/ m \in sent)
    ELSE UNCHANGED <<sent, replayed>>
------------------------------------------------------------------------------
\* Mutant: a restarted process carries on behind the last record.
ExecuteCarriesOn ==
  /\ phase = "ready" /\ ~tailSeen
  /\ phase' = "running"
  /\ step' = IF records = <<>> THEN 1
             ELSE LET here == {i \in DOMAIN Program : Program[i] = Append1(Last(records))}
                  IN  IF here = {} THEN 1
                      ELSE IF Len(Program) \in here THEN Len(Program)
                      ELSE 1 + CHOOSE i \in here : TRUE
  /\ UNCHANGED <<disk, records, tailSeen, uncertain, history>>

\* execute(): refused on a journal with any record or an incomplete tail.
Execute ==
  /\ phase = "ready"
  /\ records = <<>> /\ ~tailSeen
  /\ phase' = "running" /\ step' = 1
  /\ UNCHANGED <<disk, records, tailSeen, uncertain, history>>

\* One more step has succeeded; after the last one the receipt is returned.
Proceed(final) ==
  /\ step' = step + 1
  /\ phase' = IF step = Len(Program) THEN "done" ELSE "running"
  /\ receipt' = IF step = Len(Program) THEN receipt \union {final} ELSE receipt

\* Mutant: the error of the last append is swallowed.
ExecuteAppendSwallows ==
  /\ phase = "running" /\ Program[step].do = "append"
  /\ \/ AppendReturns(Program[step].what) /\ Proceed(Program[step].what)
     \/ /\ AppendRaises(Program[step].what)
        /\ IF step = Len(Program)
             THEN Proceed(Program[step].what)
             ELSE /\ phase' = IF step = 1 THEN "done" ELSE "fallback"
                  /\ UNCHANGED <<step, receipt>>
  /\ UNCHANGED <<tailSeen, uncertain, sent, replayed>>

\* An append of execute.  The first one stands before the try block: when it
\* raises, execute raises and no fallback is attempted.
ExecuteAppend ==
  /\ phase = "running" /\ Program[step].do = "append"
  /\ \/ AppendReturns(Program[step].what) /\ Proceed(Program[step].what)
     \/ /\ AppendRaises(Program[step].what)
        /\ phase' = IF step = 1 THEN "done" ELSE "fallback"
        /\ UNCHANGED <<step, receipt>>
  /\ UNCHANGED <<tailSeen, uncertain, sent, replayed>>

\* A transport call of execute with the checks on what it returned.
ExecuteCall ==
  /\ phase = "running" /\ Program[step].do = "call"
  /\ NoteCall(Program[step].what)
  /\ \/ Proceed("none")
     \/ phase' = "fallback" /\ UNCHANGED <<step, receipt>>
  /\ UNCHANGED <<disk, records, tailSeen, uncertain>>

\* Mutant: after the fallback the failed step is tried again.
FallbackRetries ==
  /\ phase = "fallback"
  /\ NoteCall("fallback")
  /\ phase' \in {"record_fallback", "record_recovery", "running"}
  /\ UNCHANGED <<step, disk, records, tailSeen, uncertain, receipt>>

\* _fail_closed commands the fallback; evidence that is not confirmed or not
\* from the vehicle counts as a failure.
Fallback ==
  /\ phase = "fallback"
  /\ NoteCall("fallback")
  /\ phase' \in {"record_fallback", "record_recovery"}
  /\ UNCHANGED <<step, disk, records, tailSeen, uncertain, receipt>>

\* ... and records it; if that raises, recovery is to be recorded.
RecordFallback ==
  /\ phase = "record_fallback"
  /\ \/ /\ AppendReturns(FallbackState)
        /\ phase' = "done" /\ receipt' = receipt \union {FallbackState}
     \/ /\ AppendRaises(FallbackState)
        /\ phase' = "record_recovery" /\ UNCHANGED receipt
  /\ UNCHANGED <<step, tailSeen, uncertain, sent, replayed>>

\* _append_recovery: in the journal or, failing that, in memory only.
RecordRecovery ==
  /\ phase = "record_recovery"
  /\ \/ AppendReturns("recovery_required") /\ UNCHANGED uncertain
     \/ AppendRaises("recovery_required") /\ uncertain' = TRUE
  /\ phase' = "done"
  /\ receipt' = receipt \union {"recovery_required"}
  /\ UNCHANGED <<step, tailSeen, sent, replayed>>

\* The process dies: between two steps, or within an append.
Die ==
  /\ phase # "down"
  /\ \/ UNCHANGED disk
     \/ /\ phase = "running" /\ Program[step].do = "append"
        /\ PartialAppend(Program[step].what)
     \/ phase = "record_fallback" /\ PartialAppend(FallbackState)
     \/ phase = "record_recovery" /\ PartialAppend("recovery_required")
  /\ phase' = "down" /\ step' = 0
  /\ records' = <<>> /\ tailSeen' = FALSE /\ uncertain' = FALSE
  /\ UNCHANGED history

\* A new journal object loads the file; the constructor raises on a garbled one.
Restart ==
  /\ phase = "down"
  /\ ~garbled
  /\ phase' = "ready"
  /\ records' = file /\ tailSeen' = torn
  /\ UNCHANGED <<step, disk, uncertain, history>>
------------------------------------------------------------------------------
Init ==
  /\ phase = "ready" /\ step = 0
  /\ file = <<>> /\ torn = FALSE /\ garbled = FALSE
  /\ records = <<>> /\ tailSeen = FALSE /\ uncertain = FALSE
  /\ sent = {} /\ replayed = FALSE /\ receipt = {}

Next ==
  \/ Execute \/ ExecuteAppend \/ ExecuteCall
  \/ Fallback \/ RecordFallback \/ RecordRecovery
  \/ Die \/ Restart

Spec == Init /\ [][Next]_vars
------------------------------------------------------------------------------
TypeOK ==
  /\ phase \in {"down", "ready", "running", "fallback",
               "record_fallback", "record_recovery", "done"}
  /\ step \in 0 .. Len(Program) + 1
  /\ file \in Seq(ReplacementStates) /\ records \in Seq(ReplacementStates)
  /\ torn \in BOOLEAN /\ garbled \in BOOLEAN
  /\ tailSeen \in BOOLEAN /\ uncertain \in BOOLEAN /\ replayed \in BOOLEAN
  /\ sent \subseteq Commands
  /\ receipt \subseteq Closing

\* Write-ahead: a command of the replacement reaches the transport only after
\* the line that announces it is in the file, whatever dies or fails later.
IntentBeforeCommand ==
  \A m \in sent \intersect DOMAIN Intent :
    \E i \in DOMAIN file : file[i] = Intent[m]

\* No command is issued twice, by one process or by its successors after any
\* number of restarts ("never automatically replayed").
NoCommandIsReplayed == ~replayed

\* Once the vehicle has been told to hold or return, neither this process nor
\* a later one sends it another command of the replacement.
NoCommandAfterFallback == []["fallback" \in sent => sent' = sent]_vars

\* A receipt that says "resumed" is backed by a journal that every later
\* restart can read and that ends there.
ResumedReceiptIsDurable ==
  "resumed" \in receipt
    => file # <<>> /\ Last(file) = "resumed" /\ ~torn /\ ~garbled
------------------------------------------------------------------------------
\* recover() of a restarted process: nothing has happened yet, run execute().
RecoverSaysReady == records = <<>>

\* ... or the journal stops at "authorized" and write_uncertain is False.
RecoverSaysNoWrite ==
  RecoverSaysReady \/ (~tailSeen /\ Last(records) = "authorized")

\* docs/implementation-roadmap.md: external writes are intent-first.  When a
\* restart is told that no write is uncertain, the vehicle was never commanded.
NoWriteMeansNoCommand == phase = "ready" /\ RecoverSaysNoWrite => sent = {}

\* docs/implementation-roadmap.md: an interrupted process "only enters
\* RECOVERY_REQUIRED" with a next step for the operator, so its own writes
\* never leave a journal that a restart refuses to read.
JournalStaysReadable == ~garbled
==============================================================================
