----------------------- MODULE MissionReplacementProofs -----------------------
(***************************************************************************)
(* Write-ahead and once-only commands of the in-flight replacement, proved *)
(* for both fallbacks and any number of failures, deaths and restarts.     *)
(***************************************************************************)
EXTENDS MissionReplacement, TLAPS

\* Where execute issues each command.
Position == [request_pause |-> 3, upload_replacement |-> 7, commit_replacement |-> 12,
             request_resume_cursor |-> 15, request_resume |-> 19]

\* A process that still executes has a clean file with every line it wrote, and
\* has issued just the commands behind it, the fallback not among them.
RunInv ==
  /\ phase = "running" =>
       /\ step \in 1 .. 21
       /\ ~torn /\ ~garbled /\ file = records
       /\ \A i \in 1 .. step - 1 : Program[i].do = "append" =>
            \E k \in DOMAIN file : file[k] = Program[i].what
       /\ \A m \in sent : m \in DOMAIN Intent /\ Position[m] < step
  /\ phase = "fallback" => "fallback" \notin sent /\ file # <<>>

\* Whatever was commanded, the file is no longer empty; a new process reads it.
FileInv ==
  /\ sent # {} => file # <<>>
  /\ phase = "ready" => records = file /\ tailSeen = torn /\ ~garbled

\* A receipt of a resumption ends the use of its file.
ReceiptInv ==
  "resumed" \in receipt => /\ phase \in {"done", "down", "ready"}
                           /\ file # <<>> /\ Last(file) = "resumed" /\ ~torn /\ ~garbled

ReplacementInv ==
  TypeOK /\ IntentBeforeCommand /\ NoCommandIsReplayed /\ RunInv /\ FileInv /\ ReceiptInv
------------------------------------------------------------------------------
\* The body of execute, step by step.
LEMMA ProgramTable ==
  /\ Len(Program) = 21
  /\ Program[1] = Append1("authorized")
  /\ Program[2] = Append1("pause_requested") /\ Program[3] = Call("request_pause")
  /\ Program[4] = Call("confirm_paused") /\ Program[5] = Append1("paused")
  /\ Program[6] = Append1("uploading") /\ Program[7] = Call("upload_replacement")
  /\ Program[8] = Append1("upload_confirmed") /\ Program[9] = Call("verify_readback")
  /\ Program[10] = Append1("readback_verified")
  /\ Program[11] = Append1("commit_requested") /\ Program[12] = Call("commit_replacement")
  /\ Program[13] = Append1("committed") /\ Program[14] = Append1("cursor_requested")
  /\ Program[15] = Call("request_resume_cursor")
  /\ Program[16] = Call("confirm_resume_cursor") /\ Program[17] = Append1("cursor_confirmed")
  /\ Program[18] = Append1("resume_requested") /\ Program[19] = Call("request_resume")
  /\ Program[20] = Call("confirm_resumed") /\ Program[21] = Append1("resumed")
  BY DEF Program

LEMMA Indices ==
  ASSUME NEW i \in 1 .. 21
  PROVE  \/ i = 1 \/ i = 2 \/ i = 3 \/ i = 4 \/ i = 5 \/ i = 6 \/ i = 7 \/ i = 8 \/ i = 9
         \/ i = 10 \/ i = 11 \/ i = 12 \/ i = 13 \/ i = 14 \/ i = 15 \/ i = 16 \/ i = 17
         \/ i = 18 \/ i = 19 \/ i = 20 \/ i = 21
  OBVIOUS

\* The states that execute records are states of the journal.
LEMMA RecordedStates ==
  {"authorized", "pause_requested", "paused", "uploading", "upload_confirmed",
   "readback_verified", "commit_requested", "committed", "cursor_requested",
   "cursor_confirmed", "resume_requested", "resumed"} \union Closing \subseteq ReplacementStates
  <1>1. /\ Forward[1] = "authorized" /\ Forward[2] = "pause_requested"
        /\ Forward[3] = "paused" /\ Forward[4] = "uploading"
        /\ Forward[5] = "upload_confirmed" /\ Forward[6] = "readback_verified"
        /\ Forward[7] = "commit_requested" /\ Forward[8] = "committed"
        /\ Forward[9] = "cursor_requested" /\ Forward[10] = "cursor_confirmed"
        /\ Forward[11] = "resume_requested" /\ Forward[12] = "resumed"
    BY DEF Forward
  <1>2. DOMAIN Forward = 1 .. 12
    BY DEF Forward
  <1>3. \A i \in 1 .. 12 : Forward[i] \in ReplacementStates
    BY <1>2 DEF ReplacementStates
  <1>4. Closing \subseteq ReplacementStates
    BY DEF ReplacementStates
  <1> QED BY <1>1, <1>3, <1>4

\* An append of execute records a state of the journal.
LEMMA AppendedStates ==
  ASSUME NEW i \in 1 .. 21, Program[i].do = "append"
  PROVE  Program[i].what \in ReplacementStates
  BY ProgramTable, Indices, RecordedStates DEF Append1, Call

\* A command stands at its position, behind the append that announces it.
LEMMA CommandPositions ==
  ASSUME NEW i \in 1 .. 21, Program[i].do = "call", Program[i].what \in Commands
  PROVE  /\ Program[i].what \in DOMAIN Intent
         /\ Position[Program[i].what] = i
         /\ \E j \in 1 .. i - 1 : /\ Program[j].do = "append"
                                  /\ Program[j].what = Intent[Program[i].what]
  <1>1. i \in {3, 7, 12, 15, 19}
    BY ProgramTable, Indices DEF Append1, Call, Commands, Intent
  <1>2. CASE i = 3
    BY <1>2, ProgramTable DEF Append1, Call, Intent, Position
  <1>3. CASE i = 7
    BY <1>3, ProgramTable DEF Append1, Call, Intent, Position
  <1>4. CASE i = 12
    BY <1>4, ProgramTable DEF Append1, Call, Intent, Position
  <1>5. CASE i = 15
    BY <1>5, ProgramTable DEF Append1, Call, Intent, Position
  <1>6. CASE i = 19
    BY <1>6, ProgramTable DEF Append1, Call, Intent, Position
  <1> QED BY <1>1, <1>2, <1>3, <1>4, <1>5, <1>6
------------------------------------------------------------------------------
\* A line is appended or lost; what was readable stays.
LEMMA PartialAppends ==
  ASSUME TypeOK, NEW s \in ReplacementStates, PartialAppend(s) \/ WholeLine(s)
  PROVE  /\ file' \in Seq(ReplacementStates) /\ torn' \in BOOLEAN /\ garbled' \in BOOLEAN
         /\ Len(file') >= Len(file)
         /\ \A k \in DOMAIN file : k \in DOMAIN file' /\ file'[k] = file[k]
  <1>1. file \in Seq(ReplacementStates) /\ torn \in BOOLEAN /\ garbled \in BOOLEAN
    BY DEF TypeOK
  <1>2. CASE UNCHANGED disk
    BY <1>1, <1>2 DEF disk
  <1>3. CASE torn' = TRUE /\ UNCHANGED <<file, garbled>>
    BY <1>1, <1>3
  <1>4. CASE WholeLine(s)
    <2>1. torn' \in BOOLEAN /\ garbled' \in BOOLEAN
      BY <1>1, <1>4 DEF WholeLine
    <2>2. file' = file \/ file' = Append(file, s)
      BY <1>4 DEF WholeLine
    <2> QED BY <1>1, <2>1, <2>2
  <1> QED BY <1>2, <1>3, <1>4 DEF PartialAppend

\* An append on a clean file ends it with the new line.
LEMMA CleanAppend ==
  ASSUME TypeOK, NEW s \in ReplacementStates, AppendReturns(s),
         ~torn, ~garbled, file = records
  PROVE  /\ ~torn' /\ ~garbled' /\ file' = records'
         /\ file' # <<>> /\ Last(file') = s
         /\ \E k \in DOMAIN file' : file'[k] = s
  <1>1. file \in Seq(ReplacementStates)
    BY DEF TypeOK
  <1>2. file' = Append(file, s) /\ records' = file' /\ ~torn' /\ ~garbled'
    BY DEF AppendReturns, WholeLine
  <1>3. Len(file') = Len(file) + 1 /\ file'[Len(file) + 1] = s /\ Len(file) \in Nat
    BY <1>1, <1>2
  <1>4. file' \in Seq(ReplacementStates)
    BY <1>1, <1>2
  <1>5. DOMAIN file' = 1 .. Len(file) + 1
    BY <1>3, <1>4
  <1> QED BY <1>2, <1>3, <1>4, <1>5 DEF Last

LEMMA AppendedRecords ==
  ASSUME NEW S, NEW q \in Seq(S), NEW e \in S
  PROVE  Append(q, e) \in Seq(S)
  OBVIOUS

LEMMA StatesAreRecorded ==
  /\ FallbackState \in ReplacementStates /\ "recovery_required" \in ReplacementStates
  /\ FallbackState \in Closing /\ FallbackState # "resumed"
  BY RecordedStates, FallbackAssumption DEF Closing
------------------------------------------------------------------------------
\* The types.
LEMMA TypesAreKept == ASSUME ReplacementInv, [Next]_vars PROVE TypeOK'
  <1> USE DEF ReplacementInv
  <1>1. TypeOK /\ Len(Program) = 21
    BY ProgramTable
  <1>2. CASE Execute
    BY <1>1, <1>2 DEF Execute, TypeOK, disk, history
  <1>3. CASE ExecuteAppend
    <2>1. step \in 1 .. 21 /\ Program[step].do = "append"
      BY <1>3 DEF ExecuteAppend, RunInv
    <2>2. Program[step].what \in ReplacementStates
      BY <2>1, AppendedStates
    <2>3. step = 21 => Program[step].what \in Closing
      BY ProgramTable DEF Append1, Closing
    <2>4. /\ file' \in Seq(ReplacementStates) /\ torn' \in BOOLEAN /\ garbled' \in BOOLEAN
      BY <1>1, <1>3, <2>2, PartialAppends DEF ExecuteAppend, AppendReturns, AppendRaises
    <2>5. records' \in Seq(ReplacementStates)
      <3>1. records' = records \/ records' = Append(records, Program[step].what)
        BY <1>3 DEF ExecuteAppend, AppendReturns, AppendRaises
      <3>2. records \in Seq(ReplacementStates)
        BY <1>1 DEF TypeOK
      <3> QED BY <3>1, <3>2, <2>2, AppendedRecords
    <2>6. /\ step' \in 0 .. 22 /\ receipt' \subseteq Closing
          /\ phase' \in {"running", "done", "fallback"}
      BY <1>1, <1>3, <2>1, <2>3 DEF ExecuteAppend, Proceed, TypeOK
    <2> QED BY <1>1, <1>3, <2>4, <2>5, <2>6 DEF ExecuteAppend, TypeOK
  <1>4. CASE ExecuteCall
    <2>1. step \in 1 .. 21 /\ step # 21
      BY <1>4, ProgramTable DEF ExecuteCall, RunInv, Append1
    <2>2. /\ step' \in 0 .. 22 /\ receipt' = receipt
          /\ phase' \in {"running", "fallback"}
      BY <1>1, <1>4, <2>1 DEF ExecuteCall, Proceed, TypeOK
    <2>3. sent' \subseteq Commands /\ replayed' \in BOOLEAN
      BY <1>1, <1>4 DEF ExecuteCall, NoteCall, TypeOK
    <2> QED BY <1>1, <1>4, <2>2, <2>3 DEF ExecuteCall, TypeOK, disk
  <1>5. CASE Fallback
    <2>1. sent' \subseteq Commands /\ replayed' \in BOOLEAN
      BY <1>1, <1>5 DEF Fallback, NoteCall, TypeOK
    <2> QED BY <1>1, <1>5, <2>1 DEF Fallback, TypeOK, disk
  <1>6. CASE RecordFallback
    <2>1. /\ file' \in Seq(ReplacementStates) /\ torn' \in BOOLEAN /\ garbled' \in BOOLEAN
      BY <1>1, <1>6, StatesAreRecorded, PartialAppends
      DEF RecordFallback, AppendReturns, AppendRaises
    <2>2. records' \in Seq(ReplacementStates)
      <3>1. records' = records \/ records' = Append(records, FallbackState)
        BY <1>6 DEF RecordFallback, AppendReturns, AppendRaises
      <3> QED BY <1>1, <3>1, StatesAreRecorded DEF TypeOK
    <2>3. receipt' \subseteq Closing
      BY <1>1, <1>6, StatesAreRecorded DEF RecordFallback, TypeOK
    <2> QED BY <1>1, <1>6, <2>1, <2>2, <2>3 DEF RecordFallback, TypeOK
  <1>7. CASE RecordRecovery
    <2>1. /\ file' \in Seq(ReplacementStates) /\ torn' \in BOOLEAN /\ garbled' \in BOOLEAN
      BY <1>1, <1>7, StatesAreRecorded, PartialAppends
      DEF RecordRecovery, AppendReturns, AppendRaises
    <2>2. records' \in Seq(ReplacementStates)
      <3>1. records' = records \/ records' = Append(records, "recovery_required")
        BY <1>7 DEF RecordRecovery, AppendReturns, AppendRaises
      <3> QED BY <1>1, <3>1, StatesAreRecorded DEF TypeOK
    <2>3. receipt' \subseteq Closing /\ uncertain' \in BOOLEAN
      BY <1>1, <1>7 DEF RecordRecovery, TypeOK, Closing
    <2> QED BY <1>1, <1>7, <2>1, <2>2, <2>3 DEF RecordRecovery, TypeOK
  <1>8. CASE Die
    <2>1. file' \in Seq(ReplacementStates) /\ torn' \in BOOLEAN /\ garbled' \in BOOLEAN
      <3>1. CASE UNCHANGED disk
        BY <1>1, <3>1 DEF disk, TypeOK
      <3>2. CASE phase = "running" /\ Program[step].do = "append"
                 /\ PartialAppend(Program[step].what)
        BY <1>1, <3>2, AppendedStates, PartialAppends DEF RunInv
      <3> QED BY <1>1, <1>8, <3>1, <3>2, StatesAreRecorded, PartialAppends DEF Die
    <2>2. /\ phase' = "down" /\ step' = 0 /\ tailSeen' = FALSE /\ uncertain' = FALSE
          /\ UNCHANGED <<sent, replayed, receipt>>
      BY <1>8 DEF Die, history
    <2>3. records' \in Seq(ReplacementStates)
      BY <1>8 DEF Die
    <2>4. step' \in 0 .. 22
      BY <2>2
    <2>5. /\ tailSeen' \in BOOLEAN /\ uncertain' \in BOOLEAN /\ replayed' \in BOOLEAN
          /\ sent' \subseteq Commands /\ receipt' \subseteq Closing
      BY <1>1, <2>2 DEF TypeOK
    <2> QED BY <1>1, <2>1, <2>2, <2>3, <2>4, <2>5 DEF TypeOK
  <1>9. CASE Restart
    BY <1>1, <1>9 DEF Restart, TypeOK, disk, history
  <1>10. CASE UNCHANGED vars
    BY <1>1, <1>10 DEF vars, TypeOK
  <1> QED BY <1>2, <1>3, <1>4, <1>5, <1>6, <1>7, <1>8, <1>9, <1>10 DEF Next

\* No step takes a readable line away.
LEMMA FileGrows ==
  ASSUME ReplacementInv, [Next]_vars
  PROVE  /\ \A k \in DOMAIN file : k \in DOMAIN file' /\ file'[k] = file[k]
         /\ file # <<>> => file' # <<>>
  <1> USE DEF ReplacementInv
  <1>1. file \in Seq(ReplacementStates)
    BY DEF TypeOK
  <1>2. ASSUME NEW s \in ReplacementStates, PartialAppend(s) \/ WholeLine(s)
        PROVE  /\ \A k \in DOMAIN file : k \in DOMAIN file' /\ file'[k] = file[k]
               /\ file # <<>> => file' # <<>>
    <2>1. /\ \A k \in DOMAIN file : k \in DOMAIN file' /\ file'[k] = file[k]
          /\ Len(file') >= Len(file) /\ file' \in Seq(ReplacementStates)
      BY <1>2, PartialAppends
    <2> QED BY <1>1, <2>1
  <1>3. CASE UNCHANGED file
    BY <1>3
  <1>4. CASE ExecuteAppend
    <2>1. Program[step].what \in ReplacementStates
      BY <1>4, AppendedStates DEF ExecuteAppend, RunInv
    <2>2. PartialAppend(Program[step].what) \/ WholeLine(Program[step].what)
      BY <1>4 DEF ExecuteAppend, AppendReturns, AppendRaises
    <2> QED BY <1>2, <2>1, <2>2
  <1>5. CASE RecordFallback
    BY <1>2, <1>5, StatesAreRecorded DEF RecordFallback, AppendReturns, AppendRaises
  <1>6. CASE RecordRecovery
    BY <1>2, <1>6, StatesAreRecorded DEF RecordRecovery, AppendReturns, AppendRaises
  <1>7. CASE Die
    <2>1. CASE UNCHANGED disk
      BY <1>3, <2>1 DEF disk
    <2>2. CASE phase = "running" /\ Program[step].do = "append"
               /\ PartialAppend(Program[step].what)
      BY <1>2, <2>2, AppendedStates DEF RunInv
    <2> QED BY <1>2, <1>7, <2>1, <2>2, StatesAreRecorded DEF Die
  <1>8. CASE Execute \/ ExecuteCall \/ Fallback \/ Restart \/ UNCHANGED vars
    BY <1>3, <1>8 DEF Execute, ExecuteCall, Fallback, Restart, disk, vars
  <1> QED BY <1>4, <1>5, <1>6, <1>7, <1>8 DEF Next

\* A command is issued at its place in execute, behind its announcement and for
\* the first time; so is the fallback.
LEMMA CommandSteps ==
  ASSUME ReplacementInv, [Next]_vars, sent' # sent
  PROVE  /\ phase \in {"running", "fallback"} /\ "fallback" \notin sent
         /\ replayed' = replayed /\ file' = file /\ file # <<>>
         /\ \/ phase = "fallback" /\ sent' = sent \union {"fallback"}
            \/ /\ phase = "running"
               /\ \E m \in DOMAIN Intent :
                    /\ sent' = sent \union {m} /\ Position[m] = step
                    /\ \E k \in DOMAIN file : file[k] = Intent[m]
  <1> USE DEF ReplacementInv
  <1>1. ExecuteCall \/ Fallback
    BY DEF Next, vars, Execute, ExecuteAppend, RecordFallback, RecordRecovery, Die, Restart,
           history
  <1>2. file' = file
    BY <1>1 DEF ExecuteCall, Fallback, disk
  <1>3. "fallback" \notin DOMAIN Intent
    BY DEF Intent
  <1>4. CASE ExecuteCall
    <2>1. /\ phase = "running" /\ step \in 1 .. 21 /\ Program[step].do = "call"
          /\ NoteCall(Program[step].what)
      BY <1>4 DEF ExecuteCall, RunInv
    <2> DEFINE m == Program[step].what
    <2>2. m \in Commands /\ sent' = sent \union {m} /\ replayed' = (replayed \/ m \in sent)
      BY <2>1 DEF NoteCall
    <2>3. /\ m \in DOMAIN Intent /\ Position[m] = step
          /\ \E j \in 1 .. step - 1 : Program[j].do = "append" /\ Program[j].what = Intent[m]
      BY <2>1, <2>2, CommandPositions
    <2>4. m \notin sent /\ "fallback" \notin sent
      BY <1>3, <2>1, <2>3 DEF RunInv
    <2>5. \E k \in DOMAIN file : file[k] = Intent[m]
      BY <2>1, <2>3 DEF RunInv
    <2>6. file # <<>>
      BY <2>5
    <2>7. replayed' = replayed
      BY <2>2, <2>4 DEF TypeOK
    <2> QED BY <1>2, <2>1, <2>2, <2>3, <2>4, <2>5, <2>6, <2>7
  <1>5. CASE Fallback
    <2>1. phase = "fallback" /\ "fallback" \notin sent /\ file # <<>>
      BY <1>5 DEF Fallback, RunInv
    <2>2. sent' = sent \union {"fallback"} /\ replayed' = replayed
      BY <1>5, <2>1 DEF Fallback, NoteCall, Commands, TypeOK
    <2> QED BY <1>2, <2>1, <2>2
  <1> QED BY <1>1, <1>4, <1>5

\* The announcements, and that nothing is commanded twice.
LEMMA CommandsAreKept ==
  ASSUME ReplacementInv, [Next]_vars PROVE IntentBeforeCommand' /\ NoCommandIsReplayed'
  <1> USE DEF ReplacementInv
  <1>1. CASE sent' # sent
    <2>1. replayed' = replayed /\ file' = file
      BY <1>1, CommandSteps
    <2>2. ASSUME NEW m \in sent' \intersect DOMAIN Intent
          PROVE  \E k \in DOMAIN file : file[k] = Intent[m]
      <3>1. CASE m \in sent
        BY <2>2, <3>1 DEF IntentBeforeCommand
      <3>2. CASE m \notin sent
        <4>1. "fallback" \notin DOMAIN Intent
          BY DEF Intent
        <4> QED BY <1>1, <2>2, <3>2, <4>1, CommandSteps
      <3> QED BY <3>1, <3>2
    <2> QED BY <2>1, <2>2 DEF IntentBeforeCommand, NoCommandIsReplayed
  <1>2. CASE sent' = sent
    <2>1. replayed' = replayed
      <3>1. CASE ExecuteCall
        <4>1. /\ phase = "running" /\ step \in 1 .. 21 /\ Program[step].do = "call"
              /\ NoteCall(Program[step].what)
          BY <3>1 DEF ExecuteCall, RunInv
        <4>2. CASE Program[step].what \in Commands
          <5>1. Program[step].what \in DOMAIN Intent /\ Position[Program[step].what] = step
            BY <4>1, <4>2, CommandPositions
          <5>2. Program[step].what \in sent
            BY <1>2, <4>1, <4>2 DEF NoteCall
          <5> QED BY <4>1, <5>1, <5>2 DEF RunInv
        <4> QED BY <4>1, <4>2 DEF NoteCall
      <3>2. CASE Fallback
        BY <1>2, <3>2 DEF Fallback, NoteCall, Commands, RunInv
      <3> QED BY <3>1, <3>2 DEF Next, vars, Execute, ExecuteAppend, RecordFallback,
                                 RecordRecovery, Die, Restart, history
    <2>2. \A k \in DOMAIN file : k \in DOMAIN file' /\ file'[k] = file[k]
      BY FileGrows
    <2> QED BY <1>2, <2>1, <2>2 DEF IntentBeforeCommand, NoCommandIsReplayed
  <1> QED BY <1>1, <1>2

\* Behind a command the file is not empty, and a new process reads all of it.
LEMMA FileIsKept == ASSUME ReplacementInv, [Next]_vars PROVE FileInv'
  <1> USE DEF ReplacementInv
  <1>1. sent' # {} => file' # <<>>
    BY FileGrows, CommandSteps DEF FileInv
  <1>2. phase' = "ready" => records' = file' /\ tailSeen' = torn' /\ ~garbled'
    <2>1. CASE Restart
      BY <2>1 DEF Restart, disk
    <2>2. CASE UNCHANGED vars
      BY <2>2 DEF vars, FileInv
    <2>3. CASE ExecuteAppend
      BY <2>3 DEF ExecuteAppend, Proceed
    <2>4. CASE ExecuteCall
      BY <2>4 DEF ExecuteCall, Proceed
    <2> QED BY <2>1, <2>2, <2>3, <2>4 DEF Next, Execute, Fallback, RecordFallback,
                                           RecordRecovery, Die
  <1> QED BY <1>1, <1>2 DEF FileInv

\* A process that executes goes on with a clean file; one that fails has not yet
\* commanded the fallback.
LEMMA RunIsKept == ASSUME ReplacementInv, [Next]_vars PROVE RunInv'
  <1> USE DEF ReplacementInv
  <1>1. Len(Program) = 21 /\ Program[1].do = "append" /\ "fallback" \notin DOMAIN Intent
    BY ProgramTable DEF Append1, Intent
  <1>2. CASE Execute
    <2>1. /\ phase' = "running" /\ step' = 1 /\ file' = file /\ records' = records
          /\ torn' = torn /\ garbled' = garbled /\ sent' = sent /\ sent = {}
          /\ ~torn /\ ~garbled /\ file = records
      BY <1>2 DEF Execute, disk, history, FileInv, TypeOK
    <2> QED BY <2>1 DEF RunInv
  <1>3. ASSUME phase = "running", sent' = sent, file # <<>> PROVE "fallback" \notin sent'
    BY <1>1, <1>3 DEF RunInv
  <1>4. CASE ExecuteAppend
    <2>1. /\ phase = "running" /\ step \in 1 .. 21 /\ Program[step].do = "append"
          /\ sent' = sent
      BY <1>4 DEF ExecuteAppend, RunInv
    <2>2. Program[step].what \in ReplacementStates
      BY <2>1, AppendedStates
    <2>3. CASE AppendReturns(Program[step].what) /\ Proceed(Program[step].what)
      <3>1. /\ ~torn' /\ ~garbled' /\ file' = records'
            /\ \E k \in DOMAIN file' : file'[k] = Program[step].what
        BY <2>1, <2>2, <2>3, CleanAppend DEF RunInv
      <3>2. step' = step + 1 /\ phase' = IF step = 21 THEN "done" ELSE "running"
        BY <1>1, <2>3 DEF Proceed
      <3>3. ASSUME NEW i \in 1 .. step, Program[i].do = "append"
            PROVE  \E k \in DOMAIN file' : file'[k] = Program[i].what
        <4>1. CASE i = step
          BY <3>1, <4>1
        <4>2. CASE i \in 1 .. step - 1
          <5>1. PICK k \in DOMAIN file : file[k] = Program[i].what
            BY <2>1, <3>3, <4>2 DEF RunInv
          <5> QED BY <5>1, FileGrows
        <4> QED BY <2>1, <4>1, <4>2
      <3>4. \A m \in sent' : m \in DOMAIN Intent /\ Position[m] < step
        BY <2>1 DEF RunInv
      <3>5. \A m \in DOMAIN Intent : Position[m] \in 1 .. 21
        BY DEF Intent, Position
      <3>6. \A m \in sent' : m \in DOMAIN Intent /\ Position[m] < step'
        BY <2>1, <3>2, <3>4, <3>5
      <3>7. CASE step = 21
        BY <3>2, <3>7 DEF RunInv
      <3>8. CASE step # 21
        <4>1. step' \in 1 .. 21 /\ step' - 1 = step
          BY <2>1, <3>2, <3>8
        <4> QED BY <3>1, <3>2, <3>3, <3>6, <3>8, <4>1 DEF RunInv
      <3> QED BY <3>7, <3>8
    <2>4. CASE AppendRaises(Program[step].what)
               /\ phase' = (IF step = 1 THEN "done" ELSE "fallback")
      <3>1. CASE step = 1
        BY <2>4, <3>1 DEF RunInv
      <3>2. CASE step # 1
        <4>1. 1 \in 1 .. step - 1
          BY <2>1, <3>2
        <4>2. \E k \in DOMAIN file : file[k] = Program[1].what
          BY <1>1, <2>1, <4>1 DEF RunInv
        <4>3. file # <<>>
          BY <4>2
        <4> QED BY <1>3, <2>1, <2>4, <3>2, <4>3, FileGrows DEF RunInv
      <3> QED BY <3>1, <3>2
    <2> QED BY <1>4, <2>3, <2>4 DEF ExecuteAppend
  <1>5. CASE ExecuteCall
    <2>1. /\ phase = "running" /\ step \in 1 .. 21 /\ Program[step].do = "call"
          /\ file' = file /\ torn' = torn /\ garbled' = garbled /\ records' = records
          /\ ~torn /\ ~garbled /\ file = records
      BY <1>5 DEF ExecuteCall, RunInv, disk
    <2>2. step # 1 /\ step # 21
      BY <2>1, ProgramTable DEF Append1
    <2>3. \A m \in sent' : m \in DOMAIN Intent /\ (m \in sent \/ Position[m] = step)
      BY <2>1, CommandSteps DEF RunInv
    <2>4. file # <<>>
      <3>1. 1 \in 1 .. step - 1
        BY <2>1, <2>2
      <3>2. \E k \in DOMAIN file : file[k] = Program[1].what
        BY <1>1, <2>1, <3>1 DEF RunInv
      <3> QED BY <3>2
    <2>5. CASE phase' = "fallback"
      BY <1>1, <2>1, <2>3, <2>4, <2>5 DEF RunInv
    <2>6. CASE Proceed("none")
      <3>1. step' = step + 1 /\ step' \in 1 .. 21 /\ phase' = "running"
        BY <1>1, <2>1, <2>2, <2>6 DEF Proceed
      <3>2. \A i \in 1 .. step' - 1 : i = step \/ i \in 1 .. step - 1
        BY <2>1, <3>1
      <3>3. \A i \in 1 .. step' - 1 : Program[i].do = "append" =>
              \E k \in DOMAIN file' : file'[k] = Program[i].what
        BY <2>1, <3>2 DEF RunInv
      <3>4. \A m \in DOMAIN Intent : Position[m] \in 1 .. 21
        BY DEF Intent, Position
      <3>5. \A m \in sent' : m \in DOMAIN Intent /\ Position[m] < step'
        <4>1. \A m \in sent : Position[m] < step
          BY <2>1 DEF RunInv
        <4> QED BY <2>1, <2>3, <3>1, <3>4, <4>1
      <3> QED BY <2>1, <3>1, <3>3, <3>5 DEF RunInv
    <2> QED BY <1>5, <2>5, <2>6 DEF ExecuteCall
  <1>6. CASE Fallback \/ RecordFallback \/ RecordRecovery \/ Die \/ Restart
    BY <1>6 DEF Fallback, RecordFallback, RecordRecovery, Die, Restart, RunInv
  <1>7. CASE UNCHANGED vars
    BY <1>7 DEF vars, RunInv
  <1> QED BY <1>2, <1>4, <1>5, <1>6, <1>7 DEF Next

\* A resumption is returned with the last line on a clean file, which no later
\* process appends to.
LEMMA ReceiptIsKept == ASSUME ReplacementInv, [Next]_vars PROVE ReceiptInv'
  <1> USE DEF ReplacementInv
  <1>1. CASE "resumed" \in receipt
    <2>1. /\ phase \in {"done", "down", "ready"} /\ file # <<>> /\ Last(file) = "resumed"
          /\ ~torn /\ ~garbled
      BY <1>1 DEF ReceiptInv
    <2>2. ~Execute
      BY <2>1 DEF Execute, FileInv
    <2>3. Die \/ Restart \/ UNCHANGED vars
      BY <2>1, <2>2 DEF Next, ExecuteAppend, ExecuteCall, Fallback, RecordFallback,
                        RecordRecovery
    <2>4. UNCHANGED <<file, torn, garbled>>
      BY <2>1, <2>3 DEF Die, Restart, vars, disk
    <2>5. phase' \in {"done", "down", "ready"}
      BY <2>1, <2>3 DEF Die, Restart, vars
    <2> QED BY <2>1, <2>4, <2>5 DEF ReceiptInv, Last
  <1>2. CASE "resumed" \notin receipt /\ "resumed" \in receipt'
    <2>1. ~ExecuteCall
      <3>1. ASSUME ExecuteCall PROVE receipt' = receipt
        <4>1. step # 21 /\ Len(Program) = 21
          BY <3>1, ProgramTable DEF ExecuteCall, Append1
        <4> QED BY <3>1, <4>1 DEF ExecuteCall, Proceed
      <3> QED BY <1>2, <3>1
    <2>2. ~RecordFallback /\ ~RecordRecovery
      BY <1>2, StatesAreRecorded DEF RecordFallback, RecordRecovery
    <2>3. ExecuteAppend
      BY <1>2, <2>1, <2>2 DEF Next, vars, Execute, Fallback, Die, Restart, history
    <2>4. /\ phase = "running" /\ step = 21 /\ AppendReturns(Program[step].what)
          /\ phase' = "done"
      BY <1>2, <2>3, ProgramTable DEF ExecuteAppend, Proceed
    <2>5. Program[step].what = "resumed" /\ "resumed" \in ReplacementStates
      BY <2>4, ProgramTable, RecordedStates DEF Append1
    <2> QED BY <2>4, <2>5, CleanAppend DEF RunInv, ReceiptInv
  <1>3. CASE "resumed" \notin receipt'
    BY <1>3 DEF ReceiptInv
  <1> QED BY <1>1, <1>2, <1>3
------------------------------------------------------------------------------
LEMMA ReplacementInitially == Init => ReplacementInv
  <1> SUFFICES ASSUME Init PROVE ReplacementInv
    OBVIOUS
  <1>1. Len(Program) = 21 /\ <<>> \in Seq(ReplacementStates)
    BY ProgramTable
  <1>2. TypeOK
    <2>1. step \in 0 .. 22 /\ phase = "ready" /\ file = <<>> /\ records = <<>>
      BY DEF Init
    <2>2. /\ torn \in BOOLEAN /\ garbled \in BOOLEAN
          /\ tailSeen \in BOOLEAN /\ uncertain \in BOOLEAN /\ replayed \in BOOLEAN
      BY Zenon DEF Init
    <2>3. sent \subseteq Commands /\ receipt \subseteq Closing
      BY DEF Init
    <2> QED BY <1>1, <2>1, <2>2, <2>3 DEF TypeOK
  <1> QED BY <1>2 DEF Init, ReplacementInv, IntentBeforeCommand, NoCommandIsReplayed, RunInv,
                      FileInv, ReceiptInv

LEMMA ReplacementStep == ReplacementInv /\ [Next]_vars => ReplacementInv'
  BY TypesAreKept, CommandsAreKept, RunIsKept, FileIsKept, ReceiptIsKept DEF ReplacementInv

\* The inductive invariant of the replacement holds in every reachable state.
THEOREM ReplacementInvariant == Spec => []ReplacementInv
  BY ReplacementInitially, ReplacementStep, PTL DEF Spec

\* Type correctness of the process, its file and its commands.
THEOREM ReplacementTypes == Spec => []TypeOK
  <1>1. ReplacementInv => TypeOK
    BY DEF ReplacementInv
  <1> QED BY <1>1, ReplacementInvariant, PTL

\* Write-ahead: whatever fails or dies, the line that announces a command is in
\* the file.
THEOREM WriteAhead == Spec => []IntentBeforeCommand
  <1>1. ReplacementInv => IntentBeforeCommand
    BY DEF ReplacementInv
  <1> QED BY <1>1, ReplacementInvariant, PTL

\* No command goes out twice across any number of processes.
THEOREM OnceOnly == Spec => []NoCommandIsReplayed
  <1>1. ReplacementInv => NoCommandIsReplayed
    BY DEF ReplacementInv
  <1> QED BY <1>1, ReplacementInvariant, PTL

\* A receipt of a resumption is backed by a readable journal that ends there.
THEOREM ResumptionIsDurable == Spec => []ResumedReceiptIsDurable
  <1>1. ReplacementInv => ResumedReceiptIsDurable
    BY DEF ReplacementInv, ReceiptInv, ResumedReceiptIsDurable
  <1> QED BY <1>1, ReplacementInvariant, PTL

\* Behind the fallback no process commands the vehicle again.
THEOREM FallbackIsFinal == Spec => NoCommandAfterFallback
  <1>1. ReplacementInv /\ [Next]_vars => ("fallback" \in sent => sent' = sent)
    BY CommandSteps
  <1>2. ReplacementInv /\ [Next]_vars => [("fallback" \in sent => sent' = sent)]_vars
    BY <1>1
  <1> QED BY <1>2, ReplacementInvariant, PTL DEF Spec, NoCommandAfterFallback

------------------------------------------------------------------------------
(***************************************************************************)
(* How far the two documented claims that do not hold are from the truth,  *)
(* and what a replacement that stops half way leaves behind.               *)
(***************************************************************************)
\* The readable lines of the file are a path of _TRANSITIONS from "authorized",
\* whichever appends raised, died or put their line there unnoticed.
JournalIsChain ==
  file # <<>> => /\ file[1] = "authorized"
                 /\ \A i \in 1 .. Len(file) - 1 : file[i + 1] \in Transitions(file[i])

\* Behind a command everything execute records before it is in the file.
RecordedBefore ==
  \A m \in sent \intersect DOMAIN Intent : \A j \in 1 .. Position[m] - 1 :
    Program[j].do = "append" => \E k \in DOMAIN file : file[k] = Program[j].what

\* The vehicle is not commanded out of order: it is resumed only if it was paused,
\* and had the replacement uploaded, committed and its cursor set before.
CommandsInOrder ==
  \A m \in sent \intersect DOMAIN Intent : \A n \in DOMAIN Intent :
    Position[n] < Position[m] => n \in sent

\* A process that is done has resumed the vehicle, commanded its fallback, or
\* never commanded it at all.
EndsClosed == phase = "done" => "resumed" \in receipt \/ "fallback" \in sent \/ sent = {}

\* Where the file is one that no restart reads, the fallback was commanded.
UnreadableAfterFallback == garbled => "fallback" \in sent

\* Where a restart is told that no write is uncertain, no command but the
\* fallback went out.
NoWriteMeansNoReplacement == phase = "ready" /\ RecoverSaysNoWrite => sent \subseteq {"fallback"}

\* The fallback stands before its records, the file holds what the journal
\* believes, and execute skips no command.
StopInv ==
  /\ phase \in {"record_fallback", "record_recovery"} => "fallback" \in sent
  /\ phase \notin {"down", "done"} =>
       Len(records) <= Len(file) /\ \A i \in 1 .. Len(records) : file[i] = records[i]
  /\ phase = "running" => \A m \in DOMAIN Intent : Position[m] < step => m \in sent

ExtentInv == StopInv /\ JournalIsChain /\ RecordedBefore /\ CommandsInOrder
             /\ EndsClosed /\ UnreadableAfterFallback

LEMMA PositionsOfCommands == \A m \in DOMAIN Intent : Position[m] \in 1 .. 21
  BY DEF Intent, Position

LEMMA FirstIsAuthorized == \A s : "authorized" \notin Transitions(s)
  <1>1. \A j \in 1 .. Len(Forward) - 1 : Forward[j + 1] # "authorized"
    <2>1. /\ Len(Forward) = 12
          /\ Forward[2] = "pause_requested" /\ Forward[3] = "paused"
          /\ Forward[4] = "uploading" /\ Forward[5] = "upload_confirmed"
          /\ Forward[6] = "readback_verified" /\ Forward[7] = "commit_requested"
          /\ Forward[8] = "committed" /\ Forward[9] = "cursor_requested"
          /\ Forward[10] = "cursor_confirmed" /\ Forward[11] = "resume_requested"
          /\ Forward[12] = "resumed"
      BY DEF Forward
    <2>2. \A j \in 1 .. 11 : j + 1 \in {2, 3, 4, 5, 6, 7, 8, 9, 10, 11, 12}
      OBVIOUS
    <2> QED BY <2>1, <2>2
  <1> QED BY <1>1 DEF Transitions, Closing

\* An append to a file that holds what the journal believes extends the chain.
LEMMA ChainExtends ==
  ASSUME ReplacementInv, JournalIsChain, NEW s \in ReplacementStates,
         Len(records) <= Len(file), \A i \in 1 .. Len(records) : file[i] = records[i],
         PartialAppend(s) \/ AppendReturns(s)
  PROVE  /\ JournalIsChain'
         /\ records' = records =>
              Len(records') <= Len(file') /\ \A i \in 1 .. Len(records') : file'[i] = records'[i]
  <1>1. file \in Seq(ReplacementStates) /\ records \in Seq(ReplacementStates)
    BY DEF ReplacementInv, TypeOK
  <1>2. ASSUME file' = file PROVE JournalIsChain'
    BY <1>2 DEF JournalIsChain
  <1>3. ASSUME file' # file PROVE JournalIsChain'
    <2>1. MayAppend(s) /\ Len(file) = Len(records) /\ file' = Append(file, s)
      BY <1>3 DEF PartialAppend, AppendReturns, WholeLine, disk
    <2> DEFINE n == Len(file)
    <2>2. n \in Nat /\ Len(file') = n + 1 /\ file'[n + 1] = s
          /\ \A i \in 1 .. n : file'[i] = file[i]
      BY <1>1, <2>1
    <2>3. CASE n = 0
      <3>1. records = <<>>
        <4>1. Len(records) = 0
          BY <2>1, <2>3
        <4> QED BY <1>1, <4>1
      <3>2. s = "authorized"
        BY <2>1, <3>1 DEF MayAppend
      <3> QED BY <2>2, <2>3, <3>2 DEF JournalIsChain
    <2>4. CASE n # 0
      <3>1. records # <<>> /\ file # <<>> /\ n \in 1 .. n
        BY <1>1, <2>1, <2>2, <2>4
      <3>2. Last(records) = file[n]
        BY <2>1, <3>1 DEF Last
      <3>3. s \in Transitions(file[n])
        BY <2>1, <3>1, <3>2 DEF MayAppend
      <3>4. ASSUME NEW i \in 1 .. n PROVE file'[i + 1] \in Transitions(file'[i])
        <4>1. CASE i = n
          BY <2>2, <3>3, <4>1
        <4>2. CASE i # n
          <5>1. i \in 1 .. n - 1 /\ i + 1 \in 1 .. n
            BY <2>2, <4>2
          <5> QED BY <2>2, <3>1, <5>1 DEF JournalIsChain
        <4> QED BY <4>1, <4>2
      <3>5. file'[1] = "authorized"
        BY <2>2, <2>4, <3>1 DEF JournalIsChain
      <3>6. Len(file') - 1 = n
        BY <2>2
      <3>7. \A i \in 1 .. Len(file') - 1 : file'[i + 1] \in Transitions(file'[i])
        BY <3>4, <3>6
      <3> QED BY <3>5, <3>7 DEF JournalIsChain
    <2> QED BY <2>3, <2>4
  <1>4. ASSUME records' = records, file' = file
        PROVE  Len(records') <= Len(file') /\ \A i \in 1 .. Len(records') : file'[i] = records'[i]
    BY <1>4
  <1>5. ASSUME records' = records, file' # file
        PROVE  Len(records') <= Len(file') /\ \A i \in 1 .. Len(records') : file'[i] = records'[i]
    <2>1. file' = Append(file, s) /\ Len(file) = Len(records)
      BY <1>5 DEF PartialAppend, AppendReturns, WholeLine, disk
    <2> QED BY <1>1, <1>5, <2>1
  <1> QED BY <1>2, <1>3, <1>4, <1>5

LEMMA ChainIsKept ==
  ASSUME ReplacementInv, StopInv, JournalIsChain, [Next]_vars
  PROVE  JournalIsChain' /\ StopInv'
  <1>1. file \in Seq(ReplacementStates) /\ records \in Seq(ReplacementStates)
    BY DEF ReplacementInv, TypeOK
  <1>2. ASSUME UNCHANGED <<file, records>>, phase \notin {"down", "done"} \/ phase' \in {"down", "done"},
               phase' \in {"record_fallback", "record_recovery"} => "fallback" \in sent',
               phase' = "running" => \A m \in DOMAIN Intent : Position[m] < step' => m \in sent'
        PROVE  JournalIsChain' /\ StopInv'
    BY <1>2 DEF StopInv, JournalIsChain
  <1>3. CASE Execute
    <2>1. \A m \in DOMAIN Intent : ~(Position[m] < 1)
      BY PositionsOfCommands
    <2> QED BY <1>2, <1>3, <2>1 DEF Execute, disk
  <1>4. CASE ExecuteAppend
    <2>1. /\ phase = "running" /\ step \in 1 .. 21 /\ Program[step].do = "append" /\ sent' = sent
      BY <1>4 DEF ExecuteAppend, ReplacementInv, RunInv
    <2>2. Program[step].what \in ReplacementStates
      BY <2>1, AppendedStates
    <2>3. CASE AppendReturns(Program[step].what) /\ Proceed(Program[step].what)
      <3>1. JournalIsChain'
        BY <2>1, <2>2, <2>3, ChainExtends DEF StopInv
      <3>2. file' = records' /\ records' \in Seq(ReplacementStates)
        BY <2>1, <2>2, <2>3, CleanAppend, TypesAreKept DEF ReplacementInv, RunInv, TypeOK
      <3>3. Len(records') <= Len(file') /\ \A i \in 1 .. Len(records') : file'[i] = records'[i]
        BY <3>2
      <3>4. step' = step + 1 /\ phase' \in {"running", "done"}
        BY <2>3 DEF Proceed
      <3>5. \A m \in DOMAIN Intent : Position[m] # step
        BY <2>1, ProgramTable, PositionsOfCommands DEF Append1, Call, Intent, Position
      <3>6. ASSUME NEW m \in DOMAIN Intent, Position[m] < step' PROVE m \in sent'
        <4>1. Position[m] < step
          BY <2>1, <3>4, <3>5, <3>6, PositionsOfCommands
        <4> QED BY <2>1, <4>1 DEF StopInv
      <3> QED BY <3>1, <3>3, <3>4, <3>6 DEF StopInv
    <2>4. CASE AppendRaises(Program[step].what) /\ phase' \in {"done", "fallback"}
      <3>1. /\ JournalIsChain'
            /\ Len(records') <= Len(file') /\ \A i \in 1 .. Len(records') : file'[i] = records'[i]
        BY <2>1, <2>2, <2>4, ChainExtends DEF StopInv, AppendRaises
      <3> QED BY <2>4, <3>1 DEF StopInv
    <2> QED BY <1>4, <2>3, <2>4 DEF ExecuteAppend
  <1>5. CASE ExecuteCall
    <2>1. /\ phase = "running" /\ step \in 1 .. 21 /\ Program[step].do = "call"
          /\ NoteCall(Program[step].what) /\ UNCHANGED <<file, records>>
      BY <1>5 DEF ExecuteCall, ReplacementInv, RunInv, disk
    <2>2. /\ phase' \in {"running", "done", "fallback"}
          /\ phase' = "running" => step' = step + 1
      BY <1>5 DEF ExecuteCall, Proceed
    <2>3. ASSUME NEW m \in DOMAIN Intent, Position[m] < step + 1 PROVE m \in sent'
      <3>1. sent \subseteq sent'
        BY <2>1 DEF NoteCall
      <3>2. CASE Position[m] < step
        BY <2>1, <3>1, <3>2 DEF StopInv
      <3>3. CASE Position[m] = step
        <4>1. Program[step].what = m
          BY <3>3, ProgramTable DEF Call, Intent, Position
        <4> QED BY <2>1, <4>1 DEF NoteCall, Commands
      <3> QED BY <2>1, <2>3, <3>2, <3>3, PositionsOfCommands
    <2> QED BY <1>2, <2>1, <2>2, <2>3
  <1>6. CASE Fallback
    <2>1. /\ "fallback" \in sent' /\ phase' \in {"record_fallback", "record_recovery"}
          /\ phase = "fallback" /\ UNCHANGED <<file, records>>
      BY <1>6 DEF Fallback, NoteCall, Commands, disk
    <2> QED BY <1>2, <2>1
  <1>7. CASE RecordFallback
    <2>1. JournalIsChain'
      BY <1>7, StatesAreRecorded, ChainExtends DEF RecordFallback, StopInv, AppendRaises
    <2>2. CASE phase' = "done"
      BY <2>1, <2>2 DEF StopInv
    <2>3. CASE AppendRaises(FallbackState) /\ phase' = "record_recovery"
      <3>1. Len(records') <= Len(file') /\ \A i \in 1 .. Len(records') : file'[i] = records'[i]
        BY <1>7, <2>3, StatesAreRecorded, ChainExtends DEF RecordFallback, StopInv, AppendRaises
      <3>2. "fallback" \in sent'
        BY <1>7 DEF RecordFallback, StopInv
      <3> QED BY <2>1, <2>3, <3>1, <3>2 DEF StopInv
    <2> QED BY <1>7, <2>2, <2>3 DEF RecordFallback
  <1>8. CASE RecordRecovery
    <2>1. JournalIsChain'
      BY <1>8, StatesAreRecorded, ChainExtends DEF RecordRecovery, StopInv, AppendRaises
    <2> QED BY <1>8, <2>1 DEF RecordRecovery, StopInv
  <1>9. CASE Die
    <2>1. CASE UNCHANGED disk
      BY <1>9, <2>1 DEF Die, disk, JournalIsChain, StopInv
    <2>2. CASE \E s \in ReplacementStates : PartialAppend(s) /\ phase \notin {"down", "done"}
      <3>1. JournalIsChain'
        BY <2>2, ChainExtends DEF StopInv
      <3> QED BY <1>9, <3>1 DEF Die, StopInv
    <2>3. UNCHANGED disk \/ \E s \in ReplacementStates : PartialAppend(s) /\ phase \notin {"down", "done"}
      <3>1. phase = "running" => step \in 1 .. 21
        BY DEF ReplacementInv, RunInv
      <3> QED BY <1>9, <3>1, AppendedStates, StatesAreRecorded DEF Die
    <2> QED BY <2>1, <2>2, <2>3
  <1>10. CASE Restart
    BY <1>1, <1>10 DEF Restart, disk, JournalIsChain, StopInv
  <1>11. CASE UNCHANGED vars
    BY <1>11 DEF vars, JournalIsChain, StopInv
  <1> QED BY <1>3, <1>4, <1>5, <1>6, <1>7, <1>8, <1>9, <1>10, <1>11 DEF Next

LEMMA OrderIsKept ==
  ASSUME ReplacementInv, StopInv, RecordedBefore, CommandsInOrder, [Next]_vars
  PROVE  RecordedBefore' /\ CommandsInOrder'
  <1>1. \A k \in DOMAIN file : k \in DOMAIN file' /\ file'[k] = file[k]
    BY FileGrows
  <1>2. CASE sent' = sent
    BY <1>1, <1>2 DEF RecordedBefore, CommandsInOrder
  <1>3. CASE sent' # sent
    <2>1. ASSUME NEW m \in sent' \intersect DOMAIN Intent, m \notin sent
          PROVE  phase = "running" /\ Position[m] = step /\ sent \subseteq sent'
      <3>1. "fallback" \notin DOMAIN Intent
        BY DEF Intent
      <3> QED BY <1>3, <2>1, <3>1, CommandSteps
    <2>2. sent \subseteq sent'
      BY <1>3, CommandSteps
    <2>3. ASSUME NEW m \in sent' \intersect DOMAIN Intent, NEW j \in 1 .. Position[m] - 1,
                 Program[j].do = "append"
          PROVE  \E k \in DOMAIN file' : file'[k] = Program[j].what
      <3>1. \E k \in DOMAIN file : file[k] = Program[j].what
        <4>1. CASE m \in sent
          BY <2>3, <4>1 DEF RecordedBefore
        <4>2. CASE m \notin sent
          BY <2>1, <2>3, <4>2 DEF ReplacementInv, RunInv
        <4> QED BY <4>1, <4>2
      <3> QED BY <1>1, <3>1
    <2>4. ASSUME NEW m \in sent' \intersect DOMAIN Intent, NEW n \in DOMAIN Intent,
                 Position[n] < Position[m]
          PROVE  n \in sent'
      <3>1. CASE m \in sent
        BY <2>2, <2>4, <3>1 DEF CommandsInOrder
      <3>2. CASE m \notin sent
        BY <2>1, <2>4, <3>2 DEF StopInv
      <3> QED BY <3>1, <3>2
    <2> QED BY <2>3, <2>4 DEF RecordedBefore, CommandsInOrder
  <1> QED BY <1>2, <1>3

LEMMA EndsAreKept ==
  ASSUME ReplacementInv, StopInv, EndsClosed, UnreadableAfterFallback, [Next]_vars
  PROVE  EndsClosed' /\ UnreadableAfterFallback'
  <1> USE DEF EndsClosed, UnreadableAfterFallback
  <1>1. CASE Execute
    BY <1>1 DEF Execute, disk, history
  <1>2. CASE ExecuteAppend
    <2>1. /\ phase = "running" /\ step \in 1 .. 21 /\ ~torn /\ ~garbled /\ file = records
          /\ UNCHANGED sent /\ Len(Program) = 21
      BY <1>2, ProgramTable DEF ExecuteAppend, ReplacementInv, RunInv
    <2>2. ~garbled'
      BY <1>2, <2>1 DEF ExecuteAppend, AppendReturns, AppendRaises, PartialAppend, WholeLine, disk
    <2>3. ASSUME phase' = "done" PROVE "resumed" \in receipt' \/ sent' = {}
      <3>1. CASE step = 21 /\ Proceed(Program[step].what)
        BY <2>1, <3>1, ProgramTable DEF Proceed, Append1
      <3>2. CASE step = 1
        <4>1. \A m \in sent : m \in DOMAIN Intent /\ Position[m] < 1
          BY <2>1, <3>2 DEF ReplacementInv, RunInv
        <4> QED BY <2>1, <4>1, PositionsOfCommands
      <3> QED BY <1>2, <2>1, <2>3, <3>1, <3>2 DEF ExecuteAppend, Proceed
    <2> QED BY <2>2, <2>3
  <1>3. CASE ExecuteCall
    <2>1. step # 21 /\ Len(Program) = 21 /\ sent \subseteq sent'
      BY <1>3, ProgramTable DEF ExecuteCall, Append1, NoteCall
    <2> QED BY <1>3, <2>1 DEF ExecuteCall, Proceed, disk
  <1>4. CASE Fallback
    BY <1>4 DEF Fallback, NoteCall, Commands
  <1>5. CASE RecordFallback \/ RecordRecovery
    BY <1>5 DEF RecordFallback, RecordRecovery, StopInv
  <1>6. CASE Die
    <2>1. phase' = "down" /\ UNCHANGED sent
      BY <1>6 DEF Die, history
    <2>2. ASSUME garbled', "fallback" \notin sent PROVE FALSE
      <3>1. phase \notin {"record_fallback", "record_recovery"} /\ ~garbled
        BY <2>2 DEF StopInv
      <3>2. phase = "running" /\ PartialAppend(Program[step].what)
        BY <1>6, <2>2, <3>1 DEF Die, disk
      <3> QED BY <2>2, <3>2 DEF PartialAppend, WholeLine, disk, ReplacementInv, RunInv
    <2> QED BY <2>1, <2>2
  <1>7. CASE Restart \/ UNCHANGED vars
    BY <1>7 DEF Restart, vars, disk, history
  <1> QED BY <1>1, <1>2, <1>3, <1>4, <1>5, <1>6, <1>7 DEF Next

LEMMA ExtentStep == ReplacementInv /\ ExtentInv /\ [Next]_vars => ExtentInv'
  BY ChainIsKept, OrderIsKept, EndsAreKept DEF ExtentInv

LEMMA ExtentInitially == Init => ExtentInv
  BY DEF Init, ExtentInv, StopInv, JournalIsChain, RecordedBefore, CommandsInOrder,
         EndsClosed, UnreadableAfterFallback

LEMMA ExtentInvariant == Spec => [](ReplacementInv /\ ExtentInv)
  BY ExtentInitially, ExtentStep, ReplacementInvariant, PTL DEF Spec

\* Whatever raises or dies, the readable lines stay a path of _TRANSITIONS: a
\* restart that reads the file never fails on an order of its states.
THEOREM FileStaysChain == Spec => []JournalIsChain
  <1>1. ExtentInv => JournalIsChain
    BY DEF ExtentInv
  <1> QED BY <1>1, ExtentInvariant, PTL

\* The vehicle is commanded in the order of execute, with everything recorded
\* that execute records before: it is not resumed on a Mission that was not
\* uploaded, read back and committed.
THEOREM OrderOfCommands == Spec => [](CommandsInOrder /\ RecordedBefore)
  <1>1. ExtentInv => CommandsInOrder /\ RecordedBefore
    BY DEF ExtentInv
  <1> QED BY <1>1, ExtentInvariant, PTL

\* execute never leaves a vehicle that it commanded without having resumed it or
\* commanded the fallback, whichever of its calls and appends fail.
THEOREM ExecuteEndsClosed == Spec => []EndsClosed
  <1>1. ExtentInv => EndsClosed
    BY DEF ExtentInv
  <1> QED BY <1>1, ExtentInvariant, PTL

\* The journal can become unreadable (JournalStaysReadable is violated), but only
\* when the vehicle has already been told to hold or return.
THEOREM UnreadableIsLate == Spec => []UnreadableAfterFallback
  <1>1. ExtentInv => UnreadableAfterFallback
    BY DEF ExtentInv
  <1> QED BY <1>1, ExtentInvariant, PTL

\* A restart that is told no write is uncertain may find a vehicle that was told
\* to hold or return (NoWriteMeansNoCommand is violated), but none that was
\* paused, reprogrammed or resumed.
THEOREM NoWriteIsNoReplacement == Spec => []NoWriteMeansNoReplacement
  <1>1. ReplacementInv /\ ExtentInv => NoWriteMeansNoReplacement
    <2> SUFFICES ASSUME ReplacementInv, ExtentInv, phase = "ready", RecoverSaysNoWrite,
                        NEW m \in sent, m # "fallback"
                 PROVE  FALSE
      BY DEF NoWriteMeansNoReplacement
    <2>1. m \in DOMAIN Intent
      BY DEF ReplacementInv, TypeOK, Commands
    <2>2. PICK k \in DOMAIN file : file[k] = Intent[m]
      BY <2>1 DEF ReplacementInv, IntentBeforeCommand
    <2>3. file \in Seq(ReplacementStates) /\ file = records /\ file # <<>>
      BY <2>2 DEF ReplacementInv, TypeOK, FileInv
    <2>4. file[Len(file)] = "authorized"
      BY <2>3 DEF RecoverSaysNoWrite, RecoverSaysReady, Last
    <2>5. Len(file) = 1
      <3>1. ASSUME Len(file) # 1 PROVE FALSE
        <4>0. Len(file) \in Nat \ {0}
          BY <2>3
        <4>1. Len(file) - 1 \in 1 .. Len(file) - 1 /\ Len(file) - 1 + 1 = Len(file)
          <5>1. \A n \in Nat : n # 0 /\ n # 1 => n - 1 \in 1 .. n - 1 /\ n - 1 + 1 = n
            OBVIOUS
          <5> QED BY <5>1, <4>0, <3>1
        <4>2. file[Len(file) - 1 + 1] \in Transitions(file[Len(file) - 1])
          BY <2>3, <4>1 DEF ExtentInv, JournalIsChain
        <4>3. file[Len(file)] \in Transitions(file[Len(file) - 1])
          BY <4>1, <4>2
        <4> QED BY <2>4, <4>3, FirstIsAuthorized
      <3> QED BY <3>1
    <2>6. k = 1
      BY <2>2, <2>3, <2>5
    <2>7. Intent[m] # "authorized"
      BY <2>1 DEF Intent
    <2> QED BY <2>2, <2>4, <2>5, <2>6, <2>7
  <1> QED BY <1>1, ExtentInvariant, PTL
==============================================================================
