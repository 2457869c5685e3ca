----------------------- MODULE PersistentMissionProofs -----------------------
(***************************************************************************)
(* Proofs about the journal and the journaled transaction, for every plan  *)
(* and every file length.  First the journal alone, whoever uses it: the   *)
(* file always reloads, and a handle that may write is current.  Then the  *)
(* composition: it runs the journal's own operators, so every step is a    *)
(* step of the journal and JournalInv is inherited; what is added is where *)
(* a restart would resume (Checkpoint) and how the object in memory        *)
(* relates to it.                                                          *)
(***************************************************************************)
EXTENDS PersistentMission, TLAPS

\* The inductive invariant.  Beyond the two properties it says how far the
\* file may be ahead of the handle: by one line, or by the line in the buffer,
\* never both, and only while the handle requires recovery.
HandleInv ==
  /\ file # <<>> => exists
  /\ ~open => committed = 0 /\ recovery = FALSE /\ residual = None
  /\ open => committed \in 1 .. Len(file) /\ Len(file) <= committed + 1
  /\ open /\ Len(file) # committed => recovery /\ residual = None

BufferInv ==
  residual # None => /\ open /\ recovery
                     /\ residual \in Records
                     /\ ValidEvent(file[committed], residual)

JournalInv == JournalTypeOK /\ JournalReloads /\ HandleInv /\ BufferInv

\* What a caller of Write must know of the lines it writes behind.
WriteReady(f, record) ==
  /\ f \in Seq(Records) /\ ValidRecords(f)
  /\ record \in Records /\ ValidEvent(f[Len(f)], record)
------------------------------------------------------------------------------
\* Every record leads to a state of the transaction.
LEMMA RecordStates == \A r \in Records : r.to \in States /\ r # None
  BY DEF Records, Header, Transition, ItemRequest, Acknowledgement, Event, States, None

\* A valid file stays valid when a valid event is appended to it.
LEMMA ValidAppend ==
  ASSUME NEW f, NEW record, WriteReady(f, record)
  PROVE  /\ Append(f, record) \in Seq(Records)
         /\ ValidRecords(Append(f, record))
         /\ Len(Append(f, record)) = Len(f) + 1
  <1>1. f \in Seq(Records) /\ f # <<>> /\ Len(f) \in Nat /\ Len(f) >= 1
    BY DEF WriteReady, ValidRecords
  <1>2. \A i \in 1 .. Len(f) : Append(f, record)[i] = f[i]
    BY <1>1 DEF WriteReady
  <1>3. Append(f, record)[Len(f) + 1] = record /\ Len(Append(f, record)) = Len(f) + 1
    BY <1>1 DEF WriteReady
  <1>4. ASSUME NEW i \in 2 .. Len(f) + 1
        PROVE  ValidEvent(Append(f, record)[i - 1], Append(f, record)[i])
    <2>1. CASE i \in 2 .. Len(f)
      BY <1>1, <1>2, <2>1 DEF WriteReady, ValidRecords
    <2>2. CASE i = Len(f) + 1
      BY <1>1, <1>2, <1>3, <2>2 DEF WriteReady
    <2> QED BY <1>1, <2>1, <2>2
  <1> QED BY <1>1, <1>2, <1>3, <1>4 DEF WriteReady, ValidRecords

\* A prefix of a valid file that keeps its header is valid.
LEMMA ValidPrefix ==
  ASSUME NEW f \in Seq(Records), ValidRecords(f), NEW n \in 1 .. Len(f)
  PROVE  /\ SubSeq(f, 1, n) \in Seq(Records)
         /\ ValidRecords(SubSeq(f, 1, n))
         /\ Len(SubSeq(f, 1, n)) = n
         /\ SubSeq(f, 1, n)[n] = f[n]
  <1>1. SubSeq(f, 1, n) \in Seq(Records) /\ Len(SubSeq(f, 1, n)) = n
    OBVIOUS
  <1>2. \A i \in 1 .. n : SubSeq(f, 1, n)[i] = f[i]
    OBVIOUS
  <1> QED BY <1>1, <1>2 DEF ValidRecords

\* The write of a valid event, however it ends, leaves the invariant.
LEMMA WriteKeepsInv ==
  ASSUME NEW f, NEW record, NEW out,
         WriteReady(f, record),
         Write(f, record, out),
         exists' = TRUE, quarantined' \in BOOLEAN
  PROVE  JournalInv'
  <1> DEFINE g == Append(f, record)
  <1>1. /\ g \in Seq(Records) /\ ValidRecords(g) /\ Len(g) = Len(f) + 1
        /\ \A i \in 1 .. Len(f) : g[i] = f[i]
    BY ValidAppend DEF WriteReady
  <1>2. f \in Seq(Records) /\ ValidRecords(f) /\ Len(f) \in Nat /\ Len(f) >= 1 /\ f # <<>>
    BY DEF WriteReady, ValidRecords
  <1>3. g # <<>>
    BY <1>1, <1>2
  <1>4. record \in Records /\ record # None
    BY RecordStates DEF WriteReady
  <1> HIDE DEF g
  <1>5. CASE WriteOk(f, record)
    <2>0. /\ file' = g /\ committed' = Len(f) + 1 /\ torn' = FALSE
          /\ recovery' = FALSE /\ residual' = None /\ open' = TRUE
      BY <1>5 DEF WriteOk, g
    <2>1. JournalTypeOK'
      <3>1. file' \in Seq(Records) BY <1>1, <2>0
      <3>2. committed' \in Nat BY <1>2, <2>0
      <3> QED BY <2>0, <3>1, <3>2 DEF JournalTypeOK
    <2> USE <1>1, <1>2, <1>3, <2>0
    <2>2. JournalReloads' BY DEF JournalReloads
    <2>3. HandleInv' BY DEF HandleInv
    <2>4. BufferInv' BY DEF BufferInv
    <2> QED BY <2>1, <2>2, <2>3, <2>4 DEF JournalInv
  <1>6. CASE WriteClockBehind(f)
    <2> USE <1>2, <1>6 DEF WriteClockBehind
    <2>1. JournalTypeOK' BY DEF JournalTypeOK
    <2>2. JournalReloads' BY DEF JournalReloads
    <2>3. HandleInv' BY DEF HandleInv
    <2>4. BufferInv' BY DEF BufferInv
    <2> QED BY <2>1, <2>2, <2>3, <2>4 DEF JournalInv
  <1>7. CASE WriteFails(f, record)
    <2>0. PICK h : /\ file' = h
                   /\ \/ h = f /\ torn' \in BOOLEAN /\ residual' = record
                      \/ h = g /\ torn' = FALSE /\ residual' = None
      BY <1>7 DEF WriteFails, g
    <2> USE <1>1, <1>2, <1>3, <1>4, <1>7, <2>0 DEF WriteFails
    <2>1. JournalTypeOK' BY DEF JournalTypeOK
    <2>2. JournalReloads' BY DEF JournalReloads
    <2>3. HandleInv'
      <3>1. CASE h = f BY <3>1 DEF HandleInv
      <3>2. CASE h = g /\ residual' = None BY <3>2 DEF HandleInv
      <3> QED BY <3>1, <3>2
    <2>4. BufferInv' BY DEF BufferInv, WriteReady
    <2> QED BY <2>1, <2>2, <2>3, <2>4 DEF JournalInv
  <1>8. CASE WriteDies(f, record)
    <2> USE <1>1, <1>2, <1>3, <1>8 DEF WriteDies, ForgetHandle, g
    <2>1. JournalTypeOK' BY DEF JournalTypeOK
    <2>2. JournalReloads' BY DEF JournalReloads
    <2>3. HandleInv' BY DEF HandleInv
    <2>4. BufferInv' BY DEF BufferInv
    <2> QED BY <2>1, <2>2, <2>3, <2>4 DEF JournalInv
  <1> QED BY <1>5, <1>6, <1>7, <1>8 DEF Write
------------------------------------------------------------------------------
\* An open handle points at a committed record of a valid file.
LEMMA OpenHandle ==
  ASSUME JournalInv, open
  PROVE  /\ exists = TRUE /\ quarantined \in BOOLEAN
         /\ file \in Seq(Records) /\ ValidRecords(file)
         /\ committed \in 1 .. Len(file)
         /\ JournalState \in States
  <1>1. committed \in 1 .. Len(file) /\ file \in Seq(Records) /\ file # <<>>
    BY DEF JournalInv, HandleInv, JournalTypeOK
  <1>2. file[committed].to \in States
    BY <1>1, RecordStates
  <1> QED BY <1>1, <1>2 DEF JournalInv, JournalTypeOK, JournalReloads, HandleInv, JournalState

\* The variables of the journal are all the invariant is about.
LEMMA StutterKeepsInv ==
  ASSUME JournalInv, UNCHANGED journalVars
  PROVE  JournalInv'
  <1>1. /\ exists' = exists /\ file' = file /\ torn' = torn /\ quarantined' = quarantined
        /\ open' = open /\ committed' = committed /\ recovery' = recovery
        /\ residual' = residual
    BY DEF journalVars
  <1>2. JournalTypeOK' BY <1>1 DEF JournalInv, JournalTypeOK
  <1>3. JournalReloads' BY <1>1 DEF JournalInv, JournalReloads
  <1>4. HandleInv' BY <1>1 DEF JournalInv, HandleInv
  <1>5. BufferInv' BY <1>1 DEF JournalInv, BufferInv
  <1> QED BY <1>2, <1>3, <1>4, <1>5 DEF JournalInv

\* _append keeps the invariant when the record may follow the handle's last.
LEMMA AppendKeepsInv ==
  ASSUME JournalInv, open,
         NEW record \in Records, ValidEvent(file[committed], record),
         NEW out, AppendRecord(record, out)
  PROVE  JournalInv'
  <1>1. CASE /\ ~recovery /\ ~torn /\ Len(file) = committed
             /\ Write(file, record, out)
    <2>1. WriteReady(file, record)
      BY <1>1, OpenHandle DEF WriteReady
    <2>2. exists' = TRUE /\ quarantined' \in BOOLEAN
      BY OpenHandle DEF AppendRecord
    <2> QED BY <1>1, <2>1, <2>2, WriteKeepsInv
  <1>2. CASE /\ recovery' = TRUE
             /\ UNCHANGED <<file, torn, open, committed, residual>>
    <2>1. UNCHANGED <<exists, quarantined>>
      BY DEF AppendRecord
    <2> USE <1>2, <2>1 DEF JournalInv
    <2>2. JournalTypeOK' BY DEF JournalTypeOK
    <2>3. JournalReloads' BY DEF JournalReloads
    <2>4. HandleInv' BY DEF HandleInv
    <2>5. BufferInv' BY DEF BufferInv
    <2> QED BY <2>2, <2>3, <2>4, <2>5
  <1> QED BY <1>1, <1>2 DEF AppendRecord

\* record_transition
LEMMA TransitionKeepsInv ==
  ASSUME JournalInv, NEW to \in States, NEW out, RecordTransition(to, out)
  PROVE  JournalInv'
  <1>1. open
    BY DEF RecordTransition
  <1>2. CASE to \in StateTransitions[JournalState]
    <2>1. Transition(to) \in Records
      BY DEF Records
    <2>2. ValidEvent(file[committed], Transition(to))
      BY <1>2 DEF ValidEvent, Transition, Event, JournalState
    <2>3. AppendRecord(Transition(to), out)
      BY <1>2 DEF RecordTransition
    <2> QED BY <1>1, <2>1, <2>2, <2>3, AppendKeepsInv
  <1>3. CASE to \notin StateTransitions[JournalState]
    BY <1>3, StutterKeepsInv DEF RecordTransition
  <1> QED BY <1>2, <1>3

\* record_item_request
LEMMA ItemRequestKeepsInv ==
  ASSUME JournalInv, NEW item \in Items, NEW out, RecordItemRequest(item, out)
  PROVE  JournalInv'
  <1>1. open
    BY DEF RecordItemRequest
  <1>2. CASE JournalState = "uploading"
    <2>1. ItemRequest(item) \in Records
      BY DEF Records
    <2>2. ValidEvent(file[committed], ItemRequest(item))
      BY <1>2 DEF ValidEvent, ItemRequest, Event, JournalState
    <2>3. AppendRecord(ItemRequest(item), out)
      BY <1>2 DEF RecordItemRequest
    <2> QED BY <1>1, <2>1, <2>2, <2>3, AppendKeepsInv
  <1>3. CASE JournalState # "uploading"
    BY <1>3, StutterKeepsInv DEF RecordItemRequest
  <1> QED BY <1>2, <1>3

\* create() and open()
LEMMA CreateKeepsInv ==
  ASSUME JournalInv, NEW out, CreateJournal(out)
  PROVE  JournalInv'
  <1> DEFINE g == <<Header>>
  <1>1. Header \in Records
    BY DEF Records
  <1>2. /\ g \in Seq(Records) /\ Len(g) = 1 /\ g # <<>> /\ ValidRecords(g)
        /\ Append(<<>>, Header) = g
    BY <1>1 DEF ValidRecords
  <1>3. file = <<>>
    BY DEF CreateJournal, JournalInv, HandleInv
  <1>4. exists' = TRUE /\ quarantined' \in BOOLEAN
    BY DEF CreateJournal, JournalInv, JournalTypeOK
  <1>7. <<>> \in Seq(Records)
    OBVIOUS
  <1> HIDE DEF g
  <1>5. CASE WriteOk(<<>>, Header)
    <2>1. /\ file' = g /\ torn' = FALSE /\ committed' = 1
          /\ recovery' = FALSE /\ residual' = None /\ open' = TRUE
      BY <1>2, <1>5 DEF WriteOk
    <2> USE <1>2, <1>4, <2>1
    <2>2. JournalTypeOK' BY DEF JournalTypeOK
    <2>3. JournalReloads' BY DEF JournalReloads
    <2>4. HandleInv'
      <3>1. committed' = 1 /\ Len(file') = 1 /\ exists' /\ open' OBVIOUS
      <3> HIDE <1>2, <2>1
      <3>2. 1 \in 1 .. 1 /\ 1 <= 1 + 1 OBVIOUS
      <3> QED BY <3>1, <3>2 DEF HandleInv
    <2>5. BufferInv' BY DEF BufferInv
    <2> QED BY <2>2, <2>3, <2>4, <2>5 DEF JournalInv
  <1>6. CASE WriteDies(<<>>, Header)
    <2>1. /\ file' \in {<<>>, g} /\ torn' \in BOOLEAN /\ committed' = 0
          /\ recovery' = FALSE /\ residual' = None /\ open' = FALSE
      BY <1>2, <1>6 DEF WriteDies, ForgetHandle
    <2> USE <1>2, <1>4, <2>1
    <2>2. JournalTypeOK'
      <3>1. file' \in Seq(Records) BY <1>7
      <3>2. residual' \in Records \union {None} /\ committed' \in Nat OBVIOUS
      <3> QED BY <3>1, <3>2 DEF JournalTypeOK
    <2>3. JournalReloads' BY DEF JournalReloads
    <2>4. HandleInv' BY DEF HandleInv
    <2>5. BufferInv' BY DEF BufferInv
    <2> QED BY <2>2, <2>3, <2>4, <2>5 DEF JournalInv
  <1> QED BY <1>5, <1>6 DEF CreateJournal

\* open(): the handle takes over what the file holds.
LEMMA OpenKeepsInv ==
  ASSUME JournalInv, OpenJournal
  PROVE  JournalInv'
  <1>1. /\ file \in Seq(Records) /\ file # <<>> /\ Len(file) \in Nat /\ Len(file) >= 1
        /\ UNCHANGED <<exists, file, torn, quarantined>>
        /\ open' = TRUE /\ committed' = Len(file) /\ recovery' = torn /\ residual' = None
    BY DEF JournalInv, JournalTypeOK, OpenJournal, ValidRecords, disk
  <1> USE <1>1 DEF JournalInv
  <1>2. JournalTypeOK' BY DEF JournalTypeOK
  <1>3. JournalReloads' BY DEF JournalReloads
  <1>4. HandleInv' BY DEF HandleInv
  <1>5. BufferInv' BY DEF BufferInv
  <1> QED BY <1>2, <1>3, <1>4, <1>5

\* What closing the stream can do to the lines: nothing, or the buffered record
\* becomes the one line the file is ahead of its handle.
LEMMA FlushedLines ==
  ASSUME JournalInv, open, FlushResidual
  PROVE  /\ file' \in Seq(Records) /\ ValidRecords(file') /\ torn' \in BOOLEAN
         /\ Len(file') >= committed /\ Len(file') <= committed + 1
         /\ Len(file') # committed => Len(file) # committed \/ residual # None
         /\ \A i \in 1 .. committed : file'[i] = file[i]
  <1> DEFINE g == Append(file, residual)
  <1>1. /\ file \in Seq(Records) /\ ValidRecords(file) /\ Len(file) \in Nat
        /\ committed \in 1 .. Len(file)
    BY OpenHandle
  <1>0. Len(file) <= committed + 1 /\ torn \in BOOLEAN
    BY DEF JournalInv, HandleInv, JournalTypeOK
  <1>2. CASE UNCHANGED file /\ torn' \in {torn, torn \/ residual # None}
    <2>1. torn' \in BOOLEAN
      BY <1>0, <1>2
    <2>2. file' = file
      BY <1>2
    <2>3. Len(file') >= committed
      BY <1>1, <2>2
    <2> QED BY <1>0, <1>1, <2>1, <2>2, <2>3
  <1>3. CASE residual # None /\ file' = g /\ torn' = FALSE
    <2>1. Len(file) = committed
      BY <1>3 DEF JournalInv, HandleInv, BufferInv
    <2>2. WriteReady(file, residual)
      BY <1>1, <1>3, <2>1 DEF JournalInv, BufferInv, WriteReady
    <2>3. g \in Seq(Records) /\ ValidRecords(g) /\ Len(g) = Len(file) + 1
      BY <2>2, ValidAppend
    <2>4. \A i \in 1 .. committed : g[i] = file[i]
      BY <1>1, <2>1, <2>2 DEF WriteReady
    <2>5. file' = g /\ torn' = FALSE /\ residual # None
      BY <1>3
    <2> HIDE DEF g
    <2>6. /\ file' \in Seq(Records) /\ ValidRecords(file')
          /\ Len(file') >= committed /\ Len(file') <= committed + 1
      BY <1>1, <2>1, <2>3, <2>5
    <2>7. \A i \in 1 .. committed : file'[i] = file[i]
      BY <2>4, <2>5
    <2> QED BY <2>5, <2>6, <2>7
  <1> QED BY <1>2, <1>3 DEF FlushResidual

\* A file without a handle only has to be valid.
LEMMA ForgetKeepsInv ==
  ASSUME ForgetHandle,
         file' \in Seq(Records), file' # <<>> => ValidRecords(file'),
         torn' \in BOOLEAN, exists' \in BOOLEAN, quarantined' \in BOOLEAN,
         file' # <<>> => exists'
  PROVE  JournalInv'
  <1> USE DEF ForgetHandle
  <1>1. JournalTypeOK' BY DEF JournalTypeOK
  <1>2. JournalReloads' BY DEF JournalReloads
  <1>3. HandleInv' BY DEF HandleInv
  <1>4. BufferInv' BY DEF BufferInv
  <1> QED BY <1>1, <1>2, <1>3, <1>4 DEF JournalInv

\* close()
LEMMA CloseKeepsInv ==
  ASSUME JournalInv, CloseJournal
  PROVE  JournalInv'
  <1>1. open /\ FlushResidual /\ ForgetHandle /\ exists' = exists /\ quarantined' = quarantined
    BY DEF CloseJournal
  <1>2. exists' = TRUE /\ quarantined' \in BOOLEAN
    BY <1>1, OpenHandle
  <1> QED BY <1>1, <1>2, FlushedLines, ForgetKeepsInv

\* The death of the process between two calls.
LEMMA KillKeepsInv ==
  ASSUME JournalInv, KillJournal
  PROVE  JournalInv'
  <1>1. /\ open /\ ForgetHandle /\ exists' = exists /\ quarantined' = quarantined
        /\ file' = file /\ torn' = torn
    BY DEF KillJournal, disk
  <1>2. exists' = TRUE /\ quarantined' \in BOOLEAN
    BY <1>1, OpenHandle
  <1>3. torn' \in BOOLEAN
    BY <1>1 DEF JournalInv, JournalTypeOK
  <1> QED BY <1>1, <1>2, <1>3, OpenHandle, ForgetKeepsInv

\* repair_truncated_tail, up to its last write: what is left of the file is the
\* committed prefix, which the acknowledgement may follow.
LEMMA RepairKeepsInv ==
  ASSUME JournalInv, NEW default \in BOOLEAN, NEW out, RepairTail(default, out)
  PROVE  JournalInv'
  <1> DEFINE prefix == SubSeq(file, 1, committed)
             record == Acknowledgement(JournalState)
  <1>1. open
    BY DEF RepairTail, RepairAllowed
  <1>2. record \in Records
    BY <1>1, OpenHandle DEF Records
  <1>3. /\ prefix \in Seq(Records) /\ ValidRecords(prefix) /\ Len(prefix) = committed
        /\ prefix[committed] = file[committed]
    BY <1>1, OpenHandle, ValidPrefix
  <1>4. ValidEvent(prefix[Len(prefix)], record)
    BY <1>3 DEF ValidEvent, Acknowledgement, Event, JournalState
  <1>5. WriteReady(prefix, record)
    BY <1>2, <1>3, <1>4 DEF WriteReady
  <1>6. exists' = TRUE /\ quarantined' \in BOOLEAN
    BY <1>1, OpenHandle DEF RepairTail, QuarantineTail
  <1>7. Write(prefix, record, out)
    BY DEF RepairTail
  <1> QED BY <1>5, <1>6, <1>7, WriteKeepsInv

\* A repair that stops between the quarantine copy and the truncation.
LEMMA InterruptedKeepsInv ==
  ASSUME JournalInv, NEW default \in BOOLEAN, RepairInterrupted(default)
  PROVE  JournalInv'
  <1>1. open /\ recovery /\ FlushResidual
    BY DEF RepairInterrupted, RepairAllowed
  <1>2. exists' = TRUE /\ quarantined' \in BOOLEAN
    BY <1>1, OpenHandle DEF RepairInterrupted, QuarantineTail
  <1>3. CASE ForgetHandle
    BY <1>1, <1>2, <1>3, FlushedLines, ForgetKeepsInv
  <1>4. CASE residual' = None /\ UNCHANGED <<open, committed, recovery>>
    <2>1. /\ residual' = None /\ open' = open /\ committed' = committed
          /\ recovery' = recovery
      BY <1>4
    <2>2. /\ file' \in Seq(Records) /\ ValidRecords(file') /\ torn' \in BOOLEAN
          /\ Len(file') >= committed /\ Len(file') <= committed + 1
          /\ file' # <<>> /\ Len(file') \in Nat
      BY <1>1, FlushedLines DEF ValidRecords
    <2>3. /\ committed \in Nat /\ committed \in 1 .. Len(file) /\ committed >= 1
          /\ recovery \in BOOLEAN /\ open \in BOOLEAN
      BY <1>1 DEF JournalInv, JournalTypeOK, HandleInv
    <2> USE <1>1, <1>2, <2>1, <2>2, <2>3
    <2>4. JournalTypeOK' BY DEF JournalTypeOK
    <2>5. JournalReloads' BY DEF JournalReloads
    <2>6. HandleInv' BY DEF HandleInv
    <2>7. BufferInv' BY DEF BufferInv
    <2> QED BY <2>4, <2>5, <2>6, <2>7 DEF JournalInv
  <1> QED BY <1>3, <1>4 DEF RepairInterrupted

\* Bytes of another program.
LEMMA TailKeepsInv ==
  ASSUME JournalInv, ExternalTail
  PROVE  JournalInv'
  <1>1. /\ exists' = exists /\ file' = file /\ torn' = TRUE /\ quarantined' = quarantined
        /\ open' = open /\ committed' = committed /\ recovery' = recovery
        /\ residual' = residual
    BY DEF ExternalTail, handle
  <1> USE <1>1 DEF JournalInv
  <1>2. JournalTypeOK' BY DEF JournalTypeOK
  <1>3. JournalReloads' BY DEF JournalReloads
  <1>4. HandleInv' BY DEF HandleInv
  <1>5. BufferInv' BY DEF BufferInv
  <1> QED BY <1>2, <1>3, <1>4, <1>5
------------------------------------------------------------------------------
\* Before create() there is neither a file nor a handle.
LEMMA InitInv == JournalInit => JournalInv
  <1> SUFFICES ASSUME JournalInit PROVE JournalInv
    OBVIOUS
  <1>1. /\ exists = FALSE /\ file = <<>> /\ torn = FALSE /\ quarantined = FALSE
        /\ open = FALSE /\ committed = 0 /\ recovery = FALSE /\ residual = None
    BY DEF JournalInit
  <1>2. JournalTypeOK
    <2>1. file \in Seq(Records) BY <1>1
    <2> QED BY <1>1, <2>1 DEF JournalTypeOK
  <1>3. JournalReloads BY <1>1 DEF JournalReloads
  <1>4. HandleInv BY <1>1 DEF HandleInv
  <1>5. BufferInv BY <1>1 DEF BufferInv
  <1> QED BY <1>2, <1>3, <1>4, <1>5 DEF JournalInv

\* Every step of the journal keeps the invariant, one operation per case.
LEMMA NextKeepsInv ==
  ASSUME JournalInv, [JournalNext]_journalVars
  PROVE  JournalInv'
  <1>1. CASE \E out \in Outcomes : CreateJournal(out)
    BY <1>1, CreateKeepsInv
  <1>2. CASE \E out \in Outcomes : \E to \in States : RecordTransition(to, out)
    BY <1>2, TransitionKeepsInv
  <1>3. CASE \E out \in Outcomes : \E item \in Items : RecordItemRequest(item, out)
    BY <1>3, ItemRequestKeepsInv
  <1>4. CASE \E out \in Outcomes : \E default \in BOOLEAN : RepairTail(default, out)
    BY <1>4, RepairKeepsInv
  <1>5. CASE \E default \in BOOLEAN : RepairInterrupted(default)
    BY <1>5, InterruptedKeepsInv
  <1>6. CASE OpenJournal BY <1>6, OpenKeepsInv
  <1>7. CASE CloseJournal BY <1>7, CloseKeepsInv
  <1>8. CASE KillJournal BY <1>8, KillKeepsInv
  <1>9. CASE ExternalTail BY <1>9, TailKeepsInv
  <1>10. CASE UNCHANGED journalVars BY <1>10, StutterKeepsInv
  <1> QED
    BY <1>1, <1>2, <1>3, <1>4, <1>5, <1>6, <1>7, <1>8, <1>9, <1>10 DEF JournalNext

\* The invariant of the journal, for every mission size and file length.
THEOREM JournalInvariant == JournalSpec => []JournalInv
  <1>1. JournalInit => JournalInv BY InitInv
  <1>2. JournalInv /\ [JournalNext]_journalVars => JournalInv' BY NextKeepsInv
  <1> QED BY <1>1, <1>2, PTL DEF JournalSpec

\* Every file the program can leave behind is one that _load accepts.
THEOREM JournalAlwaysReloads == JournalSpec => []JournalReloads
  <1>1. JournalInv => JournalReloads BY DEF JournalInv
  <1> QED BY <1>1, JournalInvariant, PTL

\* A handle without recovery_required writes behind its own last record only.
THEOREM WritableHandles == JournalSpec => []WritableHandleIsCurrent
  <1>1. JournalInv => WritableHandleIsCurrent
    BY DEF JournalInv, HandleInv, BufferInv, WritableHandleIsCurrent
  <1> QED BY <1>1, JournalInvariant, PTL
------------------------------------------------------------------------------
\* What a step does to the records its handle has committed.
KeepsCommitted ==
  /\ Len(file') >= committed
  /\ \A i \in 1 .. committed : file'[i] = file[i]

\* A write leaves the lines it is behind.
LEMMA WriteKeepsLines ==
  ASSUME NEW f, NEW record, NEW out, WriteReady(f, record), Write(f, record, out)
  PROVE  /\ Len(file') >= Len(f)
         /\ \A i \in 1 .. Len(f) : file'[i] = f[i]
  <1> DEFINE g == Append(f, record)
  <1>1. file' = f \/ file' = g
    BY DEF Write, WriteOk, WriteClockBehind, WriteFails, WriteDies
  <1>2. Len(f) \in Nat /\ Len(g) = Len(f) + 1 /\ \A i \in 1 .. Len(f) : g[i] = f[i]
    BY ValidAppend DEF WriteReady
  <1> HIDE DEF g
  <1>3. CASE file' = f BY <1>2, <1>3
  <1>4. CASE file' = g BY <1>2, <1>4
  <1> QED BY <1>1, <1>3, <1>4

\* A step that leaves the file alone keeps the committed records.
LEMMA UnchangedKeeps ==
  ASSUME JournalInv, file' = file
  PROVE  KeepsCommitted
  <1>1. file \in Seq(Records) /\ Len(file) \in Nat /\ committed \in Nat
    BY DEF JournalInv, JournalTypeOK
  <1>2. Len(file) >= committed
    BY <1>1 DEF JournalInv, HandleInv
  <1> QED BY <1>1, <1>2 DEF KeepsCommitted

\* _append keeps the committed records.
LEMMA AppendKeeps ==
  ASSUME JournalInv, open,
         NEW record \in Records, ValidEvent(file[committed], record),
         NEW out, AppendRecord(record, out)
  PROVE  KeepsCommitted
  <1>1. CASE Len(file) = committed /\ Write(file, record, out)
    <2>1. WriteReady(file, record)
      BY <1>1, OpenHandle DEF WriteReady
    <2> QED BY <1>1, <2>1, WriteKeepsLines DEF KeepsCommitted
  <1>2. CASE file' = file
    BY <1>2, UnchangedKeeps
  <1> QED BY <1>1, <1>2 DEF AppendRecord

\* record_transition keeps the committed records.
LEMMA TransitionKeeps ==
  ASSUME JournalInv, NEW to \in States, NEW out, RecordTransition(to, out)
  PROVE  KeepsCommitted
  <1>1. CASE to \in StateTransitions[JournalState]
    <2>1. Transition(to) \in Records /\ open /\ AppendRecord(Transition(to), out)
      BY <1>1 DEF Records, RecordTransition
    <2>2. ValidEvent(file[committed], Transition(to))
      BY <1>1 DEF ValidEvent, Transition, Event, JournalState
    <2> QED BY <2>1, <2>2, AppendKeeps
  <1>2. CASE to \notin StateTransitions[JournalState]
    BY <1>2, UnchangedKeeps DEF RecordTransition, journalVars
  <1> QED BY <1>1, <1>2

\* record_item_request keeps the committed records.
LEMMA ItemRequestKeeps ==
  ASSUME JournalInv, NEW item \in Items, NEW out, RecordItemRequest(item, out)
  PROVE  KeepsCommitted
  <1>1. CASE JournalState = "uploading"
    <2>1. ItemRequest(item) \in Records /\ open /\ AppendRecord(ItemRequest(item), out)
      BY <1>1 DEF Records, RecordItemRequest
    <2>2. ValidEvent(file[committed], ItemRequest(item))
      BY <1>1 DEF ValidEvent, ItemRequest, Event, JournalState
    <2> QED BY <2>1, <2>2, AppendKeeps
  <1>2. CASE JournalState # "uploading"
    BY <1>2, UnchangedKeeps DEF RecordItemRequest, journalVars
  <1> QED BY <1>1, <1>2

\* A repair truncates behind the committed records only.
LEMMA RepairKeeps ==
  ASSUME JournalInv, NEW default \in BOOLEAN, NEW out, RepairTail(default, out)
  PROVE  KeepsCommitted
  <1> DEFINE prefix == SubSeq(file, 1, committed)
             record == Acknowledgement(JournalState)
  <1>1. open /\ Write(prefix, record, out)
    BY DEF RepairTail, RepairAllowed
  <1>2. /\ prefix \in Seq(Records) /\ ValidRecords(prefix) /\ Len(prefix) = committed
        /\ prefix[committed] = file[committed]
    BY <1>1, OpenHandle, ValidPrefix
  <1>3. WriteReady(prefix, record)
    <2>1. record \in Records
      BY <1>1, OpenHandle DEF Records
    <2>2. ValidEvent(prefix[Len(prefix)], record)
      BY <1>2 DEF ValidEvent, Acknowledgement, Event, JournalState
    <2> QED BY <1>2, <2>1, <2>2 DEF WriteReady
  <1>4. \A i \in 1 .. committed : prefix[i] = file[i]
    BY <1>1, OpenHandle
  <1> HIDE DEF prefix, record
  <1>5. Len(file') >= committed /\ \A i \in 1 .. committed : file'[i] = prefix[i]
    BY <1>1, <1>2, <1>3, WriteKeepsLines
  <1> QED BY <1>4, <1>5 DEF KeepsCommitted

\* No step of the journal changes a committed record.
LEMMA NextKeeps ==
  ASSUME JournalInv, [JournalNext]_journalVars
  PROVE  KeepsCommitted
  <1>1. CASE \E out \in Outcomes : CreateJournal(out)
    <2>1. committed = 0
      BY <1>1 DEF CreateJournal, JournalInv, HandleInv
    <2>2. file' \in Seq(Records)
      BY <1>1, NextKeepsInv DEF JournalInv, JournalTypeOK
    <2> QED BY <2>1, <2>2 DEF KeepsCommitted
  <1>2. CASE \E out \in Outcomes : \E to \in States : RecordTransition(to, out)
    BY <1>2, TransitionKeeps
  <1>3. CASE \E out \in Outcomes : \E item \in Items : RecordItemRequest(item, out)
    BY <1>3, ItemRequestKeeps
  <1>4. CASE \E out \in Outcomes : \E default \in BOOLEAN : RepairTail(default, out)
    BY <1>4, RepairKeeps
  <1>5. CASE (\E default \in BOOLEAN : RepairInterrupted(default)) \/ CloseJournal
    <2>1. open /\ FlushResidual
      BY <1>5 DEF RepairInterrupted, RepairAllowed, CloseJournal
    <2> QED BY <2>1, FlushedLines DEF KeepsCommitted
  <1>6. CASE OpenJournal \/ KillJournal \/ ExternalTail \/ UNCHANGED journalVars
    <2>1. file' = file
      BY <1>6 DEF OpenJournal, KillJournal, ExternalTail, disk, journalVars
    <2> QED BY <2>1, UnchangedKeeps
  <1> QED
    BY <1>1, <1>2, <1>3, <1>4, <1>5, <1>6 DEF JournalNext

\* No step of the program, a repair included, changes a committed record.
THEOREM CommittedRecords == JournalSpec => CommittedRecordsKept
  <1>1. JournalInv /\ [JournalNext]_journalVars
          => [/\ Len(file') >= committed
              /\ \A i \in 1 .. committed : file'[i] = file[i]]_journalVars
    BY NextKeeps DEF KeepsCommitted
  <1> QED BY <1>1, JournalInvariant, PTL DEF JournalSpec, CommittedRecordsKept
------------------------------------------------------------------------------
(***************************************************************************)
(* The journaled transaction.                                              *)
(***************************************************************************)
\* The object in memory is in step with the journal or one step ahead of it.
InStep ==
  \/ txState = JournalState
  \/ txState = "denied"
  \/ txState \in StateTransitions[JournalState]

AdapterInv == attached => open /\ InStep

\* An issued permit is behind the point where any restart resumes.
PermitInv == issued => file # <<>> /\ Checkpoint = "start_permitted"

PersistentInv ==
  /\ JournalInv
  /\ TxTypeOK
  /\ attached \in BOOLEAN
  /\ issued \in BOOLEAN
  /\ AdapterInv
  /\ PermitInv
------------------------------------------------------------------------------
\* A valid event leads to the state before it or to one the table allows.
LEMMA EventMoves ==
  ASSUME NEW previous, NEW record, ValidEvent(previous, record)
  PROVE  record.to = previous.to \/ record.to \in StateTransitions[previous.to]
  BY DEF ValidEvent

\* A call that records a transition either refuses, and the handle stays where
\* it was, or it makes exactly that transition; "ok" is only the latter.
LEMMA TransitionOutcome ==
  ASSUME JournalInv, NEW to \in States, NEW out, out # "died",
         RecordTransition(to, out)
  PROVE  /\ open'
         /\ \/ JournalState' = JournalState
            \/ JournalState' = to /\ to \in StateTransitions[JournalState]
         /\ out = "ok" => JournalState' = to /\ to \in StateTransitions[JournalState]
  <1>1. open /\ committed \in 1 .. Len(file) /\ file \in Seq(Records) /\ committed \in Nat
    BY OpenHandle DEF RecordTransition, JournalInv, JournalTypeOK
  <1>2. KeepsCommitted
    BY TransitionKeeps
  <1>3. CASE to \notin StateTransitions[JournalState]
    <2>1. out = "refused" /\ open' = open /\ file' = file /\ committed' = committed
      BY <1>3 DEF RecordTransition, journalVars
    <2> QED BY <1>1, <2>1 DEF JournalState
  <1>4. CASE to \in StateTransitions[JournalState]
    <2>1. AppendRecord(Transition(to), out)
      BY <1>4 DEF RecordTransition
    <2>2. CASE out = "refused" /\ UNCHANGED <<file, torn, open, committed, residual>>
      BY <1>1, <2>2 DEF JournalState
    <2>3. CASE Len(file) = committed /\ WriteOk(file, Transition(to))
      <3>1. /\ file' = Append(file, Transition(to)) /\ committed' = Len(file) + 1
            /\ open' = TRUE
        BY <2>3 DEF WriteOk
      <3>2. file'[committed'] = Transition(to)
        BY <1>1, <3>1 DEF Transition, Event
      <3>3. JournalState' = to
        BY <3>2 DEF JournalState, Transition, Event
      <3> QED BY <1>4, <3>1, <3>3
    <2>4. CASE /\ out # "ok" /\ Len(file) = committed
               /\ WriteClockBehind(file) \/ WriteFails(file, Transition(to))
      <3>1. committed' = committed /\ open' = TRUE
        BY <2>4 DEF WriteClockBehind, WriteFails
      <3>2. file'[committed] = file[committed]
        BY <1>1, <1>2 DEF KeepsCommitted
      <3>3. JournalState' = JournalState
        BY <3>1, <3>2 DEF JournalState
      <3> QED BY <2>4, <3>1, <3>3
    <2> QED BY <2>1, <2>2, <2>3, <2>4 DEF AppendRecord, Write
  <1> QED BY <1>3, <1>4

\* The same for an item request: the handle's state does not move.
LEMMA ItemRequestOutcome ==
  ASSUME JournalInv, NEW item \in Items, NEW out, out # "died",
         RecordItemRequest(item, out)
  PROVE  open' /\ JournalState' = JournalState
  <1>1. open /\ committed \in 1 .. Len(file) /\ file \in Seq(Records) /\ committed \in Nat
    BY OpenHandle DEF RecordItemRequest, JournalInv, JournalTypeOK
  <1>2. file'[committed] = file[committed]
    BY <1>1, ItemRequestKeeps DEF KeepsCommitted
  <1>3. CASE open' = open /\ committed' = committed
    BY <1>1, <1>2, <1>3 DEF JournalState
  <1>4. CASE /\ JournalState = "uploading"
             /\ Len(file) = committed
             /\ WriteOk(file, ItemRequest(item))
    <2>1. /\ file' = Append(file, ItemRequest(item)) /\ committed' = Len(file) + 1
          /\ open' = TRUE
      BY <1>4 DEF WriteOk
    <2>2. file'[committed'] = ItemRequest(item)
      BY <1>1, <2>1 DEF ItemRequest, Event
    <2> QED BY <1>4, <2>1, <2>2 DEF JournalState, ItemRequest, Event
  <1>5. CASE /\ Len(file) = committed
             /\ WriteClockBehind(file) \/ WriteFails(file, ItemRequest(item))
    <2>1. committed' = committed /\ open' = TRUE
      BY <1>5 DEF WriteClockBehind, WriteFails
    <2> QED BY <1>2, <2>1 DEF JournalState
  <1> QED
    BY <1>1, <1>3, <1>4, <1>5 DEF RecordItemRequest, AppendRecord, Write, journalVars

\* A repair that leaves a handle leaves it where it was.
LEMMA RepairOutcome ==
  ASSUME JournalInv, NEW default \in BOOLEAN, NEW out, RepairTail(default, out), open'
  PROVE  JournalState' = JournalState
  <1> DEFINE prefix == SubSeq(file, 1, committed)
             record == Acknowledgement(JournalState)
  <1>1. open /\ Write(prefix, record, out)
    BY DEF RepairTail, RepairAllowed
  <1>2. /\ prefix \in Seq(Records) /\ Len(prefix) = committed
        /\ committed \in Nat /\ committed \in 1 .. Len(file)
    BY <1>1, OpenHandle, ValidPrefix
  <1>3. record.to = JournalState
    BY DEF Acknowledgement, Event
  <1>4. file'[committed] = file[committed]
    BY <1>2, RepairKeeps DEF KeepsCommitted
  <1> HIDE DEF prefix, record
  <1>5. CASE WriteOk(prefix, record)
    <2>1. file' = Append(prefix, record) /\ committed' = committed + 1
      BY <1>2, <1>5 DEF WriteOk
    <2>2. file'[committed'] = record
      BY <1>2, <2>1
    <2>3. JournalState' = record.to
      BY <2>2 DEF JournalState
    <2> QED BY <1>3, <2>3
  <1>6. CASE WriteClockBehind(prefix) \/ WriteFails(prefix, record)
    <2>1. committed' = committed
      BY <1>2, <1>6 DEF WriteClockBehind, WriteFails
    <2> QED BY <1>4, <2>1 DEF JournalState
  <1>7. ~WriteDies(prefix, record)
    BY DEF WriteDies, ForgetHandle
  <1> QED BY <1>1, <1>5, <1>6, <1>7 DEF Write
------------------------------------------------------------------------------
\* Every step of the composition is a step of the journal, or none.
LEMMA StepsOfTheJournal ==
  ASSUME [Next]_vars
  PROVE  [JournalNext]_journalVars
  <1>1. ASSUME NEW out \in Outcomes, RecordResult(out), txState' \in States
        PROVE  JournalNext
    BY <1>1 DEF RecordResult, JournalNext, States
  <1>2. ASSUME NEW holds, NEW to \in States, AdvanceOrDeny(holds, to)
        PROVE  txState' \in States
    BY <1>2 DEF AdvanceOrDeny, States
  <1>3. \A s \in {"uploading", "uploaded", "readback_verified", "committed",
                   "start_permitted", "denied"} : s \in States
    BY DEF States
  <1>4. ASSUME NEW out \in Outcomes, BeginUpload(out) PROVE JournalNext
    BY <1>1, <1>2, <1>3, <1>4 DEF BeginUpload, TxBeginUpload
  <1>5. ASSUME NEW out \in Outcomes, NEW item \in Items, NEW legacy \in BOOLEAN,
               MissionItemForRequest(item, legacy, out)
        PROVE  JournalNext
    <2>1. CASE RecordItemRequest(item, out)
      BY <2>1 DEF JournalNext
    <2>2. CASE txState' = "denied" /\ RecordResult(out)
      BY <1>1, <1>3, <2>2
    <2> QED BY <1>5, <2>1, <2>2 DEF MissionItemForRequest
  <1>6. ASSUME NEW out \in Outcomes, NEW accepted \in BOOLEAN, AcceptUploadAck(accepted, out)
        PROVE  JournalNext
    BY <1>1, <1>2, <1>3, <1>6 DEF AcceptUploadAck, TxAcceptUploadAck
  <1>7. ASSUME NEW out \in Outcomes, NEW matches \in BOOLEAN, VerifyReadback(matches, out)
        PROVE  JournalNext
    BY <1>1, <1>2, <1>3, <1>7 DEF VerifyReadback, TxVerifyReadback
  <1>8. ASSUME NEW out \in Outcomes, Commit(out) PROVE JournalNext
    BY <1>1, <1>2, <1>3, <1>8 DEF Commit, TxCommit
  <1>9. ASSUME NEW out \in Outcomes, PermitStart(out) PROVE JournalNext
    BY <1>1, <1>2, <1>3, <1>9 DEF PermitStart, TxPermitStart
  <1>10. CASE StartPermitFromCheckpoint
    BY <1>10 DEF StartPermitFromCheckpoint
  <1>11. CASE Attach
    BY <1>11 DEF Attach
  <1>12. CASE JournalStep /\ UNCHANGED <<txVars, issued>>
    BY <1>12 DEF JournalStep, JournalNext
  <1>13. CASE GrantExpires /\ UNCHANGED <<journalVars, attached, issued>>
    BY <1>13
  <1>14. CASE UNCHANGED vars
    BY <1>14 DEF vars, journalVars
  <1>15. CASE Next
    BY <1>4, <1>5, <1>6, <1>7, <1>8, <1>9, <1>10, <1>11, <1>12, <1>13, <1>15 DEF Next
  <1> QED BY <1>14, <1>15

\* What a file without records, or with a header, resumes at.
LEMMA CheckpointType ==
  ASSUME JournalInv
  PROVE  Checkpoint \in States
  <1>1. CASE open
    BY <1>1, OpenHandle DEF Checkpoint, JournalState
  <1>2. CASE ~open /\ file = <<>>
    BY <1>2 DEF Checkpoint, States
  <1>3. CASE ~open /\ file # <<>>
    <2>1. file \in Seq(Records) /\ Len(file) \in 1 .. Len(file)
      BY <1>3 DEF JournalInv, JournalTypeOK
    <2>2. file[Len(file)] \in Records
      BY <2>1
    <2> QED BY <1>3, <2>2, RecordStates DEF Checkpoint
  <1> QED BY <1>1, <1>2, <1>3

\* The last line of a file with a handle is the committed one or one event on.
LEMMA LastLine ==
  ASSUME JournalInv, open
  PROVE  \/ file[Len(file)].to = JournalState
         \/ file[Len(file)].to \in StateTransitions[JournalState]
  <1>1. /\ committed \in 1 .. Len(file) /\ Len(file) <= committed + 1
        /\ Len(file) \in Nat /\ committed \in Nat
    BY DEF JournalInv, HandleInv, JournalTypeOK
  <1>2. ValidRecords(file)
    BY OpenHandle
  <1>3. CASE Len(file) = committed
    BY <1>3 DEF JournalState
  <1>4. CASE Len(file) = committed + 1
    <2>1. ValidEvent(file[committed], file[Len(file)])
      BY <1>1, <1>2, <1>4 DEF ValidRecords
    <2> QED BY <2>1, EventMoves DEF JournalState
  <1> QED BY <1>1, <1>3, <1>4

CheckpointMoves ==
  \/ Checkpoint' = Checkpoint
  \/ Checkpoint' \in StateTransitions[Checkpoint]

\* A step that ends with the handle gone leaves what the last line says, if the
\* file has at most one line more than the handle knew.
LEMMA HandleGone ==
  ASSUME JournalInv, JournalInv', KeepsCommitted, open, ~open',
         Len(file') <= committed + 1
  PROVE  CheckpointMoves
  <1>0. committed \in 1 .. Len(file) /\ committed \in Nat
    BY OpenHandle DEF JournalInv, JournalTypeOK
  <1>1. file' \in Seq(Records) /\ Len(file') \in Nat /\ committed >= 1 /\ committed \in Nat
    BY <1>0 DEF JournalInv, JournalTypeOK
  <1>2. Len(file') >= committed /\ file'[committed] = file[committed] /\ file' # <<>>
    BY <1>1 DEF KeepsCommitted
  <1>3. Checkpoint' = file'[Len(file')].to /\ Checkpoint = file[committed].to
    BY <1>2 DEF Checkpoint
  <1>4. CASE Len(file') = committed
    BY <1>2, <1>3, <1>4 DEF CheckpointMoves
  <1>5. CASE Len(file') = committed + 1
    <2>1. ValidRecords(file')
      BY <1>2 DEF JournalInv, JournalReloads
    <2>2. ValidEvent(file'[committed], file'[Len(file')])
      BY <1>1, <1>5, <2>1 DEF ValidRecords
    <2> QED BY <1>2, <1>3, <2>2, EventMoves DEF CheckpointMoves
  <1> QED BY <1>1, <1>2, <1>4, <1>5

\* A write whose process dies adds at most one line to the lines before it.
LEMMA DyingWrite ==
  ASSUME NEW f, NEW record, NEW out, WriteReady(f, record),
         Write(f, record, out), ~open'
  PROVE  Len(file') <= Len(f) + 1
  <1>1. file' = f \/ file' = Append(f, record)
    BY DEF Write, WriteOk, WriteClockBehind, WriteFails, WriteDies
  <1>2. Len(f) \in Nat /\ Len(Append(f, record)) = Len(f) + 1
    BY ValidAppend DEF WriteReady
  <1> QED BY <1>1, <1>2

\* A record call ends without a handle only when its process dies.
LEMMA HandleSurvives ==
  ASSUME NEW record, NEW out, open, AppendRecord(record, out), out = "died"
  PROVE  Len(file) = committed /\ Write(file, record, out) /\ ~open'
  BY DEF AppendRecord, Write, WriteOk, WriteClockBehind, WriteFails, WriteDies, ForgetHandle

\* A process that dies within _append leaves its record or the one before it as
\* the last line.
LEMMA AppendDies ==
  ASSUME JournalInv, open, NEW out, out = "died",
         NEW record \in Records, ValidEvent(file[committed], record),
         AppendRecord(record, out)
  PROVE  CheckpointMoves
  <1>1. Len(file) = committed /\ Write(file, record, out) /\ ~open'
    BY HandleSurvives
  <1>2. WriteReady(file, record)
    BY <1>1, OpenHandle DEF WriteReady
  <1>3. Len(file') <= committed + 1
    BY <1>1, <1>2, DyingWrite
  <1>4. JournalInv' /\ KeepsCommitted
    BY AppendKeepsInv, AppendKeeps
  <1> QED BY <1>1, <1>3, <1>4, HandleGone

\* record_transition moves the checkpoint along the table.
LEMMA TransitionMoves ==
  ASSUME JournalInv, NEW to \in States, NEW out, RecordTransition(to, out)
  PROVE  CheckpointMoves
  <1>1. open
    BY DEF RecordTransition
  <1>2. CASE out # "died"
    BY <1>1, <1>2, TransitionOutcome DEF CheckpointMoves, Checkpoint, JournalState
  <1>3. CASE out = "died"
    <2>1. /\ to \in StateTransitions[JournalState]
          /\ AppendRecord(Transition(to), out)
          /\ Transition(to) \in Records
      BY <1>3 DEF RecordTransition, Records
    <2>2. ValidEvent(file[committed], Transition(to))
      BY <2>1 DEF ValidEvent, Transition, Event, JournalState
    <2> QED BY <1>1, <1>3, <2>1, <2>2, AppendDies
  <1> QED BY <1>2, <1>3

\* record_item_request leaves the checkpoint in "uploading".
LEMMA ItemRequestMoves ==
  ASSUME JournalInv, NEW item \in Items, NEW out, RecordItemRequest(item, out)
  PROVE  CheckpointMoves
  <1>1. open
    BY DEF RecordItemRequest
  <1>2. CASE out # "died"
    BY <1>1, <1>2, ItemRequestOutcome DEF CheckpointMoves, Checkpoint, JournalState
  <1>3. CASE out = "died"
    <2>1. /\ JournalState = "uploading"
          /\ AppendRecord(ItemRequest(item), out)
          /\ ItemRequest(item) \in Records
      BY <1>3 DEF RecordItemRequest, Records
    <2>2. ValidEvent(file[committed], ItemRequest(item))
      BY <2>1 DEF ValidEvent, ItemRequest, Event, JournalState
    <2> QED BY <1>1, <1>3, <2>1, <2>2, AppendDies
  <1> QED BY <1>2, <1>3

\* A repair leaves the checkpoint where the committed prefix ends.
LEMMA RepairMoves ==
  ASSUME JournalInv, NEW default \in BOOLEAN, NEW out, RepairTail(default, out)
  PROVE  CheckpointMoves
  <1> DEFINE prefix == SubSeq(file, 1, committed)
             record == Acknowledgement(JournalState)
  <1>1. open /\ Write(prefix, record, out)
    BY DEF RepairTail, RepairAllowed
  <1>2. CASE open'
    BY <1>1, <1>2, RepairOutcome DEF CheckpointMoves, Checkpoint, JournalState
  <1>3. CASE ~open'
    <2>1. /\ prefix \in Seq(Records) /\ ValidRecords(prefix) /\ Len(prefix) = committed
          /\ prefix[committed] = file[committed]
      BY <1>1, OpenHandle, ValidPrefix
    <2>2. WriteReady(prefix, record)
      <3>1. record \in Records
        BY <1>1, OpenHandle DEF Records
      <3>2. ValidEvent(prefix[Len(prefix)], record)
        BY <2>1 DEF ValidEvent, Acknowledgement, Event, JournalState
      <3> QED BY <2>1, <3>1, <3>2 DEF WriteReady
    <2> HIDE DEF prefix, record
    <2>3. Len(file') <= committed + 1
      BY <1>1, <1>3, <2>1, <2>2, DyingWrite
    <2>4. JournalInv' /\ KeepsCommitted
      BY RepairKeepsInv, RepairKeeps
    <2> QED BY <1>1, <1>3, <2>3, <2>4, HandleGone
  <1> QED BY <1>2, <1>3

\* A late flush moves the checkpoint by the buffered event at most.
LEMMA FlushMoves ==
  ASSUME JournalInv, JournalInv', open, FlushResidual,
         ForgetHandle \/ UNCHANGED <<open, committed>>
  PROVE  CheckpointMoves
  <1>1. KeepsCommitted /\ Len(file') <= committed + 1
    BY FlushedLines DEF KeepsCommitted
  <1>2. CASE ForgetHandle
    <2>1. ~open'
      BY <1>2 DEF ForgetHandle
    <2> QED BY <1>1, <2>1, HandleGone
  <1>3. CASE UNCHANGED <<open, committed>>
    <2>1. committed \in 1 .. committed
      BY OpenHandle
    <2>2. file'[committed'] = file[committed] /\ open'
      BY <1>1, <1>3, <2>1 DEF KeepsCommitted
    <2> QED BY <2>2 DEF CheckpointMoves, Checkpoint
  <1> QED BY <1>2, <1>3

\* create() starts at "authorized", also when its process dies.
LEMMA CreateMoves ==
  ASSUME JournalInv, NEW out, CreateJournal(out)
  PROVE  CheckpointMoves
  <1>1. ~open /\ file = <<>>
    BY DEF CreateJournal, JournalInv, HandleInv
  <1>2. Checkpoint = "authorized"
    BY <1>1 DEF Checkpoint
  <1>3. <<Header>>[1].to = "authorized" /\ Len(<<Header>>) = 1 /\ <<Header>> # <<>>
        /\ Append(<<>>, Header) = <<Header>> /\ Len(<<>>) = 0
    BY DEF Header, Event
  <1>4. CASE WriteOk(<<>>, Header)
    <2>1. file' = <<Header>> /\ committed' = 1 /\ open'
      BY <1>3, <1>4 DEF WriteOk
    <2> QED BY <1>2, <1>3, <2>1 DEF CheckpointMoves, Checkpoint
  <1>5. CASE WriteDies(<<>>, Header)
    <2>1. file' \in {<<>>, <<Header>>} /\ ~open'
      BY <1>3, <1>5 DEF WriteDies, ForgetHandle
    <2> QED BY <1>2, <1>3, <2>1 DEF CheckpointMoves, Checkpoint
  <1> QED BY <1>4, <1>5 DEF CreateJournal

\* Where a restart would resume moves along the transition table only.
LEMMA JournalMoves ==
  ASSUME JournalInv, [JournalNext]_journalVars
  PROVE  CheckpointMoves
  <1>0. JournalInv'
    BY NextKeepsInv
  <1>1. CASE \E out \in Outcomes : CreateJournal(out)
    BY <1>1, CreateMoves
  <1>2. CASE \E out \in Outcomes : \E to \in States : RecordTransition(to, out)
    BY <1>2, TransitionMoves
  <1>3. CASE \E out \in Outcomes : \E item \in Items : RecordItemRequest(item, out)
    BY <1>3, ItemRequestMoves
  <1>4. CASE \E out \in Outcomes : \E default \in BOOLEAN : RepairTail(default, out)
    BY <1>4, RepairMoves
  <1>5. CASE \E default \in BOOLEAN : RepairInterrupted(default)
    <2>1. /\ open /\ FlushResidual
          /\ ForgetHandle \/ UNCHANGED <<open, committed>>
      BY <1>5 DEF RepairInterrupted, RepairAllowed
    <2> QED BY <1>0, <2>1, FlushMoves
  <1>6. CASE CloseJournal
    BY <1>0, <1>6, FlushMoves DEF CloseJournal
  <1>7. CASE OpenJournal
    <2>1. ~open /\ open' /\ file' = file /\ committed' = Len(file) /\ file # <<>>
      BY <1>7 DEF OpenJournal, disk, ValidRecords
    <2> QED BY <2>1 DEF CheckpointMoves, Checkpoint
  <1>8. CASE KillJournal
    <2>1. open /\ ~open' /\ file' = file
      BY <1>8 DEF KillJournal, ForgetHandle, disk
    <2>2. KeepsCommitted
      BY <2>1, UnchangedKeeps
    <2>3. Len(file') <= committed + 1
      BY <2>1 DEF JournalInv, HandleInv
    <2> QED BY <1>0, <2>1, <2>2, <2>3, HandleGone
  <1>9. CASE ExternalTail \/ UNCHANGED journalVars
    <2>1. open' = open /\ file' = file /\ committed' = committed
      BY <1>9 DEF ExternalTail, handle, journalVars
    <2> QED BY <2>1 DEF CheckpointMoves, Checkpoint
  <1> QED
    BY <1>1, <1>2, <1>3, <1>4, <1>5, <1>6, <1>7, <1>8, <1>9 DEF JournalNext
------------------------------------------------------------------------------
\* Every call of the adapter but the item request is one guarded stage change
\* that follows the table, recorded in the journal.
StageCall(out) ==
  /\ Synced
  /\ \E holds \in BOOLEAN, to \in States :
       /\ holds => to \in StateTransitions[txState]
       /\ holds => ~expired
       /\ AdvanceOrDeny(holds, to)
  /\ RecordResult(out)
  /\ StayAttached(out)

\* The rows of the transition table the calls rely on.
LEMMA TableRows ==
  /\ "uploading" \in StateTransitions["authorized"]
  /\ "uploaded" \in StateTransitions["uploading"]
  /\ "readback_verified" \in StateTransitions["uploaded"]
  /\ "committed" \in StateTransitions["readback_verified"]
  /\ "start_permitted" \in StateTransitions["committed"]
  /\ StateTransitions["start_permitted"] = {}
  BY DEF StateTransitions, States, Terminal

\* The five stage calls are guarded stage changes, and only permit_start may
\* hand something to its caller.
LEMMA CallsAreStageCalls ==
  ASSUME NEW out, TxTypeOK
  PROVE  /\ BeginUpload(out) => StageCall(out) /\ UNCHANGED issued
         /\ \A accepted \in BOOLEAN :
              AcceptUploadAck(accepted, out) => StageCall(out) /\ UNCHANGED issued
         /\ \A matches \in BOOLEAN :
              VerifyReadback(matches, out) => StageCall(out) /\ UNCHANGED issued
         /\ Commit(out) => StageCall(out) /\ UNCHANGED issued
         /\ PermitStart(out) => StageCall(out)
  <1> USE TableRows DEF States
  <1>1. ASSUME BeginUpload(out) PROVE StageCall(out) /\ UNCHANGED issued
    <2> DEFINE holds == txState = "authorized" /\ ~expired
    <2>1. holds \in BOOLEAN /\ AdvanceOrDeny(holds, "uploading")
      BY <1>1 DEF BeginUpload, TxBeginUpload
    <2>2. (holds => ~expired) /\ (holds => "uploading" \in StateTransitions[txState])
      OBVIOUS
    <2> HIDE DEF holds
    <2> QED BY <1>1, <2>1, <2>2 DEF BeginUpload, StageCall
  <1>2. ASSUME NEW accepted \in BOOLEAN, AcceptUploadAck(accepted, out)
        PROVE  StageCall(out) /\ UNCHANGED issued
    <2> DEFINE holds == /\ txState = "uploading"
                        /\ ~expired
                        /\ requested = Items
                        /\ accepted
    <2>1. holds \in BOOLEAN /\ AdvanceOrDeny(holds, "uploaded")
      BY <1>2 DEF AcceptUploadAck, TxAcceptUploadAck
    <2>2. (holds => ~expired) /\ (holds => "uploaded" \in StateTransitions[txState])
      OBVIOUS
    <2> HIDE DEF holds
    <2> QED BY <1>2, <2>1, <2>2 DEF AcceptUploadAck, StageCall
  <1>3. ASSUME NEW matches \in BOOLEAN, VerifyReadback(matches, out)
        PROVE  StageCall(out) /\ UNCHANGED issued
    <2> DEFINE holds == txState = "uploaded" /\ ~expired /\ matches
    <2>1. holds \in BOOLEAN /\ AdvanceOrDeny(holds, "readback_verified")
      BY <1>3 DEF VerifyReadback, TxVerifyReadback
    <2>2. (holds => ~expired) /\ (holds => "readback_verified" \in StateTransitions[txState])
      OBVIOUS
    <2> HIDE DEF holds
    <2> QED BY <1>3, <2>1, <2>2 DEF VerifyReadback, StageCall
  <1>4. ASSUME Commit(out) PROVE StageCall(out) /\ UNCHANGED issued
    <2> DEFINE holds == txState = "readback_verified" /\ ~expired
    <2>1. holds \in BOOLEAN /\ AdvanceOrDeny(holds, "committed")
      BY <1>4 DEF Commit, TxCommit
    <2>2. (holds => ~expired) /\ (holds => "committed" \in StateTransitions[txState])
      OBVIOUS
    <2> HIDE DEF holds
    <2> QED BY <1>4, <2>1, <2>2 DEF Commit, StageCall
  <1>5. ASSUME PermitStart(out) PROVE StageCall(out)
    <2> DEFINE holds == txState = "committed" /\ ~expired
    <2>1. holds \in BOOLEAN /\ AdvanceOrDeny(holds, "start_permitted")
      BY <1>5 DEF PermitStart, TxPermitStart
    <2>2. (holds => ~expired) /\ (holds => "start_permitted" \in StateTransitions[txState])
      OBVIOUS
    <2> HIDE DEF holds
    <2> QED BY <1>5, <2>1, <2>2 DEF PermitStart, StageCall
  <1> QED BY <1>1, <1>2, <1>3, <1>4, <1>5

\* What a stage call does to memory and journal.
LEMMA StageCallKeeps ==
  ASSUME JournalInv, TxTypeOK, AdapterInv, NEW out, StageCall(out)
  PROVE  /\ TxTypeOK' /\ attached' \in BOOLEAN /\ AdapterInv'
         /\ RecordTransition(txState', out)
  <1>1. PICK holds \in BOOLEAN, to \in States :
          /\ holds => to \in StateTransitions[txState]
          /\ AdvanceOrDeny(holds, to)
    BY DEF StageCall
  <1>2. Synced /\ attached /\ open /\ txState = JournalState
    BY DEF StageCall, Synced, AdapterInv
  <1>3. /\ txState' \in States
        /\ txState' = "denied" \/ txState' \in StateTransitions[txState]
        /\ requested' = requested /\ expired' = expired
    BY <1>1 DEF AdvanceOrDeny, States
  <1>4. RecordTransition(txState', out)
    BY DEF StageCall, RecordResult
  <1>5. attached' = (out # "died")
    BY DEF StageCall, StayAttached
  <1>6. CASE out = "died"
    BY <1>3, <1>4, <1>5, <1>6 DEF TxTypeOK, AdapterInv
  <1>7. CASE out # "died"
    <2>1. /\ open'
          /\ \/ JournalState' = JournalState
             \/ JournalState' = txState' /\ txState' \in StateTransitions[JournalState]
      BY <1>3, <1>4, <1>7, TransitionOutcome
    <2>2. AdapterInv'
      BY <1>2, <1>3, <2>1 DEF AdapterInv, InStep
    <2> QED BY <1>3, <1>4, <1>5, <2>2 DEF TxTypeOK
  <1> QED BY <1>6, <1>7

\* The item request: it is counted, or the transaction is denied.
LEMMA ItemCallKeeps ==
  ASSUME JournalInv, TxTypeOK, AdapterInv,
         NEW item \in Items, NEW legacy \in BOOLEAN, NEW out,
         MissionItemForRequest(item, legacy, out)
  PROVE  TxTypeOK' /\ attached' \in BOOLEAN /\ AdapterInv'
  <1>1. Synced /\ attached /\ open /\ txState = JournalState
    BY DEF MissionItemForRequest, Synced, AdapterInv
  <1>2. attached' = (out # "died")
    BY DEF MissionItemForRequest, StayAttached
  <1>3. CASE txState = "uploading" /\ ~legacy
    <2>1. /\ requested' = requested \union {item} /\ txState' = txState
          /\ expired' = expired
      BY <1>3 DEF MissionItemForRequest, TxItemRequest
    <2>2. RecordItemRequest(item, out)
      BY <1>3, <2>1 DEF MissionItemForRequest
    <2>3. TxTypeOK'
      BY <2>1 DEF TxTypeOK
    <2>4. CASE out # "died"
      <3>1. open' /\ JournalState' = JournalState
        BY <2>2, <2>4, ItemRequestOutcome
      <3> QED BY <1>1, <1>2, <2>1, <2>3, <3>1 DEF AdapterInv, InStep
    <2>5. CASE out = "died"
      BY <1>2, <2>3, <2>5 DEF AdapterInv
    <2> QED BY <2>4, <2>5
  <1>4. CASE ~(txState = "uploading" /\ ~legacy)
    <2>1. AdvanceOrDeny(FALSE, "uploading") /\ txState' = "denied"
      BY <1>4 DEF MissionItemForRequest, TxItemRequest, AdvanceOrDeny
    <2>2. StageCall(out)
      <3>1. "uploading" \in States /\ FALSE \in BOOLEAN
        BY DEF States
      <3> QED BY <2>1, <3>1 DEF StageCall, MissionItemForRequest
    <2> QED BY <2>2, StageCallKeeps
  <1> QED BY <1>3, <1>4

\* Steps of the journal that no adapter drives.
LEMMA JournalStepKeeps ==
  ASSUME JournalInv, TxTypeOK, attached \in BOOLEAN, AdapterInv,
         JournalStep, UNCHANGED <<txVars, issued>>
  PROVE  TxTypeOK' /\ attached' \in BOOLEAN /\ AdapterInv'
  <1>1. TxTypeOK' /\ txState' = txState
    BY DEF TxTypeOK, txVars
  <1>2. CASE attached' = FALSE
    BY <1>1, <1>2 DEF AdapterInv
  <1>3. ASSUME NEW default \in BOOLEAN, NEW out \in Outcomes, RepairTail(default, out),
               attached' = (attached /\ open')
        PROVE  attached' \in BOOLEAN /\ AdapterInv'
    <2>1. CASE attached /\ open'
      <3>1. JournalState' = JournalState
        BY <1>3, <2>1, RepairOutcome
      <3> QED BY <1>1, <1>3, <2>1, <3>1 DEF AdapterInv, InStep
    <2>2. CASE ~(attached /\ open')
      BY <1>3, <2>2 DEF AdapterInv
    <2> QED BY <2>1, <2>2
  <1>4. ASSUME NEW default \in BOOLEAN, RepairInterrupted(default),
               attached' = (attached /\ open')
        PROVE  attached' \in BOOLEAN /\ AdapterInv'
    <2>1. CASE attached /\ open'
      <3>1. open /\ FlushResidual /\ committed' = committed
        BY <1>4, <2>1 DEF RepairInterrupted, RepairAllowed, ForgetHandle
      <3>2. committed \in 1 .. committed
        BY <3>1, OpenHandle
      <3>3. file'[committed] = file[committed]
        BY <3>1, <3>2, FlushedLines
      <3>4. JournalState' = JournalState
        BY <3>1, <3>3 DEF JournalState
      <3> QED BY <1>1, <1>4, <2>1, <3>4 DEF AdapterInv, InStep
    <2>2. CASE ~(attached /\ open')
      BY <1>4, <2>2 DEF AdapterInv
    <2> QED BY <2>1, <2>2
  <1>5. CASE ExternalTail /\ attached' = attached
    <2>1. open' = open /\ file' = file /\ committed' = committed
      BY <1>5 DEF ExternalTail, handle
    <2>2. JournalState' = JournalState
      BY <2>1 DEF JournalState
    <2> QED BY <1>1, <1>5, <2>1, <2>2 DEF AdapterInv, InStep
  <1> QED BY <1>1, <1>2, <1>3, <1>4, <1>5 DEF JournalStep

\* The item requests a journal holds name items of the plan.
LEMMA RequestedItems ==
  ASSUME JournalInv, open
  PROVE  JournalRequested \subseteq Items
  <1>1. file \in Seq(Records) /\ committed \in 1 .. Len(file)
    BY OpenHandle
  <1>2. ASSUME NEW r \in Records, r.event = "mission_item_requested"
        PROVE  r.item \in Items
    BY <1>2 DEF Records, Header, Transition, ItemRequest, Acknowledgement, Event
  <1>3. ASSUME NEW j \in 1 .. committed, file[j].event = "mission_item_requested"
        PROVE  file[j].item \in Items
    <2>1. file[j] \in Records
      BY <1>1
    <2> QED BY <1>2, <1>3, <2>1
  <1> QED BY <1>3 DEF JournalRequested

\* A new adapter starts in step.
LEMMA AttachKeeps ==
  ASSUME JournalInv, TxTypeOK, Attach
  PROVE  TxTypeOK' /\ attached' \in BOOLEAN /\ AdapterInv'
  <1>1. /\ open /\ txState' = JournalState /\ expired' = expired /\ attached' = TRUE
        /\ open' = open /\ file' = file /\ committed' = committed
    BY DEF Attach, journalVars
  <1>2. requested' \subseteq Items
    BY <1>1, RequestedItems DEF Attach
  <1>3. TxTypeOK'
    BY <1>1, <1>2, OpenHandle DEF TxTypeOK
  <1>4. JournalState' = JournalState
    BY <1>1 DEF JournalState
  <1> QED BY <1>1, <1>3, <1>4 DEF AdapterInv, InStep

\* A step that leaves object, journal and adapter alone keeps their relation.
LEMMA UntouchedKeeps ==
  ASSUME TxTypeOK, attached \in BOOLEAN, AdapterInv,
         UNCHANGED <<txState, requested, journalVars, attached>>, expired' \in BOOLEAN
  PROVE  TxTypeOK' /\ attached' \in BOOLEAN /\ AdapterInv'
  <1>1. /\ txState' = txState /\ requested' = requested /\ attached' = attached
        /\ open' = open /\ file' = file /\ committed' = committed
    BY DEF journalVars
  <1>2. JournalState' = JournalState
    BY <1>1 DEF JournalState
  <1> QED BY <1>1, <1>2 DEF TxTypeOK, AdapterInv, InStep

\* Every step of the composition keeps types and the relation of the adapter to
\* its journal.
LEMMA NextKeepsAdapter ==
  ASSUME PersistentInv, [Next]_vars
  PROVE  TxTypeOK' /\ attached' \in BOOLEAN /\ AdapterInv'
  <1> USE DEF PersistentInv
  <1>1. ASSUME NEW out \in Outcomes,
               \/ BeginUpload(out)
               \/ \E accepted \in BOOLEAN : AcceptUploadAck(accepted, out)
               \/ \E matches \in BOOLEAN : VerifyReadback(matches, out)
               \/ Commit(out)
               \/ PermitStart(out)
        PROVE  TxTypeOK' /\ attached' \in BOOLEAN /\ AdapterInv'
    <2>1. StageCall(out)
      BY <1>1, CallsAreStageCalls
    <2> QED BY <2>1, StageCallKeeps
  <1>2. ASSUME NEW out \in Outcomes, NEW item \in Items, NEW legacy \in BOOLEAN,
               MissionItemForRequest(item, legacy, out)
        PROVE  TxTypeOK' /\ attached' \in BOOLEAN /\ AdapterInv'
    BY <1>2, ItemCallKeeps
  <1>3. CASE StartPermitFromCheckpoint
    <2>1. /\ UNCHANGED <<txState, requested, journalVars, attached>>
          /\ expired' \in BOOLEAN
      BY <1>3 DEF StartPermitFromCheckpoint, txVars, TxTypeOK
    <2> QED BY <2>1, UntouchedKeeps
  <1>4. CASE Attach
    BY <1>4, AttachKeeps
  <1>5. CASE JournalStep /\ UNCHANGED <<txVars, issued>>
    BY <1>5, JournalStepKeeps
  <1>6. CASE GrantExpires /\ UNCHANGED <<journalVars, attached, issued>>
    BY <1>6, UntouchedKeeps DEF GrantExpires
  <1>7. CASE UNCHANGED vars
    <2>1. /\ UNCHANGED <<txState, requested, journalVars, attached>>
          /\ expired' \in BOOLEAN
      BY <1>7 DEF vars, journalVars, TxTypeOK
    <2> QED BY <2>1, UntouchedKeeps
  <1> QED BY <1>1, <1>2, <1>3, <1>4, <1>5, <1>6, <1>7 DEF Next
------------------------------------------------------------------------------
\* A file that holds a record never becomes empty.
LEMMA FileStays ==
  ASSUME JournalInv, [JournalNext]_journalVars, file # <<>>
  PROVE  file' # <<>>
  <1>0. file \in Seq(Records) /\ file' \in Seq(Records)
    BY NextKeepsInv DEF JournalInv, JournalTypeOK
  <1>1. CASE open
    <2>1. committed >= 1 /\ committed \in Nat
      BY <1>1 DEF JournalInv, HandleInv, JournalTypeOK
    <2>2. Len(file') >= committed
      BY NextKeeps DEF KeepsCommitted
    <2> QED BY <1>0, <2>1, <2>2
  <1>2. CASE ~open
    <2>1. \A out \in Outcomes : ~CreateJournal(out)
      BY DEF CreateJournal, JournalInv, HandleInv
    <2>2. file' = file
      BY <1>2, <2>1 DEF JournalNext, RecordTransition, RecordItemRequest, RepairTail,
                  RepairInterrupted, RepairAllowed, CloseJournal, KillJournal,
                  OpenJournal, ExternalTail, disk, journalVars
    <2> QED BY <2>2
  <1> QED BY <1>1, <1>2

\* The step that hands out a permit ends at "start_permitted", from there or
\* from the stage before it.
LEMMA PermitStep ==
  ASSUME PersistentInv, [Next]_vars, issued' # issued
  PROVE  /\ issued' = TRUE /\ file' # <<>>
         /\ Checkpoint' = "start_permitted"
         /\ \/ Checkpoint = "start_permitted"
            \/ "start_permitted" \in StateTransitions[Checkpoint]
  <1> USE DEF PersistentInv
  <1>1. JournalInv'
    BY StepsOfTheJournal, NextKeepsInv
  <1>2. ASSUME NEW out \in Outcomes, PermitStart(out)
        PROVE  /\ issued' = TRUE /\ file' # <<>> /\ Checkpoint' = "start_permitted"
               /\ "start_permitted" \in StateTransitions[Checkpoint]
    <2>1. issued' = TRUE /\ out = "ok" /\ txState' = "start_permitted"
      BY <1>2 DEF PermitStart
    <2>2. RecordTransition("start_permitted", out) /\ open
      BY <1>2, <2>1, CallsAreStageCalls, StageCallKeeps DEF RecordTransition
    <2>3. "start_permitted" \in States
      BY DEF States
    <2>4. open' /\ JournalState' = "start_permitted"
          /\ "start_permitted" \in StateTransitions[JournalState]
      BY <2>1, <2>2, <2>3, TransitionOutcome
    <2>5. file' # <<>>
      <3>1. file' \in Seq(Records) /\ committed' \in 1 .. Len(file')
        BY <1>1, <2>4 DEF JournalInv, JournalTypeOK, HandleInv
      <3> QED BY <3>1
    <2> QED BY <2>1, <2>2, <2>4, <2>5 DEF Checkpoint, JournalState
  <1>3. CASE StartPermitFromCheckpoint
    <2>1. /\ issued' = TRUE /\ open /\ JournalState = "start_permitted"
          /\ file' = file /\ open' = open /\ committed' = committed
      BY <1>3 DEF StartPermitFromCheckpoint, Synced, AdapterInv, journalVars
    <2>2. file # <<>>
      BY <2>1, OpenHandle DEF ValidRecords
    <2> QED BY <2>1, <2>2 DEF Checkpoint, JournalState
  <1>4. ASSUME NEW out \in Outcomes,
               \/ BeginUpload(out)
               \/ \E accepted \in BOOLEAN : AcceptUploadAck(accepted, out)
               \/ \E matches \in BOOLEAN : VerifyReadback(matches, out)
               \/ Commit(out)
               \/ \E item \in Items, legacy \in BOOLEAN :
                    MissionItemForRequest(item, legacy, out)
        PROVE  FALSE
    BY <1>4 DEF BeginUpload, AcceptUploadAck, VerifyReadback, Commit, MissionItemForRequest
  <1>5. ~Attach /\ ~(JournalStep /\ UNCHANGED <<txVars, issued>>)
        /\ ~(GrantExpires /\ UNCHANGED <<journalVars, attached, issued>>)
        /\ ~UNCHANGED vars
    BY DEF Attach, vars
  <1> QED BY <1>2, <1>3, <1>4, <1>5 DEF Next

\* Every step keeps issued permits behind the checkpoint.
LEMMA NextKeepsPermit ==
  ASSUME PersistentInv, [Next]_vars
  PROVE  issued' \in BOOLEAN /\ PermitInv'
  <1>0. JournalInv /\ [JournalNext]_journalVars
    BY StepsOfTheJournal DEF PersistentInv
  <1>1. CASE issued' # issued
    BY <1>1, PermitStep DEF PermitInv
  <1>2. CASE issued' = issued
    <2>1. issued' \in BOOLEAN
      BY <1>2 DEF PersistentInv
    <2>2. CASE issued
      <3>1. file # <<>> /\ Checkpoint = "start_permitted"
        BY <2>2 DEF PersistentInv, PermitInv
      <3>2. file' # <<>>
        BY <1>0, <3>1, FileStays
      <3>3. Checkpoint' = "start_permitted"
        BY <1>0, <3>1, JournalMoves, TableRows DEF CheckpointMoves
      <3> QED BY <2>1, <3>2, <3>3 DEF PermitInv
    <2>3. CASE ~issued
      BY <1>2, <2>1, <2>3 DEF PermitInv
    <2> QED BY <2>2, <2>3
  <1> QED BY <1>1, <1>2

\* The inductive invariant holds before the journal is created.
LEMMA InitPersistent == Init => PersistentInv
  <1> SUFFICES ASSUME Init PROVE PersistentInv
    OBVIOUS
  <1>1. JournalInv
    BY InitInv DEF Init
  <1>2. TxTypeOK
    BY DEF Init, TxInit, TxTypeOK, States
  <1> QED BY <1>1, <1>2 DEF Init, PersistentInv, AdapterInv, PermitInv

\* Every step of the composition keeps the inductive invariant.
LEMMA NextPersistent == PersistentInv /\ [Next]_vars => PersistentInv'
  <1> SUFFICES ASSUME PersistentInv, [Next]_vars PROVE PersistentInv'
    OBVIOUS
  <1>1. JournalInv'
    BY StepsOfTheJournal, NextKeepsInv DEF PersistentInv
  <1> QED BY <1>1, NextKeepsAdapter, NextKeepsPermit DEF PersistentInv

\* The inductive invariant of the journaled transaction.
THEOREM PersistentInvariant == Spec => []PersistentInv
  BY InitPersistent, NextPersistent, PTL DEF Spec

\* Types of the whole composition.
THEOREM PersistentTypes == Spec => []TypeOK
  <1>1. PersistentInv => TypeOK
    BY DEF PersistentInv, TypeOK, JournalInv
  <1> QED BY <1>1, PersistentInvariant, PTL

\* A start permit that a caller holds is in the file for good, whatever dies,
\* fails or is repaired afterwards.
THEOREM PermitDurability == Spec => []PermitIsDurable
  <1>1. ASSUME PersistentInv, issued
        PROVE  file # <<>> /\ file[Len(file)].to = "start_permitted"
    <2>1. file # <<>> /\ Checkpoint = "start_permitted" /\ JournalInv
      BY <1>1 DEF PersistentInv, PermitInv
    <2>2. CASE open
      BY <2>1, <2>2, LastLine, TableRows DEF Checkpoint, JournalState
    <2>3. CASE ~open
      BY <2>1, <2>3 DEF Checkpoint
    <2> QED BY <2>1, <2>2, <2>3
  <1>2. PersistentInv => PermitIsDurable
    BY <1>1 DEF PermitIsDurable
  <1> QED BY <1>2, PersistentInvariant, PTL

\* Memory is never behind its journal, and at most one stage ahead of it.
THEOREM Divergence == Spec => []DivergenceIsOneStep
  <1>1. PersistentInv => DivergenceIsOneStep
    BY DEF PersistentInv, AdapterInv, InStep, DivergenceIsOneStep
  <1> QED BY <1>1, PersistentInvariant, PTL
------------------------------------------------------------------------------
\* The mechanism with its files, handles and failures implements the abstract
\* checkpoint: initial states map to initial states, each step to a step of
\* MissionCheckpoint or to a stutter.
THEOREM CheckpointRefinement == Spec => ImplementsCheckpoint
  <1>1. Init => Abstract!Init
    BY DEF Init, JournalInit, Abstract!Init, Checkpoint
  <1>2. Abstract!StateTransitions = StateTransitions
    BY DEF Abstract!StateTransitions, StateTransitions, Abstract!States, States,
           Abstract!Terminal, Terminal
  <1>3. ASSUME PersistentInv, [Next]_vars
        PROVE  [Abstract!Advance \/ Abstract!HandOut]_Abstract!checkpointVars
    <2>1. CheckpointMoves
      BY <1>3, StepsOfTheJournal, JournalMoves DEF PersistentInv
    <2>2. CASE issued' = issued
      BY <1>2, <2>1, <2>2 DEF CheckpointMoves, Abstract!Advance, Abstract!checkpointVars
    <2>3. CASE issued' # issued
      BY <1>2, <1>3, <2>3, PermitStep DEF Abstract!HandOut
    <2> QED BY <2>2, <2>3
  <1> QED
    BY <1>1, <1>3, PersistentInvariant, PTL DEF Spec, ImplementsCheckpoint, Abstract!Spec

------------------------------------------------------------------------------
\* What a step may append once the grant has expired.
NoProgress ==
  Len(file') > Len(file)
    => LET record == file'[Len(file')]
       IN  \/ record = residual
           \/ record.event # "transition"
           \/ record.to = "denied"

\* If a write makes the file longer, the record is the last line.
LEMMA NewLine ==
  ASSUME NEW f \in Seq(Records), NEW record, NEW out, Write(f, record, out),
         Len(file) >= Len(f), Len(file) \in Nat, Len(file') > Len(file)
  PROVE  file'[Len(file')] = record
  <1>1. file' = f \/ file' = Append(f, record)
    BY DEF Write, WriteOk, WriteClockBehind, WriteFails, WriteDies
  <1>2. Len(f) \in Nat /\ Len(Append(f, record)) = Len(f) + 1
        /\ Append(f, record)[Len(f) + 1] = record
    OBVIOUS
  <1> QED BY <1>1, <1>2

\* If _append makes the file longer, its record is the last line.
LEMMA NewRecord ==
  ASSUME JournalInv, NEW record, NEW out, AppendRecord(record, out),
         Len(file') > Len(file)
  PROVE  file'[Len(file')] = record
  <1>1. file \in Seq(Records) /\ Len(file) \in Nat
    BY DEF JournalInv, JournalTypeOK
  <1>2. Write(file, record, out)
    BY <1>1 DEF AppendRecord
  <1> QED BY <1>1, <1>2, NewLine

\* If a close makes the file longer, the buffered record is the last line.
LEMMA FlushedLine ==
  ASSUME JournalInv, FlushResidual, Len(file') > Len(file)
  PROVE  file'[Len(file')] = residual
  <1>1. file \in Seq(Records) /\ Len(file) \in Nat
    BY DEF JournalInv, JournalTypeOK
  <1>2. file' = Append(file, residual)
    BY <1>1 DEF FlushResidual
  <1> QED BY <1>1, <1>2

\* A file of another length is another file.
LEMMA LongerFile ==
  ASSUME JournalInv, Len(file') > Len(file)
  PROVE  file' # file
  BY DEF JournalInv, JournalTypeOK

\* An expired stage call can only record a denial.
LEMMA ExpiredCall ==
  ASSUME JournalInv, TxTypeOK, AdapterInv, expired, NEW out, StageCall(out)
  PROVE  NoProgress
  <1>1. RecordTransition(txState', out) /\ txState' = "denied"
    BY StageCallKeeps DEF StageCall, AdvanceOrDeny
  <1>2. SUFFICES ASSUME Len(file') > Len(file)
                 PROVE  file'[Len(file')].to = "denied"
    BY DEF NoProgress
  <1>3. file' # file
    BY <1>2, LongerFile
  <1>4. AppendRecord(Transition("denied"), out)
    BY <1>1, <1>3 DEF RecordTransition, journalVars
  <1> QED BY <1>2, <1>4, NewRecord DEF Transition, Event

\* An expired item request writes the request or a denial.
LEMMA ExpiredItemCall ==
  ASSUME JournalInv, TxTypeOK, AdapterInv, expired,
         NEW item \in Items, NEW legacy \in BOOLEAN, NEW out,
         MissionItemForRequest(item, legacy, out)
  PROVE  NoProgress
  <1>1. SUFFICES ASSUME Len(file') > Len(file)
                 PROVE  \/ file'[Len(file')].event # "transition"
                        \/ file'[Len(file')].to = "denied"
    BY DEF NoProgress
  <1>2. file' # file
    BY <1>1, LongerFile
  <1>3. CASE RecordItemRequest(item, out)
    <2>1. AppendRecord(ItemRequest(item), out)
      BY <1>2, <1>3 DEF RecordItemRequest, journalVars
    <2> QED BY <1>1, <2>1, NewRecord DEF ItemRequest, Event
  <1>4. CASE txState' = "denied" /\ RecordResult(out)
    <2>1. RecordTransition("denied", out)
      BY <1>4 DEF RecordResult
    <2>2. AppendRecord(Transition("denied"), out)
      BY <1>2, <2>1 DEF RecordTransition, journalVars
    <2> QED BY <1>1, <2>2, NewRecord DEF Transition, Event
  <1> QED BY <1>3, <1>4 DEF MissionItemForRequest

\* The journal's own steps write headers, acknowledgements and buffered lines.
LEMMA JournalStepWrites ==
  ASSUME JournalInv, JournalStep
  PROVE  NoProgress
  <1>0. file \in Seq(Records) /\ Len(file) \in Nat
    BY DEF JournalInv, JournalTypeOK
  <1>1. SUFFICES ASSUME Len(file') > Len(file)
                 PROVE  \/ file'[Len(file')] = residual
                        \/ file'[Len(file')].event # "transition"
    BY DEF NoProgress
  <1>2. ASSUME NEW out \in Outcomes, CreateJournal(out)
        PROVE  file'[Len(file')].event # "transition"
    <2>1. file = <<>> /\ Write(<<>>, Header, out)
      BY <1>2 DEF CreateJournal, JournalInv, HandleInv, Write
    <2>2. file'[Len(file')] = Header
      <3>1. <<>> \in Seq(Records) /\ Len(file) >= Len(<<>>)
        BY <2>1
      <3> QED BY <1>0, <1>1, <2>1, <3>1, NewLine
    <2> QED BY <2>2 DEF Header, Event
  <1>3. ASSUME NEW default \in BOOLEAN, NEW out \in Outcomes, RepairTail(default, out)
        PROVE  file'[Len(file')].event # "transition"
    <2> DEFINE prefix == SubSeq(file, 1, committed)
               record == Acknowledgement(JournalState)
    <2>1. open /\ Write(prefix, record, out)
      BY <1>3 DEF RepairTail, RepairAllowed
    <2>2. prefix \in Seq(Records) /\ Len(prefix) = committed /\ committed \in 1 .. Len(file)
      BY <2>1, OpenHandle, ValidPrefix
    <2>3. record.event # "transition"
      BY DEF Acknowledgement, Event
    <2> HIDE DEF prefix, record
    <2>4. file'[Len(file')] = record
      BY <1>0, <1>1, <2>1, <2>2, NewLine
    <2> QED BY <2>3, <2>4
  <1>4. CASE FlushResidual
    BY <1>1, <1>4, FlushedLine
  <1>5. CASE OpenJournal \/ KillJournal \/ ExternalTail
    BY <1>0, <1>1, <1>5 DEF OpenJournal, KillJournal, ExternalTail, disk
  <1> QED BY <1>2, <1>3, <1>4, <1>5 DEF JournalStep, CloseJournal, RepairInterrupted

\* After its expiry a grant moves no journal forward, through any number of
\* restarts and resumed adapters.
THEOREM ExpiredGrants == Spec => ExpiredGrantWritesNoProgress
  <1>1. ASSUME PersistentInv, [Next]_vars, expired
        PROVE  NoProgress
    <2> USE <1>1 DEF PersistentInv
    <2>1. ASSUME NEW out \in Outcomes,
                 \/ BeginUpload(out)
                 \/ \E accepted \in BOOLEAN : AcceptUploadAck(accepted, out)
                 \/ \E matches \in BOOLEAN : VerifyReadback(matches, out)
                 \/ Commit(out)
                 \/ PermitStart(out)
          PROVE  NoProgress
      <3>1. StageCall(out)
        BY <2>1, CallsAreStageCalls
      <3> QED BY <3>1, ExpiredCall
    <2>2. ASSUME NEW out \in Outcomes, NEW item \in Items, NEW legacy \in BOOLEAN,
                 MissionItemForRequest(item, legacy, out)
          PROVE  NoProgress
      BY <2>2, ExpiredItemCall
    <2>3. CASE JournalStep
      BY <2>3, JournalStepWrites
    <2>4. CASE UNCHANGED journalVars
      <3>1. file' = file /\ file \in Seq(Records)
        BY <2>4 DEF journalVars, JournalInv, JournalTypeOK
      <3> QED BY <3>1 DEF NoProgress
    <2>5. CASE StartPermitFromCheckpoint \/ Attach \/ UNCHANGED vars
      BY <2>4, <2>5 DEF StartPermitFromCheckpoint, Attach, vars, journalVars
    <2> QED BY <2>1, <2>2, <2>3, <2>4, <2>5 DEF Next
  <1>2. PersistentInv /\ [Next]_vars
          => [expired /\ Len(file') > Len(file)
                => LET record == file'[Len(file')]
                   IN  \/ record = residual
                       \/ record.event # "transition"
                       \/ record.to = "denied"]_vars
    BY <1>1 DEF NoProgress
  <1> QED BY <1>2, PersistentInvariant, PTL DEF Spec, ExpiredGrantWritesNoProgress
------------------------------------------------------------------------------
\* The transaction is a user of the journal: with the journal's files, handles
\* and lost writes in view, its behaviours are behaviours of the journal alone,
\* so what is proved of the journal for any user holds of it.
THEOREM MissionIsJournal == Spec => JournalSpec
  <1>1. Init => JournalInit
    BY DEF Init
  <1>2. [Next]_vars => [JournalNext]_journalVars
    BY StepsOfTheJournal
  <1> QED BY <1>1, <1>2, PTL DEF Spec, JournalSpec

\* Whatever a mission's calls leave behind, the next process can load.
THEOREM MissionReloads == Spec => []JournalReloads
  BY MissionIsJournal, JournalAlwaysReloads, PTL

\* A mission writes behind its own last record only.
THEOREM MissionHandles == Spec => []WritableHandleIsCurrent
  BY MissionIsJournal, WritableHandles, PTL

\* No call of a mission, no failed one and no repair changes a committed record.
THEOREM MissionRecordsKept == Spec => CommittedRecordsKept
  BY MissionIsJournal, CommittedRecords, PTL
==============================================================================
