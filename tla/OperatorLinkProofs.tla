-------------------------- MODULE OperatorLinkProofs --------------------------
(***************************************************************************)
(* Proofs about the operator link for any number of commands, challenges   *)
(* and restarts, any windows and queues, and any width of the sequence     *)
(* number that is not used up (LinkAssumption).                            *)
(***************************************************************************)
EXTENDS OperatorLink, TLAPS

------------------------------------------------------------------------------
(***************************************************************************)
(* Serial numbers and sequences.                                           *)
(***************************************************************************)
LEMMA ModuloBelow ==
  ASSUME NEW x \in Int, 0 <= x, x < Modulus PROVE x % Modulus = x
  BY LinkAssumption

LEMMA ModuloOnce ==
  ASSUME NEW x \in Int, Modulus <= x, x < 2 * Modulus PROVE x % Modulus = x - Modulus
  BY LinkAssumption

LEMMA ModuloNegative ==
  ASSUME NEW x \in Int, 0 - Modulus <= x, x < 0 PROVE x % Modulus = x + Modulus
  BY LinkAssumption

\* A sequence number wraps at most once.
LEMMA SequenceWraps ==
  ASSUME NEW i \in Commands
  PROVE  /\ SequenceOf(i) \in 0 .. Modulus - 1
         /\ \/ SequenceOf(i) = FirstSequence + i
            \/ SequenceOf(i) = FirstSequence + i - Modulus
  <1>1. FirstSequence \in Int /\ Modulus \in Int /\ i \in Int /\ 0 <= FirstSequence
        /\ FirstSequence < Modulus /\ 1 <= i /\ i < Modulus
    BY LinkAssumption DEF Commands
  <1>2. CASE FirstSequence + i < Modulus
    BY <1>1, <1>2, ModuloBelow DEF SequenceOf
  <1>3. CASE Modulus <= FirstSequence + i
    BY <1>1, <1>3, ModuloOnce DEF SequenceOf
  <1> QED BY <1>1, <1>2, <1>3

\* What looks newer is a later command: no number comes back within a jump.
LEMMA NewerIsLater ==
  ASSUME NEW i \in Commands, NEW h \in Commands,
         SerialIsNewer(SequenceOf(i), SequenceOf(h))
  PROVE  h < i
  <1> DEFINE d == SequenceOf(i) - SequenceOf(h)
  <1>1. i \in Int /\ h \in Int /\ 1 <= i /\ 1 <= h /\ i <= MaxCommands /\ h <= MaxCommands
        /\ Modulus \in Int /\ Jump \in Int /\ MaxCommands \in Int /\ 1 <= Jump
        /\ MaxCommands + Jump <= Modulus
    BY LinkAssumption DEF Commands
  <1>2. d \in Int /\ 0 - Modulus <= d /\ d < Modulus
    BY <1>1, SequenceWraps
  <1>3. 0 < d % Modulus /\ d % Modulus <= Jump
    BY DEF SerialIsNewer
  <1>4. d = i - h \/ d = i - h - Modulus \/ d = i - h + Modulus
    BY <1>1, SequenceWraps, LinkAssumption
  <1> SUFFICES ASSUME i <= h PROVE FALSE
    BY <1>1
  <1>5. CASE d < 0
    <2>1. d % Modulus = d + Modulus
      BY <1>2, <1>5, ModuloNegative
    <2> QED BY <1>1, <1>2, <1>3, <1>4, <2>1
  <1>6. CASE 0 <= d
    <2>1. d % Modulus = d
      BY <1>2, <1>6, ModuloBelow
    <2> QED BY <1>1, <1>2, <1>3, <1>4, <2>1
  <1> QED BY <1>2, <1>5, <1>6

\* A bounded deque keeps its limit; it drops at most its head.
LEMMA BoundedKeeps ==
  ASSUME NEW S, NEW s \in Seq(S), NEW x \in S, NEW limit \in Nat \ {0}, Len(s) <= limit
  PROVE  /\ Bounded(s, x, limit) \in Seq(S)
         /\ Len(Bounded(s, x, limit)) <= limit
         /\ x \in Elements(Bounded(s, x, limit))
         /\ \A y \in Elements(s) :
              y \in Elements(Bounded(s, x, limit)) \/ (Len(s) = limit /\ y = Head(s))
  <1>1. CASE Len(s) < limit
    <2>1. Bounded(s, x, limit) = Append(s, x)
      BY <1>1 DEF Bounded
    <2>2. Append(s, x) \in Seq(S) /\ Len(Append(s, x)) = Len(s) + 1
          /\ Append(s, x)[Len(s) + 1] = x
          /\ \A j \in 1 .. Len(s) : Append(s, x)[j] = s[j]
      OBVIOUS
    <2>3. DOMAIN Append(s, x) = 1 .. Len(s) + 1 /\ DOMAIN s = 1 .. Len(s) /\ Len(s) \in Nat
      BY <2>2
    <2> QED BY <1>1, <2>1, <2>2, <2>3 DEF Elements
  <1>2. CASE ~(Len(s) < limit)
    <2>1. Len(s) = limit /\ Len(s) \in Nat \ {0} /\ s # <<>>
      BY <1>2
    <2>2. Bounded(s, x, limit) = Append(Tail(s), x)
      BY <1>2 DEF Bounded
    <2>3. Tail(s) \in Seq(S) /\ Len(Tail(s)) = Len(s) - 1
          /\ \A j \in 1 .. Len(s) - 1 : Tail(s)[j] = s[j + 1]
      BY <2>1
    <2> DEFINE t == Tail(s)
    <2>4. Append(t, x) \in Seq(S) /\ Len(Append(t, x)) = Len(t) + 1
          /\ Append(t, x)[Len(t) + 1] = x
          /\ \A j \in 1 .. Len(t) : Append(t, x)[j] = t[j]
      BY <2>3
    <2>5. DOMAIN Append(t, x) = 1 .. Len(s) /\ DOMAIN s = 1 .. Len(s) /\ Head(s) = s[1]
      BY <2>1, <2>3, <2>4
    <2>6. \A j \in 2 .. Len(s) : j - 1 \in 1 .. Len(s) /\ Append(t, x)[j - 1] = s[j]
      BY <2>1, <2>3, <2>4
    <2>7. x \in Elements(Append(t, x))
      BY <2>1, <2>3, <2>4, <2>5 DEF Elements
    <2>8. ASSUME NEW j \in DOMAIN s PROVE s[j] \in Elements(Append(t, x)) \/ s[j] = Head(s)
      <3>1. CASE j = 1
        BY <2>5, <3>1
      <3>2. CASE j # 1
        <4>1. j - 1 \in DOMAIN Append(t, x) /\ Append(t, x)[j - 1] = s[j]
          BY <2>1, <2>5, <2>6, <3>2
        <4> HIDE DEF t
        <4> QED BY <4>1 DEF Elements
      <3> QED BY <3>1, <3>2
    <2>9. \A y \in Elements(s) : y \in Elements(Append(t, x)) \/ y = Head(s)
      BY <2>8 DEF Elements
    <2> QED BY <2>1, <2>2, <2>3, <2>4, <2>7, <2>9
  <1> QED BY <1>1, <1>2

LEMMA SeqGrows ==
  ASSUME NEW A, NEW B, A \subseteq B, NEW s \in Seq(A) PROVE s \in Seq(B)
  OBVIOUS

LEMMA ElementsAppend ==
  ASSUME NEW S, NEW s \in Seq(S), NEW x \in S
  PROVE  Elements(Append(s, x)) = Elements(s) \union {x}
  <1> DEFINE t == Append(s, x)
  <1>1. DOMAIN t = 1 .. Len(s) + 1 /\ DOMAIN s = 1 .. Len(s) /\ Len(s) \in Nat
        /\ t[Len(s) + 1] = x /\ \A j \in 1 .. Len(s) : t[j] = s[j]
    OBVIOUS
  <1> HIDE DEF t
  <1>2. Elements(t) \subseteq Elements(s) \union {x}
    BY <1>1 DEF Elements
  <1>3. Elements(s) \union {x} \subseteq Elements(t)
    BY <1>1 DEF Elements
  <1> QED BY <1>2, <1>3 DEF t

LEMMA ElementOf == ASSUME NEW S, NEW s \in Seq(S), NEW j \in DOMAIN s PROVE s[j] \in S
  OBVIOUS

LEMMA Concatenated ==
  ASSUME NEW S, NEW s \in Seq(S), NEW t \in Seq(S)
  PROVE  /\ DOMAIN (s \o t) = 1 .. Len(s) + Len(t)
         /\ \A j \in 1 .. Len(s) : (s \o t)[j] = s[j]
         /\ \A j \in Len(s) + 1 .. Len(s) + Len(t) : (s \o t)[j] = t[j - Len(s)]
  OBVIOUS

LEMMA KindsOfCommands ==
  /\ \A i \in Commands : KindOf(i) \in Kinds /\ (Issued(i) => i \in OfKind(KindOf(i)))
  /\ \A k \in Kinds : OfKind(k) \subseteq Commands
  BY DEF KindOf, Kinds, OfKind

\* What a result cache is, and what keeping one more result makes of it.
ResultsOK(r) ==
  /\ r.cached \in [Commands -> BOOLEAN \union {None}]
  /\ DOMAIN r.order = Kinds
  /\ \A k \in Kinds : r.order[k] \in Seq(OfKind(k)) /\ Len(r.order[k]) <= Window
  /\ \A i \in Commands : r.cached[i] # None => i \in Elements(r.order[KindOf(i)])

LEMMA KeepKeeps ==
  ASSUME NEW r, ResultsOK(r), NEW i \in Commands, Issued(i), NEW allowed \in BOOLEAN
  PROVE  /\ ResultsOK(Keep(r, i, allowed))
         /\ Keep(r, i, allowed).cached[i] = allowed
         /\ \A j \in Commands \ {i} :
              Keep(r, i, allowed).cached[j] = TRUE => r.cached[j] = TRUE
  <1> DEFINE s == r.order[KindOf(i)]
             evicted == IF Len(s) = Window THEN [r.cached EXCEPT ![Head(s)] = None]
                                           ELSE r.cached
             c == [evicted EXCEPT ![i] = allowed]
             o == [r.order EXCEPT ![KindOf(i)] = Bounded(s, i, Window)]
  <1>1. KindOf(i) \in Kinds /\ i \in OfKind(KindOf(i)) /\ Window \in Nat \ {0}
        /\ s \in Seq(OfKind(KindOf(i))) /\ Len(s) <= Window
    BY KindsOfCommands, LinkAssumption DEF ResultsOK
  <1>2. Keep(r, i, allowed).cached = c /\ Keep(r, i, allowed).order = o
    BY <1>1 DEF Keep, ResultsOK
  <1>3. evicted \in [Commands -> BOOLEAN \union {None}]
        /\ \A j \in Commands : evicted[j] # None =>
             /\ evicted[j] = r.cached[j]
             /\ ~(Len(s) = Window /\ j = Head(s))
    BY DEF ResultsOK
  <1>4. c \in [Commands -> BOOLEAN \union {None}] /\ c[i] = allowed
        /\ \A j \in Commands \ {i} : c[j] = evicted[j]
    BY <1>3
  <1>5. /\ Bounded(s, i, Window) \in Seq(OfKind(KindOf(i)))
        /\ Len(Bounded(s, i, Window)) <= Window
        /\ i \in Elements(Bounded(s, i, Window))
        /\ \A y \in Elements(s) :
             y \in Elements(Bounded(s, i, Window)) \/ (Len(s) = Window /\ y = Head(s))
    BY <1>1, BoundedKeeps
  <1>6. DOMAIN o = Kinds
        /\ \A k \in Kinds : o[k] = IF k = KindOf(i) THEN Bounded(s, i, Window) ELSE r.order[k]
    BY <1>1 DEF ResultsOK
  <1>7. ASSUME NEW j \in Commands, c[j] # None PROVE j \in Elements(o[KindOf(j)])
    <2>1. KindOf(j) \in Kinds
      BY KindsOfCommands
    <2>2. CASE j = i
      BY <1>5, <1>6, <2>1, <2>2
    <2>3. CASE j # i
      <3>1. r.cached[j] # None /\ ~(Len(s) = Window /\ j = Head(s))
        BY <1>3, <1>4, <1>7, <2>3
      <3>2. j \in Elements(r.order[KindOf(j)])
        BY <3>1 DEF ResultsOK
      <3> HIDE DEF o, c, evicted
      <3> QED BY <1>5, <1>6, <2>1, <3>1, <3>2
    <2> QED BY <2>2, <2>3
  <1>8. \A k \in Kinds : o[k] \in Seq(OfKind(k)) /\ Len(o[k]) <= Window
    BY <1>5, <1>6 DEF ResultsOK
  <1>9. \A j \in Commands \ {i} : c[j] = TRUE => r.cached[j] = TRUE
    <2> HIDE DEF evicted, c
    <2> QED BY <1>3, <1>4, LinkAssumption
  <1> HIDE DEF c, o, evicted
  <1> QED BY <1>2, <1>4, <1>6, <1>7, <1>8, <1>9 DEF ResultsOK
------------------------------------------------------------------------------
(***************************************************************************)
(* Types.                                                                  *)
(***************************************************************************)
\* What is issued stays what it is, and what is known stays known.
LEMMA NothingIsUnsaid ==
  ASSUME LinkTypeOK, [Next]_vars
  PROVE  /\ known \subseteq known' /\ created <= created'
         /\ \A i \in Commands : Issued(i) => Issued(i)' /\ about'[i] = about[i]
                                             /\ KindOf(i)' = KindOf(i)
         /\ \A k \in Kinds : OfKind(k) \subseteq OfKind(k)'
  <1> USE DEF LinkTypeOK, OperatorTypes
  <1>1. known \subseteq known' /\ created <= created'
    <2>1. CASE UNCHANGED <<known, created>>
      BY <2>1
    <2>2. CASE Observe
      BY <2>2 DEF Observe, operatorVars
    <2>3. CASE Publish
      BY <2>3 DEF Publish
    <2>4. [Next]_vars => UNCHANGED <<known, created>> \/ Observe \/ Publish
      BY DEF Next, Serve, Frame, Issue, Lapse, Repeat, Refuse, RefusePersisted, Accept, Mark,
         Answer, AnswerThrottled, AnswerTimesOut, Put, ThreadEnds, Poll, Apply, EndFrame, Restart, vars,
         operatorVars, frameVars
    <2> QED BY <2>1, <2>2, <2>3, <2>4
  <1>2. UNCHANGED about \/ \E i \in Commands : Issue(i)
    BY DEF Next, Serve, Frame, Lapse, Repeat, Refuse, RefusePersisted, Accept, Mark,
       Answer, AnswerThrottled, AnswerTimesOut, Put, ThreadEnds, Observe, Publish, Poll, Apply, EndFrame,
       Restart, vars, operatorVars
  <1>3. \A i \in Commands : Issued(i) => about'[i] = about[i]
    <2>1. CASE UNCHANGED about
      BY <2>1
    <2>2. ASSUME NEW i \in Commands, Issue(i)
          PROVE  \A j \in Commands : Issued(j) => about'[j] = about[j]
      BY <2>2 DEF Issue, Issued
    <2> QED BY <1>2, <2>1, <2>2
  <1>4. \A i \in Commands : Issued(i) => Issued(i)' /\ KindOf(i)' = KindOf(i)
    BY <1>3 DEF Issued, KindOf
  <1>5. \A k \in Kinds : OfKind(k) \subseteq OfKind(k)'
    BY <1>4 DEF OfKind
  <1> QED BY <1>1, <1>3, <1>4, <1>5

LEMMA OperatorTypesKept == ASSUME LinkTypeOK, [Next]_vars PROVE OperatorTypes'
  <1> USE DEF LinkTypeOK, OperatorTypes
  <1>1. \A i \in Commands : Issued(i) => Issued(i)'
    BY NothingIsUnsaid
  <1>2. ASSUME NEW i \in Commands, Issue(i) PROVE OperatorTypes'
    BY <1>1, <1>2 DEF Issue, frameVars
  <1>3. ASSUME NEW i \in Commands, Lapse(i) PROVE OperatorTypes'
    BY <1>1, <1>3 DEF Lapse, frameVars
  <1>4. CASE Answer
    <2>1. thread.command \in Commands /\ Issued(thread.command) /\ thread.allowed \in BOOLEAN
      BY <1>4 DEF Answer, PlaceTypes, Places
    <2>2. UNCHANGED <<created, known, about, lapsed>>
      BY <1>4 DEF Answer, operatorVars, frameVars
    <2>3. answers' = answers \union {[command |-> thread.command, allowed |-> thread.allowed]}
      BY <1>4 DEF Answer
    <2> QED BY <1>1, <2>1, <2>2, <2>3
  <1>5. CASE Observe
    <2>1. UNCHANGED <<known, about, lapsed, answers>>
      BY <1>5 DEF Observe, operatorVars
    <2>2. created' \in 0 .. MaxChallenges /\ created <= created'
      BY <1>5, LinkAssumption DEF Observe
    <2> QED BY <1>1, <2>1, <2>2
  <1>6. CASE Publish
    <2>1. outcome \in 1 .. created
      BY <1>6 DEF Publish, FrameTypes
    <2> QED BY <1>1, <1>6, <2>1 DEF Publish
  <1>7. CASE UNCHANGED <<created, known, about, lapsed, answers>>
    BY <1>1, <1>7
  <1>8. UNCHANGED <<created, known, about, lapsed, answers>> \/ Answer \/ Observe \/ Publish
        \/ \E i \in Commands : Issue(i) \/ Lapse(i)
    BY DEF Next, Serve, Frame, Repeat, Refuse, RefusePersisted, Accept, Mark,
       AnswerThrottled, AnswerTimesOut, Put, ThreadEnds, Poll, Apply, EndFrame, Restart, vars,
       operatorVars, frameVars
  <1> QED BY <1>2, <1>3, <1>4, <1>5, <1>6, <1>7, <1>8

LEMMA FileTypesKept == ASSUME LinkTypeOK, [Next]_vars PROVE FileTypes'
  <1> USE DEF LinkTypeOK, FileTypes
  <1>1. ASSUME NEW i \in Commands, Accept(i) PROVE FileTypes'
    <2>1. SequenceOf(i) \in 0 .. Modulus - 1
      BY SequenceWraps
    <2> QED BY <1>1, <2>1 DEF Accept, Recorded
  <1>2. CASE Mark
    <2>1. thread.command \in Commands
      BY <1>2 DEF Mark, PlaceTypes
    <2>2. Remembered(thread.command) \in Seq(Commands)
          /\ Len(Remembered(thread.command)) <= Window
      <3>1. Window \in Nat \ {0}
        BY LinkAssumption
      <3>2. /\ Bounded(identifiers, thread.command, Window) \in Seq(Commands)
            /\ Len(Bounded(identifiers, thread.command, Window)) <= Window
        BY <2>1, <3>1, BoundedKeeps
      <3> QED BY <3>2 DEF Remembered
    <2> QED BY <1>2, <2>2 DEF Mark
  <1>3. CASE UNCHANGED fileVars
    BY <1>3 DEF fileVars
  <1>4. UNCHANGED fileVars \/ Mark \/ \E i \in Commands : Accept(i)
    BY DEF Next, Serve, Frame, Issue, Lapse, Repeat, Refuse, RefusePersisted, Answer,
       AnswerThrottled, AnswerTimesOut, Put, ThreadEnds, Observe, Publish, Poll, Apply, EndFrame, Restart,
       Loaded, vars, fileVars
  <1> QED BY <1>1, <1>2, <1>3, <1>4

LEMMA ThreadTypesKept == ASSUME LinkTypeOK, [Next]_vars PROVE PlaceTypes' /\ MemoryTypes'
  <1> USE DEF LinkTypeOK
  <1>1. known \subseteq known' /\ \A i \in Commands : Issued(i) => Issued(i)'
    BY NothingIsUnsaid
  <1>2. ASSUME UNCHANGED thread PROVE PlaceTypes'
    BY <1>1, <1>2 DEF PlaceTypes
  <1>3. ASSUME UNCHANGED <<last, seen, decided>> PROVE MemoryTypes'
    BY <1>1, <1>3 DEF MemoryTypes
  <1>4. None \notin Commands
    BY LinkAssumption DEF Commands
  <1>5. ASSUME NEW i \in Commands, NEW at \in {"accepted", "answer"}, NEW allowed \in BOOLEAN,
               NEW fresh \in BOOLEAN, thread' = Handling(at, i, allowed, fresh), Issued(i),
               at = "accepted" => allowed /\ fresh
        PROVE  PlaceTypes'
    BY <1>1, <1>4, <1>5 DEF Handling, Places, PlaceTypes
  <1>6. ASSUME thread' \in {Idle, Dead}
        PROVE  PlaceTypes'
    <2>1. PICK at \in {"idle", "dead"} :
            thread' = [at |-> at, command |-> None, allowed |-> FALSE, fresh |-> FALSE]
      BY <1>6 DEF Idle, Dead
    <2>2. /\ thread' \in [at : Places, command : Commands \union {None},
                          allowed : BOOLEAN, fresh : BOOLEAN]
          /\ thread'.at = at /\ thread'.command = None /\ ~thread'.allowed
      BY <2>1 DEF Places
    <2>3. (Places)' = Places /\ (Commands)' = Commands
      BY DEF Places, Commands
    <2> QED BY <2>2, <2>3 DEF PlaceTypes
  <1>7. ASSUME NEW i \in Commands, Repeat(i) PROVE PlaceTypes' /\ MemoryTypes'
    <2>1. Issued(i) /\ cached[i] \in BOOLEAN
      BY <1>7 DEF Repeat, Arrives, CacheTypes
    <2>2. thread' = Handling("answer", i, cached[i], FALSE) /\ UNCHANGED <<last, seen, decided>>
      BY <1>7 DEF Repeat, cacheVars
    <2> QED BY <1>3, <1>5, <2>1, <2>2
  <1>8. ASSUME NEW i \in Commands, Refuse(i) PROVE PlaceTypes' /\ MemoryTypes'
    <2>1. Issued(i) /\ thread' = Handling("answer", i, FALSE, TRUE)
          /\ UNCHANGED <<last, seen, decided>>
      BY <1>8 DEF Refuse, Arrives
    <2> QED BY <1>3, <1>5, <2>1
  <1>9. ASSUME NEW i \in Commands
        PROVE  Bounded(seen, i, Window) \in Seq(Commands) /\ Len(Bounded(seen, i, Window)) <= Window
    BY BoundedKeeps, LinkAssumption DEF MemoryTypes
  <1>10. ASSUME NEW i \in Commands, RefusePersisted(i) PROVE PlaceTypes' /\ MemoryTypes'
    <2>1. Issued(i) /\ thread' = Handling("answer", i, FALSE, TRUE)
          /\ UNCHANGED <<last, decided>> /\ seen' \in {seen, Bounded(seen, i, Window)}
      BY <1>10 DEF RefusePersisted, Arrives
    <2>2. MemoryTypes'
      BY <1>1, <1>9, <2>1 DEF MemoryTypes
    <2> QED BY <1>5, <2>1, <2>2
  <1>11. ASSUME NEW i \in Commands, Accept(i) PROVE PlaceTypes' /\ MemoryTypes'
    <2>1. Issued(i) /\ thread' = Handling("accepted", i, TRUE, TRUE)
          /\ last' = [last EXCEPT ![KindOf(i)] = SequenceOf(i)]
          /\ UNCHANGED decided /\ seen' \in {seen, Bounded(seen, i, Window)}
      BY <1>11 DEF Accept, Arrives
    <2>2. MemoryTypes'
      BY <1>1, <1>9, <2>1, SequenceWraps DEF MemoryTypes
    <2> QED BY <1>5, <2>1, <2>2
  <1>12. CASE Mark
    <2>1. thread.at = "accepted" /\ thread' = [thread EXCEPT !.at = "answer"]
          /\ UNCHANGED <<last, seen, known, about>>
          /\ (decided' = decided \/ (about[thread.command] # Selection
                                     /\ decided' = decided \union {about[thread.command]}))
      BY <1>12 DEF Mark, operatorVars
    <2>2. thread.command \in Commands /\ Issued(thread.command)
      BY <2>1 DEF PlaceTypes, Places
    <2>3. about[thread.command] # Selection => about[thread.command] \in known
      BY <2>2 DEF OperatorTypes, Issued
    <2>4. thread' = Handling("answer", thread.command, thread.allowed, thread.fresh)
          /\ thread.allowed \in BOOLEAN /\ thread.fresh \in BOOLEAN
      BY <2>1 DEF PlaceTypes, Handling
    <2>5. MemoryTypes'
      BY <2>1, <2>3 DEF MemoryTypes
    <2> QED BY <1>5, <2>2, <2>4, <2>5
  <1>13. CASE Answer
    <2>1. UNCHANGED <<last, seen, decided>> /\ thread.at = "answer"
          /\ thread' = IF thread.allowed /\ thread.fresh THEN [thread EXCEPT !.at = "put"] ELSE Idle
      BY <1>13 DEF Answer, cacheVars
    <2>2. CASE thread.allowed /\ thread.fresh
      BY <1>1, <1>3, <2>1, <2>2 DEF PlaceTypes, Places
    <2>3. CASE ~(thread.allowed /\ thread.fresh)
      BY <1>3, <1>6, <2>1, <2>3 DEF MemoryTypes
    <2> QED BY <2>2, <2>3
  <1>14. CASE AnswerThrottled \/ AnswerTimesOut \/ Put \/ ThreadEnds
    <2>1. UNCHANGED <<last, seen, decided>> /\ thread' \in {Idle, Dead}
      BY <1>14 DEF AnswerThrottled, AnswerTimesOut, Put, ThreadEnds, cacheVars
    <2> QED BY <1>3, <1>6, <2>1
  <1>15. CASE Restart
    <2>1. thread' = Idle /\ seen' = <<>> /\ decided' = {} /\ last' = [k \in Kinds |-> None]
      BY <1>15 DEF Restart, NewProcess
    <2>2. MemoryTypes'
      BY <2>1, LinkAssumption DEF MemoryTypes
    <2> QED BY <1>6, <2>1, <2>2
  <1>16. CASE UNCHANGED <<thread, last, seen, decided>>
    BY <1>2, <1>3, <1>16
  <1>17. \/ UNCHANGED <<thread, last, seen, decided>>
         \/ Mark \/ Answer \/ AnswerThrottled \/ AnswerTimesOut \/ Put \/ ThreadEnds \/ Restart
         \/ \E i \in Commands : Repeat(i) \/ Refuse(i) \/ RefusePersisted(i) \/ Accept(i)
    BY DEF Next, Serve, Frame, Issue, Lapse, Observe, Publish, Poll, Apply, EndFrame, vars,
       cacheVars
  <1> QED BY <1>7, <1>8, <1>10, <1>11, <1>12, <1>13, <1>14, <1>15, <1>16, <1>17

LEMMA CacheTypesKept == ASSUME LinkTypeOK, [Next]_vars PROVE CacheTypes'
  <1>1. \A i \in Commands : Issued(i) => KindOf(i)' = KindOf(i)
    BY NothingIsUnsaid
  <1>2. \A k \in Kinds : OfKind(k) \subseteq OfKind(k)'
    BY NothingIsUnsaid
  <1>3. ResultsOK(Results)
    BY DEF LinkTypeOK, CacheTypes, ResultsOK, Results
  <1>4. ASSUME NEW r, ResultsOK(r), cached' = r.cached, order' = r.order PROVE CacheTypes'
    <2>1. ASSUME NEW k \in Kinds
          PROVE  order'[k] \in Seq(OfKind(k)') /\ Len(order'[k]) <= Window
      <3>1. r.order[k] \in Seq(OfKind(k)) /\ Len(r.order[k]) <= Window
        BY <1>4 DEF ResultsOK
      <3>2. r.order[k] \in Seq(OfKind(k)')
        BY <1>2, <3>1, SeqGrows
      <3> QED BY <1>4, <3>1, <3>2
    <2>2. ASSUME NEW i \in Commands, cached'[i] # None
          PROVE  i \in Elements(order'[KindOf(i)'])
      <3>1. i \in Elements(r.order[KindOf(i)]) /\ KindOf(i) \in Kinds
        BY <1>4, <2>2, KindsOfCommands DEF ResultsOK
      <3>2. r.order[KindOf(i)] \in Seq(OfKind(KindOf(i)))
        BY <1>4, <3>1 DEF ResultsOK
      <3>3. Issued(i)
        BY <3>1, <3>2 DEF Elements, OfKind
      <3> QED BY <1>1, <1>4, <3>1, <3>3
    <2>3. cached' \in [Commands -> BOOLEAN \union {None}] /\ DOMAIN order' = Kinds
      BY <1>4 DEF ResultsOK
    <2>4. \A k \in Kinds : (order[k])' = order'[k]
      OBVIOUS
    <2> QED BY <2>1, <2>2, <2>3 DEF CacheTypes, Elements
  <1>5. ASSUME NEW i \in Commands, Issued(i), NEW allowed \in BOOLEAN, KeepResult(i, allowed)
        PROVE  CacheTypes'
    <2>1. ResultsOK(Keep(Results, i, allowed))
      BY <1>3, <1>5, KeepKeeps
    <2> QED BY <1>4, <1>5, <2>1 DEF KeepResult
  <1>6. ASSUME UNCHANGED <<cached, order>> PROVE CacheTypes'
    BY <1>3, <1>4, <1>6 DEF Results
  <1>7. ASSUME NEW i \in Commands, Refuse(i) PROVE CacheTypes'
    BY <1>5, <1>6, <1>7 DEF Refuse, Arrives
  <1>8. ASSUME NEW i \in Commands, RefusePersisted(i) PROVE CacheTypes'
    <2> DEFINE once == IF about[i] = Selection THEN Results ELSE Keep(Results, i, TRUE)
    <2>1. Issued(i)
      BY <1>8 DEF RefusePersisted, Arrives
    <2>2. ResultsOK(Keep(Results, i, TRUE))
      BY <1>3, <2>1, KeepKeeps
    <2>3. ResultsOK(once)
      BY <1>3, <2>2
    <2>4. cached' = Keep(once, i, FALSE).cached /\ order' = Keep(once, i, FALSE).order
      BY <1>8 DEF RefusePersisted
    <2> HIDE DEF once
    <2>5. ResultsOK(Keep(once, i, FALSE))
      BY <2>1, <2>3, KeepKeeps
    <2> QED BY <1>4, <2>4, <2>5
  <1>9. ASSUME NEW i \in Commands, Accept(i) PROVE CacheTypes'
    BY <1>5, <1>6, <1>9 DEF Accept, Arrives
  <1>10. CASE Mark
    <2>1. thread.command \in Commands /\ Issued(thread.command)
      BY <1>10 DEF Mark, LinkTypeOK, PlaceTypes, Places
    <2> QED BY <1>5, <1>6, <1>10, <2>1 DEF Mark
  <1>11. CASE Restart
    <2>1. cached' = [i \in Commands |-> None] /\ order' = [k \in Kinds |-> <<>>]
      BY <1>11 DEF Restart, NewProcess
    <2>2. Window \in Nat
      BY LinkAssumption
    <2> QED BY <2>1, <2>2 DEF CacheTypes
  <1>12. \/ UNCHANGED <<cached, order>> \/ Mark \/ Restart
         \/ \E i \in Commands : Refuse(i) \/ RefusePersisted(i) \/ Accept(i)
    BY DEF Next, Serve, Frame, Issue, Lapse, Repeat, Answer, AnswerThrottled, AnswerTimesOut, Put, ThreadEnds,
       Observe, Publish, Poll, Apply, EndFrame, vars, cacheVars
  <1> QED BY <1>6, <1>7, <1>8, <1>9, <1>10, <1>11, <1>12

\* What a frame takes of a queue and what it leaves.
LEMMA FrameParts ==
  ASSUME NEW S, NEW k \in Kinds, queue[k] \in Seq(S)
  PROVE  \E n \in 0 .. Len(queue[k]) :
           /\ FrameTake(k) \in Seq(S) /\ Len(FrameTake(k)) = n
           /\ \A j \in 1 .. n : FrameTake(k)[j] = queue[k][j]
           /\ FrameLeave(k) \in Seq(S) /\ Len(FrameLeave(k)) = Len(queue[k]) - n
           /\ \A j \in 1 .. Len(queue[k]) - n : FrameLeave(k)[j] = queue[k][n + j]
  <1> DEFINE s == queue[k]
             n == IF Len(s) < FrameLimit THEN Len(s) ELSE FrameLimit
             t == SubSeq(s, 1, n)
             l == SubSeq(s, n + 1, Len(s))
  <1>1. s \in Seq(S) /\ Len(s) \in Nat /\ n \in 0 .. Len(s) /\ n \in Nat
    BY LinkAssumption
  <1> HIDE DEF n, s
  <1>2. t \in Seq(S) /\ Len(t) = n /\ \A j \in 1 .. n : t[j] = s[j]
    BY <1>1
  <1>3. l \in Seq(S) /\ Len(l) = Len(s) - n /\ \A j \in 1 .. Len(s) - n : l[j] = s[n + j]
    BY <1>1
  <1>4. FrameTake(k) = t
    BY DEF FrameTake, n, s
  <1>5. FrameLeave(k) = l
    BY <1>2, <1>4 DEF FrameLeave, s
  <1> HIDE DEF t, l
  <1> QED BY <1>1, <1>2, <1>3, <1>4, <1>5 DEF s

LEMMA QueueTypesKept == ASSUME LinkTypeOK, [Next]_vars PROVE QueueTypes'
  <1> USE DEF LinkTypeOK
  <1>1. \A k \in Kinds : OfKind(k) \subseteq OfKind(k)'
    BY NothingIsUnsaid
  <1>2. ASSUME NEW k \in Kinds, NEW s \in Seq(OfKind(k)) PROVE s \in Seq(OfKind(k)')
    BY <1>1, SeqGrows
  <1>3. "authorization" \in Kinds
    BY DEF Kinds
  <1>4. ASSUME DOMAIN queue' = Kinds, DOMAIN taken' = Kinds, polled' \in Seq(OfKind("authorization")),
               \A k \in Kinds : queue'[k] \in Seq(OfKind(k)) /\ Len(queue'[k]) <= QueueLimit
                                /\ taken'[k] \in Seq(OfKind(k))
        PROVE  QueueTypes'
    <2>1. polled' \in Seq(OfKind("authorization")')
      BY <1>2, <1>3, <1>4
    <2>2. \A k \in Kinds : queue'[k] \in Seq(OfKind(k)') /\ taken'[k] \in Seq(OfKind(k)')
      BY <1>2, <1>4
    <2> QED BY <1>4, <2>1, <2>2 DEF QueueTypes
  <1>5. CASE Put
    <2> DEFINE k == KindOf(thread.command)
    <2>1. thread.command \in Commands /\ Issued(thread.command)
      BY <1>5 DEF Put, PlaceTypes, Places
    <2>2. k \in Kinds /\ thread.command \in OfKind(k)
      BY <2>1, KindsOfCommands
    <2>3. UNCHANGED <<taken, polled>>
      BY <1>5 DEF Put, frameVars
    <2>4. queue' = IF Len(queue[k]) < QueueLimit
                     THEN [queue EXCEPT ![k] = Append(@, thread.command)] ELSE queue
      BY <1>5 DEF Put
    <2> HIDE DEF k
    <2>5. CASE Len(queue[k]) < QueueLimit
      <3>1. queue[k] \in Seq(OfKind(k)) /\ Len(queue[k]) \in Nat /\ QueueLimit \in Nat
        BY <2>2, LinkAssumption DEF QueueTypes
      <3>2. Append(queue[k], thread.command) \in Seq(OfKind(k))
            /\ Len(Append(queue[k], thread.command)) <= QueueLimit
        BY <2>2, <2>5, <3>1
      <3>3. DOMAIN queue' = Kinds
            /\ \A j \in Kinds : queue'[j] = IF j = k THEN Append(queue[k], thread.command) ELSE queue[j]
        BY <2>4, <2>5 DEF QueueTypes
      <3> QED BY <1>4, <2>3, <3>2, <3>3 DEF QueueTypes
    <2>6. CASE ~(Len(queue[k]) < QueueLimit)
      BY <1>4, <2>3, <2>4, <2>6 DEF QueueTypes
    <2> QED BY <2>5, <2>6
  <1>6. CASE Poll
    <2>1. queue' = [k \in Kinds |-> FrameLeave(k)] /\ taken' = [k \in Kinds |-> taken[k] \o FrameTake(k)]
          /\ polled' \in {FrameTake("authorization"), <<>>}
      BY <1>6 DEF Poll
    <2>2. ASSUME NEW k \in Kinds
          PROVE  /\ FrameTake(k) \in Seq(OfKind(k)) /\ FrameLeave(k) \in Seq(OfKind(k))
                 /\ Len(FrameLeave(k)) <= QueueLimit
      <3>1. queue[k] \in Seq(OfKind(k)) /\ Len(queue[k]) \in Nat /\ Len(queue[k]) <= QueueLimit
            /\ QueueLimit \in Nat
        BY LinkAssumption DEF QueueTypes
      <3>2. PICK n \in 0 .. Len(queue[k]) :
              FrameTake(k) \in Seq(OfKind(k)) /\ FrameLeave(k) \in Seq(OfKind(k))
              /\ Len(FrameLeave(k)) = Len(queue[k]) - n
        BY <3>1, FrameParts
      <3> QED BY <3>1, <3>2
    <2>3. \A k \in Kinds : taken[k] \o FrameTake(k) \in Seq(OfKind(k))
      BY <2>2 DEF QueueTypes
    <2>4. polled' \in Seq(OfKind("authorization"))
      <3>1. CASE polled' = FrameTake("authorization")
        BY <1>3, <2>2, <3>1
      <3>2. CASE polled' = <<>>
        BY <3>2
      <3> QED BY <2>1, <3>1, <3>2
    <2> QED BY <1>4, <2>1, <2>2, <2>3, <2>4
  <1>7. CASE Apply
    <2>1. polled' = Tail(polled) /\ polled # <<>> /\ UNCHANGED <<queue, taken>>
      BY <1>7 DEF Apply
    <2> QED BY <1>4, <2>1 DEF QueueTypes
  <1>8. CASE Restart
    <2>1. queue' = [k \in Kinds |-> <<>>] /\ polled' = <<>> /\ taken' = taken
      BY <1>8 DEF Restart, NewProcess
    <2>2. QueueLimit \in Nat
      BY LinkAssumption
    <2> QED BY <1>4, <2>1, <2>2 DEF QueueTypes
  <1>9. CASE UNCHANGED <<queue, taken, polled>>
    BY <1>4, <1>9 DEF QueueTypes
  <1>10. UNCHANGED <<queue, taken, polled>> \/ Put \/ Poll \/ Apply \/ Restart
    BY DEF Next, Serve, Frame, Issue, Lapse, Repeat, Refuse, RefusePersisted, Accept, Mark,
       Answer, AnswerThrottled, AnswerTimesOut, ThreadEnds, Observe, Publish, EndFrame, vars, frameVars
  <1> QED BY <1>5, <1>6, <1>7, <1>8, <1>9, <1>10

LEMMA FrameTypesKept == ASSUME LinkTypeOK, [Next]_vars PROVE FrameTypes'
  <1> USE DEF LinkTypeOK
  <1>1. created \in Nat /\ created' \in Nat /\ created <= created'
    <2>1. OperatorTypes'
      BY OperatorTypesKept
    <2> QED BY <2>1, NothingIsUnsaid, LinkAssumption DEF OperatorTypes
  <1>2. 1 .. created \subseteq 1 .. created'
    BY <1>1
  <1>3. applied \in Seq([command : Commands, challenge : 1 .. created'])
    <2>1. [command : Commands, challenge : 1 .. created]
            \subseteq [command : Commands, challenge : 1 .. created']
      BY <1>2
    <2> QED BY <2>1, SeqGrows DEF FrameTypes
  <1>4. CASE Observe
    <2>1. UNCHANGED <<active, applied, lives>> /\ outcome' = pending' /\ handled' = FALSE
          /\ frame' = "poll" /\ pending' \in 1 .. created' \union {None}
      BY <1>1, <1>4 DEF Observe, FrameTypes
    <2> QED BY <1>2, <1>3, <2>1 DEF FrameTypes
  <1>5. CASE Poll
    BY <1>2, <1>3, <1>5 DEF Poll, FrameTypes
  <1>6. CASE Publish
    BY <1>2, <1>3, <1>6 DEF Publish, FrameTypes
  <1>7. CASE Apply
    <2>1. UNCHANGED <<active, outcome, frame, lives, created>> /\ polled # <<>> /\ frame = "apply"
      BY <1>7 DEF Apply
    <2>2. Head(polled) \in Commands
      BY <2>1, KindsOfCommands DEF QueueTypes, Kinds
    <2>3. CASE Matches(Head(polled)) /\ pending = outcome
               /\ applied' = Append(applied, [command |-> Head(polled), challenge |-> outcome])
               /\ pending' = None /\ handled' = TRUE
      <3>1. outcome \in 1 .. created
        BY <2>3 DEF Matches, FrameTypes
      <3>2. applied' \in Seq([command : Commands, challenge : 1 .. created])
        BY <2>2, <2>3, <3>1 DEF FrameTypes
      <3> QED BY <2>1, <2>3, <3>2 DEF FrameTypes
    <2>4. CASE pending' \in {pending, None} /\ UNCHANGED <<applied, handled>>
      BY <2>1, <2>4 DEF FrameTypes
    <2> QED BY <1>7, <2>3, <2>4 DEF Apply, Carry
  <1>8. CASE EndFrame
    <2>1. pending' \in {pending, None} /\ frame' = "observe"
          /\ UNCHANGED <<active, outcome, handled, created, applied, lives>>
      BY <1>8 DEF EndFrame
    <2> QED BY <2>1 DEF FrameTypes
  <1>9. CASE Restart
    <2>1. lives' = lives + 1 /\ NewProcess /\ UNCHANGED <<created, applied>>
      BY <1>9 DEF Restart
    <2>2. active' = None /\ pending' = None /\ outcome' = None /\ frame' = "observe"
          /\ handled' = FALSE /\ lives' \in Nat
      BY <2>1 DEF NewProcess, FrameTypes
    <2>3. frame' # "publish"
      BY <2>2
    <2> QED BY <1>3, <2>1, <2>2, <2>3 DEF FrameTypes
  <1>10. CASE UNCHANGED <<active, frame, pending, outcome, handled, created, applied, lives>>
    BY <1>10 DEF FrameTypes
  <1>11. \/ UNCHANGED <<active, frame, pending, outcome, handled, created, applied, lives>>
         \/ Frame \/ Restart
    BY DEF Next, Serve, Issue, Lapse, Repeat, Refuse, RefusePersisted, Accept, Mark,
       Answer, AnswerThrottled, AnswerTimesOut, Put, ThreadEnds, vars, frameVars
  <1> QED BY <1>4, <1>5, <1>6, <1>7, <1>8, <1>9, <1>10, <1>11 DEF Frame

LEMMA TypesFirst == ASSUME Init PROVE LinkTypeOK
  <1> USE DEF Init
  <1>1. OperatorTypes
    BY LinkAssumption DEF OperatorTypes
  <1>2. FileTypes
    BY LinkAssumption DEF FileTypes
  <1>3. PlaceTypes
    BY LinkAssumption DEF PlaceTypes, Places, Idle
  <1>4. MemoryTypes
    BY LinkAssumption DEF MemoryTypes
  <1>5. CacheTypes
    <2>1. Window \in Nat
      BY LinkAssumption
    <2> QED BY <2>1 DEF CacheTypes
  <1>6. QueueTypes
    <2>1. QueueLimit \in Nat
      BY LinkAssumption
    <2> QED BY <2>1 DEF QueueTypes
  <1>7. FrameTypes
    <2>1. applied \in Seq([command : Commands, challenge : 1 .. created]) /\ lives \in Nat
      BY SMT
    <2> QED BY <2>1 DEF FrameTypes
  <1> QED BY <1>1, <1>2, <1>3, <1>4, <1>5, <1>6, <1>7 DEF LinkTypeOK

LEMMA TypesKept == ASSUME LinkTypeOK, [Next]_vars PROVE LinkTypeOK'
  BY OperatorTypesKept, FileTypesKept, ThreadTypesKept, CacheTypesKept, QueueTypesKept,
     FrameTypesKept DEF LinkTypeOK

\* Whatever is sent, lost, repeated or restarted, every cache, window and queue
\* of the link stays within its limit.
THEOREM LinkTypes == Spec => []LinkTypeOK
  <1>1. Init => LinkTypeOK
    BY TypesFirst
  <1>2. LinkTypeOK /\ [Next]_vars => LinkTypeOK'
    BY TypesKept
  <1> QED BY <1>1, <1>2, PTL DEF Spec

------------------------------------------------------------------------------
(***************************************************************************)
(* What has been accepted.  A command is accepted once the operator has    *)
(* been told so, or as long as this process holds the verdict.             *)
(***************************************************************************)
Ack(i) == [command |-> i, allowed |-> TRUE]
Accepted ==
  {i \in Commands : \/ Ack(i) \in answers
                    \/ thread.allowed /\ thread.command = i
                    \/ cached[i] = TRUE}

LEMMA AcceptedAreIssued == ASSUME LinkTypeOK, NEW i \in Accepted PROVE Issued(i)
  <1>1. CASE Ack(i) \in answers
    BY <1>1 DEF LinkTypeOK, OperatorTypes, Ack
  <1>2. CASE thread.allowed /\ thread.command = i
    BY <1>2, LinkAssumption DEF LinkTypeOK, PlaceTypes, Accepted, Commands
  <1>3. CASE cached[i] = TRUE
    <2>1. i \in Commands /\ cached[i] # None /\ KindOf(i) \in Kinds
      BY <1>3, LinkAssumption, KindsOfCommands DEF Accepted
    <2>2. i \in Elements(order[KindOf(i)]) /\ order[KindOf(i)] \in Seq(OfKind(KindOf(i)))
      BY <2>1 DEF LinkTypeOK, CacheTypes
    <2> QED BY <2>2 DEF Elements, OfKind
  <1> QED BY <1>1, <1>2, <1>3 DEF Accepted

\* Keeping a result makes no other command an accepted one.
LEMMA KeptAccepts ==
  ASSUME LinkTypeOK, NEW i \in Commands, Issued(i), NEW allowed \in BOOLEAN,
         KeepResult(i, allowed)
  PROVE  /\ cached'[i] = allowed
         /\ \A j \in Commands \ {i} : cached'[j] = TRUE => cached[j] = TRUE
  <1>1. ResultsOK(Results)
    BY DEF LinkTypeOK, CacheTypes, ResultsOK, Results
  <1>2. cached' = Keep(Results, i, allowed).cached
    BY DEF KeepResult
  <1>3. Results.cached = cached
    BY DEF Results
  <1>4. /\ Keep(Results, i, allowed).cached[i] = allowed
        /\ \A j \in Commands \ {i} :
             Keep(Results, i, allowed).cached[j] = TRUE => Results.cached[j] = TRUE
    BY <1>1, KeepKeeps
  <1> QED BY <1>2, <1>3, <1>4

\* Only Accept accepts.
LEMMA AcceptedMoves ==
  ASSUME LinkTypeOK, [Next]_vars, NEW j \in Accepted'
  PROVE  j \in Accepted \/ Accept(j)
  <1> USE DEF LinkTypeOK
  <1>1. j \in Commands /\ (Ack(j) \in answers' \/ (thread'.allowed /\ thread'.command = j)
                           \/ cached'[j] = TRUE)
    BY DEF Accepted, Commands, Ack
  <1>2. CASE UNCHANGED <<answers, thread, cached>>
    BY <1>1, <1>2 DEF Accepted
  <1>3. ASSUME NEW i \in Commands, Repeat(i) PROVE j \in Accepted
    <2>1. UNCHANGED <<answers, cached>> /\ thread' = Handling("answer", i, cached[i], FALSE)
          /\ cached[i] \in BOOLEAN
      BY <1>3 DEF Repeat, cacheVars, CacheTypes
    <2>2. thread'.command = i /\ thread'.allowed = cached[i]
      BY <2>1 DEF Handling
    <2> QED BY <1>1, <2>1, <2>2 DEF Accepted
  <1>4. ASSUME NEW i \in Commands, Refuse(i) PROVE j \in Accepted
    <2>1. UNCHANGED answers /\ ~thread'.allowed /\ Issued(i)
          /\ (KeepResult(i, FALSE) \/ UNCHANGED cached)
      BY <1>4 DEF Refuse, Handling, Arrives
    <2>2. cached'[j] = TRUE => cached[j] = TRUE
      BY <1>1, <2>1, KeptAccepts
    <2> QED BY <1>1, <2>1, <2>2 DEF Accepted
  <1>5. ASSUME NEW i \in Commands, RefusePersisted(i) PROVE j \in Accepted
    <2> DEFINE once == IF about[i] = Selection THEN Results ELSE Keep(Results, i, TRUE)
    <2>1. UNCHANGED answers /\ ~thread'.allowed /\ Issued(i)
          /\ cached' = Keep(once, i, FALSE).cached
      BY <1>5 DEF RefusePersisted, Handling, Arrives
    <2>2. ResultsOK(Results)
      BY DEF CacheTypes, ResultsOK, Results
    <2>3. ResultsOK(Keep(Results, i, TRUE))
          /\ \A c \in Commands \ {i} : Keep(Results, i, TRUE).cached[c] = TRUE => cached[c] = TRUE
      <3>1. Results.cached = cached
        BY DEF Results
      <3>2. ResultsOK(Keep(Results, i, TRUE))
            /\ \A c \in Commands \ {i} :
                 Keep(Results, i, TRUE).cached[c] = TRUE => Results.cached[c] = TRUE
        BY <2>1, <2>2, KeepKeeps
      <3> QED BY <3>1, <3>2
    <2>4. ResultsOK(once) /\ \A c \in Commands \ {i} : once.cached[c] = TRUE => cached[c] = TRUE
      BY <2>2, <2>3 DEF Results
    <2> HIDE DEF once
    <2>5. Keep(once, i, FALSE).cached[i] = FALSE
          /\ \A c \in Commands \ {i} : Keep(once, i, FALSE).cached[c] = TRUE => once.cached[c] = TRUE
      BY <2>1, <2>4, KeepKeeps
    <2> QED BY <1>1, <2>1, <2>4, <2>5 DEF Accepted
  <1>6. ASSUME NEW i \in Commands, Accept(i) PROVE j \in Accepted \/ j = i
    <2>1. UNCHANGED answers /\ thread'.command = i /\ Issued(i)
          /\ (KeepResult(i, TRUE) \/ UNCHANGED cached)
      BY <1>6 DEF Accept, Handling, Arrives
    <2>2. j # i /\ cached'[j] = TRUE => cached[j] = TRUE
      BY <1>1, <2>1, KeptAccepts
    <2> QED BY <1>1, <2>1, <2>2 DEF Accepted
  <1>7. CASE Mark
    <2>1. UNCHANGED answers /\ thread'.command = thread.command /\ thread.allowed
          /\ thread.command \in Commands /\ Issued(thread.command)
          /\ (KeepResult(thread.command, TRUE) \/ UNCHANGED cached)
      BY <1>7 DEF Mark, PlaceTypes, Places
    <2>2. j # thread.command /\ cached'[j] = TRUE => cached[j] = TRUE
      BY <1>1, <2>1, KeptAccepts
    <2> QED BY <1>1, <2>1, <2>2 DEF Accepted
  <1>8. CASE Answer
    <2>1. UNCHANGED cached /\ thread \in [at : Places, command : Commands \union {None},
                                          allowed : BOOLEAN, fresh : BOOLEAN]
          /\ answers' = answers \union {[command |-> thread.command, allowed |-> thread.allowed]}
          /\ (thread'.allowed => thread.allowed /\ thread'.command = thread.command)
      BY <1>8 DEF Answer, cacheVars, PlaceTypes, Idle
    <2>2. Ack(j) \in answers' => Ack(j) \in answers \/ (thread.allowed /\ thread.command = j)
      BY <2>1 DEF Ack
    <2> QED BY <1>1, <2>1, <2>2 DEF Accepted
  <1>9. CASE AnswerThrottled \/ AnswerTimesOut \/ Put \/ ThreadEnds
    <2>1. UNCHANGED <<answers, cached>> /\ ~thread'.allowed
      BY <1>9 DEF AnswerThrottled, AnswerTimesOut, Put, ThreadEnds, cacheVars, Idle, Dead
    <2> QED BY <1>1, <2>1 DEF Accepted
  <1>10. CASE Restart
    <2>1. UNCHANGED answers /\ ~thread'.allowed /\ cached' = [i \in Commands |-> None]
      BY <1>10 DEF Restart, NewProcess, Idle
    <2> QED BY <1>1, <2>1, LinkAssumption DEF Accepted
  <1>11. \/ UNCHANGED <<answers, thread, cached>>
         \/ Mark \/ Answer \/ AnswerThrottled \/ AnswerTimesOut \/ Put \/ ThreadEnds \/ Restart
         \/ \E i \in Commands : Repeat(i) \/ Refuse(i) \/ RefusePersisted(i) \/ Accept(i)
    BY DEF Next, Serve, Frame, Issue, Lapse, Observe, Publish, Poll, Apply, EndFrame, vars,
       cacheVars
  <1> QED BY <1>2, <1>3, <1>4, <1>5, <1>6, <1>7, <1>8, <1>9, <1>10, <1>11

------------------------------------------------------------------------------
(***************************************************************************)
(* The inductive invariant.                                                *)
(***************************************************************************)
\* The sidecar's sequence number is that of the latest command of the kind
\* that was accepted, or of a later one whose verdict died with a process.
MarkInv ==
  \A k \in Kinds :
    IF high[k] = None
      THEN \A i \in Accepted : KindOf(i) # k
      ELSE \E h \in Commands : /\ high[k] = SequenceOf(h)
                               /\ \A i \in Accepted : KindOf(i) = k => i <= h

\* What is on its way to the frame loop has been acknowledged.
AckInv ==
  /\ thread.at = "put" => Ack(thread.command) \in answers
  /\ \A k \in Kinds : /\ \A j \in DOMAIN queue[k] : Ack(queue[k][j]) \in answers
                      /\ \A j \in DOMAIN taken[k] : Ack(taken[k][j]) \in answers

\* Taken commands, then queued ones, then the one that is being handled come
\* in the order of issue.
Increasing(s) == \A m, n \in DOMAIN s : m < n => s[m] < s[n]
Before(s, i) == \A m \in DOMAIN s : s[m] < i
Handled(i) == thread.command = i /\ thread.allowed /\ thread.fresh
PipeInv ==
  \A k \in Kinds :
    /\ Increasing(taken[k]) /\ Increasing(queue[k])
    /\ \A n \in DOMAIN queue[k] : Before(taken[k], queue[k][n])
    /\ \A i \in Commands : Handled(i) /\ KindOf(i) = k
                             => Before(taken[k], i) /\ Before(queue[k], i)

\* A challenge with an accepted decision is one the guard remembers, or one
\* that no part of the process can bring back.
Present == {active, pending, outcome}
DecisionInv ==
  /\ \A i, j \in Accepted : about[i] = about[j] /\ about[i] # Selection => i = j
  /\ thread.at # "dead" =>
       \A i \in Accepted : \/ about[i] = Selection \/ about[i] \in decided \/ about[i] \notin Present
                           \/ thread.at = "accepted" /\ thread.command = i

\* A challenge that was decided does not wait any more.
AppliedInv ==
  /\ \A j \in DOMAIN applied : /\ about[applied[j].command] = applied[j].challenge
                               /\ applied[j].challenge # pending
  /\ \A j, m \in DOMAIN applied : applied[j].challenge = applied[m].challenge => j = m

LinkInv == LinkTypeOK /\ MarkInv /\ AckInv /\ PipeInv /\ DecisionInv /\ AppliedInv

\* Every accepted command of the kind is earlier than the one that is accepted now.
LEMMA AcceptedAreEarlier ==
  ASSUME MarkInv, NEW j \in Commands, Accept(j), NEW i \in Accepted, KindOf(i) = KindOf(j)
  PROVE  i < j
  <1>1. KindOf(j) \in Kinds /\ NewerThan(high[KindOf(j)], j) /\ i \in Commands
    BY KindsOfCommands DEF Accept, Accepted
  <1>2. high[KindOf(j)] # None
    BY <1>1 DEF MarkInv
  <1>3. PICK h \in Commands : high[KindOf(j)] = SequenceOf(h) /\ i <= h
    BY <1>1, <1>2 DEF MarkInv
  <1>4. SerialIsNewer(SequenceOf(j), SequenceOf(h))
    BY <1>1, <1>2, <1>3 DEF NewerThan
  <1>5. h < j
    BY <1>4, NewerIsLater
  <1> QED BY <1>1, <1>3, <1>5, LinkAssumption DEF Commands

LEMMA MarkKept == ASSUME LinkInv, [Next]_vars PROVE MarkInv'
  <1>1. LinkTypeOK /\ MarkInv
    BY DEF LinkInv
  <1>2. \A i \in Accepted : KindOf(i)' = KindOf(i)
    BY <1>1, AcceptedAreIssued, NothingIsUnsaid DEF Accepted
  <1>3. ASSUME NEW j \in Commands, Accept(j), NEW k \in Kinds
        PROVE  IF high'[k] = None
                 THEN \A i \in Accepted' : KindOf(i)' # k
                 ELSE \E h \in Commands : /\ high'[k] = SequenceOf(h)
                                          /\ \A i \in Accepted' : KindOf(i)' = k => i <= h
    <2>1. \A i \in Accepted' : i \in Accepted \/ i = j
      <3>1. ASSUME NEW i \in Accepted', Accept(i) PROVE i = j
        <4>1. thread'.command = i /\ thread'.command = j
          BY <1>3, <3>1 DEF Accept, Handling
        <4> QED BY <4>1
      <3> QED BY <1>1, <3>1, AcceptedMoves
    <2>2. Issued(j) /\ high' = [high EXCEPT ![KindOf(j)] = SequenceOf(j)] /\ KindOf(j) \in Kinds
      BY <1>3, KindsOfCommands DEF Accept, Arrives, Recorded
    <2>3. KindOf(j)' = KindOf(j)
      BY <1>1, <2>2, NothingIsUnsaid
    <2>4. CASE k = KindOf(j)
      <3>1. high'[k] = SequenceOf(j)
        BY <1>1, <2>2, <2>4 DEF LinkTypeOK, FileTypes
      <3>2. high'[k] # None
        BY <3>1, SequenceWraps, LinkAssumption
      <3>3. \A i \in Accepted' : KindOf(i)' = k => i <= j
        <4>1. ASSUME NEW i \in Accepted, KindOf(i)' = k PROVE i <= j
          <5>1. KindOf(i) = KindOf(j)
            BY <1>2, <2>4, <4>1
          <5>2. i < j
            BY <1>1, <1>3, <5>1, AcceptedAreEarlier
          <5> QED BY <5>2, LinkAssumption DEF Accepted, Commands
        <4>2. j <= j
          BY LinkAssumption DEF Commands
        <4> QED BY <2>1, <4>1, <4>2
      <3> QED BY <3>1, <3>2, <3>3
    <2>5. CASE k # KindOf(j)
      <3>1. high'[k] = high[k]
        BY <1>1, <2>2, <2>5 DEF LinkTypeOK, FileTypes
      <3>2. \A i \in Accepted' : KindOf(i)' = k => i \in Accepted /\ KindOf(i) = k
        BY <1>2, <2>1, <2>3, <2>5
      <3>3. CASE high[k] = None
        BY <1>1, <3>1, <3>2, <3>3 DEF MarkInv
      <3>4. CASE high[k] # None
        <4>1. PICK h \in Commands : high[k] = SequenceOf(h)
                                    /\ \A i \in Accepted : KindOf(i) = k => i <= h
          BY <1>1, <3>4 DEF MarkInv
        <4> QED BY <3>1, <3>2, <3>4, <4>1
      <3> QED BY <3>3, <3>4
    <2> QED BY <2>4, <2>5
  <1>4. CASE \E j \in Commands : Accept(j)
    <2>1. PICK j \in Commands : Accept(j)
      BY <1>4
    <2>2. (Commands)' = Commands /\ \A h \in Commands : SequenceOf(h)' = SequenceOf(h)
      BY DEF Commands, SequenceOf
    <2>3. \A k \in Kinds : (high[k])' = high'[k]
      OBVIOUS
    <2> QED BY <1>3, <2>1 DEF MarkInv, SequenceOf
  <1>5. CASE ~\E j \in Commands : Accept(j)
    <2>1. UNCHANGED high
      BY <1>5 DEF Next, Serve, Frame, Issue, Lapse, Repeat, Refuse, RefusePersisted, Mark,
         Answer, AnswerThrottled, AnswerTimesOut, Put, ThreadEnds, Observe, Publish, Poll, Apply, EndFrame,
         Restart, Loaded, vars, fileVars
    <2>2. \A i \in Accepted' : i \in Accepted /\ KindOf(i)' = KindOf(i)
      BY <1>1, <1>2, <1>5, AcceptedMoves DEF Accepted, Commands
    <2> QED BY <1>1, <2>1, <2>2 DEF MarkInv, SequenceOf
  <1> QED BY <1>4, <1>5

LEMMA AckKept == ASSUME LinkInv, [Next]_vars PROVE AckInv'
  <1> USE DEF LinkInv
  <1>1. answers \subseteq answers'
    BY DEF Next, Serve, Frame, Issue, Lapse, Repeat, Refuse, RefusePersisted, Accept, Mark,
       Answer, AnswerThrottled, AnswerTimesOut, Put, ThreadEnds, Observe, Publish, Poll, Apply, EndFrame,
       Restart, vars
  <1> DEFINE Said(s) == \A j \in DOMAIN s : Ack(s[j]) \in answers
             SaidNext(s) == \A j \in DOMAIN s : Ack(s[j]) \in answers'
  <1>2. ASSUME NEW s, Said(s) PROVE SaidNext(s)
    BY <1>1, <1>2
  <1>3. ASSUME UNCHANGED <<queue, taken>>, thread'.at = "put" => Ack(thread'.command) \in answers'
        PROVE  AckInv'
    BY <1>1, <1>3 DEF AckInv, Ack
  <1>4. ASSUME UNCHANGED <<queue, taken>>, thread' = thread \/ thread'.at # "put"
        PROVE  AckInv'
    BY <1>1, <1>3, <1>4 DEF AckInv
  <1>5. CASE Answer
    <2>1. UNCHANGED <<queue, taken>>
          /\ answers' = answers \union {[command |-> thread.command, allowed |-> thread.allowed]}
          /\ thread' = IF thread.allowed /\ thread.fresh THEN [thread EXCEPT !.at = "put"] ELSE Idle
      BY <1>5 DEF Answer, frameVars
    <2>2. thread'.at = "put" => thread.allowed = TRUE /\ thread'.command = thread.command
      BY <2>1 DEF Idle, LinkTypeOK, PlaceTypes
    <2>3. thread'.at = "put" => Ack(thread'.command) \in answers'
      <3> SUFFICES ASSUME thread'.at = "put" PROVE Ack(thread'.command) \in answers'
        OBVIOUS
      <3>1. [command |-> thread.command, allowed |-> thread.allowed] = Ack(thread.command)
        BY <2>2 DEF Ack
      <3> QED BY <2>1, <2>2, <3>1
    <2> QED BY <1>3, <2>1, <2>3
  <1>6. CASE Put
    <2> DEFINE k == KindOf(thread.command)
    <2>1. thread.command \in Commands /\ thread.at = "put" /\ thread'.at = "idle"
          /\ UNCHANGED <<answers, taken>>
      BY <1>6 DEF Put, LinkTypeOK, PlaceTypes, Places, frameVars, Idle
    <2>2. k \in Kinds /\ Ack(thread.command) \in answers
      BY <2>1, KindsOfCommands DEF AckInv
    <2>3. queue' = queue \/ queue' = [queue EXCEPT ![k] = Append(@, thread.command)]
      BY <1>6 DEF Put
    <2> HIDE DEF k
    <2>4. ASSUME NEW n \in Kinds, NEW j \in DOMAIN queue'[n] PROVE Ack(queue'[n][j]) \in answers
      <3>1. queue[n] \in Seq(OfKind(n)) /\ queue[k] \in Seq(OfKind(k)) /\ DOMAIN queue = Kinds
        BY <2>2 DEF LinkTypeOK, QueueTypes
      <3>2. CASE queue'[n] = queue[n]
        BY <2>4, <3>2 DEF AckInv
      <3>3. CASE queue'[n] # queue[n]
        <4>1. n = k /\ queue'[n] = Append(queue[k], thread.command)
          BY <2>2, <2>3, <3>1, <3>3
        <4>2. j \in 1 .. Len(queue[k]) + 1 /\ Len(queue[k]) \in Nat
              /\ DOMAIN queue[k] = 1 .. Len(queue[k])
          BY <2>4, <3>1, <4>1
        <4>3. CASE j = Len(queue[k]) + 1
          BY <2>2, <3>1, <4>1, <4>3
        <4>4. CASE j # Len(queue[k]) + 1
          <5>1. j \in DOMAIN queue[k] /\ queue'[n][j] = queue[k][j]
            BY <3>1, <4>1, <4>2, <4>4
          <5> QED BY <2>2, <5>1 DEF AckInv
        <4> QED BY <4>3, <4>4
      <3> QED BY <3>2, <3>3
    <2> QED BY <2>1, <2>4 DEF AckInv, Ack
  <1>7. CASE Poll
    <2>1. queue' = [k \in Kinds |-> FrameLeave(k)] /\ taken' = [k \in Kinds |-> taken[k] \o FrameTake(k)]
          /\ UNCHANGED <<answers, thread>>
      BY <1>7 DEF Poll
    <2>2. ASSUME NEW k \in Kinds
          PROVE  Said(FrameLeave(k)) /\ Said(taken[k] \o FrameTake(k))
      <3>1. queue[k] \in Seq(OfKind(k)) /\ taken[k] \in Seq(OfKind(k))
            /\ Len(queue[k]) \in Nat /\ Len(taken[k]) \in Nat
        BY DEF LinkTypeOK, QueueTypes
      <3>2. PICK n \in 0 .. Len(queue[k]) :
              /\ FrameTake(k) \in Seq(OfKind(k)) /\ Len(FrameTake(k)) = n
              /\ \A j \in 1 .. n : FrameTake(k)[j] = queue[k][j]
              /\ FrameLeave(k) \in Seq(OfKind(k)) /\ Len(FrameLeave(k)) = Len(queue[k]) - n
              /\ \A j \in 1 .. Len(queue[k]) - n : FrameLeave(k)[j] = queue[k][n + j]
        BY <3>1, FrameParts
      <3>3. Said(queue[k]) /\ Said(taken[k])
        BY DEF AckInv
      <3>4. ASSUME NEW j \in DOMAIN FrameLeave(k) PROVE Ack(FrameLeave(k)[j]) \in answers
        <4>1. j \in 1 .. Len(queue[k]) - n /\ n + j \in DOMAIN queue[k]
          BY <3>1, <3>2
        <4> QED BY <3>2, <3>3, <4>1
      <3>5. ASSUME NEW j \in DOMAIN FrameTake(k) PROVE Ack(FrameTake(k)[j]) \in answers
        <4>1. j \in 1 .. n /\ j \in DOMAIN queue[k]
          BY <3>1, <3>2
        <4> QED BY <3>2, <3>3, <4>1
      <3>6. ASSUME NEW j \in DOMAIN (taken[k] \o FrameTake(k))
            PROVE  Ack((taken[k] \o FrameTake(k))[j]) \in answers
        <4>1. \/ j \in DOMAIN taken[k] /\ (taken[k] \o FrameTake(k))[j] = taken[k][j]
              \/ j - Len(taken[k]) \in DOMAIN FrameTake(k)
                 /\ (taken[k] \o FrameTake(k))[j] = FrameTake(k)[j - Len(taken[k])]
          BY <3>1, <3>2
        <4> QED BY <3>3, <3>5, <4>1
      <3> QED BY <3>4, <3>6
    <2>3. \A k \in Kinds : Said(queue'[k]) /\ Said(taken'[k])
      BY <2>1, <2>2
    <2> QED BY <2>1, <2>3 DEF AckInv, Ack
  <1>8. CASE Restart
    <2>1. UNCHANGED <<answers, taken>> /\ thread'.at = "idle" /\ queue' = [k \in Kinds |-> <<>>]
      BY <1>8 DEF Restart, NewProcess, Idle
    <2> QED BY <2>1 DEF AckInv, Ack
  <1>9. \/ UNCHANGED <<queue, taken>> /\ (thread' = thread \/ thread'.at # "put")
        \/ Answer \/ Put \/ Poll \/ Restart
    <2>1. CASE Mark
      BY <2>1 DEF Mark, frameVars, LinkTypeOK, PlaceTypes
    <2>2. CASE AnswerThrottled \/ AnswerTimesOut \/ ThreadEnds
      BY <2>2 DEF AnswerThrottled, AnswerTimesOut, ThreadEnds, frameVars, Idle, Dead
    <2>3. CASE \E i \in Commands : Repeat(i) \/ Refuse(i) \/ RefusePersisted(i) \/ Accept(i)
      <3>1. PICK i \in Commands : Repeat(i) \/ Refuse(i) \/ RefusePersisted(i) \/ Accept(i)
        BY <2>3
      <3>2. UNCHANGED <<queue, taken>>
        BY <3>1 DEF Repeat, Refuse, RefusePersisted, Accept, frameVars
      <3>3. \E at \in {"answer", "accepted"}, allowed \in BOOLEAN \union {None}, fresh \in BOOLEAN :
              thread' = Handling(at, i, allowed, fresh)
        BY <3>1 DEF Repeat, Refuse, RefusePersisted, Accept, LinkTypeOK, CacheTypes
      <3>4. thread'.at # "put"
        BY <3>3 DEF Handling
      <3> QED BY <3>2, <3>4
    <2> QED BY <2>1, <2>2, <2>3 DEF Next, Serve, Frame, Issue, Lapse, Observe, Publish, Apply,
       EndFrame, vars, frameVars
  <1> QED BY <1>4, <1>5, <1>6, <1>7, <1>8, <1>9

LEMMA DecisionKept == ASSUME LinkInv, [Next]_vars PROVE DecisionInv'
  <1> USE DEF LinkInv
  <1>1. \A i \in Accepted : Issued(i) /\ about'[i] = about[i]
                            /\ (about[i] # Selection => about[i] \in 1 .. created)
    <2>1. \A i \in Accepted : i \in Commands /\ Issued(i)
      BY AcceptedAreIssued DEF Accepted
    <2>2. \A i \in Commands : Issued(i) /\ about[i] # Selection => about[i] \in 1 .. created
      BY DEF LinkTypeOK, OperatorTypes, Issued
    <2> QED BY <2>1, <2>2, NothingIsUnsaid
  <1>2. ASSUME NEW c \in 1 .. created, c \notin Present, ~(\E i \in Commands : Accept(i)) PROVE c \notin Present'
    <2>1. c # None /\ created \in Nat
      BY LinkAssumption DEF LinkTypeOK, OperatorTypes
    <2>2. CASE UNCHANGED <<active, pending, outcome>>
      BY <1>2, <2>2 DEF Present
    <2>3. CASE Observe
      BY <1>2, <2>1, <2>3 DEF Observe, Present
    <2>4. CASE Poll
      BY <1>2, <2>1, <2>4 DEF Poll, Present
    <2>5. CASE Publish
      BY <1>2, <2>1, <2>5 DEF Publish, Present
    <2>6. CASE Apply
      BY <1>2, <2>1, <2>6 DEF Apply, Carry, Present
    <2>7. CASE EndFrame
      BY <1>2, <2>1, <2>7 DEF EndFrame, Present
    <2>8. CASE Restart
      BY <1>2, <2>1, <2>8 DEF Restart, NewProcess, Present
    <2>9. UNCHANGED <<active, pending, outcome>> \/ Frame \/ Restart
      BY <1>2 DEF Next, Serve, Issue, Lapse, Repeat, Refuse, RefusePersisted, Mark, Answer,
         AnswerThrottled, AnswerTimesOut, Put, ThreadEnds, vars, frameVars
    <2> QED BY <2>2, <2>3, <2>4, <2>5, <2>6, <2>7, <2>8, <2>9 DEF Frame
  <1>3. ASSUME NEW j \in Commands, Accept(j) PROVE DecisionInv'
    <2>1. /\ thread.at = "idle" /\ Issued(j) /\ about[j] # None
          /\ about[j] # Selection => about[j] = active /\ active \notin decided
          /\ thread'.at = "accepted" /\ thread'.command = j
          /\ UNCHANGED <<decided, active, pending, outcome, about>>
      BY <1>3 DEF Accept, Arrives, Heard, Acceptable, Handling, Issued, operatorVars, frameVars
    <2>2. \A i \in Accepted' : i \in Accepted \/ i = j
      <3>1. ASSUME NEW i \in Accepted', Accept(i) PROVE i = j
        <4>1. thread'.command = i /\ thread'.command = j
          BY <1>3, <3>1 DEF Accept, Handling
        <4> QED BY <4>1
      <3> QED BY <3>1, AcceptedMoves
    <2>3. \A i \in Accepted : about[i] = about[j] => about[j] = Selection
      BY <2>1 DEF DecisionInv, Present
    <2>4. \A i, m \in Accepted' : about'[i] = about'[m] /\ about'[i] # Selection => i = m
      BY <2>1, <2>2, <2>3 DEF DecisionInv
    <2>5. \A i \in Accepted' : \/ about'[i] = Selection
                               \/ about'[i] \in decided'
                               \/ about'[i] \notin Present'
                               \/ (thread'.at = "accepted" /\ thread'.command = i)
      <3>1. Present' = Present
        BY <2>1 DEF Present
      <3>2. \A i \in Accepted : \/ about[i] = Selection \/ about[i] \in decided
                                \/ about[i] \notin Present
        BY <2>1 DEF DecisionInv
      <3> SUFFICES ASSUME NEW i \in Accepted'
                   PROVE  \/ about'[i] = Selection
                          \/ about'[i] \in decided'
                          \/ about'[i] \notin Present'
                          \/ (thread'.at = "accepted" /\ thread'.command = i)
        OBVIOUS
      <3>3. CASE i # j
        <4>1. i \in Accepted
          BY <2>2, <3>3
        <4> QED BY <2>1, <3>1, <3>2, <4>1
      <3>4. CASE i = j
        BY <2>1, <3>4
      <3> QED BY <3>3, <3>4
    <2> QED BY <2>4, <2>5 DEF DecisionInv, Present
  <1>4. CASE ~\E j \in Commands : Accept(j)
    <2>1. \A i \in Accepted' : i \in Accepted
      BY <1>4, AcceptedMoves DEF Accepted, Commands
    <2>2. \A i, m \in Accepted' : about'[i] = about'[m] /\ about'[i] # Selection => i = m
      BY <1>1, <2>1 DEF DecisionInv
    <2>3. ASSUME NEW i \in Accepted', thread'.at # "dead", about[i] # Selection
          PROVE  \/ about[i] \in decided' \/ about[i] \notin Present'
                 \/ thread'.at = "accepted" /\ thread'.command = i
      <3>1. i \in Accepted /\ about[i] \in 1 .. created
        BY <1>1, <2>1, <2>3
      <3>2. CASE about[i] \notin Present
        BY <1>2, <1>4, <3>1, <3>2 DEF Present
      <3>3. CASE Restart
        <4>1. active' = None /\ pending' = None /\ outcome' = None
          BY <3>3 DEF Restart, NewProcess
        <4>2. about[i] # None
          BY <3>1, LinkAssumption DEF LinkTypeOK, OperatorTypes
        <4>3. about[i] \notin {active', pending', outcome'}
          BY <4>1, <4>2
        <4> QED BY <4>3 DEF Present
      <3>4. CASE about[i] \in Present /\ ~Restart
        <4>1. thread.at # "dead"
          BY <2>3, <3>4, <1>4 DEF Next, Serve, Frame, Issue, Lapse, Repeat, Refuse,
             RefusePersisted, Mark, Answer, AnswerThrottled, AnswerTimesOut, Put, ThreadEnds, Observe, Publish,
             Poll, Apply, EndFrame, vars, Arrives, Handling, frameVars
        <4>2. about[i] \in decided \/ (thread.at = "accepted" /\ thread.command = i)
          BY <2>3, <3>1, <3>4, <4>1 DEF DecisionInv
        <4>3. decided \subseteq decided'
          BY <1>4, <3>4 DEF Next, Serve, Frame, Issue, Lapse, Repeat, Refuse,
             RefusePersisted, Mark, Answer, AnswerThrottled, AnswerTimesOut, Put, ThreadEnds, Observe, Publish,
             Poll, Apply, EndFrame, vars, cacheVars, frameVars
        <4>4. CASE thread.at = "accepted" /\ thread.command = i
          <5>1. UNCHANGED thread \/ Mark \/ ThreadEnds
            BY <1>4, <3>4, <4>4 DEF Next, Serve, Frame, Issue, Lapse, Repeat, Refuse,
               RefusePersisted, Answer, AnswerThrottled, AnswerTimesOut, Put, Observe, Publish,
               Poll, Apply, EndFrame, vars, Arrives, frameVars
          <5>2. CASE UNCHANGED thread
            BY <4>4, <5>2
          <5>3. CASE Mark
            BY <2>3, <4>4, <5>3 DEF Mark
          <5>4. CASE ThreadEnds
            BY <2>3, <5>4 DEF ThreadEnds, Dead
          <5> QED BY <5>1, <5>2, <5>3, <5>4
        <4> QED BY <4>2, <4>3, <4>4
      <3> QED BY <3>2, <3>3, <3>4
    <2>4. ASSUME NEW i \in Accepted', thread'.at # "dead"
          PROVE  \/ about'[i] = Selection \/ about'[i] \in decided' \/ about'[i] \notin Present'
                 \/ thread'.at = "accepted" /\ thread'.command = i
      <3>1. about'[i] = about[i]
        BY <1>1, <2>1
      <3>2. about[i] # Selection => \/ about[i] \in decided' \/ about[i] \notin Present'
                                    \/ thread'.at = "accepted" /\ thread'.command = i
        BY <2>3, <2>4 DEF Present
      <3> QED BY <3>1, <3>2 DEF Present
    <2> QED BY <2>2, <2>4 DEF DecisionInv, Present
  <1> QED BY <1>3, <1>4

LEMMA AppliedKept == ASSUME LinkInv, [Next]_vars PROVE AppliedInv'
  <1> USE DEF LinkInv
  <1>1. applied \in Seq([command : Commands, challenge : 1 .. created]) /\ created \in Nat
        /\ DOMAIN applied = 1 .. Len(applied) /\ Len(applied) \in Nat
    BY LinkAssumption DEF LinkTypeOK, FrameTypes, OperatorTypes
  <1>2. \A j \in DOMAIN applied : applied[j].command \in Commands
                                  /\ applied[j].challenge \in 1 .. created
    <2>1. ASSUME NEW j \in DOMAIN applied
          PROVE  applied[j] \in [command : Commands, challenge : 1 .. created]
      BY <1>1, ElementOf
    <2> QED BY <2>1
  <1>3. None \notin 1 .. created
    BY <1>1, LinkAssumption
  <1>4. \A j \in DOMAIN applied : about'[applied[j].command] = applied[j].challenge
    <2>1. \A j \in DOMAIN applied : Issued(applied[j].command)
      BY <1>2, <1>3 DEF Issued, AppliedInv
    <2> QED BY <1>2, <2>1, NothingIsUnsaid DEF AppliedInv
  <1>5. ASSUME UNCHANGED applied, pending' \notin 1 .. created \/ pending' = pending
        PROVE  AppliedInv'
    BY <1>2, <1>4, <1>5 DEF AppliedInv
  <1>6. CASE Observe
    <2>1. UNCHANGED applied /\ (pending' = pending \/ pending' = None \/ pending' = created + 1)
      BY <1>6 DEF Observe
    <2> QED BY <1>1, <1>3, <1>5, <2>1
  <1>7. CASE Apply
    <2>1. CASE UNCHANGED applied /\ pending' \in {pending, None}
      BY <1>3, <1>5, <2>1
    <2>2. CASE /\ Matches(Head(polled)) /\ pending = outcome /\ pending' = None
               /\ applied' = Append(applied, [command |-> Head(polled), challenge |-> outcome])
      <3> DEFINE last1 == [command |-> Head(polled), challenge |-> outcome]
      <3>1. UNCHANGED about /\ about[Head(polled)] = outcome /\ outcome # None
        BY <1>7, <2>2 DEF Apply, Matches, operatorVars
      <3>2. outcome \in 1 .. created
        BY <3>1 DEF LinkTypeOK, FrameTypes
      <3>3. DOMAIN applied' = 1 .. Len(applied) + 1 /\ applied'[Len(applied) + 1] = last1
            /\ \A j \in 1 .. Len(applied) : applied'[j] = applied[j]
        BY <1>1, <2>2
      <3>4. \A j \in DOMAIN applied : applied[j].challenge # outcome
        BY <2>2 DEF AppliedInv
      <3>5. \A j \in DOMAIN applied' : about'[applied'[j].command] = applied'[j].challenge
                                       /\ applied'[j].challenge # pending'
        BY <1>1, <1>2, <1>3, <1>4, <2>2, <3>1, <3>2, <3>3
      <3>6. \A j, m \in DOMAIN applied' : applied'[j].challenge = applied'[m].challenge => j = m
        BY <1>1, <3>3, <3>4 DEF AppliedInv
      <3> QED BY <3>5, <3>6 DEF AppliedInv
    <2> QED BY <1>7, <2>1, <2>2 DEF Apply, Carry
  <1>8. CASE EndFrame
    <2>1. UNCHANGED applied /\ (pending' = pending \/ pending' = None)
      BY <1>8 DEF EndFrame
    <2> QED BY <1>3, <1>5, <2>1
  <1>9. CASE Restart
    BY <1>3, <1>5, <1>9 DEF Restart, NewProcess
  <1>10. UNCHANGED <<applied, pending>> \/ Observe \/ Apply \/ EndFrame \/ Restart
    BY DEF Next, Serve, Frame, Issue, Lapse, Repeat, Refuse, RefusePersisted, Accept, Mark,
       Answer, AnswerThrottled, AnswerTimesOut, Put, ThreadEnds, Poll, Publish, vars, frameVars
  <1> QED BY <1>5, <1>6, <1>7, <1>8, <1>9, <1>10

LEMMA PipeKept == ASSUME LinkInv, [Next]_vars PROVE PipeInv'
  <1> USE DEF LinkInv
  <1>1. \A k \in Kinds : /\ queue[k] \in Seq(OfKind(k)) /\ taken[k] \in Seq(OfKind(k))
                         /\ DOMAIN queue[k] = 1 .. Len(queue[k]) /\ Len(queue[k]) \in Nat
                         /\ DOMAIN taken[k] = 1 .. Len(taken[k]) /\ Len(taken[k]) \in Nat
    BY DEF LinkTypeOK, QueueTypes
  <1>2. Commands \subseteq Int /\ (Commands)' = Commands
    BY LinkAssumption DEF Commands
  <1>3. ASSUME NEW k \in Kinds
        PROVE  /\ \A m \in DOMAIN queue[k] : queue[k][m] \in OfKind(k)
               /\ \A m \in DOMAIN taken[k] : taken[k][m] \in OfKind(k)
    BY <1>1
  <1>4. ASSUME NEW i \in Commands, Handled(i) PROVE KindOf(i)' = KindOf(i)
    <2>1. Issued(i)
      BY <1>4, LinkAssumption DEF Handled, LinkTypeOK, PlaceTypes, Commands
    <2> QED BY <2>1, NothingIsUnsaid
  <1>5. ASSUME UNCHANGED <<taken, queue>>,
               ~thread'.allowed \/ ~thread'.fresh
               \/ (thread'.command = thread.command /\ thread.allowed /\ thread.fresh)
        PROVE  PipeInv'
    <2>1. ASSUME NEW i \in Commands, Handled(i)' PROVE Handled(i) /\ KindOf(i)' = KindOf(i)
      <3>1. Handled(i)
        BY <1>5, <2>1 DEF Handled
      <3> QED BY <1>4, <3>1
    <2> QED BY <1>2, <1>5, <2>1 DEF PipeInv, Increasing, Before
  <1>6. ASSUME NEW j \in Commands, Accept(j) PROVE PipeInv'
    <2>1. UNCHANGED <<taken, queue>> /\ thread'.command = j /\ Issued(j)
      BY <1>6 DEF Accept, Handling, Arrives, frameVars
    <2>2. KindOf(j)' = KindOf(j) /\ KindOf(j) \in Kinds
      BY <2>1, NothingIsUnsaid, KindsOfCommands
    <2>3. ASSUME NEW i \in OfKind(KindOf(j)), Ack(i) \in answers PROVE i < j
      <3>1. i \in Accepted /\ KindOf(i) = KindOf(j)
        BY <2>3 DEF Accepted, OfKind
      <3> QED BY <1>6, <3>1, AcceptedAreEarlier
    <2>4. Before(taken[KindOf(j)], j) /\ Before(queue[KindOf(j)], j)
      BY <1>3, <2>2, <2>3 DEF Before, AckInv
    <2>5. ASSUME NEW i \in Commands, Handled(i)' PROVE i = j
      BY <2>1, <2>5 DEF Handled
    <2> QED BY <1>2, <2>1, <2>2, <2>4, <2>5 DEF PipeInv, Increasing, Before
  <1>7. CASE Put
    <2>1. /\ thread.command \in Commands /\ Handled(thread.command) /\ ~thread'.allowed
          /\ UNCHANGED taken
      BY <1>7 DEF Put, LinkTypeOK, PlaceTypes, Places, frameVars, Idle, Handled
    <2>2. queue' = queue
          \/ queue' = [queue EXCEPT ![KindOf(thread.command)] = Append(@, thread.command)]
      BY <1>7 DEF Put
    <2>3. PICK i \in Commands : i = thread.command
      BY <2>1
    <2>4. Handled(i) /\ KindOf(i) \in Kinds /\ i \in Int
      BY <1>2, <2>1, <2>3, KindsOfCommands
    <2>5. Before(taken[KindOf(i)], i) /\ Before(queue[KindOf(i)], i)
      BY <2>4 DEF PipeInv
    <2>6. DOMAIN queue = Kinds
      BY DEF LinkTypeOK, QueueTypes
    <2>7. ASSUME NEW k \in Kinds
          PROVE  Increasing(queue'[k]) /\ \A n \in DOMAIN queue'[k] : Before(taken[k], queue'[k][n])
      <3>1. CASE queue'[k] = queue[k]
        BY <3>1 DEF PipeInv
      <3>2. CASE queue'[k] # queue[k]
        <4> DEFINE q == queue[k]
                   a == Append(q, i)
        <4>1. k = KindOf(i) /\ queue'[k] = a
          BY <2>2, <2>3, <2>6, <3>2
        <4>2. /\ q \in Seq(OfKind(k)) /\ Len(q) \in Nat /\ DOMAIN q = 1 .. Len(q)
              /\ \A m \in DOMAIN q : q[m] \in Int
          BY <1>1, <1>2, <1>3 DEF OfKind
        <4>3. DOMAIN a = 1 .. Len(q) + 1 /\ a[Len(q) + 1] = i
              /\ \A m \in 1 .. Len(q) : a[m] = q[m]
          BY <4>2
        <4>4. Increasing(q) /\ \A n \in DOMAIN q : Before(taken[k], q[n])
          BY DEF PipeInv
        <4>5. Before(taken[k], i) /\ Before(q, i)
          BY <2>5, <4>1
        <4> HIDE DEF q, a
        <4>6. Increasing(a)
          BY <2>4, <4>2, <4>3, <4>4, <4>5 DEF Increasing, Before
        <4>7. \A n \in DOMAIN a : Before(taken[k], a[n])
          BY <4>2, <4>3, <4>4, <4>5
        <4> QED BY <4>1, <4>6, <4>7
      <3> QED BY <3>1, <3>2
    <2>8. \A k \in Kinds : Increasing(taken[k])
      BY DEF PipeInv
    <2> QED BY <2>1, <2>7, <2>8 DEF PipeInv, Increasing, Before, Handled
  <1>8. CASE Poll
    <2>1. queue' = [k \in Kinds |-> FrameLeave(k)] /\ taken' = [k \in Kinds |-> taken[k] \o FrameTake(k)]
          /\ UNCHANGED thread
      BY <1>8 DEF Poll
    <2>2. ASSUME NEW k \in Kinds
          PROVE  /\ Increasing(taken'[k]) /\ Increasing(queue'[k])
                 /\ \A n \in DOMAIN queue'[k] : Before(taken'[k], queue'[k][n])
                 /\ \A i \in Commands : Handled(i) /\ KindOf(i) = k
                                          => Before(taken'[k], i) /\ Before(queue'[k], i)
      <3> DEFINE q == queue[k]
                 t == taken[k]
                 l == queue'[k]
                 u == taken'[k]
      <3>1. /\ q \in Seq(OfKind(k)) /\ Len(q) \in Nat /\ DOMAIN q = 1 .. Len(q)
            /\ t \in Seq(OfKind(k)) /\ Len(t) \in Nat /\ DOMAIN t = 1 .. Len(t)
        BY <1>1
      <3>2. PICK n \in 0 .. Len(queue[k]) :
              /\ FrameTake(k) \in Seq(OfKind(k)) /\ Len(FrameTake(k)) = n
              /\ \A j \in 1 .. n : FrameTake(k)[j] = queue[k][j]
              /\ FrameLeave(k) \in Seq(OfKind(k)) /\ Len(FrameLeave(k)) = Len(queue[k]) - n
              /\ \A j \in 1 .. Len(queue[k]) - n : FrameLeave(k)[j] = queue[k][n + j]
        BY <1>1, FrameParts
      <3>3. n \in Nat /\ n <= Len(q)
        BY <3>1, <3>2
      <3>4. DOMAIN l = 1 .. Len(q) - n /\ \A j \in 1 .. Len(q) - n : l[j] = q[n + j]
        BY <2>1, <3>1, <3>2
      <3>5. u = t \o FrameTake(k)
        BY <2>1
      <3>6. /\ DOMAIN u = 1 .. Len(t) + n
            /\ \A j \in 1 .. Len(t) : u[j] = t[j]
            /\ \A j \in Len(t) + 1 .. Len(t) + n : u[j] = q[j - Len(t)]
        <4> DEFINE f == FrameTake(k)
        <4>1. f \in Seq(OfKind(k)) /\ Len(f) = n /\ \A j \in 1 .. n : f[j] = q[j]
          BY <3>2
        <4>2. u = t \o f
          BY <3>5
        <4> HIDE DEF f, q, t, u
        <4>3. /\ DOMAIN u = 1 .. Len(t) + n
              /\ \A j \in 1 .. Len(t) : u[j] = t[j]
              /\ \A j \in Len(t) + 1 .. Len(t) + n : u[j] = f[j - Len(t)]
          BY <3>1, <4>1, <4>2, Concatenated
        <4>4. \A j \in Len(t) + 1 .. Len(t) + n : j - Len(t) \in 1 .. n
          BY <3>1, <3>3
        <4> QED BY <4>1, <4>3, <4>4
      <3>7. (\A m \in DOMAIN q : q[m] \in Int) /\ (\A m \in DOMAIN t : t[m] \in Int)
        BY <1>2, <1>3 DEF OfKind
      <3>8. /\ Increasing(t) /\ Increasing(q) /\ \A m \in DOMAIN q : Before(t, q[m])
            /\ \A i \in Commands : Handled(i) /\ KindOf(i) = k => Before(t, i) /\ Before(q, i)
        BY DEF PipeInv
      <3> HIDE DEF q, t, l, u
      <3>9. Increasing(l)
        <4> SUFFICES ASSUME NEW a \in DOMAIN l, NEW b \in DOMAIN l, a < b PROVE l[a] < l[b]
          BY DEF Increasing
        <4>1. n + a \in DOMAIN q /\ n + b \in DOMAIN q /\ n + a < n + b
              /\ l[a] = q[n + a] /\ l[b] = q[n + b]
          BY <3>1, <3>3, <3>4
        <4> QED BY <3>8, <4>1 DEF Increasing
      <3>10. \A j \in DOMAIN u : \/ j \in DOMAIN t /\ u[j] = t[j]
                                 \/ /\ j \in Int /\ j > Len(t)
                                    /\ j - Len(t) \in 1 .. n /\ j - Len(t) \in DOMAIN q
                                    /\ u[j] = q[j - Len(t)]
        <4> SUFFICES ASSUME NEW a \in 1 .. Len(t) + n
                     PROVE  \/ a \in DOMAIN t /\ u[a] = t[a]
                            \/ /\ a \in Int /\ a > Len(t)
                               /\ a - Len(t) \in 1 .. n /\ a - Len(t) \in DOMAIN q
                               /\ u[a] = q[a - Len(t)]
          BY <3>6
        <4>1. CASE a <= Len(t)
          <5>1. a \in 1 .. Len(t)
            BY <3>1, <3>3, <4>1
          <5> QED BY <3>1, <3>6, <5>1
        <4>2. CASE ~(a <= Len(t))
          <5>1. a \in Len(t) + 1 .. Len(t) + n /\ a - Len(t) \in 1 .. n /\ a \in Int /\ a > Len(t)
                /\ a - Len(t) \in DOMAIN q
            BY <3>1, <3>3, <4>2
          <5>2. u[a] = q[a - Len(t)]
            BY <3>1, <3>3, <3>6, <5>1
          <5> QED BY <5>1, <5>2
        <4> QED BY <4>1, <4>2
      <3>11. Increasing(u)
        <4> SUFFICES ASSUME NEW a \in DOMAIN u, NEW b \in DOMAIN u, a < b PROVE u[a] < u[b]
          BY DEF Increasing
        <4>1. CASE b \in DOMAIN t
          BY <3>1, <3>6, <3>8, <3>10, <4>1 DEF Increasing
        <4>2. CASE b \notin DOMAIN t /\ a \in DOMAIN t
          BY <3>1, <3>3, <3>6, <3>8, <3>10, <4>2 DEF Before
        <4>3. CASE a \notin DOMAIN t
          <5>1. a \in Int /\ a > Len(t) /\ a - Len(t) \in DOMAIN q /\ u[a] = q[a - Len(t)]
            BY <3>10, <4>3
          <5>2. b \in Int /\ b > Len(t)
            BY <3>1, <3>3, <3>6, <5>1
          <5>3. b - Len(t) \in DOMAIN q /\ u[b] = q[b - Len(t)]
            BY <3>1, <3>10, <5>2
          <5>4. a - Len(t) < b - Len(t)
            BY <3>1, <5>1, <5>2
          <5> QED BY <3>8, <5>1, <5>3, <5>4 DEF Increasing
        <4> QED BY <4>1, <4>2, <4>3
      <3>12. \A m \in DOMAIN l : Before(u, l[m])
        <4> SUFFICES ASSUME NEW m \in DOMAIN l, NEW a \in DOMAIN u PROVE u[a] < l[m]
          BY DEF Before
        <4>1. n + m \in DOMAIN q /\ l[m] = q[n + m]
          BY <3>1, <3>3, <3>4
        <4>2. CASE a \in DOMAIN t /\ u[a] = t[a]
          BY <3>8, <4>1, <4>2 DEF Before
        <4>3. CASE a - Len(t) \in 1 .. n /\ u[a] = q[a - Len(t)]
          BY <3>1, <3>3, <3>4, <3>8, <4>1, <4>3 DEF Increasing
        <4> QED BY <3>10, <4>2, <4>3
      <3>13. ASSUME NEW i \in Commands, Handled(i), KindOf(i) = k PROVE Before(u, i) /\ Before(l, i)
        <4>1. Before(t, i) /\ Before(q, i)
          BY <3>8, <3>13
        <4>2. Before(u, i)
          BY <3>1, <3>3, <3>10, <4>1 DEF Before
        <4>3. Before(l, i)
          BY <3>1, <3>3, <3>4, <4>1 DEF Before
        <4> QED BY <4>2, <4>3
      <3> QED BY <3>9, <3>11, <3>12, <3>13 DEF l, u
    <2>3. ASSUME NEW i \in Commands, Handled(i)' PROVE Handled(i) /\ KindOf(i)' = KindOf(i)
      <3>1. Handled(i)
        BY <2>1, <2>3 DEF Handled
      <3> QED BY <1>4, <3>1
    <2> QED BY <1>2, <2>2, <2>3 DEF PipeInv, Increasing, Before
  <1>9. CASE Restart
    <2>1. UNCHANGED taken /\ ~thread'.allowed /\ queue' = [k \in Kinds |-> <<>>]
      BY <1>9 DEF Restart, NewProcess, Idle
    <2>2. \A k \in Kinds : DOMAIN queue'[k] = {}
      BY <2>1
    <2>3. \A k \in Kinds : Increasing(taken[k])
      BY DEF PipeInv
    <2> QED BY <2>1, <2>2, <2>3 DEF PipeInv, Increasing, Before, Handled
  <1>10. \/ /\ UNCHANGED <<taken, queue>>
            /\ \/ ~thread'.allowed \/ ~thread'.fresh
               \/ thread'.command = thread.command /\ thread.allowed /\ thread.fresh
         \/ Put \/ Poll \/ Restart \/ \E i \in Commands : Accept(i)
    <2>1. CASE Mark
      BY <2>1 DEF Mark, frameVars, LinkTypeOK, PlaceTypes
    <2>2. CASE Answer
      BY <2>2 DEF Answer, frameVars, LinkTypeOK, PlaceTypes, Idle
    <2>3. CASE AnswerThrottled \/ AnswerTimesOut \/ ThreadEnds
      BY <2>3 DEF AnswerThrottled, AnswerTimesOut, ThreadEnds, frameVars, Idle, Dead
    <2>4. CASE \E i \in Commands : Repeat(i) \/ Refuse(i) \/ RefusePersisted(i)
      <3>1. PICK i \in Commands : Repeat(i) \/ Refuse(i) \/ RefusePersisted(i)
        BY <2>4
      <3>2. UNCHANGED <<taken, queue>>
        BY <3>1 DEF Repeat, Refuse, RefusePersisted, frameVars
      <3>3. ~thread'.allowed \/ ~thread'.fresh
        <4>1. CASE Repeat(i)
          BY <4>1 DEF Repeat, Handling
        <4>2. CASE Refuse(i)
          BY <4>2 DEF Refuse, Handling
        <4>3. CASE RefusePersisted(i)
          BY <4>3 DEF RefusePersisted, Handling
        <4> QED BY <3>1, <4>1, <4>2, <4>3
      <3> QED BY <3>2, <3>3
    <2>5. CASE UNCHANGED <<taken, queue, thread>>
      BY <2>5
    <2> QED BY <2>1, <2>2, <2>3, <2>4, <2>5 DEF Next, Serve, Frame, Issue, Lapse, Observe,
       Publish, Apply, EndFrame, vars, frameVars
  <1> QED BY <1>5, <1>6, <1>7, <1>8, <1>9, <1>10

LEMMA LinkInvFirst == ASSUME Init PROVE LinkInv
  <1>1. LinkTypeOK
    BY TypesFirst
  <1>2. Accepted = {}
    BY LinkAssumption DEF Init, Idle, Accepted
  <1>3. MarkInv
    BY <1>2 DEF Init, MarkInv
  <1>4. AckInv
    BY DEF Init, AckInv, Idle
  <1>5. PipeInv
    BY DEF Init, PipeInv, Increasing, Before, Handled, Idle
  <1>6. DecisionInv
    BY <1>2 DEF DecisionInv
  <1>7. AppliedInv
    BY DEF Init, AppliedInv
  <1> QED BY <1>1, <1>3, <1>4, <1>5, <1>6, <1>7 DEF LinkInv

\* The inductive invariant: what waits, what is being handled and what was
\* answered stay in step with the sidecar through every death and restart.
THEOREM LinkInvariant == Spec => []LinkInv
  <1>1. Init => LinkInv
    BY LinkInvFirst
  <1>2. LinkInv /\ [Next]_vars => LinkInv'
    <2> SUFFICES ASSUME LinkInv, [Next]_vars PROVE LinkInv'
      OBVIOUS
    <2>1. LinkTypeOK'
      BY TypesKept DEF LinkInv
    <2> QED BY <2>1, MarkKept, AckKept, PipeKept, DecisionKept, AppliedKept DEF LinkInv
  <1> QED BY <1>1, <1>2, PTL DEF Spec

\* Sequences that increase hold nothing twice.
LEMMA TakenIncreases ==
  ASSUME LinkInv, NEW k \in Kinds
  PROVE  /\ Increasing(taken[k])
         /\ \A m \in DOMAIN taken[k] : m \in Int /\ taken[k][m] \in Int
  <1>1. taken[k] \in Seq(Commands) /\ Increasing(taken[k])
    <2>1. taken[k] \in Seq(OfKind(k)) /\ OfKind(k) \subseteq Commands
      BY KindsOfCommands DEF LinkInv, LinkTypeOK, QueueTypes
    <2> QED BY <2>1, SeqGrows DEF LinkInv, PipeInv
  <1>2. \A m \in DOMAIN taken[k] : taken[k][m] \in Commands
    BY <1>1, ElementOf
  <1>3. \A m \in DOMAIN taken[k] : m \in Int
    BY <1>1
  <1> QED BY <1>1, <1>2, <1>3, LinkAssumption DEF Commands

\* No command takes effect twice, however often its datagram arrives, after
\* its result has left every cache and after any number of restarts.
THEOREM TakesOnce == Spec => []TakenOnce
  <1>1. LinkInv => TakenOnce
    <2> SUFFICES ASSUME LinkInv, NEW k \in Kinds, NEW m \in DOMAIN taken[k],
                        NEW n \in DOMAIN taken[k], taken[k][m] = taken[k][n]
                 PROVE  m = n
      BY DEF TakenOnce
    <2>1. ~(m < n) /\ ~(n < m) /\ m \in Int /\ n \in Int
      BY TakenIncreases DEF Increasing
    <2> QED BY <2>1
  <1> QED BY <1>1, LinkInvariant, PTL

\* Selections take effect in the order of issue, over the wrap of the
\* sequence number, a reordering of the datagrams and a restart.
THEOREM SelectionOrder == Spec => []SelectionsInOrder
  <1>1. LinkInv => SelectionsInOrder
    BY TakenIncreases DEF SelectionsInOrder, Increasing, Kinds
  <1> QED BY <1>1, LinkInvariant, PTL

\* What an accepting answer says of a command.
LEMMA AnswerAccepts ==
  ASSUME LinkTypeOK, NEW x \in answers, x.allowed PROVE x.command \in Accepted
  <1>1. x \in [command : Commands, allowed : BOOLEAN]
    BY DEF LinkTypeOK, OperatorTypes
  <1>2. x.allowed = TRUE /\ x.command \in Commands
    BY <1>1
  <1>3. x = [command |-> x.command, allowed |-> x.allowed]
    BY <1>1
  <1>4. x = Ack(x.command)
    BY <1>2, <1>3 DEF Ack
  <1> QED BY <1>2, <1>4 DEF Accepted

\* At most one decision about a challenge is ever answered as accepted.
THEOREM DecidedOnce == Spec => []OneAcceptedDecision
  <1>1. LinkInv => OneAcceptedDecision
    BY AnswerAccepts DEF LinkInv, DecisionInv, OneAcceptedDecision
  <1> QED BY <1>1, LinkInvariant, PTL

\* A decision is carried out on the challenge it names and on no later one,
\* and no challenge is decided twice.
THEOREM OwnChallenges == Spec => []AppliedIsItsOwn
  <1>1. LinkInv => AppliedIsItsOwn
    BY DEF LinkInv, AppliedInv, AppliedIsItsOwn
  <1> QED BY <1>1, LinkInvariant, PTL

\* Nothing takes effect that the operator was not told of.
THEOREM TakenAcknowledged == Spec => []TakenWasAcknowledged
  <1>1. LinkInv => TakenWasAcknowledged
    BY DEF LinkInv, AckInv, TakenWasAcknowledged, Elements, Ack
  <1> QED BY <1>1, LinkInvariant, PTL

\* An accepted command stays refused for as long as the sidecar is kept.
THEOREM AcceptedRecorded == Spec => []AcceptedIsRecorded
  <1>1. LinkInv => AcceptedIsRecorded
    <2> SUFFICES ASSUME LinkInv, NEW x \in answers, x.allowed
                 PROVE  ~NewerThan(high[KindOf(x.command)], x.command)
      BY DEF AcceptedIsRecorded
    <2> DEFINE i == x.command
    <2>1. i \in Accepted /\ i \in Commands /\ KindOf(i) \in Kinds
      BY AnswerAccepts, KindsOfCommands DEF LinkInv, Accepted
    <2> HIDE DEF i
    <2>2. high[KindOf(i)] # None
      BY <2>1 DEF LinkInv, MarkInv
    <2>3. PICK h \in Commands : high[KindOf(i)] = SequenceOf(h) /\ i <= h
      BY <2>1, <2>2 DEF LinkInv, MarkInv
    <2>4. ~SerialIsNewer(SequenceOf(i), SequenceOf(h))
      <3>1. ~(h < i)
        BY <2>1, <2>3, LinkAssumption DEF Commands
      <3> QED BY <2>1, <3>1, NewerIsLater
    <2>5. ~NewerThan(high[KindOf(i)], i)
      BY <2>2, <2>3, <2>4 DEF NewerThan
    <2> QED BY <2>5 DEF i
  <1> QED BY <1>1, LinkInvariant, PTL
------------------------------------------------------------------------------
(***************************************************************************)
(* The promise to every command.                                           *)
(***************************************************************************)
\* Only decisions that the frame loop has taken reach the mission.
PolledInv == Elements(polled) \subseteq Elements(taken["authorization"])

LEMMA PolledKept == ASSUME LinkInv, PolledInv, [Next]_vars PROVE PolledInv'
  <1>1. polled \in Seq(OfKind("authorization")) /\ LinkTypeOK
    BY DEF LinkInv, LinkTypeOK, QueueTypes
  <1>2. ASSUME UNCHANGED <<polled, taken>> PROVE PolledInv'
    BY <1>2 DEF PolledInv, Elements
  <1>3. CASE Restart
    BY <1>3 DEF Restart, NewProcess, PolledInv, Elements
  <1>4. CASE Apply
    <2>1. polled # <<>> /\ polled' = Tail(polled) /\ UNCHANGED taken
      BY <1>4 DEF Apply
    <2>2. /\ DOMAIN polled' = 1 .. Len(polled) - 1 /\ DOMAIN polled = 1 .. Len(polled)
          /\ Len(polled) \in Nat
          /\ \A m \in 1 .. Len(polled) - 1 : polled'[m] = polled[m + 1]
      BY <1>1, <2>1
    <2>3. Elements(polled') \subseteq Elements(polled)
      BY <2>2 DEF Elements
    <2> QED BY <2>1, <2>3 DEF PolledInv
  <1>5. CASE Poll
    <2> DEFINE k == "authorization"
    <2>1. k \in Kinds /\ taken[k] \in Seq(OfKind(k)) /\ queue[k] \in Seq(OfKind(k))
      BY <1>1 DEF LinkTypeOK, QueueTypes, Kinds
    <2>2. FrameTake(k) \in Seq(OfKind(k))
      BY <2>1, FrameParts
    <2>3. taken'[k] = taken[k] \o FrameTake(k)
      BY <1>5, <2>1 DEF Poll
    <2>4. polled' = FrameTake(k) \/ polled' = <<>>
      BY <1>5 DEF Poll
    <2>5. Elements(FrameTake(k)) \subseteq Elements(taken'[k])
      <3> DEFINE s == taken[k]
                 t == FrameTake(k)
      <3>1. /\ DOMAIN (s \o t) = 1 .. Len(s) + Len(t)
            /\ \A j \in Len(s) + 1 .. Len(s) + Len(t) : (s \o t)[j] = t[j - Len(s)]
            /\ DOMAIN t = 1 .. Len(t) /\ Len(t) \in Nat /\ Len(s) \in Nat
        BY <2>1, <2>2, Concatenated
      <3>2. ASSUME NEW j \in DOMAIN t
            PROVE  Len(s) + j \in DOMAIN (s \o t) /\ (s \o t)[Len(s) + j] = t[j]
        <4> HIDE DEF s, t
        <4>1. j \in Int /\ 1 <= j /\ j <= Len(t)
          BY <3>1
        <4>2. Len(s) + j \in Len(s) + 1 .. Len(s) + Len(t) /\ Len(s) + j - Len(s) = j
          BY <3>1, <4>1
        <4>3. Len(s) + j \in 1 .. Len(s) + Len(t)
          BY <3>1, <4>1
        <4> QED BY <3>1, <4>2, <4>3
      <3> QED BY <2>3, <3>2 DEF Elements
    <2> QED BY <2>4, <2>5 DEF PolledInv, Elements
  <1>6. \/ UNCHANGED <<polled, taken>> \/ Restart \/ Apply \/ Poll
    BY DEF Next, Serve, Frame, Issue, Lapse, Repeat, Refuse, RefusePersisted, Accept, Mark,
       Answer, AnswerThrottled, AnswerTimesOut, Put, ThreadEnds, Observe, Publish, EndFrame, vars, frameVars
  <1> QED BY <1>2, <1>3, <1>4, <1>5, <1>6

Told == {i \in Commands : [command |-> i, allowed |-> TRUE] \in answers}
Passed == [k \in Kinds |-> LatestPassed(k)]

\* A sequence number says which command it belongs to.
LEMMA NumberIsCommand ==
  ASSUME NEW h \in Commands PROVE (SequenceOf(h) - FirstSequence) % Modulus = h
  <1>1. h \in Int /\ 1 <= h /\ h < Modulus /\ Modulus \in Int /\ FirstSequence \in Int
    BY LinkAssumption DEF Commands
  <1>2. CASE SequenceOf(h) = FirstSequence + h
    <2>1. SequenceOf(h) - FirstSequence = h
      BY <1>1, <1>2
    <2> QED BY <1>1, <2>1, ModuloBelow
  <1>3. CASE SequenceOf(h) = FirstSequence + h - Modulus
    <2>1. SequenceOf(h) - FirstSequence = h - Modulus
      BY <1>1, <1>3
    <2>2. (h - Modulus) % Modulus = h - Modulus + Modulus
      BY <1>1, ModuloNegative
    <2> QED BY <1>1, <2>1, <2>2
  <1> QED BY <1>2, <1>3, SequenceWraps

\* The mark is the latest command that was let through.
LEMMA MarkIsCommand ==
  ASSUME NEW k, NEW h \in Commands, high[k] = SequenceOf(h) PROVE LatestPassed(k) = h
  <1>1. high[k] # None
    BY SequenceWraps, LinkAssumption
  <1> QED BY <1>1, NumberIsCommand DEF LatestPassed

LEMMA IssueKeepsPromise ==
  ASSUME LinkInv, NEW i \in Commands, Issue(i)
  PROVE  Promise!Issue(i)
  <1>1. about[i] = None /\ UNCHANGED <<answers, high, taken, applied>>
    BY DEF Issue, Issued, fileVars, frameVars
  <1>2. known \subseteq Challenges
    BY LinkAssumption DEF LinkInv, LinkTypeOK, OperatorTypes, Challenges
  <1>3. \E what \in Challenges \union {Selection} : about' = [about EXCEPT ![i] = what]
    BY <1>2 DEF Issue
  <1> QED BY <1>1, <1>3 DEF Promise!Issue, LatestPassed

LEMMA AcceptKeepsPromise ==
  ASSUME LinkInv, NEW i \in Commands, Accept(i)
  PROVE  Promise!Pass(i)
  <1> DEFINE k == KindOf(i)
  <1>1. /\ Issued(i) /\ NewerThan(high[k], i) /\ high' = [high EXCEPT ![k] = SequenceOf(i)]
        /\ UNCHANGED <<about, answers, taken, applied>>
    BY DEF Accept, Arrives, Recorded, operatorVars, frameVars
  <1>2. k \in Kinds /\ high \in [Kinds -> 0 .. Modulus - 1 \union {None}] /\ i \in Nat /\ 1 <= i
    BY KindsOfCommands, LinkAssumption DEF LinkInv, LinkTypeOK, FileTypes, Commands
  <1>3. i > LatestPassed(k)
    <2>1. CASE high[k] = None
      BY <1>2, <2>1 DEF LatestPassed
    <2>2. CASE high[k] # None
      <3>1. PICK h \in Commands : high[k] = SequenceOf(h)
        BY <1>2, <2>2 DEF LinkInv, MarkInv
      <3>2. SerialIsNewer(SequenceOf(i), SequenceOf(h))
        BY <1>1, <2>2, <3>1 DEF NewerThan
      <3>3. h < i
        BY <3>2, NewerIsLater
      <3> QED BY <1>2, <3>1, <3>3, MarkIsCommand, LinkAssumption DEF Commands
    <2> QED BY <2>1, <2>2
  <1>4. ASSUME NEW c \in Kinds PROVE Passed'[c] = IF c = k THEN i ELSE Passed[c]
    <2>1. CASE c = k
      <3>1. high'[c] = SequenceOf(i) /\ high'[c] # None
        BY <1>1, <1>2, <2>1, SequenceWraps, LinkAssumption DEF Commands
      <3>2. LatestPassed(c)' = i
        BY <3>1, NumberIsCommand DEF LatestPassed
      <3> QED BY <2>1, <3>2 DEF Passed
    <2>2. CASE c # k
      BY <1>1, <1>2, <2>2 DEF Passed, LatestPassed
    <2> QED BY <2>1, <2>2
  <1>5. Passed' = [Passed EXCEPT ![k] = i]
    BY <1>2, <1>4 DEF Passed
  <1>6. k = Promise!Kind(i)
    BY DEF KindOf, Promise!Kind
  <1>7. Passed[k] = LatestPassed(k)
    BY <1>2 DEF Passed
  <1> HIDE DEF k
  <1>8. Promise!Pass(i) <=> /\ about[i] # None
                            /\ i > Passed[Promise!Kind(i)]
                            /\ Passed' = [Passed EXCEPT ![Promise!Kind(i)] = i]
                            /\ UNCHANGED <<about, Told, taken, applied>>
    BY DEF Promise!Pass, Passed, Told
  <1>9. UNCHANGED Told
    BY <1>1 DEF Told
  <1> QED BY <1>1, <1>3, <1>5, <1>6, <1>7, <1>8, <1>9 DEF Issued

\* An accepting answer is for a command at or below the mark, and for the only
\* decision about its challenge.
LEMMA AnswerKeepsPromise ==
  ASSUME LinkInv, Answer
  PROVE  (\E i \in Commands : Promise!Tell(i)) \/ UNCHANGED Told
  <1>1. /\ answers' = answers \union {[command |-> thread.command, allowed |-> thread.allowed]}
        /\ UNCHANGED <<about, high, taken, applied>>
        /\ thread.command \in Commands /\ thread.allowed \in BOOLEAN
    BY DEF Answer, operatorVars, fileVars, frameVars, LinkInv, LinkTypeOK, PlaceTypes, Places
  <1>2. CASE ~thread.allowed
    <2>1. \A i \in Commands : Ack(i) # [command |-> thread.command, allowed |-> thread.allowed]
      BY <1>2 DEF Ack
    <2> QED BY <1>1, <2>1 DEF Told, Ack
  <1>3. CASE thread.allowed
    <2>1. PICK i \in Commands : i = thread.command
      BY <1>1
    <2>2. i \in Accepted /\ Issued(i)
      BY <1>3, <2>1, LinkAssumption DEF Accepted, LinkInv, LinkTypeOK, PlaceTypes, Commands
    <2>3. Told' = Told \union {i}
      <3>1. thread.allowed = TRUE
        BY <1>1, <1>3
      <3>2. answers' = answers \union {Ack(i)}
        BY <1>1, <2>1, <3>1 DEF Ack
      <3>3. \A j \in Commands : Ack(j) = Ack(i) => j = i
        BY DEF Ack
      <3>4. Told = {j \in Commands : Ack(j) \in answers}
            /\ Told' = {j \in Commands : Ack(j) \in answers'}
        BY DEF Told, Ack
      <3> QED BY <3>2, <3>3, <3>4
    <2>4. i <= Passed[KindOf(i)]
      <3>1. KindOf(i) \in Kinds
        BY KindsOfCommands
      <3>2. high[KindOf(i)] # None
        BY <2>2, <3>1 DEF LinkInv, MarkInv
      <3>3. PICK h \in Commands : high[KindOf(i)] = SequenceOf(h) /\ i <= h
        BY <2>2, <3>1, <3>2 DEF LinkInv, MarkInv
      <3>4. LatestPassed(KindOf(i)) = h
        BY <3>3, MarkIsCommand
      <3> QED BY <3>1, <3>3, <3>4 DEF Passed
    <2>5. \A j \in Told : about[j] = about[i] => about[i] = Selection \/ j = i
      <3>1. Told \subseteq Accepted
        BY DEF Told, Accepted, Ack
      <3> QED BY <2>2, <3>1 DEF LinkInv, DecisionInv
    <2>6. Promise!Kind(i) = KindOf(i)
      BY DEF Promise!Kind, KindOf
    <2>7. UNCHANGED Passed
      BY <1>1 DEF Passed, LatestPassed
    <2>8. Promise!Tell(i) <=> /\ about[i] # None
                              /\ i <= Passed[Promise!Kind(i)]
                              /\ \A j \in Told : about[j] = about[i]
                                                => about[i] = Selection \/ j = i
                              /\ Told' = Told \union {i}
                              /\ UNCHANGED <<about, Passed, taken, applied>>
      BY DEF Promise!Tell, Passed, Told
    <2>9. Promise!Tell(i)
      BY <1>1, <2>2, <2>3, <2>4, <2>5, <2>6, <2>7, <2>8 DEF Issued
    <2> QED BY <2>9
  <1> QED BY <1>1, <1>2, <1>3

\* What a frame takes was told, and comes after what was taken before it.
LEMMA PollKeepsPromise ==
  ASSUME LinkInv, LinkInv', Poll
  PROVE  Promise!Take
  <1>1. UNCHANGED <<about, high, answers, applied>>
    BY DEF Poll, operatorVars, fileVars
  <1>2. DOMAIN taken = Kinds /\ DOMAIN taken' = Kinds
    BY DEF LinkInv, LinkTypeOK, QueueTypes
  <1>3. ASSUME NEW k \in Kinds
        PROVE  /\ Len(taken[k]) <= Len(taken'[k])
               /\ \A m \in DOMAIN taken[k] : taken'[k][m] = taken[k][m]
    <2>1. taken[k] \in Seq(OfKind(k)) /\ queue[k] \in Seq(OfKind(k))
      BY DEF LinkInv, LinkTypeOK, QueueTypes
    <2>2. FrameTake(k) \in Seq(OfKind(k))
      BY <2>1, FrameParts
    <2>3. taken'[k] = taken[k] \o FrameTake(k)
      BY DEF Poll
    <2> DEFINE s == taken[k]
               t == FrameTake(k)
    <2>4. /\ Len(s \o t) = Len(s) + Len(t) /\ DOMAIN s = 1 .. Len(s)
          /\ Len(s) \in Nat /\ Len(t) \in Nat
          /\ \A j \in 1 .. Len(s) : (s \o t)[j] = s[j]
      BY <2>1, <2>2
    <2> HIDE DEF t
    <2> QED BY <2>3, <2>4
  <1>4. ASSUME NEW k \in Kinds, NEW m \in DOMAIN taken'[k]
        PROVE  taken'[k][m] \in Told /\ Promise!Kind(taken'[k][m]) = k
    <2>1. taken'[k] \in Seq(OfKind(k)')
      BY DEF LinkInv, LinkTypeOK, QueueTypes
    <2>2. OfKind(k)' = OfKind(k)
      BY <1>1 DEF OfKind, Issued, KindOf, Commands
    <2>3. taken'[k][m] \in OfKind(k)
      BY <2>1, <2>2, ElementOf
    <2>4. Ack(taken'[k][m]) \in answers
      BY <1>1 DEF LinkInv, AckInv, Ack
    <2> QED BY <2>3, <2>4 DEF OfKind, Told, Ack, KindOf, Promise!Kind
  <1>5. ASSUME NEW k \in Kinds, NEW m \in DOMAIN taken'[k], NEW n \in DOMAIN taken'[k], m < n
        PROVE  taken'[k][m] < taken'[k][n]
    BY <1>5 DEF LinkInv, PipeInv, Increasing
  <1>6. UNCHANGED <<Passed, Told>>
    BY <1>1 DEF Passed, LatestPassed, Told
  <1>7. Promise!Take <=>
          /\ \A k \in DOMAIN taken :
               /\ Len(taken[k]) <= Len(taken'[k])
               /\ \A m \in DOMAIN taken[k] : taken'[k][m] = taken[k][m]
               /\ \A m \in DOMAIN taken'[k] :
                    taken'[k][m] \in Told /\ Promise!Kind(taken'[k][m]) = k
               /\ \A m, n \in DOMAIN taken'[k] : m < n => taken'[k][m] < taken'[k][n]
          /\ UNCHANGED <<about, Passed, Told, applied>>
    BY DEF Promise!Take, Passed, Told
  <1> QED BY <1>1, <1>2, <1>3, <1>4, <1>5, <1>6, <1>7

\* A decision is carried out on its own challenge, that no decision was
\* carried out on before.
LEMMA ApplyKeepsPromise ==
  ASSUME LinkInv, PolledInv, Apply
  PROVE  (\E i \in Commands : Promise!Carry(i)) \/ UNCHANGED applied
  <1> SUFFICES ASSUME applied' # applied PROVE \E i \in Commands : Promise!Carry(i)
    OBVIOUS
  <1>1. /\ Matches(Head(polled)) /\ polled # <<>> /\ pending = outcome
        /\ applied' = Append(applied, [command |-> Head(polled), challenge |-> outcome])
        /\ UNCHANGED <<about, high, answers, taken>>
    BY DEF Apply, Carry, operatorVars, fileVars
  <1>2. polled \in Seq(OfKind("authorization"))
    BY DEF LinkInv, LinkTypeOK, QueueTypes
  <1>3. Head(polled) \in OfKind("authorization") /\ Head(polled) \in Elements(polled)
    BY <1>1, <1>2 DEF Elements
  <1>4. PICK i \in Commands : i = Head(polled)
    BY <1>3 DEF OfKind
  <1>5. about[i] = outcome
    BY <1>1, <1>4 DEF Matches
  <1>6. \E m \in DOMAIN taken["authorization"] : taken["authorization"][m] = i
    BY <1>3, <1>4 DEF PolledInv, Elements
  <1>7. \A j \in DOMAIN applied : applied[j].challenge # about[i]
    BY <1>1, <1>5 DEF LinkInv, AppliedInv
  <1>8. UNCHANGED <<Passed, Told>>
    BY <1>1 DEF Passed, LatestPassed, Told
  <1>9. Promise!Carry(i)
    BY <1>1, <1>4, <1>5, <1>6, <1>7, <1>8 DEF Promise!Carry, Passed, Told
  <1> QED BY <1>9

LEMMA LinkStepKeepsPromise ==
  ASSUME LinkInv, LinkInv', PolledInv, [Next]_vars
  PROVE  Promise!Next \/ UNCHANGED <<about, Passed, Told, taken, applied>>
  <1>1. CASE UNCHANGED <<about, high, answers, taken, applied>>
    BY <1>1 DEF Passed, LatestPassed, Told
  <1>2. CASE \E i \in Commands : Issue(i)
    BY <1>2, IssueKeepsPromise DEF Promise!Next
  <1>3. CASE \E i \in Commands : Accept(i)
    BY <1>3, AcceptKeepsPromise DEF Promise!Next
  <1>4. CASE Answer
    <2>1. UNCHANGED <<about, Passed, taken, applied>>
      BY <1>4 DEF Answer, operatorVars, fileVars, frameVars, Passed, LatestPassed
    <2> QED BY <1>4, <2>1, AnswerKeepsPromise DEF Promise!Next
  <1>5. CASE Poll
    BY <1>5, PollKeepsPromise DEF Promise!Next
  <1>6. CASE Apply
    <2>1. UNCHANGED <<about, Passed, Told, taken>>
      BY <1>6 DEF Apply, operatorVars, fileVars, Passed, LatestPassed, Told
    <2> QED BY <1>6, <2>1, ApplyKeepsPromise DEF Promise!Next
  <1>7. \/ UNCHANGED <<about, high, answers, taken, applied>>
        \/ \E i \in Commands : Issue(i) \/ Accept(i)
        \/ Answer \/ Poll \/ Apply
    BY DEF Next, Serve, Frame, Lapse, Repeat, Refuse, RefusePersisted, Mark, AnswerThrottled, AnswerTimesOut,
       Put, ThreadEnds, Observe, Publish, EndFrame, Restart, Loaded, vars, operatorVars,
       fileVars, frameVars
  <1> QED BY <1>1, <1>2, <1>3, <1>4, <1>5, <1>6, <1>7

\* The operator link keeps the promise to every command: it passes the mark at
\* most once and in order, takes effect only after the operator was told, and a
\* decision is carried out once and on its own challenge, for every number of
\* commands, restarts and losses and every size of the windows and queues.
THEOREM OperatorPromiseKept == Spec => ImplementsPromise
  <1>1. Init => Promise!Init
    <2> SUFFICES ASSUME Init PROVE Promise!Init
      OBVIOUS
    <2>1. Passed = [k \in {"selection", "authorization"} |-> 0] /\ Told = {}
      BY DEF Init, Passed, LatestPassed, Told, Kinds
    <2> QED BY <2>1 DEF Init, Promise!Init, Passed, Told, Kinds
  <1>2. Init => PolledInv
    BY DEF Init, PolledInv, Elements
  <1>3. LinkInv /\ PolledInv /\ [Next]_vars => PolledInv'
    BY PolledKept
  <1>4. LinkInv /\ LinkInv' /\ PolledInv /\ [Next]_vars
          => [Promise!Next]_<<about, [k \in Kinds |-> LatestPassed(k)],
                              {i \in Commands : [command |-> i, allowed |-> TRUE] \in answers},
                              taken, applied>>
    BY LinkStepKeepsPromise DEF Passed, Told
  <1> QED BY <1>1, <1>2, <1>3, <1>4, LinkInvariant, PTL
          DEF Spec, ImplementsPromise, Promise!Spec, Promise!promised
------------------------------------------------------------------------------
(***************************************************************************)
(* The way from the queue to the frame loop.                               *)
(***************************************************************************)
\* What was put and not dropped, in its order: taken first, then waiting.
Accounted(k) == taken[k] \o queue[k]

\* A queue grows at its end, gives its head to the frame loop, or is lost with
\* its process; and the poll of a frame takes of every queue that is not empty.
QueueStep ==
  \A k \in Kinds :
    /\ \/ taken'[k] = taken[k] /\ queue'[k] = queue[k]
       \/ /\ taken'[k] = taken[k] /\ queue'[k] = Append(queue[k], thread.command)
          /\ thread.at = "put" /\ Len(queue[k]) < QueueLimit
       \/ Accounted(k)' = Accounted(k) /\ Len(queue'[k]) < Len(queue[k])
       \/ lives' # lives /\ taken'[k] = taken[k] /\ queue'[k] = <<>>
    /\ frame = "poll" /\ frame' # "poll" /\ lives' = lives /\ queue[k] # <<>>
         => Len(queue'[k]) < Len(queue[k])

QueuesAreConserved == [][QueueStep]_vars

LEMMA ConcatenatedType ==
  ASSUME NEW S, NEW s \in Seq(S), NEW t \in Seq(S)
  PROVE  s \o t \in Seq(S) /\ Len(s \o t) = Len(s) + Len(t)
  OBVIOUS

LEMMA SameSequence ==
  ASSUME NEW S, NEW a \in Seq(S), NEW b \in Seq(S), Len(a) = Len(b),
         \A j \in 1 .. Len(a) : a[j] = b[j]
  PROVE  a = b
  <1>1. DOMAIN a = 1 .. Len(a) /\ DOMAIN b = 1 .. Len(b)
    OBVIOUS
  <1>2. a = [j \in DOMAIN a |-> a[j]] /\ b = [j \in DOMAIN b |-> b[j]]
    OBVIOUS
  <1> QED BY <1>1, <1>2

\* Concatenation is associative.
LEMMA Associative ==
  ASSUME NEW S, NEW r \in Seq(S), NEW t \in Seq(S), NEW l \in Seq(S)
  PROVE  (r \o t) \o l = r \o (t \o l)
  <1> DEFINE rt == r \o t
             tl == t \o l
             a == rt \o l
             b == r \o tl
             m == Len(r)
             n == Len(t)
             o == Len(l)
  <1>1. m \in Nat /\ n \in Nat /\ o \in Nat
    OBVIOUS
  <1>2. rt \in Seq(S) /\ Len(rt) = m + n
    BY ConcatenatedType
  <1>3. tl \in Seq(S) /\ Len(tl) = n + o
    BY ConcatenatedType
  <1>4. /\ \A j \in 1 .. m : rt[j] = r[j]
        /\ \A j \in m + 1 .. m + n : rt[j] = t[j - m]
        /\ \A j \in 1 .. n : tl[j] = t[j]
        /\ \A j \in n + 1 .. n + o : tl[j] = l[j - n]
    BY Concatenated
  <1> HIDE DEF rt, tl
  <1>5. a \in Seq(S) /\ b \in Seq(S) /\ Len(a) = Len(rt) + o /\ Len(b) = m + Len(tl)
    BY <1>2, <1>3, ConcatenatedType
  <1>6. /\ \A j \in 1 .. Len(rt) : a[j] = rt[j]
        /\ \A j \in Len(rt) + 1 .. Len(rt) + o : a[j] = l[j - Len(rt)]
        /\ \A j \in 1 .. m : b[j] = r[j]
        /\ \A j \in m + 1 .. m + Len(tl) : b[j] = tl[j - m]
    BY <1>2, <1>3, Concatenated
  <1> HIDE DEF a, b, m, n, o
  <1>7. ASSUME NEW j \in 1 .. Len(a) PROVE a[j] = b[j]
    <2>1. j \in 1 .. m + n + o /\ Len(rt) = m + n /\ Len(tl) = n + o
      BY <1>1, <1>2, <1>3, <1>5
    <2>2. CASE j <= m
      BY <1>1, <1>4, <1>6, <2>1, <2>2
    <2>3. CASE m < j /\ j <= m + n
      <3>1. j \in 1 .. m + n /\ j \in m + 1 .. m + n /\ j \in m + 1 .. m + (n + o)
            /\ j - m \in 1 .. n
        BY <1>1, <2>1, <2>3
      <3> QED BY <1>4, <1>6, <2>1, <3>1
    <2>4. CASE m + n < j
      <3>1. /\ j \in m + n + 1 .. m + n + o /\ j \in m + 1 .. m + (n + o)
            /\ j - m \in n + 1 .. n + o /\ (j - m) - n = j - (m + n)
        BY <1>1, <2>1, <2>4
      <3>2. a[j] = l[j - (m + n)]
        BY <1>6, <2>1, <3>1
      <3>3. b[j] = tl[j - m]
        BY <1>6, <2>1, <3>1
      <3>4. tl[j - m] = l[(j - m) - n]
        BY <1>4, <3>1
      <3> QED BY <3>1, <3>2, <3>3, <3>4
    <2> QED BY <1>1, <2>1, <2>2, <2>3, <2>4
  <1>8. Len(a) = Len(b)
    BY <1>1, <1>2, <1>3, <1>5
  <1>9. a = b
    BY <1>5, <1>7, <1>8, SameSequence
  <1> QED BY <1>9 DEF a, b, rt, tl

\* A sequence is its two parts, wherever it is cut.
LEMMA TwoParts ==
  ASSUME NEW S, NEW s \in Seq(S), NEW t \in Seq(S), NEW l \in Seq(S),
         NEW n \in 0 .. Len(s), Len(t) = n, Len(l) = Len(s) - n,
         \A j \in 1 .. n : t[j] = s[j],
         \A j \in 1 .. Len(s) - n : l[j] = s[n + j]
  PROVE  t \o l = s
  <1> DEFINE a == t \o l
  <1>1. Len(s) \in Nat /\ n \in Nat
    OBVIOUS
  <1>2. a \in Seq(S) /\ Len(a) = Len(t) + Len(l)
    BY ConcatenatedType
  <1>3. /\ \A j \in 1 .. Len(t) : a[j] = t[j]
        /\ \A j \in Len(t) + 1 .. Len(t) + Len(l) : a[j] = l[j - Len(t)]
    BY Concatenated
  <1> HIDE DEF a
  <1>4. Len(a) = Len(s)
    BY <1>1, <1>2
  <1>5. ASSUME NEW j \in 1 .. Len(a) PROVE a[j] = s[j]
    <2>1. CASE j <= n
      BY <1>1, <1>3, <1>4, <2>1
    <2>2. CASE n < j
      <3>1. j - n \in 1 .. Len(s) - n /\ j \in n + 1 .. n + (Len(s) - n) /\ n + (j - n) = j
        BY <1>1, <1>4, <2>2
      <3>2. a[j] = l[j - n]
        BY <1>3, <3>1
      <3>3. l[j - n] = s[n + (j - n)]
        BY <3>1
      <3> QED BY <3>1, <3>2, <3>3
    <2> QED BY <1>1, <1>4, <2>1, <2>2
  <1>6. a = s
    BY <1>2, <1>4, <1>5, SameSequence
  <1> QED BY <1>6 DEF a

\* The poll of a frame moves the head of a queue to what was taken, at least one
\* command if there is one.
LEMMA HandedOver ==
  ASSUME NEW S, NEW r \in Seq(S), NEW k \in Kinds, queue[k] \in Seq(S)
  PROVE  /\ (r \o FrameTake(k)) \o FrameLeave(k) = r \o queue[k]
         /\ queue[k] = <<>> => r \o FrameTake(k) = r /\ FrameLeave(k) = queue[k]
         /\ queue[k] # <<>> => Len(FrameLeave(k)) < Len(queue[k])
  <1>1. PICK n \in 0 .. Len(queue[k]) :
          /\ FrameTake(k) \in Seq(S) /\ Len(FrameTake(k)) = n
          /\ \A j \in 1 .. n : FrameTake(k)[j] = queue[k][j]
          /\ FrameLeave(k) \in Seq(S) /\ Len(FrameLeave(k)) = Len(queue[k]) - n
          /\ \A j \in 1 .. Len(queue[k]) - n : FrameLeave(k)[j] = queue[k][n + j]
    BY FrameParts
  <1>2. Len(queue[k]) \in Nat /\ n \in Nat /\ n <= Len(queue[k])
    OBVIOUS
  <1>3. PICK s \in Seq(S) : s = queue[k]
    OBVIOUS
  <1>4. PICK t \in Seq(S) : t = FrameTake(k)
    BY <1>1
  <1>5. PICK l \in Seq(S) : l = FrameLeave(k)
    BY <1>1
  <1>6. t \o l = s
    <2>1. n \in 0 .. Len(s) /\ Len(t) = n /\ Len(l) = Len(s) - n
      BY <1>1, <1>2, <1>3, <1>4, <1>5
    <2>2. \A j \in 1 .. n : t[j] = s[j]
      BY <1>1, <1>3, <1>4
    <2>3. \A j \in 1 .. Len(s) - n : l[j] = s[n + j]
      BY <1>1, <1>3, <1>5
    <2> QED BY <2>1, <2>2, <2>3, TwoParts
  <1>7. (r \o t) \o l = r \o (t \o l)
    BY Associative
  <1>8. ASSUME queue[k] = <<>> PROVE r \o t = r /\ l = queue[k]
    <2>1. Len(t) = 0 /\ Len(l) = 0
      <3>1. Len(t) = n /\ Len(l) = Len(queue[k]) - n /\ Len(queue[k]) = 0
        BY <1>1, <1>4, <1>5, <1>8
      <3>2. n = 0
        BY <1>2, <3>1
      <3> QED BY <3>1, <3>2
    <2>2. t = <<>> /\ l = <<>>
      BY <2>1
    <2> QED BY <1>8, <2>2
  <1>9. ASSUME queue[k] # <<>> PROVE Len(l) < Len(queue[k])
    <2>1. FrameLimit \in Nat \ {0}
      BY LinkAssumption
    <2>2. Len(queue[k]) > 0
      BY <1>9
    <2>3. n > 0
      <3>1. n = Len(FrameTake(k))
        BY <1>1
      <3> QED BY <1>2, <2>1, <2>2, <3>1 DEF FrameTake
    <2> QED BY <1>1, <1>2, <1>5, <2>3
  <1> QED BY <1>3, <1>4, <1>5, <1>7, <1>8, <1>9, <1>6

\* What QueuedIsTaken rests on beside the frames that come: no accepted command
\* leaves its queue but for the frame loop or with the process, none overtakes
\* another, and every frame brings each queue forward.
THEOREM QueuesConserve == Spec => QueuesAreConserved
  <1>1. ASSUME LinkTypeOK, [Next]_vars PROVE QueueStep
    <2> USE <1>1 DEF LinkTypeOK
    <2>1. ASSUME NEW k \in Kinds PROVE queue[k] \in Seq(Commands) /\ taken[k] \in Seq(Commands)
      <3>1. queue[k] \in Seq(OfKind(k)) /\ taken[k] \in Seq(OfKind(k)) /\ OfKind(k) \subseteq Commands
        BY KindsOfCommands DEF QueueTypes
      <3> QED BY <3>1, SeqGrows
    <2>2. CASE Put
      <3> DEFINE c == KindOf(thread.command)
      <3>1. frame' = frame /\ taken' = taken /\ thread.at = "put"
        BY <2>2 DEF Put, frameVars
      <3>2. queue' = IF Len(queue[c]) < QueueLimit
                       THEN [queue EXCEPT ![c] = Append(@, thread.command)] ELSE queue
        BY <2>2 DEF Put
      <3> HIDE DEF c
      <3>3. \A k \in Kinds :
              \/ queue'[k] = queue[k]
              \/ k = c /\ queue'[k] = Append(queue[k], thread.command) /\ Len(queue[k]) < QueueLimit
        BY <3>2 DEF QueueTypes
      <3> QED BY <3>1, <3>3 DEF QueueStep
    <2>3. CASE Poll
      <3>1. queue' = [k \in Kinds |-> FrameLeave(k)]
            /\ taken' = [k \in Kinds |-> taken[k] \o FrameTake(k)]
        BY <2>3 DEF Poll
      <3>2. ASSUME NEW k \in Kinds
            PROVE  /\ Accounted(k)' = Accounted(k)
                   /\ \/ queue'[k] = queue[k] /\ taken'[k] = taken[k]
                      \/ Len(queue'[k]) < Len(queue[k])
                   /\ queue[k] # <<>> => Len(queue'[k]) < Len(queue[k])
        <4>1. queue[k] \in Seq(Commands) /\ taken[k] \in Seq(Commands)
          BY <2>1
        <4>2. queue'[k] = FrameLeave(k) /\ taken'[k] = taken[k] \o FrameTake(k)
          BY <3>1
        <4>3. Accounted(k)' = (taken[k] \o FrameTake(k)) \o FrameLeave(k)
          BY <4>2 DEF Accounted
        <4> QED BY <4>1, <4>2, <4>3, HandedOver DEF Accounted
      <3> QED BY <3>2 DEF QueueStep
    <2>4. CASE Restart
      <3>1. queue' = [k \in Kinds |-> <<>>] /\ taken' = taken /\ lives' = lives + 1
            /\ lives \in Nat
        BY <2>4 DEF Restart, NewProcess, FrameTypes
      <3>2. lives' # lives
        BY <3>1
      <3> QED BY <3>1, <3>2 DEF QueueStep
    <2>5. ASSUME UNCHANGED <<queue, taken>>, frame = "poll" => frame' = "poll" PROVE QueueStep
      BY <2>5 DEF QueueStep
    <2>6. CASE Observe \/ Publish \/ Apply \/ EndFrame
      BY <2>5, <2>6 DEF Observe, Publish, Apply, EndFrame
    <2>7. CASE \/ \E i \in Commands : \/ Issue(i) \/ Lapse(i) \/ Repeat(i) \/ Refuse(i)
                                      \/ RefusePersisted(i) \/ Accept(i)
               \/ Mark \/ Answer \/ AnswerThrottled \/ AnswerTimesOut \/ ThreadEnds \/ UNCHANGED vars
      BY <2>5, <2>7 DEF Issue, Lapse, Repeat, Refuse, RefusePersisted, Accept, Mark, Answer,
         AnswerThrottled, AnswerTimesOut, ThreadEnds, vars, frameVars
    <2> QED BY <2>2, <2>3, <2>4, <2>6, <2>7 DEF Next, Serve, Frame
  <1>2. LinkTypeOK /\ [Next]_vars => [QueueStep]_vars
    BY <1>1
  <1> QED BY <1>2, LinkTypes, PTL DEF Spec, QueuesAreConserved
==============================================================================
