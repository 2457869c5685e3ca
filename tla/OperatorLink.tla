---------------------------- MODULE OperatorLink ----------------------------
(***************************************************************************)
(* Operator commands on the aircraft: target selections and authorization  *)
(* decisions, from the datagram to the effect.  Three parties interleave:  *)
(* the operator's client with its retransmissions, the background thread   *)
(* of operator_udp.UdpOperatorSelectionServer with its guards and the      *)
(* replay sidecar, and the frame loop of live.LiveRuntime with             *)
(* operator_bridge.LiveOperatorBridge.  The process may die and start      *)
(* again at any point; only the sidecar survives.                          *)
(*                                                                         *)
(* A command is numbered in the order of issue.  A datagram of an issued   *)
(* command may arrive at any time, any number of times, or never: that is  *)
(* what retransmission, delay and loss come to.  Authentication and        *)
(* geometry are abstracted to what they let through, and one operator      *)
(* peer is bound, so a decision is heard only while a challenge is set.    *)
(* Time is abstracted to the commands that are past their expiry.          *)
(***************************************************************************)
EXTENDS Integers, Sequences

CONSTANTS MaxCommands,    \* bound: commands the operator issues
          MaxChallenges,  \* bound: challenges the mission creates
          MaxLives,       \* bound: times the process runs
          Modulus,        \* width of a sequence number, 2^32 in the code
          FirstSequence,  \* the sequence number before the first command
          Jump,           \* DEFAULT_MAX_SEQUENCE_FORWARD_JUMP
          Window,         \* cache_size and replay_window_size
          QueueLimit,     \* max_commands_per_cycle
          FrameLimit,     \* maximum_commands_per_frame
          Selection,      \* what a selection command is about
          None

Commands == 1 .. MaxCommands
Challenges == 1 .. MaxChallenges
Kinds == {"selection", "authorization"}

ASSUME LinkAssumption ==
  /\ MaxCommands \in Nat /\ MaxChallenges \in Nat /\ MaxLives \in Nat
  /\ Modulus \in Nat \ {0} /\ FirstSequence \in 0 .. Modulus - 1
  /\ Jump \in 1 .. (Modulus \div 2) - 1
  \* So few commands that no number comes back within a jump.
  /\ MaxCommands + Jump <= Modulus
  /\ Window \in Nat \ {0} /\ QueueLimit \in Nat \ {0} /\ FrameLimit \in Nat \ {0}
  /\ Selection \notin Challenges /\ None # Selection
  /\ None \notin Nat /\ None \notin BOOLEAN

VARIABLES
  \* the operator
  about,        \* what each command is: None, Selection or the challenge it decides
  known,        \* challenges the operator has been sent
  lapsed,       \* commands past expires_at_s and the clock tolerance
  answers,      \* acknowledgements sent: [command, allowed]
  \* the sidecar of PersistentReplayState
  high,         \* accepted sequence number by kind
  identifiers,  \* accepted identifiers, oldest first
  \* memory of the background thread
  thread,       \* where it is in serve_once, and with which command
  cached,       \* result kept for a command, by kind of cache: None or allowed
  order,        \* commands in the order in which results were kept
  seen,         \* SelectionCommandGuard._seen_order
  last,         \* _last_sequence_by_session
  decided,      \* _decided_challenges
  active,       \* the challenge the authorization guard expects
  queue,        \* accepted commands waiting for the frame loop
  \* the frame loop
  frame,        \* the part of the frame that comes next
  pending,      \* the challenge that waits in the mission
  outcome,      \* the challenge of this frame's outcome
  polled,       \* decisions this frame has taken and not yet handled
  handled,      \* remote_authorization_handled
  created,      \* challenges created so far
  lives,        \* runs of the process
  \* history
  taken,        \* commands the frame loop has taken from the queues
  applied       \* decisions the mission carried out: [command, challenge]

operatorVars == <<about, known, lapsed>>
fileVars == <<high, identifiers>>
cacheVars == <<cached, order, seen, last, decided>>
frameVars == <<frame, pending, outcome, polled, handled, created, taken, applied>>
vars == <<operatorVars, answers, fileVars, thread, cacheVars, active, queue,
          frameVars, lives>>

Idle == [at |-> "idle", command |-> None, allowed |-> FALSE, fresh |-> FALSE]
Dead == [at |-> "dead", command |-> None, allowed |-> FALSE, fresh |-> FALSE]
Handling(at, i, allowed, fresh) ==
  [at |-> at, command |-> i, allowed |-> allowed, fresh |-> fresh]

Issued(i) == about[i] # None
KindOf(i) == IF about[i] = Selection THEN "selection" ELSE "authorization"
SequenceOf(i) == (FirstSequence + i) % Modulus
Elements(s) == {s[j] : j \in DOMAIN s}

\* A deque with maxlen: appending drops the oldest.
Bounded(s, x, limit) == IF Len(s) < limit THEN Append(s, x) ELSE Append(Tail(s), x)

-----------------------------------------------------------------------------
\* Mutant: a serial that differs is taken for a newer one.
SerialDiffers(candidate, previous) == candidate # previous

\* serial_is_newer
SerialIsNewer(candidate, previous) ==
  LET distance == (candidate - previous) % Modulus
  IN  0 < distance /\ distance < Modulus \div 2 /\ distance <= Jump

NewerThan(mark, i) == mark # None => SerialIsNewer(SequenceOf(i), mark)

\* Mutant: the sequence number is kept in memory only.
RecordedInMemory(i) == high

\* What accept_sequence and remember_identifier leave in the file.
Recorded(i) == [high EXCEPT ![KindOf(i)] = SequenceOf(i)]
Remembered(i) ==
  IF i \in Elements(identifiers) THEN identifiers ELSE Bounded(identifiers, i, Window)

\* SelectionCommandServer._remember and AuthorizationDecisionCommandGuard._remember.
\* An identifier that is kept twice occupies two places and leaves with the first.
Keep(results, i, allowed) ==
  LET full == Len(results.order[KindOf(i)]) = Window
      evicted == IF full THEN [results.cached EXCEPT ![Head(results.order[KindOf(i)])] = None]
                         ELSE results.cached
  IN  [cached |-> [evicted EXCEPT ![i] = allowed],
       order |-> [results.order EXCEPT ![KindOf(i)] = Bounded(@, i, Window)]]

Results == [cached |-> cached, order |-> order]
KeepResult(i, allowed) ==
  LET kept == Keep(Results, i, allowed) IN cached' = kept.cached /\ order' = kept.order

-----------------------------------------------------------------------------
\* The operator.  A decision needs a challenge that was published to it.
Issue(i) ==
  /\ ~Issued(i)
  /\ \A j \in 1 .. i - 1 : Issued(j)
  /\ \E what \in {Selection} \union known : about' = [about EXCEPT ![i] = what]
  /\ UNCHANGED <<known, lapsed, answers, fileVars, thread, cacheVars, active, queue,
                 frameVars, lives>>

Lapse(i) ==
  /\ Issued(i)
  /\ i \notin lapsed
  /\ lapsed' = lapsed \union {i}
  /\ UNCHANGED <<about, known, answers, fileVars, thread, cacheVars, active, queue,
                 frameVars, lives>>

-----------------------------------------------------------------------------
(***************************************************************************)
(* The background thread: serve_once, from recvfrom to _put_bounded.       *)
(***************************************************************************)
\* A decision is heard only from the peer a challenge is set for.
Heard(i) == about[i] = Selection \/ active # None

\* Mutant: nothing remembers that the challenge has its decision.
AcceptableUndecided(i) ==
  /\ i \notin lapsed
  /\ i \notin Elements(identifiers)
  /\ NewerThan(last[KindOf(i)], i)
  /\ \/ about[i] = Selection /\ i \notin Elements(seen)
     \/ about[i] = active

\* What the guard's evaluate finds wrong before it looks at the sidecar.
Acceptable(i) ==
  /\ i \notin lapsed
  /\ i \notin Elements(identifiers)
  /\ NewerThan(last[KindOf(i)], i)
  /\ \/ about[i] = Selection /\ i \notin Elements(seen)
     \/ about[i] = active /\ active \notin decided

Arrives(i) == thread.at = "idle" /\ Issued(i)

\* An identical retransmission gets the result that was kept.
Repeat(i) ==
  /\ Arrives(i) /\ Heard(i) /\ cached[i] # None
  /\ thread' = Handling("answer", i, cached[i], FALSE)
  /\ UNCHANGED <<operatorVars, answers, fileVars, cacheVars, active, queue, frameVars,
                 lives>>

\* A decision whose identifier is in the sidecar, or that nobody waits for,
\* is refused without keeping the result.
Refuse(i) ==
  /\ Arrives(i) /\ (Heard(i) => cached[i] = None /\ ~Acceptable(i))
  /\ thread' = Handling("answer", i, FALSE, TRUE)
  /\ IF about[i] = Selection \/ (Heard(i) /\ i \notin Elements(identifiers))
       THEN KeepResult(i, FALSE)
       ELSE UNCHANGED <<cached, order>>
  /\ UNCHANGED <<operatorVars, answers, fileVars, seen, last, decided, active, queue,
                 frameVars, lives>>

\* The sidecar knows a sequence number that this process has not seen.
\* The authorization guard keeps its first verdict and then the refusal.
RefusePersisted(i) ==
  /\ Arrives(i) /\ Heard(i) /\ cached[i] = None /\ Acceptable(i)
  /\ ~NewerThan(high[KindOf(i)], i)
  /\ thread' = Handling("answer", i, FALSE, TRUE)
  /\ LET once == IF about[i] = Selection THEN Results ELSE Keep(Results, i, TRUE)
         kept == Keep(once, i, FALSE)
     IN  cached' = kept.cached /\ order' = kept.order
  /\ seen' = IF about[i] = Selection THEN Bounded(seen, i, Window) ELSE seen
  /\ UNCHANGED <<operatorVars, answers, fileVars, last, decided, active, queue,
                 frameVars, lives>>

\* evaluate up to the end of accept_sequence: the sequence number is durable.
Accept(i) ==
  /\ Arrives(i) /\ Heard(i) /\ cached[i] = None /\ Acceptable(i)
  /\ NewerThan(high[KindOf(i)], i)
  /\ high' = Recorded(i)
  /\ last' = [last EXCEPT ![KindOf(i)] = SequenceOf(i)]
  /\ thread' = Handling("accepted", i, TRUE, TRUE)
  /\ IF about[i] = Selection
       THEN seen' = Bounded(seen, i, Window) /\ UNCHANGED <<cached, order>>
       ELSE KeepResult(i, TRUE) /\ UNCHANGED seen
  /\ UNCHANGED <<operatorVars, answers, identifiers, decided, active, queue, frameVars,
                 lives>>

\* remember_identifier, then what the guard and the server keep.
Mark ==
  LET i == thread.command
  IN  /\ thread.at = "accepted"
      /\ identifiers' = Remembered(i)
      /\ thread' = [thread EXCEPT !.at = "answer"]
      /\ IF about[i] = Selection
           THEN KeepResult(i, TRUE) /\ UNCHANGED decided
           ELSE decided' = decided \union {about[i]} /\ UNCHANGED <<cached, order>>
      /\ UNCHANGED <<operatorVars, answers, high, seen, last, active, queue, frameVars,
                     lives>>

\* Mutant: a failing sendto is swallowed and the command is queued.
AnswerSwallows ==
  /\ thread.at = "answer"
  /\ answers' \in {answers,
                   answers \union {[command |-> thread.command, allowed |-> thread.allowed]}}
  /\ thread' = IF thread.allowed /\ thread.fresh THEN [thread EXCEPT !.at = "put"] ELSE Idle
  /\ UNCHANGED <<operatorVars, fileVars, cacheVars, active, queue, frameVars, lives>>

\* sendto: the acknowledgement leaves before the command is queued.
Answer ==
  /\ thread.at = "answer"
  /\ answers' = answers \union {[command |-> thread.command, allowed |-> thread.allowed]}
  /\ thread' = IF thread.allowed /\ thread.fresh THEN [thread EXCEPT !.at = "put"] ELSE Idle
  /\ UNCHANGED <<operatorVars, fileVars, cacheVars, active, queue, frameVars, lives>>

\* A duplicate within duplicate_ack_interval_s is not answered again.
AnswerThrottled ==
  /\ thread.at = "answer" /\ ~thread.fresh
  /\ thread' = Idle
  /\ UNCHANGED <<operatorVars, answers, fileVars, cacheVars, active, queue, frameVars,
                 lives>>

\* A sendto that times out leaves the loop running: an accepted command is
\* recorded and kept, and never queued.
AnswerTimesOut ==
  /\ thread.at = "answer"
  /\ thread' = Idle
  /\ UNCHANGED <<operatorVars, answers, fileVars, cacheVars, active, queue, frameVars,
                 lives>>

\* _put_bounded drops the command when the queue is full.
Put ==
  LET k == KindOf(thread.command)
  IN  /\ thread.at = "put"
      /\ queue' = IF Len(queue[k]) < QueueLimit
                    THEN [queue EXCEPT ![k] = Append(@, thread.command)]
                    ELSE queue
      /\ thread' = Idle
      /\ UNCHANGED <<operatorVars, answers, fileVars, cacheVars, active, frameVars, lives>>

\* An OSError of the socket or of the sidecar, other than a timeout, ends
\* _background_loop for good.
\* A write that fails after os.replace is the death after the step it ends.
ThreadEnds ==
  /\ thread.at \in {"idle", "accepted", "answer"}
  /\ thread' = Dead
  /\ UNCHANGED <<operatorVars, answers, fileVars, cacheVars, active, queue, frameVars,
                 lives>>

-----------------------------------------------------------------------------
(***************************************************************************)
(* The frame loop: the mission's outcome, LiveOperatorBridge.process_frame *)
(* in two parts, and the decisions it returned.                            *)
(***************************************************************************)
\* process_observation and tick keep, withdraw or replace the challenge.
Observe ==
  /\ frame = "observe"
  /\ \/ pending' \in {pending, None} /\ UNCHANGED created
     \/ created < MaxChallenges /\ created' = created + 1 /\ pending' = created'
  /\ outcome' = pending'
  /\ handled' = FALSE
  /\ frame' = "poll"
  /\ UNCHANGED <<operatorVars, answers, fileVars, thread, cacheVars, active, queue,
                 polled, taken, applied, lives>>

\* Mutant: decisions are left in the queue while no challenge waits.
FrameTakeWaiting(k) ==
  IF k = "authorization" /\ outcome = None
    THEN <<>>
    ELSE SubSeq(queue[k], 1, IF Len(queue[k]) < FrameLimit THEN Len(queue[k]) ELSE FrameLimit)

\* What one frame takes of a queue, and what it leaves.
FrameTake(k) ==
  SubSeq(queue[k], 1, IF Len(queue[k]) < FrameLimit THEN Len(queue[k]) ELSE FrameLimit)
FrameLeave(k) == SubSeq(queue[k], Len(FrameTake(k)) + 1, Len(queue[k]))

\* The heartbeat lease may have run out; a selection binds the peer again.
\* Without a peer the decisions are taken and dropped (AuthorizationPeerMismatch).
Poll ==
  /\ frame = "poll"
  /\ active' = IF outcome = None THEN None ELSE active
  /\ queue' = [k \in Kinds |-> FrameLeave(k)]
  /\ taken' = [k \in Kinds |-> taken[k] \o FrameTake(k)]
  /\ \E leased \in BOOLEAN :
       LET peer == leased \/ FrameTake("selection") # <<>>
       IN  /\ polled' = IF peer THEN FrameTake("authorization") ELSE <<>>
           /\ frame' = IF peer /\ outcome # None THEN "publish" ELSE "apply"
  /\ UNCHANGED <<operatorVars, answers, fileVars, thread, cacheVars, pending, outcome,
                 handled, created, applied, lives>>

\* publish_authorization_challenge sets the guard's challenge, then sends it.
Publish ==
  /\ frame = "publish"
  /\ active' = outcome
  /\ known' = known \union {outcome}
  /\ frame' = "apply"
  /\ UNCHANGED <<about, lapsed, answers, fileVars, thread, cacheVars, queue, pending,
                 outcome, polled, handled, created, taken, applied, lives>>

\* Mutant: a decision taken in this frame is for this frame's challenge.
MatchesAny(i) == ~handled /\ outcome # None

\* _authorization_decision_matches_status, and one remote decision a frame.
Matches(i) == ~handled /\ outcome # None /\ about[i] = outcome

\* approve_authorization or deny_authorization carries the decision out, or
\* raises and may have withdrawn the challenge.
Carry(i) ==
  \/ /\ pending = outcome
     /\ applied' = Append(applied, [command |-> i, challenge |-> outcome])
     /\ pending' = None
     /\ handled' = TRUE
  \/ /\ pending' \in {pending, None}
     /\ UNCHANGED <<applied, handled>>

Apply ==
  /\ frame = "apply" /\ polled # <<>>
  /\ IF Matches(Head(polled)) THEN Carry(Head(polled))
                              ELSE UNCHANGED <<pending, handled, applied>>
  /\ polled' = Tail(polled)
  /\ UNCHANGED <<operatorVars, answers, fileVars, thread, cacheVars, active, queue, frame,
                 outcome, created, taken, lives>>

\* The end of the frame; the local operator may decide at the keyboard.
EndFrame ==
  /\ frame = "apply" /\ polled = <<>>
  /\ pending' \in {pending} \union IF handled THEN {} ELSE {None}
  /\ frame' = "observe"
  /\ UNCHANGED <<operatorVars, answers, fileVars, thread, cacheVars, active, queue, outcome,
                 polled, handled, created, taken, applied, lives>>

-----------------------------------------------------------------------------
\* A death and the next start: __init__ finds only the sidecar.
NewProcess ==
  /\ thread' = Idle
  /\ cached' = [i \in Commands |-> None]
  /\ order' = [k \in Kinds |-> <<>>]
  /\ seen' = <<>>
  /\ last' = [k \in Kinds |-> None]
  /\ decided' = {}
  /\ active' = None
  /\ queue' = [k \in Kinds |-> <<>>]
  /\ frame' = "observe"
  /\ pending' = None
  /\ outcome' = None
  /\ polled' = <<>>
  /\ handled' = FALSE

\* Mutant: a sidecar that cannot be used is replaced by a new one.
LoadedFromZero == high' = [k \in Kinds |-> None] /\ identifiers' = <<>>

Loaded == high' = high /\ identifiers' = identifiers

Restart ==
  /\ lives < MaxLives
  /\ lives' = lives + 1
  /\ NewProcess
  /\ Loaded
  /\ UNCHANGED <<operatorVars, answers, created, taken, applied>>

Init ==
  /\ about = [i \in Commands |-> None]
  /\ known = {} /\ lapsed = {} /\ answers = {}
  /\ high = [k \in Kinds |-> None] /\ identifiers = <<>>
  /\ thread = Idle
  /\ cached = [i \in Commands |-> None]
  /\ order = [k \in Kinds |-> <<>>]
  /\ seen = <<>>
  /\ last = [k \in Kinds |-> None]
  /\ decided = {} /\ active = None
  /\ queue = [k \in Kinds |-> <<>>]
  /\ frame = "observe" /\ pending = None /\ outcome = None
  /\ polled = <<>> /\ handled = FALSE /\ created = 0
  /\ lives = 1
  /\ taken = [k \in Kinds |-> <<>>] /\ applied = <<>>

Serve == (\E i \in Commands : Repeat(i) \/ Refuse(i) \/ RefusePersisted(i) \/ Accept(i))
         \/ Mark \/ Answer \/ AnswerThrottled \/ AnswerTimesOut \/ Put
Frame == Observe \/ Poll \/ Publish \/ Apply \/ EndFrame

Next ==
  \/ \E i \in Commands : Issue(i) \/ Lapse(i)
  \/ Serve
  \/ ThreadEnds
  \/ Frame
  \/ Restart

Spec == Init /\ [][Next]_vars

\* The frame loop runs as long as frames arrive, and the process is started
\* again when it dies only as often as MaxLives says.
FairSpec == Spec /\ WF_vars(Frame)

-----------------------------------------------------------------------------
(***************************************************************************)
(* Properties.                                                             *)
(***************************************************************************)
Places == {"idle", "accepted", "answer", "put", "dead"}
OfKind(k) == {i \in Commands : Issued(i) /\ KindOf(i) = k}

OperatorTypes ==
  /\ created \in 0 .. MaxChallenges
  /\ known \subseteq 1 .. created
  /\ about \in [Commands -> known \union {Selection, None}]
  /\ lapsed \subseteq Commands
  /\ answers \subseteq [command : Commands, allowed : BOOLEAN]
  /\ \A x \in answers : Issued(x.command)

FileTypes ==
  /\ high \in [Kinds -> 0 .. Modulus - 1 \union {None}]
  /\ identifiers \in Seq(Commands) /\ Len(identifiers) <= Window

PlaceTypes ==
  /\ thread \in [at : Places, command : Commands \union {None},
                 allowed : BOOLEAN, fresh : BOOLEAN]
  /\ thread.at \in {"idle", "dead"} <=> thread.command = None
  /\ thread.command = None => ~thread.allowed
  /\ thread.command # None => Issued(thread.command)
  /\ thread.at \in {"accepted", "put"} => thread.allowed /\ thread.fresh

MemoryTypes ==
  /\ last \in [Kinds -> 0 .. Modulus - 1 \union {None}]
  /\ seen \in Seq(Commands) /\ Len(seen) <= Window
  /\ decided \subseteq known

CacheTypes ==
  /\ cached \in [Commands -> BOOLEAN \union {None}]
  /\ DOMAIN order = Kinds
  /\ \A k \in Kinds : order[k] \in Seq(OfKind(k)) /\ Len(order[k]) <= Window
  /\ \A i \in Commands : cached[i] # None => i \in Elements(order[KindOf(i)])

QueueTypes ==
  /\ DOMAIN queue = Kinds /\ DOMAIN taken = Kinds
  /\ \A k \in Kinds : /\ queue[k] \in Seq(OfKind(k)) /\ Len(queue[k]) <= QueueLimit
                      /\ taken[k] \in Seq(OfKind(k))
  /\ polled \in Seq(OfKind("authorization"))

FrameTypes ==
  /\ {active, pending, outcome} \subseteq 1 .. created \union {None}
  /\ frame \in {"observe", "poll", "publish", "apply"} /\ handled \in BOOLEAN
  /\ frame = "publish" => outcome # None
  /\ applied \in Seq([command : Commands, challenge : 1 .. created])
  /\ lives \in Nat

\* The type invariant.  Every cache, window and queue is within its limit, a
\* cached result has its place in the order, and an accepted command is fresh.
LinkTypeOK ==
  /\ OperatorTypes /\ FileTypes /\ PlaceTypes /\ MemoryTypes /\ CacheTypes
  /\ QueueTypes /\ FrameTypes

\* However often a command is sent again, before or after a restart, with the
\* caches long past it or not, the frame loop takes it at most once.
TakenOnce ==
  \A k \in Kinds : \A m, n \in DOMAIN taken[k] : taken[k][m] = taken[k][n] => m = n

\* Selections take effect in the order in which the operator made them, over
\* the wrap of the sequence number and over restarts: a late datagram never
\* puts an earlier target back.
SelectionsInOrder ==
  \A m, n \in DOMAIN taken["selection"] :
    m < n => taken["selection"][m] < taken["selection"][n]

\* Of all decisions about a challenge, an approval and a denial say, the
\* operator is told of at most one that it was accepted.
OneAcceptedDecision ==
  \A x, y \in answers :
    /\ x.allowed /\ y.allowed
    /\ about[x.command] = about[y.command] /\ about[x.command] # Selection
    => x.command = y.command

\* A decision that waited in the queue while the mission's challenge changed
\* is not carried out on the new one, and no challenge is decided twice.
AppliedIsItsOwn ==
  /\ \A j \in DOMAIN applied : about[applied[j].command] = applied[j].challenge
  /\ \A j, m \in DOMAIN applied : applied[j].challenge = applied[m].challenge => j = m

\* Whatever takes effect has been acknowledged to the operator as accepted:
\* a failing send or a death before it leaves no unreported command behind.
TakenWasAcknowledged ==
  \A k \in Kinds : \A i \in Elements(taken[k]) :
    [command |-> i, allowed |-> TRUE] \in answers

\* An accepting answer means that the sidecar will never let the command
\* through again, whatever is lost with the process.
AcceptedIsRecorded ==
  \A x \in answers : x.allowed => ~NewerThan(high[KindOf(x.command)], x.command)

\* The latest command the sidecar has let through, read back from its number.
LatestPassed(k) == IF high[k] = None THEN 0 ELSE (high[k] - FirstSequence) % Modulus

\* Guards, sidecar, queues and frame loop together keep the promise to every
\* command, through every retransmission, wrap, death and restart.
Promise == INSTANCE CommandPromise
  WITH mark <- [k \in Kinds |-> LatestPassed(k)],
       told <- {i \in Commands : [command |-> i, allowed |-> TRUE] \in answers}

ImplementsPromise == Promise!Spec

\* A queued command is taken by the frame loop, or lost with the process.
QueuedIsTaken ==
  \A i \in Commands :
    (\E k \in Kinds : i \in Elements(queue[k]))
      ~> (\A k \in Kinds : i \notin Elements(queue[k]))
=============================================================================
