# Verification of Multi-Detect's mission, payload, alert and operator core

Multi-Detect is a perception and mission system for small aircraft: it detects
targets in camera frames, tells operators about them, compiles missions for PX4,
uploads and replaces them, and - in simulation and on a bench only - runs a
payload release behind an operator's authorization. This directory holds TLA+
models of the parts whose correctness rests on ordering, failure and timing: the
mission transaction with its durable journal, the replacement of a mission in
flight, the payload mission with its authorization registry and interlock, the
delivery of alerts to the ground, the operator's commands on their way to the frame
loop, and the arbitration between pilot and AI in the simulator.

Sources are under `src/multidetect/` of the repository; documents under `docs/`.
Abbreviations used below: `PX` = `px4_mission.py`, `MJ` = `mission_journal.py`,
`MR` = `mission_replacement.py`, `EX` = `px4_external_mission.py`, `PA` =
`payload.py`, `AU` = `authorization.py`, `MI` = `mission.py`, `AL` = `alerts.py`,
`LV` = `live.py`, `CT`, `MV`, `GW`, `AX`, `OR` = `control.py`, `mavlink_control.py`,
`control_gateway.py`, `ai_executor.py`, `orchestrator.py` of `simulator/`, and `OL`,
`OT`, `OU`, `OB` = `operator_link.py`, `operator_transport.py`, `operator_udp.py`,
`operator_bridge.py`.

## 1. The system

### Components, their state and how they interact

| Component | State it keeps | Operations | Talks to |
|---|---|---|---|
| Mission transaction (`PX`) | state, requested items, grant expiry | begin_upload, mission_item_for_request, accept_upload_ack, verify_readback, commit, permit_start | called by the adapter |
| Mission journal (`MJ`) | a JSONL file; a handle's records, committed prefix, recovery flag, stream buffer | create, open, record_*, close, repair_truncated_tail | the file system |
| Persistent transaction (`MJ`) | one transaction + one journal | the transaction's calls, resume, start_permit_from_checkpoint | both of the above |
| External upload (`EX`) | where the run is, retries, deadlines | upload, readback, commit, permit | MAVLink to PX4, persistent transaction |
| Mission replacement (`MR`) | a journal, an in-memory recovery flag, an executed flag | execute, recover, fallback | a transport that commands the vehicle |
| Payload controller (`PA`) | one record per bay, a fault flag, release-to-bay map | arm, lock, refresh, request_release, three reports, check_timeouts | a (fake) payload port |
| Authorization service (`AU`) | challenge records | create, approve/deny, consume, refresh, expire | the mission controller |
| Mission controller (`MI`, `state_machine.py`) | phase, deployment context, clock | launch, arrive, process_observation, approve, deny, request, reports, tick | payload, registry, tracker, inventory, audit |
| Alert delivery (`AL`, `LV`) | outbox rows, startup snapshot, the attempt under way, the receiver's deduplication store | enqueue, publish with retries, mark, receive, acknowledge | UDP link, frame loop |
| Control authority (`CT`, `MV`) | mode, AI enable, takeover, stamps of the last AI and pilot frame | submit_manual, submit_ai, check_watchdog, shutdown, request_failsafe | MAVLink output |
| Gateway, AI executor, orchestrator (`GW`, `AX`, `OR`) | stop flags, socket queue, enabled flag | run, stop, drain, enable_ai, step, stop | control authority, from their own threads |
| Operator link (`OL`, `OT`) | replay sidecar, result caches, decided challenges | evaluate, handle_selection, handle_authorization_decision | endpoint |
| Operator endpoint and bridge (`OU`, `OB`) | bounded queues, active challenge and peer | serve_once, background loop, process_frame, publish a challenge | UDP client, frame loop, mission |
| Onboard autonomy and runtime (`autonomy/`, `onboard_runtime/`) | task, checkpoint, setpoint threads | plan, supervise, resume | vehicle, policy |
| Tracking, perception, ranging, simulators, evidence tools | numeric state, files | - | - |

`PROJECT.json` lists every component with its files and status.

### What is hard, and what makes each part correct

* **Partial writes.** A record can be written, flushed, half-written, buffered and
  flushed later, or lost with its process. Correct means: the file can always be
  read again, what was fsynced stays, and a permit is given out only when durable.
* **Two copies of a state.** The transaction object and its journal; the mission's
  context, the registry's record and the armed bay's grant; the phase and the bays.
  Correct means: they differ at most in the one way the next call tolerates.
* **Time.** Grants and challenges expire between any two calls, callers' clocks
  disagree by a tolerance, releases time out while an answer is on the way.
* **An unreliable link.** Messages of an earlier exchange, lost messages, a vehicle
  that asks for ever; acknowledgements that come after the sender gave up; commands
  that are sent again before and after a restart of their receiver. Correct means: at
  least once where the code retries, at most once where it takes effect.
* **Threads with a lock each.** The gateway's thread, the executor's callers and the
  orchestrator's stop share the authority; the operator's thread and the frame loop
  share queues and a challenge. Correct means: nothing that was allowed a moment ago
  takes effect after it stopped being allowed.
* **Bounded memory.** Result caches, replay windows, a pruned deduplication store,
  queues that drop.
* **Commands that cannot be taken back.** Pause, upload, resume, release: at most
  once, after a durable intent or a consumed authorization, never after a fault.

## 2. Modules

| Module | Models | State and actions against the code |
|---|---|---|
| `MissionStates` | `PX` 239-246, `MJ` 61-79 | states, transition table, item range, shared by the mission modules |
| `Px4MissionTransaction` | `PX` 2140-2317 | `txState`, `requested`, `expired` = `_state`, `_requested_sequences`, the grant's expiry seen by `_check_expiry`; one action per method, with the denial each failing guard causes (`AdvanceOrDeny`) |
| `MissionJournal` | `MJ` 682-1460 | the disk (`file`, `torn`, `quarantined`) and one handle (`committed`, `recovery`, `residual`); `Write` ends ok, refused by the clock, failed (nothing, part or all of the line out, the rest in the buffer) or dead |
| `MissionCheckpoint` | abstract | one checkpoint that follows the transition table; permits only at its end |
| `PersistentMission` | `MJ` 1469-1791 | composes the two: `_require_sync`, the transaction's call, then the journal's; `Attach` is construction and `resume` |
| `ExternalMission` | `EX` 376-710 | upload and readback loops over a lossy, reordering link that still holds old messages; PX4's side is external |
| `MissionReplacement` | `MR` 300-821 | `Program` is the body of `execute` as a list of appends and transport calls; a step may succeed, fail with or without effect, or be the last of its process |
| `PayloadTransaction` | abstract | bays released one at a time, each once, nothing after a fault |
| `PayloadBay` | `PA` | `bay`, `faulted`, `submitted` = `_records`, `_faulted`, the port's log; an action per public method, faults included |
| `Authorization` | `AU` | the registry as a function, one operator per method; a `Can...` operator is the condition under which the method does not raise |
| `MissionController` | `MI`, `state_machine.py` | composes `PayloadBay` and `Authorization`: an action per public method, each with everything it calls |
| `AlertPromise` | abstract | an alert is owed durably before the ground can have it, until the ground has recorded it, and is settled for good |
| `AlertDelivery` | `LV` 1362-1427 and the frame's delivery, `AL` | `outbox`, `todo` (the startup snapshot), `current`/`stage`/`attempt` (`deliver_alert` and the publisher), packets on the link, the receiver's rows (`seen`, and `above` for their order) with `handling` for the inside of `receive()`; both programs stop and start |
| `SimulatorControl` | `CT`, `MV` | authority and adapter: an operator per method, with the outcome of its send as a parameter; `held` is the adapter's lock between grant and frame |
| `SimulatorSession` | `GW` run/stop/drain, `AX` 889-1220, `OR` stop | extends `SimulatorControl` by the three callers, each split where another thread can come in |
| `OperatorLink` | `OL` 239-370, 690-1020, `OT`, `OU` 415-680, 1405-1429, `OB` 413-600, `LV` 3706-3785 | sidecar (`high`, `identifiers`), thread (`thread` is the place in `serve_once`), caches, `queue`, and the frame loop from `process_observation` to the decision carried out; `Restart` keeps the sidecar only |
| `CommandPromise` | abstract | one mark per kind of command instead of datagrams, caches and processes: a command passes it once and in order, is told after that, takes effect after it was told; a decision is carried out once |
| `...Proofs` | | theorems, one module per component |

Operators whose comment begins with "Mutant:" are deliberately wrong variants of the
definition that follows them. No specification uses them; exchanged for the right one
they make a property fail, which shows that the property can see such a mistake.

### Modelling decisions

* **One writer per journal.** Neither journal locks its file; the code checks the
  prefix before each append (`MJ` 1207) but cannot exclude a second process between
  check and write. The models have one writing process at a time, plus a foreign tail
  (`ExternalTail`), which the tests also exercise.
* **A process dies; the machine does not.** What `write` has taken stays. A line that
  was never fsynced and is believed at the next load (`MJ` 862) could vanish at a
  power loss; that is outside the models.
* **Expiry is monotone**: `GrantExpires` may come at any moment and stays. In
  `ExternalMission` it cannot come, since the run passes one `now_utc` throughout.
* **Hashes, signatures, nonces and evidence** are the comparison they decide: a
  record is intact or not, a nonce right or not, evidence accepted or not.
* **A scene** is all a safety decision binds (target revision, scene digest,
  ruleset). Which candidate a frame offers is free, so tracker and ranker are too.
* **Audit.** A failing audit sink raises out of the handler and ends the program
  (`MI` 1222); the mission keeps nothing over a restart, so the model stops there.
* **Branches no state reaches** are left out: arming refused after a consumed
  approval, a payload faulted or exhausted while the mission searches, feedback in an
  "invalid state". `MissionControllerProofs` shows why: an approved, unexpired
  challenge can be consumed (`ApprovedIsConsumed`), and the bays are idle and
  unfaulted wherever a target is selected (`PhaseMatchesBays`).
* **A call of the adapter is one step** under its lock, except the AI's, which is a
  grant and a frame. The authority has a lock of its own: a call of it that falls
  between two reads of one adapter call is taken as before or after that call. Both
  streams have one watchdog limit. Nobody enables the AI while `stop()` is under way,
  and no interactive router runs, which has a queue of its own.
* **An alert is its identifier**; rows that are pruned after delivery stay
  "delivered", since identifiers are not used again.
* **The ground's clock may step back.** SQLite's rows are pruned in the order of
  `last_received_at_unix_s`, a reading of `time.time()` (`AL` 239-251, 455), then of a
  random identifier. `Places` has a received row come to stand anywhere among the
  others, which is what readings that step back or repeat come to; the store in memory
  moves it to the end. So the store promises the last `Capacity` alerts only as far as
  no row came to stand behind an older one (`ordered`).
* **A datagram of an issued command may arrive at any time, any number of times, or
  never**; this is what retransmission, delay, reordering and loss come to. Time is
  the set of commands past their expiry. One operator is bound. The code's windows
  hold 256 entries; the model's hold one or two, so that evictions happen. What the
  mission does with a challenge between frames is free: keep, withdraw, replace. A
  failing write of the sidecar ends the thread; that it raises `TimeoutError`, as only a
  file on a network can, is left out.
* **Left out of the mission:** patrol-only missions, served regions and their
  cooldown, the choice among candidates.

## 3. Runs

| Run | Bounds | What it shows |
|---|---|---|
| `persistent` | 2 items, 8 lines | transaction, journal and adapter over crashes and resumes: the file always reloads, committed records survive repairs, a writable handle is current, permits are durable, memory and journal differ by one step, an expired grant writes no progress, and the whole implements `MissionCheckpoint` |
| `persistent_items` | as above | **discrepancy**, below |
| `replacement` | the whole program of 21 steps, any number of failures and restarts | intents precede commands, no command is repeated after a restart, a "resumed" receipt is durable, nothing follows a fallback |
| `replacement_untouched`, `replacement_readable` | as above | **discrepancies**, below |
| `external` | 2 items, any 2 leftover messages, 1 retry | a verified mission is the one the vehicle stores; every run ends |
| `mission` | 2 bays, 2 scenes, 2 challenges, times 0..5, lifetime 2, timeout 2, tolerance 1 | phase, bays, registry and context agree; every release was granted, authorized and is a one-off; a confirmation has two sources; the payload's promise holds within the mission; authorizations and releases end |
| `mission_fault` | 1 bay, 1 scene, times 0..4 | **discrepancy**, below |
| `alerts` | 2 alerts, 2 sends each, 1 row per start, a store of 1 | a delivered alert was shown (or its ground program died holding it), outcomes find their row, the store forgets nothing before its capacity is exceeded and, while rows are received in the order of the clock, exactly what lies beyond it, `AlertPromise` is implemented, a start gets to its frames, and restarts on a link that works deliver everything |
| `control` | stale after 2 ticks, 2 datagrams queued | no AI frame without authority, AI output is never lost to the watchdog, a stop silences the AI and ends the gateway's run, stale AI is neutralized |
| `control_enable` | as above | **discrepancy**, below |
| `link` | 2 commands, 2 challenges, 2 lives, serials modulo 8 starting before the wrap, windows, queues and frames of 1 | a command takes effect at most once and only if acknowledged, selections in order, one accepted decision per challenge, carried out on its own challenge only, what was accepted stays recorded, `CommandPromise` is implemented, what was queued is taken |

Type invariants that are proved (section 4) are not checked by a run again; they were
checked by TLC before they were proved.

**Why the bounds are enough.** Two items are the fewest for which an upload can be
incomplete, out of order or repeated. `MaxRecords` only stops events that can repeat
for ever (item requests, repairs); transitions have no bound, and eight lines leave
room for a full run with both items and a repair in between. Two bays are what an
interlock needs; the third release identifier is a wrong one at any time. The clock of
`mission` is long enough for one challenge to expire and another to be used and time
out; a challenge is created only when its life and its release's fit
(`t + Ttl + Timeout <= MaxTime + 1`), so that the bound never cuts an expiry or a
timeout off. Two alerts with a limit and a
capacity of one are the fewest for which a start leaves a row behind and the store
forgets; three alerts were checked once (19.4 million states),
and the receiver alone with four alerts and capacities of two and three, where the
order of the rows matters. Two datagrams and two
ticks let a stream go stale while the pilot's queue is not empty. In `link`, two
commands are an approval and a denial of one challenge, or one selection behind
another; starting at 6 of 8 they straddle the wrap, and a window of one evicts the
first result as soon as there is a second. Three commands with a window of two were
checked once (4.7 million states). What these instances show is proved for all sizes
where section 4 says so.

**Fairness.** Safety needs none. `ExternalMission!FairSpec` says that the clock
advances, that the loop checks its deadline (it does in every turn, and a receive has
a timeout), that a silent readback is noticed, and that commit and permit return; it
does not assume that the link delivers or that the vehicle behaves.
`MissionController!FairSpec` says that ticks come at a clock that does not go back:
the frame loop of `live.py` ends each turn with `mission.tick` on a monotonic clock
(`LV` 4311), whatever the frame and the operator did. Operator, controller and
sensor may stay silent for ever. `AlertDelivery!FairSpec`: the aircraft's program goes
on while it runs, since sends return and waits time out; nothing is assumed of link or
receiver, and `PendingIsDelivered` names its premises itself.
`SimulatorSession!FairSpec`: the gateway's loop turns, with strong fairness because an
AI step may hold the adapter's lock whenever it asks for it, and a granted frame is
sent or raises. `DrainCatchesUp` says that a drain finds the socket empty again and
again, which the source takes for granted (`GW` 320). `OperatorLink!FairSpec`: the
frame loop goes on, as it does while frames arrive; the thread may die.

**Deadlock** is checked except where the system may stop: a run that has ended, a
journal path whose creation died before the header, a replacement journal that cannot
be read.

### Discrepancies between the code and what it says

1. **An item may be uploaded without its record** (`persistent_items`, `MJ` 1597). The
   transaction counts the item before the journal writes it. When that append raises
   and both are still in UPLOADING, the upload completes, although
   `docs/autonomy-architecture.md` has every request fsynced as a record of its own.
2. **A command without a trace** (`replacement_untouched`, `MR` 692). If the intent to
   pause cannot be written, the fallback is commanded but cannot be recorded behind
   `authorized` either; a restart's `recover()` then says that nothing is uncertain.
3. **A replacement journal that cannot be read again** (`replacement_readable`, `MR`
   420). `append` does not remember a failed write, so the fallback's record is glued to
   torn bytes or repeats a number, and no recovery is offered.
4. **A late callback faults a healthy mission** (`mission_fault`, `PA` 470). `MI` 52-55
   tolerates a call slightly behind the latest one; the payload compares the same time
   strictly with `consumed_at_s` and raises, and the mission enters its terminal FAULT.
5. **Enabling the AI undoes a takeover** (`control_enable`, `AX` 898). `enable_ai` looks
   at the authority and then calls `release_manual_control`, without the adapter's lock
   that the gateway holds for the pilot's frame; a takeover in between is released again,
   though the docstring says it is preserved.

Seen while modelling, without a run of their own.

*Mission and journals.* `start_permit_from_checkpoint` reads the last record, which
after a repair is the acknowledgement, and raises although the permit is recorded (`MJ`
1717); a call on a transaction that has reached `start_permitted` denies it in memory
(`PX` 2197), while the journal keeps the permit; a repair interrupted between truncation
and acknowledgement leaves no trace of itself (`MJ` 1427); `recover()` calls a
replacement "ready" when the first record of its journal is torn (`MR` 737), though the
next append is refused; an external run judges the grant by the time it began with (`EX`
685); an approval refused for changed evidence leaves its challenge pending until it
expires (`MI` 533); `remaining_payload_count` counts the armed bay (`PA` 162) and
`docs/safety-case.md` 18 counts otherwise; an empty journal file can be neither opened
nor given a header (`MJ` 719, 842).

*Simulator control.* A `stop()` between the gateway's start and its `_stopped = False`
is lost (`GW` 257); the watchdog clears its stamps before it sends the neutral frame and
does not try again when that fails (`MV` 277-281), which is why the properties say
"unless its neutral frame failed"; after a pilot's frame and a release no stamp remains
that closing would neutralize (`MV` 263, 303), while `docs/simulator-architecture-plan.md`
1523 has every closing path send a neutral frame; the path for stale telemetry enters
failsafe without one, and over a pilot who has just taken over (`AX` 1214-1220);
`disable_ai` does not catch an `OSError` of the adapter (`AX` 913).

*Alerts.* Behind a step back of the ground's clock a full store prunes the identifier it
has just inserted (`AL` 239-251), and a retransmission of that alert is returned as new;
`docs/data-link-alerts.md` asks for a trustworthy time source.

*Operator link.* A command that was accepted before a restart is refused when it is sent
again after it, while `docs/g20-gr01-integration.md` 171 promises an acknowledgement of
the same meaning; an `OSError` while answering ends the background loop for good, and
one that is a `TimeoutError` leaves it running, each with an accepted command recorded
and not queued (`OU` 1418-1425); a full queue drops a command
that was acknowledged (`OU` 877); a decision dropped as `AuthorizationPeerMismatch`
leaves its challenge decided in the guard, so no other remote decision is accepted until
it expires (`OB` 563); approach and payload-target confirmations stay queued while no
challenge of theirs waits (`OB` 577).

## 4. Proofs

All theorems are checked by TLAPS for every value of the constants under the named
assumptions (`ItemCountAssumption`, `MaxRecordsAssumption`, `RetryAssumption`, `FallbackAssumption`,
`BayAssumption`, `AuthorizationAssumption`, `MissionAssumption`, `DeliveryAssumption`,
`ControlAssumption`, `SessionAssumption`, `LinkAssumption`), which say no more than that
counts, limits and times are natural numbers, that a mission has a bay, which two states
a fallback may end in, and that the "no value" constants are not values.
`LinkAssumption` also says that fewer commands are issued than it takes for a sequence
number to come back within a forward jump (2^32 numbers, jumps of at most 1,000,000, `OL` 47): a
number that does come back looks newer, and no receiver of serial numbers can tell.

* `ExternalMissionProofs`: first the transaction alone, with any caller: an upload
  acknowledged is complete (`TxInv`) and an expired grant never advances; no run checks
  these two on their own, since `VerifiedMissionIsStored` and
  `ExpiredGrantWritesNoProgress` are their forms in the composed modules. Then the run:
  `RunInv` is the types and `ReadbackInv`, which adds to `VerifiedMissionIsStored` that
  an item of the new mission on its way to the ground says what the vehicle stores;
  without it a matching readback would tell nothing about the vehicle.
  `RunMatchesTransaction` ties the place of the run to the state of the transaction;
  from it a permit is handed out exactly when a run ends well (`PermitMeansDone`), a run
  is a user of the transaction (`RunIsTransaction`) and has served every item
  (`RunServesEveryItem`). `ReadbackIsBounded` gives the readback, the one loop without a
  deadline of its own, a finite budget that every receive draws on.
* `PersistentMissionProofs`, first part, the journal alone: `JournalInv` is types,
  `JournalReloads`, and two facts about the handle. `HandleInv` says that
  the file is ahead of the handle by at most one line, only while the handle is in
  recovery and only with an empty buffer; without it a truncation could cut what was
  fsynced, or a flush skip a record. `BufferInv` says that a buffered record is a valid successor
  of the committed prefix, and is there only while the handle is in recovery; that is
  why a late flush yields a file that loads. From it: `JournalAlwaysReloads`,
  `WritableHandles`, `CommittedRecords` (an action property).
* `PersistentMissionProofs`, second part: `PersistentInv` adds the adapter's
  distance from its journal and the durability of an issued permit. Each of the
  adapter's calls is shown to be a journal step (`StepsOfTheJournal`), so `JournalInv`
  carries over; `CheckpointMoves` tells how each step moves the checkpoint, from
  which follows `CheckpointRefinement`: the journaled transaction implements
  `MissionCheckpoint`. `MissionIsJournal` says that the composition's behaviours are
  behaviours of the journal's own specification, so `MissionReloads`,
  `MissionHandles` and `MissionRecordsKept` are the journal's theorems again, for the
  specification the run checks.
* `MissionReplacementProofs`: the program of `execute` is a constant sequence, so
  `RunInv` says of a running process that its file is intact and holds every append
  before the current step, and that whatever was sent has its place before it. `FileInv`
  says that a command leaves a nonempty file, which is why a restart does not begin
  again; `ReceiptInv` keeps the record of a resumption readable. Then write-ahead
  intents, no replay, durable receipts, and the finality of a fallback. `ExtentInv`
  tells how far the two discrepancies of this part go: what can be read of the file is
  always a path of the transition table (`FileStaysChain`), commands come in the order
  of `execute` (`OrderOfCommands`), which leaves no commanded vehicle behind that it
  neither resumed nor sent into the fallback (`ExecuteEndsClosed`). The journal becomes
  unreadable only when the vehicle was told to hold or return (`UnreadableIsLate`), and
  a vehicle of which a restart says that no write is uncertain was never paused,
  reprogrammed or resumed (`NoWriteIsNoReplacement`).
* `PayloadBayProofs`: `BayInv` strengthens the interlock by what each bay's record
  says of the port's log (`SlotInv`), the uniqueness of identifiers (`ReleasesDiffer`)
  and the finality of a fault (`FaultIsFinal`); the last is what makes a confirmation
  impossible after a fault. Then the interlock (which no run checks on its own:
  `PhaseMatchesBays` of the mission implies it), authorized requests, two-source
  confirmation and the refinement of `PayloadTransaction`.
* `MissionControllerProofs`: `MissionInv` is `BayInv`, the types, `PhaseMatchesBays`,
  `BindingsAgree` and `EveryReleaseWasGranted`; none of them is inductive alone (the
  phase is needed to know that an approval finds a free interlock, the bindings to know
  that what is armed is what was consumed). `KeepsGrants` is the registry's part: no
  operation of the service touches a consumed challenge but its scene.
  `MissionIsPayload` shows that a mission step is a payload step with a well-formed
  grant, or none, so the payload's theorems hold within every mission. `ChallengeLives`:
  a challenge is decided once, and no refresh moves its expiry. `TicksSettle`: a tick at
  or after a deadline leaves nothing due. For the discrepancy `mission_fault`,
  `GrantInOrder` (a grant was consumed at a time already seen) gives its extent: a
  mission faults without its payload only on a call that lies behind the consumption of
  its grant, within the tolerance (`FaultsAlone`); with no tolerance it never does
  (`NoToleranceNoFault`), and a fault leaves no release in flight (`FaultedIsQuiet`).

* `AlertDeliveryProofs`: `AlertInv` is the types, `WorkInv` (the alert in work is pending
  and no longer in the snapshot), `QueueInv` (the snapshot's rows are pending, the
  frame's alerts have none), `LinkInv` (a packet on the way is of an alert with a row, an
  acknowledgement of one that was recorded) and `RecordedIsShown`. The first two give
  `OutcomeRows`, the others `DeliveredAlertsShown`; all of them `PromiseKept`, the
  refinement of `AlertPromise`. The store has an invariant of its own, `StoreInv`. Its
  rows stand in a total order, wherever a received one is put (`RowsMove`); so no two
  have the same number of rows before them, the store maps into `Capacity` places
  (`RowsAreFew`) and `StoreIsBounded` follows, as `StartIsBounded` does for the rows of a
  start. And what stands before a row received in order is what was received since, so
  that pruning by the clock's order is pruning by the true one: `DuplicatesTold`. `LivePacketsAreCurrent`: what a socket can still take belongs to
  the attempt that waits. `StartupShrinks`: nothing adds to a startup's work.
* `SimulatorSessionProofs`: `SessionInv` is the types, `LockInv` (the adapter's lock is
  held only for an AI step that is still allowed), `AiOutputIsWatched`, `EnabledInv` (a
  step under way means the executor is enabled, which a stop that returned excludes) and
  `StopInv` (from the stop's own neutral frame on the AI is silent). From it
  `FramesHaveAuthority`, `OutputIsWatched`, `StopSilencesAi`. Then what a step may not
  do: end a takeover, but by the pilot's release or the second half of `enable_ai`
  (`TakeoverHolds`, the extent of the discrepancy `control_enable`); make the watchdog
  forget an AI frame that is still out (`WatchdogRemembers`); take a stop back or bring a
  stopped run back to waiting (`StopGoesForward`).
* `OperatorLinkProofs`: a command is *accepted* once the operator has been told so, or
  while the process holds the verdict; `AcceptedMoves` shows that only `Accept` adds one.
  `LinkInv` is the types and five parts. `MarkInv`: the sidecar's number is that of a
  command no earlier than any accepted one of the kind; with `NewerIsLater` (what looks
  newer is later, the wrap included) an acceptance is always of a later command.
  `AckInv`: what is taken, queued or about to be queued was answered. `PipeInv`: taken,
  queued and handled commands come in the order of issue, which needs the first two.
  `DecisionInv`: a challenge with an accepted decision is one the guard remembers, or one
  that nothing in the process refers to any more, and a restart makes every challenge
  such a one. `AppliedInv`: a challenge that was decided does not wait. From these the
  safety properties of the run `link`, and with `PolledInv` (what a frame has polled was
  taken) the refinement of `CommandPromise` (`OperatorPromiseKept`), in which the
  sidecar's number is read back as the command it stands for (`NumberIsCommand`).
  `QueuesConserve`: what was put is taken in its order or lost with the process, and a
  frame's poll shortens every queue that is not empty.

**Model-checked only:** liveness, since the prover handles neither fairness nor ENABLED.
What each property rests on beside fairness, a step that goes forward or a budget that
only shrinks, is proved where it could be stated without it:

| Liveness, checked by TLC | Proved part |
|---|---|
| `RunEnds` | `ReadbackIsBounded` (the other loops end by their deadline) |
| `AuthorizationEnds`, `ReleaseEnds` | `ChallengeLives`, `TicksSettle` |
| `StartupEnds` | `StartIsBounded`, `StartupShrinks` |
| `PendingIsDelivered` | none; its safety half is `PromiseKept` |
| `StopEndsTheRun` | `StopGoesForward` |
| `StaleAiIsNeutralized` | `WatchdogRemembers`, `OutputIsWatched` |
| `QueuedIsTaken` | `QueuesConserve` |

The five runs that expect a violation are TLC's too; the extent of four of them is
proved (`NoWriteIsNoReplacement`, `UnreadableIsLate`, `FaultsAlone`, `TakeoverHolds`).
That of `persistent_items` would need a history of the items that were counted without a
record, which the code does not keep. The prover cannot do induction over data, so
nothing is claimed about recursive functions; the modules have none.

## 5. Not modelled, and what comes next

Compilers of missions, the safety rules, tracking, ranking, perception and ranging are
arithmetic; the process side of the simulators and the evidence tools are process and
file handling; the ground station is a fork with its own upstream, and the `.ts` files in
it are Qt translation tables, which hold text and no behaviour. The program is the Python
package under `src/multidetect/`, and the models are of that. Worth modelling next, in
this order:

1. **Payload HIL cycle** (`payload_hil_*.py`): the sessioned release protocol over UDP,
   as a second implementation of `PayloadTransaction`.
2. **Approach and payload-target confirmations** of the operator link, and a payload
   mission composed with `OperatorLink` in place of its free outcome.
3. **Peer leases, runtime-status acknowledgements and mission packets** of the operator
   endpoint (`OU` 680-1400).
4. **Interactive router** (`simulator/interactive_router.py`) as a second caller of
   `SimulatorControl`.
5. **Two writers on one journal** (`MJ` 1207), the one hazard listed without a property.

To be proved next: that a mission is a user of the authorization registry on its own
(`Authorization`), as it is of the payload; and the variants of the remaining loops of an
external run.
