# A TLA+ verification of exclave's event bus and scenario selection

exclave is a factory test runner. Units (jigs, tests, scenarios, interfaces)
are read from unit files. A unit manager loads them and selects them, and an
event bus announces every change of status. This directory models the two
parts of the repository whose behaviour is more than data conversion:

| part | source | module(s) |
|------|--------|-----------|
| the event bus `UnitBroadcaster` | `src/src/unitbroadcaster.rs` | `UnitBroadcaster`, `MCUnitBroadcaster`, `UnitBroadcasterProofs`, `FanOutProofs`, `OrderProofs`, `PruneProofs`, `FanOutCompleteProofs` |
| what the bus promises (spec 4.1) | spec 4.1, 5, 9 | `UnitEventBus`, `BusRefinementProofs` |
| parsing a scenario file (`ScenarioDescription::from_path`) | `src/src/units/scenario.rs` | `ScenarioFile`, `MCScenarioFile` |
| scenario compatibility, test ordering and selection | `src/src/units/scenario.rs` | `Scenario`, `MCScenario`, `ScenarioProofs` |
| the dependency resolver (crate `dependy`, not in this repository) | spec 2, 4.2, 6 | `Dependy` |

## Inventory

**Event bus.** The state is `senders: Arc<Mutex<Vec<Sender<UnitEvent>>>>`,
shared by every clone of the broadcaster. It has three operations.
- `subscribe` creates a channel, pushes its sender under the lock and returns
  the receiver.
- `broadcast` takes a `&UnitEvent` and calls `broadcast_core` with it.
- `broadcast_core` locks the list and sends a clone of the event to every
  sender. A failed send means the receiver was dropped; it sets
  `to_remove = Some(idx)`. After the loop that one index is removed, then
  the lock is released.

Any thread may broadcast or subscribe at any time. The owner of a receiver may
drop it at any time, including while another thread is inside the loop.

**Scenario parsing.** `from_path` derives the unit name from the path, then
reads and parses the file; each step returns its error with `?`. It fails
with `MissingSection` without a `[Scenario]` section. It then loops over the
section's entries. A `Solo` entry with key `Name` or `Description` sets the
text. A `Solo` entry with `Jigs`, `Tests` or `Assume` sets the list through
`UnitName::from_list(..)?`, and a key with no value gives an empty list.
Every other entry, a `DirectiveEntry::Many` included, is ignored.

**Scenario selection.** A `ScenarioDescription` has its jigs, its Tests list
and its assumptions.
- `is_compatible` fails with `IncompatibleJig` unless some declared jig is
  loaded (or none is declared). It then calls `get_test_order`.
- `get_test_order` adds every test of the manager's registry to a `Dependy`
  graph. An assumed test is replaced by an `AssumptionDependency` with no
  requirements, suggestions or provides. It resolves the Tests list, then
  drops the assumed names from the order.
- `select` runs `is_compatible`, then `Scenario::new`. That checks out each
  ordered test (`get_test(..).expect`), pushes it on `test_sequence` and
  inserts it in `tests`. `uses_test` looks a name up in `tests`.

**Hard behaviours.**
- A receiver is dropped in the middle of a fan-out.
- Two publishers broadcast concurrently.
- Subscribe races a broadcast.
- Several subscribers fail in one broadcast, but only one index is kept.
- An index is computed inside the loop and used after it.
- The log write of a failed send blocks or panics while the mutex is held.
- Assumptions change the graph in ways that interact with provides.

## Modules and their correspondence to the code

### `UnitBroadcaster`

Constants: `Threads` (publisher/subscriber threads), `MaxSubs` (number of
`subscribe` calls), `MaxBroadcasts` (broadcasts per thread). An event is a
pair `<<thread, k>>`, the k-th broadcast of a thread, so the model can tell
events apart. The status carried is irrelevant to every property.

Variables:
- `senders`: the `Vec<Sender>`. A sender is named by its channel number.
- `lock`: the holder of the mutex.
- `nChans`: the number of channels created.
- `alive[c]`: receiver c is still held.
- `chan[c]`: every event ever enqueued on channel c. Draining a queue does not
  touch the broadcaster, so the model keeps the enqueued history.
- `pc`, `idx`, `toRemove`: each thread's place in `broadcast_core`, its loop
  index and its `to_remove`.
- `nBroadcasts`: each thread's broadcasts so far.
- `targets`, `failed`, `finished`: history variables. They record the list a
  broadcast started from, the sends that failed, and the broadcasts that
  returned. No code reads them.

Actions (one per step between two points where another thread can run):

| action | code |
|--------|------|
| `Subscribe(t)` | `subscribe`, lines 287-291: the lock is taken and released inside the action |
| `BcLock(t)` | `broadcast` / `broadcast_core` 264-267: take the lock, start the loop |
| `BcSendOk(t)` | 268-270: `send` succeeds and enqueues the event |
| `BcSendFail(t)` | 269-275: `send` fails; `to_remove = Some(idx)` |
| `BcRemove(t)` | 277-281: remove `to_remove` if set, release the lock |
| `DropReceiver(c)` | the subscriber drops its `Receiver` (outside this file) |
| `BcSendFailPanics(t)` | 269-273: `send` fails and the `eprintln!` panics; unwinding releases and poisons the mutex |
| `SubscribePoisoned(t)` | 287-291: `lock().unwrap()` panics on a poisoned mutex |
| `BcLockPoisoned(t)` | 264-267: the same in `broadcast_core` |

**Fault model.** `eprintln!` panics when the write to stderr fails, for
example on a closed pipe. The constant `StderrFails` says whether that can
happen. The same `eprintln!` is a blocking write: on a stderr pipe that nobody
drains it never returns. The constant `StderrBlocks` says whether that can
happen; it only changes the fairness (below). A panicking thread drops the
`MutexGuard` while unwinding. That
releases the mutex and sets its poison flag (`poisoned`). From then on every
`lock().unwrap()` panics. A panicked thread (`pc` is `panicLog` or
`panicPoison`) takes no further step.

`Done` is the stuttering end state. Every thread has used its bound or has
panicked, and every receiver is gone.

### `UnitEventBus` and the refinement

`UnitEventBus` is what spec 4.1 promises, with no mutex and no loop.
- `Subscribe` registers a channel.
- `Broadcast(t)` appends the event, in one step, to the queue of every
  subscriber whose receiver is held.
- `Drop(c)` discards a queue.

`UnitBroadcaster` defines the refinement mapping `Bus`
(`INSTANCE UnitEventBus WITH inbox <- Inbox, sent <- nBroadcasts`):
- `Inbox[c]` is `chan[c]` plus the event that a thread in its loop has still
  to send to c, counted as already delivered;
- a dropped channel's `Inbox` is empty.

Under this mapping, each step corresponds as follows:
- `BcLock` is the abstract `Broadcast`;
- the loop steps and `BcRemove` are stutters;
- `Subscribe` is `Subscribe`;
- `DropReceiver` is `Drop`.

`BusRefined` (that is, `Bus!Spec`) is checked as a property.

### `ScenarioFile`

The input is a file, chosen in `Init` among all small files:
- the outcome of the path, read and parse steps (`front`);
- whether the section is present;
- the section's entries in order, one per key, as the parser groups them.

An entry with one value is a `Solo`, and one with several values is a
`Many`. A list value is `NoValue`, a list of names or `Malformed`.
- `Directive(acc, e)` is one iteration of the loop. `FromPath` folds it over
  the entries with `FoldLeft`, after the early returns.
- `Parse` is the call.

`SpecReadings(f)` is the reference: the set of results that spec 4.2 and 5
allow for the file.

### `Dependy`

The crate is not in this repository, so it is modelled from the spec.
`Resolve(g, roots)` is the set of orders the resolver may return.
- Each order contains the roots and only needed nodes.
- Every requirement is satisfied earlier, by the node's name or by a
  `provides`.
- Orders that also respect the suggestions are preferred when one exists.

The empty set means `Err`. Which valid order the crate picks is left open.

### `Scenario`

The parsed inputs are chosen in `Init` among all small values and then stay
fixed: the registry, each test's declarations, the loaded jigs and the
description. The actions are the three outcomes of `select`:
- `SelectIncompatibleJig`: lines 171-182;
- `SelectUnresolvable`: the `?` at line 224;
- `SelectOk`: lines 190-268, with `Graph` from 202-217 and `TestOrder` from
  219-238.

The fourth action, `Deselect`, is the manager dropping the `Scenario`.

The loop at lines 225-236 pushes each resolved name that is not assumed.
`Filtered` gives its result in closed form:
- `KeptAt` is the set of kept positions;
- `Rank` of a kept position is the number of kept positions up to it;
- the k-th name of the result is the name at the kept position of rank k.

The closed form is there so that the provers can reason about it. The
recursive `SelectSeq` is out of their reach. `MCScenario` keeps the loop's
reference definition: the assumption `FilterAsLoop` checks that `Filtered`
equals `SelectSeq` on every sequence of up to four names and every set of
assumed names. TLC evaluates it on every scenario run. The constant
assumption `IsFiniteSet(Names)` holds because the registry is a finite map.

## Runs

| run | cfg | expect | what it shows |
|-----|-----|--------|---------------|
| `broadcaster` | `MCUnitBroadcaster.cfg` | pass | see below |
| `broadcaster_prune_all` | `MCUnitBroadcasterPrune.cfg` | violation | two dead subscribers: one broadcast prunes only the last |
| `scenario_select` | `MCScenario.cfg` | pass | a selected scenario is a valid schedule with no assumed test |
| `scenario_assumed_provider` | `MCScenarioAssume.cfg` | violation | assuming a provider rejects a scenario that has a schedule |
| `broadcaster_poison` | `MCUnitBroadcasterPoison.cfg` | violation | one failed `eprintln!` makes a later `subscribe` of another thread panic |
| `broadcaster_stderr_blocks` | `MCUnitBroadcasterBlock.cfg` | violation | with a stderr write that may block, a broadcast that met a dead subscriber keeps the mutex for ever (`MutexReleased`) |
| `broadcaster_refines_bus` | `MCUnitBroadcasterRefine.cfg` | pass | with stderr writable, the broadcaster implements the atomic bus (`BusRefined`) |
| `scenario_file` | `MCScenarioFile.cfg` | pass | for every file whose keys are each written once, `from_path` returns what spec 4.2 says (`ParsedAsSpecified`) |
| `scenario_file_repeated_key` | `MCScenarioFileRepeat.cfg` | violation | a key written twice is ignored |

`broadcaster` checks these properties:
- `FanOutComplete`: a returned broadcast reached every subscriber it started
  with whose receiver is still held, exactly once.
- `NoHalfRegistered`: a subscriber never gets an event of a broadcast that
  started before it subscribed.
- `LiveNeverPruned`: a subscriber whose receiver is held is never removed. This
  is what makes the index kept across the loop safe.
- `SomeDeadPruned`: a broadcast that met a dead subscriber removes one.
- `ConsistentOrder`: any two subscribers see their common events in the same
  order, across publishers.
- `MutexReleased` (liveness): a thread that took the mutex releases it, by
  returning or by unwinding. The run has `StderrFails = TRUE` and
  `StderrBlocks = FALSE`: the stderr write returns or panics.
- `SendersEdits` (action property): each step leaves the sender list alone,
  pushes a channel that is not listed yet, or removes one sender whose
  receiver is gone. So no live subscriber is unregistered, no sender is
  listed twice, and the list is never reordered.

`scenario_select` checks `ScheduleSound`. A selected scenario's
`test_sequence`:
- runs each registry test at most once and never an assumed one;
- includes every non-assumed test of the Tests list;
- meets each requirement by an earlier test or an assumed registry test.

`tests` holds exactly the names of `test_sequence`.

**Bounds.**
- The broadcaster: 2 threads, 3 subscriptions and 2 broadcasts per thread
  (71,535 states with failing stderr, 58,271 without). Two publishers are needed for the ordering and interleaving
  questions. Three channels allow two dead subscribers plus a live one during
  one loop.
- The scenario: 3 test names, one capability and one jig. Each test requires
  at most one name or capability and may provide the capability. Every
  registry, assumption set and Tests list over these is enumerated (699k
  states under the symmetry of test names). That covers chains, cycles,
  capability providers, and assumed roots and requirements. The names are
  interchangeable in the code (a `HashMap` and `Vec::contains`), so the
  symmetry is sound.
- The scenario file: 2 names and up to 3 keys per section (35,200 states).
  This lets two list keys, one of them malformed, meet a text or unknown key
  in one file. The repeat run writes one key at most twice; that is enough
  for a `Many` entry.

**Fairness.** Each thread gets weak fairness on its successful sends and on
its final remove-and-unlock. A thread holding the lock is running
`broadcast_core`, and `Sender::send` on an unbounded channel never blocks.
The failed send is different: it is followed by the `eprintln!` at line
271, a write to stderr, which blocks when stderr is a pipe nobody drains.
So the failed-send steps (returning or panicking) get weak fairness only
when `StderrBlocks` is FALSE. Nothing is assumed of subscribe, of new
broadcasts or of receivers being dropped.

## Findings

1. **Only one dead subscriber is pruned per broadcast** (`unitbroadcaster.rs:272`).
   `to_remove` is overwritten at every failed send. Spec 8 says a dropped
   subscriber is absent after one further broadcast, and that fails as soon
   as two receivers are dead (`AllDeadPruned`). `SomeDeadPruned` holds, so the
   dead ones are all removed eventually, one per broadcast. Spec 4.1 and 9
   accept exactly this lag ("self-healing across calls"), so the
   disagreement is with the wording of spec 8 only.
2. **An assumed test's provides are lost** (`scenario.rs:210-212`).
   `AssumptionDependency` has empty provides. A test that requires a
   capability provided only by an assumed test cannot be resolved, so
   `select` reports the scenario incompatible although a schedule exists
   (`NoSpuriousRejection`). Spec 4.2 says the assumption "satisfies
   dependents". That is true for requirements by name, not by capability.

3. **A failed log write poisons the bus** (`unitbroadcaster.rs:271`).
   The `eprintln!` runs with the mutex held. If writing to stderr fails,
   it panics, and the mutex is poisoned. Every later `subscribe` or
   `broadcast` in any thread then panics on `lock().unwrap()`
   (`NoCollateralPanic`). Spec 4.1 treats a failed send as a recoverable
   event. `MutexReleased` still holds: unwinding releases the mutex.
4. **A key written twice is ignored** (`scenario.rs:151`). The parser
   groups repeated lines of one key into a `DirectiveEntry::Many`. The loop
   only handles `Solo`, so `Jigs` written twice leaves the jig list empty,
   and the scenario then runs on any jig. A malformed value in such a key is
   not reported either. Spec 4.2 says that recognised directives populate
   their fields and that a malformed entry fails the parse.

5. **A blocked log write holds the bus for ever** (`unitbroadcaster.rs:271`).
   The `eprintln!` that logs a dead subscriber is a blocking write made with
   the mutex held. If stderr is a pipe that nobody drains, the write never
   returns. The mutex is then never released, and every other `subscribe`
   or `broadcast` waits at `lock()` (`MutexReleased`, run
   `broadcaster_stderr_blocks`). Spec 7 says one slow or dead observer must
   not block unrelated event delivery, and spec 4.1 says `broadcast` does
   not block. TLC's trace: a thread locks, meets a dead receiver, and its
   log write never returns.

## Proofs

`UnitBroadcasterProofs` proves, for all values of the constants (any set of
threads and any bounds):
- `TypeCorrect`: `Spec => []TypeOK`;
- `LiveNeverPrunedHolds`: `Spec => []LiveNeverPruned`;
- `SendersEditsHolds`: `Spec => SendersEdits`, the action property.

Neither invariant is inductive alone. The inductive invariant `IInv` adds:
- `LockHeld`: a thread is in the loop iff it holds the mutex, so nobody else
  changes `senders` during the loop.
- `LoopBounds`: `idx` is in `1..Len(senders)+1` and `toRemove` is in
  `0..idx-1`. This is what makes `RemoveAt` well defined.
- `SendersCreated`: every sender names a created channel.
- `DeadRecorded`: the sender at `toRemove` has a dead receiver. A receiver never
  comes back to life, and the list cannot change while the lock is held, so
  the index is still the dead one when it is removed.

`InitIInv` and `NextIInv` prove the two induction steps, with one step per
action. The lemmas `ToSetAppend` and `RemoveAtProperties` characterise the
sequence operators. `IInv` was checked with TLC as an invariant first.
`StepEditsSenders` proves that a step from an `IInv` state edits the list as
`SendersEdits` allows:
- `subscribe` pushes `nChans + 1`, which is not listed, by `SendersCreated`;
- the removal index lies in the list, by `LoopBounds`, and names a dead
  receiver, by `DeadRecorded`.

`FanOutProofs` proves `NoHalfRegisteredHolds`: `Spec => []NoHalfRegistered`,
for any value of `StderrFails`. The inductive invariant `HInv` adds two
conjuncts to `IInv`:
- `TargetsCurrent`: while a thread is in its loop, its broadcast's targets
  equal the current sender list. Nobody else changes the list under the
  mutex, so every channel the loop sends to is a target.
- `EventsIssued`: every queued event belongs to a broadcast that has already
  started. So when `BcLock` records the targets of a new event, no queued
  event's targets change.

`HInv` was checked with TLC on the main run's 71,535 states first.

`BusRefinementProofs` proves `BusRefinement`, under `~StderrFails`: `Spec`
implements `UnitEventBus` under the mapping above. The invariant `RInv` is
`IInv` plus:
- `SendersDistinct`: no sender is in the list twice. Without it, a loop
  could send one event twice to a channel, which the abstract bus never
  does;
- `~poisoned`.

`RemoveAtInjective` and `PushKeepsDistinct` show that `Vec::remove` and
`Vec::push` of a fresh channel keep the list distinct. `StepRefines` has one
step per action:
- `BcLock` maps to `Broadcast`. The live subscribers below `nChans` are
  exactly the listed ones, by `LiveNeverPruned` and `SendersCreated`.
- A send moves the pending event into the queue, and `Inbox` is unchanged.
  This uses `SendersDistinct`: the channel is not visited again.
- `BcRemove`, `Done` and stuttering leave `Inbox` unchanged.
- `DropReceiver` maps to `Drop`.
- The panic actions are excluded by `~poisoned` and `~StderrFails`.

The next three modules prove the remaining safety invariants of the
`broadcaster` run. Each holds for any value of `StderrFails`, so also when a
panicking `eprintln!` leaves a broadcast half done. Each inductive invariant
was checked with TLC on the main run's 71,535 states before it was proved.

`OrderProofs` proves `ConsistentOrderHolds`: `Spec => []ConsistentOrder`.
The invariant `OInv` is `HInv`, `SendersDistinct` and `ConsistentOrder` plus:
- `Delivered`: while a thread is in its loop, its event sits only at the
  end of queues of senders it has already visited.

A send appends the loop's event `E` to one queue `c0`. `E` is not yet in
`c0`: by `Delivered`, `c0` would then be an earlier sender, and the list
has no repeats. Wherever else `E` is, it is the last element, so no event
can come after it in one queue and before it in another. The proof splits
on which of the four positions compared is the new one.

`PruneProofs` proves `SomeDeadPrunedHolds`: `Spec => []SomeDeadPruned`. The
invariant `PInv` is `IInv` and `SendersDistinct` plus:
- `FailedIssued`: only issued events have failed sends or are finished;
- `LoopUnfinished`: a loop's own event has not finished;
- `RemovalRecorded`: once a send of the loop failed, `to_remove` names one
  of the failed senders;
- `Pruned`: every finished broadcast with a failed send has one failed
  channel out of the list.

`Pruned` is kept because only `subscribe` adds to the list, and it adds
`nChans + 1`. The lemma `RemoveAtDrops` shows that `Vec::remove` on a list
without repeats really drops the element. That is why `SendersDistinct` is
needed: with a repeat, removing one copy would leave the other.

`FanOutCompleteProofs` proves `FanOutCompleteHolds`:
`Spec => []FanOutComplete`. The invariant `CInv` is `OInv` and `PInv` plus:
- `LoopSent`: each live sender that the loop has passed holds the loop's
  event exactly once, that is, the set of its positions `Pos` is a singleton;
- `FinishedSent`: the same for each live target of a finished broadcast.

A send adds the one copy, since `E` was not yet there. A later send never
enqueues a finished event, by `LoopUnfinished`. A receiver never comes back
to life. At `BcRemove`, the loop index is past the end of the list, and the
targets are the list (`TargetsCurrent`), so every live target has its copy.
`PosAppend` says how `Append` changes the positions of an event.
`FS_Singleton` turns a singleton into `Cardinality(...) = 1`.

`ScenarioProofs` proves `ScheduleSoundHolds`: `Spec => []ScheduleSound`,
for any finite set of names, any registry, any declarations and any
description. The inductive invariant `SInv` is `TypeOK /\ ScheduleSound`.
Selection reads only inputs that no step changes, so nothing more is
needed. `SInv` was checked with TLC on the run's 699,002 states first. The
argument has three parts:
- The rank lemmas. `KeptFinite` bounds the number of kept positions.
  `RankBounds` and `RankMonotone` say that `Rank` maps the kept positions
  strictly increasingly into `1..n`. `RankOnto` says it is onto: it is an
  injection between two sets of equal size (`FS_Injection`).
- `FilteredAt` and `FilteredHas` follow from these: each entry of the
  filtered order is a kept name, and each kept name appears at its rank.
  The filter therefore keeps duplicates out and keeps the relative order.
- `ResolvedShape` unpacks what the resolver's order gives.
  `ResolvedIsSchedule` then shows that the filtered order is a schedule.
  Take a requirement met in the graph by an earlier name. If that name is
  kept, it appears earlier in the filtered order. If it is assumed, its
  `AssumptionDependency` provides only its own name. So the requirement is
  that name, and `MetByAssumption` holds.

`ScenarioTypeCorrect` (`Spec => []TypeOK`) comes from the same invariant.

TLC only:
- liveness (`MutexReleased`), since TLAPS does not handle `ENABLED` and
  fairness here;
- the refinement when stderr can fail. It does not hold then: a panic in
  the middle of the loop leaves a half-delivered broadcast, which the
  atomic bus cannot do;
- `ParsedAsSpecified`: it is about a fold (`FoldLeft`), whose result for
  every input is induction over data.
- `Filtered` equals `SelectSeq`. `FilterAsLoop` is a check over bounded
  inputs: for every input it would be induction over data.

## Not modelled

- `UnitStatus` and the event taxonomy are data and `Display` formatting.
- The systemd unit-file parser and `UnitName::from_path`/`from_list` are not in
  this repository. Their effect is the input of `ScenarioFile`: an error
  outcome, the grouped entries and a malformed flag. The timeouts and
  `ExecStop*` fields are never set by `from_path`.
- The unit manager itself and the per-unit lifecycle (spec 4.3) are not in
  this repository.
- The vendored nix ioctl macros are FFI.
- Unbounded queue growth is a hazard with no property. The model bounds the
  number of broadcasts, not memory.

## Plan for later sittings

1. `UnitLifecycle`: the status transitions of spec 4.3 broadcast on the bus,
   composed with `UnitBroadcaster`, with subscribers seeing a legal sequence
   of statuses per unit.
2. `ScenarioFile` composed with `Scenario`, with the parsed description
   feeding `select`.
