# LasmeX in TLA+

LasmeX is a TypeScript agent harness: plugins on the Cordis framework compose
agents, sessions, tools, jobs and user interfaces in one Node process. This
directory models the parts of it whose correctness depends on the order of
things: the life of an agent, its driver and inbox, the scheduling of tool calls,
background jobs, and the path of the session log to storage and, after a crash,
back. TLC checks the modules on small instances; the safety properties are
also proved with TLAPS for every value of the constants.

All paths below are relative to the repository root.

## The system

The program is single threaded. Concurrency is the interleaving of asynchronous
functions at their `await`s, of event listeners called synchronously in the
middle of a method, and of timers.

| Part | State | Operations | What makes it correct |
| --- | --- | --- | --- |
| Agent driver, `packages/core/agent-loop/src/agent.ts` | `phase` (idle, maintenance, running) with its abort controller, turn, step and `wakeRequested`; the `activityDone` promise; locals of `turn()` | `send`, `followup`, `steer`, `inject`, `cancel`, `runMaintenance`, `whenIdle`; internally `kick`, `turn`, `preStep`, `step` | a wake leads to a turn, an abort stops model work, the log nests, an activity ends |
| Inbox, `packages/core/agent/src/inbox.ts` | two ordered lists, each change an event of the session log | `append`, `prepend`, `splice`, `replace`, `remove`, `clear`, `claim` | a message is pending, claimed or gone, never two of these |
| Agent lifecycle, `packages/core/agent-loop/src/index.ts` | the machine, its scope, its session and agent registrations, a memoized `dispose()` | create, resume, dispose by caller, owner or factory | disposal happens once and waits for quiescence |
| Tool-call scheduler, `packages/core/agent-loop/src/tool-calls.ts` | position in the message, in-flight map, slots of settled calls, failure | `executeToolCalls`, `runGroup` | results in the model's order, exclusive calls alone, one answer per call |
| Session log, `packages/core/session/src/` | an append-only event list; its folds | `append`, registry enter, announce, detach | events nest; no append inside the publication of another |
| Job registry, `packages/jobs/jobs-local/src/index.ts` | tracked jobs, waiters, per-owner cleanups, per-owner limit | `start`, `read`, `kill`, `wait`, `settle`, two teardowns | a completion is reported once, teardown leaves nothing running |
| Write path, `packages/session/session-persistence/src/` | per session a queue, a timer, an active write and a barrier; per id a state with a cursor and a promise chain; prepared sources | `enqueue`, `flush`, `prepare`, `load`, `inspect`, retirement, repair | the stored log is a prefix of the accepted one; `flush` is a barrier; a reload finds what was flushed |
| Tool pipeline (`core/tools`), approvals and questions (`interaction/`), LLM service and retry (`llm/`) | registries, pending requests, retry history | prepare, dispatch, answer, abandon, back off | a request is answered or abandoned once |
| Goal rounds, schedule, subagents, compaction, job tools | own session events; clients of the driver and the job registry | send the agent its next work | one piece of work is sent once |
| Storage domains, settings | revisioned documents | compare-and-set over a store | no lost update |
| Everything else: clients, hosts, gateways, SDKs, shells, terminals, sandboxes, MCP, LSP, hooks, files, readers of the log | | I/O, rendering, pure folds | |

How they meet: `send` appends to the inbox, which appends to the session log, and
wakes the driver. The driver claims a batch from the inbox, asks the pre-step
listeners, appends `step/start` and the user messages, calls the model, runs the
tool calls through the scheduler and appends `step/end`. Every append is
published as `session/event`; the write-behind controller of the session is one of
the listeners. Jobs are started by tools and announce their completion to a
reporter that sends the owning agent a message. The lifecycle owner's `dispose()`
cancels the driver, waits for it and unwinds the agent's scope, which joins the
agent's jobs. Hard spots are the awaits between a check and its use, the calls
that arrive from listeners, the wakes that arrive when nobody can serve them,
failure on one of several paths, and teardown racing all of these. `PROJECT.json`
lists each with its line under `hazards`.

## The modules

| Module | Models | Composition |
| --- | --- | --- |
| `SessionTrace` | the fold of `core/session/src/invariant.ts` over turn, step and tool events: an action is enabled when its event is valid | abstract specification |
| `AgentLoop` | the driver, the inbox and `dispose()` of one agent | implements `SessionTrace` (`ImplementsSessionTrace`) |
| `ToolScheduler` | the tool calls of one assistant message | its appends are `SessionTrace` steps (`AppendsAreLegal`) |
| `JobRegistry` | the local job registry | |
| `DurableLog` | what the write path promises: a growing prefix, and flush as a barrier | abstract specification |
| `WriteBehind` | one session's write controller with the coordinator's `flush()` and write callback | implements `DurableLog` |
| `PersistenceCoordinator` | everything that happens to one stored log: its live sessions, its preparations, the backend, crash and reload | the controller of `WriteBehind` reappears as queue, active write and barrier |
| `SessionRepair` | the closers of an interrupted log and the validation of every event | the driver of `AgentLoop` and `ToolScheduler` as a writer of events |
| `AgentLifecycle` | creation, resume and disposal of the agents of one identity | the loop is the time `dispose()` takes; `DisposalFinishes` of `AgentLoop` is its fairness |
| `AgentLoopProofs`, `AgentLifecycleProofs`, `ToolSchedulerProofs`, `JobRegistryProofs`, `WriteBehindProofs`, `SessionRepairProofs` | theorems about the module of that name | `AgentLoopProofs` proves the refinement of `SessionTrace`, `WriteBehindProofs` that of `DurableLog` |
| `PersistenceCoordinatorInvariant`, `PersistenceCoordinatorProofs` | the inductive invariant of `PersistenceCoordinator` and the steps of its sessions; the steps of its calls and of the plugin, and the theorems | the second extends the first |
| `MCAgentLoop` | the symmetry set of the runs that check one invariant | |

An action is one synchronous stretch of code: from an await, or from the
publication of an event that matters, to the next. A method called from outside
is one action (up to its first await). Mutated operators, marked `Mutant` in
their comments, stand before the definition they would replace; no specification
uses them.

### AgentLoop

`kind`, `turn`, `step`, `abort` and `wakeRequested` are the fields of `phase`;
`turn` is also `lastTurn` while the agent is idle. `step` keeps the value of the
last running phase while the agent is idle, where the code drops the phase.
`pc` is where the driver is suspended:

| `pc` | Place in `agent.ts` |
| --- | --- |
| `start` | entry of `turn()` |
| `boundary` | `turn/start` published, or the loop head after a step |
| `pre-step`, `decided` | awaiting the listeners; their answer is in `decision` |
| `entered` | `step/start` published |
| `request`, `stream`, `request-error`, `tools`, `step-done` | inside `step()` |
| `after-step`, `stopping` | `step/end` published; awaiting `agent/turn-stopping` |
| `failing` | the catch of `turn()` |
| `drain`, `exit` | `turn/end` published; `turn()` has returned false |

Messages are identities. `fate`, `owed`, `joined` and `late` are history
variables: where each message is, whether an accepted wake is still owed a turn,
and which waking messages arrived during a turn or after its last look at the
inbox.

Calls may come between any two actions, which covers both other tasks and the
listeners the driver calls. One rule restricts them: `Session.append` throws
when it is reentered, so while the driver is publishing an append (`Publishing`)
nothing that appends can happen: no send, no edit and no cancel with input to
clear. Such a call fails before it has any effect, except in `dispose()`, whose
`finally` detaches the agent all the same (`DisposeFails`).

`dispose()` is cut at its awaits: `waiting` for `whenIdle()`, then `unwinding` while
`machine.scope.dispose()` (`agent-loop/src/index.ts:531`) is pending, however long
that takes, then `detached`. Callers may go on to send, edit, cancel and start
maintenance until the detach, because the registries hand the agent out until
then; a send in the unwinding window starts a driver, which the detach does not
wait for. The comment on lines 524 to 526 calls any work sent after the cancel the
sender's bug; the model makes that assumption only from the detach on: an object
that is in no registry gets no more calls, while its driver runs on.

Abstracted: the `parent` cause (it is treated as `user` by this code), message
kinds and order inside a batch, chunks, the request header, the continuation
anchor, and the settling of `activityDone` in a stretch of its own. `decision`,
`stepEnd` and `retries` return to their initial value when their scope ends, which
only keeps states that differ in dead locals together. `TurnRefused`
stands for a turn that never opens, because of an abort or of a failing
`turn/start`; other failing appends are not modelled. `Dispatch` is one action
with the check before it: the provider stream is a lazy generator, so nothing is
requested before `throwIfAborted()` on line 403. `Retry` is bounded by
`MaxRetries` because the code leaves the bound to the listeners. `clear()` and
`claim()` are one step each, so a listener called between their two splices is
not modelled.

### ToolScheduler

Positions are those of the whole message; the code counts within a group. `slots`
holds settled outcomes, `post` for one that still passes the post-execute
listeners. The environment aborts the signal, changes a tool's mode, settles or
rejects dispatched bodies, and answers or throws from the awaited hooks. When
calls are skipped after an abort, `started` goes on as the loop position.

### JobRegistry

A resolved `wait()` continues in a later action, and counts as a waiter until
then, as in the code; an aborted one is uncounted at once. The scope of an owner
unwinds one effect at a time, so the registry's cleanup may run after other
teardown code that still starts jobs (`OwnerScopeDisposes`, `DisposeOwned`).
`orphans` are the jobs whose `cancel` throws in a teardown. Layers, visibility,
output and the change listeners are left out, and `spec.run()` does not call back.

### WriteBehind

Event `n` is the one with `seq = n - 1`. A write goes from `writing` to
`succeeded` or `failed`, and its continuations run as separate actions; timers and
backend answers wait until no continuation is due (`MicrotasksRan`), as in the
JavaScript event loop. Initialization is one outcome, success or failure, that
stores the seed. The backend writes a batch wholly or not at all; what it may do
otherwise is in `PersistenceCoordinator`.

### PersistenceCoordinator

One id, with every `Session` object that carries it: `Fresh` ones made by a
consumer, and one for each `prepare()` call. `chain` is the queue of `serialize()`;
its head is the operation that runs, and `stage` is the backend call it awaits.
`entry` is the record of `SessionPreparations` (loading, ready, committing,
reserved), `state` the cursor with its owner, `retirement` the drain a later round
waits for. An operation's synchronous part and the first backend call it makes are
one action, and the backend's answer is another. A call that ends or starts over
removes the entry it holds and never one that took its place (`EntryWithout`): the
code compares the record, not the id, in `remove()`.

An event is the number of the session that appended it, so that logs of different
sessions differ, and 0 for a closer. Odd events open a turn and even ones close
it: that is all the coordinator can tell (what the closers really are is in
`SessionRepair`). `disk` has the committed events, and a torn tail with the
complete events in it. A failing append leaves nothing, a torn tail that the
backend rolls back, or, on the first write, a published log; a crash may leave a
torn tail too. Troubles are bounded together by `MaxTroubles`: one failure, one
crash or one plugin reload at any point. `Quiet` keeps the order of microtasks and
I/O, as in `WriteBehind`.

Left out: the public `create()`, `append()` and `readFrom()`; reads that fail, in
`loadStored()` and `readStoredRevision()` (`coordinator.ts` lines 893, 970, 1216 and
1274), where the operation rejects before it has written; several ids, which
share only the cache limit (`Evict` may drop the ready entry at any time); a
rollback that fails as well; other writers of the file; sessions that enter while
the plugin unloads.

### SessionRepair

Events carry their type, turn, step, calls and citation. The driver appends what
`agent.ts` and `tool-calls.ts` append, with two parallel calls at most, a pruner
may rewrite a result, and the process dies after any event or after any event of
the repair. `Closers` is `interruptedTurnClosers` and `Valid`/`Apply` are
`validateEvent` and `applyTransition` with all the checks on these events. Both
loops are functions of the log: `ScanOf(l)[i]` and `TraceOf(l)[i]` are their
states after `i` events. Call ids are made up by the model; `used` counts them,
so that none is used twice, and reuse of an id is not modelled.

### AgentLifecycle

`life` is one record for each call of `createAgent()` or `resume()`: where the
call is (`pc`), the promise `raceAbort` waits for (`race`), the fused signal, the
memoized `dispose()`, the owner effect and the factory's tracking, the reserved
preparation, and which creation and disposal edges were announced. `publish()` and
the minting of the scope run listeners synchronously; they are cut at the
listeners, and inside them only an abort or the beginning of an unload may happen
(`Sync`). `SetupFails` covers a failing setup, a failing commit and a taken
identity. A setup and a load may never settle.

Left out: the agents started from the configuration, and a detach requested by a
creation listener itself: the factory's own disposal always reaches the
registries in a later stretch.

## Runs

| Run | Instance | Question |
| --- | --- | --- |
| `agent_loop` | 2 messages, 2 steps per turn, 1 retry, 1 maintenance task, every pre-step answer | safety of the driver, cancels and disposals end; 219,000 states |
| `tool_scheduler` | 3 calls, pool of 2, 1 mode change, every initial classification | order, exclusivity, abort, failure, termination |
| `job_registry` | 2 jobs, 1 owner and unowned jobs, 2 waits, 1 active job per owner | reporting, teardown, waits return |
| `write_behind` | 2 flushes, 3 events, of which up to 1 seeded | no loss, no strand, barrier, liveness |
| `coordinator` | 2 new sessions, 1 prepare, load or inspect, 2 events, 1 trouble; no log, or an interrupted and torn one | safety of the stored log |
| `coordinator_liveness` | 2 competing calls, 1 trouble | calls answer, disposal ends |
| `session_repair` | logs of up to 11 events before a crash, 2 tool calls per message | recovery; 24,000 states |
| `agent_lifecycle` | 2 creations or resumes of one identity, 1 owner | registries, rollback, teardown, liveness; 221,000 states |
| `agent_loop_unclaimed_wake`, `agent_loop_detach`, `coordinator_refused_log`, `lifecycle_owner_unload` | small instances of the same modules | statements of the code's comments that the code does not keep, below |

Why these bounds are enough. Two messages let one be claimed while the other is
sent, edited, or left over for a second turn; a third only lengthens lists whose
elements are treated alike. Two steps separate a turn's first step from a
continued one, and the limit is hit. One maintenance task suffices for a wake
during it and for a turn after it. Three calls with a pool of two give a full
pool, a waiting call, and an exclusive call between or after parallel ones; one
mode change makes a later call exclusive, or an exclusive one parallel, while the
group runs. Two jobs and two waits let one wait abort while the other is counted,
and one job be torn down with its owner while the other is unowned. Three events
let one be written, one be queued during the write and one follow it; two flushes
share or follow a barrier. Two sessions and a call on one id are a lifecycle, its
successor and a reader that races both; two calls suffice for one to wait for the
reservation of the other; a second trouble would only repeat what the first has
put to the test. Eleven events hold a whole turn with two answered tool calls and
a second turn that is interrupted anywhere. Two creations make an identity
contested, one owner makes its unload hit both. Counters that grow without limit in the code (`turn`,
`activity`, step numbers) are bounded because every message is submitted once.
`CHECK_DEADLOCK FALSE` is in every cfg: an agent, a step, a registry and a
session may all simply have nothing left to do.

### Properties

- Driver: `OneHome`, `WakeIsNotLost`, `LiveTurnDrains`, `TeardownWaits` (what was
  begun before `whenIdle()` returned is over), `AbortStopsModelWork`, the refinement `ImplementsSessionTrace`, and `DriverInv`,
  the inductive invariant of the proofs. Liveness: `CancelConverges`,
  `DisposalFinishes`.
- Tool calls: `ModelOrder`, `EveryCallIsAnswered`, `ExclusiveRunsAlone`,
  `AppendsAreLegal`, `SchedulerFinishes`, and `SchedulerInv`: the pool limit, a
  group commits what it started, no body outlives the step.
- Jobs: `SuppressedNoticeHasReader`, `NoticeIsNotRepeated`, `WaitsReturn`,
  `OwnerTeardownFinishes`, and `RegistryInv`: both teardowns leave no active job.
- Write controller: the refinement `ImplementsDurableLog`, `FlushAnswers`,
  `EventsBecomeDurable`, and `QueueInv`: nothing is lost or stranded, and a barrier
  has the queue to itself.
- Stored log: `AckedIsStored` (what a flush reported survives everything),
  `StoredOnlyGrows`, `StoreFollowsOwner` (two sessions are never mixed),
  `CloseIsQuiescent`, `StoreInv` (cursors are true, a reservation is exact);
  `CallsAnswer`, `DisposalCloses`.
- Recovery: `RepairIsLegal`, `RepairResumes` (a repair may be interrupted and
  repeated), `InterruptedCallsAnswered` (a tool that may have run is never reported
  as not started).
- Lifecycle: `LifecycleInv` (who is registered is owned, the registries agree),
  `FailureLeavesNothing`, `FactoryTeardownIsQuiescent`, `AbortedCreationAnswers`,
  `FactoryTeardownFinishes`.

Each has a mutant in `PROJECT.json`, a plausible bug that breaks it.

### Fairness

Weak fairness on the driver and on continuations says that the event loop runs
what is due and that what the code awaits settles. For hooks, provider streams and
tool bodies the code passes them the abort signal and relies on them to obey it;
for the backend, that a write answers. A job's producer is only assumed to settle
once it was cancelled, the contract of `JobHooks.cancel`. The scope of an agent is
assumed to finish unwinding: a cleanup that throws is logged by the framework, and
the one that waits for something, the jobs', ends by `OwnerTeardownFinishes`. In
`PersistenceCoordinator` the backend answers and a holder of a reservation
eventually publishes or releases it (the preparation is a `using` declaration of
the factory). In `AgentLifecycle` a started disposal ends, which `AgentLoop`
shows of the loop; setups and loads need not settle. Callers, aborts and
teardowns are never assumed to happen.

### Where code and comments part

| Run | The comment | What the code does |
| --- | --- | --- |
| `agent_loop_unclaimed_wake` | live drivers claim queued work themselves (`agent.ts:210`) | a followup between the last look at the inbox (line 381, or none at all on line 333) and the finally of `kick()` is neither claimed nor latched: the agent goes idle with it pending |
| `agent_loop_detach` | `agent/disposed` comes after driver quiescence (`core/agent/src/runtime-types.ts:161`) | a followup while the scope unwinds (`agent-loop/src/index.ts:531`) starts a driver, and the agent is detached under it; what that driver appends later is not published, so it is not stored |
| `coordinator_refused_log` | a file in the way belongs to a different session (`session-persistence-jsonl/src/index.ts:612`) | a first write whose log was published before its directory sync failed is refused for ever because of its own log |
| `lifecycle_owner_unload` | every racing owner awaits one quiescence (`agent-loop/src/index.ts:516`, `547`) | an owner that unloads while a disposal is already running does not wait for it (line 549) |

`LiveTurnDrains` is what remains true of the first: a message that arrives while
a turn is open that then runs a step and ends normally is claimed. `TeardownWaits` is
what remains of the second: `dispose()` waits for everything it finds begun.

The models contain more of the kind, which are not kept as runs:

- "disposal never latches" (`agent.ts:211`): after a user cancel the reason stays
  `user`, so a followup during disposal is latched and its turn is awaited.
- "the first cause wins for that activity" (`core/agent/src/runtime-types.ts:80`): a
  cancel that keeps the inbox and lands while `turn/end` is published aborts a
  controller that line 382 replaces.
- "a removed waking message spends no model call" (`agent.ts:329`): it does when the
  runtime context has changed, because that alone fills the batch (line 331).
- `dispose()` from a listener of the driver's append throws when input is pending
  (`agent-loop/src/index.ts:529`), and the agent is detached while its driver runs
  (`DisposeFails`).
- A configured agent waits for any occupant of its identity to leave, although the
  comment (`agent-loop/src/index.ts:454`) leaves a healthy one to be reported as a
  collision.

## Proofs

The theorems hold for every value of the constants: any set of messages, calls,
jobs, waits, owners, events and flushes, and any limit. They use only the named
assumptions of the modules: bounds are natural numbers (positive where the code
divides work by them), the decisions are those of the pre-step listeners, and the
job registry's key for unowned jobs is no owner (`ServiceAssumption`).

| Module | Theorem | Property |
| --- | --- | --- |
| `AgentLoopProofs` | `TypeCorrect` | `[]TypeOK` |
| | `DriverInvHolds` | `[]DriverInv` |
| | `NoWakeIsLost` | `[]WakeIsNotLost` |
| | `TeardownWaitsForWork` | `[]TeardownWaits` |
| | `CancelStopsModelWork` | `AbortStopsModelWork` |
| | `DriverImplementsTrace` | `ImplementsSessionTrace` |
| | `InboxIsInductive` | the invariant of the next two |
| | `EveryMessageHasOneHome` | `[]OneHome` |
| | `LiveTurnsDrain` | `[]LiveTurnDrains` |
| `AgentLifecycleProofs` | `LifecycleIsInductive` | the invariant of the next three |
| | `RegisteredAgentsAreOwned` | `[]LifecycleInv` |
| | `FailedCreationLeavesNothing` | `[]FailureLeavesNothing` |
| | `FactoryTeardown` | `[]FactoryTeardownIsQuiescent` |
| `ToolSchedulerProofs` | `SchedulerIsInductive` | the invariant of the next five |
| | `PoolDiscipline` | `[]SchedulerInv` |
| | `ResultsInModelOrder` | `[]ModelOrder` |
| | `ReturnAnswersEveryCall` | `[]EveryCallIsAnswered` |
| | `ExclusiveCallsRunAlone` | `[]ExclusiveRunsAlone` |
| | `AppendsAreAccepted` | `AppendsAreLegal` |
| `JobRegistryProofs` | `TeardownJoinsJobs` | `[]RegistryInv` |
| | `NoticesAreInductive` | the invariant of the next two |
| | `WithheldNoticesAreRead` | `[]SuppressedNoticeHasReader` |
| | `NoticesAreNotRepeated` | `[]NoticeIsNotRepeated` |
| `WriteBehindProofs` | `QueueIsInductive` | the invariant of the next two |
| | `QueueIsComplete` | `[]QueueInv` |
| | `WritePathImplementsDurableLog` | `ImplementsDurableLog` |
| `PersistenceCoordinatorProofs` | `CoordinatorInvariant` | the invariant of the next five |
| | `StoreMemoryIsTrue` | `[]StoreInv` |
| | `AckedStaysStored` | `[]AckedIsStored` |
| | `StoreFollowsItsOwner` | `[]StoreFollowsOwner` |
| | `ClosedIsQuiescent` | `[]CloseIsQuiescent` |
| | `StoredLogOnlyGrows` | `StoredOnlyGrows` |
| `SessionRepairProofs` | `RecoveryIsInductive` | the invariant of the next three |
| | `RepairsAreLegal` | `[]RepairIsLegal` |
| | `RepairsResume` | `[]RepairResumes` |
| | `InterruptedCallsGetAnswers` | `[]InterruptedCallsAnswered` |

Apart from `TypeOK` of `AgentLoop` and `DriverInv` (the conjunction of three parts
below) none of the properties is inductive as it stands. TLC checked each inductive
invariant on the instance of the module's run; that of the
coordinator also with two and three calls.

**The driver.** `TypeOK` is inductive alone; the editing of lists needs two lemmas
on subsequences. `DriverInv` has three parts, each preserved given the earlier
ones:

1. `PhaseInv`: a driver exists exactly in the running phase; an idle agent is
   unaborted and has nothing latched; a running one has a latched wake only
   behind an abort; the activity promise is resolved exactly when idle; the
   disposer never awaits a future activity, and has left the wait only for one
   that is resolved.
2. `LogInv`: which turn and step are open follows from `pc`, and the numbers the
   log expects next follow from `turn` and `step`.
3. `WakeInv`: an owed wake is held by a driver about to open its turn, or by the
   latch together with a message in the inbox.

`WakeIsNotLost` speaks of idle states only, and what leads there is the loss of
the latch or of the message behind it. The danger is a driver that claims the last
message while a wake for it is latched; `PhaseInv` excludes it, because a latch in
a running phase means an abort, and an aborted driver passes no claim and no
`Drain`. `TeardownWaits` needs the promise bookkeeping: the promise the disposer
awaited is resolved, so as long as it is the current one the phase is idle, so no
turn is open; when it is not, new work was started after the wait. `AbortStopsModelWork` follows from the guards after each await
and from `LogInv`, which says that no step or turn is left open to be confused
with a new one. For the refinement, `DriverInv` supplies that a turn starts with
none open, with the expected number, and likewise a step.

**The inbox.** `InboxInv` splits `OneHome` into its lists, because a step changes
one of them; it adds where the driver holds a batch (`BatchOK`), without which a
second claim could overwrite the first. Each operation of the inbox has a lemma
(`ClaimMoves`, `ClearMoves`, `SendMoves`, `EditMoves`, `ReleaseMoves`) on top of
lemmas about ranges and injectivity of concatenations and subsequences. For
`LiveTurnDrains` the claim is extended to the stretch between `Drain` and the end
of the driver (`DrainedOK`), where sends still arrive but no longer join the turn.

**Lifecycle.** `LifeOK` speaks of one record: how far `dispose()` is decides
whether the agent is tracked, where `createAgent()` or `resume()` stands decides
who holds the preparation. `RegisteredOK` and `AwaitedOK` relate the records to the
registries and to what the factory waits for. A lemma says which changes of a
record every step is limited to (`Evolves`), so that the relations need not be
reproved for each action.

**Tool calls.** `IInv` says where a call of the open group can be: being prepared,
running, in its slot, or committed (`PoolOK`), how the counters stand at each await
(`CountersOK`), and which calls and results the log holds in terms of the two
counters (`LogOK`). `ModelOrder` and `EveryCallIsAnswered` are read off `LogOK`;
`ExclusiveRunsAlone` needs `ModeOK`, because the mode of a later call may change
while the group runs.

**Jobs.** Teardown and notices need one invariant each. `TeardownInv`: for an
active job the service and the owner that will join it have not finished, and the
cleanup that does so is attached or already awaits the job. `NoticeInv`: only
terminal records were announced and a wait that still waits is about a job that has
not settled, so the waits that a settlement meets are those it counted.

**Write controller.** `SequenceOK`: the batch followed by the queue are consecutive
events ending with the last accepted one, and start no later than the first one
that is not stored. `StoreAfter` says that appending what is new of such a run to
the stored prefix gives a longer prefix, for the filter that `appendLiveBatch()`
applies. `ControlOK`: a write, an open barrier and a due continuation exclude each
other, except for the pairs the code allows. `AttendedOK` is why queued events are
written when no barrier is open. The refinement maps what a `flush()` waits for to
"asked" (`Answered`); a barrier closes on an empty queue with no write active, and
`SequenceOK` then makes the stored log as long as the accepted one.

**Coordinator.** The danger is an operation that was queued under conditions that
no longer hold when its turn comes: the id has a new owner, the log has grown, the
entry was removed or replaced. `IInv` says for each kind of operation what does
still hold (`OpOK`), and for the rest of the state what it may rely on:

1. `StateOK`: an owned state has a cursor at the end of the stored log, which is
   whole and begins its owner's log; an ownerless one is only left by a commit, over
   a balanced log.
2. `SessionOK` (`Controller`, `WriterOK`): a controller that may write owns the
   state and is not ahead of the cursor; one that has lost the state has nothing to
   write and its session is gone.
3. `RegistryOK`, `OrderOK`: one live session; the chain has no two operations
   alike, only its head has begun, and of two sessions waiting for `onCreated()` the
   earlier has been disposed. Without the last, `onCreated()` could take the id
   from a live owner that has stored nothing.
4. `EntryOK`, `CallOK`: an entry is not longer than the stored log and excludes a
   session waiting to be created; a call that commits or has reserved holds the
   only one, and a call that lost its entry has read an older log, so it does not
   commit it.
5. `FlushedOK`, `InFlightOK`, `ClosedOK`: during the disposal a session that is no
   longer waited for has nothing left or has failed; a write in flight is in the
   chain, so an empty chain means none.

Most of a preservation proof is that the operations the step does not touch keep
their conditions. Lemmas state this once for each way a step changes the chain
(an operation is appended, the head leaves, one in the middle is removed), for a
session that changes only what no queued operation reads (`Steady`), and for calls
that keep or lose their entry (`Spared`); an action then shows which case it is.
The properties are read off `IInv`, and `StoredOnlyGrows` off the steps: what is
written or repaired is appended.

**Recovery.** The properties speak of two recursions over the stored log, the scan
of `interruptedTurnClosers()` and the validation's trace, and of a third, the
results since the last message (`Answers`). `SetInduction`, which says that a set
with 0 and the successors of its members contains every natural number, shows that
each is a function; one lemma for each says what one more event does to it
(`ScannedAppend`, `TracedAppend`, `AnswersAppend`), and no later proof looks inside.
`IInv` says of the log (`SoundLog`):

1. `Agree`: scan and trace have the same turn and step open, every event so far was
   valid, and what is pending belongs to the open step; a call whose `tool/call`
   was stored is one the trace expects a result of.
2. `Numbered`: the number the trace expects of the next turn follows from the last
   `turn/start`, which is where a restarted agent takes it from (`LastTurn`).
3. `AnsweredOK`: the calls of the open step's message are those answered, then those
   pending, in the model's order, and each cites its `tool/call` exactly if there
   is one.

To this it adds `DriverOK`, the driver's position, numbers and calls in terms of
the scan, and that call ids are fresh. `SoundLog` is needed of every log, not only
of one a driver wrote: a repair may die after any closer, and the next load scans
what it left. So the lemmas are about one event added to a sound log (`TurnStarts`
to `CallEnds`); the driver's actions and the closers both use them. `OneCloser`
shows that the first closer keeps a sound log sound and that the closers of the
longer log are the rest; `Cut` and `Repaired` repeat it, which gives
`RepairResumes` and the preservation by an interrupted repair. When none is left
the log is sound and has nothing open, which is `RepairIsLegal`, and `AnsweredOK`
of that log is `InterruptedCallsAnswered`.

Only model-checked: the liveness properties. Fairness and `ENABLED` are beyond the
prover. Every invariant, action property and refinement that a passing run checks
is a theorem. The library's induction schemas take an operator that the provers
cannot instantiate, hence `SetInduction`, which takes a set. The modules declare no
`RECURSIVE` operator.

## Plan

Modules to come, most important first:

1. `AgentLoop` refined by `clear()` and `claim()` splice by splice with listeners
   in between, and composed with `JobRegistry` through the completion reporter.
2. `ToolPipeline`, `Approval`: one tool call from prepare to its result, and the
   pending user requests it may await.
3. `LlmRetry`, `GoalRounds`, `Schedule`, `Subagent`: clients of the driver.

Proofs to come: that the coordinator implements `DurableLog` for the session that
owns the id, and the invariants of the modules above.

## What is not modelled, and why

Formats and I/O (file formats of the backends, SQLite, subprocesses, terminals, MCP, LSP, hosts, the
web client) have no shared state of the kind checked here, or have it outside the
process. Readers of the log (projections, titles, statistics, telemetry) are
folds. Message contents, prompts, tool schemas and model output are data no
property distinguishes. `PROJECT.json` gives the reason for each part under
`components`.

## Running

    tlc -workers 2 -config AgentLoop.cfg MCAgentLoop
    tlapm AgentLoopProofs.tla

`PROJECT.json` lists the configuration and module of every run; every module whose
name ends in `Proofs` or `Invariant` is checked with `tlapm` in the same way. The
two modules of the coordinator take about six minutes each, the others less.
