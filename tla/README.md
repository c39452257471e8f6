# Sparkwright in TLA+

Sparkwright is a TypeScript agent harness. A run alternates between a model
and tools; runs spawn child runs; a host process serves interactive sessions,
runs background tasks and durable workflows, and arbitrates the workspace that
all of these read and write. This directory holds TLA+ models of the parts of
it in which concurrency, ordering and failure matter, TLC configurations that
check them on small instances, and TLAPS proofs for every instance.

Paths below are relative to `src/packages`.

## The system

| Component | State it keeps | Operations | Hard behaviour | Correct when |
| --- | --- | --- | --- | --- |
| Workspace lease coordinator, `host/src/workspace-lease-coordinator.ts` | per root: writer, readers, waiting queue; per lease: references, loss handlers, two timers | acquire, release, revoke, abort of a waiter, expiry, heartbeat | lost wake-ups, run-chain deadlock, reference counting across loss, two timers of one lease | a writer is alone; first come first served; the head waits only for a holder; nobody waits for an ancestor; losses are told before the next grant |
| Lease session and mutating tools, same file | per child run: current lease, observed epoch, reread flag, pending transition | admission, ensureWrite, transition read to write, record read/write/conflict, release | state read before an await, calls given up by a timeout, refused transitions, the end of a run | mutations overlap with no live run's; no write on a stale view; what stands in the scope is what the runs have under way |
| Workspace epoch, `core/src/workspace.ts` | counter, change sets | record a mutation, read the epoch | read and compared around awaits | monotonic, one increment per mutation |
| Execution lanes, `server-runtime/src/execution-lanes.ts`, with the driver in `host/src/host-service.ts` | per lane: queue, active execution, runnable flag; list of runnable keys, two counters, idempotency map | submit, schedule, start, complete, cancelExecution, cancelLane | cancellation while starting, stale keys, capacity, dropped entries | counters are exact, no lane is forgotten, lanes take turns, each command has one outcome |
| Task output, `agent-runtime/src/tasks/store.ts` | buffer per task, subscribers, terminal waiters, per iterator an index and a queue | appendOutput, update to terminal, next, return | one chunk on two paths, end racing a waiting reader | every chunk once and in order; every reader ends |
| Background tasks and notifications, `agent-runtime/src/tasks/{manager,notifications,file-notifications,tools}.ts`, `host/src/runtime/task-runtime-operations.ts` | task records with an awaited bit, runners, promotion waiters, durable outbox, failed deliveries | create in three modes, end, promote, join, wait, consume, drain, revive | one end told on several paths (tool result, notification, join, resume), the wait of a run racing the end, crash between record and notification | the end of a task is told once, is never lost between its holders, and wakes the run that waits for it |
| Watchdog and file task store, `agent-runtime/src/tasks/{watchdog,file-store}.ts` | files | sweep, append then update | stale snapshots, crash between two writes | record and output agree after restart |
| Workflow store and journal, `agent-runtime/src/workflows/{store,journal}.ts`, `doc-store/index.ts` | journal entries by sequence number, lease files | acquireWriter, mutate, create, recover | crashes and zombies between lease, claim, publish and reread | one linear history; a fenced writer never changes it |
| Workflow control, `workflows/{control,control-processor}.ts` | dedupe entries, command files, cursor, outcomes | enqueue, process, recover | crash between each two writes | a command is applied at most once and answered |
| Workflow service and workers, `server-runtime/src/workflow-service.ts`, `workflows/workers.ts` | instance lock, worker records, handoffs | acquire instance, drain, hand off, heartbeat | takeover of an expired lock, draining | one service owns an instance |
| Workflow machine, `workflows/{machine,run-chain,channels}.ts` | pure | step | none | agrees with its definition |
| Core run loop, tool orchestration, approvals, `core/src/{run,tools,tool-orchestration,workspace,approval}.ts` | state of the run, result, command queue, abort signal, step and continuation budgets, batch of calls, pending approvals | start, turn, enqueue, cancel, abort, batch, gate, approve, write, timeout, wait for tasks, complete, fail | whoever ends the run races everyone else, bodies that were given up run on, commands arrive at any await | a run ends once; an applied message is seen; extra turns are paid for; nothing that writes starts late; aborts and commands are heard |
| Storage locks, `core/src/storage-lock.ts` | lock files | lock, steal stale, unlock | two processes steal one lock | mutual exclusion |
| Host service and connections, `host/src/{host-service,connection,server,client-approval}.ts` | sessions, connections, start outcomes | route, start, resume, shutdown | disconnect and shutdown with work queued | every request is answered |
| Supervision and delegation, `agent-runtime/src/agents` | lifecycle of a child | request, admit, start, finish | admission failure | one terminal event |
| Cron, streaming runtime, IM gateway | job store, partial tool calls, chat outbox | tick, stream, deliver | two schedulers, retries | at most once per slot; delivered once |
| Adapters, SDKs, skills, shell and web tools, TUI, CLI, configuration | translation, I/O, presentation | | | |

How they interact. The host service submits a session's commands to a lane;
the lane's driver starts a run; the run's mutating tools go through
`withWorkspaceMutationLease`, and its children through the admission made by
`createWorkspaceMutationAdmission`; both use the one coordinator of the
process and the epoch shared by the run tree. Background tasks write their
output to the task store, where task tools follow it, and their end is
announced by the notification outbox, which a run drains at the head of each
step and waits on before it ends. Workflows live on disk and are shared by
processes: a submitter leaves a command in the control inbox, the host that runs
the workflow applies it through the writer that the workflow store gave it. The
lane coordinator and the lease coordinator do not know each other.

## The modules

### WorkspaceScope and WorkspaceLease

`WorkspaceScope` holds the synchronous methods of `WorkspaceLeaseCoordinator`
as functions from one scope (leases held, queue) to the next: `Reentrant`,
`AncestorBlocks`, `Joined`, `Drained` and so on. It has no variables, so the
next two modules share it. `WorkspaceLease` is the coordinator under arbitrary
callers.

| Model | Code |
| --- | --- |
| `scope.holders`, `scope.queue` | `ScopeState.writer` and `readers` (a lease's mode says which), `queue` |
| `refs`, `handlers`, `auto` of a lease | `references`, `lossHandlers`, `autoRenew` |
| `left`, `beat`, `due` of a lease | ticks until `expiryTimer` fires, the heartbeat's interval, ticks until it fires |
| `call[r]`, `lease[r]` | the promise `acquire` returned, and the handle's record and `released` flag |
| `told` | calls whose `onLost` has run |
| `Reenter`, `Refuse`, `Enqueue` | the three ways through `acquire` |
| `AbortBefore`, `AbortWaiting` | the caller's signal before and while it waits |
| `ReleaseStale`, `ReleaseShared`, `ReleaseLast` | `release()` of a handle whose record is gone, shared, or held by it alone |
| `Revoke`, `Expire`, `Heartbeat` | `revoke`, the two timer callbacks |

JavaScript runs each of these to completion, so each is one step, the drain at
its end included. Time is relative: `Tick` ages every timer and is disabled
while one is due, so timers fire in the order they are due and never late;
`Ttl` is a small set of numbers of ticks. Leases of different roots share
nothing, so there is one scope. Every caller passes `onLost`, as all callers in
the repository do. Not modelled: the text of errors, `inspect()`, symbolic
links among roots.

### WorkspaceLeaseSession

Children with a `WorkspaceLeaseSession` and root runs that lock every mutating
call, over the same scope operators. A run is in one phase (core never runs a
mutating call beside another one).

What core does when a call times out or its run is cancelled is to stop awaiting
it (`executeWithTimeout`); the body of the tool goes on. So the model keeps the
call that the run awaits (`phase`) apart from the one it gave up (`ghost`), and
both apart from whether the run is over (`fate`). `GiveUp` is the timeout, of a
child's call or a root run's: the run goes on, and what it gave up waits or
writes by itself. `Cancel` and `RootCancel` end the calls that wait, through the
linked signal, and leave the bodies that write.

| Model | Code |
| --- | --- |
| `Admit`, `Admitted`, `AdmissionRefused` | `createWorkspaceMutationAdmission` |
| `BeginRead`, `FinishRead` | an observing tool and `recordSuccessfulRead` |
| `WriteAtOnce`, `Transition`, `JoinTransition`, `TransitionRefused`, `Resume` | `ensureWrite` and `transitionToWrite`, before and after the await |
| `Mutate`, `MutationConflicts`, `MutationFails` | the end of a child's mutating tool |
| `RootAsks`, `RootJoins`, `RootWrites`, `RootDone` | `withWorkspaceMutationLease` without a session: the acquire (queued, or joined to the lease a given-up call still holds), the body, the `finally` |
| `Finish`, `Cancel`, `RootCancel` | the end of `spawnSubAgent` with `session.release()`, and the two cancellations |

`from[c]` is the epoch a pending transition started from, `observed` and `reval`
are the session's `observedEpoch` and `revalidationRequired`. `Transition`
releases the read lease and queues the write request in one step (there is no
await between them). A session has one request at a time, a root run one for each
call, hence `Calls`. `stale`, `guarded` and `gaveUp` are history: whether another
lease holder mutated the workspace since a run last looked, whether it held a
lease when it looked, and who had a call given up.

A child's admission releases the lease its session knows of when the child is
over, whatever bodies still write. Such a body is `Late`: nothing in the
coordinator knows of it, the next writer is admitted beside it, and the code has
no fence against it. `WriterWorksAlone` says that this is the only way in which
two runs mutate at once: a body that was given up or cancelled but still has its
lease keeps the others away. `FreshWritesUnderLease` is about children that run,
and a late body does not count against other runs' views.

`RequestsOfCalls` says what stands in the scope: each request once, each lease
with the count of the requests that share it, for a root run exactly the calls
that have not ended, and nothing for a child that is over, except what it leaves
behind when it finishes beside a given-up call that awaits a write lease. In that
case `release()` frees the old read lease a second time, and the request, then
the lease, stay for good.

At most one call per run is given up. A shell command that a root run puts into
the background and that keeps the lease of its call is such a call here. Leases
are not lost. A run cannot end or be cancelled between the grant of a lease and
the microtask that resumes its call.

### ExecutionLanes and LaneQueues

`ExecutionLaneCoordinator` with the host's driver. `queue`, `active`,
`runnable`, `keys`, `activeCount` and `queuedCount` are the fields of that name
(`keys` is `runnableLaneKeys`); `state[c]` is the outcome of a command;
`chosen` is the idempotency map. `schedule()` runs to completion inside the
call that needs it. Its loop is modelled one round per step (`PassKey`,
`StartHead`, `EndSchedule`) under the flag `scheduling`, and all other actions
wait for that flag, which keeps the call atomic. The driver's check of the
signal and the installation of the handle are one step (`Started`): nothing in
between can fire the signal but another microtask, and no caller cancels from
one. That a lane takes turns with the others is not claimed: `cancelLane` leaves
the lane's key among the runnable ones, so the lane may take two turns in a row
(a proposal among the docs asks for round robin). That no lane is forgotten is the liveness
`EveryCommandLeaves`.

`LaneQueues` is what callers of `submit()` may rely on, without flags, keys or
counters: a FIFO per lane, at most one command of a lane and `Limit` of all
running, and six fates of a command. A submission is turned away only for a
key that was used in the lane or because it could not start at once; only a
cancelled lane drops commands. `LanesAreQueues` is that specification under
`waiting <- queue`, `running <- active`, `used` the keys for which `chosen` has
a command, and `fate` the state of a command with `starting` and `running` taken
together. `SubmitAgain` and `SubmitFull` map to `TurnAway`, `Submit` to `Enter`,
`StartHead` to `Begin`, `StartFails` and `Completes` to `End`, `CancelLane` to
`Clear`; the other steps, `CancelExecution` among them, map to stutters: a
cancellation ends nothing by itself.

### TaskOutput

`InMemoryTaskStore.appendOutput`, the terminal part of `update`, and the
iterators of `loadOutput`. A chunk is its sequence number. A reader calls
`next()` only after the previous call returned, or abandons it with
`return()`. `got` is the history of what a reader received. A chunk that is
appended between two calls of `next()` is both buffered and queued, and is
delivered twice; `NothingSkipped` therefore promises every chunk in order, and
not only once.

### WorkflowStore and WorkflowRegister

Processes that write one durable workflow run: the lease directory
(`doc-store/index.ts`), the journal of numbered entries
(`workflows/journal.ts`), and `acquireWriter` with the writer it returns
(`workflows/store.ts`). Processes share nothing but files.

| Model | Code |
| --- | --- |
| `slots[s]` | file number `s` of the journal directory; `Torn` is one without its content |
| `exists` | the directory has been made |
| `head` | what `readWorkflowJournal` returns; always `Replay(slots)`, kept as a variable so that it is evaluated once per step |
| `disk`, `order` | unexpired lease entries, and their records by `acquiredAt` |
| `pc`, `job`, `gen`, `expect` | where a call is, the entry it publishes, its `generation`, the `expectedRevision` of its mutation |
| `LeaseBusy` ... `LeaseConfirm`, `Expire`, `Leave` | `acquireFileDocumentLease`, the passing of `expiresAt`, `release` |
| `PublishBaseline` ... `VerifyClaim` | the rest of `acquireWriter` |
| `Create`, `Conflict`, `Fill`, `FillFails` | `publishExclusiveJsonDocument`: `open` with `wx`, `EEXIST`, `writeFile`, its failure and the removal of the entry |
| `Begin` | a caller reads the record and calls `create` (no record yet) or `mutate`/`compensate` |
| `RefreshCheck`, `RefreshWrite` | `lease.refresh()`, checked and then written |
| `PublishMutation`, `MutationStale`, `VerifyMutation` | the rest of `mutate`; `acked` and `refused` are the history of what it reported |
| `Crash` | a process stops for good between any two of these |

`applyCanonicalEntry` is `Applied`: a claim or a mutation counts only when it
follows from the head, any other entry is quarantined and only moves the
number on. In the code the head keeps the last token and the latest record; the
model keeps all of them, as `owners` and `events`, which is what the register
below is refined by. `compensate` differs from `mutate` in a label only.

`WorkflowRegister` is the promise: writers take the record over in turn, each
at most once, only the last one changes it, and no change is ever taken back.
`OneWriterAtATime` is that specification under the mapping `owners <-
head.owners`, `history <- head.events`. A crash, a quarantined entry, an
expired lease or one that a slow `refresh()` brings back all map to stutters.

`Prompt` is an assumption about the environment and not about the code: nobody
creates or fills an entry once a later one is there, that is, nobody is held up
between reading the head and finishing its entry while others publish beyond
it. With it the register is implemented; without it, it is not (see the violated
run `workflow_store_late`). The leases alone give neither: under `Prompt`
two writers may still hold one at once, and stale ones publish.

Abstracted: a scan of a directory is one step, and so is the write of a lease
entry (a half-written one turns all callers away for 24 hours). A `sync` that
fails after the content was written is not modelled.

### TaskRevival

The tasks of one run and the ways in which their ends are told to it. Each of
the four places that know a task keeps its own state, and the model keeps all
four: the record (`record`, `live`), the outbox and failed deliveries (`inbox`,
`retry`), the joins under way (`joining`), and the run with its context and
checkpoint (`run`, `context`, `saved`). `again`,
`lost` and `unheard` are history.

| Model | Code |
| --- | --- |
| `Create(t, mode)` | `task_create`: foreground, awaited in the background, or not awaited |
| `EndTask` by `End`, `FailOrphan` | `transitionTerminal` with `deliver`, by a runner, the watchdog or `task.stop`, and at resume by `failOrphanedInProcessTasksForRun` |
| `Overrun`, `Inline`, `RequestPromotion` | the race in `waitForForegroundTask` |
| `Promote`, `InlineConsume`, `InlineReturn` | the ticket, or `consumeTerminalObservation` and the inline result |
| `Wait`, `WaitOver`, `Collect` | `task wait` for all or any, one record at a time |
| `Join`, `JoinDeliver` | `task.join` of the host and its redelivery, with the await between them |
| `StartStep` | the checkpoint, and `drainNotificationSources` |
| `Answer`, `CheckAwaited`, `WaitUntilAvailable`, `Revive`, `Cancel` | `waitForAwaitedTasksBeforeTerminal` and `waitUntilAvailable` |
| `Crash`, `Restart`, `Resume` | the host stops between any two of these; a new one resumes the run |

The check for pending tasks and the registration of the waiter are two steps,
since both are awaited; `WaitUntilAvailable` is what closes the gap. A crash may
fall between the terminal record and its notification (`torn`).

What the model shows on the way: a join of a task that ended unawaited, whose
notification is still in the outbox, does not wake a run that waits already
(`Join` sets the bit and delivers nothing); the failed deliveries stay in memory
because nothing calls `retryPendingNotifications`; what was drained since the
last checkpoint is lost on resume. A run that is cancelled inside a foreground
`task_create` or a `task wait` loses what that call reports: core stops awaiting
the call, but its body goes on, consumes the notification
(`consumeTerminalObservation`) and returns the result to nobody, so the report is
neither in the context nor in the outbox (`unheard`; `Told` is where it goes).
These are the exceptions in `ReportKept`, `AnswersAwaited` and `WaitEnds`. A
cancelled run takes no further step and is not resumed; its tool body and its
tasks go on. Left out: a timeout of core on a task tool (the tools set none, and
the host sets no default), the deduplication of `task_create`, a model that waits again for what it
was told, delivery errors that are not retryable.

### WorkflowControl

Attempts to submit a command and calls of `processNext`, over the inbox of one
workflow run (`workflows/control.ts`). Every exclusive file is `None`, then
`Torn`, then has its content. The workflow store underneath is the register that
`WorkflowStore` is shown to implement: an owner, a generation, a revision, and
of the record what the commands look at.

| Model | Code |
| --- | --- |
| `ClaimKey`, `NameCommand`, `ReadDedupe` | the dedupe entry in `accept`: create it, fill it, or `readDedupe` |
| `CreateCommand`, `FillCommand` | `publishCommand` |
| `Pick` | the pump takes the oldest pending command, a dispatch the one it is for |
| `FindApplied`, `Precondition`, `Acquire`, `Fresh` | the checks of `processNext`, each with its await |
| `Mutate`, `Verify` | `writer.mutate` with the expected revision |
| `Record`, `Fill` | `recordOutcome` |
| `Release`, `Expire`, `CrashCall`, `SubmitterCrash` | `finally`, a lease that runs out, processes that stop |

An outcome that says "rejected" may have an event in the journal: a host takes
the workflow over to apply the command, another one finds the generation changed
and records a rejection first. `AppliedIsTrue` is stated for the other outcome
only. Resume requests (which are dispatched instead of applied), answers to
approvals, expiry, authorisation and the cursor are left out. So is what a live
run does after its writer applied a command: a processor that finds the event,
or loses the race for the outcome, neither refreshes the run nor cancels it.

### RunLifecycle

One run of `SparkwrightRun`: the record, the command queue, the loop, its batch
of tool calls and the awaited task. A step is the code between two awaits, and
the callers of `cancel()` and `tryEnqueueCommand()`, the embedder's signal,
approvers and timers step in between.

| Model | Code |
| --- | --- |
| `state`, `result`, `terminals`, `accepting`, `aborted` | `record.state`, `this.result`, terminal events emitted, `acceptingCommands`, the abort signal |
| `queue`, `status` | `commandQueue`, `commandStatuses` |
| `loop` | `RunLoopState` and the place in the loop |
| `batch`, `call`, `givenUp` | what the loop awaits, how far each call got, bodies that lost against a timeout or an abort |
| `Moved`, `Ends`, `Cancel`, `ExternalAbort`, `Enqueue` | `setState`, `complete`/`fail`/`cancel`, the linked signal, `tryEnqueueCommand` |
| `EnterStep`, `StartWrapUp`, `WrapUp...` | `canEnterLoopStep`, `finishWithBudgetWrapUp` |
| `ApplyCancel`, `ApplyMessages`, `AbortBetweenTurns` | `consumePendingCommands`, `handleAbortBetweenTurns` |
| `AskCredentials`, `Credentials...`, `ModelRecovers`, `Model...`, `TurnFails` | `callModelPhase` |
| `StartBatch`, `AbortedTools`, `BatchOver`, `TerminalTool`, `NextTurn` | the tool phase, `continueForPendingCommands` |
| `StartWaiting`, `WaitOver`, `Answer` | `waitForAwaitedTasksBeforeTerminal`, the end of a turn without tools |
| `Gate`, `GateAnswer`, `EndsRun`, `Timeout` | `checkToolGate`, its approval, a hook that ends the run, `executeWithTimeout` |
| `Propose`, `WriteAnswer`, `Write` | `ControlledWorkspace.mutateFile` |

What the model shows on the way, and its properties take account of: the wait
for tasks adds a listener to the abort signal without looking whether it aborted
before, so an abort (or a command) that came between the check and the wait is
heard when the task ends (`Deaf` in `Heard`); a refreshed credential or a
recovered model turns a forced turn into an ordinary one, which then goes to the
wrap-up; the other calls of a concurrent batch start although one failed the run
(`NothingStartsLate` is about calls that may write); a terminal tool rejects
steering that is pending; a concurrent approval that is answered moves the run to
`running` while another one is pending.

Left out: the resource budgets and hooks (beyond a turn or call that fails for
them), runs without a model, a resume from a checkpoint, a listener of events
that cancels, a notification source that throws (the loop then ends without a
terminal event), what happens to a file between the check of its baseline and
the write. A terminal call that the gate denied may complete the run in the
model, which is more than the code does.

## What the runs check

Every run also checks the type invariant of its module.

| Run | Shows | Bounds |
| --- | --- | --- |
| `workspace_lease` | `WriterIsAlone`, `NoWaitOnAncestor`, `HeadMustWait`, `HandlesAreKnown`, `GrantsInOrder`, and that every waiting call is granted or aborted (`EveryCallSettles`) | 3 calls by a run, its child and its grandchild; one time to live of 2 ticks, with and without renewal |
| `lease_session` | `WriterWorksAlone`, `RequestsOfCalls`, `FreshWritesUnderLease` | two children, one of a writing root run; one given-up call for each of them, so two requests of the root run; 3 mutations |
| `execution_lanes` | `LanesAreQueues`, `OutcomeMatchesLane`, `CancelReachesHandle`, `EveryCommandLeaves` | 3 lanes, 5 commands (2 with one key), 2 slots, queues of 2 per lane and 3 in all; commands that differ in nothing are submitted in one order |
| `task_output` | `NothingSkipped`, `ReadersEnd` | 2 readers, 3 chunks |
| `task_revival` | `ToldOnce`, `ReportKept`, `AnswersAwaited`, `WaitEnds` | 2 tasks, 2 revivals, 2 crashes, 1 join of each ended task |
| `workflow_store` | `OneWriterAtATime`, `DoneStays`, `StaleMeansTakeover` | 3 writers, 5 entries, `Prompt`, symmetry of writers |
| `workflow_control` | `AcceptedIsStored`, `CommandsServed` | 3 attempts, 2 of them with one key; the pump and another host; 1 takeover, 1 crash |
| `workflow_control_race` | `AppliedOnce`, `AppliedIsTrue`, `OutcomeStays` | 2 attempts; the pump, a connection and another host; 1 takeover, 1 crash |
| `run_lifecycle` | `EndsOnce`, `MessagesSeen`, `TurnsArePaid`, `NothingStartsLate`, `Heard` | a message and a cancel command, a writing call and two concurrent ones, 2 steps, 1 revival, 1 steer |
| `workflow_store_late` (violated) | `DoneStays` fails | 2 writers, 5 entries, without `Prompt` |
| `workflow_control_wedged` (violated) | `LaterCommandsServed` fails | those of `workflow_control` |
| `run_ends_twice` (violated) | `OneTerminalEvent` fails | one writing call |

Why the bounds are enough to mean something. Three calls fill a scope with a
holder and two waiters, or a second reference and a waiter, which is what
overtaking, the withdrawal of a waiter from the middle and reentrance need;
three owners are the shortest chain with a middle. Two children and a root are a
reader, a writer and an ancestor at once, and each of them has a call beside one it
gave up; three mutations let each run make one after another run's. With two slots and three lanes a lane
waits behind two others; five commands let two of them run while one is dropped and
two more wait in the lane it left, which is what it takes for two keys of one
lane to meet two free slots. A lane that runs one command and has two in its
queue turns another away (the limit on all lanes together would need a sixth;
one condition guards both). `MCView` merges states that differ only in how
commands that are over ended and whether their signal had fired: nothing in the
module reads that again. Three chunks let one be buffered,
one be pending and one be on its way. Two tasks let one end while the run waits
for the other, or for any of both; two revivals let it answer, wait and answer
again with a budget and without; the second crash falls into the recovery from
the first. Five entries are a baseline, a claim, the creation of the record, a
second claim and its change, or three claims with a change; torn and quarantined
entries take their place in all positions. Two attempts with one key are a
duplicate, the third is the command that waits behind it; one takeover makes
every generation check fail that can. Two steps let a turn follow a turn, and
each budget of one pays for a turn and is then exhausted.

A lane instance, a scope, a journal or a run really may stop when all calls are
used up or it has ended, so the configurations turn the deadlock check off.

### What the violated runs found

- A journal entry is created and filled in two steps. A writer held up between
  them fills its entry after its successor claimed and changed the record; the
  late content makes the successor's claim and its acknowledged change
  quarantined entries (`workflow_store_late`). `workflow_store` shows that
  writers that are not held up there keep what they acknowledged.
- A crash between the creation of an outcome and its content leaves an entry
  nobody can read. The pump takes the oldest command without a readable outcome,
  fails on it, and takes it again; the commands behind it wait for ever
  (`workflow_control_wedged`). `CommandsServed` excludes torn outcomes.
- A write that is given up while it waits for its approval leaves the run in
  `waiting_approval`. `complete()` emits its event, but the state does not
  change, and a later `cancel()` emits a second one (`run_ends_twice`).
  `EndsOnce` covers the runs without such a call.

Observed while modelling, and stated as exceptions of the properties above or
outside the model's bounds: a reentrant `acquire` with a shorter time to live
renews the lease but keeps the old heartbeat, so a renewing lease may expire
(the run has one time to live); a child that ends while a given-up call waits
for the write lease leaves a request, then a lease, that nobody releases
(`LeftBehind` in `RequestsOfCalls`); a body that outlives its child writes beside
the next writer (`Late` in `WriterWorksAlone`); a run cancelled inside a task tool
loses the report that the tool took (`unheard` in `ReportKept`); a refused transition leaves a session without
a lease, and what it reads then may be older than the epoch it records
(`guarded` in `FreshWritesUnderLease`); the two turns of a cancelled lane and
the chunk delivered twice, described with their modules.

### Fairness

- Leases: the two timers fire and time passes (the event loop), and a holder of
  a renewing lease releases it (all callers release in a `finally`). Holders
  without renewal may never release; expiry frees those.
- Lanes: the scheduling loop runs on (synchronous code), and the driver settles
  each start and each execution ends (the code awaits both and completes the
  lane on either result). Cancellation and submission are not fair.
- Output: the task reaches a terminal status, and a reader that was given a
  chunk asks for the next one. Nothing forces a chunk or a reader to appear.
- Tasks: a task with a runner ends (the runner settles, or the watchdog ends the
  task). The run, joins and restarts are not fair: `WaitEnds` needs the
  notification alone.
- Workflow control: each call of `processNext` on the live run's writer goes on
  while it can (the pump is an interval timer and starts again after an error).
  Submitters and other hosts may stop anywhere.
- Run: the loop goes on when it can, and so do tool calls as a whole: models,
  credential resolvers and approvers answer, bodies finish. The awaited task may
  run for ever, and nothing forces a timeout, a command or an abort.

## What is proved

What the methods of the coordinator keep of a scope is proved once, in
`WorkspaceScopeProofs`, and cited by the two modules about runs that use them.

`WorkspaceLeaseProofs` proves about `WorkspaceLease`, for all sets of owners,
calls and times to live:

- `TypeCorrect`: `Spec => []TypeOK`
- `WriterAlone`: `Spec => []WriterIsAlone`
- `RunChainsNeverDeadlock`: `Spec => []NoWaitOnAncestor`
- `NoLostWakeup`: `Spec => []HeadMustWait`
- `EveryHandleCounts`: `Spec => []HandlesAreKnown`
- `FirstComeFirstServed`: `Spec => GrantsInOrder`

The assumptions are the named ones of the modules: times to live are positive,
`autoRenew` is Boolean, and nobody lists itself as its own ancestor. The last
one is needed for `NoWaitOnAncestor`: a call that names its own owner would
queue behind itself.

The inductive invariant is `IInv == TypeOK /\ ScopeOK(scope)`, with `ScopeOK`
the conjunction of exclusiveness, chain freedom and head blocking. They lean on
each other through `drain()`: that a grant of queued readers keeps writers alone
needs the code's case split, and that a grant keeps chains free needs that a
granted waiter stood before the ones that remain. The lemmas about `Drained`
are therefore proved under the weaker hypothesis that holds in the middle of a
method (no head blocking yet), and establish head blocking as their result.
That `DrainCount`, a `CHOOSE`, denotes the prefix the code's loops grant is
`DrainCountIsCount`, from the existence of a longest prefix of reads
(`ReadPrefixExists`). Each action of `Next` is one step of `NextIInv`.

`HandlesAreKnown` relates the calls to the records of the scope, which `IInv`
does not. `KInv` adds `Known(scope, call, lease, told)`: waiters are queued
calls, each in one place; lease ids are unique, and a lease is named only once
its own call was granted; the loss handlers of a record are exactly its live
handles, and its references their number. `Known` takes the scope and the calls
as parameters, so that it can be stated in the middle of a method as well:
there is one lemma for what each method does before it drains, and `DrainKnown`
for the drain. `GrantsInOrder` is an action property and needs `IInv` only: a
step that does not drain names no new lease, and what drains grants a prefix of
the queue (`DrainInOrder`).

`WorkspaceLeaseSessionProofs` proves about `WorkspaceLeaseSession`, for all sets
of children and root runs, all ancestor lists and any number of mutations:

- `TypeCorrect`: `Spec => []TypeOK`
- `MutationsAreAlone`: `Spec => []WriterWorksAlone`
- `RequestsAreShared`: `Spec => []RequestsOfCalls`
- `LookBeforeWriting`: `Spec => []FreshWritesUnderLease`

Here a scope is looked at request by request: `Held` and `Asks` are the modes in
which a request holds and waits. `AtRest` is what holds of every scope between
two steps: a request is in one place (`Once`), a lease counts the requests that
share it, all of one owner (`Shared`), and nobody waits for a free workspace.
`Keeps` is what another request's change of the scope leaves to a request: what
it holds, and, if it does not wait, nothing more. That is what `drain()`, a
release, a withdrawn waiter and a joined lease do (`DrainKeeps`, `RemoveKeeps`,
`WithdrawKeeps`, `JoinKeeps`, `ReleasedKeeps`), so `OthersKeep` settles the other
runs for every action at once. The rest of `IInv` is about the run that moves.
`FateOK` says which bodies a run that is over may have. `AsksOK` says when a child
may stand in the scope and that a pending transition stands there for a write
lease; a child that goes on beside one has given a call up. `HoldsOK` says that a
child that writes, by a given-up call too, has its write lease as long as it
runs. `RootOK` is the same for root runs, one request for each call: a call that
waits or writes `Stands` there, one that does neither does not. `LooksOK` is
the argument about epochs: a lease holder can only become stale by writes that fall between
the release of its read lease and the grant of its write lease, and those move
the epoch past the one the transition started from; so the comparison finds
them, and `revalidationRequired` stands until the next read. It does not hold
for a child that read without a lease, which is why `guarded` is in the
property.

`TaskProofs` proves about `TaskRevival`, for all sets of tasks and all
bounds on revivals, crashes and joins:

- `TypeCorrect`: `Spec => []TypeOK`
- `ReportsToldOnce`: `Spec => []ToldOnce`
- `NoReportLost`: `Spec => []ReportKept`
- `AnswersKnowTasks`: `Spec => AnswersAwaited`

`ToldOnce` is not inductive: a tool call that returns adds a report to the
context, so one must know that the context had none of its tasks (`ToolsUntold`),
that its tasks have ended (`ToolsEnded`) and that after the consumption only what
joins asked for is left (`Consumes`, which needs `OneForeground`: an inline result
has one task). That an end is the first report is `NothingEarly`; that a crash
takes no report back without recording it needs `SavedBehind`, the checkpoint is
behind the context. That only a cancelled run loses a report to a tool call needs
`RunFits`: of a run that was cancelled nothing but that call goes on. `IInv` is the conjunction of these; one lemma per action
shows that it is kept, and `NextIInv` puts them together. `AnswersAwaited` is
an action property: only `CheckAwaited` turns an answer into the end
(`OnlyCheckFinishes`), its guard excludes an awaited task that runs or whose
notification is in the outbox, and `ReportKept` says where else the report is.
TLC checked `IInv` on the bounds of `task_revival` before it was proved.

`WorkflowControlProofs` proves about `WorkflowControl`, for all sets of keys,
attempts and processors and all bounds on takeovers and crashes:

- `CommandsApplyOnce`: `Spec => []AppliedOnce`
- `SuccessIsTrue`: `Spec => []AppliedIsTrue`
- `AcceptanceIsStored`: `Spec => []AcceptedIsStored`
- `OutcomesStay`: `Spec => OutcomeStays`
- `TypeCorrect`: `Spec => []TypeOK`

Many processors may work on one key at once, each with its own reading of the
journal. The argument runs from the files to the journal. `Canonicals`: the
dedupe entry names one attempt, and only that attempt has a command file, so
every processor of a key means the same command. `JournalRejected`: an event
names a command that has a file, and `FreshReads`: a processor that is about to
publish found no event of its command at the revision it expects, and the
journal refuses a mutation whose revision is behind. Together they leave no
second event (`NoRepeats`). `SuccessKnown` carries the event from the
processor that saw it to the outcome it records. `OneFiller` says that an
outcome, like a dedupe entry, is filled by the one who created it, which is why
readable outcomes stay. `Bounds` adds that the revision counts the events of the
journal.

`RunLifecycleProofs` proves about `RunLifecycle`, for all sets of commands and
calls and all budgets:

- `RunEndsOnce`: `Spec => []EndsOnce`
- `ExtraTurnsPaid`: `Spec => []TurnsArePaid`
- `NoLateWriter`: `Spec => NothingStartsLate`
- `MessagesReachTheModel`: `Spec => []MessagesSeen`
- `TypeCorrect`: `Spec => []TypeOK`

`complete`, `fail` and `cancel` set the result even if the state machine refuses
the state, so `EndsOnce` needs to know the state in which each place of the
loop may end the run: `StateOfLoop` ties the waiting states to the place where
the loop waits, and `ApprovalHeld` says that a run that waits for an approval has
a call in its batch that does, so it is not at a place that completes. Only a
call that was given up breaks that, hence the exception. `NothingStartsLate`
needs `WhyOver` (a result while the loop is under way comes from an abort or from
a call that failed the run) and `WritersHear` (a writer at its gate is alone in
its batch, so the second cannot be, and the first it sees as an abort).
`TurnsArePaid` needs `StepsPaid`: a forced turn is paid for, or there is a
cancel in the queue that will end the run before the turn, or the run is aborted.
`SeenBefore` says where the loop may be with a message that no model call has
seen: never where a turn ends in an answer or a terminal tool. For the types,
`EndsCounted` shows that a run ends a second time only if it completed while an
abandoned call held it in `waiting_approval`, and then never again, and
`QueueCounted` that the queue holds exactly the commands with status `queued`,
each once, which for a cancel in the middle of the queue takes its first
occurrence (`FirstCancelExists`).

`ExecutionLanesProofs` proves about `ExecutionLanes`, for all sets of lanes,
commands and keys and all limits:

- `CancellationArrives`: `Spec => []CancelReachesHandle`
- `LanesImplementQueues`: `Spec => LanesAreQueues`
- `TypeCorrect`: `Spec => []TypeOK`
- `OneOutcome`: `Spec => []OutcomeMatchesLane`

The scheduling loop never looks at the lanes that run, only at their number;
`Counted` says that `activeCount` is that number, which makes the limit of the
abstract queues and the reason for turning a command away true. Nothing about
the runnable flags and keys is needed for the refinement: the loop looks again at
the lane it finds by a key.

The other two need more, `PInv`. `Placed` gives each command one place in the
queues or one lane, as its state says, and `WaitersCounted` counts the places: a
place moves up when the head leaves, so the place that goes is the last one. The
keys come in with the limit: `submit` may put one command beyond
`maxQueuedTotal` into a lane that can start at once. `Listed` says that a lane
that can start is in `runnableLaneKeys`, so that the loop cannot end before it
has started one command, and the queues are within their limit again. That every
queued command leaves in the end is liveness and stays with TLC.

`TaskProofs` also proves about `TaskOutput`, for any readers and any number of
chunks (both modules are extended, which is why the names of `TaskOutput` carry
`Output`):

- `OutputTypeCorrect`: `OutputSpec => []OutputTypeOK`
- `NothingIsSkipped`: `OutputSpec => []NothingSkipped`

What comes from the queue of an iterator moves its index back, so the index says
little by itself. `BehindIndex` says that all below it was received, `Queues`
that what is queued is in the buffer and was asked for; a chunk taken from the
queue is then one that was received before. `Listens` (whoever may wait is among
the terminal waiters) leaves nobody waiting behind the end.

`WorkflowStoreProofs` proves about `WorkflowStore`, for all finite sets of
`acquireWriter` calls and any number of entries, the first three under `Prompt`
(below):

- `DoneChangesStay`: `Spec => []DoneStays`
- `StaleChangesTakenOver`: `Spec => []StaleMeansTakeover`
- `JournalIsRegister`: `Spec => OneWriterAtATime`
- `StoreTypeCorrect`: `Spec => []TypeOK`, without `Prompt`

The head is a recurrence over all entries, chosen by `Replay` and named by no
prover. `HeadsExist` says that it has a solution and `ReplayReads` that
`Replay` takes its last value, both by `Induction`: a set of numbers that has 0
and with each number the next, from the library's least elements of
well-founded relations, so no operator is a parameter. The same induction
gives `ReplayShape` (a head counts its claims and its changes, a change is a
mutation entry of an owner, nothing follows its last entry) and
`SameBelow`, `NothingAbove`, `BlankEntry`, `TopEntry`: journals that agree
below an entry have the same head there, nothing above the last entry matters,
a torn or absent entry leaves the record alone, and filling the last entry
applies it to the head. That is all the steps need: to create an entry or give
one up changes no record, and to fill one, which under `Prompt` is the last,
appends one owner or one change or nothing.

The fencing is in `Discipline`, one writer at a time. `OwnEntry`: the entry that
a writer has created is torn until it fills it and is its own afterwards, and
nobody else fills it (`FillersApart`). `ClaimsOnce`: who has not filled its
claim owns nothing yet, so owners are distinct (`OwnersApart`).
`KeepsGeneration`: whoever has a writer in hand owned the record at its
generation. `FindsOwn`: if the mutation a writer is about to look for took effect and
the writer still is the owner, it is the last change and has the expected
revision, so that the writer finds it; otherwise somebody has taken over, and,
the owners being distinct, will not give the record back. From these
`StepRegister` follows by cases of the filled entry, and every other step is a
stutter of the register. The leases play no part in it.

The types are a matter of counting and need no `Prompt`. `ClaimInv`: each writer
has at most one claim in the journal, and none before it has filled it, however
late that is; `ReplayOwners`, again by `Induction`, makes of it that the owners
are distinct, so that a writer that still has to claim finds a generation.
`LeaseInv`: a call has at most two lease records (`RecordsOf`), two only from a
refresh that was checked and has not been written. `StoreInv` and `LeaseInv` were checked on
the bounds of `workflow_store`, the parts of `ClaimInv` with three writers and
four entries under `Prompt = FALSE`.

`Prompt` is a hypothesis about the environment, one that the model states as a
constant because the code gives no such guarantee. `workflow_store_late` shows
what happens to `DoneStays`, and so to the register, without it; without it
`StaleMeansTakeover` fails as well, with three writers and six entries, when a
claim that comes late makes a change canonical that its writer had been told is
stale.

Each of the inductive invariants was checked by TLC on the bounds of the
module's run before it was proved. Every proof module has one lemma per action,
with one step per part of the invariant, and puts them together in `NextIInv`
(and, for the larger invariants named above, in `NextKInv` and `NextPInv`; the
parts of `TInv` and `Bounds` have a lemma each instead, with one step per action).

Every invariant, action property and refinement that a passing run checks is
also a theorem, those of the workflow store but its types under `Prompt`. Only model-checked
is liveness under fairness, which is outside the prover's reach:
`EveryCallSettles`, `EveryCommandLeaves`, `ReadersEnd`, `WaitEnds`,
`CommandsServed` and `Heard`. What else happens to the workflow store
without `Prompt` is known from the violated run only.

## Plan

Done: WorkspaceScope, WorkspaceLease, WorkspaceLeaseSession, TaskOutput,
TaskRevival, WorkflowControl, RunLifecycle and the proofs about each of them;
WorkflowStore and WorkflowRegister; LaneQueues and the proof that ExecutionLanes
implements it; the proofs about WorkflowStore. Then, in this order:

1. `WorkflowService`: the instance lock with its takeover, draining. Resume requests and answers to approvals in `WorkflowControl`.
2. The file task store and the watchdog under `TaskRevival`: append and update
   of one record in two writes, stale snapshots.
3. An abstract reader-writer lock that `WorkspaceLease` implements.
4. Smaller ones as the code allows: storage locks, cron, the IM outbox, the
   workflow machine as operators, routing and shutdown of the host service.

Proofs: the refinement of item 3, and how far `Prompt` can be weakened: the
register needs it only of entries that are filled below a canonical one.

## Not modelled

Whatever PROJECT.json lists as `not_modelled`: parts that are planned above,
parts that only translate, render or do I/O (adapters, SDKs, tools, TUI, CLI,
configuration, skills), and sequential parts whose correctness is in their text
processing (context assembly, compaction, traces).

The repository has some 176,000 lines of implementation. Most of them parse,
format, render, assemble prompts or call other programs, and hold no state that
two actors share; a model of those would repeat their text. The models stand for
the places where runs, hosts and processes meet. Of these the ones that wait are
in the plan, and the parts left out of a modelled component are named with its
module above and in PROJECT.json.
