# A TLA+ verification of KAI Work Host

KAI Work Host is a local bridge: a WebGPT conversation asks it, over MCP, to let a Codex worker
("Luna") run turns in a project directory. This directory models the parts of the host where a
mistake costs something: an instruction sent twice, one lost, a cancelled turn that goes on, a
task wedged after a crash. Paths below are relative to the repository; `src/` is the TypeScript
source.

## 1. Inventory

| Component | State it keeps | Operations | What makes it hard | What makes it correct |
|---|---|---|---|---|
| Durable store, `src/durable-store.ts` | per task: `task.json`, `events.jsonl`, `transaction.json`, `.bak` copies, a map of promise-chain locks; `host.json`, `projects.json`, memory episodes, artifacts | `createTask`, `transitionTask`, `reserveTaskRequest`, `completeTaskRequest`, `getTask`, `listTasks`, `waitForEvents`, `initialize` (recover, park) | crash or failure between any two file operations; rename fallback; readers without the lock; errors after the point of no return | log without gaps or doubles, snapshot = replay of the log, an acknowledged transition survives, recovery is never refused, boot parks what was active |
| Orchestrator, `src/task-orchestrator.ts` | `cancelledRuns`, `executions`, `stopping`; everything else is in the task record | `startTask`, `followup`, `interrupt`, `executeTurn`, `handleRuntimeEvent`, `finalizeResult`, `finalizeSynthetic`, `markNeedsResume`, `shutdown`; readers `status`, `wait`, `receipt` | handlers interleave at every await; cancellation against execution; crash between two transitions; graceful stop | one dispatch per run, one run per request, status and turns agree, a settled turn is final, every turn settles |
| Codex runtime, `src/codex-runtime.ts` | map task → worker; worker: process, thread, active turn, interrupted, closed; client: pending requests, message queue | `runTurn`, `interrupt`, `shutdown`; `run`, `startTurn`, `receive`, `fail` | process exit, deadline timer, late answers, a kill that awaits first | one thread per task, its id saved before the first inference, an uncertain dispatch is not repeated, at most one worker per task |
| Compatibility service and bridge state, `src/compat/compatibility-service.ts`, `src/compat/bridge-state.ts` | one JSON file: sessions, jobs, initializations, start reservations | `initialize`, `start`, `status`, `cancel`, `authorizeDirectTool` | retry after a crash at any point; fingerprints computed from state that changes; check-then-register | a retried start is the same job, other instructions under its id are refused, no permission beyond the project's ceiling |
| Direct tools, `src/compat/direct-tools.ts` | map of terminal jobs, request keys; the processes | `startTerminal`, `waitTerminal`, `terminal`, `writeTerminalStdin`, `cancelTerminal`, `shutdown`; file operations | the events of the processes, the timer of a cancellation, retries and the stop in any order | one process per request id, a final status stays final, a cancelled or stopped job leaves no process |
| Attachment import, `src/compat/attachment-import.ts` | a temporary file per call, the destination | `importChatGptAttachment` | checks and commit are many awaits, during which other imports, tools and users change the destination; every file operation can fail | replaces nothing unless asked to, reports what it did, leaves no temporary file |
| Image previews, `src/compat/image-preview*.ts` | a preview cache | put, get, prune | expiry | bounded cache |
| Project registry, memory (`src/project-registry.ts`, `src/memory.ts`) | `projects.json` | `register`, `resolve`; `compile` | replaces a ceiling | a turn stays under its project's ceiling |
| State-root lease (`src/state-root-lease.ts`) | one listener | acquire, close | two hosts | one host per state root |
| Tunnel supervisor (`src/tunnel-process.ts`, `scripts/connect-managed-tunnel.ps1`) | observations of an external tunnel | classify, plan | unknown is not dead | never stops what it does not own |
| HTTP and MCP surface (`src/http-server.ts`, `src/mcp-*.ts`, `src/index.ts`, `src/stdio.ts`) | HTTP sessions | tools, routing, lifecycle | order of the stop | no call after the stop |

How they interact. An MCP tool calls the compatibility service. `start` takes the conversation's
promise-chain lock, writes a reservation (synchronously) into the bridge's file, calls `startTask`
or `followup`, and attaches the run it was given. The orchestrator writes the turn into the task
record and calls `executeTurn` without waiting for it; `executeTurn` goes through the store, then
through `CodexRuntimeManager.runTurn`, and the worker calls back (`onEvent`) with events that the
orchestrator writes into the record. `cancel` takes no lock: it reads the status, calls
`interrupt`, which marks the run in `cancelledRuns`, asks the runtime to stop the worker and, when
there is none, settles the run itself. The direct tools are authorized by the compatibility service, which reads
the binding and the projects, and then work on the terminals or the file system; the stop of the host
reaches them through `HostMcpRuntime.shutdown`, before the orchestrator's.

Everything runs on one Node.js thread: code between two
awaits is atomic, anything may happen at an await.

## 2. Modules

| Module | Models | Role |
|---|---|---|
| `TaskLog` | nothing of the code: the promise of the store about one task, without files | abstract specification |
| `DurableStore` | the files of one task, every awaited file operation a step | component; refines `TaskLog` |
| `DurableStoreProofs` | — | inductive invariant and theorems about `DurableStore` |
| `DurableStoreReplayProofs` | — | what the files mean: the task is the replay of its log; second invariant and theorems |
| `DurableStoreRefinementProofs` | — | `DurableStore` implements `TaskLog`: the refinement theorem |
| `TaskOrchestrator` | the life of one task above the store: callers, `executeTurn`, worker, cancellation, stop, crash, boot | component; composes orchestrator, worker and the bridge's reservation |
| `TaskOrchestratorProofs` | — | inductive invariants and theorems about `TaskOrchestrator` |
| `WorkerRuntime` | the interface `WorkerRuntimeControl` of `src/worker-runtime.ts`: what a call of `runTurn` promises, without workers | abstract specification |
| `CompatibilityService` | the bridge: initialize, start, its file and its memory, the project's ceiling | component; uses the orchestrator's calls as single steps |
| `CompatibilityServiceProofs` | — | inductive invariant and theorems about `CompatibilityService` |
| `CompatibilityTurnProofs` | — | the turns and tasks that starts lead to: invariants and theorems on top of it |
| `CodexRuntime` | the workers of one task: overlapping `runTurn` calls, `CodexWorker`, the app-server client, the stop of the manager | component; refines `WorkerRuntime`; the detail below one worker step of `TaskOrchestrator` |
| `CodexRuntimeProofs` | — | inductive invariant, measure, refinement and theorems about `CodexRuntime` |
| `ToolHost` | the tool calls in progress and the order in which the HTTP and the stdio host stop | shared by the two below |
| `DirectTools` | terminals: jobs, request ids, waits, cancellation, the shell and what it starts | component |
| `AttachmentImport` | imports from their checks to their cleanup, with the destination they share | component |
| `ToolCalls` | — | composes the three: terminals and imports in one host; the properties |
| `ToolCallsProofs` | — | inductive invariant and theorems about `ToolCalls` |
| `MCDurableStore`, `MCTaskOrchestrator`, `MCCompatibilityService`, `MCCodexRuntime` | — | symmetry sets and constants of the TLC instances |

**DurableStore.** `file` and `bak` are the two names each JSON file can have, `log` the complete
lines of `events.jsonl`, `torn` half a line after them. The lock admits one transition at a time,
so its program counter (`step`, `ctx`), the file it writes (`target`), its operation and its
transaction are global. Each action is one awaited operation; `IOError` lets any of them fail
where the code has no handling of its own, `SwapRefused` and `DropRefused` are the errors the
rename fallback is made for, `Throw` is the catch of `commitTaskTransition`, `Crash` empties the
memory. A task record is abstracted to its event number, whether it is active, settled or parked,
and the ledger; an event to its number and its kind. `ReadPrimary` and `ReadBackup` are the two
reads of `readPrimaryOrBackup` that take no lock. Temporary files have unique names and are never
read, so they are left out; a write to one and its rename are a single step.

**TaskOrchestrator.** A transition of the record is one step, which is what `DurableStore` shows
the files to implement. The variables are the fields of the task record the control flow depends
on (`status`, `active` = `activeTurnId`, `turns`, `run` = status of each turn, `session` =
`runtimeBinding.sessionId`, the ledgers, the receipt files), the bridge's `reservation`, and the
memory of the handlers: the program counter and the values read before an await, for the start or
follow-up in progress (`submit`), the cancellation of each job (`cancel`), the `executeTurn` of
each run (`exec`), the worker. A thread is named after the run that opened it. Runs are numbered
by `newId`.

Every call of the store may throw, with the outcomes `TaskLog` allows (`Throws`): its transition is lost, it
is committed, or it is committed but still a write-ahead record only. In the last case `getTask`, which takes no
lock, returns the task as it was before, until the next transition or boot rolls forward; so `shown` is what
readers see, and every handler reads `shown` and writes the record. What a throw does is what the code does with it:
`RecordThrows` (`createTask`, `completeTaskRequest` or `turn.queued` before `scheduleTurn`: nobody runs the turn),
`LedgerThrows` (the follow-up's other two calls), `PrepareThrows` and `SettleThrows` (in the `try` of `executeTurn` the
catch clause settles the turn again, `caught`; in the catch clause the execution just ends), `EventThrows` (the
worker fails), `CancelThrows` (the cancel tool throws and does no more). Two history variables name what
is left: `abandoned`, the runs a throw left with nobody to schedule or settle them, and `disputed`, those whose
settlement threw and was tried again. `InLine` is the first-in first-out lock of the task: the
transition `completeTaskRequest` of a follow-up was asked for before the first one of the turn it scheduled. `Cancellable` are the
runs whose jobs callers cancel; a cancellation can still hit another run, the latest when `interrupt` reads it.

**CompatibilityService.** `mem` is the state the service works on, `disk` the file; both are
records with the sessions, the start reservations and the jobs. `save` is synchronous: a change and
its write are one step, which either writes the whole state (`Save`) or throws and leaves the
change in memory (`SaveThrows`). `call` is the call of each conversation that holds its operation
lock, between its awaits; calls of different conversations interleave. `start` is `ReserveStart` or
`Retry`, then `Call` (startTask or followup, one idempotent step that may be refused or throw before
or after it), then `AttachStart` with its two writes; `StartedBefore` answers a request that has a
job. `EnsureProject`, `Register` and `PutInitialization` are `initialize`. A fingerprint is the
prompt and the resolved mode it hashes; the route and the base task come from the reservation. The
old file format (`legacy` jobs) and the workspace comparisons are left out: all conversations are in
one workspace, which is the case where they meet.

**CodexRuntime.** `current` is the manager's map entry of the task. A worker is named after the call
that made it: `worker[w]` has the fields of `CodexWorker` and of its `ActiveTurn` (`active`, `id` =
`turnId`, `dispatched`), `server[w]` those of `CodexAppServer` (`process`, `closed`, `lost` =
`exited` is due, `closing` = how far `close` is). `call` is the promise of each `runTurn`, `start` the
`startTurn` it runs in its worker, between two awaits. `queue` and `handling` are the client's promise
chain: notifications that wait and the one whose event is being recorded. `Call` and `Replace` are
`runTurn`; `Spawn`, `Ready`, `Send`, `Answered`, `Recorded`, `Throws`, `Catch` are `startTurn` and its
catch; `Receive`, `Received`, `ReceiveFails` are `receive`; `Cancel`, `InterruptStops` are `interrupt`;
`Exit`, `Exited`, `CloseFails`, `CloseEnds` are the client's `fail` and `close`; `Stop`, `StopEnds` the
manager's `shutdown`. Codex itself is `turn`, `TurnStarted`, `TurnCompleted`, `Question`. Contents of
requests are left out: one that is refused, late or lost, and a readback that does not match, is
`Throws`. The requests between the start of the process and `session/ready` are one step, since nothing
they do is read by another handler but the thread, which `TaskOrchestrator` has.

**WorkerRuntime.** What the orchestrator may rely on: `promise` is a call as its caller sees it, `prompt` the
prompt of the call as Codex sees it. A call can be rejected at any time, whether or not its prompt was sent;
it is resolved only with its own completed turn; a prompt is sent once, while its call is pending; after
`shutdown` no call is taken. `IsWorkerRuntime` says that `CodexRuntime` implements this (`Contract`, the
mapping, reads `promise` off `call` and `prompt` off `turn`). `TaskOrchestrator` is the caller. It has one worker
for the task, where the manager may have several that follow each other; that it needs no more
is the theorem `CallsRunOneByOne`.

**ToolHost, DirectTools, AttachmentImport, ToolCalls.** `pc` says where each tool call sleeps; a call
that is `Ask`ed sleeps in `authorizeDirectTool`, which only reads, so that it may let the call in or
refuse it. `host` is the stop: `Shutdown` (signal), `ToolsStop` (`mcpRuntime.shutdown`, for `index.ts`
only when `server.close` has seen all calls out, `CallsOver`), `Exit`. `platform` is Windows or not.

A terminal is `job` (its status, `child`, and `kill`, the five-second timer), `request` is
`terminalRequests`, `asked` what each call asked and the job it was given. Command, directory,
workspace and mode together are an instruction, a model value. `shell` is the process of the job, `work`
whether something the shell started holds its pipes, in which case `close` is not emitted yet; processes
that let go of the pipes are left out. `RetryTerminal`, `StartTerminal`, `WaitEnds`, `Cancel`,
`ForceKill`, `Close`, `StopTerminals` are the service; `Forks`, `ShellExits`, `WorkEnds` the processes,
which do what they like. `Reached` is `terminateOwnedProcessTree`: nothing when the shell is gone, the
tree on Windows (`taskkill` is taken to succeed), elsewhere a process group that does not exist, since
the shell is not spawned as a leader. All jobs belong to one conversation: a job of another is refused
before anything is done. The output buffers and `terminal_write_stdin` change nothing that is read here.

An import is a step per await another call can meet: `Validate`, `OpenTemp`, `Downloaded`, `Recheck`, then
`Rename`, or `Link`, or `LinkFails` and `Copy` to `CopyEnds` or `CopyFails`, `Unlink` or `UnlinkFails`, and
`Cleanup`, the `finally`. `target` is what has the name of the destination: a file placed by a call, whole or
not, somebody else's file, a directory, or nothing; `Edit` lets others change it. `Throws` is every failure
before the commit, whatever its reason (response, size, digest, type, `EEXIST`). `LateOpen` is the temporary
file that is opened after its request has failed. What a failing copy removes is `libuv`'s doing: elsewhere
than on Windows it unlinks the destination by its name.

None of this is read back after a crash, so `ToolCalls` has no crash and restart.

## 3. Runs

| Run | Instance | What it shows |
|---|---|---|
| `store_safety` | 2 callers, 1 ledger key, log of 2 before the last calls begin, 3 failed operations, 1 crash, 1 torn append, fair | every safety property and the refinement of `TaskLog` under every interleaving; every caller is answered, the host comes back unless a line is torn |
| `store_reader` | 2 callers, 1 failure, no crash | violated: `ReadersFindTheTask` (section 7) |
| `store_torn` | 1 caller, 1 crash, 1 torn append, fair | violated: `HostComesBack` |
| `orch_quiet` | 2 requests, 3 runs, 1 crash or stop, 1 call of the store that throws, no cancellation, fair (82 thousand states) | status, turns, thread and answers agree; every turn settles unless the throw left it |
| `orch_cancel` | 2 requests, 2 runs, repeated cancellations of the first job at any time, 1 crash or stop, 1 call of the store that throws (1.6 million states) | no prompt is sent twice, unrecorded or by a later process; worker and execution agree; what is live is executed or was left by the throw; a settled turn whose settlement did not throw and whose interruption was not recorded stays as it is, with its receipt |
| `orch_cancelstops` | 1 request, 1 run | violated: `CancelStops` |
| `orch_answered` | 2 requests, 2 runs, 1 crash | violated: `AnsweredTurnExists` |
| `bridge` | a conversation with 2 requests and one that uses one of its ids, 2 modes, 1 failed write, 1 failed call, 1 restart | retries and failures never multiply turns or tasks; answers survive |
| `bridge_ceiling` | 2 conversations, 1 request each, no failures | violated: `CeilingNotExpanded` |
| `codex_worker` | 2 calls of `runTurn` that may overlap, 2 stops among cancellations, questions and the manager's stop; any loss, failure and late answer, fair | the manager and its workers are a `WorkerRuntime`: no promise is lost or mixed up, no prompt is sent twice or unwanted; one process, everything ends |
| `tools` | 2 tool calls, each a terminal or an import, 1 request id, 2 instructions, 1 foreign change of the destination, both platforms, both hosts, fair | retries never start a second process, a final status stays, imports replace nothing and report the truth, the HTTP host stops in order, a stop ends |
| `terminal_cancel` | 1 call, 1 instruction | violated: `CancelEndsTheTree` |

Why the bounds are enough. In the store at most one transaction is unfinished at any time and the
next transition or boot finishes it; the shortest histories that could go wrong have a leftover
transaction, the transition that meets it and one more. Three failures are what it takes to reach
the deepest path of `writeJsonAtomic`: a fallback whose backup stays, and a later write that cannot
remove it. The theorems of section 5 remove the bounds for what they state. In the orchestrator a
turn interacts with the one before it (the worker, the binding, the status it left) and with the
one after it; three turns have a middle one. One throw is enough to leave a turn behind, to hide a transition or
to settle twice, and a later follow-up, cancellation or boot meets what it left. A cancellation of the first job
can hit the first turn at any point of its life, or the second; two cancellations at a time, tasks of three turns
with cancellations, a second throw and a second crash are left to the proofs, which have no bounds. In the bridge a
lost reservation needs one failed write, one retry and one restart, and is noticed by one more
request of the same conversation; the other conversation's writes can save or miss it. Its one request has
the id of a request of the first, so that both can be given one task and one run. In
`CodexRuntime` a turn interacts with what the turn before it left on its way (an answer, a
notification, a failure, a stop), hence two calls; two stops let a cancellation meet another one, or
the manager's stop. Processes exit and requests fail without a bound. In `ToolCalls` calls meet in pairs: two of
one request id, or two with one destination; with a second request id two terminals would not meet at all. One
foreign change is what it takes to free or take the destination between two steps of an import; retries,
failing operations, forks and cancellations have no bound. The theorems remove the bounds. Idle systems
stop when the bounds are used up, so deadlock is not checked; the liveness
properties state what must not stop.

## 4. Properties

Store: `LogContiguous`, `RecoveryNeverRefused` (a sequence conflict or gap would wedge the task
and every boot), `SnapshotIsReplayOfLog` (at each instant the record is what the log says, the
write-ahead record included), `AckedSurvives`, `ReservedOnce` (a caller that is told `isNew` acts
on it), `ReadsAreFresh`, `ImplementsTaskLog` (a transition is committed at the instant its write-ahead
record gets its name), `EveryCallEnds`, `HostComesBackIntact` (which excepts a torn line; `HostComesBack`,
without the exception, is finding 2).

Orchestrator: `DispatchedOnceOnRecord`, `NeverReplayedAfterRestart`, `WorkerRunsWhatIsExecuted` and
`AnswersAgree` hold without exception, whatever is cancelled, crashes or throws. The others meet what a
call of the store that throws does to the code:

- a turn that is recorded is not scheduled when `createTask` or `completeTaskRequest` (`src/task-orchestrator.ts:233`)
  or `turn.queued` (283) throws after its commit, and not settled when the settlement throws in the catch clause (536).
  It stays live, a retry is answered with it (162), and the task refuses follow-ups as `task_busy`, until
  it is cancelled or the next boot parks it. These runs are `abandoned`. `LiveTurnIsExecuted` (what claims to be
  running is run by somebody in this process, with cancellations), `TurnsSettle` and `StatusMatchesTurns` except
  them and say that nothing else leaves a turn behind: no cancellation, follow-up, late answer, stop, boot or
  hidden transition;
- a settlement that throws after its commit is settled again as `failed` by the catch clause. These runs are
  `disputed`; `TerminalIsFinal` (a settled turn is never changed) and `ReceiptMatchesRun` except them.

One I/O failure is enough for either; that neither happens without one is the theorem `OnlyThrowsMakeExceptions`. Both
are stated here rather than as findings because no document or test promises otherwise.

`TerminalIsFinal` and `ReceiptMatchesRun` hold with cancellations for every run that is not `Interrupted` either, that
is, of which no interruption was recorded: cancelling one turn of a task rewrites no other. For the runs
whose interruption was recorded TLC finds both violated, and `OneThreadPerTask` and `TurnsSettle`,
which are checked without cancellations only, as is `StatusMatchesTurns`: always through the race of finding 3 (a run that a
cancellation settled comes back to life and completes, or is found live by a boot that parks only
the latest turn of an active task, `src/durable-store.ts:363`).

Bridge: `FilesConsistent` (memory and file are both states a restart or a retry can go on from),
`OneTurnPerRequest`, `OneTaskPerConversation`, `JobRunsTheInstruction`, `AnswersSurvive`. Three of
them name one exception, the set `lost`: when `save` throws in `reserveStart`, the reservation stays
in memory only, the retry goes on with it, and a process that ends before the next write forgets a
reservation whose turn was recorded. Another request then opens a second task, and the retry of the
first one a second turn. TLC finds `OneTurnPerRequest` violated without the exception, so it is
exactly as wide as needed for that history. Request ids are shared between the conversations of
the instance: `startTask` looks for its id in the ledgers of all tasks (`src/task-orchestrator.ts:160`), so
two conversations that use one id for their first start are given one task and one run. `OneTaskPerConversation`
and `JobRunsTheInstruction` say what is left then: a conversation never works on two tasks, and a caller is
given another's instruction only where the other can come to the same ledger entry (`Alone` is false).

Codex runtime: `IsWorkerRuntime`, `WorkerOwnsCall`, `ResultIsOwn`, `OneTurnAtATime`, `ProcessIsCurrent`,
`EveryCallEnds`. `ProcessIsCurrent` names two exceptions, both of which the code allows. `raced`: two
calls wait for the shutdown of one dead worker and each makes a new one; with three runs TLC shows the
first of the new workers running a turn that no cancellation reaches. `caught`: `runTurn` tests
`stopping` before it waits for a dead worker, not after, so a worker can be made after the manager
stopped. What the properties do not say, because the code does not do it: that a failure hits the turn
it belongs to. The catch of `startTurn` (`src/codex-runtime.ts:376`) and the end of `interrupt` (561)
act on the turn that is active by then, so the lost acknowledgement of a turn that is over, or a
cancellation that waited for its answer, rejects the next turn.

Direct tools: `OneProcessPerRequest`, `FinalStatusStays`, `StopIsOrderly`, `OutcomeIsTrue`,
`ExclusiveReplacesNothing`, `StopEnds`. `StopIsOrderly` is stated of the HTTP host: the stdio host
(`src/stdio.ts:32`) does not wait for its calls, so one that sleeps in its authorization can start a terminal
after the terminals were stopped, and an import can be cut off half copied; TLC finds both. It excepts
temporary files whose removal failed (`kept`) or that were opened after it (`late`), and off Windows it
does not speak of processes, which the stop does not reach. `ExclusiveReplacesNothing` excepts what a failing
copy removes after somebody replaced it. What an import with overwrite reports as `overwritten` was read two
awaits before the rename; the flag is left out.

Each property is paired with a mutant, a definition `Mut...` beside the one it would replace, that
breaks it: an event appended without looking, a write-ahead record dropped, a forgotten ledger, a
retry of an uncertain turn, and so on.

**Fairness.** `DurableStore`: awaited file operations settle (weak fairness of the transition in
progress); the promise chain of `withLock` is first-in first-out, so a caller that waits while the
lock is free again and again gets it (strong fairness of `Acquire` for each caller); the supervisor
of `scripts/connect-managed-tunnel.ps1` starts a host that is down (weak fairness of `Restart`).
`TaskOrchestrator`: each handler goes on when its await settles; a worker's turn ends by itself or
by its deadline timer (`src/codex-runtime.ts:369`), hence weak fairness of `WorkerStep`, in which
`WorkerLost` is always possible; the stop and the boot go on. No fairness is assumed of callers,
crashes or cancellations. `CodexRuntime`: weak fairness of `HostStep`, the event loop, in which every
timer (deadline, request, close) is always able to fire; none of Codex, which may be silent for ever.
It is enough as one condition because every host step uses something up. `ToolCalls`: weak fairness of
each call's own steps (a promise that settles, a timer, a request with its timeout) and of the two steps of the stop;
none of the processes, of `Close`, or of a caller.

## 5. Proofs

`DurableStoreProofs` proves, for every set of callers and ledger keys and without any of the
bounds: `TypeOK`, `LogContiguous`, `RecoveryNeverRefused`, `AckedSurvives`. Assumptions, here and in the two
modules that build on it: the named ASSUMEs of `DurableStore` (the bounds are naturals, `None` is none of the other values).

None of the invariants is inductive alone: that an append is not refused depends on what a leftover
write-ahead record says of the log, which depends on which step wrote it. `Consistent` adds

- `FilesAgree`: a write-ahead record either continues the log or its event is the last line
  (`Continues`); it never has a backup; while there is none, the snapshot is in place, without
  a backup, and has the number of the last line;
- `StepAgrees`: what each step relies on: for instance while `task.json` is being written the
  write-ahead record is the transaction in progress and its event is the last line;
- `AckedInLog`: acknowledged events are lines of the log.

One lemma per action shows that the store keeps `Consistent`; `FinishKeeps` and `ThrowKeeps` are the
lemmas shared by the many ways a transition ends. The theorems are consequences of `Consistent`.

`TransitionsComeToAnEnd` is the part of `EveryCallEnds` that needs no fairness: a measure of the
operations to come (at most 50) falls with each operation of a transition, a recovery or a boot, through every
failure and rename fallback, and nobody else's step raises it.

`DurableStoreReplayProofs` proves `SnapshotIsReplayOfLog`, `ReservedOnce` and `ReadsAreFresh`. `Consistent`
counts events; here the files get a meaning. `Replay` is a recursive function over the log, so its equation for
a log with one more event (`ReplayAppend`) has to be proved first: every set of numbers has a least element
(`Least`, from the library's well-founded induction), hence the list of records that `Replay` goes through exists
for every length (`UnfoldsExists`), and two logs that begin alike go through the same records (`UnfoldsAgree`).
`Meaning` then says that the record of the files is the replay of their history, and so is the one about to be
written (`Replays`: the step that gives the write-ahead record its name has nothing left to compute), that a
transition returns only with its snapshot in place (`ReturnsWhatItWrote`), that a request a caller was told is
new is in the record's ledger, and one about to be told so was not told before (`Promised`), and that neither
`task.json` nor its backup is older than what was acknowledged (`FilesAreFresh`). Most steps are `Quiet` and
share one lemma; seven write something.

`DurableStoreRefinementProofs` proves `ImplementsTaskLog`. What the mapping needs beside `Consistent` and `Meaning`
is `Owned`: whoever holds the lock waits for the transition in progress, with no holder it is the boot's and
can only park the task (`HolderWaits`); what is being written is what was asked for, and a creation only ever
meets an empty log (`WritesWhatWasAsked`). `Swap` or `Place` of the write-ahead record is `Commit`, or `Park`
at boot; `Return` is `Succeed`; a transition that ends otherwise is `Fail`, wherever its record has got to; `Crash`
and `Call` are `Crash` and `Submit`; all other steps stutter (`Stays`). With the mapping come theorems about the
history itself: what has its write-ahead record stays at its place for good (`HistoryIsNeverTakenBack`), the
creation is first and happens once (`TasksAreCreatedOnce`), and a boot is given up only when an operation fails, the host
crashes again or a line is torn (`BootsFailOnlyByFaults`, the safety core of `HostComesBackIntact`).

`TaskOrchestratorProofs` proves, for every set of requests and without any of the bounds on runs, crashes and
throws, with and without cancellations: `TypeOK`, `DispatchedOnceOnRecord`, `NeverReplayedAfterRestart`,
`WorkerRunsWhatIsExecuted`, `AnswersAgree`, `LiveTurnIsExecuted`, `TerminalIsFinal`, `ReceiptMatchesRun`. Where nobody cancels
(`Cancellable = {}`) it proves `StatusMatchesTurns`, `OneThreadPerTask` and `EveryLiveTurnRuns`. Assumptions: the bounds are
naturals, `Cancellable` is a set of runs, `None` is neither a run nor a request. The invariants build on each other,
each inductive given those before it:

- `Agreed`: the run of a start in progress is in nobody's hands until it is scheduled (`SubmitAgrees`,
  `FreshRuns`); what is executed is a turn of the record, promised to a request, and was accepted by this
  process (`ExecAgrees`); the worker has the turn whose execution waits for it and has not sent it before
  `turn/start` (`WorkerAgrees`); the ledger keeps what callers were told (`AnswersKept`); an accepted
  cancellation has a victim (`CancelAgrees`);
- `ShownAgrees`: what readers see is an earlier state of the record, or the record: it only ever `Grows`
  (turns are added, ledger entries are kept), so a handler that acts on a hidden transition's past still acts on
  turns the record has;
- `LiveAgrees`: while the host is down it has no memory and accepted everything before its last crash
  (`DownIsIdle`, why `Boot` need not look for executions); in the record and in what readers see, an active task
  has a turn that is executed or abandoned, and so is each live turn of this process (`LiveIn`);
- `SettledAgrees`: turns are different runs (`TurnsDiffer`); a cancellation has a turn of the task as its victim and
  records it in the ledger before it touches it, also where its own ledger entry is `Hidden` from the next
  cancellation of the job (`VictimsAgree`); of a run that is neither `Interrupted` nor `disputed`, what is
  executed is live, and the receipt says what the record says or is about to say (`Consistent`). A run stays
  `Interrupted` or `disputed` for ever, which is why the exception can be made run by run;
- `QuietAgrees`, without cancellations: a turn that is executed is the latest and live (`InProgress`), or its
  settlement threw after its commit and readers see that (`Seen`) or do not yet (`Unseen`, and then
  no follow-up can begin, since they see an active task); a follow-up that has not queued its turn finds nothing
  live but abandoned turns (`OnlyLastRuns`); the latest turn is live exactly while the task is active
  (`StatusMatchesTurns`); the copies of the binding that `followup`, `executeTurn` and the worker made
  before an await are still the record's when they are written back (`SessionsAgree`);
- `LiveIsRecent`, without cancellations: a boot leaves no turn of an earlier life live but abandoned ones, so that
  parking one turn is enough. With `LiveAgrees` it gives `EveryLiveTurnRuns`.

`OnlyThrowsMakeExceptions` closes the circle: without a throw `abandoned` and `disputed` are empty and readers see the
record, so the theorems then hold without their exceptions.

`ExecutionsComeToAnEnd` is the measure under `TurnsSettle`: each step of `executeTurn` or of its worker brings an
execution nearer to its end, at most 15 steps away (a settlement may be tried twice), and no other step takes it back.

The lemmas about frames (`ExecutionMoves`, `WorkerMoves`, `TurnEnds`, `NobodyRuns`) are shared by the lemmas of the
actions.

`CodexRuntimeProofs` proves, for every set of runs and any number of cancellations, questions and stops:
`TypeOK`, `WorkerOwnsCall`, `ResultIsOwn`, `OneTurnAtATime`, `ProcessIsCurrent`, `IsWorkerRuntime`. Assumption:
`None` is not a run. In `RuntimeAgrees` everything that refers to a turn refers to the active turn of its
worker, or that worker is closed and holds none: `startTurn` until it has sent its turn (`StartAgrees`), a
notification that is queued or being handled (`QueueAgrees`, `HandlingAgrees`: without them a late
`turn/completed` could resolve the next call), a turn a living process has not completed (`TurnAgrees`). A client
that is closed or was closed for good has no process and opens none (`ServerAgrees`), so the map is replaced
only after the process it named (`CurrentAgrees`); and a worker that nobody made is untouched (`FreshAgrees`).
`WorkerEndsKeeps` serves the seven ways a worker ends, `MarksKeep` every step that moves no call.

On top of it:

- *the contract*. `StepIsSeen` says what each step changes of the callers' view: nothing (`SameView`), the promise or the
  prompt of one call (`ViewChanges`), or the stop; `SeenIsContract` makes of each a step of `WorkerRuntime`.
  That a call is resolved with its own turn needs `HandlingAgrees`; that a prompt is sent only for a pending call is
  `SentWhileWanted` (`SendsWhatIsWanted`). `ResultsAreReal` carries over what the contract implies;
- *one call at a time*. `CallsRunOneByOne` needs `Exclusive`: a client that has closed for good has ended its
  worker, and only the worker in the map has an active turn, with the exceptions `raced` and `caught`;
- *the end of everything*. `EveryStepCounts`: a step of the host leaves less of what calls, turns, clients and queues
  have left, and what callers and Codex can still do is used up and never given back, so no behaviour
  goes on for ever. `SomethingIsDue`: while a call or the stop is unanswered, a step of the host has its guard, since
  every wait is for a client that was told to close (`Awaits`). Both are the safety core of `EveryCallEnds`.

`CompatibilityServiceProofs` proves, for every set of conversations, request ids, prompts and modes
and any number of failures: `TypeOK`, `FilesConsistent`, `AnswersSurvive`. Assumptions: request ids
and conversations as typed, modes are numbers, `None` is none of the other values. What a caller was
told is safe only because three facts hold together, which make up `Durable`: each reservation in
the file is the one in memory (`WrittenIsKnown`), a job is attached only after its reservation was
written (`JobsAreReserved`: the first of the two writes at the end of `start` has it), and a call
between its awaits finds its reservation unchanged (`CallAgrees`). A file that is `Sound` stays so
under each of the four changes the service makes; these are lemmas about records, used by the step
lemmas for memory and file alike.

`CompatibilityTurnProofs` proves `OneTurnPerRequest`, `JobRunsTheInstruction` and `OneTaskPerConversation` under the
same assumptions: request ids may be shared between conversations in any way. `Planned` adds to `Durable` that a
reservation keeps the route its conversation's binding had, whose base is a task of one of the conversation's own ids
(`Routed`) and that a recorded turn has the content and the route of its reservation, in memory at least,
unless the conversation is in `lost` (`TurnsAreReserved`): a retry therefore makes the same call, whose ledger
entry answers it. `Executed` carries what `start` was told from the call through the two writes to the job.

`ToolCallsProofs` proves, for every number of calls, request ids and instructions and any change of the
destination by others: `TypeOK`, `OneProcessPerRequest`, `FinalStatusStays`, `StopIsOrderly`,
`OutcomeIsTrue`, `ExclusiveReplacesNothing`. Assumptions: a call is none of the other things that can have the
destination's name, and `None` is no outcome. The invariant `Owned` says who owns what: a job has the key
of its request and only it (`JobsAreKeyed`: the check and the two writes of `startTerminal` have no await
between them), a Windows shell that lives belongs to a running job (`ShellsAreOwned`), what has the
destination's name was put there by a call that is past its commit, and is unfinished only while that call
copies (`DestinationIsOwned`), a temporary file belongs to a call that has yet to remove it (`TempIsOwned`),
and after the stop nothing goes on (`StopHolds`). `CallsComeToAnEnd` is the measure under `StopEnds`: a call is at
most ten of its own awaits away from its answer, and nothing else takes it back. `ImportsApart` and `TerminalsApart` are the composition: a
step of one component keeps the invariant of the other.

Only model-checked: the liveness properties (`EveryCallEnds` of the store and of the runtime, `HostComesBackIntact`,
`TurnsSettle`, `StopEnds`): they rest on fairness and ENABLED, which are out of the prover's reach. Their safety
cores, the measures and the guards that are due, are the theorems named above. Every other property of a passing
run is proved for all values of the constants.

## 6. Plan

In order of what a mistake would cost:

1. *done* `DurableStore` with `TaskLog`, its proofs, that of the refinement included.
2. *done* `TaskOrchestrator` and its proofs.
3. *done* `CodexRuntime` and its proofs, with the contract `WorkerRuntime`; left is that the worker inside
   `TaskOrchestrator` is a user of that contract, run by run.
4. *done* `CompatibilityService` and its proofs.
5. *done* `ToolHost`, `DirectTools`, `AttachmentImport`, `ToolCalls` and their proofs.
6. Smaller ones: the preview cache, usage accounting and the tunnel's decision table as pure operators.
   `waitForEvents` is no longer planned: nothing under `src/src` calls it but `TaskOrchestrator.wait`, which no
   tool calls.

## 7. Where code and documents disagree

1. `ReadersFindTheTask` (`store_reader`). One failed rename is enough: during the fallback a
   reader finds neither `task.json` nor `task.json.bak` and reports an unknown task.
2. `HostComesBack` (`store_torn`). Half a line at the end of one task's `events.jsonl` makes every
   later `initialize` throw.
3. `CancelStops` (`orch_cancelstops`). A cancellation between `executeTurn`'s only test of
   `cancelledRuns` and the start of the worker is reported as done, and the turn is then sent.
4. `AnsweredTurnExists` (`orch_answered`). After a crash between a follow-up's reservation and its
   `turn.queued` the retry is answered with a run that does not exist and will not run.
5. `CeilingNotExpanded` (`bridge_ceiling`). Two conversations that initialize an unregistered
   workspace at the same time: the second registration replaces the ceiling of the first.
6. `CancelEndsTheTree` (`terminal_cancel`). The signal of a cancellation ends the shell; the timer that should
   stop its tree five seconds later finds no shell, and what the shell started runs on while the job is
   reported as cancelled. Off Windows the timer, and the stop of the host, can never reach it.

## 8. Not modelled

The file operations of the direct tools and the memory capsule keep no state between
calls; `terminal_write_stdin` and the output buffers change nothing another step reads. Image previews are
decoding and a cache that only saves work. Texts, digests, usage figures, formatting, schema validation, path checks and process spawning are data or
single calls of the operating system. The state-root lease is an assumption: one host per state
root. The tunnel scripts and the deployment and release scripts drive external programs. The list
of components in `PROJECT.json` names each part with its status.

A call of the store that throws can leave the creation of a task in its write-ahead record, where no reader finds it
before the next boot (only a transition of that task would roll it forward). A retry of the start before that boot does not find
its request in `listTasks` and makes a second task. `TaskOrchestrator` has one task: there the retry of
such a start waits for the boot (`Free`). `CompatibilityService` takes a retried call to find what the first one
recorded. The read of finding 1, which misses a task that is there, can have the same effect.
