-------------------------- MODULE TaskOrchestrator --------------------------
(***************************************************************************)
(* The life of one task (src/src/task-orchestrator.ts): the request that   *)
(* starts it, the follow-ups that add turns to it, the cancellation of a   *)
(* turn, executeTurn for every turn, the graceful stop, and the Codex      *)
(* worker of the task as the orchestrator sees it                          *)
(* (src/src/codex-runtime.ts).                                             *)
(*                                                                         *)
(* A transition of the durable record is one step: DurableStore shows that *)
(* the files implement that.  Between two awaits of a handler any other    *)
(* handler may run, so a handler is a step per await, and what it read     *)
(* before the await is kept in its own variable.  The record, the receipts *)
(* and the bridge's reservation survive a crash; the rest is memory.       *)
(*                                                                         *)
(* The callers are those of src/src/compat/compatibility-service.ts: one   *)
(* start or follow-up of a conversation at a time, reserved before it is   *)
(* made and to be retried until it is answered; a cancel takes no lock and *)
(* uses one request id for each job, that is, for each run.                *)
(*                                                                         *)
(* A call of the store may throw, with its transition lost or committed,   *)
(* as TaskLog says.  What is committed by a call that throws can still be  *)
(* a write-ahead record only: getTask, which takes no lock, then returns   *)
(* the task as it was, until the next transition or boot rolls forward.    *)
(*                                                                         *)
(* Abstracted: runTurn replaces a dead worker in one step; a creation that *)
(* nobody can read yet is retried after the next boot only (before it the  *)
(* retry would make a second task).                                        *)
(* Bounds: MaxRuns run ids, MaxCrashes ends of the host process, MaxFaults *)
(* calls of the store that throw.                                          *)
(***************************************************************************)
EXTENDS Naturals, Sequences

CONSTANTS
    Requests,    \* request ids of starts and follow-ups
    MaxRuns,     \* bound: run ids handed out
    MaxCrashes,  \* bound: crashes and stops of the host
    MaxFaults,   \* bound: calls of the store that throw
    Cancellable, \* the runs whose jobs callers cancel
    None

ASSUME ConstantAssumption ==
    /\ MaxRuns \in Nat /\ MaxCrashes \in Nat /\ MaxFaults \in Nat
    /\ Cancellable \subseteq 1..MaxRuns
    /\ None \notin 1..MaxRuns /\ None \notin Requests

Runs == 1..MaxRuns

VARIABLES
    \* durable: task.json, receipt-<run>.json, the bridge's state
    status,      \* of the task, "absent" before createTask
    active,      \* activeTurnId: the run, whether by its runId or by Codex' turn id
    turns,       \* the runs of the task, oldest first
    run,         \* the status of each run, "absent" before its turn is recorded
    session,     \* runtimeBinding.sessionId, a thread named after the run that opened it
    ledger,      \* request -> None or the run it was promised
    cancelLedger,\* run whose job is cancelled -> None or the run that was interrupted
    receipt,     \* the status in the receipt of each run, or None
    reservation, \* the request the conversation must finish first, or None
    shown,       \* task.json: the record, or what it was before a leftover write-ahead record
    \* memory
    host,        \* "up", "stopping", "draining" or "down"
    nextRun,     \* newId("run")
    submit,      \* the start or follow-up in progress
    cancel,      \* for each run, the cancellation of its job in progress
    exec,        \* executeTurn of each run
    cancelled,   \* cancelledRuns
    worker,      \* the task's entry in the manager's map of workers
    awaited,     \* the executions the stop waits for
    \* history
    crashes,
    dispatches,  \* how often turn/start was sent for a run
    thread,      \* the thread the run was dispatched to
    acceptedIn,  \* how many crashes the host had seen when it recorded the run
    answers,     \* the <<request, run>> pairs callers were given
    told,        \* the runs a cancelling caller was shown as cancelled
    faults,      \* how many calls of the store have thrown
    abandoned,   \* runs that a throw left with nobody to schedule or settle them
    disputed     \* runs whose settlement threw and was tried again

task == <<status, active, turns, run, session>>
durable == <<task, ledger, cancelLedger, receipt, reservation, shown>>
memory == <<nextRun, submit, cancel, exec, cancelled, worker, awaited>>
trouble == <<faults, abandoned, disputed>>
history == <<crashes, dispatches, thread, acceptedIn, answers, told, trouble>>
vars == <<durable, host, memory, history>>

ActiveStatuses == {"queued", "starting", "running"}
LiveRun == {"starting", "inProgress"}
TerminalRun == {"completed", "failed", "interrupted", "needs_resume"}
Uncalled == {"none", "done"}

IdleSubmit == [pc |-> "idle", id |-> None, session |-> None]
IdleCancel == [pc |-> "idle", victim |-> None, target |-> None]
IdleExec == [pc |-> "none", session |-> None, verdict |-> None, caught |-> FALSE]
NoWorker == [id |-> None, process |-> "none", run |-> None, stage |-> "idle",
             thread |-> None, interrupted |-> FALSE]

\* currentRun: turns.at(-1)
Latest(record) == record.turns[Len(record.turns)]

\* The record: what the next transition and the next boot start from.
Record == [status |-> status, active |-> active, turns |-> turns, run |-> run,
           session |-> session, ledger |-> ledger, cancelLedger |-> cancelLedger]
\* A transition that succeeds leaves no write-ahead record.
InPlace == shown' = Record'

Init ==
    /\ status = "absent" /\ active = None /\ turns = <<>> /\ session = None
    /\ run = [r \in Runs |-> "absent"]
    /\ ledger = [q \in Requests |-> None]
    /\ cancelLedger = [r \in Runs |-> None]
    /\ receipt = [r \in Runs |-> None]
    /\ reservation = None
    /\ shown = Record
    /\ host = "up"
    /\ nextRun = 1
    /\ submit = IdleSubmit
    /\ cancel = [r \in Runs |-> IdleCancel]
    /\ exec = [r \in Runs |-> IdleExec]
    /\ cancelled = {} /\ awaited = {}
    /\ worker = NoWorker
    /\ crashes = 0
    /\ dispatches = [r \in Runs |-> 0]
    /\ thread = [r \in Runs |-> None]
    /\ acceptedIn = [r \in Runs |-> 0]
    /\ answers = {} /\ told = {}
    /\ faults = 0 /\ abandoned = {} /\ disputed = {}

-----------------------------------------------------------------------------
(* Calls of the store that throw *)

Fault == faults < MaxFaults /\ faults' = faults + 1

\* transitionTask throws.  It is lost, before or after it has rolled forward what it found, or
\* its write-ahead record stays: readers see what was before it, or it was already in place.
Throws(transition) ==
    /\ Fault
    /\ \/ UNCHANGED <<task, ledger, cancelLedger>> /\ shown' \in {shown, Record}
       \/ transition /\ shown' \in {Record, Record'}

\* A transition that changes nothing of what is modelled: completeTaskRequest and others.
Noted == UNCHANGED <<task, ledger, cancelLedger>>

-----------------------------------------------------------------------------
(* The conversation's start tool, startTask and followup *)

\* reserveStart: another unfinished request must be retried first.
Asks(q) ==
    /\ host = "up"
    /\ submit.pc = "idle"
    /\ reservation \in {None, q}

\* attachStart: the job is recorded and the reservation released.
Answer(q, r) ==
    /\ answers' = answers \cup {<<q, r>>}
    /\ reservation' = None
    /\ submit' = IdleSubmit

MutAnswersAnyway(q) ==
    /\ Asks(q)
    /\ Answer(q, shown.ledger[q])
    /\ UNCHANGED <<task, ledger, cancelLedger, receipt, shown, host, nextRun, cancel, exec,
                   cancelled, worker, awaited, crashes, dispatches, thread, acceptedIn, told, trouble>>

\* The request is in the ledger: its recorded result is returned.
Duplicate(q) ==
    /\ Asks(q)
    /\ shown.ledger[q] # None
    /\ Answer(q, shown.ledger[q])
    /\ UNCHANGED <<task, ledger, cancelLedger, receipt, shown, host, nextRun, cancel, exec,
                   cancelled, worker, awaited, crashes, dispatches, thread, acceptedIn, told, trouble>>

Accept(q) ==
    /\ nextRun \in Runs
    /\ nextRun' = nextRun + 1
    /\ reservation' = q
    /\ submit' = [pc |-> IF shown.status = "absent" THEN "create" ELSE "reserve",
                  id |-> nextRun, session |-> shown.session]
    /\ UNCHANGED <<task, ledger, cancelLedger, receipt, shown, host, cancel, exec, cancelled,
                   worker, awaited, history>>

Free == shown.status \notin ActiveStatuses /\ (shown.status = "absent" => status = "absent")

MutNeverBusy(q) == Asks(q) /\ shown.ledger[q] = None /\ Accept(q)

\* startTask when the conversation has no task; followup when its task is not
\* active (task_busy).  The binding of the new turn comes from this reading.
Submit(q) ==
    /\ Asks(q)
    /\ shown.ledger[q] = None
    /\ Free
    /\ Accept(q)

\* startTask or followup throws (validation, project, a store that fails) before it has
\* recorded anything: the reservation stays.  (A task that is active is refused before the
\* reservation.)
Refused(q) ==
    /\ Asks(q)
    /\ shown.ledger[q] = None
    /\ Free
    /\ reservation' = q
    /\ UNCHANGED <<task, ledger, cancelLedger, receipt, shown, host, memory, history>>

RecordTurn(r) ==
    /\ status' = "queued"
    /\ active' = r
    /\ turns' = Append(turns, r)
    /\ run' = [run EXCEPT ![r] = "starting"]
    /\ session' = submit.session

Accepted(r) == acceptedIn' = [acceptedIn EXCEPT ![r] = crashes]

\* The ledger keeps the entry it has (isNew is then false).
Promise(entries, key, r) == [entries EXCEPT ![key] = IF @ = None THEN r ELSE @]

Schedule(r) == exec' = [exec EXCEPT ![r].pc = "load"]

\* createTask: the first turn and the reserved request in one transition.
Creation ==
    /\ RecordTurn(submit.id)
    /\ ledger' = Promise(ledger, reservation, submit.id)
    /\ UNCHANGED cancelLedger

CreateTask ==
    /\ submit.pc = "create"
    /\ Creation /\ InPlace
    /\ Accepted(submit.id)
    /\ submit' = [submit EXCEPT !.pc = "completeStart"]
    /\ UNCHANGED <<receipt, reservation, host, nextRun, cancel, exec, cancelled, worker, awaited,
                   crashes, dispatches, thread, answers, told, trouble>>

\* completeTaskRequest, scheduleTurn, return.
CompleteStart ==
    /\ submit.pc = "completeStart"
    /\ Noted /\ InPlace
    /\ Schedule(submit.id)
    /\ Answer(reservation, submit.id)
    /\ UNCHANGED <<receipt, host, nextRun, cancel, cancelled, worker, awaited, crashes,
                   dispatches, thread, acceptedIn, told, trouble>>

\* reserveTaskRequest
Reserving ==
    /\ ledger' = Promise(ledger, reservation, submit.id)
    /\ UNCHANGED <<task, cancelLedger>>

MutIgnoresIsNew ==
    /\ submit.pc = "reserve"
    /\ Reserving /\ InPlace
    /\ submit' = [submit EXCEPT !.pc = "queue"]
    /\ UNCHANGED <<receipt, reservation, host, nextRun, cancel, exec, cancelled, worker, awaited,
                   history>>

ReserveFollowup ==
    /\ submit.pc = "reserve"
    /\ ledger[reservation] = None
    /\ Reserving /\ InPlace
    /\ submit' = [submit EXCEPT !.pc = "queue"]
    /\ UNCHANGED <<receipt, reservation, host, nextRun, cancel, exec, cancelled, worker, awaited,
                   history>>

\* isNew is false: an earlier call had reserved the request, unseen.
AlreadyReserved ==
    /\ submit.pc = "reserve"
    /\ ledger[reservation] # None
    /\ Noted /\ InPlace
    /\ Answer(reservation, ledger[reservation])
    /\ UNCHANGED <<receipt, host, nextRun, cancel, exec, cancelled, worker, awaited, crashes,
                   dispatches, thread, acceptedIn, told, trouble>>

\* transition turn.queued, scheduleTurn.
Queueing ==
    /\ RecordTurn(submit.id)
    /\ UNCHANGED <<ledger, cancelLedger>>

QueueFollowup ==
    /\ submit.pc = "queue"
    /\ Queueing /\ InPlace
    /\ Accepted(submit.id)
    /\ Schedule(submit.id)
    /\ submit' = [submit EXCEPT !.pc = "completeFollowup"]
    /\ UNCHANGED <<receipt, reservation, host, nextRun, cancel, cancelled, worker, awaited,
                   crashes, dispatches, thread, answers, told, trouble>>

CompleteFollowup ==
    /\ submit.pc = "completeFollowup"
    /\ Noted /\ InPlace
    /\ Answer(reservation, submit.id)
    /\ UNCHANGED <<receipt, host, nextRun, cancel, exec, cancelled, worker, awaited, crashes,
                   dispatches, thread, acceptedIn, told, trouble>>

\* startTask or followup throws where it records the turn or, with the turn recorded, before
\* scheduleTurn: nobody runs it.
RecordThrows ==
    /\ \/ submit.pc = "create" /\ Throws(Creation)
       \/ submit.pc = "completeStart" /\ Throws(Noted)
       \/ submit.pc = "queue" /\ Throws(Queueing)
    /\ Accepted(submit.id)
    /\ abandoned' = abandoned \cup {submit.id}
    /\ submit' = IdleSubmit
    /\ UNCHANGED <<receipt, reservation, host, nextRun, cancel, exec, cancelled, worker, awaited,
                   crashes, dispatches, thread, answers, told, disputed>>

\* followup throws before its turn is recorded or after it was scheduled.
LedgerThrows ==
    /\ \/ submit.pc = "reserve" /\ Throws(Reserving)
       \/ submit.pc = "completeFollowup" /\ Throws(Noted)
    /\ submit' = IdleSubmit
    /\ UNCHANGED <<receipt, reservation, host, nextRun, cancel, exec, cancelled, worker, awaited,
                   crashes, dispatches, thread, acceptedIn, answers, told, abandoned, disputed>>

-----------------------------------------------------------------------------
(* executeTurn *)

Goto(r, pc) == exec' = [exec EXCEPT ![r].pc = pc]
Verdict(r, pc, verdict) == exec' = [exec EXCEPT ![r].pc = pc, ![r].verdict = verdict]

\* The catch clause decides what the run has come to, and settles it outside the try.
Caught(r, verdict) ==
    exec' = [exec EXCEPT ![r].pc = "decide", ![r].verdict = verdict, ![r].caught = TRUE]

\* The end of executeTurn, with its finally clause.
Done(r) ==
    /\ exec' = [exec EXCEPT ![r] = [IdleExec EXCEPT !.pc = "done"]]
    /\ cancelled' = cancelled \ {r}

\* getTask, runtimeBindingForTurn; includeContext for the turn of startTask.
LoadTurn(r) ==
    /\ exec[r].pc = "load"
    /\ exec' = [exec EXCEPT ![r].pc = IF turns[1] = r THEN "compile" ELSE "check",
                            ![r].session = shown.session]
    /\ UNCHANGED <<durable, host, nextRun, submit, cancel, cancelled, worker, awaited, history>>

\* The task, the project, the binding, the memory or the context file is not to be had.
PrepareFails(r) ==
    /\ exec[r].pc \in {"load", "compile", "runTurn"}
    /\ Caught(r, "failed")
    /\ UNCHANGED <<durable, host, nextRun, submit, cancel, cancelled, worker, awaited, history>>

\* The transitions of a task wait for each other in the order of the calls: completeTaskRequest
\* of the follow-up was called before the first transition of the turn it scheduled.
InLine(r) == submit.pc = "completeFollowup" => submit.id # r

\* transition context.compiled: the binding read before is written back.
Compiling(r) ==
    /\ session' = exec[r].session
    /\ UNCHANGED <<status, active, turns, run, ledger, cancelLedger>>

CompileContext(r) ==
    /\ exec[r].pc = "compile" /\ InLine(r)
    /\ Compiling(r) /\ InPlace
    /\ Goto(r, "check")
    /\ UNCHANGED <<receipt, reservation, host, nextRun, submit, cancel, cancelled, worker, awaited,
                   history>>

\* if (this.cancelledRuns.has(runId))
CheckCancelled(r) ==
    /\ exec[r].pc = "check"
    /\ IF r \in cancelled THEN Verdict(r, "inspect", "interrupted") ELSE Goto(r, "starting")
    /\ UNCHANGED <<durable, host, nextRun, submit, cancel, cancelled, worker, awaited, history>>

\* transition runtime.turn_starting
Starting(r) ==
    /\ status' = "starting"
    /\ active' = r
    /\ run' = [run EXCEPT ![r] = "starting"]
    /\ UNCHANGED <<turns, session, ledger, cancelLedger>>

TurnStarting(r) ==
    /\ exec[r].pc = "starting" /\ InLine(r)
    /\ Starting(r) /\ InPlace
    /\ Goto(r, "runTurn")
    /\ UNCHANGED <<receipt, reservation, host, nextRun, submit, cancel, cancelled, worker, awaited,
                   history>>

\* One of these transitions throws.
PrepareThrows(r) ==
    /\ \/ exec[r].pc = "compile" /\ Throws(Compiling(r))
       \/ exec[r].pc = "starting" /\ Throws(Starting(r))
    /\ InLine(r)
    /\ Caught(r, "failed")
    /\ UNCHANGED <<receipt, reservation, host, nextRun, submit, cancel, cancelled, worker, awaited,
                   crashes, dispatches, thread, acceptedIn, answers, told, abandoned, disputed>>

\* CodexRuntimeManager.runTurn and CodexWorker.run: a stopping host refuses, a busy
\* worker refuses (runtime_binding_busy), a closed worker is replaced.
RunTurn(r) ==
    /\ exec[r].pc = "runTurn"
    /\ IF host # "up"
       THEN Caught(r, "needs_resume") /\ UNCHANGED worker
       ELSE IF worker.run # None
       THEN Caught(r, "failed") /\ UNCHANGED worker
       ELSE /\ Goto(r, "running")
            /\ worker' = IF worker.process \in {"live", "stopped"}
                         THEN [worker EXCEPT !.run = r, !.stage = "startup", !.interrupted = FALSE]
                         ELSE [NoWorker EXCEPT !.id = r, !.process = "live", !.run = r,
                                               !.stage = "startup"]
    /\ UNCHANGED <<durable, host, nextRun, submit, cancel, cancelled, awaited, history>>

MutRetry(r) ==
    /\ exec[r].pc = "decide"
    /\ IF r \in cancelled THEN Verdict(r, "inspect", "interrupted")
       ELSE Goto(r, IF exec[r].verdict = "needs_resume" THEN "runTurn" ELSE "inspect")
    /\ UNCHANGED <<durable, host, nextRun, submit, cancel, cancelled, worker, awaited, history>>

MutTrustsCancel(r) ==
    /\ exec[r].pc = "decide"
    /\ IF r \in cancelled THEN Goto(r, "done") ELSE Goto(r, "inspect")
    /\ UNCHANGED <<durable, host, nextRun, submit, cancel, cancelled, worker, awaited, history>>

\* The runtime's promise has settled: a cancelled run is reported as interrupted.
Decide(r) ==
    /\ exec[r].pc = "decide"
    /\ Verdict(r, "inspect", IF r \in cancelled THEN "interrupted" ELSE exec[r].verdict)
    /\ UNCHANGED <<durable, host, nextRun, submit, cancel, cancelled, worker, awaited, history>>

\* The task as it is read says the run is settled: nothing is done.  A transition of the run
\* that threw may be hidden behind that reading; then the record has it live for good.
LeftAlone(r) ==
    /\ shown.run[r] \in TerminalRun
    /\ Done(r)
    /\ abandoned' = IF run[r] \in LiveRun THEN abandoned \cup {r} ELSE abandoned
    /\ UNCHANGED receipt

MutNoReceipt(r) ==
    /\ exec[r].pc = "inspect"
    /\ \/ LeftAlone(r)
       \/ /\ shown.run[r] \notin TerminalRun
          /\ Goto(r, "commit")
          /\ UNCHANGED <<receipt, cancelled, abandoned>>
    /\ UNCHANGED <<task, ledger, cancelLedger, reservation, shown, host, nextRun, submit, cancel,
                   worker, awaited, crashes, dispatches, thread, acceptedIn, answers, told, faults,
                   disputed>>

\* finalizeResult, finalizeSynthetic, markNeedsResume: isTerminalRun is tested on a
\* reading of the task outside its lock; the receipt is written before the transition.
Inspect(r) ==
    /\ exec[r].pc = "inspect"
    /\ \/ LeftAlone(r)
       \/ /\ shown.run[r] \notin TerminalRun
          /\ Goto(r, "commit")
          /\ receipt' = [receipt EXCEPT ![r] = exec[r].verdict]
          /\ UNCHANGED <<cancelled, abandoned>>
    /\ UNCHANGED <<task, ledger, cancelLedger, reservation, shown, host, nextRun, submit, cancel,
                   worker, awaited, crashes, dispatches, thread, acceptedIn, answers, told, faults,
                   disputed>>

\* The transition to the terminal status.
Settle(r, verdict) ==
    /\ status' = verdict
    /\ active' = None
    /\ run' = [run EXCEPT ![r] = verdict]
    /\ UNCHANGED <<turns, session, ledger, cancelLedger>>

CommitVerdict(r) ==
    /\ exec[r].pc = "commit" /\ InLine(r)
    /\ Settle(r, exec[r].verdict) /\ InPlace
    /\ Done(r)
    /\ UNCHANGED <<receipt, reservation, host, nextRun, submit, cancel, worker, awaited, history>>

\* getTask or writeArtifact throws, the receipt perhaps in place.
ReceiptThrows(r, verdict) ==
    /\ Fault
    /\ \/ UNCHANGED receipt
       \/ shown.run[r] \notin TerminalRun /\ receipt' = [receipt EXCEPT ![r] = verdict]
    /\ UNCHANGED <<task, ledger, cancelLedger, shown>>

\* The settlement throws: inside the try the catch clause settles the run again, the catch
\* clause itself ends the execution.
SettleThrows(r) ==
    /\ \/ exec[r].pc = "inspect" /\ ReceiptThrows(r, exec[r].verdict)
       \/ /\ exec[r].pc = "commit" /\ InLine(r) /\ Throws(Settle(r, exec[r].verdict))
          /\ UNCHANGED receipt
    /\ IF exec[r].caught
       THEN Done(r) /\ abandoned' = abandoned \cup {r} /\ UNCHANGED disputed
       ELSE Caught(r, "failed") /\ disputed' = disputed \cup {r} /\ UNCHANGED <<cancelled, abandoned>>
    /\ UNCHANGED <<reservation, host, nextRun, submit, cancel, worker, awaited, crashes,
                   dispatches, thread, acceptedIn, answers, told>>

-----------------------------------------------------------------------------
(* The worker, as executeTurn and interrupt see it *)

\* A worker that has no active turn any more.  Once it is closed it is as good as none:
\* runTurn replaces it, interrupt ignores it.
Turnless(process) ==
    IF process = "closed" THEN NoWorker
    ELSE [worker EXCEPT !.run = None, !.stage = "idle", !.process = process]

MutKeepsTurn(r, verdict, process) ==
    /\ worker' = [worker EXCEPT !.process = process]
    /\ Caught(r, verdict)
\* The promise of run is rejected.
WorkerEnds(r, verdict, process) ==
    /\ worker' = Turnless(process)
    /\ Caught(r, verdict)

At(r, stage) == worker.run = r /\ worker.stage = stage

ThreadOf(r) == IF exec[r].session = None THEN r ELSE exec[r].session

\* handleRuntimeEvent, session/ready
Ready(r) ==
    /\ session' = ThreadOf(r)
    /\ UNCHANGED <<status, active, turns, run, ledger, cancelLedger>>

Startable(r) ==
    /\ At(r, "startup")
    /\ worker.process = "live"
    /\ ~worker.interrupted
    /\ worker.thread \in {None, exec[r].session}

MutSessionLost(r) ==
    /\ Startable(r)
    /\ worker' = [worker EXCEPT !.stage = "ready", !.thread = ThreadOf(r)]
    /\ UNCHANGED <<durable, host, nextRun, submit, cancel, exec, cancelled, awaited, history>>

\* startTurn up to the emit of session/ready: the thread is started or resumed, a live
\* worker's thread must be the one of the binding, and its id is saved before the turn
\* is sent.
SessionReady(r) ==
    /\ Startable(r)
    /\ Ready(r) /\ InPlace
    /\ worker' = [worker EXCEPT !.stage = "ready", !.thread = ThreadOf(r)]
    /\ UNCHANGED <<receipt, reservation, host, nextRun, submit, cancel, exec, cancelled, awaited,
                   history>>

\* request("turn/start"), refused when the process is gone
Dispatch(r) ==
    /\ At(r, "ready")
    /\ worker.process = "live"
    /\ worker' = [worker EXCEPT !.stage = "dispatched"]
    /\ dispatches' = [dispatches EXCEPT ![r] = @ + 1]
    /\ thread' = [thread EXCEPT ![r] = worker.thread]
    /\ UNCHANGED <<durable, host, nextRun, submit, cancel, exec, cancelled, awaited,
                   crashes, acceptedIn, answers, told, trouble>>

\* handleRuntimeEvent, turn/start: run.status = inProgress, task.status = running.
Begun(r) ==
    /\ run' = [run EXCEPT ![r] = "inProgress"]
    /\ status' = "running"
    /\ active' = r
    /\ UNCHANGED <<turns, session, ledger, cancelLedger>>

TurnStarted(r) ==
    /\ At(r, "dispatched")
    /\ Begun(r) /\ InPlace
    /\ worker' = [worker EXCEPT !.stage = "turn"]
    /\ UNCHANGED <<receipt, reservation, host, nextRun, submit, cancel, exec, cancelled, awaited,
                   history>>

\* Messages, tool calls and the end of the turn are recorded too, with what was left over.
OtherEvent(r) ==
    /\ At(r, "turn")
    /\ Noted /\ InPlace
    /\ UNCHANGED <<receipt, reservation, host, memory, history>>

\* turn/completed: the promise of run is resolved.  The worker stays for the next turn, unless
\* it was being interrupted.
TurnCompleted(r) ==
    /\ At(r, "turn")
    /\ worker' = Turnless(IF worker.interrupted /\ worker.process = "live"
                          THEN "stopped" ELSE worker.process)
    /\ \E verdict \in {"completed", "failed", "interrupted"} : Verdict(r, "decide", verdict)
    /\ UNCHANGED <<durable, host, nextRun, submit, cancel, cancelled, awaited, history>>

\* onEvent throws: the worker fails, before the turn was sent with the error, after it
\* (startTurn) as an exit of the process, in a notification with the error again.
EventThrows(r) ==
    /\ \/ Startable(r) /\ Throws(Ready(r)) /\ WorkerEnds(r, "failed", "closed")
       \/ /\ At(r, "dispatched") /\ Throws(Begun(r))
          /\ \E verdict \in {"failed", "needs_resume"} : WorkerEnds(r, verdict, "closed")
       \/ At(r, "turn") /\ Throws(Noted) /\ WorkerEnds(r, "failed", "closed")
    /\ UNCHANGED <<receipt, reservation, host, nextRun, submit, cancel, cancelled, awaited,
                   crashes, dispatches, thread, acceptedIn, answers, told, abandoned, disputed>>

\* startTurn throws, the protocol breaks, or the turn asks for more authority.
WorkerFails(r) ==
    /\ worker.run = r
    /\ WorkerEnds(r, "failed", "closed")
    /\ UNCHANGED <<durable, host, nextRun, submit, cancel, cancelled, awaited, history>>

\* The worker was closed before the turn was sent (runtime_interrupted).
StartupCancelled(r) ==
    /\ At(r, "startup")
    /\ worker.process = "closed"
    /\ WorkerEnds(r, "interrupted", "closed")
    /\ UNCHANGED <<durable, host, nextRun, submit, cancel, cancelled, awaited, history>>

\* The process exits, the turn's deadline passes, or turn/start is not acknowledged.
WorkerLost(r) ==
    /\ worker.run = r
    /\ WorkerEnds(r, "needs_resume", "closed")
    /\ UNCHANGED <<durable, host, nextRun, submit, cancel, cancelled, awaited, history>>

\* The process of an idle worker exits.
IdleExit ==
    /\ worker.run = None
    /\ worker.process \in {"live", "stopped"}
    /\ worker' = NoWorker
    /\ UNCHANGED <<durable, host, nextRun, submit, cancel, exec, cancelled, awaited, history>>

-----------------------------------------------------------------------------
(* CompatibilityService.cancel and interrupt, for the job of run r *)

CancelGoto(r, pc) == cancel' = [cancel EXCEPT ![r].pc = pc]

\* cancel: the job was answered, its turn is queued or running and the latest of the task.
CancelCheck(r) ==
    /\ r \in Cancellable
    /\ host = "up"
    /\ cancel[r].pc = "idle"
    /\ r \in {a[2] : a \in answers}
    /\ shown.run[r] \in LiveRun
    /\ Latest(shown) = r
    /\ CancelGoto(r, "asked")
    /\ UNCHANGED <<durable, host, nextRun, submit, exec, cancelled, worker, awaited, history>>

\* The tool answers with the status of the job: "cancelled" is a run that is interrupted.
Tell(r, record) ==
    told' = IF host = "up" /\ record.run[r] = "interrupted" THEN told \cup {r} ELSE told

Interruptible(r) ==
    /\ host = "up"
    /\ shown.cancelLedger[r] = None
    /\ shown.status \in ActiveStatuses
    /\ shown.active # None

\* interrupt: the host stops, a duplicate, or no_active_turn.
InterruptRefused(r) ==
    /\ cancel[r].pc = "asked"
    /\ ~Interruptible(r)
    /\ cancel' = [cancel EXCEPT ![r] = IdleCancel]
    /\ IF shown.cancelLedger[r] = None THEN UNCHANGED told ELSE Tell(r, shown)
    /\ UNCHANGED <<durable, host, nextRun, submit, exec, cancelled, worker, awaited,
                   crashes, dispatches, thread, acceptedIn, answers, trouble>>

InterruptAccepted(r) ==
    /\ cancel[r].pc = "asked"
    /\ Interruptible(r)
    /\ cancel' = [cancel EXCEPT ![r].pc = "reserve", ![r].victim = Latest(shown)]
    /\ UNCHANGED <<durable, host, nextRun, submit, exec, cancelled, worker, awaited, history>>

\* reserveTaskRequest: whether the entry is new is not asked.
Interrupting(r) ==
    /\ cancelLedger' = Promise(cancelLedger, r, cancel[r].victim)
    /\ UNCHANGED <<task, ledger>>

ReserveInterrupt(r) ==
    /\ cancel[r].pc = "reserve"
    /\ Interrupting(r) /\ InPlace
    /\ CancelGoto(r, "signal")
    /\ UNCHANGED <<receipt, reservation, host, nextRun, submit, exec, cancelled,
                   worker, awaited, history>>

\* stopProcessTree, fail, shutdown of the worker w: the turn it runs now is interrupted.
KillWorker(w) ==
    IF worker.id # w THEN UNCHANGED <<worker, exec>>
    ELSE IF worker.run # None THEN WorkerEnds(worker.run, "interrupted", "closed")
    ELSE worker' = NoWorker /\ UNCHANGED exec

\* cancelledRuns.add, runtime.interrupt: without an active turn there is no process to
\* stop; a turn that has no id yet is killed at once, else turn/interrupt is awaited.
Signal(r) ==
    /\ cancel[r].pc = "signal"
    /\ cancelled' = cancelled \cup {cancel[r].victim}
    /\ IF worker.run = None
       THEN CancelGoto(r, "request") /\ UNCHANGED <<worker, exec>>
       ELSE IF worker.stage = "turn"
       THEN /\ cancel' = [cancel EXCEPT ![r].pc = "kill", ![r].target = worker.id]
            /\ worker' = [worker EXCEPT !.interrupted = TRUE]
            /\ UNCHANGED exec
       ELSE CancelGoto(r, "complete") /\ KillWorker(worker.id)
    /\ UNCHANGED <<durable, host, nextRun, submit, awaited, history>>

\* turn/interrupt was answered or timed out.
Kill(r) ==
    /\ cancel[r].pc = "kill"
    /\ CancelGoto(r, "complete")
    /\ KillWorker(cancel[r].target)
    /\ UNCHANGED <<durable, host, nextRun, submit, cancelled, awaited, history>>

\* No process was found: transition turn.interrupt_requested, then the turn is settled here.
NoProcess(r) ==
    /\ cancel[r].pc = "request"
    /\ Noted /\ InPlace
    /\ CancelGoto(r, "inspect")
    /\ UNCHANGED <<receipt, reservation, host, nextRun, submit, exec, cancelled, worker, awaited,
                   history>>

\* finalizeSynthetic: reading of the task and receipt.
InspectVictim(r) ==
    /\ cancel[r].pc = "inspect"
    /\ IF shown.run[cancel[r].victim] \in TerminalRun
       THEN CancelGoto(r, "complete") /\ UNCHANGED receipt
       ELSE /\ CancelGoto(r, "commit")
            /\ receipt' = [receipt EXCEPT ![cancel[r].victim] = "interrupted"]
    /\ UNCHANGED <<task, ledger, cancelLedger, reservation, shown, host, nextRun, submit, exec,
                   cancelled, worker, awaited, history>>

\* finalizeSynthetic: the transition.
SettleVictim(r) ==
    /\ cancel[r].pc = "commit"
    /\ Settle(cancel[r].victim, "interrupted") /\ InPlace
    /\ CancelGoto(r, "complete")
    /\ UNCHANGED <<receipt, reservation, host, nextRun, submit, exec, cancelled, worker, awaited,
                   history>>

\* (turn.interrupt_requested, when a process was found, and) completeTaskRequest; the caller
\* is told the status of its job.
CompleteInterrupt(r) ==
    /\ cancel[r].pc = "complete"
    /\ Noted /\ InPlace
    /\ Tell(r, Record)
    /\ cancel' = [cancel EXCEPT ![r] = IdleCancel]
    /\ UNCHANGED <<receipt, reservation, host, nextRun, submit, exec, cancelled, worker, awaited,
                   crashes, dispatches, thread, acceptedIn, answers, trouble>>

\* A call of the store throws, and with it the cancel tool: what was not done yet is not done.
CancelThrows(r) ==
    /\ \/ cancel[r].pc = "asked" /\ Fault /\ Noted /\ UNCHANGED <<receipt, shown>>
       \/ cancel[r].pc = "reserve" /\ Throws(Interrupting(r)) /\ UNCHANGED receipt
       \/ cancel[r].pc \in {"request", "complete"} /\ Throws(Noted) /\ UNCHANGED receipt
       \/ cancel[r].pc = "inspect" /\ ReceiptThrows(cancel[r].victim, "interrupted")
       \/ /\ cancel[r].pc = "commit" /\ Throws(Settle(cancel[r].victim, "interrupted"))
          /\ UNCHANGED receipt
    /\ cancel' = [cancel EXCEPT ![r] = IdleCancel]
    /\ UNCHANGED <<reservation, host, nextRun, submit, exec, cancelled, worker, awaited, crashes,
                   dispatches, thread, acceptedIn, answers, told, abandoned, disputed>>

-----------------------------------------------------------------------------
(* The host *)

\* shutdown: no new calls, the worker is told to stop.
Shutdown ==
    /\ host = "up"
    /\ crashes < MaxCrashes
    /\ host' = "stopping"
    /\ worker' = IF worker.run = None THEN NoWorker ELSE [worker EXCEPT !.process = "closed"]
    /\ UNCHANGED <<durable, nextRun, submit, cancel, exec, cancelled, awaited, history>>

\* The workers are gone: Promise.allSettled of the executions there are now.
Drain ==
    /\ host = "stopping"
    /\ worker.run = None
    /\ host' = "draining"
    /\ awaited' = {r \in Runs : exec[r].pc \notin Uncalled}
    /\ UNCHANGED <<durable, nextRun, submit, cancel, exec, cancelled, worker, history>>

MemoryLost ==
    /\ crashes' = crashes + 1
    /\ host' = "down"
    /\ submit' = IdleSubmit
    /\ cancel' = [r \in Runs |-> IdleCancel]
    /\ exec' = [r \in Runs |-> IdleExec]
    /\ cancelled' = {} /\ awaited' = {}
    /\ worker' = NoWorker
    /\ UNCHANGED <<durable, nextRun, dispatches, thread, acceptedIn, answers, told, trouble>>

\* The awaited executions have ended: the process exits.
Halt ==
    /\ host = "draining"
    /\ \A r \in awaited : exec[r].pc \in Uncalled
    /\ MemoryLost

Crash ==
    /\ host # "down"
    /\ crashes < MaxCrashes
    /\ MemoryLost

Parked(r) ==
    /\ status' = "needs_resume"
    /\ active' = None
    /\ run' = [run EXCEPT ![r] = "needs_resume"]
    /\ UNCHANGED <<turns, session, ledger, cancelLedger>>

LiveTurns == {i \in 1..Len(turns) : run[turns[i]] \in LiveRun}

MutReplays ==
    /\ host = "down"
    /\ host' = "up"
    /\ Noted /\ InPlace
    /\ exec' = IF status \in ActiveStatuses THEN [exec EXCEPT ![Latest(Record)].pc = "load"] ELSE exec
    /\ UNCHANGED <<receipt, reservation, nextRun, submit, cancel, cancelled, worker, awaited, history>>
MutOldest ==
    /\ host = "down"
    /\ host' = "up"
    /\ IF status \in ActiveStatuses THEN Parked(turns[1]) ELSE Noted
    /\ InPlace
    /\ UNCHANGED <<receipt, reservation, memory, history>>
MutTaskOnly ==
    /\ host = "down"
    /\ host' = "up"
    /\ status' = IF status \in ActiveStatuses THEN "needs_resume" ELSE status
    /\ UNCHANGED <<active, turns, run, session, ledger, cancelLedger>>
    /\ InPlace
    /\ UNCHANGED <<receipt, reservation, memory, history>>

\* DurableStore.initialize: what is left over is rolled forward, then
\* markUncertainTasksForRecovery parks the task and the latest turn that was starting or in
\* progress.
Boot ==
    /\ host = "down"
    /\ host' = "up"
    /\ IF status \notin ActiveStatuses THEN Noted
       ELSE IF LiveTurns # {}
       THEN \E i \in LiveTurns : (\A j \in LiveTurns : j <= i) /\ Parked(turns[i])
       ELSE /\ status' = "needs_resume" /\ active' = None
            /\ UNCHANGED <<turns, run, session, ledger, cancelLedger>>
    /\ InPlace
    /\ UNCHANGED <<receipt, reservation, memory, history>>

SubmitStep ==
    \/ CreateTask \/ CompleteStart \/ ReserveFollowup \/ AlreadyReserved \/ QueueFollowup
    \/ CompleteFollowup \/ RecordThrows \/ LedgerThrows
ExecStep(r) ==
    \/ LoadTurn(r) \/ PrepareFails(r) \/ CompileContext(r) \/ CheckCancelled(r)
    \/ TurnStarting(r) \/ PrepareThrows(r) \/ RunTurn(r) \/ Decide(r) \/ Inspect(r)
    \/ CommitVerdict(r) \/ SettleThrows(r)
WorkerStep(r) ==
    \/ SessionReady(r) \/ Dispatch(r) \/ TurnStarted(r) \/ TurnCompleted(r)
    \/ EventThrows(r) \/ WorkerFails(r) \/ StartupCancelled(r) \/ WorkerLost(r)
CancelStep(r) ==
    \/ InterruptRefused(r) \/ InterruptAccepted(r) \/ ReserveInterrupt(r) \/ Signal(r) \/ Kill(r)
    \/ NoProcess(r) \/ InspectVictim(r) \/ SettleVictim(r) \/ CompleteInterrupt(r)
    \/ CancelThrows(r)

Next ==
    \/ \E q \in Requests : Duplicate(q) \/ Submit(q) \/ Refused(q)
    \/ SubmitStep
    \/ \E r \in Runs :
          ExecStep(r) \/ WorkerStep(r) \/ OtherEvent(r) \/ CancelCheck(r) \/ CancelStep(r)
    \/ IdleExit \/ Shutdown \/ Drain \/ Halt \/ Crash \/ Boot

Spec == Init /\ [][Next]_vars

\* A handler that runs is resumed when its await settles; every turn has a deadline
\* timer; the supervisor starts the host again.
FairSpec ==
    /\ Spec
    /\ WF_vars(SubmitStep)
    /\ \A r \in Runs : WF_vars(ExecStep(r)) /\ WF_vars(WorkerStep(r)) /\ WF_vars(CancelStep(r))
    /\ WF_vars(Drain \/ Halt)
    /\ WF_vars(Boot)

-----------------------------------------------------------------------------
(* Properties *)

ExecPc == {"none", "load", "compile", "check", "starting", "runTurn", "running", "decide",
           "inspect", "commit", "done"}

Records ==
    [status : {"absent"} \cup ActiveStatuses \cup TerminalRun,
     active : Runs \cup {None},
     turns : Seq(Runs),
     run : [Runs -> {"absent"} \cup LiveRun \cup TerminalRun],
     session : Runs \cup {None},
     ledger : [Requests -> Runs \cup {None}],
     cancelLedger : [Runs -> Runs \cup {None}]]
DurableType ==
    /\ Record \in Records /\ shown \in Records
    /\ receipt \in [Runs -> TerminalRun \cup {None}]
    /\ reservation \in Requests \cup {None}
MemoryType ==
    /\ host \in {"up", "stopping", "draining", "down"}
    /\ nextRun \in 1..(MaxRuns + 1)
    /\ submit \in [pc : {"idle", "create", "completeStart", "reserve", "queue",
                         "completeFollowup"},
                   id : Runs \cup {None}, session : Runs \cup {None}]
    /\ cancel \in [Runs -> [pc : {"idle", "asked", "reserve", "signal", "kill", "request",
                                  "inspect", "commit", "complete"},
                            victim : Runs \cup {None}, target : Runs \cup {None}]]
    /\ exec \in [Runs -> [pc : ExecPc, session : Runs \cup {None},
                          verdict : TerminalRun \cup {None}, caught : BOOLEAN]]
    /\ cancelled \subseteq Runs /\ awaited \subseteq Runs
    /\ worker \in [id : Runs \cup {None}, process : {"none", "live", "stopped", "closed"},
                   run : Runs \cup {None}, stage : {"idle", "startup", "ready", "dispatched", "turn"},
                   thread : Runs \cup {None}, interrupted : BOOLEAN]
HistoryType ==
    /\ crashes \in Nat
    /\ dispatches \in [Runs -> Nat]
    /\ thread \in [Runs -> Runs \cup {None}]
    /\ acceptedIn \in [Runs -> Nat]
    /\ answers \subseteq Requests \X Runs
    /\ told \subseteq Runs
    /\ faults \in Nat /\ abandoned \subseteq Runs /\ disputed \subseteq Runs

TypeOK == DurableType /\ MemoryType /\ HistoryType

\* The worker's turn and the executions agree: executeTurn of a run is inside
\* runtime.runTurn exactly while the task's worker has that run as its active turn.
WorkerRunsWhatIsExecuted == \A r \in Runs : exec[r].pc = "running" <=> worker.run = r

\* A turn is only sent by the process that accepted it: nothing is replayed at boot.
NeverReplayedAfterRestart ==
    [][\A r \in Runs : dispatches'[r] > dispatches[r] => acceptedIn[r] = crashes]_vars

\* A request that is retried, also across restarts, is always given the same run.
AnswersAgree == \A a, b \in answers : a[1] = b[1] => a[2] = b[2]

\* While the host is up, a turn that was accepted in this life of the host and that the record
\* or its readers have as live is being executed, or is about to be scheduled by the start
\* that recorded it, unless a call of the store that threw has left it (task-orchestrator.ts:
\* 233-235, 283-323, 536-543); so has a task that claims to be active: nothing else waits for
\* a turn that nobody runs, however its own end, cancellations, follow-ups and hidden
\* transitions interleave.
Executing(r) == exec[r].pc \notin Uncalled \/ (submit.pc = "completeStart" /\ submit.id = r)
Attended(r) == acceptedIn[r] = crashes /\ (Executing(r) \/ r \in abandoned)
LiveTurnIsExecuted ==
    host # "down" =>
        \A record \in {Record, shown} :
            /\ \A r \in Runs : record.run[r] \in LiveRun /\ acceptedIn[r] = crashes => Attended(r)
            /\ record.status \in ActiveStatuses => \E r \in Runs : Attended(r)

\* A prompt is sent to the model at most once, whatever is cancelled, lost or retried, and what
\* is sent is in the record: the run is one of the task's turns and was promised to a request.
DispatchedOnceOnRecord ==
    \A r \in Runs : dispatches[r] > 0 =>
        /\ dispatches[r] = 1
        /\ \E i \in 1..Len(turns) : turns[i] = r
        /\ \E q \in Requests : ledger[q] = r

\* Without cancellations the task's status and its turns agree: only the latest turn
\* is live, and exactly while the task is active.  A turn that a throw left behind may
\* still be live below the turn of a follow-up.
StatusMatchesTurns ==
    \A i \in 1..Len(turns) :
        /\ run[turns[i]] \in LiveRun /\ turns[i] \notin abandoned =>
               i = Len(turns) /\ status \in ActiveStatuses
        /\ i = Len(turns) /\ status \in ActiveStatuses => run[turns[i]] \in LiveRun

\* The runs for which a cancellation has been recorded.
Interrupted == {cancelLedger[r] : r \in Runs}

\* A turn that is settled is never changed again, unless an interruption of it has been
\* recorded or its settlement threw and the catch clause settles it again: cancelling one
\* turn of a task rewrites no other.
TerminalIsFinal ==
    [][\A r \in Runs \ (Interrupted \cup disputed) :
          run[r] \in TerminalRun => run'[r] = run[r]]_vars

\* The receipt of a turn that was settled by its own execution says what the record says,
\* unless an interruption of that turn has been recorded or its settlement threw.
ReceiptMatchesRun ==
    \A r \in Runs \ (Interrupted \cup disputed) :
        run[r] \in {"completed", "failed", "interrupted"} => receipt[r] = run[r]

\* All turns of a task that reach the model are sent to one thread.
OneThreadPerTask ==
    \A r, s \in Runs : dispatches[r] > 0 /\ dispatches[s] > 0 => thread[r] = thread[s]

\* A turn that the record or its readers have as live is settled in both in the end, or a call
\* of the store that threw has left it to the next boot.
TurnsSettle ==
    \A r \in Runs :
        LiveRun \cap {run[r], shown.run[r]} # {}
            ~> {run[r], shown.run[r]} \subseteq TerminalRun \/ r \in abandoned

\* Documented: codexluna_cancel stops the task's worker.  (A run that the caller was shown
\* as cancelled is not sent to the model afterwards.)
CancelStops == [][\A r \in told : dispatches'[r] = dispatches[r]]_vars

\* Documented: a start that was answered names a turn of the task.
AnsweredTurnExists == \A a \in answers : \E i \in 1..Len(turns) : turns[i] = a[2]
=============================================================================
