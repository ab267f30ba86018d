---------------------------- MODULE DurableStore ----------------------------
(***************************************************************************)
(* The files of one task and the protocol that changes them                *)
(* (src/src/durable-store.ts): the snapshot task.json, the event log       *)
(* events.jsonl, the write-ahead record transaction.json, and the .bak     *)
(* copies the rename fallback of writeJsonAtomic leaves behind.            *)
(*                                                                         *)
(* withLock("task:<id>") lets one transition at a time into the files of a *)
(* task, so the transition in progress is described by global variables    *)
(* (step, ctx, target, op, tx) and `holder' says whose it is.  Every file  *)
(* operation the code awaits is a step of its own: it may fail, the host   *)
(* may crash before it, and a reader that takes no lock may run between    *)
(* any two of them.  Temporary files are never read and are left out; the  *)
(* write of one and its rename are one step.                               *)
(*                                                                         *)
(* Bounds: MaxEvents, MaxFaults and MaxCrashes stop the growth of the log  *)
(* and the adversary; nothing else depends on them.                        *)
(***************************************************************************)
EXTENDS Naturals, Sequences

CONSTANTS
    Clients,    \* concurrent callers of the store inside the host
    Requests,   \* ledger keys, "<operation>:<requestId>"
    None,       \* JSON null, an absent file, no holder
    MaxEvents,  \* bound: no call begins once the log is this long
    MaxFaults,  \* bound: file operations that fail
    MaxCrashes, \* bound: crashes of the host
    MaxTears    \* bound: appends that leave half a line (0 or 1)

ASSUME BoundAssumption ==
    /\ MaxEvents \in Nat
    /\ MaxFaults \in Nat
    /\ MaxCrashes \in Nat
    /\ MaxTears \in {0, 1}

VARIABLES
    dir,        \* the task's directory exists
    file,       \* what task.json and transaction.json hold
    bak,        \* what their .bak copies hold
    log,        \* events.jsonl, its complete lines
    torn,       \* events.jsonl ends in half a line
    phase,      \* of the host: "down", "boot" (initialize), "up"
    holder,     \* the caller inside withLock; None while booting or free
    step,       \* the next file operation of the transition in progress
    ctx,        \* where it is: "boot", "transition", "commit", "repair"
    target,     \* the file writeJsonAtomic is writing
    op,         \* the operation of the transition in progress
    tx,         \* the transaction being written or rolled forward
    fresh,      \* reserveTaskRequest's local isNew
    call,       \* the operation each caller asked for
    reader,     \* a getTask outside the lock that found no task.json and has not
                \* read the backup yet: what was acknowledged when it began
    acked,      \* history: events of the calls that returned normally
    isNew,      \* history: how often a request was answered isNew = true
    faults, crashes

disk == <<dir, file, bak, log, torn>>
work == <<holder, step, ctx, target, op, tx, fresh>>
history == <<acked, isNew>>
bounds == <<faults, crashes>>
vars == <<disk, phase, work, call, reader, history, bounds>>

Files == {"task", "transaction"}
LedgerStates == {"absent", "reserved", "completed"}
Statuses == {"active", "settled", "needs_resume"}

Task == [eventSequence : Nat, status : Statuses, ledger : [Requests -> LedgerStates]]

Kinds == {"task.created", "request.reserved", "request.completed",
          "turn.queued", "turn.completed", "task.recovery_required"}
RequestKinds == {"request.reserved", "request.completed"}
Change ==
    [kind : RequestKinds, request : Requests]
        \cup [kind : Kinds \ RequestKinds, request : {None}]
ClientChange == {change \in Change : change.kind # "task.recovery_required"}
Event == [sequence : Nat, change : Change]
Transaction == [task : Task, event : Event]

ASSUME NoneAssumption ==
    /\ None \notin Clients
    /\ None \notin Requests
    /\ None \notin Task
    /\ None \notin Transaction
    /\ None \notin Change
    /\ None \notin [change : Change, at : Nat]

-----------------------------------------------------------------------------
(* Pure parts of the code *)

\* createTask's record with event number 1.
NewTask ==
    [eventSequence |-> 1, status |-> "active", ledger |-> [r \in Requests |-> "absent"]]

\* completeTaskRequest throws inside mutate when nothing was reserved.
MutateThrows(change, task) ==
    /\ change.kind = "request.completed"
    /\ task.ledger[change.request] = "absent"

StatusAfter(change, task) ==
    CASE change.kind = "turn.queued" -> "active"
      [] change.kind = "turn.completed" -> "settled"
      [] change.kind = "task.recovery_required" -> "needs_resume"
      [] OTHER -> task.status

\* Mutant: only the completion of a request is recorded.
MutLedgerAfter(change, task) ==
    IF change.kind = "request.completed"
    THEN [task.ledger EXCEPT ![change.request] = "completed"]
    ELSE task.ledger

LedgerAfter(change, task) ==
    CASE change.kind = "request.reserved" /\ task.ledger[change.request] = "absent" ->
            [task.ledger EXCEPT ![change.request] = "reserved"]
      [] change.kind = "request.completed" ->
            [task.ledger EXCEPT ![change.request] = "completed"]
      [] OTHER -> task.ledger

\* The mutate callbacks together with the sequence number transitionTask adds.
Mutate(change, task) ==
    [eventSequence |-> task.eventSequence + 1,
     status |-> StatusAfter(change, task),
     ledger |-> LedgerAfter(change, task)]

MakeTransaction(change, task) ==
    [task |-> task, event |-> [sequence |-> task.eventSequence, change |-> change]]

\* readPrimaryOrBackup, when nobody writes in between.
Readable(f) == IF file[f] # None THEN file[f] ELSE bak[f]

\* Mutant: task.json gets the whole write-ahead record.
MutContent == tx

\* What writeJsonAtomic is about to put in its target.
Content == IF target = "transaction" THEN tx ELSE tx.task

\* appendEventIfMissing
EventPresent(e) == \E i \in 1..Len(log) : log[i].sequence = e.sequence
EventConflicts(e) ==
    \E i \in 1..Len(log) :
        log[i].sequence = e.sequence /\ log[i].change.kind # e.change.kind
EventGap(e) == e.sequence # (IF log = <<>> THEN 0 ELSE log[Len(log)].sequence) + 1

-----------------------------------------------------------------------------
(* Ways out of the transition in progress *)

Release ==
    /\ holder' = None
    /\ step' = "idle"
    /\ ctx' = "transition"
    /\ target' = "task"
    /\ op' = None
    /\ tx' = None
    /\ fresh' = FALSE

\* Mutant: initialize never says it is done.
MutFinish(up) ==
    /\ Release
    /\ phase' = IF phase = "boot" THEN "boot" ELSE phase
    /\ call' = [c \in Clients |-> IF c = holder THEN None ELSE call[c]]

\* The caller is answered; at boot there is no caller and initialize goes on.
Finish(up) ==
    /\ Release
    /\ phase' = IF phase = "boot" THEN up ELSE phase
    /\ call' = [c \in Clients |-> IF c = holder THEN None ELSE call[c]]

\* A throw: commitTaskTransition catches what happens after its write-ahead
\* record is in place and rolls forward; everything else reaches the caller, or
\* ends the process when it happens during initialize.
Throw ==
    IF ctx = "commit" /\ target = "task"
    THEN /\ ctx' = "repair"
         /\ step' = "recover"
         /\ UNCHANGED <<phase, call, holder, target, op, tx, fresh>>
    ELSE Finish("down")

\* recoverTaskTransaction returns to whoever called it.
RecoverReturns ==
    step' = CASE ctx = "transition" -> "load"
              [] ctx = "boot" -> "mark"
              [] OTHER -> "return"

\* writeJsonAtomic returns.
WriteReturns ==
    /\ step' = IF target = "transaction" THEN "append" ELSE "unlink"
    /\ target' = "task"

-----------------------------------------------------------------------------
(* Callers *)

Call(c, change) ==
    /\ phase = "up"
    /\ call[c] = None
    /\ Len(log) < MaxEvents
    /\ call' = [call EXCEPT ![c] = change]
    /\ UNCHANGED <<disk, phase, work, reader, history, bounds>>

\* Mutant: a transition does not look for an unfinished one first.
MutAcquire(c) ==
    /\ phase = "up"
    /\ step = "idle"
    /\ call[c] # None
    /\ holder' = c
    /\ op' = call[c]
    /\ step' = IF call[c].kind = "task.created" THEN "mkdir" ELSE "load"
    /\ UNCHANGED <<disk, phase, ctx, target, tx, fresh, call, reader, history, bounds>>

\* withLock: the gate opens for one caller; createTask begins with mkdir, a
\* transition with the recovery of what an earlier one left.
Acquire(c) ==
    /\ phase = "up"
    /\ step = "idle"
    /\ call[c] # None
    /\ holder' = c
    /\ op' = call[c]
    /\ step' = IF call[c].kind = "task.created" THEN "mkdir" ELSE "recover"
    /\ UNCHANGED <<disk, phase, ctx, target, tx, fresh, call, reader, history, bounds>>

\* createTask, EEXIST: task_exists.
CreateExists ==
    /\ step = "mkdir"
    /\ dir
    /\ Finish("down")
    /\ UNCHANGED <<disk, reader, history, bounds>>

CreateDirectory ==
    /\ step = "mkdir"
    /\ ~dir
    /\ dir' = TRUE
    /\ tx' = MakeTransaction(op, NewTask)
    /\ ctx' = "commit"
    /\ target' = "transaction"
    /\ step' = "swap"
    /\ UNCHANGED <<file, bak, log, torn, phase, holder, op, fresh, call, reader, history, bounds>>

\* getTask finds the task and mutate does not throw.
Accepted == Readable("task") # None /\ ~MutateThrows(op, Readable("task"))

\* Mutant: a throw in mutate leaves the lock taken.
MutLoadThrows ==
    /\ step = "load"
    /\ ~Accepted
    /\ step' = "stuck"
    /\ call' = [call EXCEPT ![holder] = None]
    /\ UNCHANGED <<disk, phase, holder, ctx, target, op, tx, fresh, reader, history, bounds>>

\* transitionTask: getTask finds no task, or mutate throws.
LoadThrows ==
    /\ step = "load"
    /\ ~Accepted
    /\ Finish("down")
    /\ UNCHANGED <<disk, reader, history, bounds>>

\* transitionTask: getTask, mutate, number the event, begin the commit.
Load ==
    /\ step = "load"
    /\ Accepted
    /\ tx' = MakeTransaction(op, Mutate(op, Readable("task")))
    /\ fresh' = /\ op.kind = "request.reserved"
                /\ Readable("task").ledger[op.request] = "absent"
    /\ ctx' = "commit"
    /\ target' = "transaction"
    /\ step' = "swap"
    /\ UNCHANGED <<disk, phase, holder, op, call, reader, history, bounds>>

-----------------------------------------------------------------------------
(* writeJsonAtomic(target, Content) *)

\* writeFile(temporary); rename(temporary, file)
Swap ==
    /\ step = "swap"
    /\ file' = [file EXCEPT ![target] = Content]
    /\ step' = "dropBackup"
    /\ UNCHANGED <<dir, bak, log, torn, phase, holder, ctx, target, op, tx, fresh, call, reader,
                   history, bounds>>

\* rename fails with EACCES, EEXIST or EPERM: the fallback begins.
SwapRefused ==
    /\ step = "swap"
    /\ faults < MaxFaults
    /\ faults' = faults + 1
    /\ step' = "clearBackup"
    /\ UNCHANGED <<disk, phase, holder, ctx, target, op, tx, fresh, call, reader, history, crashes>>

\* The rename went through but unlink(backup) fails with EACCES or EPERM (a backup that
\* is absent is ENOENT, and ignored): the fallback begins without a temporary file.
DropRefused ==
    /\ step = "dropBackup"
    /\ bak[target] # None
    /\ faults < MaxFaults
    /\ faults' = faults + 1
    /\ step' = "clearSpent"
    /\ UNCHANGED <<disk, phase, holder, ctx, target, op, tx, fresh, call, reader, history, crashes>>

ClearBackup ==
    /\ step \in {"clearBackup", "clearSpent"}
    /\ bak' = [bak EXCEPT ![target] = None]
    /\ step' = IF step = "clearBackup" THEN "setAside" ELSE "setAsideSpent"
    /\ UNCHANGED <<dir, file, log, torn, phase, holder, ctx, target, op, tx, fresh, call, reader,
                   history, bounds>>

\* rename(file, backup); ENOENT is fine.  originalMoved is bak[target] # None.  Without a
\* temporary file the rename that follows fails, and what was just written is restored.
SetAside ==
    /\ step \in {"setAside", "setAsideSpent"}
    /\ bak' = [bak EXCEPT ![target] = file[target]]
    /\ file' = [file EXCEPT ![target] = None]
    /\ step' = IF step = "setAside" THEN "place" ELSE "restore"
    /\ UNCHANGED <<dir, log, torn, phase, holder, ctx, target, op, tx, fresh, call, reader,
                   history, bounds>>

\* The second rename(temporary, file).
Place ==
    /\ step = "place"
    /\ file' = [file EXCEPT ![target] = Content]
    /\ IF bak[target] # None
       THEN step' = "dropOriginal" /\ UNCHANGED target
       ELSE WriteReturns
    /\ UNCHANGED <<dir, bak, log, torn, phase, holder, ctx, op, tx, fresh, call, reader, history, bounds>>

PlaceFails ==
    /\ step = "place"
    /\ faults < MaxFaults
    /\ faults' = faults + 1
    /\ IF bak[target] # None
       THEN step' = "restore" /\ UNCHANGED <<phase, holder, ctx, target, op, tx, fresh, call>>
       ELSE Throw
    /\ UNCHANGED <<disk, reader, history, crashes>>

\* rename(backup, file), whose own failure is ignored; the error is rethrown.
Restore ==
    /\ step = "restore"
    /\ \/ /\ file' = [file EXCEPT ![target] = bak[target]]
          /\ bak' = [bak EXCEPT ![target] = None]
          /\ UNCHANGED faults
       \/ /\ faults < MaxFaults
          /\ faults' = faults + 1
          /\ UNCHANGED <<file, bak>>
    /\ Throw
    /\ UNCHANGED <<dir, log, torn, reader, history, crashes>>

DropBackup ==
    /\ step \in {"dropBackup", "dropOriginal"}
    /\ bak' = [bak EXCEPT ![target] = None]
    /\ WriteReturns
    /\ UNCHANGED <<dir, file, log, torn, phase, holder, ctx, op, tx, fresh, call, reader, history, bounds>>

-----------------------------------------------------------------------------
(* commitTaskTransition and recoverTaskTransaction *)

NothingToRecover ==
    /\ step = "recover"
    /\ Readable("transaction") = None
    /\ RecoverReturns
    /\ UNCHANGED <<disk, phase, holder, ctx, target, op, tx, fresh, call, reader, history, bounds>>

\* Mutant: the unfinished transaction is dropped instead of rolled forward.
MutRecoverTransaction ==
    /\ step = "recover"
    /\ Readable("transaction") # None
    /\ file' = [file EXCEPT !["transaction"] = None]
    /\ RecoverReturns
    /\ UNCHANGED <<dir, bak, log, torn, phase, holder, ctx, target, op, tx, fresh, call,
                   reader, history, bounds>>

RecoverTransaction ==
    /\ step = "recover"
    /\ Readable("transaction") # None
    /\ tx' = Readable("transaction")
    /\ target' = "task"
    /\ step' = "append"
    /\ UNCHANGED <<disk, phase, holder, ctx, op, fresh, call, reader, history, bounds>>

\* appendEventIfMissing throws: JSON.parse on half a line, event_sequence_conflict
\* or event_sequence_gap.
AppendThrows ==
    /\ step = "append"
    /\ torn \/ IF EventPresent(tx.event) THEN EventConflicts(tx.event) ELSE EventGap(tx.event)
    /\ Throw
    /\ UNCHANGED <<disk, reader, history, bounds>>

\* Mutants: the event is appended without looking; the write-ahead record is
\* removed before the snapshot is written; the caller is answered before that.
MutAppendAlways ==
    /\ step = "append"
    /\ log' = Append(log, tx.event)
    /\ step' = "swap"
    /\ UNCHANGED <<dir, file, bak, torn, phase, holder, ctx, target, op, tx, fresh, call,
                   reader, history, bounds>>

MutAppendThen(next) ==
    /\ step = "append"
    /\ ~torn
    /\ IF EventPresent(tx.event) THEN UNCHANGED log ELSE log' = Append(log, tx.event)
    /\ step' = IF ctx = "commit" THEN next ELSE "swap"
    /\ UNCHANGED <<dir, file, bak, torn, phase, holder, ctx, target, op, tx, fresh, call,
                   reader, history, bounds>>
MutUnlinkEarly == MutAppendThen("unlink")
MutAnswerEarly == MutAppendThen("return")

AppendEventIfMissing ==
    /\ step = "append"
    /\ ~torn
    /\ \/ EventPresent(tx.event) /\ ~EventConflicts(tx.event) /\ UNCHANGED log
       \/ /\ ~EventPresent(tx.event)
          /\ ~EventGap(tx.event)
          /\ log' = Append(log, tx.event)
    /\ step' = "swap"
    /\ UNCHANGED <<dir, file, bak, torn, phase, holder, ctx, target, op, tx, fresh, call, reader,
                   history, bounds>>

\* appendFile stops half way, the disk being full or the host going down.
TornAppend ==
    /\ step = "append"
    /\ ~torn
    /\ MaxTears = 1
    /\ ~EventPresent(tx.event)
    /\ ~EventGap(tx.event)
    /\ torn' = TRUE
    /\ Throw
    /\ UNCHANGED <<dir, file, bak, log, reader, history, bounds>>

UnlinkTransaction ==
    /\ step = "unlink"
    /\ file' = [file EXCEPT !["transaction"] = None]
    /\ RecoverReturns
    /\ UNCHANGED <<dir, bak, log, torn, phase, holder, ctx, target, op, tx, fresh, call, reader,
                   history, bounds>>

\* The transition returns; reserveTaskRequest says whether the entry is its own.
Return ==
    /\ step = "return"
    /\ acked' = acked \cup {tx.event}
    /\ isNew' = IF fresh THEN [isNew EXCEPT ![op.request] = @ + 1] ELSE isNew
    /\ Finish("up")
    /\ UNCHANGED <<disk, reader, bounds>>

\* Any other file operation that fails.
IOError ==
    /\ step \in {"mkdir", "recover", "load", "swap", "clearBackup", "setAside", "clearSpent",
                 "setAsideSpent", "dropBackup", "dropOriginal", "append", "unlink", "mark"}
    /\ faults < MaxFaults
    /\ faults' = faults + 1
    /\ Throw
    /\ UNCHANGED <<disk, reader, history, crashes>>

-----------------------------------------------------------------------------
(* Host *)

\* The filter of markUncertainTasksForRecovery: ACTIVE_STATUSES.
Unfinished == Readable("task") # None /\ Readable("task").status = "active"

\* initialize, after every directory is recovered: markUncertainTasksForRecovery
\* has nothing to do.
NothingToMark ==
    /\ step = "mark"
    /\ ~Unfinished
    /\ Finish("up")
    /\ UNCHANGED <<disk, reader, history, bounds>>

\* markUncertainTasksForRecovery calls transitionTask on an active task.
MarkUncertain ==
    /\ step = "mark"
    /\ Unfinished
    /\ op' = [kind |-> "task.recovery_required", request |-> None]
    /\ ctx' = "transition"
    /\ step' = "recover"
    /\ UNCHANGED <<disk, phase, holder, target, tx, fresh, call, reader, history, bounds>>

Crash ==
    /\ phase # "down"
    /\ crashes < MaxCrashes
    /\ crashes' = crashes + 1
    /\ phase' = "down"
    /\ Release
    /\ call' = [c \in Clients |-> None]
    /\ reader' = None
    /\ UNCHANGED <<disk, history, faults>>

\* A new process: initialize, recoverPendingTaskTransactions.
Restart ==
    /\ phase = "down"
    /\ phase' = "boot"
    /\ ctx' = "boot"
    /\ step' = "recover"
    /\ UNCHANGED <<disk, holder, target, op, tx, fresh, call, reader, history, bounds>>

-----------------------------------------------------------------------------
(* getTask and listTasks take no lock: readPrimaryOrBackup is two reads.  One *)
(* that finds task.json reads it in one step and needs no state here.         *)

ReadPrimary ==
    /\ phase = "up"
    /\ reader = None
    /\ file["task"] = None
    /\ reader' = acked
    /\ UNCHANGED <<disk, phase, work, call, history, bounds>>

ReadBackup ==
    /\ phase = "up"
    /\ reader # None
    /\ reader' = None
    /\ UNCHANGED <<disk, phase, work, call, history, bounds>>

-----------------------------------------------------------------------------
Init ==
    /\ dir = FALSE
    /\ file = [f \in Files |-> None]
    /\ bak = [f \in Files |-> None]
    /\ log = <<>>
    /\ torn = FALSE
    /\ phase = "down"
    /\ holder = None
    /\ step = "idle"
    /\ ctx = "transition"
    /\ target = "task"
    /\ op = None
    /\ tx = None
    /\ fresh = FALSE
    /\ call = [c \in Clients |-> None]
    /\ reader = None
    /\ acked = {}
    /\ isNew = [r \in Requests |-> 0]
    /\ faults = 0
    /\ crashes = 0

\* Every way the transition in progress can move.
HostStep ==
    \/ CreateExists \/ CreateDirectory \/ LoadThrows \/ Load
    \/ Swap \/ SwapRefused \/ DropRefused \/ ClearBackup \/ SetAside \/ Place \/ PlaceFails
    \/ Restore \/ DropBackup
    \/ NothingToRecover \/ RecoverTransaction
    \/ AppendThrows \/ AppendEventIfMissing \/ TornAppend
    \/ UnlinkTransaction \/ Return \/ IOError
    \/ NothingToMark \/ MarkUncertain

Next ==
    \/ \E c \in Clients :
        \/ \E change \in ClientChange : Call(c, change)
        \/ Acquire(c)
    \/ HostStep
    \/ Crash
    \/ Restart
    \/ ReadPrimary
    \/ ReadBackup

Spec == Init /\ [][Next]_vars

\* Awaited file operations settle, the promise chain of withLock serves callers
\* in order, so none is passed over for ever, and a supervisor restarts the host.
Fairness ==
    /\ WF_vars(HostStep)
    /\ \A c \in Clients : SF_vars(Acquire(c))
    /\ WF_vars(Restart)

FairSpec == Spec /\ Fairness

-----------------------------------------------------------------------------
(* Properties *)

Snapshot == Readable("task")
Written == Readable("transaction")

DiskType ==
    /\ dir \in BOOLEAN
    /\ file \in [Files -> Task \cup Transaction \cup {None}]
    /\ bak \in [Files -> Task \cup Transaction \cup {None}]
    /\ file["task"] \in Task \cup {None}
    /\ bak["task"] \in Task \cup {None}
    /\ file["transaction"] \in Transaction \cup {None}
    /\ bak["transaction"] \in Transaction \cup {None}
    /\ log \in Seq(Event)
    /\ torn \in BOOLEAN

WorkType ==
    /\ phase \in {"down", "boot", "up"}
    /\ holder \in Clients \cup {None}
    /\ step \in {"idle", "mkdir", "recover", "load", "swap", "clearBackup", "setAside",
                 "clearSpent", "setAsideSpent", "place", "restore", "dropBackup",
                 "dropOriginal", "append", "unlink", "return", "mark"}
    /\ ctx \in {"boot", "transition", "commit", "repair"}
    /\ target \in Files
    /\ op \in Change \cup {None}
    /\ tx \in Transaction \cup {None}
    /\ fresh \in BOOLEAN
    /\ call \in [Clients -> ClientChange \cup {None}]

RecordType ==
    /\ reader \in (SUBSET Event) \cup {None}
    /\ acked \in SUBSET Event
    /\ isNew \in [Requests -> Nat]
    /\ faults \in Nat
    /\ crashes \in Nat

TypeOK == DiskType /\ WorkType /\ RecordType

\* The event log has no gap and no duplicate: line n is event n.
LogContiguous == \A i \in 1..Len(log) : log[i].sequence = i

\* Whatever a failed or crashed transition left behind, the next one or the next
\* boot never meets the event_sequence_conflict or event_sequence_gap of
\* appendEventIfMissing, either of which would wedge the task for ever.
RecoveryNeverRefused ==
    step = "append" /\ ~torn =>
        IF EventPresent(tx.event) THEN ~EventConflicts(tx.event) ELSE ~EventGap(tx.event)

\* The history and the record a reader of the files must end up with, the
\* write-ahead record included.
EffectiveLog ==
    IF Written # None /\ Written.event.sequence > Len(log)
    THEN Append(log, Written.event)
    ELSE log
EffectiveTask == IF Written # None THEN Written.task ELSE Snapshot

\* The record the first n events of the history amount to.
Replay(events) ==
    LET replay[n \in 0..Len(events)] ==
            IF n = 0 THEN None
            ELSE IF n = 1 THEN NewTask
            ELSE Mutate(events[n].change, replay[n - 1])
    IN  replay[Len(events)]

\* No transition is lost, doubled or half applied: at every instant, between any
\* two file operations and after any crash, the task is what its log says.
SnapshotIsReplayOfLog == EffectiveTask = Replay(EffectiveLog)

\* transitionTask returned: its event stays in the log, and the snapshot that a
\* restart will use is never older than it.
AckedSurvives ==
    \A e \in acked :
        /\ e.sequence \in 1..Len(log)
        /\ log[e.sequence] = e
        /\ EffectiveTask.eventSequence >= e.sequence

\* reserveTaskRequest answers isNew = true at most once for a request, also when
\* the call that reserved it failed or the host crashed: the caller may act on it.
ReservedOnce == \A r \in Requests : isNew[r] <= 1

\* getTask during a rename fallback: what it reads from the backup is never older
\* than what was acknowledged before it began.
ReadsAreFresh ==
    [][ReadBackup /\ bak["task"] # None =>
           \A e \in reader : bak["task"].eventSequence >= e.sequence]_vars

\* getTask and listTasks never miss a task that was acknowledged: "Unknown task"
\* means unknown, and the start request of a known task is found.
ReadersFindTheTask ==
    [][ReadBackup /\ reader # {} => bak["task"] # None]_vars

\* Every caller gets an answer, or the host went down under it.
EveryCallEnds == \A c \in Clients : call[c] # None ~> call[c] = None

\* The host comes back after any crash, failed operation or failed boot.
HostComesBack == phase = "down" ~> phase = "up"

\* It does as long as no line of the log is torn: no write-ahead record, backup or
\* half-finished replacement that a failure can leave behind makes boot fail again and again.
HostComesBackIntact == phase = "down" ~> phase = "up" \/ torn

-----------------------------------------------------------------------------
(* The files implement TaskLog: a transition is committed at the instant its *)
(* write-ahead record gets its name.                                         *)

CommittedInProgress(c) ==
    /\ holder = c
    /\ ctx \in {"commit", "repair"}
    /\ tx.event.sequence <= Len(EffectiveLog)

Abstract == INSTANCE TaskLog WITH
    Changes <- ClientChange,
    Creation <- [kind |-> "task.created", request |-> None],
    Parking <- [kind |-> "task.recovery_required", request |-> None],
    committed <- [i \in 1..Len(EffectiveLog) |-> EffectiveLog[i].change],
    pending <- [c \in Clients |->
                   IF call[c] = None THEN None
                   ELSE [change |-> call[c],
                         at |-> IF CommittedInProgress(c) THEN tx.event.sequence ELSE 0]],
    acked <- {e.sequence : e \in {a \in acked : a.change.kind # "task.recovery_required"}}

ImplementsTaskLog == Abstract!Spec
=============================================================================
