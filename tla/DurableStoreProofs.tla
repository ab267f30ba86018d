------------------------- MODULE DurableStoreProofs -------------------------
(***************************************************************************)
(* Proofs about DurableStore, for every number of callers, requests,       *)
(* failures, crashes and transitions.                                      *)
(***************************************************************************)
EXTENDS DurableStore, TLAPS

SpentSteps == {"clearSpent", "setAsideSpent", "dropOriginal"}
WriteSteps == {"swap", "clearBackup", "setAside", "place", "restore", "dropBackup"}
                  \cup SpentSteps

\* A write-ahead record continues the log, or its event is already the last one.
Continues(t) ==
    /\ t.task.eventSequence = t.event.sequence
    /\ \/ t.event.sequence = Len(log) + 1
       \/ t.event.sequence = Len(log) /\ Len(log) > 0 /\ log[Len(log)] = t.event

\* The files: the write-ahead record has no backup; while there is none the
\* snapshot is in place and agrees with the log.
FilesAgree ==
    /\ bak["transaction"] = None
    /\ file["transaction"] # None => Continues(file["transaction"])
    /\ file["transaction"] = None =>
          /\ bak["task"] = None
          /\ IF file["task"] = None
             THEN Len(log) = 0
             ELSE file["task"].eventSequence = Len(log)
    /\ ~dir => file["transaction"] = None /\ file["task"] = None

\* What each step of the transition in progress relies on.
StepAgrees ==
    /\ phase = "down" => step = "idle"
    /\ step = "idle" => ctx = "transition" /\ target = "task"
    /\ step \in {"mkdir", "load"} => ctx = "transition"
    /\ ctx = "transition" /\ step # "idle" => op # None
    /\ step = "mark" => ctx = "boot"
    /\ ctx = "commit" => step \in WriteSteps \cup {"append", "unlink", "return"}
    /\ ctx = "repair" => step \in WriteSteps \cup {"recover", "append", "unlink", "return"}
    /\ target = "transaction" => step \in WriteSteps /\ ctx = "commit"
    /\ step \in {"load", "mark"} => file["transaction"] = None
    /\ ctx \in {"commit", "repair"} => tx # None
    /\ step \in WriteSteps \cup {"append", "unlink", "return"} => tx # None
    /\ step \in WriteSteps /\ target = "transaction" =>
          /\ dir
          /\ tx.task.eventSequence = tx.event.sequence
          /\ tx.event.sequence = Len(log) + 1
          /\ file["transaction"] = IF step = "dropBackup" THEN tx ELSE None
    /\ (step \in WriteSteps /\ target = "task") \/ step \in {"append", "unlink"} =>
          file["transaction"] = tx
    /\ (step \in WriteSteps /\ target = "task") \/ step \in {"unlink", "return"} =>
          /\ tx.event.sequence = Len(log)
          /\ Len(log) > 0
          /\ log[Len(log)] = tx.event
    /\ step \in {"dropBackup", "unlink"} \cup SpentSteps /\ target = "task" =>
          file["task"] = tx.task
    /\ step = "unlink" => bak["task"] = None
    /\ step \in {"restore"} \cup SpentSteps => target = "task"
    /\ ctx = "repair" /\ step = "recover" => file["transaction"] = tx

AckedInLog == \A e \in acked : e.sequence \in 1..Len(log) /\ log[e.sequence] = e

\* The inductive invariant.
Consistent ==
    /\ TypeOK
    /\ LogContiguous
    /\ FilesAgree
    /\ StepAgrees
    /\ AckedInLog

-----------------------------------------------------------------------------
(* Types of what the operators build *)

\* The mutate callbacks yield a task record.
LEMMA MutateType ==
    ASSUME NEW change \in Change, NEW task \in Task
    PROVE  Mutate(change, task) \in Task
<1>1. StatusAfter(change, task) \in Statuses
  BY DEF StatusAfter, Statuses, Task
<1>2. LedgerAfter(change, task) \in [Requests -> LedgerStates]
  <2>1. task.ledger \in [Requests -> LedgerStates]
    BY DEF Task
  <2>2. \A r, s : s \in LedgerStates =>
            [task.ledger EXCEPT ![r] = s] \in [Requests -> LedgerStates]
    BY <2>1
  <2> QED
    BY <2>1, <2>2 DEF LedgerAfter, LedgerStates
<1>3. task.eventSequence + 1 \in Nat
  BY DEF Task
<1> QED
  BY <1>1, <1>2, <1>3 DEF Mutate, Task

\* createTask's record is a task record.
LEMMA NewTaskType == NewTask \in Task /\ NewTask.eventSequence = 1
  BY DEF NewTask, Task, Statuses, LedgerStates

\* A write-ahead record built from a record and a change is well formed.
LEMMA TransactionType ==
    ASSUME NEW change \in Change, NEW task \in Task
    PROVE  /\ MakeTransaction(change, task) \in Transaction
           /\ MakeTransaction(change, task).task = task
           /\ MakeTransaction(change, task).event.sequence = task.eventSequence
           /\ MakeTransaction(change, task).event.change = change
  BY DEF MakeTransaction, Transaction, Event, Task

-----------------------------------------------------------------------------
(* What does not depend on the step taken *)

\* The log is the same.
LEMMA LogKept ==
    ASSUME UNCHANGED log
    PROVE  LogContiguous => LogContiguous'
  BY DEF LogContiguous

\* So are the answers.
LEMMA AckedKept ==
    ASSUME UNCHANGED <<log, acked>>
    PROVE  AckedInLog => AckedInLog'
  BY DEF AckedInLog

\* So are the files.
LEMMA DiskKept ==
    ASSUME UNCHANGED disk
    PROVE  (DiskType => DiskType') /\ (FilesAgree => FilesAgree')
  BY DEF disk, DiskType, FilesAgree, Continues

\* A transition that ends, in whichever way, asks nothing more of the files.
LEMMA FinishKeeps ==
    ASSUME WorkType, NEW up \in {"up", "down"}, Finish(up)
    PROVE  WorkType' /\ StepAgrees'
<1>1. call' \in [Clients -> ClientChange \cup {None}]
  BY DEF WorkType, Finish
<1>2. phase' \in {"down", "boot", "up"}
  BY DEF WorkType, Finish
<1>3. WorkType'
  BY <1>1, <1>2 DEF WorkType, Finish, Release, Files
<1>4. StepAgrees'
  BY NoneAssumption DEF StepAgrees, Finish, Release, WriteSteps, SpentSteps
<1> QED
  BY <1>3, <1>4

\* A throw either ends the transition or goes to the repair of a commit whose
\* write-ahead record is in place.
LEMMA ThrowKeeps ==
    ASSUME WorkType, StepAgrees, Throw,
           ctx = "commit" /\ target = "task" => file'["transaction"] = tx /\ tx # None
    PROVE  WorkType' /\ StepAgrees'
<1>1. CASE ctx = "commit" /\ target = "task"
  <2>1. WorkType'
    BY <1>1 DEF WorkType, Throw
  <2>2. StepAgrees'
    BY <1>1 DEF StepAgrees, Throw, WriteSteps, SpentSteps
  <2> QED
    BY <2>1, <2>2
<1>2. CASE ~(ctx = "commit" /\ target = "task")
  BY <1>2, FinishKeeps DEF Throw
<1> QED
  BY <1>1, <1>2

\* After its write-ahead record is in place, a commit that throws finds it there.
LEMMA CommitHasRecord ==
    ASSUME Consistent, ctx = "commit", target = "task", step # "return"
    PROVE  file["transaction"] = tx /\ tx # None
  BY DEF Consistent, StepAgrees, TypeOK, WorkType, WriteSteps, SpentSteps

-----------------------------------------------------------------------------
(* The invariant is inductive *)

\* The initial state: nothing on disk and no host.
LEMMA InitConsistent == Init => Consistent
<1> SUFFICES ASSUME Init PROVE Consistent
  OBVIOUS
<1>1. DiskType
  <2>1. log \in Seq(Event)
    BY DEF Init
  <2> QED
    BY <2>1 DEF Init, DiskType, Files
<1>2. WorkType
  BY DEF Init, WorkType, Files
<1>3. RecordType
  BY DEF Init, RecordType
<1>4. LogContiguous /\ FilesAgree /\ AckedInLog
  BY DEF Init, LogContiguous, FilesAgree, AckedInLog, Files
<1>5. StepAgrees
  BY DEF Init, StepAgrees, WriteSteps, SpentSteps
<1> QED
  BY <1>1, <1>2, <1>3, <1>4, <1>5 DEF Consistent, TypeOK

\* createTask on an existing directory.
LEMMA CreateExistsKeeps ==
    ASSUME Consistent, CreateExists
    PROVE  Consistent'
<1> USE NoneAssumption DEF Consistent, TypeOK
<1>1. UNCHANGED <<disk, reader, history, bounds>> /\ Finish("down")
  BY DEF CreateExists
<1>2. WorkType' /\ StepAgrees'
  BY <1>1, FinishKeeps
<1>3. DiskType' /\ FilesAgree' /\ LogContiguous' /\ AckedInLog' /\ RecordType'
  BY <1>1, DiskKept, LogKept, AckedKept DEF disk, history, bounds, RecordType
<1> QED
  BY <1>2, <1>3

\* transitionTask on a missing task, or with a throwing mutate.
LEMMA LoadThrowsKeeps ==
    ASSUME Consistent, LoadThrows
    PROVE  Consistent'
<1> USE NoneAssumption DEF Consistent, TypeOK
<1>1. UNCHANGED <<disk, reader, history, bounds>> /\ Finish("down")
  BY DEF LoadThrows
<1>2. WorkType' /\ StepAgrees'
  BY <1>1, FinishKeeps
<1>3. DiskType' /\ FilesAgree' /\ LogContiguous' /\ AckedInLog' /\ RecordType'
  BY <1>1, DiskKept, LogKept, AckedKept DEF disk, history, bounds, RecordType
<1> QED
  BY <1>2, <1>3

\* initialize with no unfinished task.
LEMMA NothingToMarkKeeps ==
    ASSUME Consistent, NothingToMark
    PROVE  Consistent'
<1> USE NoneAssumption DEF Consistent, TypeOK
<1>1. UNCHANGED <<disk, reader, history, bounds>> /\ Finish("up")
  BY DEF NothingToMark
<1>2. WorkType' /\ StepAgrees'
  BY <1>1, FinishKeeps
<1>3. DiskType' /\ FilesAgree' /\ LogContiguous' /\ AckedInLog' /\ RecordType'
  BY <1>1, DiskKept, LogKept, AckedKept DEF disk, history, bounds, RecordType
<1> QED
  BY <1>2, <1>3

\* A caller asks for a transition.
LEMMA CallKeeps ==
    ASSUME Consistent, NEW c \in Clients, NEW change \in ClientChange, Call(c, change)
    PROVE  Consistent'
<1> USE NoneAssumption DEF Consistent, TypeOK
<1>1. UNCHANGED disk /\ UNCHANGED history
  BY DEF Call
<1>2. WorkType'
  BY DEF Call, WorkType, Files, work
<1>3. StepAgrees'
  BY DEF Call, StepAgrees, WriteSteps, SpentSteps, FilesAgree, disk, WorkType, DiskType, Files,
     Readable, work
<1>4. DiskType' /\ FilesAgree' /\ LogContiguous' /\ AckedInLog'
  BY <1>1, DiskKept, LogKept, AckedKept DEF disk, history
<1>5. RecordType'
  BY DEF Call, RecordType, history, bounds
<1> QED
  BY <1>2, <1>3, <1>4, <1>5

\* withLock opens for a caller.
LEMMA AcquireKeeps ==
    ASSUME Consistent, NEW c \in Clients, Acquire(c)
    PROVE  Consistent'
<1> USE NoneAssumption DEF Consistent, TypeOK
<1>1. UNCHANGED disk /\ UNCHANGED history
  BY DEF Acquire
<1>2. WorkType'
  BY DEF Acquire, WorkType, Files, ClientChange
<1>3. StepAgrees'
  BY DEF Acquire, StepAgrees, WriteSteps, SpentSteps, FilesAgree, disk, WorkType, DiskType,
     Files, Readable, ClientChange
<1>4. DiskType' /\ FilesAgree' /\ LogContiguous' /\ AckedInLog'
  BY <1>1, DiskKept, LogKept, AckedKept DEF disk, history
<1>5. RecordType'
  BY DEF Acquire, RecordType, history, bounds
<1> QED
  BY <1>2, <1>3, <1>4, <1>5

\* The commit begins with a record numbered one past the log.
LEMMA LoadKeeps ==
    ASSUME Consistent, Load
    PROVE  Consistent'
<1> USE NoneAssumption DEF Consistent, TypeOK
<1>1. UNCHANGED disk /\ UNCHANGED history
  BY DEF Load
<1>2. /\ file["transaction"] = None
      /\ op \in Change
      /\ Readable("task") = file["task"]
      /\ file["task"] \in Task
      /\ file["task"].eventSequence = Len(log)
      /\ dir
  BY DEF Load, Accepted, StepAgrees, FilesAgree, Readable, DiskType, WorkType, Files, Task
<1>3. /\ tx' \in Transaction
      /\ tx'.task.eventSequence = tx'.event.sequence
      /\ tx'.event.sequence = Len(log) + 1
  <2>1. Mutate(op, file["task"]) \in Task
    BY <1>2, MutateType
  <2>2. Mutate(op, file["task"]).eventSequence = Len(log) + 1
    BY <1>2 DEF Mutate
  <2> QED
    BY <1>2, <2>1, <2>2, TransactionType DEF Load
<1>4. WorkType'
  BY <1>3 DEF Load, WorkType, Files
<1>5. StepAgrees'
  BY <1>1, <1>2, <1>3 DEF Load, StepAgrees, WriteSteps, SpentSteps, disk
<1>6. DiskType' /\ FilesAgree' /\ LogContiguous' /\ AckedInLog'
  BY <1>1, DiskKept, LogKept, AckedKept DEF disk, history
<1>7. RecordType'
  BY DEF Load, RecordType, history, bounds
<1> QED
  BY <1>4, <1>5, <1>6, <1>7

\* The rename is refused and the fallback begins.
LEMMA SwapRefusedKeeps ==
    ASSUME Consistent, SwapRefused
    PROVE  Consistent'
<1> USE NoneAssumption DEF Consistent, TypeOK
<1>1. UNCHANGED disk /\ UNCHANGED history
  BY DEF SwapRefused
<1>2. WorkType'
  BY DEF SwapRefused, WorkType, Files
<1>3. StepAgrees'
  BY DEF SwapRefused, StepAgrees, WriteSteps, SpentSteps, FilesAgree, disk, WorkType, DiskType,
     Files, Readable
<1>4. DiskType' /\ FilesAgree' /\ LogContiguous' /\ AckedInLog'
  BY <1>1, DiskKept, LogKept, AckedKept DEF disk, history
<1>5. RecordType'
  BY DEF SwapRefused, RecordType, history, bounds
<1> QED
  BY <1>2, <1>3, <1>4, <1>5

\* The old backup cannot be removed.
LEMMA DropRefusedKeeps ==
    ASSUME Consistent, DropRefused
    PROVE  Consistent'
<1> USE NoneAssumption DEF Consistent, TypeOK
<1>1. UNCHANGED disk /\ UNCHANGED history
  BY DEF DropRefused
<1>2. WorkType'
  BY DEF DropRefused, WorkType, Files
<1>3. StepAgrees'
  BY DEF DropRefused, StepAgrees, WriteSteps, SpentSteps, FilesAgree, disk, WorkType, DiskType,
     Files, Readable
<1>4. DiskType' /\ FilesAgree' /\ LogContiguous' /\ AckedInLog'
  BY <1>1, DiskKept, LogKept, AckedKept DEF disk, history
<1>5. RecordType'
  BY DEF DropRefused, RecordType, history, bounds
<1> QED
  BY <1>2, <1>3, <1>4, <1>5

\* There is no transaction to roll forward.
LEMMA NothingToRecoverKeeps ==
    ASSUME Consistent, NothingToRecover
    PROVE  Consistent'
<1> USE NoneAssumption DEF Consistent, TypeOK
<1>1. UNCHANGED disk /\ UNCHANGED history
  BY DEF NothingToRecover
<1>2. file["transaction"] = None /\ step = "recover"
  BY DEF NothingToRecover, Readable
<1>3. ctx \in {"boot", "transition"}
  BY <1>2 DEF StepAgrees, WorkType, WriteSteps, SpentSteps
<1>4. step' \in {"load", "mark"} /\ (step' = "load" <=> ctx = "transition")
  BY <1>3 DEF NothingToRecover, RecoverReturns
<1>5. WorkType'
  BY <1>4 DEF NothingToRecover, WorkType, Files
<1>6. StepAgrees'
  BY <1>2, <1>3, <1>4 DEF NothingToRecover, StepAgrees, WriteSteps, SpentSteps, disk
<1>7. DiskType' /\ FilesAgree' /\ LogContiguous' /\ AckedInLog'
  BY <1>1, DiskKept, LogKept, AckedKept DEF disk, history
<1>8. RecordType'
  BY DEF NothingToRecover, RecordType, history, bounds
<1> QED
  BY <1>5, <1>6, <1>7, <1>8

\* A transaction is found and rolled forward.
LEMMA RecoverTransactionKeeps ==
    ASSUME Consistent, RecoverTransaction
    PROVE  Consistent'
<1> USE NoneAssumption DEF Consistent, TypeOK
<1>1. UNCHANGED disk /\ UNCHANGED history
  BY DEF RecoverTransaction
<1>2. WorkType'
  BY DEF RecoverTransaction, WorkType, Files, Readable, DiskType, FilesAgree, Continues
<1>3. StepAgrees'
  BY DEF RecoverTransaction, StepAgrees, WriteSteps, SpentSteps, FilesAgree, disk, WorkType,
     DiskType, Files, Readable, Continues
<1>4. DiskType' /\ FilesAgree' /\ LogContiguous' /\ AckedInLog'
  BY <1>1, DiskKept, LogKept, AckedKept DEF disk, history
<1>5. RecordType'
  BY DEF RecoverTransaction, RecordType, history, bounds
<1> QED
  BY <1>2, <1>3, <1>4, <1>5

\* initialize starts to park an active task.
LEMMA MarkUncertainKeeps ==
    ASSUME Consistent, MarkUncertain
    PROVE  Consistent'
<1> USE NoneAssumption DEF Consistent, TypeOK
<1>1. UNCHANGED disk /\ UNCHANGED history
  BY DEF MarkUncertain
<1>2. WorkType'
  BY DEF MarkUncertain, WorkType, Files, Change, Kinds, RequestKinds
<1>3. StepAgrees'
  BY DEF MarkUncertain, StepAgrees, WriteSteps, SpentSteps, FilesAgree, disk, WorkType,
     DiskType, Files, Readable, Change, Kinds, RequestKinds
<1>4. DiskType' /\ FilesAgree' /\ LogContiguous' /\ AckedInLog'
  BY <1>1, DiskKept, LogKept, AckedKept DEF disk, history
<1>5. RecordType'
  BY DEF MarkUncertain, RecordType, history, bounds
<1> QED
  BY <1>2, <1>3, <1>4, <1>5

\* A new process starts.
LEMMA RestartKeeps ==
    ASSUME Consistent, Restart
    PROVE  Consistent'
<1> USE NoneAssumption DEF Consistent, TypeOK
<1>1. UNCHANGED disk /\ UNCHANGED history
  BY DEF Restart
<1>2. WorkType'
  BY DEF Restart, WorkType, Files
<1>3. StepAgrees'
  BY DEF Restart, StepAgrees, WriteSteps, SpentSteps, FilesAgree, disk, WorkType, DiskType,
     Files, Readable
<1>4. DiskType' /\ FilesAgree' /\ LogContiguous' /\ AckedInLog'
  BY <1>1, DiskKept, LogKept, AckedKept DEF disk, history
<1>5. RecordType'
  BY DEF Restart, RecordType, history, bounds
<1> QED
  BY <1>2, <1>3, <1>4, <1>5

\* createTask writes event 1.
LEMMA CreateDirectoryKeeps ==
    ASSUME Consistent, CreateDirectory
    PROVE  Consistent'
<1> USE NoneAssumption DEF Consistent, TypeOK
<1>1. /\ step = "mkdir" /\ ~dir /\ dir' = TRUE /\ op \in Change
      /\ file["transaction"] = None /\ file["task"] = None /\ Len(log) = 0
      /\ UNCHANGED <<file, bak, log, torn, acked>>
  BY DEF CreateDirectory, StepAgrees, FilesAgree, WorkType, history
<1>2. /\ tx' \in Transaction
      /\ tx'.task.eventSequence = tx'.event.sequence
      /\ tx'.event.sequence = Len(log) + 1
  BY <1>1, NewTaskType, TransactionType DEF CreateDirectory
<1>3. DiskType'
  BY <1>1 DEF DiskType
<1>4. WorkType'
  BY <1>2 DEF CreateDirectory, WorkType, Files
<1>5. FilesAgree'
  BY <1>1 DEF FilesAgree
<1>6. StepAgrees'
  BY <1>1, <1>2 DEF CreateDirectory, StepAgrees, WriteSteps, SpentSteps
<1>7. LogContiguous' /\ AckedInLog' /\ RecordType'
  BY <1>1, LogKept, AckedKept DEF CreateDirectory, RecordType, history, bounds
<1> QED
  BY <1>3, <1>4, <1>5, <1>6, <1>7

\* The rename succeeds.
LEMMA SwapKeeps ==
    ASSUME Consistent, Swap
    PROVE  Consistent'
<1> USE NoneAssumption DEF Consistent, TypeOK
<1>1. UNCHANGED <<log, acked>>
  BY DEF Swap, history
<1>2. DiskType'
  BY DEF Swap, DiskType, StepAgrees, Content, WorkType, WriteSteps, SpentSteps, Files, Transaction
<1>3. WorkType'
  BY DEF Swap, WorkType, Files, WriteReturns, RecoverReturns
<1>4. FilesAgree'
  BY DEF Swap, FilesAgree, StepAgrees, Continues, Content, WriteSteps, SpentSteps, Files,
     DiskType, WorkType, WriteReturns
<1>5. StepAgrees'
  BY DEF Swap, FilesAgree, StepAgrees, Continues, Content, WriteSteps, SpentSteps, Files,
     DiskType, WorkType, WriteReturns, RecoverReturns
<1>6. LogContiguous' /\ AckedInLog' /\ RecordType'
  BY <1>1, LogKept, AckedKept DEF Swap, RecordType, history, bounds
<1> QED
  BY <1>2, <1>3, <1>4, <1>5, <1>6

\* The fallback removes an old backup.
LEMMA ClearBackupKeeps ==
    ASSUME Consistent, ClearBackup
    PROVE  Consistent'
<1> USE NoneAssumption DEF Consistent, TypeOK
<1>1. UNCHANGED <<log, acked>>
  BY DEF ClearBackup, history
<1>2. DiskType'
  BY DEF ClearBackup, DiskType, StepAgrees, Content, WorkType, WriteSteps, SpentSteps, Files,
     Transaction
<1>3. WorkType'
  BY DEF ClearBackup, WorkType, Files, WriteReturns, RecoverReturns
<1>4. FilesAgree'
  BY DEF ClearBackup, FilesAgree, StepAgrees, Continues, Content, WriteSteps, SpentSteps,
     Files, DiskType, WorkType, WriteReturns
<1>5. StepAgrees'
  BY DEF ClearBackup, FilesAgree, StepAgrees, Continues, Content, WriteSteps, SpentSteps,
     Files, DiskType, WorkType, WriteReturns, RecoverReturns
<1>6. LogContiguous' /\ AckedInLog' /\ RecordType'
  BY <1>1, LogKept, AckedKept DEF ClearBackup, RecordType, history, bounds
<1> QED
  BY <1>2, <1>3, <1>4, <1>5, <1>6

\* The fallback renames the file to its backup.
LEMMA SetAsideKeeps ==
    ASSUME Consistent, SetAside
    PROVE  Consistent'
<1> USE NoneAssumption DEF Consistent, TypeOK
<1>1. UNCHANGED <<log, acked>>
  BY DEF SetAside, history
<1>2. DiskType'
  BY DEF SetAside, DiskType, StepAgrees, Content, WorkType, WriteSteps, SpentSteps, Files,
     Transaction
<1>3. WorkType'
  BY DEF SetAside, WorkType, Files, WriteReturns, RecoverReturns
<1>4. FilesAgree'
  BY DEF SetAside, FilesAgree, StepAgrees, Continues, Content, WriteSteps, SpentSteps, Files,
     DiskType, WorkType, WriteReturns
<1>5. StepAgrees'
  BY DEF SetAside, FilesAgree, StepAgrees, Continues, Content, WriteSteps, SpentSteps, Files,
     DiskType, WorkType, WriteReturns, RecoverReturns
<1>6. LogContiguous' /\ AckedInLog' /\ RecordType'
  BY <1>1, LogKept, AckedKept DEF SetAside, RecordType, history, bounds
<1> QED
  BY <1>2, <1>3, <1>4, <1>5, <1>6

\* The fallback puts the new file in place.
LEMMA PlaceKeeps ==
    ASSUME Consistent, Place
    PROVE  Consistent'
<1> USE NoneAssumption DEF Consistent, TypeOK
<1>1. UNCHANGED <<log, acked>>
  BY DEF Place, history
<1>2. DiskType'
  BY DEF Place, DiskType, StepAgrees, Content, WorkType, WriteSteps, SpentSteps, Files,
     Transaction
<1>3. WorkType'
  BY DEF Place, WorkType, Files, WriteReturns, RecoverReturns
<1>4. FilesAgree'
  BY DEF Place, FilesAgree, StepAgrees, Continues, Content, WriteSteps, SpentSteps, Files,
     DiskType, WorkType, WriteReturns
<1>5. StepAgrees'
  BY DEF Place, FilesAgree, StepAgrees, Continues, Content, WriteSteps, SpentSteps, Files,
     DiskType, WorkType, WriteReturns, RecoverReturns
<1>6. LogContiguous' /\ AckedInLog' /\ RecordType'
  BY <1>1, LogKept, AckedKept DEF Place, RecordType, history, bounds
<1> QED
  BY <1>2, <1>3, <1>4, <1>5, <1>6

\* The backup is removed after a write.
LEMMA DropBackupKeeps ==
    ASSUME Consistent, DropBackup
    PROVE  Consistent'
<1> USE NoneAssumption DEF Consistent, TypeOK
<1>1. UNCHANGED <<log, acked>>
  BY DEF DropBackup, history
<1>2. DiskType'
  BY DEF DropBackup, DiskType, StepAgrees, Content, WorkType, WriteSteps, SpentSteps, Files,
     Transaction
<1>3. WorkType'
  BY DEF DropBackup, WorkType, Files, WriteReturns, RecoverReturns
<1>4. FilesAgree'
  BY DEF DropBackup, FilesAgree, StepAgrees, Continues, Content, WriteSteps, SpentSteps, Files,
     DiskType, WorkType, WriteReturns
<1>5. StepAgrees'
  BY DEF DropBackup, FilesAgree, StepAgrees, Continues, Content, WriteSteps, SpentSteps, Files,
     DiskType, WorkType, WriteReturns, RecoverReturns
<1>6. LogContiguous' /\ AckedInLog' /\ RecordType'
  BY <1>1, LogKept, AckedKept DEF DropBackup, RecordType, history, bounds
<1> QED
  BY <1>2, <1>3, <1>4, <1>5, <1>6

\* The write-ahead record is removed after the snapshot.
LEMMA UnlinkTransactionKeeps ==
    ASSUME Consistent, UnlinkTransaction
    PROVE  Consistent'
<1> USE NoneAssumption DEF Consistent, TypeOK
<1>1. /\ UNCHANGED <<log, acked, dir, bak, torn, ctx, op, tx, target, phase>>
      /\ file' = [file EXCEPT !["transaction"] = None]
      /\ step = "unlink"
  BY DEF UnlinkTransaction, history
<1>2. /\ file["transaction"] = tx /\ tx # None /\ tx \in Transaction
      /\ file["task"] = tx.task /\ bak["task"] = None /\ target = "task"
      /\ tx.event.sequence = Len(log) /\ Len(log) > 0 /\ log[Len(log)] = tx.event
      /\ tx.task.eventSequence = Len(log)
      /\ tx.task \in Task /\ tx.task # None /\ dir
  BY <1>1 DEF StepAgrees, FilesAgree, WorkType, WriteSteps, SpentSteps, Continues, Transaction,
     Files
<1>3. /\ file'["transaction"] = None
      /\ file'["task"] = tx.task
      /\ file' \in [Files -> Task \cup Transaction \cup {None}]
  BY <1>1, <1>2 DEF DiskType, Files
<1>4. DiskType'
  BY <1>1, <1>2, <1>3 DEF DiskType
<1>5. FilesAgree'
  BY <1>1, <1>2, <1>3 DEF FilesAgree
<1>6. /\ step' \in {"load", "mark", "return"}
      /\ step' = "load" <=> ctx = "transition"
      /\ step' = "mark" <=> ctx = "boot"
  BY <1>1 DEF UnlinkTransaction, RecoverReturns, WorkType
<1>7. WorkType'
  BY <1>6 DEF UnlinkTransaction, WorkType, Files
<1>8. StepAgrees'
  BY <1>1, <1>2, <1>3, <1>6 DEF StepAgrees, WriteSteps, SpentSteps
<1>9. LogContiguous' /\ AckedInLog' /\ RecordType'
  BY <1>1, LogKept, AckedKept DEF UnlinkTransaction, RecordType, history, bounds
<1> QED
  BY <1>4, <1>5, <1>7, <1>8, <1>9

\* The second rename fails.
LEMMA PlaceFailsKeeps ==
    ASSUME Consistent, PlaceFails
    PROVE  Consistent'
<1> USE NoneAssumption DEF Consistent, TypeOK
<1>1. UNCHANGED <<disk, reader, history, crashes>> /\ step = "place"
  BY DEF PlaceFails
<1>2. WorkType' /\ StepAgrees'
  <2>1. CASE bak[target] # None
    <3>1. target = "task"
      BY <2>1 DEF FilesAgree, WorkType, Files
    <3>2. step' = "restore" /\ UNCHANGED <<phase, holder, ctx, target, op, tx, fresh, call>>
      BY <2>1 DEF PlaceFails
    <3>3. WorkType'
      BY <3>2 DEF WorkType
    <3>4. StepAgrees'
      BY <1>1, <3>1, <3>2 DEF StepAgrees, WriteSteps, SpentSteps, disk
    <3> QED
      BY <3>3, <3>4
  <2>2. CASE ~(bak[target] # None)
    <3>1. Throw
      BY <2>2 DEF PlaceFails
    <3> QED
      BY <1>1, <3>1, ThrowKeeps, CommitHasRecord DEF disk
  <2> QED
    BY <2>1, <2>2
<1>3. RecordType'
  BY DEF PlaceFails, RecordType, history
<1> QED
  BY <1>1, <1>2, <1>3, DiskKept, LogKept, AckedKept DEF disk, history

\* The fallback puts the old file back and the error goes on.
LEMMA RestoreKeeps ==
    ASSUME Consistent, Restore
    PROVE  Consistent'
<1> USE NoneAssumption DEF Consistent, TypeOK
<1>1. /\ Throw
      /\ step = "restore"
      /\ UNCHANGED <<dir, log, torn, reader, history, crashes>>
      /\ \/ /\ file' = [file EXCEPT ![target] = bak[target]]
            /\ bak' = [bak EXCEPT ![target] = None]
         \/ UNCHANGED <<file, bak>>
  BY DEF Restore
<1>2. target = "task" /\ file["transaction"] = tx /\ tx # None
  BY <1>1 DEF StepAgrees, WriteSteps, SpentSteps, WorkType, Files
<1>3. /\ file' \in [Files -> Task \cup Transaction \cup {None}]
      /\ bak' \in [Files -> Task \cup Transaction \cup {None}]
      /\ file'["transaction"] = file["transaction"] /\ bak'["transaction"] = bak["transaction"]
      /\ file'["task"] \in Task \cup {None} /\ bak'["task"] \in Task \cup {None}
  BY <1>1, <1>2 DEF DiskType, Files
<1>4. DiskType'
  BY <1>1, <1>3 DEF DiskType
<1>5. FilesAgree'
  BY <1>1, <1>2, <1>3 DEF FilesAgree, Continues
<1>6. WorkType' /\ StepAgrees'
  BY <1>1, <1>2, <1>3, ThrowKeeps
<1>7. RecordType'
  BY DEF Restore, RecordType, history
<1> QED
  BY <1>1, <1>4, <1>5, <1>6, <1>7, LogKept, AckedKept DEF history

\* The event log refuses the event.
LEMMA AppendThrowsKeeps ==
    ASSUME Consistent, AppendThrows
    PROVE  Consistent'
<1> USE NoneAssumption DEF Consistent, TypeOK
<1>1. UNCHANGED <<disk, reader, history, crashes>> /\ Throw /\ step # "return"
  BY DEF AppendThrows, bounds
<1>2. WorkType' /\ StepAgrees'
  BY <1>1, ThrowKeeps, CommitHasRecord DEF disk
<1>3. RecordType'
  BY DEF AppendThrows, RecordType, history, bounds
<1> QED
  BY <1>1, <1>2, <1>3, DiskKept, LogKept, AckedKept DEF disk, history

\* Any other file operation fails.
LEMMA IOErrorKeeps ==
    ASSUME Consistent, IOError
    PROVE  Consistent'
<1> USE NoneAssumption DEF Consistent, TypeOK
<1>1. UNCHANGED <<disk, reader, history, crashes>> /\ Throw /\ step # "return"
  BY DEF IOError, bounds
<1>2. WorkType' /\ StepAgrees'
  BY <1>1, ThrowKeeps, CommitHasRecord DEF disk
<1>3. RecordType'
  BY DEF IOError, RecordType, history, bounds
<1> QED
  BY <1>1, <1>2, <1>3, DiskKept, LogKept, AckedKept DEF disk, history

\* The append stops half way.
LEMMA TornAppendKeeps ==
    ASSUME Consistent, TornAppend
    PROVE  Consistent'
<1> USE NoneAssumption DEF Consistent, TypeOK
<1>1. UNCHANGED <<dir, file, bak, log, reader, history, bounds>> /\ Throw /\ step = "append" /\ torn' = TRUE
  BY DEF TornAppend
<1>2. WorkType' /\ StepAgrees'
  BY <1>1, ThrowKeeps, CommitHasRecord
<1>3. DiskType' /\ FilesAgree'
  BY <1>1 DEF DiskType, FilesAgree, Continues
<1>4. RecordType'
  BY <1>1 DEF RecordType, history, bounds
<1> QED
  BY <1>1, <1>2, <1>3, <1>4, LogKept, AckedKept DEF history

\* In a contiguous log an event is present exactly when the log is long enough.
LEMMA PresentIsLength ==
    ASSUME LogContiguous, log \in Seq(Event), NEW e \in Event, e.sequence > 0
    PROVE  /\ EventPresent(e) <=> e.sequence <= Len(log)
           /\ e.sequence <= Len(log) => (EventConflicts(e) <=> log[e.sequence].change.kind # e.change.kind)
           /\ EventGap(e) <=> e.sequence # Len(log) + 1
<1>1. e.sequence \in Nat /\ Len(log) \in Nat
  BY DEF Event
<1>2. EventPresent(e) <=> e.sequence <= Len(log)
  BY <1>1 DEF EventPresent, LogContiguous
<1>3. e.sequence <= Len(log) => (EventConflicts(e) <=> log[e.sequence].change.kind # e.change.kind)
  BY <1>1 DEF EventConflicts, LogContiguous
<1>4. CASE log = <<>>
  <2>1. Len(log) = 0
    BY <1>4
  <2> QED
    BY <1>2, <1>3, <1>4, <2>1 DEF EventGap
<1>5. CASE log # <<>>
  <2>1. log[Len(log)].sequence = Len(log)
    BY <1>1, <1>5 DEF LogContiguous
  <2> QED
    BY <1>2, <1>3, <1>5, <2>1 DEF EventGap
<1> QED
  BY <1>4, <1>5

\* The event becomes the last one of the log, or already is.
LEMMA AppendEventIfMissingKeeps ==
    ASSUME Consistent, AppendEventIfMissing
    PROVE  Consistent'
<1> USE NoneAssumption DEF Consistent, TypeOK
<1>1. /\ step = "append" /\ step' = "swap"
      /\ UNCHANGED <<dir, file, bak, torn, phase, holder, ctx, target, op, tx, fresh, call, reader, acked, isNew, bounds>>
  BY DEF AppendEventIfMissing, history
<1>2. /\ target = "task" /\ tx # None /\ tx \in Transaction
      /\ file["transaction"] = tx /\ Continues(tx) /\ dir
  BY <1>1 DEF StepAgrees, FilesAgree, WorkType, WriteSteps, SpentSteps, Files
<1>3. tx.event \in Event /\ tx.event.sequence > 0 /\ Len(log) \in Nat
  BY <1>2 DEF Continues, Transaction, DiskType
<1>4. /\ log' \in Seq(Event)
      /\ LogContiguous'
      /\ Len(log') > 0 /\ tx.event.sequence = Len(log') /\ log'[Len(log')] = tx.event
      /\ \A i \in 1..Len(log) : i \in 1..Len(log') /\ log'[i] = log[i]
  <2>1. CASE UNCHANGED log /\ EventPresent(tx.event)
    <3>1. tx.event.sequence <= Len(log)
      BY <1>3, <2>1, PresentIsLength DEF DiskType
    <3> QED
      BY <1>2, <1>3, <2>1, <3>1, LogKept DEF Continues, DiskType
  <2>2. CASE log' = Append(log, tx.event) /\ ~EventGap(tx.event)
    <3>1. tx.event.sequence = Len(log) + 1
      BY <1>3, <2>2, PresentIsLength DEF DiskType
    <3>2. /\ log' \in Seq(Event) /\ Len(log') = Len(log) + 1
          /\ \A i \in 1..Len(log) : log'[i] = log[i]
          /\ log'[Len(log) + 1] = tx.event
      BY <1>3, <2>2 DEF DiskType
    <3>3. LogContiguous'
      BY <1>3, <3>1, <3>2 DEF LogContiguous
    <3> QED
      BY <1>3, <3>1, <3>2, <3>3
  <2> QED
    BY <2>1, <2>2 DEF AppendEventIfMissing
<1>5. DiskType'
  BY <1>1, <1>4 DEF DiskType
<1>6. WorkType'
  BY <1>1 DEF WorkType
<1>7. RecordType'
  BY <1>1 DEF RecordType, bounds
<1>8. FilesAgree'
  BY <1>1, <1>2, <1>4 DEF FilesAgree, Continues
<1>9. StepAgrees'
  BY <1>1, <1>2, <1>4 DEF StepAgrees, WriteSteps, SpentSteps
<1>10. AckedInLog'
  BY <1>1, <1>3, <1>4 DEF AckedInLog
<1> QED
  BY <1>4, <1>5, <1>6, <1>7, <1>8, <1>9, <1>10

\* The caller is told its event is durable.
LEMMA ReturnKeeps ==
    ASSUME Consistent, Return
    PROVE  Consistent'
<1> USE NoneAssumption DEF Consistent, TypeOK
<1>1. /\ step = "return" /\ Finish("up") /\ UNCHANGED <<disk, reader, bounds>>
      /\ acked' = acked \cup {tx.event}
  BY DEF Return
<1>2. /\ tx \in Transaction /\ tx.event \in Event
      /\ tx.event.sequence = Len(log) /\ Len(log) > 0 /\ log[Len(log)] = tx.event
      /\ Len(log) \in Nat
  BY <1>1 DEF StepAgrees, WriteSteps, SpentSteps, WorkType, Transaction, DiskType
<1>3. WorkType' /\ StepAgrees'
  BY <1>1, FinishKeeps
<1>4. AckedInLog'
  BY <1>1, <1>2 DEF AckedInLog, disk
<1>5. isNew' \in [Requests -> Nat]
  <2>1. \A r \in Requests : [isNew EXCEPT ![r] = @ + 1] \in [Requests -> Nat]
    BY DEF RecordType
  <2>2. \A r : r \notin Requests => [isNew EXCEPT ![r] = @ + 1] = isNew
    BY DEF RecordType
  <2> QED
    BY <2>1, <2>2 DEF Return, RecordType
<1>6. RecordType'
  BY <1>1, <1>2, <1>5 DEF RecordType, bounds
<1> QED
  BY <1>1, <1>3, <1>4, <1>6, DiskKept, LogKept DEF disk

\* A crash forgets the work in progress.
LEMMA CrashKeeps ==
    ASSUME Consistent, Crash
    PROVE  Consistent'
<1> USE NoneAssumption DEF Consistent, TypeOK
<1>1. UNCHANGED <<disk, history>>
  BY DEF Crash
<1>2. WorkType' /\ StepAgrees'
  BY <1>1 DEF Crash, WorkType, StepAgrees, WriteSteps, SpentSteps, Files, disk, Release
<1>3. RecordType'
  BY DEF Crash, RecordType, history, bounds
<1> QED
  BY <1>1, <1>2, <1>3, DiskKept, LogKept, AckedKept DEF disk, history

\* getTask finds no task.json.
LEMMA ReadPrimaryKeeps ==
    ASSUME Consistent, ReadPrimary
    PROVE  Consistent'
<1> USE NoneAssumption DEF Consistent, TypeOK
<1>1. UNCHANGED <<disk, history>>
  BY DEF ReadPrimary
<1>2. WorkType' /\ StepAgrees'
  BY <1>1 DEF ReadPrimary, WorkType, StepAgrees, WriteSteps, SpentSteps, Files, disk, work
<1>3. RecordType'
  BY DEF ReadPrimary, RecordType, history, bounds
<1> QED
  BY <1>1, <1>2, <1>3, DiskKept, LogKept, AckedKept DEF disk, history

\* getTask looks at the backup.
LEMMA ReadBackupKeeps ==
    ASSUME Consistent, ReadBackup
    PROVE  Consistent'
<1> USE NoneAssumption DEF Consistent, TypeOK
<1>1. UNCHANGED <<disk, history>>
  BY DEF ReadBackup
<1>2. WorkType' /\ StepAgrees'
  BY <1>1 DEF ReadBackup, WorkType, StepAgrees, WriteSteps, SpentSteps, Files, disk, work
<1>3. RecordType'
  BY DEF ReadBackup, RecordType, history, bounds
<1> QED
  BY <1>1, <1>2, <1>3, DiskKept, LogKept, AckedKept DEF disk, history

-----------------------------------------------------------------------------
(* Theorems *)

\* No step of the host, of a caller, of a reader or of a crash breaks the

\* agreement between the files, the log and the transition in progress.
LEMMA StepConsistent == Consistent /\ [Next]_vars => Consistent'
<1> SUFFICES ASSUME Consistent, [Next]_vars PROVE Consistent'
  OBVIOUS
<1>1. ASSUME NEW c \in Clients, NEW change \in ClientChange, Call(c, change)
      PROVE  Consistent'
  BY <1>1, CallKeeps
<1>2. ASSUME NEW c \in Clients, Acquire(c) PROVE Consistent'
  BY <1>2, AcquireKeeps
<1>3. CASE HostStep
  BY <1>3, CreateExistsKeeps, CreateDirectoryKeeps, LoadThrowsKeeps, LoadKeeps, SwapKeeps,
     SwapRefusedKeeps, ClearBackupKeeps, SetAsideKeeps, PlaceKeeps, PlaceFailsKeeps, RestoreKeeps,
     DropBackupKeeps, DropRefusedKeeps, NothingToRecoverKeeps, RecoverTransactionKeeps,
     AppendThrowsKeeps, AppendEventIfMissingKeeps, TornAppendKeeps, UnlinkTransactionKeeps,
     ReturnKeeps, IOErrorKeeps, NothingToMarkKeeps, MarkUncertainKeeps
     DEF HostStep
<1>4. CASE Crash
  BY <1>4, CrashKeeps
<1>5. CASE Restart
  BY <1>5, RestartKeeps
<1>6. CASE ReadPrimary
  BY <1>6, ReadPrimaryKeeps
<1>7. CASE ReadBackup
  BY <1>7, ReadBackupKeeps
<1>8. CASE UNCHANGED vars
  BY <1>8, LogKept, AckedKept, DiskKept
     DEF vars, disk, work, history, bounds, Consistent, TypeOK, WorkType, RecordType, StepAgrees
<1> QED
  BY <1>1, <1>2, <1>3, <1>4, <1>5, <1>6, <1>7, <1>8 DEF Next

\* The inductive invariant holds in every state of the store.
THEOREM Consistency == Spec => []Consistent
<1>1. Init => Consistent
  BY InitConsistent
<1>2. Consistent /\ [Next]_vars => Consistent'
  BY StepConsistent
<1> QED
  BY <1>1, <1>2, PTL DEF Spec

\* Every variable keeps its type: task.json never holds anything but a record,
\* transaction.json nothing but a write-ahead record.
THEOREM TypeCorrect == Spec => []TypeOK
<1>1. Consistent => TypeOK
  BY DEF Consistent
<1> QED
  BY <1>1, Consistency, PTL

\* The event log never has a gap or a duplicate.
THEOREM LogIsContiguous == Spec => []LogContiguous
<1>1. Consistent => LogContiguous
  BY DEF Consistent
<1> QED
  BY <1>1, Consistency, PTL

\* The event of a write-ahead record is the last one or the next one.
LEMMA AppendIsAccepted ==
    ASSUME Consistent
    PROVE  RecoveryNeverRefused
<1> SUFFICES ASSUME step = "append"
             PROVE  IF EventPresent(tx.event) THEN ~EventConflicts(tx.event)
                    ELSE ~EventGap(tx.event)
  BY DEF RecoveryNeverRefused
<1>1. /\ LogContiguous /\ log \in Seq(Event) /\ Len(log) \in Nat
      /\ tx \in Transaction /\ Continues(tx)
  BY NoneAssumption
     DEF Consistent, TypeOK, DiskType, WorkType, StepAgrees, FilesAgree, WriteSteps, SpentSteps
<1>2. tx.event \in Event /\ tx.event.sequence > 0
  BY <1>1 DEF Continues, Transaction
<1> QED
  BY <1>1, <1>2, PresentIsLength DEF Continues

\* appendEventIfMissing never meets event_sequence_conflict or event_sequence_gap,
\* so no task is wedged by what an earlier failure left behind.
THEOREM RecoveryIsNeverRefused == Spec => []RecoveryNeverRefused
<1>1. Consistent => RecoveryNeverRefused
  BY AppendIsAccepted
<1> QED
  BY <1>1, Consistency, PTL

\* What a caller was told is durable stays in the log, and the snapshot a restart
\* will use is never older.
THEOREM AckedTransitionsSurvive == Spec => []AckedSurvives
<1>1. Consistent => AckedSurvives
  <2> SUFFICES ASSUME Consistent, NEW e \in acked
               PROVE  /\ e.sequence \in 1..Len(log)
                      /\ log[e.sequence] = e
                      /\ EffectiveTask.eventSequence >= e.sequence
    BY DEF AckedSurvives
  <2>1. e.sequence \in 1..Len(log) /\ log[e.sequence] = e /\ Len(log) \in Nat
    BY DEF Consistent, AckedInLog, TypeOK, DiskType
  <2>2. EffectiveTask.eventSequence \in Nat /\ EffectiveTask.eventSequence >= Len(log)
    <3>1. Written = file["transaction"]
      BY DEF Written, Readable, Consistent, FilesAgree
    <3>2. CASE Written # None
      BY <3>1, <3>2, <2>1
         DEF EffectiveTask, Consistent, FilesAgree, Continues, TypeOK, DiskType, Transaction, Task
    <3>3. CASE Written = None
      <4>1. file["task"] # None /\ file["task"].eventSequence = Len(log)
        BY <2>1, <3>1, <3>3 DEF Consistent, FilesAgree
      <4> QED
        BY <2>1, <3>3, <4>1 DEF EffectiveTask, Snapshot, Readable
    <3> QED
      BY <3>2, <3>3
  <2> QED
    BY <2>1, <2>2
<1> QED
  BY <1>1, Consistency, PTL

-----------------------------------------------------------------------------
(* A transition ends: what EveryCallEnds has beside fairness *)

\* How far a step is from the end of the roll-forward or of the rename that it is in.
StageLeft ==
    CASE step = "recover" -> 10
      [] step = "append" -> 9
      [] step = "swap" -> 8
      [] step = "dropBackup" -> 7
      [] step \in {"clearBackup", "clearSpent"} -> 6
      [] step \in {"setAside", "setAsideSpent"} -> 5
      [] step = "place" -> 4
      [] step \in {"restore", "dropOriginal"} -> 3
      [] step = "unlink" -> 2
      [] OTHER -> 1

\* A boot parks the task in a transition, a transition commits, a commit that fails repairs.
ContextsLeft ==
    CASE ctx = "boot" -> 40
      [] ctx = "transition" -> 30
      [] ctx = "commit" /\ target = "transaction" -> 20
      [] ctx = "commit" /\ target = "task" -> 10
      [] ctx = "repair" -> 0

\* A bound on the file operations that the transition in progress still makes.
OperationsLeft == IF step = "idle" THEN 0 ELSE ContextsLeft + StageLeft

\* Whatever fails, the transition in progress comes nearer to its end with every file
\* operation, and nobody else's step takes it back: no rename fallback, repair or boot goes
\* round in a circle, holding the lock.
TransitionsEnd ==
    [][/\ HostStep => OperationsLeft' < OperationsLeft
       /\ step # "idle" => OperationsLeft' <= OperationsLeft]_vars

\* The bounds of one stage and of all.
LEMMA OperationsType ==
    ASSUME Consistent
    PROVE  /\ StageLeft \in 1..10
           /\ ContextsLeft \in {0, 10, 20, 30, 40}
           /\ OperationsLeft \in 0..50
<1>1. StageLeft \in 1..10
  BY DEF StageLeft
<1>2. ContextsLeft \in {0, 10, 20, 30, 40}
  BY DEF ContextsLeft, Consistent, TypeOK, WorkType, Files
<1> QED
  BY <1>1, <1>2 DEF OperationsLeft

\* A transition that ends, or goes over to its repair, comes nearer.
LEMMA ThrowEnds ==
    ASSUME Consistent, step # "idle",
           Finish("up") \/ Finish("down") \/ Throw
    PROVE  OperationsLeft' < OperationsLeft
<1>1. OperationsLeft > 0
  BY OperationsType DEF OperationsLeft
<1>2. CASE Finish("up") \/ Finish("down")
  BY <1>1, <1>2 DEF Finish, Release, OperationsLeft
<1>3. CASE Throw /\ ctx = "commit" /\ target = "task"
  <2>1. ctx' = "repair" /\ step' = "recover"
    BY <1>3 DEF Throw
  <2>2. OperationsLeft' = 10
    BY <2>1 DEF OperationsLeft, ContextsLeft, StageLeft
  <2>3. OperationsLeft = 10 + StageLeft
    BY <1>3 DEF OperationsLeft, ContextsLeft
  <2> QED
    BY <2>2, <2>3, OperationsType
<1> QED
  BY <1>2, <1>3 DEF Throw

\* A step that stays in its context goes to a later stage of it.
LEMMA StagesPass ==
    ASSUME Consistent, Consistent', step # "idle", ctx' = ctx,
           \/ target' = target /\ StageLeft' < StageLeft
           \/ target = "transaction" /\ target' = "task"
    PROVE  OperationsLeft' < OperationsLeft
<1>1. StageLeft \in 1..10 /\ StageLeft' \in 1..10 /\ ContextsLeft \in {0, 10, 20, 30, 40}
  BY OperationsType DEF StageLeft
<1>2. OperationsLeft = ContextsLeft + StageLeft
  BY DEF OperationsLeft
<1>3. OperationsLeft' = 0 \/ OperationsLeft' = ContextsLeft' + StageLeft'
  BY DEF OperationsLeft
<1>4. CASE target' = target /\ StageLeft' < StageLeft
  <2>1. ContextsLeft' = ContextsLeft
    BY <1>4 DEF ContextsLeft
  <2> QED
    BY <1>1, <1>2, <1>3, <1>4, <2>1
<1>5. CASE target = "transaction" /\ target' = "task"
  <2>1. ctx = "commit"
    BY <1>5 DEF Consistent, StepAgrees
  <2>2. ContextsLeft = 20 /\ ContextsLeft' = 10
    BY <1>5, <2>1 DEF ContextsLeft
  <2> QED
    BY <1>1, <1>2, <1>3, <2>2
<1> QED
  BY <1>4, <1>5

\* A step that begins the next context leaves more behind than it has before it.
LEMMA ContextsPass ==
    ASSUME Consistent, step # "idle", ContextsLeft' \in Nat, ContextsLeft' + 10 <= ContextsLeft,
           StageLeft' \in 1..10
    PROVE  OperationsLeft' < OperationsLeft
  BY OperationsType DEF OperationsLeft

\* Each of the ways in which the transition in progress moves.
LEMMA HostStepEnds ==
    ASSUME Consistent, Consistent', HostStep
    PROVE  OperationsLeft' < OperationsLeft
<1>1. CASE \/ CreateExists \/ LoadThrows \/ AppendThrows \/ TornAppend \/ IOError \/ Restore
           \/ Return \/ NothingToMark
           \/ PlaceFails /\ bak[target] = None
  BY <1>1, ThrowEnds
     DEF CreateExists, LoadThrows, AppendThrows, TornAppend, IOError, Restore, Return,
         NothingToMark, PlaceFails
<1>2. CASE CreateDirectory \/ Load \/ MarkUncertain
  <2>1. /\ step # "idle"
        /\ \/ ctx = "transition" /\ ctx' = "commit" /\ target' = "transaction"
           \/ ctx = "boot" /\ ctx' = "transition"
    BY <1>2 DEF CreateDirectory, Load, MarkUncertain, Consistent, StepAgrees
  <2>2. StageLeft' \in 1..10
    BY DEF StageLeft
  <2>3. ContextsLeft' \in Nat /\ ContextsLeft' + 10 <= ContextsLeft
    BY <2>1 DEF ContextsLeft
  <2> QED
    BY <2>1, <2>2, <2>3, ContextsPass
<1>3. CASE \/ Swap \/ SwapRefused \/ DropRefused \/ ClearBackup \/ SetAside
           \/ PlaceFails /\ bak[target] # None
           \/ RecoverTransaction
  <2>1. step # "idle" /\ ctx' = ctx /\ StageLeft' < StageLeft
    BY <1>3 DEF Swap, SwapRefused, DropRefused, ClearBackup, SetAside, PlaceFails,
                RecoverTransaction, StageLeft
  <2>2. target' = target
    BY <1>3 DEF Swap, SwapRefused, DropRefused, ClearBackup, SetAside, PlaceFails,
                RecoverTransaction, Consistent, StepAgrees, WriteSteps, SpentSteps, TypeOK,
                WorkType, Files
  <2> QED
    BY <2>1, <2>2, StagesPass
<1>4. CASE Place \/ DropBackup
  <2>1. CASE Place /\ bak[target] # None
    BY <2>1, StagesPass DEF Place, StageLeft
  <2>2. CASE (Place /\ bak[target] = None) \/ DropBackup
    <3>1. step \in {"place", "dropBackup", "dropOriginal"} /\ ctx' = ctx /\ WriteReturns
      BY <2>2 DEF Place, DropBackup
    <3>2. CASE target = "transaction"
      BY <3>1, <3>2, StagesPass DEF WriteReturns
    <3>3. CASE target = "task"
      BY <3>1, <3>3, StagesPass DEF WriteReturns, StageLeft
    <3> QED
      BY <3>2, <3>3 DEF Consistent, TypeOK, WorkType, Files
  <2> QED
    BY <1>4, <2>1, <2>2
<1>5. CASE NothingToRecover \/ UnlinkTransaction
  <2>1. step \in {"recover", "unlink"} /\ ctx' = ctx /\ target' = target /\ RecoverReturns
    BY <1>5 DEF NothingToRecover, UnlinkTransaction
  <2>2. StageLeft' < StageLeft
    BY <2>1 DEF RecoverReturns, StageLeft
  <2> QED
    BY <2>1, <2>2, StagesPass
<1>6. CASE AppendEventIfMissing
  <2>1. step = "append" /\ step' = "swap" /\ ctx' = ctx /\ target' = target
    BY <1>6 DEF AppendEventIfMissing
  <2>2. StageLeft' < StageLeft
    BY <2>1 DEF StageLeft
  <2> QED
    BY <2>1, <2>2, StagesPass
<1> QED
  BY <1>1, <1>2, <1>3, <1>4, <1>5, <1>6 DEF HostStep

\* A transition in progress waits while others call or read, and ends with the host.
LEMMA OthersWait ==
    ASSUME Consistent, step # "idle", [Next]_vars, ~HostStep
    PROVE  OperationsLeft' <= OperationsLeft
<1>1. CASE Crash
  BY <1>1, OperationsType DEF Crash, Release, OperationsLeft
<1>2. CASE ~Crash
  <2>1. UNCHANGED <<step, ctx, target>>
    BY <1>2 DEF Next, Call, Acquire, Restart, ReadPrimary, ReadBackup, vars, work, Consistent,
                StepAgrees
  <2>2. OperationsLeft' = OperationsLeft
    BY <2>1 DEF OperationsLeft, ContextsLeft, StageLeft
  <2> QED
    BY <2>2, OperationsType
<1> QED
  BY <1>1, <1>2

\* However its file operations fail, a transition, the boot's included, ends after at most
\* fifty of them: the lock is not held for ever (durable-store.ts, withLock).
THEOREM TransitionsComeToAnEnd == Spec => TransitionsEnd /\ [](OperationsLeft \in 0..50)
<1>1. Consistent => OperationsLeft \in 0..50
  BY OperationsType
<1>2. (Consistent => OperationsLeft \in 0..50)'
  BY <1>1, PTL
<1>3. Consistent /\ Consistent' /\ [Next]_vars =>
         [/\ HostStep => OperationsLeft' < OperationsLeft
          /\ step # "idle" => OperationsLeft' <= OperationsLeft]_vars
  <2> SUFFICES ASSUME Consistent, Consistent', [Next]_vars
               PROVE  /\ HostStep => OperationsLeft' < OperationsLeft
                      /\ step # "idle" => OperationsLeft' <= OperationsLeft
    OBVIOUS
  <2>1. OperationsLeft' \in 0..50 /\ OperationsLeft \in 0..50
    BY <1>1, <1>2
  <2> QED
    BY <2>1, HostStepEnds, OthersWait
<1> QED
  BY <1>1, <1>3, Consistency, PTL DEF Spec, TransitionsEnd
=============================================================================
