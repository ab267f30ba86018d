---------------------- MODULE DurableStoreReplayProofs ----------------------
(***************************************************************************)
(* Proofs about what the files of a task mean: at every instant the record *)
(* that a restart finds is the one that its event log amounts to.  They    *)
(* rest on Consistent, the invariant of DurableStoreProofs.                *)
(***************************************************************************)
EXTENDS DurableStoreProofs, WellFoundedInduction

-----------------------------------------------------------------------------
(* Replay is defined for every log *)

\* Every set of numbers has a least one: induction for what follows.
LEMMA Least ==
    ASSUME NEW T \in SUBSET Nat, T # {}
    PROVE  \E x \in T : \A y \in T : x <= y
<1>1. PICK x \in T : \A y \in T : ~(<<y, x>> \in OpToRel(<, Nat))
  BY NatLessThanWellFounded, WFMin
<1>2. \A y \in T : ~(y < x)
  BY <1>1 DEF OpToRel
<1> QED
  BY <1>2

\* The records before and after each of the first k events.
Unfolds(events, k, f) ==
    f = [n \in 0..k |-> IF n = 0 THEN None
                        ELSE IF n = 1 THEN NewTask
                        ELSE Mutate(events[n].change, f[n - 1])]

\* There is such a list of records.
LEMMA UnfoldsExists ==
    ASSUME NEW events, NEW k \in Nat
    PROVE  \E f : Unfolds(events, k, f)
<1> DEFINE T == {n \in Nat : ~\E f : Unfolds(events, n, f)}
<1>1. \E f : Unfolds(events, 0, f)
  <2>1. Unfolds(events, 0, [n \in 0..0 |-> None])
    BY DEF Unfolds
  <2> QED
    BY <2>1
<1>2. ASSUME NEW n \in Nat, NEW f, Unfolds(events, n, f)
      PROVE  \E g : Unfolds(events, n + 1, g)
  <2> DEFINE g == [i \in 0..(n + 1) |->
                     IF i <= n THEN f[i]
                     ELSE IF i = 1 THEN NewTask
                     ELSE Mutate(events[i].change, f[i - 1])]
  <2>1. \A i \in 0..n : f[i] = IF i = 0 THEN None
                               ELSE IF i = 1 THEN NewTask
                               ELSE Mutate(events[i].change, f[i - 1])
    BY <1>2 DEF Unfolds
  <2>2. \A i \in 0..n : g[i] = f[i]
    OBVIOUS
  <2>3. \A i \in 0..(n + 1) : g[i] = IF i = 0 THEN None
                                     ELSE IF i = 1 THEN NewTask
                                     ELSE Mutate(events[i].change, g[i - 1])
    <3> SUFFICES ASSUME NEW i \in 0..(n + 1)
                 PROVE  g[i] = IF i = 0 THEN None
                               ELSE IF i = 1 THEN NewTask
                               ELSE Mutate(events[i].change, g[i - 1])
      OBVIOUS
    <3>1. CASE i <= n
      <4>1. i # 0 => g[i - 1] = f[i - 1]
        BY <3>1, <2>2
      <4> QED
        BY <3>1, <4>1, <2>1, <2>2
    <3>2. CASE i = n + 1
      <4>1. g[i - 1] = f[i - 1]
        BY <3>2, <2>2
      <4>2. g[i] = IF i = 1 THEN NewTask ELSE Mutate(events[i].change, f[i - 1])
        BY <3>2
      <4> QED
        BY <3>2, <4>1, <4>2
    <3> QED
      BY <3>1, <3>2
  <2>4. g = [i \in 0..(n + 1) |-> g[i]]
    OBVIOUS
  <2> HIDE DEF g
  <2>5. Unfolds(events, n + 1, g)
    BY <2>3, <2>4 DEF Unfolds
  <2> QED
    BY <2>5
<1>3. T = {}
  <2> SUFFICES ASSUME T # {}
               PROVE  FALSE
    OBVIOUS
  <2>1. PICK x \in T : \A y \in T : x <= y
    BY Least
  <2>2. x \in Nat /\ x # 0
    BY <1>1
  <2>3. x - 1 \in Nat /\ x - 1 \notin T /\ (x - 1) + 1 = x
    BY <2>1, <2>2
  <2>4. PICK f : Unfolds(events, x - 1, f)
    BY <2>3
  <2>5. \E g : Unfolds(events, x, g)
    BY <1>2, <2>3, <2>4
  <2> QED
    BY <2>5
<1> QED
  BY <1>3

\* It has the same records as that of any longer log with the same first events.
LEMMA UnfoldsAgree ==
    ASSUME NEW s, NEW k \in Nat, NEW f, Unfolds(s, k, f),
           NEW t, NEW m \in Nat, NEW g, Unfolds(t, m, g),
           k <= m, \A n \in 1..k : s[n] = t[n]
    PROVE  \A n \in 0..k : f[n] = g[n]
<1> DEFINE T == {n \in 0..k : f[n] # g[n]}
<1>1. /\ \A n \in 0..k : f[n] = IF n = 0 THEN None
                                ELSE IF n = 1 THEN NewTask
                                ELSE Mutate(s[n].change, f[n - 1])
      /\ \A n \in 0..m : g[n] = IF n = 0 THEN None
                                ELSE IF n = 1 THEN NewTask
                                ELSE Mutate(t[n].change, g[n - 1])
  BY DEF Unfolds
<1>2. SUFFICES ASSUME T # {}
               PROVE  FALSE
  OBVIOUS
<1>3. T \in SUBSET Nat
  OBVIOUS
<1>4. PICK x \in T : \A y \in T : x <= y
  <2> HIDE DEF T
  <2> QED
    BY <1>2, <1>3, Least
<1>5. x \in 0..k /\ x \in 0..m /\ f[x] # g[x]
  OBVIOUS
<1>6. x # 0 /\ x # 1 /\ x \in 1..k
  BY <1>1, <1>5
<1>7. x - 1 \in 0..k /\ x - 1 \notin T
  BY <1>4, <1>6
<1>8. f[x - 1] = g[x - 1] /\ s[x] = t[x]
  BY <1>6, <1>7
<1> QED
  BY <1>1, <1>5, <1>6, <1>8

\* Replay goes through the records of its log.
LEMMA ReplayUnfolds ==
    ASSUME NEW events \in Seq(Event)
    PROVE  \E f : Unfolds(events, Len(events), f) /\ Replay(events) = f[Len(events)]
<1> DEFINE f == CHOOSE f : Unfolds(events, Len(events), f)
<1>1. Unfolds(events, Len(events), f)
  BY UnfoldsExists
<1>2. Replay(events) = f[Len(events)]
  BY DEF Replay, Unfolds
<1> QED
  BY <1>1, <1>2

\* Of no event there is no record.
LEMMA ReplayEmpty == Replay(<<>>) = None
<1>1. <<>> \in Seq(Event) /\ Len(<<>>) = 0
  OBVIOUS
<1>2. PICK f : Unfolds(<<>>, 0, f) /\ Replay(<<>>) = f[0]
  BY <1>1, ReplayUnfolds
<1> QED
  BY <1>2 DEF Unfolds

\* One more event is one more change of the record.
LEMMA ReplayAppend ==
    ASSUME NEW events \in Seq(Event), NEW e \in Event
    PROVE  Replay(Append(events, e)) =
              IF events = <<>> THEN NewTask ELSE Mutate(e.change, Replay(events))
<1> DEFINE k == Len(events)
           more == Append(events, e)
<1>1. /\ more \in Seq(Event) /\ Len(more) = k + 1 /\ k \in Nat /\ more[k + 1] = e
      /\ \A n \in 1..k : events[n] = more[n]
      /\ k = 0 <=> events = <<>>
  OBVIOUS
<1> HIDE DEF k, more
<1>2. PICK f : Unfolds(events, k, f) /\ Replay(events) = f[k]
  BY ReplayUnfolds DEF k
<1>3. PICK g : Unfolds(more, k + 1, g) /\ Replay(more) = g[k + 1]
  BY <1>1, ReplayUnfolds
<1>4. f[k] = g[k]
  BY <1>1, <1>2, <1>3, UnfoldsAgree
<1>5. g[k + 1] = IF k = 0 THEN NewTask ELSE Mutate(e.change, g[k])
  BY <1>1, <1>3 DEF Unfolds
<1> QED
  BY <1>1, <1>2, <1>3, <1>4, <1>5 DEF more

-----------------------------------------------------------------------------
(* What the files mean *)

\* EffectiveTask and EffectiveLog where the files agree: the write-ahead record counts.
Record == IF file["transaction"] # None THEN file["transaction"].task ELSE file["task"]
LogWith(e) == IF e.sequence > Len(log) THEN Append(log, e) ELSE log
History == IF file["transaction"] # None THEN LogWith(file["transaction"].event) ELSE log

WritesRecord == step \in WriteSteps /\ target = "transaction"

\* The record is what its history amounts to, and so is the one about to be written.
Replays ==
    /\ Record = Replay(History)
    /\ WritesRecord => tx.task = Replay(Append(log, tx.event))

\* A transition that returns has left its snapshot.
ReturnsWhatItWrote == step = "return" => file["transaction"] = None /\ file["task"] = tx.task

\* The reservation of a request that was told to be new is in the record, one about to be
\* told so was not told before.
Promised ==
    /\ fresh => /\ ctx \in {"commit", "repair"}
                /\ op # None /\ op.request \in Requests
                /\ isNew[op.request] = 0
                /\ tx.task.ledger[op.request] # "absent"
    /\ \A r \in Requests : isNew[r] > 0 =>
          isNew[r] = 1 /\ Record # None /\ Record.ledger[r] # "absent"

\* Neither the snapshot nor its backup is older than what was acknowledged.
FilesAreFresh ==
    /\ \A e \in acked : /\ file["task"] # None => file["task"].eventSequence >= e.sequence
                        /\ bak["task"] # None => bak["task"].eventSequence >= e.sequence
    /\ reader # None => reader \subseteq acked

Meaning == Replays /\ ReturnsWhatItWrote /\ Promised /\ FilesAreFresh

\* The types and facts of Consistent that are used most.
LEMMA Facts ==
    ASSUME Consistent
    PROVE  /\ file \in [Files -> Task \cup Transaction \cup {None}]
           /\ bak \in [Files -> Task \cup Transaction \cup {None}]
           /\ file["task"] \in Task \cup {None} /\ bak["task"] \in Task \cup {None}
           /\ file["transaction"] \in Transaction \cup {None}
           /\ bak["transaction"] = None
           /\ log \in Seq(Event) /\ Len(log) \in Nat
           /\ tx \in Transaction \cup {None} /\ op \in Change \cup {None}
           /\ isNew \in [Requests -> Nat] /\ acked \subseteq Event
           /\ target \in Files
BY DEF Consistent, TypeOK, DiskType, WorkType, RecordType, FilesAgree

\* What a restart makes of the files is what they mean here.
LEMMA EffectiveIsRecord ==
    ASSUME Consistent
    PROVE  EffectiveTask = Record /\ EffectiveLog = History
<1>1. Written = file["transaction"]
  BY DEF Written, Readable, Consistent, FilesAgree
<1>2. file["transaction"] = None => Snapshot = file["task"]
  BY DEF Snapshot, Readable, Consistent, FilesAgree
<1> QED
  BY <1>1, <1>2 DEF EffectiveTask, EffectiveLog, Record, History, LogWith

-----------------------------------------------------------------------------
(* The steps that leave the record as it is *)

\* No write-ahead record comes or goes, and what is fresh, told or acknowledged stays.
Quiet ==
    /\ log' = log /\ isNew' = isNew /\ acked' = acked
    /\ file'["transaction"] = file["transaction"]
    /\ file["transaction"] = None => file'["task"] = file["task"]
    /\ file'["task"] \in {None, file["task"], bak["task"]}
    /\ bak'["task"] \in {None, file["task"], bak["task"]}
    /\ WritesRecord' => WritesRecord /\ tx' = tx
    /\ step' = "return" => step = "return" /\ file' = file /\ tx' = tx
    /\ fresh' => fresh /\ op' = op /\ tx' = tx /\ ctx' \in {"commit", "repair"}
    /\ reader' \in {None, reader, acked}

\* A step that is quiet keeps the invariant.
LEMMA QuietKeeps ==
    ASSUME Consistent, Meaning, Quiet
    PROVE  Meaning' /\ History' = History
<1>1. Record' = Record /\ History' = History
  BY DEF Record, History, LogWith, Quiet
<1>2. Replays'
  BY <1>1 DEF Meaning, Replays, Quiet
<1>3. ReturnsWhatItWrote'
  BY DEF Meaning, ReturnsWhatItWrote, Quiet
<1>4. Promised'
  BY <1>1 DEF Meaning, Promised, Quiet
<1>5. FilesAreFresh'
  BY DEF Meaning, FilesAreFresh, Quiet
<1> QED
  BY <1>1, <1>2, <1>3, <1>4, <1>5 DEF Meaning

\* A transition that ends forgets what it was doing.
LEMMA FinishIsQuiet ==
    ASSUME NEW up, Finish(up)
    PROVE  ~WritesRecord' /\ step' = "idle" /\ fresh' = FALSE
BY DEF Finish, Release, WritesRecord, WriteSteps, SpentSteps

\* A throw ends the transition or makes it roll forward what it wrote.
LEMMA ThrowIsQuiet ==
    ASSUME Throw
    PROVE  /\ ~WritesRecord' /\ step' # "return"
           /\ fresh' => fresh /\ op' = op /\ tx' = tx /\ ctx' = "repair"
BY FinishIsQuiet DEF Throw, WritesRecord, WriteSteps, SpentSteps

\* The steps in which a transition ends or throws and no file changes.
LEMMA EndsAreQuiet ==
    ASSUME Consistent,
           \/ CreateExists \/ LoadThrows \/ NothingToMark \/ AppendThrows \/ TornAppend
           \/ IOError
    PROVE  Quiet
<1>1. UNCHANGED <<file, bak, log, isNew, acked, reader>>
  BY DEF CreateExists, LoadThrows, NothingToMark, AppendThrows, TornAppend, IOError, disk, history
<1>2. CASE Finish("down") \/ Finish("up")
  BY <1>1, <1>2, FinishIsQuiet DEF Quiet
<1>3. CASE Throw
  BY <1>1, <1>3, ThrowIsQuiet DEF Quiet
<1> QED
  BY <1>2, <1>3 DEF CreateExists, LoadThrows, NothingToMark, AppendThrows, TornAppend, IOError

\* The steps of the rename fallback that write nothing new.
LEMMA FallbackIsQuiet ==
    ASSUME Consistent, Meaning,
           \/ SwapRefused \/ DropRefused \/ ClearBackup \/ SetAside \/ PlaceFails \/ Restore
           \/ DropBackup
    PROVE  Quiet
<1> USE Facts
<1>1. UNCHANGED <<log, isNew, acked, reader>>
  BY DEF SwapRefused, DropRefused, ClearBackup, SetAside, PlaceFails, Restore, DropBackup,
         disk, history
<1>2. ctx = "boot" \/ ctx = "transition" => ~fresh
  BY DEF Meaning, Promised
<1>3. CASE SwapRefused \/ DropRefused
  BY <1>1, <1>3 DEF SwapRefused, DropRefused, disk, Quiet, Meaning, Promised, WritesRecord,
                    WriteSteps, SpentSteps
<1>4. CASE ClearBackup
  BY <1>1, <1>4 DEF ClearBackup, Quiet, Meaning, Promised, WritesRecord, WriteSteps, SpentSteps,
                    Files
<1>5. CASE SetAside
  <2>1. target = "transaction" => file["transaction"] = None
    BY <1>5 DEF SetAside, Consistent, StepAgrees, WriteSteps, SpentSteps
  <2>2. target = "task" => file["transaction"] # None
    BY <1>5, NoneAssumption DEF SetAside, Consistent, StepAgrees, WriteSteps, SpentSteps
  <2> QED
    BY <1>1, <1>5, <2>1, <2>2 DEF SetAside, Quiet, Meaning, Promised, WritesRecord, WriteSteps,
                                  SpentSteps, Files
<1>6. CASE PlaceFails
  <2>1. UNCHANGED <<file, bak>>
    BY <1>6 DEF PlaceFails, disk
  <2>2. CASE bak[target] # None
    BY <1>1, <1>6, <2>1, <2>2 DEF PlaceFails, Quiet, Meaning, Promised, WritesRecord,
                                  WriteSteps, SpentSteps
  <2>3. CASE ~(bak[target] # None)
    <3>1. Throw
      BY <1>6, <2>3 DEF PlaceFails
    <3> QED
      BY <1>1, <2>1, <3>1, ThrowIsQuiet DEF Quiet
  <2> QED
    BY <2>2, <2>3
<1>7. CASE Restore
  <2>1. target = "task" /\ file["transaction"] # None /\ Throw
    BY <1>7 DEF Restore, Consistent, StepAgrees, WriteSteps, SpentSteps
  <2>2. /\ file'["transaction"] = file["transaction"]
        /\ file'["task"] \in {file["task"], bak["task"]} /\ bak'["task"] \in {None, bak["task"]}
    BY <1>7, <2>1 DEF Restore, Files
  <2> QED
    BY <1>1, <2>1, <2>2, ThrowIsQuiet DEF Quiet
<1>8. CASE DropBackup
  <2>1. /\ step' \in {"append", "unlink"} /\ file' = file /\ UNCHANGED <<ctx, op, tx, fresh>>
        /\ bak' = [bak EXCEPT ![target] = None]
    BY <1>8 DEF DropBackup, WriteReturns
  <2> QED
    BY <1>1, <2>1 DEF Quiet, Meaning, Promised, WritesRecord, WriteSteps, SpentSteps, Files
<1> QED
  BY <1>3, <1>4, <1>5, <1>6, <1>7, <1>8

\* The steps of callers, recovery and the host that touch no file.
LEMMA OtherStepsAreQuiet ==
    ASSUME Consistent, Meaning,
           \/ \E c \in Clients : Acquire(c)
           \/ NothingToRecover \/ RecoverTransaction \/ MarkUncertain
           \/ Crash \/ Restart
    PROVE  Quiet
<1> USE Facts
<1>1. UNCHANGED <<file, bak, log, isNew, acked>>
  BY DEF Acquire, NothingToRecover, RecoverTransaction, MarkUncertain, Crash, Restart,
         disk, history
<1>2. reader' \in {None, reader}
  BY DEF Acquire, NothingToRecover, RecoverTransaction, MarkUncertain, Crash, Restart
<1>3. ctx = "boot" \/ ctx = "transition" => ~fresh
  BY DEF Meaning, Promised
<1>4. CASE \E c \in Clients : Acquire(c)
  <2>1. ctx = "transition" /\ step' \in {"mkdir", "recover"} /\ fresh' = fresh
    BY <1>4 DEF Acquire, Consistent, StepAgrees
  <2> QED
    BY <1>1, <1>2, <1>3, <2>1 DEF Quiet, WritesRecord, WriteSteps, SpentSteps
<1>5. CASE Crash
  BY <1>1, <1>2, <1>5 DEF Crash, Release, Quiet, WritesRecord, WriteSteps, SpentSteps
<1>6. CASE Restart
  <2>1. ctx = "transition"
    BY <1>6 DEF Restart, Consistent, StepAgrees
  <2> QED
    BY <1>1, <1>2, <1>3, <1>6, <2>1 DEF Restart, Quiet, WritesRecord, WriteSteps, SpentSteps
<1>7. CASE MarkUncertain
  <2>1. ctx = "boot"
    BY <1>7 DEF MarkUncertain, Consistent, StepAgrees
  <2> QED
    BY <1>1, <1>2, <1>3, <1>7, <2>1 DEF MarkUncertain, Quiet, WritesRecord, WriteSteps, SpentSteps
<1>8. CASE NothingToRecover
  <2>1. ctx \in {"boot", "transition"}
    BY <1>8, NoneAssumption
       DEF NothingToRecover, Readable, Consistent, StepAgrees, TypeOK, WorkType, WriteSteps,
           SpentSteps
  <2>2. step' \in {"load", "mark"} /\ UNCHANGED <<fresh, ctx>>
    BY <1>8, <2>1 DEF NothingToRecover, RecoverReturns
  <2> QED
    BY <1>1, <1>2, <1>3, <2>1, <2>2 DEF Quiet, WritesRecord, WriteSteps, SpentSteps
<1>9. CASE RecoverTransaction
  <2>1. step = "recover" /\ step' = "append" /\ UNCHANGED <<fresh, ctx, op>>
        /\ tx' = file["transaction"] /\ target' = "task"
    BY <1>9 DEF RecoverTransaction, Readable
  <2>2. ctx \in {"commit", "repair"} => tx' = tx
    BY <2>1 DEF Consistent, StepAgrees, WriteSteps, SpentSteps
  <2> QED
    BY <1>1, <1>2, <2>1, <2>2 DEF Quiet, Meaning, Promised, WritesRecord
<1> QED
  BY <1>4, <1>5, <1>6, <1>7, <1>8, <1>9

\* The steps that leave the transition in progress alone.
LEMMA IdleStepsAreQuiet ==
    ASSUME Consistent, Meaning,
           \/ \E c \in Clients, change \in ClientChange : Call(c, change)
           \/ ReadPrimary \/ ReadBackup \/ UNCHANGED vars
    PROVE  Quiet
<1>1. UNCHANGED <<file, bak, log, isNew, acked, step, target, ctx, op, tx, fresh>>
  BY DEF Call, ReadPrimary, ReadBackup, vars, disk, work, history
<1>2. reader' \in {None, reader, acked}
  BY DEF Call, ReadPrimary, ReadBackup, vars
<1> QED
  BY <1>1, <1>2 DEF Quiet, WritesRecord, Meaning, Promised

-----------------------------------------------------------------------------
(* The steps that make, write and end a transition *)

\* The ledger entries of a request are never taken back.
LEMMA LedgerGrows ==
    ASSUME NEW change \in Change, NEW task \in Task, NEW r \in Requests
    PROVE  /\ task.ledger[r] # "absent" => Mutate(change, task).ledger[r] # "absent"
           /\ change.kind = "request.reserved" =>
                 /\ change.request \in Requests
                 /\ Mutate(change, task).ledger[change.request] # "absent"
<1>1. task.ledger \in [Requests -> LedgerStates]
  BY DEF Task
<1>2. change.kind = "request.reserved" => change.request \in Requests
  BY DEF Change, RequestKinds, Kinds
<1> QED
  BY <1>1, <1>2 DEF Mutate, LedgerAfter

\* createTask makes the first record.
LEMMA CreateDirectoryMeans ==
    ASSUME Consistent, Meaning, CreateDirectory
    PROVE  Meaning' /\ History' = History
<1> USE Facts, NoneAssumption
<1>1. /\ step = "mkdir" /\ ctx = "transition" /\ ~dir /\ op # None
      /\ file["transaction"] = None /\ file["task"] = None /\ bak["task"] = None
      /\ Len(log) = 0
  BY DEF CreateDirectory, Consistent, StepAgrees, FilesAgree
<1>2. log = <<>>
  BY <1>1
<1>3. /\ UNCHANGED <<file, bak, log, isNew, acked, reader, fresh, op>>
      /\ tx' = MakeTransaction(op, NewTask) /\ step' = "swap" /\ ctx' = "commit"
  BY DEF CreateDirectory, history
<1>4. /\ tx' \in Transaction /\ tx'.task = NewTask /\ tx'.event \in Event
  BY <1>1, <1>3, NewTaskType, TransactionType DEF Transaction
<1>5. Replays'
  BY <1>2, <1>3, <1>4, ReplayAppend DEF Meaning, Replays, Record, History, LogWith
<1>6. ~fresh
  BY <1>1 DEF Meaning, Promised
<1>7. Record' = Record /\ History' = History
  BY <1>3 DEF Record, History, LogWith
<1>8. ReturnsWhatItWrote' /\ Promised' /\ FilesAreFresh'
  BY <1>3, <1>6, <1>7 DEF Meaning, ReturnsWhatItWrote, Promised, FilesAreFresh
<1> QED
  BY <1>5, <1>7, <1>8 DEF Meaning

\* A transition makes the record that its event amounts to; reserveTaskRequest finds the
\* request new only if nobody was told so.
LEMMA LoadMeans ==
    ASSUME Consistent, Meaning, Load
    PROVE  Meaning' /\ History' = History
<1> USE Facts, NoneAssumption
<1>1. /\ file["transaction"] = None /\ op \in Change /\ op # None
      /\ Readable("task") = file["task"] /\ file["task"] \in Task
      /\ ctx = "transition" /\ step = "load"
  BY DEF Load, Accepted, Consistent, StepAgrees, FilesAgree, Readable
<1>2. Record = file["task"] /\ History = log /\ file["task"] = Replay(log)
  BY <1>1 DEF Record, History, Meaning, Replays
<1>3. log # <<>>
  BY <1>1, <1>2, ReplayEmpty
<1>4. /\ UNCHANGED <<file, bak, log, isNew, acked, reader, op>>
      /\ tx' = MakeTransaction(op, Mutate(op, file["task"])) /\ step' = "swap"
      /\ ctx' = "commit"
      /\ fresh' = (op.kind = "request.reserved" /\ file["task"].ledger[op.request] = "absent")
  BY <1>1 DEF Load, disk, history
<1>5. /\ tx' \in Transaction /\ tx'.task = Mutate(op, file["task"])
      /\ tx'.event \in Event /\ tx'.event.change = op
  BY <1>1, <1>4, MutateType, TransactionType DEF Transaction
<1>6. Record' = Record /\ History' = History
  BY <1>4 DEF Record, History, LogWith
<1>7. tx'.task = Replay(Append(log', tx'.event))
  BY <1>2, <1>3, <1>4, <1>5, ReplayAppend
<1>8. Replays'
  BY <1>6, <1>7 DEF Meaning, Replays
<1>9. Promised'
  <2>1. ASSUME fresh'
        PROVE  /\ op.request \in Requests /\ isNew[op.request] = 0
               /\ tx'.task.ledger[op.request] # "absent"
    <3>1. op.kind = "request.reserved" /\ file["task"].ledger[op.request] = "absent"
      BY <1>4, <2>1
    <3>2. op.request \in Requests
      BY <1>1, <3>1 DEF Change, RequestKinds, Kinds
    <3>3. tx'.task.ledger[op.request] # "absent"
      BY <1>1, <1>5, <3>1, <3>2, LedgerGrows
    <3>4. ~(isNew[op.request] > 0)
      BY <1>2, <3>1, <3>2 DEF Meaning, Promised
    <3>5. isNew[op.request] \in Nat
      BY <3>2
    <3> QED
      BY <3>2, <3>3, <3>4, <3>5
  <2> QED
    BY <1>1, <1>4, <1>6, <2>1 DEF Meaning, Promised
<1>10. ReturnsWhatItWrote' /\ FilesAreFresh'
  BY <1>4 DEF Meaning, ReturnsWhatItWrote, FilesAreFresh
<1> QED
  BY <1>6, <1>8, <1>9, <1>10 DEF Meaning

\* The write-ahead record gets its name: the history is longer by its event and nothing
\* promised is taken back.
LEMMA RecordWrittenMeans ==
    ASSUME Consistent, Meaning, Swap \/ Place, target = "transaction"
    PROVE  Meaning' /\ History = log /\ History' = Append(log, tx.event)
<1> USE Facts, NoneAssumption
<1>1. /\ file' = [file EXCEPT !["transaction"] = tx]
      /\ UNCHANGED <<bak, log, isNew, acked, reader, fresh, op, tx, ctx>>
      /\ step' # "return" /\ step \in {"swap", "place"}
  BY DEF Swap, Place, Content, WriteReturns, history
<1>2. /\ file["transaction"] = None /\ tx \in Transaction /\ tx # None
      /\ tx.event.sequence = Len(log) + 1
  BY <1>1 DEF Consistent, StepAgrees, WriteSteps, SpentSteps
<1>3. file'["transaction"] = tx /\ file'["task"] = file["task"]
  BY <1>1 DEF Files
<1>4. /\ Record = file["task"] /\ History = log /\ file["task"] = Replay(log)
      /\ tx.task = Replay(Append(log, tx.event))
  BY <1>1, <1>2 DEF Record, History, Meaning, Replays, WritesRecord, WriteSteps
<1>5. Record' = tx.task /\ History' = Append(log, tx.event)
  BY <1>1, <1>2, <1>3 DEF Record, History, LogWith
<1>6. Replays'
  BY <1>1, <1>4, <1>5 DEF Replays
<1>7. ASSUME NEW r \in Requests, isNew[r] > 0
      PROVE  isNew[r] = 1 /\ tx.task # None /\ tx.task.ledger[r] # "absent"
  <2>1. isNew[r] = 1 /\ file["task"] # None /\ file["task"].ledger[r] # "absent"
    BY <1>4, <1>7 DEF Meaning, Promised
  <2>2. log # <<>>
    BY <1>4, <2>1, ReplayEmpty
  <2>3. tx.event \in Event /\ tx.event.change \in Change
    BY <1>2 DEF Transaction, Event
  <2>4. tx.task = Mutate(tx.event.change, file["task"])
    BY <1>4, <2>2, <2>3, ReplayAppend
  <2>5. tx.task # None
    BY <1>2 DEF Transaction
  <2> QED
    BY <2>1, <2>3, <2>4, <2>5, LedgerGrows
<1>8. Promised'
  BY <1>1, <1>5, <1>7 DEF Meaning, Promised
<1>9. ReturnsWhatItWrote' /\ FilesAreFresh'
  BY <1>1, <1>3 DEF Meaning, ReturnsWhatItWrote, FilesAreFresh
<1> QED
  BY <1>4, <1>5, <1>6, <1>8, <1>9 DEF Meaning

\* The snapshot becomes that of the write-ahead record.
LEMMA SnapshotWrittenMeans ==
    ASSUME Consistent, Meaning, Swap \/ Place, target = "task"
    PROVE  Meaning' /\ History' = History
<1> USE Facts, NoneAssumption
<1>1. /\ file' = [file EXCEPT !["task"] = tx.task]
      /\ UNCHANGED <<bak, log, isNew, acked, reader, fresh, op, tx, ctx>>
      /\ step' # "return" /\ target' = "task" /\ step \in {"swap", "place"}
  BY DEF Swap, Place, Content, WriteReturns, history
<1>2. /\ file["transaction"] = tx /\ tx # None /\ tx \in Transaction /\ Continues(tx)
      /\ tx.event.sequence = Len(log)
  BY <1>1 DEF Consistent, StepAgrees, FilesAgree, WriteSteps, SpentSteps
<1>3. file'["transaction"] = tx /\ file'["task"] = tx.task
  BY <1>1, <1>2 DEF Files
<1>4. Record' = Record /\ History' = History
  BY <1>1, <1>2, <1>3 DEF Record, History, LogWith
<1>5. \A e \in acked : tx.task.eventSequence >= e.sequence
  BY <1>2 DEF Consistent, AckedInLog, Continues
<1>6. FilesAreFresh'
  BY <1>1, <1>3, <1>5 DEF Meaning, FilesAreFresh
<1>7. Replays' /\ ReturnsWhatItWrote' /\ Promised'
  BY <1>1, <1>4 DEF Meaning, Replays, ReturnsWhatItWrote, Promised, WritesRecord
<1> QED
  BY <1>4, <1>6, <1>7 DEF Meaning

\* The event goes from the write-ahead record to the log.
LEMMA AppendMeans ==
    ASSUME Consistent, Meaning, AppendEventIfMissing
    PROVE  Meaning' /\ History' = History
<1> USE Facts, NoneAssumption
<1>1. /\ UNCHANGED <<file, bak, isNew, acked, reader, fresh, op, tx, ctx, target>>
      /\ step = "append" /\ step' = "swap" /\ log' \in {log, Append(log, tx.event)}
      /\ log' # log => ~EventGap(tx.event)
  BY DEF AppendEventIfMissing, history
<1>2. /\ file["transaction"] = tx /\ tx # None /\ tx \in Transaction /\ Continues(tx)
      /\ target = "task"
  BY <1>1 DEF Consistent, StepAgrees, FilesAgree, WriteSteps, SpentSteps, Files
<1>3. tx.event \in Event /\ tx.event.sequence > 0
  BY <1>2 DEF Continues, Transaction
<1>4. History' = History
  <2>1. CASE log' = log
    BY <1>1, <2>1 DEF History, LogWith
  <2>2. CASE log' # log
    <3>1. log' = Append(log, tx.event) /\ tx.event.sequence = Len(log) + 1
      BY <1>1, <1>3, <2>2, PresentIsLength DEF Consistent
    <3>2. Len(log') = Len(log) + 1
      BY <1>3, <3>1
    <3> QED
      BY <1>1, <1>2, <3>1, <3>2 DEF History, LogWith
  <2> QED
    BY <2>1, <2>2
<1>5. Record' = Record /\ ~WritesRecord'
  BY <1>1, <1>2 DEF Record, WritesRecord
<1> QED
  BY <1>1, <1>4, <1>5
     DEF Meaning, Replays, ReturnsWhatItWrote, Promised, FilesAreFresh

\* The write-ahead record goes when its event and its snapshot are in place.
LEMMA UnlinkMeans ==
    ASSUME Consistent, Meaning, UnlinkTransaction
    PROVE  Meaning' /\ History' = History
<1> USE Facts, NoneAssumption
<1>1. /\ file' = [file EXCEPT !["transaction"] = None]
      /\ UNCHANGED <<bak, log, isNew, acked, reader, fresh, op, tx, ctx>>
      /\ step = "unlink" /\ step' \in {"load", "mark", "return"}
  BY DEF UnlinkTransaction, RecoverReturns, history
<1>2. /\ file["transaction"] = tx /\ tx # None /\ tx.event.sequence = Len(log)
      /\ file["task"] = tx.task
  <2>1. step = "unlink" /\ target = "task"
    BY <1>1 DEF Consistent, TypeOK, WorkType, Files, StepAgrees, WriteSteps
  <2>2. file["transaction"] = tx /\ tx # None
    BY <2>1 DEF Consistent, StepAgrees
  <2>3. tx.event.sequence = Len(log)
    BY <2>1 DEF Consistent, StepAgrees
  <2>4. file["task"] = tx.task
    BY <2>1 DEF Consistent, StepAgrees
  <2> QED
    BY <2>2, <2>3, <2>4
<1>3. file'["transaction"] = None /\ file'["task"] = file["task"]
  BY <1>1 DEF Files
<1>4. Record' = Record /\ History' = History
  BY <1>1, <1>2, <1>3 DEF Record, History, LogWith
<1>5. ~WritesRecord'
  BY <1>1 DEF WritesRecord, WriteSteps, SpentSteps
<1> QED
  BY <1>1, <1>2, <1>3, <1>4, <1>5
     DEF Meaning, Replays, ReturnsWhatItWrote, Promised, FilesAreFresh

\* The caller is answered, and told that its request is new if it found it so.
LEMMA ReturnMeans ==
    ASSUME Consistent, Meaning, Return
    PROVE  Meaning' /\ History' = History
<1> USE Facts, NoneAssumption
<1>1. /\ step = "return" /\ UNCHANGED <<file, bak, log, reader>> /\ Finish("up")
      /\ acked' = acked \cup {tx.event}
      /\ isNew' = IF fresh THEN [isNew EXCEPT ![op.request] = @ + 1] ELSE isNew
  BY DEF Return, disk
<1>2. ~WritesRecord' /\ step' = "idle" /\ fresh' = FALSE
  BY <1>1, FinishIsQuiet
<1>3. /\ file["transaction"] = None /\ bak["task"] = None /\ file["task"] = tx.task
      /\ tx # None /\ tx \in Transaction /\ tx.event.sequence = Len(log)
      /\ file["task"] # None => file["task"].eventSequence = Len(log)
  BY <1>1 DEF Consistent, StepAgrees, FilesAgree, WriteSteps, SpentSteps, Meaning,
              ReturnsWhatItWrote
<1>4. Record' = Record /\ History' = History /\ Record = tx.task
  BY <1>1, <1>3 DEF Record, History, LogWith
<1>5. Replays' /\ ReturnsWhatItWrote'
  BY <1>2, <1>4 DEF Meaning, Replays, ReturnsWhatItWrote
<1>6. Promised'
  <2>1. fresh => /\ op.request \in Requests /\ isNew[op.request] = 0
                 /\ tx.task.ledger[op.request] # "absent"
    BY DEF Meaning, Promised
  <2>2. tx.task # None
    BY <1>3 DEF Transaction
  <2>3. ASSUME NEW r \in Requests, isNew'[r] > 0
        PROVE  isNew'[r] = 1 /\ tx.task # None /\ tx.task.ledger[r] # "absent"
    <3>1. CASE fresh /\ r = op.request
      BY <1>1, <2>1, <2>2, <3>1
    <3>2. CASE ~(fresh /\ r = op.request)
      <4>1. isNew'[r] = isNew[r]
        BY <1>1, <3>2
      <4> QED
        BY <1>4, <2>3, <4>1 DEF Meaning, Promised
    <3> QED
      BY <3>1, <3>2
  <2> QED
    BY <1>2, <1>4, <2>3 DEF Promised
<1>7. FilesAreFresh'
  BY <1>1, <1>3 DEF Meaning, FilesAreFresh, Consistent, AckedInLog
<1> QED
  BY <1>4, <1>5, <1>6, <1>7 DEF Meaning

-----------------------------------------------------------------------------
(* The theorems *)

\* The invariant holds of the store before it has a file.
LEMMA InitMeans == Init => Meaning
<1> SUFFICES ASSUME Init PROVE Meaning
  OBVIOUS
<1>1. Record = None /\ History = <<>> /\ ~WritesRecord
  BY DEF Init, Record, History, Files, WritesRecord, WriteSteps, SpentSteps
<1> QED
  BY <1>1, ReplayEmpty
     DEF Init, Meaning, Replays, ReturnsWhatItWrote, Promised, FilesAreFresh

\* Every step keeps it.
LEMMA StepMeans == Consistent /\ Meaning /\ [Next]_vars => Meaning'
<1> SUFFICES ASSUME Consistent, Meaning, [Next]_vars
             PROVE  Meaning'
  OBVIOUS
<1>1. CASE HostStep
  <2>1. CASE Swap \/ Place
    BY <2>1, RecordWrittenMeans, SnapshotWrittenMeans, Facts DEF Files
  <2>2. CASE \/ CreateExists \/ LoadThrows \/ NothingToMark \/ AppendThrows \/ TornAppend
             \/ IOError
    BY <2>2, EndsAreQuiet, QuietKeeps
  <2>3. CASE \/ SwapRefused \/ DropRefused \/ ClearBackup \/ SetAside \/ PlaceFails \/ Restore
             \/ DropBackup
    BY <2>3, FallbackIsQuiet, QuietKeeps
  <2>4. CASE NothingToRecover \/ RecoverTransaction \/ MarkUncertain
    BY <2>4, OtherStepsAreQuiet, QuietKeeps
  <2> QED
    BY <1>1, <2>1, <2>2, <2>3, <2>4, CreateDirectoryMeans, LoadMeans, AppendMeans, UnlinkMeans,
       ReturnMeans DEF HostStep
<1>2. CASE \/ \E c \in Clients, change \in ClientChange : Call(c, change)
           \/ ReadPrimary \/ ReadBackup \/ UNCHANGED vars
  BY <1>2, IdleStepsAreQuiet, QuietKeeps
<1>3. CASE Crash \/ Restart \/ \E c \in Clients : Acquire(c)
  BY <1>3, OtherStepsAreQuiet, QuietKeeps
<1> QED
  BY <1>1, <1>2, <1>3 DEF Next

\* At every instant the files mean what their history says.
THEOREM FilesMeanTheirHistory == Spec => [](Consistent /\ Meaning)
<1>1. Init => Consistent /\ Meaning
  BY InitConsistent, InitMeans
<1>2. Consistent /\ Meaning /\ [Next]_vars => (Consistent /\ Meaning)'
  BY StepConsistent, StepMeans
<1> QED
  BY <1>1, <1>2, PTL DEF Spec

\* No transition is lost, doubled or half applied: between any two file operations, and
\* after any failure or crash, the task is what its log says (durable-store.ts).
THEOREM TaskIsReplayOfLog == Spec => []SnapshotIsReplayOfLog
<1>1. Consistent /\ Meaning => SnapshotIsReplayOfLog
  BY EffectiveIsRecord DEF SnapshotIsReplayOfLog, Meaning, Replays
<1> QED
  BY <1>1, FilesMeanTheirHistory, PTL

\* A request is told to be new at most once, also when the call that reserved it failed or
\* the host crashed.
THEOREM RequestsAreNewOnce == Spec => []ReservedOnce
<1>1. Consistent /\ Meaning => ReservedOnce
  <2> SUFFICES ASSUME Consistent, Meaning, NEW r \in Requests
               PROVE  isNew[r] <= 1
    BY DEF ReservedOnce
  <2>1. isNew[r] \in Nat /\ (isNew[r] > 0 => isNew[r] = 1)
    BY Facts DEF Meaning, Promised
  <2> QED
    BY <2>1
<1> QED
  BY <1>1, FilesMeanTheirHistory, PTL

\* getTask during a rename fallback never reads a backup older than what was acknowledged
\* before it began.
THEOREM BackupsAreFresh == Spec => ReadsAreFresh
<1>1. Consistent /\ Meaning =>
         (ReadBackup /\ bak["task"] # None =>
              \A e \in reader : bak["task"].eventSequence >= e.sequence)
  BY DEF Meaning, FilesAreFresh, ReadBackup
<1> QED
  BY <1>1, FilesMeanTheirHistory, PTL DEF ReadsAreFresh
=============================================================================
