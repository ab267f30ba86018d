-------------------- MODULE DurableStoreRefinementProofs --------------------
(***************************************************************************)
(* Proof that the files of a task implement TaskLog: each operation on a   *)
(* file is one step of the list of transitions, or none.  It rests on      *)
(* Consistent and Meaning, the invariants of DurableStoreProofs and        *)
(* DurableStoreReplayProofs, and on Owned: whose transition is going on.   *)
(***************************************************************************)
EXTENDS DurableStoreReplayProofs

Creation == [kind |-> "task.created", request |-> None]
Parking == [kind |-> "task.recovery_required", request |-> None]

\* Whoever is inside the lock waits for its own transition; without a caller it is the boot
\* that works, and the only transition it makes parks the task.
HolderWaits ==
    /\ holder # None => phase = "up" /\ step # "idle" /\ op # None /\ call[holder] = op
    /\ phase # "up" => \A c \in Clients : call[c] = None
    /\ holder = None /\ step # "idle" => phase = "boot" /\ (ctx # "boot" => op = Parking)
    /\ ctx = "boot" => holder = None

\* What is written is what was asked for; a creation is the first transition and the only one.
WritesWhatWasAsked ==
    /\ step = "mkdir" => op.kind = "task.created"
    /\ ctx = "transition" /\ step \notin {"idle", "mkdir"} => op.kind # "task.created"
    /\ ctx \in {"commit", "repair"} => tx.event.change = op
    /\ WritesRecord => (op.kind = "task.created" <=> log = <<>>)
    /\ step = "return" => ctx \in {"commit", "repair"}

Owned == HolderWaits /\ WritesWhatWasAsked

-----------------------------------------------------------------------------
(* Owned is inductive *)

\* The changes of a caller and of the boot are told apart by their kind.
LEMMA Kinded ==
    ASSUME NEW change \in Change
    PROVE  /\ change.kind = "task.created" => change = Creation
           /\ change \in ClientChange <=> change.kind # "task.recovery_required"
BY DEF Change, ClientChange, Creation, RequestKinds, Kinds

\* A transition that ends answers its caller, or lets the boot go on.
LEMMA FinishOwns ==
    ASSUME Consistent, Owned, NEW up \in {"up", "down"}, Finish(up)
    PROVE  /\ Owned'
           /\ \A c \in Clients : call'[c] = IF c = holder THEN None ELSE call[c]
<1>1. /\ holder' = None /\ step' = "idle" /\ ctx' = "transition"
      /\ phase' = IF phase = "boot" THEN up ELSE phase
      /\ \A c \in Clients : call'[c] = IF c = holder THEN None ELSE call[c]
  BY DEF Finish, Release
<1>2. phase' # "up" => \A c \in Clients : call'[c] = None
  BY <1>1 DEF Owned, HolderWaits
<1>3. ~WritesRecord'
  BY FinishIsQuiet
<1> QED
  BY <1>1, <1>2, <1>3 DEF Owned, HolderWaits, WritesWhatWasAsked

\* A throw does, or leaves its transition to be rolled forward.
LEMMA ThrowOwns ==
    ASSUME Consistent, Owned, Throw
    PROVE  /\ Owned'
           /\ \/ \A c \in Clients : call'[c] = IF c = holder THEN None ELSE call[c]
              \/ UNCHANGED <<call, holder, tx>> /\ {ctx, ctx'} \subseteq {"commit", "repair"}
<1>1. CASE ctx = "commit" /\ target = "task"
  <2>1. /\ UNCHANGED <<phase, call, holder, op, tx, target>>
        /\ ctx' = "repair" /\ step' = "recover"
    BY <1>1 DEF Throw
  <2>2. step # "idle"
    BY <1>1 DEF Consistent, StepAgrees
  <2> QED
    BY <1>1, <2>1, <2>2 DEF Owned, HolderWaits, WritesWhatWasAsked, WritesRecord, WriteSteps,
                            SpentSteps
<1>2. CASE ~(ctx = "commit" /\ target = "task")
  BY <1>2, FinishOwns DEF Throw
<1> QED
  BY <1>1, <1>2

-----------------------------------------------------------------------------
(* The list, the calls and the answers that the files stand for *)

\* The position of what a caller asked for in the history, 0 while it is not in it.
Position(c) ==
    IF holder = c /\ ctx \in {"commit", "repair"} /\ tx.event.sequence <= Len(History)
    THEN tx.event.sequence
    ELSE 0

Changed == [i \in 1..Len(History) |-> History[i].change]
Waiting ==
    [c \in Clients |-> IF call[c] = None THEN None
                       ELSE [change |-> call[c], at |-> Position(c)]]
Answered == {e.sequence : e \in {a \in acked : a.change.kind # "task.recovery_required"}}

\* They are the variables of TaskLog, before and after a step.
IsMapped ==
    /\ Changed = [i \in 1..Len(EffectiveLog) |-> EffectiveLog[i].change]
    /\ Waiting = [c \in Clients |->
                     IF call[c] = None THEN None
                     ELSE [change |-> call[c],
                           at |-> IF CommittedInProgress(c) THEN tx.event.sequence ELSE 0]]

\* They are, of files that agree.
LEMMA Mapped == (Consistent => IsMapped) /\ (Consistent => IsMapped)'
<1>1. Consistent => IsMapped
  <2> SUFFICES ASSUME Consistent PROVE IsMapped
    OBVIOUS
  <2>1. EffectiveLog = History
    BY EffectiveIsRecord
  <2> QED
    BY <2>1 DEF IsMapped, Changed, Waiting, Position, CommittedInProgress
<1>2. (Consistent => IsMapped)'
  BY <1>1, PTL
<1> QED
  BY <1>1, <1>2

\* A caller that waits is in the list of those that do.
LEMMA WaitingType ==
    ASSUME Consistent, NEW c \in Clients
    PROVE  /\ Position(c) \in Nat
           /\ call[c] \in ClientChange \cup {None} /\ None \notin ClientChange
           /\ Waiting[c] = None <=> call[c] = None
           /\ call[c] # None => Waiting[c] = [change |-> call[c], at |-> Position(c)]
<1> USE NoneAssumption
<1>1. Position(c) \in Nat
  <2>1. tx # None => tx.event.sequence \in Nat
    BY DEF Consistent, TypeOK, WorkType, Transaction, Event
  <2>2. ctx \in {"commit", "repair"} => tx # None
    BY DEF Consistent, StepAgrees
  <2> QED
    BY <2>1, <2>2 DEF Position
<1>2. call[c] \in ClientChange \cup {None} /\ None \notin ClientChange
  BY DEF Consistent, TypeOK, WorkType, ClientChange
<1>3. call[c] # None => [change |-> call[c], at |-> Position(c)] # None
  <2>1. call[c] # None => [change |-> call[c], at |-> Position(c)] \in [change : Change, at : Nat]
    BY <1>1, <1>2 DEF ClientChange
  <2> QED
    BY <2>1
<1> QED
  BY <1>1, <1>2, <1>3 DEF Waiting

\* A history has typed events.
LEMMA HistoryType ==
    ASSUME Consistent
    PROVE  History \in Seq(Event) /\ Len(History) \in Nat /\ Len(History) >= Len(log)
<1> USE Facts
<1>1. file["transaction"] # None => file["transaction"].event \in Event
  BY DEF Transaction
<1> QED
  BY <1>1 DEF History, LogWith

\* The transition of a caller is committed when its event is in the history.
LEMMA CommitMapped ==
    ASSUME Consistent, Consistent', NEW e \in Event, History' = Append(History, e)
    PROVE  Changed' = Append(Changed, e.change) /\ Len(Changed') = Len(History) + 1
<1>1. History \in Seq(Event) /\ Len(History) \in Nat
  BY HistoryType
<1>2. Len(History') = Len(History) + 1
  BY <1>1
<1>3. \A i \in 1..Len(History') :
        History'[i] = IF i = Len(History) + 1 THEN e ELSE History[i]
  BY <1>1
<1>4. Changed \in Seq({History[i].change : i \in 1..Len(History)}) /\ Len(Changed) = Len(History)
  BY <1>1 DEF Changed
<1>5. Changed' = [i \in 1..Len(History') |-> History'[i].change]
  BY DEF Changed
<1> QED
  BY <1>1, <1>2, <1>3, <1>4, <1>5 DEF Changed

\* What is on its way to the files, or rolled forward.
Committing == {"commit", "repair"}

\* The steps that stand for none: the history, the answers and what is asked stay, and a
\* transition is either on its way all the time or not in the history before or after.
LEMMA Stays ==
    ASSUME Consistent, UNCHANGED <<call, acked>>, History' = History,
           \/ UNCHANGED <<holder, tx>> /\ (ctx' \in Committing <=> ctx \in Committing)
           \/ /\ ctx \notin Committing
              /\ ctx' \notin Committing \/ ~(tx'.event.sequence <= Len(History))
    PROVE  UNCHANGED <<Changed, Waiting, Answered>>
<1>1. \A c \in Clients : Position(c)' = Position(c)
  BY DEF Position, Committing
<1>2. Waiting' = Waiting
  BY <1>1 DEF Waiting
<1>3. Changed' = Changed /\ Answered' = Answered
  BY DEF Changed, Answered
<1> QED
  BY <1>2, <1>3

\* A step in the middle of a transition.
GoesOn ==
    /\ UNCHANGED <<phase, holder, ctx, op, call, acked>>
    /\ step \notin {"idle", "mkdir"} /\ step' \notin {"idle", "mkdir"}
    /\ WritesRecord' => WritesRecord /\ log' = log
    /\ step' = "return" => ctx \in Committing
    /\ tx' = tx \/ ctx \notin Committing

\* The same transition goes on.
LEMMA GoesOnOwns ==
    ASSUME Consistent, Owned, GoesOn
    PROVE  /\ Owned'
           /\ History' = History => UNCHANGED <<Changed, Waiting, Answered>>
<1>1. HolderWaits'
  BY DEF Owned, HolderWaits, GoesOn
<1>2. WritesWhatWasAsked'
  BY DEF Owned, WritesWhatWasAsked, GoesOn, Committing
<1>3. History' = History => UNCHANGED <<Changed, Waiting, Answered>>
  BY Stays DEF GoesOn
<1> QED
  BY <1>1, <1>2, <1>3 DEF Owned

\* The steps that recover, write and remove files.
LEMMA FileStepsGoOn ==
    ASSUME Consistent, Owned,
           \/ SwapRefused \/ DropRefused \/ ClearBackup \/ SetAside \/ DropBackup
           \/ PlaceFails /\ bak[target] # None
           \/ Swap \/ Place \/ AppendEventIfMissing \/ UnlinkTransaction
           \/ NothingToRecover \/ RecoverTransaction
    PROVE  GoesOn
<1> USE Facts, NoneAssumption
<1>1. CASE SwapRefused \/ DropRefused
  BY <1>1 DEF SwapRefused, DropRefused, disk, history, GoesOn, WritesRecord, WriteSteps,
     SpentSteps
<1>2. CASE ClearBackup \/ SetAside
  BY <1>2 DEF ClearBackup, SetAside, history, GoesOn, WritesRecord, WriteSteps, SpentSteps
<1>3. CASE DropBackup
  BY <1>3 DEF DropBackup, WriteReturns, history, GoesOn, WritesRecord, WriteSteps, SpentSteps
<1>4. CASE PlaceFails /\ bak[target] # None
  BY <1>4 DEF PlaceFails, disk, history, GoesOn, WritesRecord, WriteSteps, SpentSteps
<1>5. CASE Swap \/ Place
  BY <1>5 DEF Swap, Place, WriteReturns, history, GoesOn, WritesRecord, WriteSteps, SpentSteps
<1>6. CASE AppendEventIfMissing
  <2>1. target = "task"
    BY <1>6 DEF AppendEventIfMissing, Consistent, StepAgrees, WriteSteps, SpentSteps, Files
  <2> QED
    BY <1>6, <2>1 DEF AppendEventIfMissing, history, GoesOn, WritesRecord, WriteSteps, SpentSteps
<1>7. ASSUME RecoverReturns, step \in {"recover", "unlink"}
      PROVE  step' \in {"load", "mark", "return"} /\ (step' = "return" => ctx \in Committing)
  BY <1>7 DEF RecoverReturns, Consistent, TypeOK, WorkType, Committing
<1>8. CASE UnlinkTransaction
  BY <1>7, <1>8 DEF UnlinkTransaction, history, GoesOn, WritesRecord, WriteSteps, SpentSteps
<1>9. CASE NothingToRecover
  BY <1>7, <1>9 DEF NothingToRecover, disk, history, GoesOn, WritesRecord, WriteSteps, SpentSteps
<1>10. CASE RecoverTransaction
  <2>1. step = "recover" /\ tx' = file["transaction"]
    BY <1>10 DEF RecoverTransaction, Readable
  <2>2. ctx \in Committing => tx' = tx
    BY <2>1 DEF Consistent, StepAgrees, WriteSteps, SpentSteps, Committing
  <2> QED
    BY <1>10, <2>2 DEF RecoverTransaction, disk, history, GoesOn, WritesRecord, WriteSteps,
                       SpentSteps
<1> QED
  BY <1>1, <1>2, <1>3, <1>4, <1>5, <1>6, <1>8, <1>9, <1>10

\* TaskLog of these three.
List == INSTANCE TaskLog WITH
    Changes <- ClientChange,
    committed <- Changed,
    pending <- Waiting,
    acked <- Answered

\* The steps with which a transition, a recovery or the boot begins.
LEMMA BeginningsMap ==
    ASSUME Consistent, Meaning, Owned,
           \/ \E c \in Clients : Acquire(c)
           \/ CreateDirectory \/ Load \/ MarkUncertain \/ Restart
    PROVE  Owned' /\ UNCHANGED <<Changed, Waiting, Answered>>
<1> USE Facts, NoneAssumption
<1>1. CASE \E c \in Clients : Acquire(c)
  <2>1. PICK c \in Clients : Acquire(c)
    BY <1>1
  <2>2. /\ UNCHANGED <<file, log, call, acked, phase, ctx, tx, target>>
        /\ ctx = "transition" /\ phase = "up" /\ step = "idle"
        /\ holder' = c /\ op' = call[c] /\ call[c] # None
        /\ step' = IF op'.kind = "task.created" THEN "mkdir" ELSE "recover"
    BY <2>1 DEF Acquire, disk, history, Consistent, StepAgrees
  <2>3. Owned'
    BY <2>2 DEF Owned, HolderWaits, WritesWhatWasAsked, WritesRecord, WriteSteps, SpentSteps
  <2>4. History' = History
    BY <2>2 DEF History, LogWith
  <2> QED
    BY <2>2, <2>3, <2>4, Stays DEF Committing
<1>2. CASE CreateDirectory
  <2>1. /\ UNCHANGED <<call, acked, phase, holder, op>> /\ log' = log
        /\ ctx = "transition" /\ step = "mkdir" /\ op # None /\ op.kind = "task.created"
        /\ Len(log) = 0 /\ step' = "swap" /\ ctx' = "commit" /\ file["transaction"] = None
        /\ tx' = MakeTransaction(op, NewTask)
    BY <1>2 DEF CreateDirectory, history, Consistent, StepAgrees, FilesAgree, Owned,
                WritesWhatWasAsked
  <2>2. tx'.event.change = op /\ tx'.event.sequence = 1
    BY <2>1, NewTaskType, TransactionType
  <2>3. Owned'
    BY <2>1, <2>2 DEF Owned, HolderWaits, WritesWhatWasAsked
  <2>4. History' = History /\ History = log
    BY <1>2, <2>1, CreateDirectoryMeans DEF History
  <2> QED
    BY <2>1, <2>2, <2>3, <2>4, Stays DEF Committing
<1>3. CASE Load
  <2>1. /\ UNCHANGED <<call, acked, phase, holder, op>> /\ log' = log
        /\ ctx = "transition" /\ step = "load" /\ op \in Change /\ op.kind # "task.created"
        /\ step' = "swap" /\ ctx' = "commit" /\ file["transaction"] = None
        /\ file["task"] \in Task /\ tx' = MakeTransaction(op, Mutate(op, file["task"]))
        /\ file["task"].eventSequence = Len(log)
    BY <1>3 DEF Load, Accepted, Readable, disk, history, Consistent, StepAgrees, FilesAgree,
       Owned,
                WritesWhatWasAsked
  <2>2. tx'.event.change = op /\ tx'.event.sequence = Len(log) + 1
    BY <2>1, MutateType, TransactionType DEF Mutate
  <2>3. log # <<>>
    BY <2>1, ReplayEmpty DEF Meaning, Replays, Record, History
  <2>4. Owned'
    BY <2>1, <2>2, <2>3 DEF Owned, HolderWaits, WritesWhatWasAsked
  <2>5. History' = History /\ History = log
    BY <1>3, <2>1, LoadMeans DEF History
  <2> QED
    BY <2>1, <2>2, <2>4, <2>5, Stays DEF Committing
<1>4. CASE MarkUncertain
  <2>1. /\ UNCHANGED <<file, log, call, acked, phase, holder, tx, target>>
        /\ ctx = "boot" /\ step = "mark" /\ step' = "recover" /\ ctx' = "transition"
        /\ op' = Parking
    BY <1>4 DEF MarkUncertain, disk, history, Consistent, StepAgrees, Parking
  <2>2. Owned'
    BY <2>1 DEF Owned, HolderWaits, WritesWhatWasAsked, WritesRecord, WriteSteps, SpentSteps,
                Parking
  <2>3. History' = History
    BY <2>1 DEF History, LogWith
  <2> QED
    BY <2>1, <2>2, <2>3, Stays DEF Committing
<1>5. CASE Restart
  <2>1. /\ UNCHANGED <<file, log, call, acked, holder, tx, target, op>>
        /\ phase = "down" /\ phase' = "boot" /\ step = "idle" /\ step' = "recover"
        /\ ctx = "transition" /\ ctx' = "boot"
    BY <1>5 DEF Restart, disk, history, Consistent, StepAgrees
  <2>2. Owned'
    BY <2>1 DEF Owned, HolderWaits, WritesWhatWasAsked, WritesRecord, WriteSteps, SpentSteps
  <2>3. History' = History
    BY <2>1 DEF History, LogWith
  <2> QED
    BY <2>1, <2>2, <2>3, Stays DEF Committing
<1> QED
  BY <1>1, <1>2, <1>3, <1>4, <1>5

\* A call that ends with an error has failed, whether its transition stands or not.
LEMMA EndsMap ==
    ASSUME Consistent, Owned, History' = History, acked' = acked,
           \/ Finish("up") \/ Finish("down") \/ Throw
    PROVE  /\ Owned'
           /\ \/ UNCHANGED <<Changed, Waiting, Answered>>
              \/ \E c \in Clients : List!Fail(c)
<1> USE Facts, NoneAssumption
<1>1. Changed' = Changed /\ Answered' = Answered
  BY DEF Changed, Answered
<1>2. CASE Finish("up") \/ Finish("down")
  <2>1. /\ Owned' /\ holder' = None
        /\ \A c \in Clients : call'[c] = IF c = holder THEN None ELSE call[c]
    BY <1>2, FinishOwns DEF Finish, Release
  <2>2. \A c \in Clients \ {holder} : Position(c) = 0
    BY DEF Position
  <2>3. \A c \in Clients : Position(c)' = 0
    BY <2>1 DEF Position
  <2>4. CASE holder = None
    <3>1. Waiting' = Waiting
      BY <2>1, <2>2, <2>3, <2>4 DEF Waiting
    <3> QED
      BY <1>1, <2>1, <3>1
  <2>5. CASE holder # None
    <3>1. holder \in Clients /\ Waiting[holder] # None
      BY <2>5, WaitingType DEF Consistent, TypeOK, WorkType, Owned, HolderWaits
    <3>2. Waiting' = [Waiting EXCEPT ![holder] = None]
      BY <2>1, <2>2, <2>3, <3>1 DEF Waiting
    <3>3. List!Fail(holder)
      BY <1>1, <3>1, <3>2 DEF List!Fail
    <3> QED
      BY <2>1, <3>1, <3>3
  <2> QED
    BY <2>4, <2>5
<1>3. CASE Throw /\ ctx = "commit" /\ target = "task"
  <2>1. UNCHANGED <<call, holder, tx>> /\ ctx' = "repair"
    BY <1>3 DEF Throw
  <2> QED
    BY <1>3, <2>1, ThrowOwns, Stays DEF Committing
<1> QED
  BY <1>2, <1>3 DEF Throw

\* A caller that is answered has its transition in the list; the boot answers nobody.
LEMMA ReturnMaps ==
    ASSUME Consistent, Meaning, Owned, Return
    PROVE  /\ Owned'
           /\ \/ UNCHANGED <<Changed, Waiting, Answered>>
              \/ \E c \in Clients : List!Succeed(c)
<1> USE Facts, NoneAssumption
<1>1. /\ Finish("up") /\ acked' = acked \cup {tx.event} /\ History' = History
      /\ step = "return" /\ ctx \in {"commit", "repair"} /\ tx.event.change = op
      /\ tx \in Transaction /\ tx.event.sequence = Len(log) /\ Len(log) > 0
  BY ReturnMeans DEF Return, Consistent, StepAgrees, WriteSteps, SpentSteps, Owned,
                     WritesWhatWasAsked
<1>2. /\ Owned' /\ holder' = None
      /\ \A c \in Clients : call'[c] = IF c = holder THEN None ELSE call[c]
  BY <1>1, FinishOwns DEF Finish, Release
<1>3. Changed' = Changed
  BY <1>1 DEF Changed
<1>4. /\ \A c \in Clients \ {holder} : Position(c) = 0
      /\ \A c \in Clients : Position(c)' = 0
  BY <1>2 DEF Position
<1>5. CASE holder = None
  <2>1. op = Parking
    BY <1>1, <1>5 DEF Owned, HolderWaits
  <2>2. tx.event.change.kind = "task.recovery_required"
    BY <1>1, <2>1 DEF Parking
  <2>3. Answered' = Answered
    BY <1>1, <2>2 DEF Answered
  <2>4. Waiting' = Waiting
    BY <1>2, <1>4, <1>5 DEF Waiting
  <2> QED
    BY <1>2, <1>3, <2>3, <2>4
<1>6. CASE holder # None
  <2>1. holder \in Clients
    BY <1>6 DEF Consistent, TypeOK, WorkType
  <2>2. op = call[holder] /\ call[holder] # None /\ op.kind # "task.recovery_required"
    <3>1. op = call[holder] /\ op # None
      BY <1>6 DEF Owned, HolderWaits
    <3> QED
      BY <2>1, <3>1, WaitingType, Kinded DEF ClientChange
  <2>3. Position(holder) = Len(log)
    BY <1>1, HistoryType DEF Position
  <2>4. Waiting[holder] # None /\ Waiting[holder].at = Len(log)
    <3>1. /\ Waiting[holder] # None
          /\ Waiting[holder] = [change |-> call[holder], at |-> Position(holder)]
      BY <2>1, <2>2, WaitingType
    <3> QED
      BY <2>3, <3>1
  <2>5. Answered' = Answered \cup {Waiting[holder].at}
    BY <1>1, <2>2, <2>4 DEF Answered
  <2>6. Waiting' = [Waiting EXCEPT ![holder] = None]
    BY <1>2, <1>4, <2>1 DEF Waiting
  <2>7. List!Succeed(holder)
    BY <1>1, <1>3, <2>4, <2>5, <2>6 DEF List!Succeed
  <2> QED
    BY <1>2, <2>1, <2>7
<1> QED
  BY <1>5, <1>6

\* The write-ahead record gets its name: the transition is in the list.
LEMMA RecordWrittenMaps ==
    ASSUME Consistent, Consistent', Meaning, Owned, Swap \/ Place, target = "transaction"
    PROVE  /\ Owned'
           /\ List!Park \/ \E c \in Clients : List!Commit(c)
<1> USE Facts, NoneAssumption
<1>1. Owned' /\ GoesOn
  BY FileStepsGoOn, GoesOnOwns
<1>2. /\ WritesRecord /\ ctx = "commit" /\ tx # None /\ tx \in Transaction
      /\ tx.event.sequence = Len(log) + 1 /\ tx.event.change = op
      /\ tx' = tx /\ holder' = holder /\ ctx' = ctx /\ call' = call /\ acked' = acked
  BY <1>1 DEF Swap, Place, WritesRecord, WriteSteps, SpentSteps, Consistent, StepAgrees, Owned,
              WritesWhatWasAsked, GoesOn, Committing
<1>3. History = log /\ History' = Append(History, tx.event) /\ tx.event \in Event
  BY <1>2, RecordWrittenMeans DEF Transaction
<1>4. /\ Changed' = Append(Changed, op) /\ Len(Changed') = Len(log) + 1
      /\ Changed = <<>> <=> log = <<>>
  BY <1>2, <1>3, CommitMapped DEF Changed
<1>5. /\ \A c \in Clients : Position(c) = 0
      /\ \A c \in Clients : Position(c)' = IF c = holder THEN Len(log) + 1 ELSE 0
  BY <1>2, <1>3 DEF Position
<1>6. Answered' = Answered
  BY <1>2 DEF Answered
<1>7. CASE holder = None
  <2>1. phase = "boot" /\ op = Parking
    BY <1>2, <1>7 DEF Owned, HolderWaits, WritesRecord, WriteSteps, SpentSteps
  <2>2. \A c \in Clients : call[c] = None
    BY <2>1 DEF Owned, HolderWaits
  <2>3. Waiting = [c \in Clients |-> None] /\ Waiting' = Waiting
    BY <1>2, <2>2 DEF Waiting
  <2>4. op.kind # "task.created"
    BY <2>1 DEF Parking
  <2>5. Changed # <<>>
    BY <1>2, <1>4, <2>4 DEF Owned, WritesWhatWasAsked
  <2> QED
    BY <1>1, <1>4, <1>6, <2>1, <2>3, <2>5 DEF List!Park
<1>8. CASE holder # None
  <2>1. holder \in Clients /\ op = call[holder] /\ op \in Change
    BY <1>8, <1>2 DEF Consistent, TypeOK, WorkType, Owned, HolderWaits
  <2>2. Waiting[holder] = [change |-> op, at |-> 0] /\ Waiting[holder] # None
    BY <1>5, <2>1, WaitingType
  <2>3. Waiting' = [Waiting EXCEPT ![holder].at = Len(Changed')]
    <3>1. \A c \in Clients \ {holder} : Waiting'[c] = Waiting[c]
      BY <1>2, <1>5 DEF Waiting
    <3>2. Waiting'[holder] = [change |-> op, at |-> Len(log) + 1]
      BY <1>2, <1>5, <2>1 DEF Waiting
    <3>3. Waiting' = [c \in Clients |-> Waiting'[c]] /\ Waiting = [c \in Clients |-> Waiting[c]]
      BY DEF Waiting
    <3> QED
      BY <1>4, <2>1, <2>2, <3>1, <3>2, <3>3
  <2>4. op = Creation <=> Changed = <<>>
    BY <1>2, <1>4, <2>1, Kinded DEF Owned, WritesWhatWasAsked, Creation
  <2>5. List!Commit(holder)
    BY <1>4, <1>6, <2>2, <2>3, <2>4 DEF List!Commit
  <2> QED
    BY <1>1, <2>1, <2>5
<1> QED
  BY <1>7, <1>8

\* A caller asks.
LEMMA CallMaps ==
    ASSUME Consistent, Owned, NEW c \in Clients, NEW change \in ClientChange, Call(c, change)
    PROVE  Owned' /\ List!Submit(c, change)
<1>1. /\ UNCHANGED <<file, log, phase, work, acked>> /\ phase = "up" /\ call[c] = None
      /\ call' = [call EXCEPT ![c] = change] /\ change # None
      /\ UNCHANGED <<holder, step, ctx, target, op, tx>>
  BY NoneAssumption DEF Call, disk, history, work, ClientChange
<1>2. c # holder /\ call \in [Clients -> ClientChange \cup {None}]
  BY <1>1, NoneAssumption DEF Consistent, TypeOK, WorkType, Owned, HolderWaits
<1>3. Owned'
  BY <1>1, <1>2 DEF Owned, HolderWaits, WritesWhatWasAsked, WritesRecord
<1>4. History' = History
  BY <1>1 DEF History, LogWith
<1>5. /\ \A d \in Clients : Position(d)' = Position(d)
      /\ Position(c) = 0
  BY <1>1, <1>2, <1>4 DEF Position
<1>6. Waiting[c] = None
  BY <1>1 DEF Waiting
<1>7. Waiting' = [Waiting EXCEPT ![c] = [change |-> change, at |-> 0]]
  BY <1>1, <1>2, <1>5 DEF Waiting
<1>8. Changed' = Changed /\ Answered' = Answered
  BY <1>1, <1>4 DEF Changed, Answered
<1> QED
  BY <1>3, <1>6, <1>7, <1>8 DEF List!Submit

\* A crash forgets the calls and nothing else.
LEMMA CrashMaps ==
    ASSUME Consistent, Crash
    PROVE  Owned' /\ List!Crash
<1>1. /\ UNCHANGED <<file, log, acked>> /\ phase' = "down" /\ holder' = None
      /\ step' = "idle" /\ ctx' = "transition" /\ call' = [c \in Clients |-> None]
  BY DEF Crash, Release, disk, history
<1>2. Owned'
  BY <1>1 DEF Owned, HolderWaits, WritesWhatWasAsked, WritesRecord, WriteSteps, SpentSteps
<1>3. History' = History
  BY <1>1 DEF History, LogWith
<1>4. Changed' = Changed /\ Answered' = Answered /\ Waiting' = [c \in Clients |-> None]
  BY <1>1, <1>3 DEF Changed, Answered, Waiting
<1> QED
  BY <1>2, <1>4 DEF List!Crash

\* Readers are not seen.
LEMMA IdleStepsMap ==
    ASSUME Consistent, Owned, ReadPrimary \/ ReadBackup \/ UNCHANGED vars
    PROVE  Owned' /\ UNCHANGED <<Changed, Waiting, Answered>>
<1>1. UNCHANGED <<file, log, phase, acked, call, holder, step, ctx, target, op, tx>>
  BY DEF ReadPrimary, ReadBackup, vars, disk, work, history
<1>2. Owned'
  BY <1>1 DEF Owned, HolderWaits, WritesWhatWasAsked, WritesRecord
<1>3. History' = History
  BY <1>1 DEF History, LogWith
<1> QED
  BY <1>1, <1>2, <1>3, Stays

-----------------------------------------------------------------------------
(* The theorem *)

\* The store without a file is the empty list.
LEMMA InitMaps == Init => Owned /\ List!Init
<1> SUFFICES ASSUME Init PROVE Owned /\ List!Init
  OBVIOUS
<1>1. Owned
  BY DEF Init, Owned, HolderWaits, WritesWhatWasAsked, WritesRecord, WriteSteps, SpentSteps
<1>2. History = <<>>
  BY DEF Init, History, LogWith, Files
<1>3. Changed = <<>>
  BY <1>2 DEF Changed
<1>4. Waiting = [c \in Clients |-> None] /\ Answered = {}
  BY DEF Init, Waiting, Answered
<1> QED
  BY <1>1, <1>3, <1>4 DEF List!Init

\* Every step of the store is one of the list, or none.
LEMMA StepMaps ==
    ASSUME Consistent, Meaning, Owned, [Next]_vars
    PROVE  Owned' /\ (List!Next \/ UNCHANGED <<Changed, Waiting, Answered>>)
<1> USE Facts
<1>1. Consistent'
  BY StepConsistent
<1>2. CASE HostStep
  <2>1. CASE Swap \/ Place
    <3>1. CASE target = "transaction"
      BY <1>1, <2>1, <3>1, RecordWrittenMaps DEF List!Next
    <3>2. CASE target = "task"
      BY <2>1, <3>2, SnapshotWrittenMeans, FileStepsGoOn, GoesOnOwns
    <3> QED
      BY <3>1, <3>2 DEF Files
  <2>2. CASE \/ SwapRefused \/ DropRefused \/ ClearBackup \/ SetAside \/ DropBackup
             \/ PlaceFails /\ bak[target] # None
    <3>1. History' = History
      BY <2>2, FallbackIsQuiet, QuietKeeps
    <3> QED
      BY <2>2, <3>1, FileStepsGoOn, GoesOnOwns
  <2>3. CASE NothingToRecover \/ RecoverTransaction
    <3>1. History' = History
      BY <2>3, OtherStepsAreQuiet, QuietKeeps
    <3> QED
      BY <2>3, <3>1, FileStepsGoOn, GoesOnOwns
  <2>4. CASE AppendEventIfMissing \/ UnlinkTransaction
    <3>1. History' = History
      BY <2>4, AppendMeans, UnlinkMeans
    <3> QED
      BY <2>4, <3>1, FileStepsGoOn, GoesOnOwns
  <2>5. CASE \/ CreateExists \/ LoadThrows \/ NothingToMark \/ AppendThrows \/ TornAppend
             \/ IOError \/ Restore
             \/ PlaceFails /\ ~(bak[target] # None)
    <3>1. History' = History
      BY <2>5, EndsAreQuiet, FallbackIsQuiet, QuietKeeps
    <3>2. acked' = acked
      BY <2>5 DEF CreateExists, LoadThrows, NothingToMark, AppendThrows, TornAppend, IOError,
                  Restore, PlaceFails, history
    <3>3. Finish("up") \/ Finish("down") \/ Throw
      BY <2>5 DEF CreateExists, LoadThrows, NothingToMark, AppendThrows, TornAppend, IOError,
                  Restore, PlaceFails
    <3> QED
      BY <3>1, <3>2, <3>3, EndsMap DEF List!Next
  <2>6. CASE CreateDirectory \/ Load \/ MarkUncertain
    BY <2>6, BeginningsMap
  <2>7. CASE Return
    BY <2>7, ReturnMaps DEF List!Next
  <2> QED
    <3>1. CASE PlaceFails
      <4>1. (PlaceFails /\ bak[target] # None) \/ (PlaceFails /\ ~(bak[target] # None))
        BY <3>1
      <4> QED
        BY <2>2, <2>5, <4>1
    <3>2. CASE \/ SwapRefused \/ DropRefused \/ ClearBackup \/ SetAside \/ DropBackup
      BY <2>2, <3>2
    <3>3. CASE \/ CreateExists \/ LoadThrows \/ NothingToMark \/ AppendThrows \/ TornAppend
               \/ IOError \/ Restore
      BY <2>5, <3>3
    <3> QED
      BY <1>2, <2>1, <2>3, <2>4, <2>6, <2>7, <3>1, <3>2, <3>3 DEF HostStep
<1>3. CASE \E c \in Clients, change \in ClientChange : Call(c, change)
  BY <1>3, CallMaps DEF List!Next
<1>4. CASE Restart \/ \E c \in Clients : Acquire(c)
  BY <1>4, BeginningsMap
<1>5. CASE Crash
  BY <1>5, CrashMaps DEF List!Next
<1>6. CASE ReadPrimary \/ ReadBackup \/ UNCHANGED vars
  BY <1>6, IdleStepsMap
<1> QED
  BY <1>2, <1>3, <1>4, <1>5, <1>6 DEF Next

\* The files agree, mean their history, and are in the hands of who asked.
LEMMA FilesAreOwned == Spec => [](Consistent /\ Meaning /\ Owned)
<1>1. Owned /\ Consistent /\ Meaning /\ [Next]_vars => Owned'
  BY StepMaps
<1>2. Init => Owned
  BY InitMaps
<1> QED
  BY <1>1, <1>2, FilesMeanTheirHistory, PTL DEF Spec

\* The files implement the list of transitions: whatever fails or crashes, a transition is
\* committed once, in one step and for good, and a caller that was answered knows that it was.
THEOREM StoreImplementsTaskLog == Spec => ImplementsTaskLog
<1>1. Init => Abstract!Init
  <2> SUFFICES ASSUME Init PROVE Abstract!Init
    OBVIOUS
  <2>1. Consistent /\ List!Init
    BY InitConsistent, InitMaps
  <2> QED
    BY <2>1, Mapped DEF IsMapped, List!Init, Abstract!Init, Answered
<1>2. Consistent /\ Meaning /\ Owned /\ [Next]_vars => [Abstract!Next]_(Abstract!vars)
  <2> SUFFICES ASSUME Consistent, Meaning, Owned, [Next]_vars
               PROVE  [Abstract!Next]_(Abstract!vars)
    OBVIOUS
  <2>1. /\ Consistent /\ Consistent'
        /\ List!Next \/ UNCHANGED <<Changed, Waiting, Answered>>
    BY StepConsistent, StepMaps
  <2>2. CASE UNCHANGED <<Changed, Waiting, Answered>>
    BY <2>1, <2>2, Mapped DEF IsMapped, Abstract!vars, Answered
  <2>3. ASSUME NEW c \in Clients, NEW change \in ClientChange, List!Submit(c, change)
        PROVE  Abstract!Submit(c, change)
    BY <2>1, <2>3, Mapped DEF IsMapped, List!Submit, Abstract!Submit, Answered
  <2>4. ASSUME NEW c \in Clients, List!Commit(c)
        PROVE  Abstract!Commit(c)
    BY <2>1, <2>4, Mapped DEF IsMapped, List!Commit, Abstract!Commit, Answered, Creation
  <2>5. ASSUME NEW c \in Clients, List!Succeed(c)
        PROVE  Abstract!Succeed(c)
    BY <2>1, <2>5, Mapped DEF IsMapped, List!Succeed, Abstract!Succeed, Answered
  <2>6. ASSUME NEW c \in Clients, List!Fail(c)
        PROVE  Abstract!Fail(c)
    BY <2>1, <2>6, Mapped DEF IsMapped, List!Fail, Abstract!Fail, Answered
  <2>7. List!Crash => Abstract!Crash
    BY <2>1, Mapped DEF IsMapped, List!Crash, Abstract!Crash, Answered
  <2>8. List!Park => Abstract!Park
    BY <2>1, Mapped DEF IsMapped, List!Park, Abstract!Park, Answered, Parking
  <2> QED
    BY <2>1, <2>2, <2>3, <2>4, <2>5, <2>6, <2>7, <2>8 DEF List!Next, Abstract!Next
<1> QED
  BY <1>1, <1>2, FilesAreOwned, PTL DEF Spec, ImplementsTaskLog, Abstract!Spec

-----------------------------------------------------------------------------
(* The history *)

\* What may be added to a history: the transition that a caller waits for or that parks
\* the task at boot, numbered one past the last, a creation if and only if it is the first.
Added(e, events) ==
    /\ e \in Event
    /\ e.sequence = Len(events) + 1
    /\ e.change.kind = "task.created" <=> events = <<>>
    /\ \/ \E c \in Clients : call[c] = e.change
       \/ phase = "boot" /\ e.change = Parking

\* The history stays, or gets one more transition at its end.
Grows == \/ EffectiveLog' = EffectiveLog
         \/ \E e \in Event : Added(e, EffectiveLog) /\ EffectiveLog' = Append(EffectiveLog, e)

\* No transition that has its write-ahead record is ever taken back, acknowledged or not:
\* the history of a task only grows, by transitions that somebody asked for.
HistoryOnlyGrows == [][Grows]_vars

\* A task is created by the first transition of its history and by no other.
CreatedOnce ==
    \A i \in 1..Len(EffectiveLog) : EffectiveLog[i].change.kind = "task.created" <=> i = 1

\* The only step that adds to the history is the one that names the write-ahead record.
LEMMA HistoryMoves ==
    ASSUME Consistent, Meaning, Owned, [Next]_vars
    PROVE  \/ History' = History
           \/ \E e \in Event : Added(e, History) /\ History' = Append(History, e)
<1> USE Facts
<1>1. CASE HostStep
  <2>1. CASE (Swap \/ Place) /\ target = "transaction"
    <3>1. /\ WritesRecord /\ ctx = "commit" /\ tx # None /\ tx \in Transaction
          /\ tx.event.sequence = Len(log) + 1 /\ tx.event.change = op
          /\ op.kind = "task.created" <=> log = <<>>
      BY <2>1, NoneAssumption
         DEF Swap, Place, WritesRecord, WriteSteps, SpentSteps, Consistent, StepAgrees, Owned,
             WritesWhatWasAsked
    <3>2. History = log /\ History' = Append(History, tx.event) /\ tx.event \in Event
      BY <2>1, <3>1, RecordWrittenMeans DEF Transaction
    <3>3. \/ \E c \in Clients : call[c] = op
          \/ phase = "boot" /\ op = Parking
      BY <3>1 DEF WritesRecord, WriteSteps, SpentSteps, Owned, HolderWaits, Consistent, TypeOK,
                  WorkType
    <3> QED
      BY <3>1, <3>2, <3>3 DEF Added
  <2>2. CASE (Swap \/ Place) /\ target = "task"
    BY <2>2, SnapshotWrittenMeans
  <2>3. CASE \/ CreateExists \/ LoadThrows \/ NothingToMark \/ AppendThrows \/ TornAppend
             \/ IOError
    BY <2>3, EndsAreQuiet, QuietKeeps
  <2>4. CASE \/ SwapRefused \/ DropRefused \/ ClearBackup \/ SetAside \/ PlaceFails \/ Restore
             \/ DropBackup
    BY <2>4, FallbackIsQuiet, QuietKeeps
  <2>5. CASE NothingToRecover \/ RecoverTransaction \/ MarkUncertain
    BY <2>5, OtherStepsAreQuiet, QuietKeeps
  <2>6. CASE CreateDirectory \/ Load \/ AppendEventIfMissing \/ UnlinkTransaction \/ Return
    BY <2>6, CreateDirectoryMeans, LoadMeans, AppendMeans, UnlinkMeans, ReturnMeans
  <2>7. target \in {"task", "transaction"}
    BY DEF Files
  <2> QED
    BY <1>1, <2>1, <2>2, <2>3, <2>4, <2>5, <2>6, <2>7 DEF HostStep
<1>2. CASE \/ \E c \in Clients, change \in ClientChange : Call(c, change)
           \/ ReadPrimary \/ ReadBackup \/ UNCHANGED vars
  BY <1>2, IdleStepsAreQuiet, QuietKeeps
<1>3. CASE Crash \/ Restart \/ \E c \in Clients : Acquire(c)
  BY <1>3, OtherStepsAreQuiet, QuietKeeps
<1> QED
  BY <1>1, <1>2, <1>3 DEF Next

\* The creation stays the first event and the only one.
LEMMA CreationStays ==
    ASSUME Consistent, NEW e \in Event, Added(e, History),
           \A i \in 1..Len(History) : History[i].change.kind = "task.created" <=> i = 1,
           NEW events, events = Append(History, e)
    PROVE  \A i \in 1..Len(events) : events[i].change.kind = "task.created" <=> i = 1
<1>1. History \in Seq(Event) /\ Len(History) \in Nat
  BY HistoryType
<1>2. History = <<>> <=> Len(History) = 0
  BY <1>1
<1>3. /\ Len(events) = Len(History) + 1
      /\ \A i \in 1..Len(events) :
            events[i] = IF i = Len(History) + 1 THEN e ELSE History[i]
  BY <1>1
<1> QED
  BY <1>1, <1>2, <1>3 DEF Added

\* What is committed is never taken back, whatever fails or crashes (durable-store.ts,
\* commitTaskTransition).
THEOREM HistoryIsNeverTakenBack == Spec => HistoryOnlyGrows
<1>1. Consistent => EffectiveLog = History
  BY EffectiveIsRecord
<1>2. (Consistent => EffectiveLog = History)'
  BY <1>1, PTL
<1>3. Consistent /\ Consistent' /\ Meaning /\ Owned /\ [Next]_vars => [Grows]_vars
  BY <1>1, <1>2, HistoryMoves DEF Grows
<1> QED
  BY <1>3, FilesAreOwned, PTL DEF Spec, HistoryOnlyGrows

\* A task is created once, by the first of its transitions (durable-store.ts, createTask).
THEOREM TasksAreCreatedOnce == Spec => []CreatedOnce
<1> DEFINE First == \A i \in 1..Len(History) : History[i].change.kind = "task.created" <=> i = 1
<1>1. Init => First
  <2>1. Init => Len(History) = 0
    BY DEF Init, History, LogWith, Files
  <2> QED
    BY <2>1
<1>2. First /\ Consistent /\ Meaning /\ Owned /\ [Next]_vars => First'
  <2> SUFFICES ASSUME First, Consistent, Meaning, Owned, [Next]_vars
               PROVE  First'
    OBVIOUS
  <2>1. CASE History' = History
    BY <2>1
  <2>2. ASSUME NEW e \in Event, Added(e, History), History' = Append(History, e)
        PROVE  First'
    BY <2>2, CreationStays
  <2> QED
    BY <2>1, <2>2, HistoryMoves
<1>3. Consistent /\ First => CreatedOnce
  BY EffectiveIsRecord DEF CreatedOnce
<1> HIDE DEF First
<1> QED
  BY <1>1, <1>2, <1>3, FilesAreOwned, PTL DEF Spec

-----------------------------------------------------------------------------
(* The boot: what HostComesBackIntact has beside fairness *)

\* A rename that failed is being undone.
Undoing == step \in {"clearSpent", "setAsideSpent", "restore"}

\* As long as no line of the log is torn, a boot fails only because a file operation of its
\* own fails or the host crashes once more: nothing that an earlier failure or crash left
\* behind is refused, neither by the roll-forward nor by the transition that parks the task.
BootFailsOnlyByFault ==
    [][/\ phase = "boot" /\ phase' = "down" =>
             faults' > faults \/ crashes' > crashes \/ torn' \/ Undoing
       /\ Undoing' => Undoing \/ faults' > faults]_vars

\* The boot parks a task that is there.
ParksATask == phase = "boot" /\ ctx # "boot" => History # <<>>

\* A boot is past the recovery of the files only once it has found an unfinished task.
LEMMA ParkingBegins ==
    ASSUME Consistent, Meaning, Owned, [Next]_vars, phase' = "boot", ctx' # "boot"
    PROVE  MarkUncertain \/ (phase = "boot" /\ ctx # "boot")
<1>1. CASE Restart
  BY <1>1 DEF Restart
<1>2. ASSUME NEW up \in {"up", "down"}, Finish(up) PROVE FALSE
  BY <1>2 DEF Finish
<1>3. CASE \/ CreateExists \/ LoadThrows \/ NothingToMark \/ AppendThrows \/ TornAppend
           \/ IOError \/ Restore \/ Return
           \/ PlaceFails /\ ~(bak[target] # None)
  <2>1. Throw
    BY <1>2, <1>3 DEF CreateExists, LoadThrows, NothingToMark, AppendThrows, TornAppend, IOError,
                      Restore, Return, PlaceFails
  <2> QED
    BY <1>2, <2>1 DEF Throw
<1>4. CASE CreateDirectory \/ Load
  BY <1>4 DEF CreateDirectory, Load, Consistent, StepAgrees
<1>5. CASE UNCHANGED <<phase, ctx>>
  BY <1>5
<1>6. CASE Crash
  BY <1>6 DEF Crash
<1>7. CASE \/ Swap \/ SwapRefused \/ DropRefused \/ ClearBackup \/ SetAside \/ Place
           \/ PlaceFails /\ bak[target] # None
           \/ DropBackup \/ NothingToRecover \/ RecoverTransaction \/ AppendEventIfMissing
           \/ UnlinkTransaction
  BY <1>5, <1>7 DEF Swap, SwapRefused, DropRefused, ClearBackup, SetAside, Place, PlaceFails,
                    DropBackup, NothingToRecover, RecoverTransaction, AppendEventIfMissing,
                    UnlinkTransaction
<1>8. CASE ReadPrimary \/ ReadBackup \/ UNCHANGED vars
  BY <1>5, <1>8 DEF ReadPrimary, ReadBackup, vars, work
<1>11. ASSUME NEW c \in Clients, Acquire(c) \/ \E change \in ClientChange : Call(c, change)
       PROVE  MarkUncertain \/ (phase = "boot" /\ ctx # "boot")
  BY <1>5, <1>11 DEF Acquire, Call, work
<1>9. CASE PlaceFails
  BY <1>3, <1>7, <1>9
<1>10. CASE HostStep
  BY <1>3, <1>4, <1>7, <1>9, <1>10 DEF HostStep
<1> QED
  BY <1>1, <1>6, <1>8, <1>10, <1>11 DEF Next

\* The task that the boot is about to park stays.
LEMMA ParkedTaskStays ==
    ASSUME Consistent, Consistent', Meaning, Owned, ParksATask, [Next]_vars
    PROVE  ParksATask'
<1> SUFFICES ASSUME phase' = "boot", ctx' # "boot"
             PROVE  History' # <<>>
  BY DEF ParksATask
<1>1. History # <<>>
  <2>1. CASE MarkUncertain
    <3>1. /\ file["transaction"] = None /\ bak["task"] = None
          /\ Readable("task") # None
      BY <2>1 DEF MarkUncertain, Unfinished, Consistent, StepAgrees, FilesAgree
    <3>2. Record # None
      BY <3>1 DEF Readable, Record
    <3>3. ~WritesRecord
      BY <2>1 DEF MarkUncertain, WritesRecord, WriteSteps, SpentSteps
    <3> QED
      BY <3>2, <3>3, ReplayEmpty DEF Meaning, Replays
  <2>2. CASE phase = "boot" /\ ctx # "boot"
    BY <2>2 DEF ParksATask
  <2> QED
    BY <2>1, <2>2, ParkingBegins
<1>2. History \in Seq(Event) /\ Len(History) \in Nat
  BY HistoryType
<1>3. ASSUME NEW e \in Event, History' = Append(History, e)
      PROVE  History' # <<>>
  BY <1>2, <1>3
<1> QED
  BY <1>1, <1>3, HistoryMoves

\* Parking is refused by no rule of transitionTask.
LEMMA ParkingIsAccepted ==
    ASSUME Consistent, Meaning, Owned, ParksATask, phase = "boot", step = "load"
    PROVE  Accepted
<1> USE Facts
<1>1. ctx = "transition" /\ file["transaction"] = None
  BY DEF Consistent, StepAgrees
<1>2. holder = None /\ op = Parking
  BY <1>1 DEF Owned, HolderWaits
<1>3. History = log /\ log # <<>>
  BY <1>1 DEF ParksATask, History
<1>4. Len(log) # 0
  BY <1>3
<1>5. Readable("task") # None
  BY <1>1, <1>4 DEF Consistent, FilesAgree, Readable
<1>6. ~MutateThrows(op, Readable("task"))
  BY <1>2 DEF MutateThrows, Parking
<1> QED
  BY <1>5, <1>6 DEF Accepted

\* The ends of a boot that fails.
LEMMA BootFails ==
    ASSUME Consistent, Meaning, Owned, ParksATask, [Next]_vars, phase = "boot", phase' = "down"
    PROVE  faults' > faults \/ crashes' > crashes \/ torn' \/ Undoing
<1>1. crashes \in Nat /\ faults \in Nat
  BY DEF Consistent, TypeOK, RecordType
<1>2. CASE Crash
  BY <1>1, <1>2 DEF Crash
<1>3. CASE PlaceFails \/ IOError \/ SwapRefused \/ DropRefused
  BY <1>1, <1>3 DEF PlaceFails, IOError, SwapRefused, DropRefused
<1>4. CASE Restore
  BY <1>4 DEF Restore, Undoing
<1>5. CASE TornAppend
  BY <1>5 DEF TornAppend
<1>6. CASE AppendThrows
  BY <1>6, AppendIsAccepted DEF AppendThrows, RecoveryNeverRefused, disk
<1>7. CASE LoadThrows
  BY <1>7, ParkingIsAccepted DEF LoadThrows
<1>8. CASE CreateExists
  <2>1. step = "mkdir" /\ ctx = "transition"
    BY <1>8 DEF CreateExists, Consistent, StepAgrees
  <2> QED
    BY <2>1 DEF Owned, HolderWaits, WritesWhatWasAsked, Parking
<1>9. CASE Return \/ NothingToMark
  BY <1>9 DEF Return, NothingToMark, Finish
<1>10. CASE UNCHANGED phase
  BY <1>10
<1>11. CASE \/ CreateDirectory \/ Load \/ Swap \/ ClearBackup \/ SetAside \/ Place
            \/ DropBackup \/ NothingToRecover \/ RecoverTransaction \/ AppendEventIfMissing
            \/ UnlinkTransaction \/ MarkUncertain
  BY <1>10, <1>11 DEF CreateDirectory, Load, Swap, ClearBackup, SetAside, Place,
                      DropBackup, NothingToRecover, RecoverTransaction, AppendEventIfMissing,
                      UnlinkTransaction, MarkUncertain
<1>12. CASE \/ \E c \in Clients : Acquire(c) \/ \E change \in ClientChange : Call(c, change)
            \/ ReadPrimary \/ ReadBackup \/ UNCHANGED vars \/ Restart
  BY <1>10, <1>12 DEF Acquire, Call, ReadPrimary, ReadBackup, vars, work, Restart
<1> QED
  BY <1>2, <1>3, <1>4, <1>5, <1>6, <1>7, <1>8, <1>9, <1>11, <1>12 DEF Next, HostStep

\* A rename is undone only after one failed.
LEMMA UndoingBegins ==
    ASSUME Consistent, [Next]_vars, Undoing'
    PROVE  Undoing \/ faults' > faults
<1>1. faults \in Nat
  BY DEF Consistent, TypeOK, RecordType
<1>2. ASSUME NEW up \in {"up", "down"}, Finish(up) PROVE FALSE
  BY <1>2 DEF Finish, Release, Undoing
<1>3. CASE PlaceFails \/ IOError \/ SwapRefused \/ DropRefused
  BY <1>1, <1>3 DEF PlaceFails, IOError, SwapRefused, DropRefused
<1>4. CASE CreateExists \/ LoadThrows \/ NothingToMark \/ Return \/ AppendThrows \/ TornAppend
           \/ Restore
  BY <1>2, <1>4 DEF CreateExists, LoadThrows, NothingToMark, Return, AppendThrows, TornAppend,
                    Restore, Throw, Undoing
<1>5. CASE \/ CreateDirectory \/ Load \/ Swap \/ ClearBackup \/ SetAside \/ Place
           \/ DropBackup \/ NothingToRecover \/ RecoverTransaction \/ AppendEventIfMissing
           \/ UnlinkTransaction \/ MarkUncertain
  BY <1>5 DEF CreateDirectory, Load, Swap, ClearBackup, SetAside, Place, WriteReturns,
              DropBackup, NothingToRecover, RecoverTransaction, AppendEventIfMissing,
              UnlinkTransaction, RecoverReturns, MarkUncertain, Undoing
<1>6. CASE Crash \/ Restart \/ \E c \in Clients : Acquire(c)
  BY <1>6 DEF Crash, Release, Restart, Acquire, Undoing
<1>7. CASE \/ \E c \in Clients : \E change \in ClientChange : Call(c, change)
           \/ ReadPrimary \/ ReadBackup \/ UNCHANGED vars
  BY <1>7 DEF Call, ReadPrimary, ReadBackup, vars, work, Undoing
<1> QED
  BY <1>3, <1>4, <1>5, <1>6, <1>7 DEF Next, HostStep

\* Nothing that a failure or a crash leaves behind makes the next boot fail, but half a line
\* of the log (durable-store.ts, initialize and recoverPendingTaskTransactions).
THEOREM BootsFailOnlyByFaults == Spec => BootFailsOnlyByFault
<1>1. Init => ParksATask
  BY DEF Init, ParksATask
<1>2. Consistent /\ Consistent' /\ Meaning /\ Owned /\ ParksATask /\ [Next]_vars => ParksATask'
  BY ParkedTaskStays
<1>3. Consistent /\ Meaning /\ Owned /\ ParksATask /\ [Next]_vars =>
         /\ phase = "boot" /\ phase' = "down" =>
               faults' > faults \/ crashes' > crashes \/ torn' \/ Undoing
         /\ Undoing' => Undoing \/ faults' > faults
  BY BootFails, UndoingBegins
<1> QED
  BY <1>1, <1>2, <1>3, FilesAreOwned, PTL DEF Spec, BootFailsOnlyByFault
=============================================================================
