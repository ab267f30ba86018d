----------------------- MODULE TaskOrchestratorProofs -----------------------
(***************************************************************************)
(* Proofs about the life of a task, for every set of requests and any      *)
(* number of runs, of crashes and of calls of the store that throw.  Five  *)
(* invariants build on each other: Agreed, what the callers, executions    *)
(* and the worker rely on; ShownAgrees, that readers see an earlier state  *)
(* of the record, or the record; LiveAgrees, that a live turn has an       *)
(* execution or was left by a throw; SettledAgrees, that a turn nobody     *)
(* interrupts is settled once, with its receipt; QuietAgrees, what holds   *)
(* besides where nobody cancels.                                           *)
(***************************************************************************)
EXTENDS TaskOrchestrator, TLAPS

\* The record and the receipts, and the history, without what only a throw of the store moves.
kept == <<task, ledger, cancelLedger, receipt, reservation>>
story == <<crashes, dispatches, thread, acceptedIn, answers, told>>

RecordTyped ==
    /\ status \in {"absent"} \cup ActiveStatuses \cup TerminalRun
    /\ active \in Runs \cup {None}
    /\ turns \in Seq(Runs)
    /\ run \in [Runs -> {"absent"} \cup LiveRun \cup TerminalRun]
    /\ session \in Runs \cup {None}
    /\ ledger \in [Requests -> Runs \cup {None}]
    /\ cancelLedger \in [Runs -> Runs \cup {None}]
    /\ receipt \in [Runs -> TerminalRun \cup {None}]
    /\ reservation \in Requests \cup {None}
StoryType ==
    /\ crashes \in Nat
    /\ dispatches \in [Runs -> Nat]
    /\ thread \in [Runs -> Runs \cup {None}]
    /\ acceptedIn \in [Runs -> Nat]
    /\ answers \subseteq Requests \X Runs
    /\ told \subseteq Runs
Typed == RecordTyped /\ MemoryType /\ StoryType

LastTurn == turns[Len(turns)]

\* What a run that is executed or sent must have: a turn of the task, and a request it is promised to.
OnRecord(r) ==
    /\ \E i \in 1..Len(turns) : turns[i] = r
    /\ \E q \in Requests : ledger[q] = r

\* The start or follow-up in progress has a run of its own, which nobody executes before it is
\* scheduled; the ledger has it as soon as it is reserved, and never changes.  A request is
\* promised a run only when the task is created or exists.
Unscheduled == {"create", "reserve", "queue", "completeStart"}
SubmitAgrees ==
    /\ submit.pc # "idle" =>
          submit.id \in Runs /\ submit.id < nextRun /\ reservation \in Requests
    /\ turns = <<>> => \A q \in Requests : ledger[q] = None
    /\ submit.pc = "create" => turns = <<>>
    /\ submit.pc \in {"reserve", "queue"} => turns # <<>>
    /\ submit.pc \in {"completeStart", "queue", "completeFollowup"} =>
          ledger[reservation] = submit.id
    /\ submit.pc \in Unscheduled => exec[submit.id].pc = "none" /\ dispatches[submit.id] = 0
    /\ submit.pc = "completeStart" =>
          OnRecord(submit.id) /\ acceptedIn[submit.id] = crashes

FreshRuns == \A r \in Runs : r >= nextRun => exec[r].pc = "none" /\ dispatches[r] = 0

\* What is executed is on record and was accepted by this process; it has not been sent before
\* it reaches the worker; when it has been there it has a verdict.
ExecAgrees ==
    \A r \in Runs :
        /\ exec[r].pc # "none" => OnRecord(r) /\ acceptedIn[r] = crashes
        /\ exec[r].pc \in {"load", "compile", "check", "starting", "runTurn"} => dispatches[r] = 0
        /\ exec[r].pc \in {"decide", "inspect", "commit"} => exec[r].verdict \in TerminalRun

\* The worker has the turn that is executed, and sends it only once.
WorkerAgrees ==
    /\ WorkerRunsWhatIsExecuted
    /\ worker.run # None /\ worker.stage \in {"startup", "ready"} => dispatches[worker.run] = 0

AnswersKept == \A a \in answers : ledger[a[1]] = a[2]

\* A task that exists has a turn.
Born == status = "absent" <=> turns = <<>>

\* A cancellation that was accepted has a victim.
CancelAgrees ==
    /\ Born
    /\ \A r \in Runs : cancel[r].pc \notin {"idle", "asked"} =>
          cancel[r].victim \in Runs /\ turns # <<>>

\* What readers see is an earlier state of the record, or the record.
Grows(earlier, later) ==
    /\ earlier.status # "absent" => later.status # "absent"
    /\ Len(earlier.turns) <= Len(later.turns)
    /\ \A i \in 1..Len(earlier.turns) : later.turns[i] = earlier.turns[i]
    /\ \A q \in Requests : earlier.ledger[q] \in {None, later.ledger[q]}
    /\ \A r \in Runs : earlier.cancelLedger[r] \in {None, later.cancelLedger[r]}
ShownAgrees ==
    /\ shown \in Records /\ Grows(shown, Record)
    /\ shown.status # "absent" => shown.turns # <<>>

\* The invariant of the callers, executions and worker; it is inductive together with ShownAgrees.
Agreed ==
    Typed /\ SubmitAgrees /\ FreshRuns /\ ExecAgrees /\ WorkerAgrees
           /\ DispatchedOnceOnRecord /\ AnswersKept /\ CancelAgrees

-----------------------------------------------------------------------------
(* Types of the records, and how the operators that change one field keep them *)

ExecRecord == [pc : ExecPc, session : Runs \cup {None}, verdict : TerminalRun \cup {None},
               caught : BOOLEAN]
CancelPc == {"idle", "asked", "reserve", "signal", "kill", "request", "inspect", "commit",
             "complete"}
CancelRecord == [pc : CancelPc,
                 victim : Runs \cup {None}, target : Runs \cup {None}]
WorkerRecord == [id : Runs \cup {None}, process : {"none", "live", "stopped", "closed"},
                 run : Runs \cup {None}, stage : {"idle", "startup", "ready", "dispatched", "turn"},
                 thread : Runs \cup {None}, interrupted : BOOLEAN]

LEMMA RecordTypes ==
  ASSUME Typed
  PROVE  /\ exec \in [Runs -> ExecRecord]
         /\ cancel \in [Runs -> CancelRecord]
         /\ worker \in WorkerRecord
  BY DEF Typed, MemoryType, ExecRecord, CancelRecord, CancelPc, WorkerRecord

\* Only the execution of r moves, to pc, with the verdict.
ExecMoves(r, pc, verdict) ==
    /\ exec' \in [Runs -> ExecRecord]
    /\ exec'[r].pc = pc /\ exec'[r].verdict = verdict
    /\ \A s \in Runs : s # r => exec'[s] = exec[s]

LEMMA GotoMoves ==
  ASSUME Typed, NEW r \in Runs, NEW pc \in ExecPc, Goto(r, pc)
  PROVE  ExecMoves(r, pc, exec[r].verdict)
  <1>1. exec' = [exec EXCEPT ![r] = [exec[r] EXCEPT !.pc = pc]]
    BY DEF Goto
  <1>2. [exec[r] EXCEPT !.pc = pc] \in ExecRecord
    BY RecordTypes DEF ExecRecord
  <1>. QED BY <1>1, <1>2, RecordTypes DEF ExecMoves, ExecRecord

LEMMA VerdictMoves ==
  ASSUME Typed, NEW r \in Runs, NEW pc \in ExecPc, NEW verdict \in TerminalRun \cup {None},
         Verdict(r, pc, verdict)
  PROVE  ExecMoves(r, pc, verdict)
  <1>1. exec' = [exec EXCEPT ![r] = [exec[r] EXCEPT !.pc = pc, !.verdict = verdict]]
    BY DEF Verdict
  <1>2. [exec[r] EXCEPT !.pc = pc, !.verdict = verdict] \in ExecRecord
    BY RecordTypes DEF ExecRecord
  <1>. QED BY <1>1, <1>2, RecordTypes DEF ExecMoves, ExecRecord

LEMMA CaughtMoves ==
  ASSUME Typed, NEW r \in Runs, NEW verdict \in TerminalRun \cup {None}, Caught(r, verdict)
  PROVE  ExecMoves(r, "decide", verdict)
  <1>1. exec' = [exec EXCEPT ![r] = [exec[r] EXCEPT !.pc = "decide", !.verdict = verdict,
                                                    !.caught = TRUE]]
    BY DEF Caught
  <1>2. [exec[r] EXCEPT !.pc = "decide", !.verdict = verdict, !.caught = TRUE] \in ExecRecord
    BY RecordTypes DEF ExecRecord, ExecPc
  <1>. QED BY <1>1, <1>2, RecordTypes DEF ExecMoves, ExecRecord

LEMMA DoneMoves ==
  ASSUME Typed, NEW r \in Runs, Done(r)
  PROVE  ExecMoves(r, "done", None) /\ cancelled' \subseteq Runs
  <1>1. [IdleExec EXCEPT !.pc = "done"] \in ExecRecord
    BY DEF IdleExec, ExecRecord, ExecPc
  <1>. QED BY <1>1, RecordTypes
           DEF Done, ExecMoves, ExecRecord, IdleExec, Typed, MemoryType

LEMMA ScheduleMoves ==
  ASSUME Typed, NEW r \in Runs, Schedule(r)
  PROVE  ExecMoves(r, "load", exec[r].verdict)
  <1>1. exec' = [exec EXCEPT ![r] = [exec[r] EXCEPT !.pc = "load"]]
    BY DEF Schedule
  <1>2. [exec[r] EXCEPT !.pc = "load"] \in ExecRecord
    BY RecordTypes DEF ExecRecord, ExecPc
  <1>. QED BY <1>1, <1>2, RecordTypes DEF ExecMoves, ExecRecord

\* Only the cancellation of r moves, to pc, with the victim.
CancelMoves(r, pc, victim) ==
    /\ cancel' \in [Runs -> CancelRecord]
    /\ cancel'[r].pc = pc /\ cancel'[r].victim = victim
    /\ \A s \in Runs : s # r => cancel'[s] = cancel[s]

LEMMA CancelGotoMoves ==
  ASSUME Typed, NEW r \in Runs,
         NEW pc \in CancelPc,
         CancelGoto(r, pc)
  PROVE  CancelMoves(r, pc, cancel[r].victim)
  <1>1. cancel' = [cancel EXCEPT ![r] = [cancel[r] EXCEPT !.pc = pc]]
    BY DEF CancelGoto
  <1>2. [cancel[r] EXCEPT !.pc = pc] \in CancelRecord
    BY RecordTypes DEF CancelRecord
  <1>. QED BY <1>1, <1>2, RecordTypes DEF CancelMoves, CancelRecord

SubmitRecord == [pc : {"idle", "create", "completeStart", "reserve", "queue", "completeFollowup"},
                 id : Runs \cup {None}, session : Runs \cup {None}]

LEMMA MemoryTypeKept ==
  ASSUME host' \in {"up", "stopping", "draining", "down"}, nextRun' \in 1..(MaxRuns + 1),
         submit' \in SubmitRecord, cancel' \in [Runs -> CancelRecord],
         exec' \in [Runs -> ExecRecord], worker' \in WorkerRecord,
         cancelled' \subseteq Runs, awaited' \subseteq Runs
  PROVE  MemoryType'
  BY DEF MemoryType, SubmitRecord, CancelRecord, CancelPc, ExecRecord, WorkerRecord

\* A step that leaves the callers alone.
LEMMA RunnersTypes ==
  ASSUME Typed, RecordTyped', UNCHANGED <<host, nextRun, submit, awaited, story>>,
         exec' \in [Runs -> ExecRecord], worker' \in WorkerRecord,
         cancel' \in [Runs -> CancelRecord], cancelled' \subseteq Runs
  PROVE  Typed'
  <1>1. MemoryType'
    BY MemoryTypeKept DEF Typed, MemoryType, SubmitRecord
  <1>2. StoryType'
    BY DEF Typed, StoryType, history, story
  <1>. QED BY <1>1, <1>2 DEF Typed

LEMMA DurableKept ==
  ASSUME Typed, UNCHANGED kept
  PROVE  RecordTyped'
  BY DEF Typed, RecordTyped, durable, kept, task

\* What a step of an execution, the worker or a cancellation does to the record.
LEMMA RunnersEffects ==
  ASSUME Agreed, NEW r \in Runs, turns # <<>>, UNCHANGED reservation,
         receipt' \in [Runs -> TerminalRun \cup {None}],
         \/ Noted \/ Compiling(r) \/ Starting(r) \/ Ready(r) \/ Begun(r) \/ Interrupting(r)
         \/ \E verdict \in TerminalRun : Settle(r, verdict)
  PROVE  RecordTyped' /\ Born' /\ UNCHANGED <<turns, ledger>>
  <1>. USE DEF Agreed, Typed, RecordTyped, CancelAgrees, Born
  <1>1. ThreadOf(r) \in Runs \cup {None} /\ exec[r].session \in Runs \cup {None}
    BY RecordTypes DEF ThreadOf, ExecRecord
  <1>2. CASE Noted
    BY <1>2 DEF Noted, task
  <1>3. CASE Compiling(r) \/ Ready(r)
    BY <1>1, <1>3 DEF Compiling, Ready
  <1>4. CASE Starting(r) \/ Begun(r)
    BY <1>4 DEF Starting, Begun, LiveRun, ActiveStatuses
  <1>5. CASE Interrupting(r)
    <2>1. cancel[r].victim \in Runs \cup {None}
      BY RecordTypes DEF CancelRecord
    <2>. QED BY <1>5, <2>1 DEF Interrupting, Promise, task
  <1>6. ASSUME NEW verdict \in TerminalRun, Settle(r, verdict)
        PROVE  RecordTyped' /\ Born' /\ UNCHANGED <<turns, ledger>>
    BY <1>6 DEF Settle, TerminalRun
  <1>. QED BY <1>2, <1>3, <1>4, <1>5, <1>6

LEMMA CancelledType == Typed => cancelled \subseteq Runs
  BY DEF Typed, MemoryType

-----------------------------------------------------------------------------
(* Steps that leave parts of the invariant alone *)

core == <<turns, ledger, reservation, nextRun, submit, dispatches, acceptedIn, crashes, answers>>

\* Neither the executions nor the worker move.
LEMMA NobodyRuns ==
  ASSUME Agreed, Typed', UNCHANGED <<core, exec, worker>>,
         Born',
         \A r \in Runs : cancel'[r].pc \notin {"idle", "asked"} =>
            cancel'[r].victim \in Runs /\ turns # <<>>
  PROVE  Agreed'
  <1>. USE DEF Agreed, core
  <1>1. SubmitAgrees'
    BY DEF SubmitAgrees, OnRecord, Unscheduled
  <1>2. FreshRuns'
    BY DEF FreshRuns
  <1>3. ExecAgrees'
    BY DEF ExecAgrees, OnRecord
  <1>4. WorkerAgrees' /\ DispatchedOnceOnRecord' /\ AnswersKept'
    BY DEF WorkerAgrees, WorkerRunsWhatIsExecuted, DispatchedOnceOnRecord, AnswersKept
  <1>5. CancelAgrees'
    BY DEF CancelAgrees
  <1>. QED BY <1>1, <1>2, <1>3, <1>4, <1>5

\* An execution moves, outside the worker.
Early == {"load", "compile", "check", "starting", "runTurn"}
Decided == {"decide", "inspect", "commit"}
LEMMA ExecutionMoves ==
  ASSUME Agreed, Typed', NEW r \in Runs, NEW pc, NEW verdict,
         ExecMoves(r, pc, verdict), UNCHANGED <<core, worker, cancel>>,
         exec[r].pc \notin {"none", "running"}, pc \notin {"none", "running"},
         pc \in Early => exec[r].pc \in Early,
         pc \in Decided => verdict \in TerminalRun,
         Born'
  PROVE  Agreed'
  <1>. USE DEF Agreed, core, ExecMoves
  <1>1. SubmitAgrees'
    BY DEF SubmitAgrees, OnRecord, Unscheduled
  <1>2. FreshRuns'
    BY DEF FreshRuns
  <1>3. ExecAgrees'
    BY DEF ExecAgrees, OnRecord, Early, Decided
  <1>4. WorkerAgrees'
    BY DEF WorkerAgrees, WorkerRunsWhatIsExecuted
  <1>5. DispatchedOnceOnRecord' /\ AnswersKept' /\ CancelAgrees'
    BY DEF DispatchedOnceOnRecord, AnswersKept, CancelAgrees
  <1>. QED BY <1>1, <1>2, <1>3, <1>4, <1>5

\* The worker moves and keeps its turn.
LEMMA WorkerMoves ==
  ASSUME Agreed, Typed', UNCHANGED <<core, exec>>,
         worker'.run = worker.run,
         worker'.stage \in {"startup", "ready"} => worker.stage \in {"startup", "ready"},
         Born',
         \A r \in Runs : cancel'[r].pc \notin {"idle", "asked"} =>
            cancel'[r].victim \in Runs /\ turns # <<>>
  PROVE  Agreed'
  <1>. USE DEF Agreed, core
  <1>1. SubmitAgrees'
    BY DEF SubmitAgrees, OnRecord, Unscheduled
  <1>2. FreshRuns'
    BY DEF FreshRuns
  <1>3. ExecAgrees'
    BY DEF ExecAgrees, OnRecord
  <1>4. WorkerAgrees'
    BY DEF WorkerAgrees, WorkerRunsWhatIsExecuted
  <1>5. DispatchedOnceOnRecord' /\ AnswersKept' /\ CancelAgrees'
    BY DEF DispatchedOnceOnRecord, AnswersKept, CancelAgrees
  <1>. QED BY <1>1, <1>2, <1>3, <1>4, <1>5

\* The worker ends its turn: the execution has a verdict.
LEMMA TurnEnds ==
  ASSUME Agreed, Typed', NEW r \in Runs, worker.run = r, NEW verdict \in TerminalRun,
         ExecMoves(r, "decide", verdict), UNCHANGED core, Born',
         worker'.run = None,
         \A s \in Runs : cancel'[s].pc \notin {"idle", "asked"} =>
            cancel'[s].victim \in Runs /\ turns # <<>>
  PROVE  Agreed'
  <1>. USE ConstantAssumption DEF Agreed, core, ExecMoves
  <1>0. exec[r].pc = "running"
    BY DEF WorkerAgrees, WorkerRunsWhatIsExecuted
  <1>1. SubmitAgrees'
    BY <1>0 DEF SubmitAgrees, OnRecord, Unscheduled
  <1>2. FreshRuns'
    BY <1>0 DEF FreshRuns
  <1>3. ExecAgrees'
    BY <1>0 DEF ExecAgrees, OnRecord
  <1>4. WorkerAgrees'
    BY <1>0 DEF WorkerAgrees, WorkerRunsWhatIsExecuted, Runs
  <1>5. DispatchedOnceOnRecord' /\ AnswersKept' /\ CancelAgrees'
    BY DEF DispatchedOnceOnRecord, AnswersKept, CancelAgrees
  <1>. QED BY <1>1, <1>2, <1>3, <1>4, <1>5

-----------------------------------------------------------------------------
(* executeTurn *)

\* A step of an execution outside the worker.
LEMMA ExecutionKeeps ==
  ASSUME Agreed, NEW r \in Runs, NEW pc, NEW verdict, ExecMoves(r, pc, verdict),
         exec[r].pc \notin {"none", "running"}, pc \notin {"none", "running"},
         pc \in Early => exec[r].pc \in Early,
         pc \in Decided => verdict \in TerminalRun,
         \/ Noted \/ Compiling(r) \/ Starting(r)
         \/ \E v \in TerminalRun : Settle(r, v),
         receipt' \in [Runs -> TerminalRun \cup {None}], cancelled' \subseteq Runs,
         UNCHANGED <<reservation, host, nextRun, submit, cancel, worker, awaited, story>>
  PROVE  Agreed'
  <1>1. turns # <<>>
    BY DEF Agreed, ExecAgrees, OnRecord
  <1>2. RecordTyped' /\ Born' /\ UNCHANGED <<turns, ledger>>
    BY <1>1, RunnersEffects
  <1>3. Typed'
    BY <1>2, RecordTypes, RunnersTypes DEF Agreed, ExecMoves
  <1>4. UNCHANGED <<core, worker, cancel>>
    BY <1>2 DEF core, story
  <1>. QED BY <1>2, <1>3, <1>4, ExecutionMoves

LEMMA ReceiptType == Typed => receipt \in [Runs -> TerminalRun \cup {None}]
  BY DEF Typed, RecordTyped

LEMMA NotedKept == UNCHANGED durable => Noted /\ UNCHANGED <<kept, receipt, reservation, status>>
  BY DEF durable, Noted, kept, task

LEMMA StoryKept == UNCHANGED history => UNCHANGED story
  BY DEF history, story

LEMMA LoadTurnKeeps ==
  ASSUME Agreed, ShownAgrees, NEW r \in Runs, LoadTurn(r)
  PROVE  Agreed'
  <1>. DEFINE pc == IF turns[1] = r THEN "compile" ELSE "check"
  <1>1. exec' = [exec EXCEPT ![r] = [exec[r] EXCEPT !.pc = pc, !.session = shown.session]]
    BY DEF LoadTurn
  <1>2. [exec[r] EXCEPT !.pc = pc, !.session = shown.session] \in ExecRecord
    <2>1. exec[r] \in ExecRecord
      BY RecordTypes DEF Agreed
    <2>2. shown.session \in Runs \cup {None}
      BY DEF ShownAgrees, Records
    <2>3. pc \in ExecPc
      BY DEF ExecPc
    <2>. QED BY <2>1, <2>2, <2>3 DEF ExecRecord
  <1>3. ExecMoves(r, pc, exec[r].verdict)
    BY <1>1, <1>2, RecordTypes DEF Agreed, ExecMoves, ExecRecord
  <1>4. pc \in {"compile", "check"} /\ exec[r].pc = "load"
    BY DEF LoadTurn
  <1>. HIDE DEF pc
  <1>. QED BY <1>3, <1>4, ExecutionKeeps, NotedKept, StoryKept, ReceiptType, CancelledType
           DEF LoadTurn, Early, Decided, Agreed

\* The prepared context, the mark that the turn starts, and what prevents them.
LEMMA PrepareKeeps ==
  ASSUME Agreed, NEW r \in Runs,
         PrepareFails(r) \/ CompileContext(r) \/ TurnStarting(r) \/ PrepareThrows(r)
  PROVE  Agreed'
  <1>1. /\ Noted \/ Compiling(r) \/ Starting(r)
        /\ UNCHANGED <<receipt, reservation, host, nextRun, submit, cancel, cancelled, worker,
                       awaited, story>>
    BY NotedKept, StoryKept DEF PrepareFails, CompileContext, TurnStarting, PrepareThrows, Throws,
       Noted, story
  <1>2. PICK pc \in {"check", "runTurn", "decide"}, verdict \in TerminalRun \cup {None} :
           /\ ExecMoves(r, pc, verdict)
           /\ pc = "decide" => verdict = "failed"
           /\ exec[r].pc \in Early
    <2>1. CASE PrepareFails(r) \/ PrepareThrows(r)
      <3>1. Caught(r, "failed") /\ exec[r].pc \in Early
        BY <2>1 DEF PrepareFails, PrepareThrows, Early
      <3>. QED BY <3>1, CaughtMoves DEF Agreed, TerminalRun
    <2>2. CASE CompileContext(r) \/ TurnStarting(r)
      <3>1. exec[r].verdict \in TerminalRun \cup {None} /\ {"check", "runTurn"} \subseteq ExecPc
        BY RecordTypes DEF Agreed, ExecRecord, ExecPc
      <3>2. exec[r].pc \in Early /\ \E pc \in {"check", "runTurn"} : Goto(r, pc)
        BY <2>2 DEF CompileContext, TurnStarting, Early
      <3>. QED BY <3>1, <3>2, GotoMoves DEF Agreed
    <2>. QED BY <2>1, <2>2
  <1>. QED BY <1>1, <1>2, ExecutionKeeps, ReceiptType, CancelledType
           DEF Early, Decided, TerminalRun, Agreed

LEMMA CheckCancelledKeeps ==
  ASSUME Agreed, NEW r \in Runs, CheckCancelled(r)
  PROVE  Agreed'
  <1>1. PICK pc \in {"inspect", "starting"}, verdict \in TerminalRun \cup {None} :
           ExecMoves(r, pc, verdict) /\ (pc = "inspect" => verdict = "interrupted")
    <2>1. CASE r \in cancelled
      BY <2>1, VerdictMoves DEF CheckCancelled, Agreed, ExecPc, TerminalRun
    <2>2. CASE r \notin cancelled
      BY <2>2, GotoMoves, RecordTypes DEF CheckCancelled, Agreed, ExecPc, ExecRecord
    <2>. QED BY <2>1, <2>2
  <1>. QED BY <1>1, ExecutionKeeps, NotedKept, StoryKept, ReceiptType, CancelledType
           DEF CheckCancelled, Early, Decided, TerminalRun, Agreed

\* The runtime refuses the turn, or its worker takes it.
LEMMA RunTurnKeeps ==
  ASSUME Agreed, NEW r \in Runs, RunTurn(r)
  PROVE  Agreed'
  <1>1. CASE host # "up" \/ worker.run # None
    <2>1. PICK verdict \in TerminalRun : Caught(r, verdict)
      BY <1>1 DEF RunTurn, TerminalRun
    <2>2. ExecMoves(r, "decide", verdict)
      BY <2>1, CaughtMoves DEF Agreed
    <2>3. exec[r].pc = "runTurn" /\ UNCHANGED <<core, worker, cancel, status>>
      BY <1>1 DEF RunTurn, core, durable, kept, task, history, story
    <2>4. Typed'
      BY NotedKept, StoryKept, <2>2, <2>3, RecordTypes, CancelledType, DurableKept, RunnersTypes DEF RunTurn, Agreed, ExecMoves
    <2>. QED BY <2>2, <2>3, <2>4, ExecutionMoves DEF Early, Decided, Agreed, CancelAgrees, Born, core
  <1>2. CASE host = "up" /\ worker.run = None
    <2>1. Goto(r, "running")
      BY <1>2 DEF RunTurn
    <2>2. ExecMoves(r, "running", exec[r].verdict)
      BY <2>1, GotoMoves DEF Agreed, ExecPc
    <2>3. worker' \in WorkerRecord /\ worker'.run = r /\ worker'.stage = "startup"
      <3>1. worker \in WorkerRecord /\ NoWorker \in WorkerRecord
        BY RecordTypes DEF Agreed, NoWorker, WorkerRecord
      <3>2. \/ worker' = [worker EXCEPT !.run = r, !.stage = "startup", !.interrupted = FALSE]
            \/ worker' = [NoWorker EXCEPT !.id = r, !.process = "live", !.run = r,
                                          !.stage = "startup"]
        BY <1>2 DEF RunTurn
      <3>. HIDE DEF NoWorker
      <3>. QED BY <3>1, <3>2 DEF WorkerRecord
    <2>4. exec[r].pc = "runTurn" /\ UNCHANGED <<core, cancel, status>>
      BY DEF RunTurn, core, durable, kept, task, history, story
    <2>5. Typed'
      BY NotedKept, StoryKept, <2>2, <2>3, RecordTypes, CancelledType, DurableKept, RunnersTypes DEF RunTurn, Agreed, ExecMoves
    <2>. USE DEF Agreed, core, ExecMoves
    <2>6. SubmitAgrees'
      BY <2>2, <2>4 DEF SubmitAgrees, OnRecord, Unscheduled
    <2>7. FreshRuns'
      BY <2>2, <2>4 DEF FreshRuns
    <2>8. ExecAgrees'
      BY <2>2, <2>4 DEF ExecAgrees, OnRecord
    <2>9. WorkerAgrees'
      <3>1. \A s \in Runs : exec[s].pc # "running"
        BY <1>2, ConstantAssumption DEF WorkerAgrees, WorkerRunsWhatIsExecuted, Runs
      <3>2. dispatches[r] = 0
        BY <2>4 DEF ExecAgrees
      <3>. QED BY <2>2, <2>3, <2>4, <3>1, <3>2 DEF WorkerAgrees, WorkerRunsWhatIsExecuted
    <2>10. DispatchedOnceOnRecord' /\ AnswersKept' /\ CancelAgrees'
      BY <2>4 DEF DispatchedOnceOnRecord, AnswersKept, CancelAgrees, Born
    <2>. QED BY <2>5, <2>6, <2>7, <2>8, <2>9, <2>10
  <1>. QED BY <1>1, <1>2

LEMMA DecideKeeps ==
  ASSUME Agreed, NEW r \in Runs, Decide(r)
  PROVE  Agreed'
  <1>1. PICK verdict \in TerminalRun : Verdict(r, "inspect", verdict)
    BY DEF Decide, Agreed, ExecAgrees, TerminalRun
  <1>2. ExecMoves(r, "inspect", verdict)
    BY <1>1, VerdictMoves DEF Agreed, ExecPc
  <1>. QED BY <1>2, ExecutionKeeps, NotedKept, StoryKept, ReceiptType, CancelledType
           DEF Decide, Early, Decided, Agreed

\* finalize*: the receipt, the transition, and their failure.
LEMMA SettleKeeps ==
  ASSUME Agreed, NEW r \in Runs, Inspect(r) \/ CommitVerdict(r) \/ SettleThrows(r)
  PROVE  Agreed'
  <1>1. exec[r].pc \in {"inspect", "commit"} /\ exec[r].verdict \in TerminalRun
    BY DEF Inspect, CommitVerdict, SettleThrows, Agreed, ExecAgrees
  <1>2. UNCHANGED <<reservation, host, nextRun, submit, cancel, worker, awaited, story>>
    BY StoryKept DEF Inspect, CommitVerdict, SettleThrows, story
  <1>3. Noted \/ \E v \in TerminalRun : Settle(r, v)
    BY <1>1 DEF Inspect, CommitVerdict, SettleThrows, ReceiptThrows, Throws, Noted
  <1>4. receipt' \in [Runs -> TerminalRun \cup {None}]
    BY <1>1, ReceiptType DEF Agreed, Inspect, LeftAlone, CommitVerdict, SettleThrows, ReceiptThrows
  <1>5. PICK pc \in {"done", "commit", "decide"}, verdict \in TerminalRun \cup {None} :
           /\ ExecMoves(r, pc, verdict) /\ (pc # "done" => verdict \in TerminalRun)
           /\ cancelled' \subseteq Runs
    <2>1. CASE Done(r)
      BY <2>1, DoneMoves DEF Agreed
    <2>2. CASE Goto(r, "commit") /\ UNCHANGED cancelled
      BY <1>1, <2>2, GotoMoves, CancelledType DEF Agreed, ExecPc
    <2>3. CASE Caught(r, "failed") /\ UNCHANGED cancelled
      BY <2>3, CaughtMoves, CancelledType DEF Agreed, TerminalRun
    <2>. QED BY <2>1, <2>2, <2>3 DEF Inspect, LeftAlone, CommitVerdict, SettleThrows
  <1>. QED BY <1>1, <1>2, <1>3, <1>4, <1>5, ExecutionKeeps DEF Early, Decided

-----------------------------------------------------------------------------
(* The worker *)

\* An event of the turn is recorded.
LEMMA EventKeeps ==
  ASSUME Agreed, NEW r \in Runs, SessionReady(r) \/ TurnStarted(r) \/ OtherEvent(r)
  PROVE  Agreed'
  <1>1. /\ Noted \/ Ready(r) \/ Begun(r)
        /\ UNCHANGED <<receipt, reservation, host, nextRun, submit, cancel, exec, cancelled,
                       awaited, story>>
    BY StoryKept DEF SessionReady, TurnStarted, OtherEvent, memory
  <1>2. worker.run = r /\ turns # <<>>
    <2>1. worker.run = r
      BY DEF SessionReady, Startable, TurnStarted, OtherEvent, At
    <2>. QED BY <2>1 DEF Agreed, WorkerAgrees, WorkerRunsWhatIsExecuted, ExecAgrees, OnRecord
  <1>3. /\ worker' \in WorkerRecord /\ worker'.run = worker.run
        /\ worker'.stage \in {"startup", "ready"} => worker.stage \in {"startup", "ready"}
    <2>1. worker \in WorkerRecord /\ ThreadOf(r) \in Runs \cup {None}
      BY RecordTypes DEF Agreed, ThreadOf, ExecRecord
    <2>2. CASE SessionReady(r)
      BY <2>1, <2>2 DEF SessionReady, Startable, At, WorkerRecord
    <2>3. CASE TurnStarted(r)
      BY <2>1, <2>3 DEF TurnStarted, WorkerRecord
    <2>4. CASE OtherEvent(r)
      BY <2>1, <2>4 DEF OtherEvent, memory
    <2>. QED BY <2>2, <2>3, <2>4
  <1>4. RecordTyped' /\ Born' /\ UNCHANGED <<turns, ledger>>
    BY <1>1, <1>2, ReceiptType, RunnersEffects DEF Agreed
  <1>5. Typed'
    BY <1>1, <1>3, <1>4, RecordTypes, CancelledType, RunnersTypes DEF Agreed
  <1>6. UNCHANGED <<core, exec, cancel>>
    BY <1>1, <1>4 DEF core, story
  <1>. QED BY <1>3, <1>4, <1>5, <1>6, WorkerMoves DEF Agreed, CancelAgrees

LEMMA DispatchKeeps ==
  ASSUME Agreed, NEW r \in Runs, Dispatch(r)
  PROVE  Agreed'
  <1>1. worker.run = r /\ worker.stage = "ready" /\ dispatches[r] = 0 /\ exec[r].pc = "running"
    BY ConstantAssumption DEF Runs, Dispatch, At, Agreed, WorkerAgrees, WorkerRunsWhatIsExecuted
  <1>2. worker' \in WorkerRecord /\ worker'.run = r /\ worker'.stage = "dispatched"
    BY <1>1, RecordTypes DEF Dispatch, WorkerRecord, Agreed
  <1>3. dispatches' = [dispatches EXCEPT ![r] = 1]
    BY <1>1 DEF Dispatch
  <1>4. /\ UNCHANGED <<turns, ledger, reservation, nextRun, submit, acceptedIn, crashes, answers,
                       exec, cancel, status>>
        /\ dispatches \in [Runs -> Nat]
    BY DEF Dispatch, durable, kept, task, Agreed, Typed, StoryType
  <1>5. Typed'
    <2>1. RecordTyped'
      BY NotedKept, DurableKept DEF Dispatch, Agreed
    <2>2. StoryType'
      <3>1. worker.thread \in Runs \cup {None}
        BY RecordTypes DEF Agreed, WorkerRecord
      <3>. QED BY <3>1, <1>3 DEF Dispatch, Agreed, Typed, StoryType
    <2>3. MemoryType'
      <3>1. /\ host \in {"up", "stopping", "draining", "down"} /\ nextRun \in 1..(MaxRuns + 1)
            /\ submit \in SubmitRecord /\ awaited \subseteq Runs
        BY DEF Agreed, Typed, MemoryType, SubmitRecord
      <3>. QED BY <1>2, <3>1, RecordTypes, CancelledType, MemoryTypeKept DEF Dispatch, Agreed
    <2>. QED BY <2>1, <2>2, <2>3 DEF Typed
  <1>. USE DEF Agreed
  <1>6. SubmitAgrees'
    BY <1>1, <1>3, <1>4 DEF SubmitAgrees, OnRecord, Unscheduled
  <1>7. FreshRuns'
    BY <1>1, <1>3, <1>4 DEF FreshRuns
  <1>8. ExecAgrees'
    BY <1>1, <1>3, <1>4 DEF ExecAgrees, OnRecord
  <1>9. WorkerAgrees'
    BY <1>1, <1>2, <1>4 DEF WorkerAgrees, WorkerRunsWhatIsExecuted
  <1>10. DispatchedOnceOnRecord'
    BY <1>1, <1>3, <1>4 DEF DispatchedOnceOnRecord, ExecAgrees, OnRecord
  <1>11. AnswersKept' /\ CancelAgrees'
    BY <1>4 DEF AnswersKept, CancelAgrees, Born
  <1>. QED BY <1>5, <1>6, <1>7, <1>8, <1>9, <1>10, <1>11

\* The turn of the worker ends, by itself or because a cancellation stops the worker.
LEMMA WorkerEndsKeeps ==
  ASSUME Agreed, NEW r \in Runs, worker.run = r, NEW verdict \in TerminalRun,
         ExecMoves(r, "decide", verdict), worker' \in WorkerRecord, worker'.run = None,
         Noted \/ Ready(r) \/ Begun(r),
         UNCHANGED <<receipt, reservation, host, nextRun, submit, awaited, story>>,
         cancelled' \subseteq Runs, cancel' \in [Runs -> CancelRecord],
         \A s \in Runs : cancel'[s].pc \notin {"idle", "asked"} =>
            cancel'[s].victim \in Runs /\ turns # <<>>
  PROVE  Agreed'
  <1>1. turns # <<>>
    BY DEF Agreed, WorkerAgrees, WorkerRunsWhatIsExecuted, ExecAgrees, OnRecord
  <1>2. RecordTyped' /\ Born' /\ UNCHANGED <<turns, ledger>>
    BY <1>1, ReceiptType, RunnersEffects DEF Agreed
  <1>3. Typed'
    BY <1>2, RunnersTypes DEF Agreed, ExecMoves
  <1>4. UNCHANGED core
    BY <1>2 DEF core, story
  <1>. QED BY <1>2, <1>3, <1>4, TurnEnds

LEMMA TurnlessType ==
  ASSUME Typed, NEW process \in {"none", "live", "stopped", "closed"}, worker' = Turnless(process)
  PROVE  worker' \in WorkerRecord /\ worker'.run = None /\ worker'.stage = "idle"
  BY RecordTypes DEF Turnless, NoWorker, WorkerRecord

LEMMA WorkerEndKeeps ==
  ASSUME Agreed, NEW r \in Runs,
         TurnCompleted(r) \/ EventThrows(r) \/ WorkerFails(r) \/ StartupCancelled(r) \/ WorkerLost(r)
  PROVE  Agreed'
  <1>1. PICK verdict \in TerminalRun, process \in {"none", "live", "stopped", "closed"} :
           /\ worker' = Turnless(process)
           /\ Verdict(r, "decide", verdict) \/ Caught(r, verdict)
    <2>1. worker.process \in {"none", "live", "stopped", "closed"}
      BY RecordTypes DEF Agreed, WorkerRecord
    <2>2. CASE TurnCompleted(r)
      BY <2>1, <2>2 DEF TurnCompleted, TerminalRun
    <2>3. CASE WorkerFails(r) \/ StartupCancelled(r) \/ WorkerLost(r) \/ EventThrows(r)
      BY <2>3 DEF WorkerFails, StartupCancelled, WorkerLost, EventThrows, WorkerEnds, TerminalRun
    <2>. QED BY <2>2, <2>3
  <1>2. ExecMoves(r, "decide", verdict)
    BY <1>1, VerdictMoves, CaughtMoves DEF Agreed, ExecPc
  <1>3. /\ worker.run = r
        /\ Noted \/ Ready(r) \/ Begun(r)
        /\ UNCHANGED <<receipt, reservation, host, nextRun, submit, cancel, cancelled, awaited, story>>
    BY NotedKept, StoryKept DEF TurnCompleted, WorkerFails, StartupCancelled, WorkerLost, EventThrows,
       Startable, At, Throws, Noted, story
  <1>. QED BY <1>1, <1>2, <1>3, TurnlessType, RecordTypes, CancelledType, WorkerEndsKeeps
           DEF Agreed, CancelAgrees

LEMMA IdleExitKeeps == Agreed /\ IdleExit => Agreed'
  <1>. SUFFICES ASSUME Agreed, IdleExit PROVE Agreed'
    OBVIOUS
  <1>1. worker' \in WorkerRecord /\ worker'.run = worker.run /\ worker'.stage = "idle"
    BY DEF IdleExit, NoWorker, WorkerRecord
  <1>2. Typed'
    BY NotedKept, StoryKept, <1>1, RecordTypes, CancelledType, DurableKept, RunnersTypes DEF IdleExit, Agreed
  <1>3. UNCHANGED <<core, exec, cancel, status>>
    BY DEF IdleExit, core, durable, kept, task, history, story
  <1>. QED BY <1>1, <1>2, <1>3, WorkerMoves DEF Agreed, CancelAgrees, Born, core

-----------------------------------------------------------------------------
(* The cancellation of a run's job *)

\* Steps that change the record, the receipts or the ledger of cancellations, and nothing that runs.
LEMMA CancelTypes ==
  ASSUME Agreed, RecordTyped', NEW r \in Runs, NEW pc, NEW victim, CancelMoves(r, pc, victim),
         told' \subseteq Runs,
         UNCHANGED <<host, nextRun, submit, exec, cancelled, worker, awaited,
                     crashes, dispatches, thread, acceptedIn, answers>>
  PROVE  Typed'
  <1>1. StoryType'
    BY DEF Agreed, Typed, StoryType
  <1>2. MemoryType'
    <2>1. /\ host \in {"up", "stopping", "draining", "down"} /\ nextRun \in 1..(MaxRuns + 1)
          /\ submit \in SubmitRecord /\ awaited \subseteq Runs /\ cancelled \subseteq Runs
      BY DEF Agreed, Typed, MemoryType, SubmitRecord
    <2>. QED BY <2>1, RecordTypes, MemoryTypeKept DEF Agreed, CancelMoves
  <1>. QED BY <1>1, <1>2 DEF Typed

LEMMA CancelKeeps ==
  ASSUME Agreed, NEW r \in Runs, NEW pc, NEW victim, CancelMoves(r, pc, victim),
         pc \notin {"idle", "asked"} => victim \in Runs /\ turns # <<>>,
         \/ Noted
         \/ /\ turns # <<>>
            /\ Interrupting(r) \/ \E s \in Runs, v \in TerminalRun : Settle(s, v),
         receipt' \in [Runs -> TerminalRun \cup {None}], told' \subseteq Runs,
         UNCHANGED <<reservation, host, nextRun, submit, exec, cancelled, worker,
                     awaited, crashes, dispatches, thread, acceptedIn, answers>>
  PROVE  Agreed'
  <1>0. RecordTyped' /\ Born' /\ UNCHANGED <<turns, ledger>>
    <2>1. CASE Noted
      BY <2>1 DEF Noted, task, Agreed, Typed, RecordTyped, CancelAgrees, Born
    <2>2. CASE ~Noted
      BY <2>2, RunnersEffects
    <2>. QED BY <2>1, <2>2
  <1>1. Typed'
    BY <1>0, CancelTypes
  <1>2. UNCHANGED <<core, exec, worker>>
    BY <1>0 DEF core
  <1>3. \A s \in Runs : cancel'[s].pc \notin {"idle", "asked"} =>
            cancel'[s].victim \in Runs /\ turns # <<>>
    BY DEF Agreed, CancelAgrees, CancelMoves
  <1>. QED BY <1>0, <1>1, <1>2, <1>3, NobodyRuns

LEMMA ToldType ==
  ASSUME Typed, NEW r \in Runs, NEW record, UNCHANGED told \/ Tell(r, record)
  PROVE  told' \subseteq Runs
  BY DEF Typed, StoryType, Tell

LEMMA IdleCancelMoves ==
  ASSUME Typed, NEW r \in Runs, cancel' = [cancel EXCEPT ![r] = IdleCancel]
  PROVE  CancelMoves(r, "idle", None)
  BY RecordTypes DEF CancelMoves, CancelRecord, CancelPc, IdleCancel

\* The cancellation is over: refused, completed, or ended by a throw.
LEMMA CancelEndKeeps ==
  ASSUME Agreed, NEW r \in Runs,
         InterruptRefused(r) \/ CompleteInterrupt(r) \/ CancelThrows(r)
  PROVE  Agreed'
  <1>1. CancelMoves(r, "idle", None)
    BY IdleCancelMoves DEF InterruptRefused, CompleteInterrupt, CancelThrows, Agreed
  <1>2. UNCHANGED <<reservation, host, nextRun, submit, exec, cancelled,
                    worker, awaited, crashes, dispatches, thread, acceptedIn, answers>>
    BY NotedKept DEF InterruptRefused, CompleteInterrupt, CancelThrows
  <1>3. told' \subseteq Runs
    BY ToldType DEF InterruptRefused, CompleteInterrupt, CancelThrows, Agreed
  <1>4. \/ Noted
        \/ /\ turns # <<>>
           /\ Interrupting(r) \/ \E s \in Runs, v \in TerminalRun : Settle(s, v)
    <2>1. CASE InterruptRefused(r) \/ CompleteInterrupt(r)
      BY <2>1, NotedKept DEF InterruptRefused, CompleteInterrupt
    <2>2. CASE CancelThrows(r) /\ ~Noted
      <3>1. cancel[r].pc \in {"reserve", "commit"}
        BY <2>2 DEF CancelThrows, Throws, ReceiptThrows, Noted
      <3>2. turns # <<>> /\ cancel[r].victim \in Runs
        BY <3>1 DEF Agreed, CancelAgrees
      <3>. QED BY <2>2, <3>1, <3>2 DEF CancelThrows, Throws, ReceiptThrows, Noted, TerminalRun
    <2>. QED BY <2>1, <2>2 DEF CancelThrows
  <1>5. receipt' \in [Runs -> TerminalRun \cup {None}]
    BY NotedKept, ReceiptType
       DEF InterruptRefused, CompleteInterrupt, CancelThrows, ReceiptThrows, Agreed, TerminalRun
  <1>. QED BY <1>1, <1>2, <1>3, <1>4, <1>5, CancelKeeps

\* The steps of a cancellation that change nothing that runs.
LEMMA CancelMovesOn ==
  ASSUME Agreed, NEW r \in Runs,
         CancelCheck(r) \/ ReserveInterrupt(r) \/ NoProcess(r) \/ InspectVictim(r) \/ SettleVictim(r)
  PROVE  Agreed'
  <1>1. PICK pc \in CancelPc : CancelGoto(r, pc) /\ (CancelCheck(r) => pc = "asked")
    BY DEF CancelCheck, ReserveInterrupt, NoProcess, InspectVictim, SettleVictim, CancelPc
  <1>2. CancelMoves(r, pc, cancel[r].victim)
    BY <1>1, CancelGotoMoves DEF Agreed
  <1>3. \/ CancelCheck(r) /\ Noted
        \/ cancel[r].victim \in Runs /\ turns # <<>>
    BY NotedKept DEF CancelCheck, ReserveInterrupt, NoProcess, InspectVictim, SettleVictim, Agreed,
       CancelAgrees
  <1>4. Noted \/ Interrupting(r) \/ Settle(cancel[r].victim, "interrupted")
    BY NotedKept, <1>3 DEF ReserveInterrupt, NoProcess, InspectVictim, SettleVictim, Noted, CancelCheck
  <1>5. /\ receipt' \in [Runs -> TerminalRun \cup {None}]
        /\ UNCHANGED <<reservation, host, nextRun, submit, exec, cancelled,
                       worker, awaited, crashes, dispatches, thread, acceptedIn, answers, told>>
    BY <1>3, NotedKept, ReceiptType
       DEF CancelCheck, ReserveInterrupt, NoProcess, InspectVictim, SettleVictim, Agreed, history,
           TerminalRun
  <1>. QED BY <1>1, <1>2, <1>3, <1>4, <1>5, ToldType, CancelKeeps DEF Agreed, TerminalRun

LEMMA InterruptAcceptedKeeps ==
  ASSUME Agreed, ShownAgrees, NEW r \in Runs, InterruptAccepted(r)
  PROVE  Agreed'
  <1>1. shown.turns # <<>>
    BY DEF InterruptAccepted, Interruptible, ActiveStatuses, ShownAgrees
  <1>2. Latest(shown) \in Runs /\ turns # <<>>
    <2>1. shown.turns \in Seq(Runs) /\ Len(shown.turns) <= Len(turns)
      BY DEF ShownAgrees, Records, Grows, Record
    <2>. QED BY <1>1, <2>1 DEF Latest
  <1>3. CancelMoves(r, "reserve", Latest(shown))
    <2>1. cancel' = [cancel EXCEPT ![r] = [cancel[r] EXCEPT !.pc = "reserve",
                                                            !.victim = Latest(shown)]]
      BY DEF InterruptAccepted
    <2>2. [cancel[r] EXCEPT !.pc = "reserve", !.victim = Latest(shown)] \in CancelRecord
      BY <1>2, RecordTypes DEF CancelRecord, CancelPc, Agreed
    <2>. QED BY <2>1, <2>2, RecordTypes DEF CancelMoves, CancelRecord, Agreed
  <1>4. /\ Noted
        /\ UNCHANGED <<receipt, reservation, host, nextRun, submit, exec, cancelled, worker, awaited,
                       crashes, dispatches, thread, acceptedIn, answers, told>>
    BY NotedKept DEF InterruptAccepted, history
  <1>. QED BY <1>2, <1>3, <1>4, ReceiptType, ToldType, CancelKeeps DEF Agreed

\* stopProcessTree of the worker w, while one cancellation moves on.
LEMMA KillWorkerKeeps ==
  ASSUME Agreed, NEW w \in Runs \cup {None}, KillWorker(w), NEW r \in Runs,
         CancelMoves(r, "complete", cancel[r].victim), cancel[r].victim \in Runs, turns # <<>>,
         UNCHANGED <<kept, host, nextRun, submit, awaited, story>>, cancelled' \subseteq Runs
  PROVE  Agreed'
  <1>1. UNCHANGED <<core, status>>
    BY DEF core, durable, kept, task, history, story
  <1>2. /\ cancel' \in [Runs -> CancelRecord]
        /\ \A s \in Runs : cancel'[s].pc \notin {"idle", "asked"} =>
              cancel'[s].victim \in Runs /\ turns # <<>>
    BY DEF Agreed, CancelAgrees, CancelMoves
  <1>3. CASE worker.id = w /\ worker.run # None
    <2>1. worker.run \in Runs
      BY <1>3, RecordTypes DEF Agreed, WorkerRecord
    <2>2. WorkerEnds(worker.run, "interrupted", "closed")
      BY <1>3 DEF KillWorker
    <2>3. /\ ExecMoves(worker.run, "decide", "interrupted")
          /\ worker' \in WorkerRecord /\ worker'.run = None
      BY <2>1, <2>2, CaughtMoves, TurnlessType DEF WorkerEnds, Agreed, TerminalRun
    <2>4. Noted /\ UNCHANGED <<receipt, reservation>>
      BY DEF kept, Noted
    <2>. QED BY <1>2, <2>1, <2>3, <2>4, WorkerEndsKeeps DEF TerminalRun
  <1>4. CASE worker.id # w \/ worker.run = None
    <2>1. /\ worker' \in WorkerRecord /\ worker'.run = worker.run /\ exec' = exec
          /\ worker'.stage \in {"startup", "ready"} => worker.stage \in {"startup", "ready"}
      <3>1. NoWorker \in WorkerRecord /\ NoWorker.run = None /\ NoWorker.stage = "idle"
        BY DEF NoWorker, WorkerRecord
      <3>2. CASE worker.id # w
        BY <3>2, RecordTypes DEF KillWorker, Agreed
      <3>3. CASE worker.id = w
        BY <1>4, <3>1, <3>3 DEF KillWorker
      <3>. QED BY <3>2, <3>3
    <2>2. Typed'
      BY <1>2, <2>1, RecordTypes, DurableKept, RunnersTypes DEF Agreed
    <2>. QED BY <1>1, <1>2, <2>1, <2>2, WorkerMoves DEF Agreed, CancelAgrees, Born, core
  <1>. QED BY <1>3, <1>4

LEMMA SignalKeeps ==
  ASSUME Agreed, NEW r \in Runs, Signal(r)
  PROVE  Agreed'
  <1>1. cancel[r].victim \in Runs /\ turns # <<>>
    BY DEF Signal, Agreed, CancelAgrees
  <1>2. /\ UNCHANGED <<kept, host, nextRun, submit, awaited, story>>
        /\ cancelled' \subseteq Runs
    BY NotedKept, StoryKept, <1>1, CancelledType DEF Signal, Agreed
  <1>3. UNCHANGED <<core, status>>
    BY <1>2 DEF core, durable, kept, task, history, story
  <1>4. CASE worker.run # None /\ worker.stage # "turn"
    <2>1. CancelGoto(r, "complete") /\ KillWorker(worker.id)
      BY <1>4 DEF Signal
    <2>2. CancelMoves(r, "complete", cancel[r].victim)
      BY <2>1, CancelGotoMoves DEF Agreed, CancelPc
    <2>3. worker.id \in Runs \cup {None}
      BY RecordTypes DEF Agreed, WorkerRecord
    <2>. QED BY <1>1, <1>2, <2>1, <2>2, <2>3, KillWorkerKeeps
  <1>5. CASE worker.run = None \/ worker.stage = "turn"
    <2>1. /\ worker' \in WorkerRecord /\ worker'.run = worker.run /\ exec' = exec
          /\ worker'.stage = worker.stage
      <3>1. worker \in WorkerRecord
        BY RecordTypes DEF Agreed
      <3>2. exec' = exec /\ (worker' = worker \/ worker' = [worker EXCEPT !.interrupted = TRUE])
        BY <1>5 DEF Signal
      <3>. QED BY <3>1, <3>2 DEF WorkerRecord
    <2>2. PICK pc \in {"request", "kill"} : CancelMoves(r, pc, cancel[r].victim)
      <3>1. CASE worker.run = None
        BY <3>1, CancelGotoMoves DEF Signal, Agreed, CancelPc
      <3>2. CASE worker.run # None
        <4>1. cancel' = [cancel EXCEPT ![r] = [cancel[r] EXCEPT !.pc = "kill", !.target = worker.id]]
          BY <1>5, <3>2 DEF Signal
        <4>2. worker.id \in Runs \cup {None}
          BY RecordTypes DEF Agreed, WorkerRecord
        <4>3. [cancel[r] EXCEPT !.pc = "kill", !.target = worker.id] \in CancelRecord
          BY <4>2, RecordTypes DEF CancelRecord, Agreed, CancelPc
        <4>. QED BY <4>1, <4>3, RecordTypes DEF CancelMoves, CancelRecord, Agreed
      <3>. QED BY <3>1, <3>2
    <2>3. /\ cancel' \in [Runs -> CancelRecord]
          /\ \A s \in Runs : cancel'[s].pc \notin {"idle", "asked"} =>
                cancel'[s].victim \in Runs /\ turns # <<>>
      BY <1>1, <2>2 DEF Agreed, CancelAgrees, CancelMoves
    <2>4. Typed'
      BY <1>2, <2>1, <2>3, RecordTypes, DurableKept, RunnersTypes DEF Agreed
    <2>. QED BY <1>3, <2>1, <2>3, <2>4, WorkerMoves DEF Agreed, CancelAgrees, Born, core
  <1>. QED BY <1>4, <1>5

LEMMA KillKeeps ==
  ASSUME Agreed, NEW r \in Runs, Kill(r)
  PROVE  Agreed'
  <1>1. cancel[r].victim \in Runs /\ turns # <<>> /\ cancel[r].target \in Runs \cup {None}
    BY RecordTypes DEF Kill, Agreed, CancelAgrees, CancelRecord
  <1>2. CancelMoves(r, "complete", cancel[r].victim)
    BY CancelGotoMoves DEF Kill, Agreed, CancelPc
  <1>. QED BY NotedKept, StoryKept, <1>1, <1>2, CancelledType, KillWorkerKeeps DEF Kill, Agreed

-----------------------------------------------------------------------------
(* The start tool *)

\* A step of the start or follow-up in progress, which leaves the executions and the record alone.
LEMMA CallersTypes ==
  ASSUME Typed, RecordTyped', UNCHANGED <<host, cancel, exec, cancelled, worker, awaited>>,
         nextRun' \in 1..(MaxRuns + 1), submit' \in SubmitRecord, StoryType'
  PROVE  Typed'
  <1>1. MemoryType'
    <2>1. host \in {"up", "stopping", "draining", "down"} /\ awaited \subseteq Runs
      BY DEF Typed, MemoryType
    <2>. QED BY <2>1, RecordTypes, CancelledType, MemoryTypeKept
  <1>. QED BY <1>1 DEF Typed

LEMMA SubmitType == Typed => submit \in SubmitRecord
  BY DEF Typed, MemoryType, SubmitRecord

\* An answer is what the ledger has for the request.
LEMMA AnswerKeeps ==
  ASSUME Agreed, NEW q \in Requests, NEW r \in Runs, ledger[q] = r, Answer(q, r),
         UNCHANGED <<task, ledger, cancelLedger, receipt, host, nextRun, cancel, cancelled, worker,
                     awaited, crashes, dispatches, thread, acceptedIn, told>>,
         \/ exec' = exec
         \/ submit.pc = "completeStart" /\ submit.id = r /\ Schedule(r)
  PROVE  Agreed'
  <1>1. submit' = IdleSubmit /\ IdleSubmit \in SubmitRecord /\ IdleSubmit.pc = "idle"
    BY DEF Answer, IdleSubmit, SubmitRecord
  <1>2. exec' \in [Runs -> ExecRecord]
    BY ScheduleMoves, RecordTypes DEF Agreed, ExecMoves
  <1>3. Typed'
    <2>1. RecordTyped'
      BY DEF Answer, task, Agreed, Typed, RecordTyped
    <2>2. StoryType'
      BY DEF Answer, Agreed, Typed, StoryType
    <2>3. MemoryType'
      <3>1. /\ host \in {"up", "stopping", "draining", "down"} /\ nextRun \in 1..(MaxRuns + 1)
            /\ awaited \subseteq Runs
        BY DEF Agreed, Typed, MemoryType
      <3>. QED BY <1>1, <1>2, <3>1, RecordTypes, CancelledType, MemoryTypeKept DEF Agreed
    <2>. QED BY <2>1, <2>2, <2>3 DEF Typed
  <1>. USE DEF Agreed
  <1>4. SubmitAgrees'
    BY <1>1 DEF SubmitAgrees, Unscheduled, task
  <1>5. FreshRuns' /\ ExecAgrees' /\ WorkerAgrees'
    <2>1. CASE exec' = exec
      BY <2>1 DEF task, FreshRuns, ExecAgrees, OnRecord, WorkerAgrees, WorkerRunsWhatIsExecuted
    <2>2. CASE submit.pc = "completeStart" /\ submit.id = r /\ Schedule(r)
      <3>1. ExecMoves(r, "load", exec[r].verdict)
        BY <2>2, ScheduleMoves
      <3>2. /\ exec[r].pc = "none" /\ dispatches[r] = 0 /\ OnRecord(r)
            /\ acceptedIn[r] = crashes /\ r < nextRun
        BY <2>2 DEF SubmitAgrees, Unscheduled
      <3>3. FreshRuns'
        BY <3>1, <3>2 DEF ExecMoves, FreshRuns, Runs, Typed, MemoryType
      <3>4. ExecAgrees'
        BY <3>1, <3>2 DEF ExecMoves, task, ExecAgrees, OnRecord
      <3>5. WorkerAgrees'
        BY <3>1, <3>2 DEF ExecMoves, WorkerAgrees, WorkerRunsWhatIsExecuted
      <3>. QED BY <3>3, <3>4, <3>5
    <2>. QED BY <2>1, <2>2
  <1>6. DispatchedOnceOnRecord' /\ CancelAgrees'
    BY DEF task, DispatchedOnceOnRecord, CancelAgrees, Born
  <1>7. AnswersKept'
    BY DEF Answer, AnswersKept
  <1>. QED BY <1>3, <1>4, <1>5, <1>6, <1>7

LEMMA DuplicateKeeps ==
  ASSUME Agreed, ShownAgrees, NEW q \in Requests, Duplicate(q)
  PROVE  Agreed'
  <1>1. shown.ledger[q] \in Runs /\ ledger[q] = shown.ledger[q]
    BY DEF Duplicate, ShownAgrees, Records, Grows, Record
  <1>. QED BY <1>1, AnswerKeeps DEF Duplicate

LEMMA CompleteKeeps ==
  ASSUME Agreed, CompleteStart \/ CompleteFollowup \/ AlreadyReserved
  PROVE  Agreed'
  <1>1. submit.id \in Runs /\ reservation \in Requests
    BY DEF CompleteStart, CompleteFollowup, AlreadyReserved, Agreed, SubmitAgrees
  <1>2. CASE CompleteStart
    <2>1. ledger[reservation] = submit.id
      BY <1>2 DEF CompleteStart, Agreed, SubmitAgrees
    <2>. QED BY <1>1, <1>2, <2>1, AnswerKeeps DEF CompleteStart, Noted
  <1>3. CASE CompleteFollowup
    <2>1. ledger[reservation] = submit.id
      BY <1>3 DEF CompleteFollowup, Agreed, SubmitAgrees
    <2>. QED BY <1>1, <1>3, <2>1, AnswerKeeps DEF CompleteFollowup, Noted
  <1>4. CASE AlreadyReserved
    <2>1. ledger[reservation] \in Runs
      BY <1>1, <1>4 DEF AlreadyReserved, Agreed, Typed, RecordTyped
    <2>. QED BY <1>1, <1>4, <2>1, AnswerKeeps DEF AlreadyReserved, Noted
  <1>. QED BY <1>2, <1>3, <1>4

LEMMA RefusedKeeps ==
  ASSUME Agreed, NEW q \in Requests, Refused(q)
  PROVE  Agreed'
  <1>1. UNCHANGED <<task, ledger, cancelLedger, receipt, host, nextRun, submit, cancel, exec,
                    cancelled, worker, awaited, story>> /\ reservation' = q
        /\ submit.pc = "idle"
    BY StoryKept DEF Refused, Asks, memory
  <1>2. RecordTyped'
    BY <1>1 DEF task, Agreed, Typed, RecordTyped
  <1>3. StoryType'
    BY <1>1 DEF history, story, Agreed, Typed, StoryType
  <1>4. Typed'
    <2>1. nextRun \in 1..(MaxRuns + 1)
      BY DEF Agreed, Typed, MemoryType
    <2>. QED BY <1>1, <1>2, <1>3, <2>1, SubmitType, CallersTypes DEF Agreed
  <1>. USE <1>1 DEF Agreed, task, history, story
  <1>5. SubmitAgrees'
    BY DEF SubmitAgrees, Unscheduled
  <1>6. FreshRuns' /\ ExecAgrees' /\ WorkerAgrees'
    BY DEF FreshRuns, ExecAgrees, OnRecord, WorkerAgrees, WorkerRunsWhatIsExecuted
  <1>7. DispatchedOnceOnRecord' /\ CancelAgrees' /\ AnswersKept'
    BY DEF DispatchedOnceOnRecord, CancelAgrees, AnswersKept, Born
  <1>. QED BY <1>4, <1>5, <1>6, <1>7

LEMMA SubmitKeeps ==
  ASSUME Agreed, ShownAgrees, NEW q \in Requests, Submit(q)
  PROVE  Agreed'
  <1>1. /\ UNCHANGED <<task, ledger, cancelLedger, receipt, host, cancel, exec,
                       cancelled, worker, awaited, story>>
        /\ reservation' = q /\ nextRun \in Runs /\ nextRun' = nextRun + 1
    BY StoryKept DEF Submit, Asks, Accept
  <1>2. PICK pc \in {"create", "reserve"} :
           /\ submit' = [pc |-> pc, id |-> nextRun, session |-> shown.session]
           /\ pc = "create" <=> turns = <<>>
    <2>1. shown.status = "absent" <=> turns = <<>>
      BY DEF Submit, Free, ShownAgrees, Grows, Record, Agreed, CancelAgrees, Born
    <2>. QED BY <2>1 DEF Submit, Accept
  <1>3. submit' \in SubmitRecord
    BY <1>1, <1>2 DEF SubmitRecord, ShownAgrees, Records
  <1>4. nextRun' \in 1..(MaxRuns + 1)
    BY <1>1, ConstantAssumption DEF Runs
  <1>5. RecordTyped'
    BY <1>1 DEF task, Agreed, Typed, RecordTyped
  <1>6. StoryType'
    BY <1>1 DEF history, story, Agreed, Typed, StoryType
  <1>7. Typed'
    BY <1>1, <1>3, <1>4, <1>5, <1>6, CallersTypes DEF Agreed
  <1>. USE <1>1 DEF Agreed, task, history, story
  <1>8. SubmitAgrees'
    BY <1>2, ConstantAssumption DEF SubmitAgrees, Unscheduled, FreshRuns, Runs
  <1>9. FreshRuns'
    BY ConstantAssumption DEF FreshRuns, Runs
  <1>10. ExecAgrees' /\ WorkerAgrees'
    BY DEF ExecAgrees, OnRecord, WorkerAgrees, WorkerRunsWhatIsExecuted
  <1>11. DispatchedOnceOnRecord' /\ CancelAgrees' /\ AnswersKept'
    BY DEF DispatchedOnceOnRecord, CancelAgrees, AnswersKept, Born
  <1>. QED BY <1>7, <1>8, <1>9, <1>10, <1>11

\* A turn that is recorded is the last one of the task; those that were there stay.
LEMMA TurnRecorded ==
  ASSUME Typed, NEW r \in Runs, RecordTurn(r), submit.session \in Runs \cup {None}
  PROVE  /\ status' \in ActiveStatuses /\ active' \in Runs \cup {None}
         /\ turns' \in Seq(Runs) /\ turns' # <<>>
         /\ \E i \in 1..Len(turns') : turns'[i] = r
         /\ \A s : (\E i \in 1..Len(turns) : turns[i] = s) => \E i \in 1..Len(turns') : turns'[i] = s
         /\ run' \in [Runs -> {"absent"} \cup LiveRun \cup TerminalRun]
         /\ session' \in Runs \cup {None}
  <1>1. turns \in Seq(Runs) /\ run \in [Runs -> {"absent"} \cup LiveRun \cup TerminalRun]
    BY DEF Typed, RecordTyped
  <1>2. /\ turns' \in Seq(Runs) /\ Len(turns') = Len(turns) + 1 /\ turns'[Len(turns) + 1] = r
        /\ \A i \in 1..Len(turns) : turns'[i] = turns[i]
    BY <1>1 DEF RecordTurn
  <1>3. Len(turns) \in Nat
    BY <1>1
  <1>4. turns' # <<>>
    BY <1>2, <1>3
  <1>5. \E i \in 1..Len(turns') : turns'[i] = r
    BY <1>2, <1>3
  <1>6. \A s : (\E i \in 1..Len(turns) : turns[i] = s) => \E i \in 1..Len(turns') : turns'[i] = s
    BY <1>2, <1>3
  <1>7. run' \in [Runs -> {"absent"} \cup LiveRun \cup TerminalRun]
    BY <1>1 DEF RecordTurn, LiveRun
  <1>. QED BY <1>2, <1>4, <1>5, <1>6, <1>7 DEF RecordTurn, ActiveStatuses

LEMMA AcceptedMoves ==
  ASSUME Typed, NEW r \in Runs, Accepted(r)
  PROVE  /\ acceptedIn' \in [Runs -> Nat] /\ acceptedIn'[r] = crashes
         /\ \A s \in Runs : s # r => acceptedIn'[s] = acceptedIn[s]
  BY DEF Typed, StoryType, Accepted

\* What the start or follow-up in progress does to the record.
SubmitEffect ==
    \/ submit.pc = "create" /\ Creation
    \/ submit.pc = "reserve" /\ Reserving
    \/ submit.pc = "queue" /\ Queueing

LEMMA SubmitEffects ==
  ASSUME Agreed, SubmitEffect, UNCHANGED <<receipt, reservation>>
  PROVE  /\ RecordTyped' /\ Born' /\ turns' # <<>>
         /\ \A s \in Runs : OnRecord(s) => OnRecord(s)'
         /\ \A q \in Requests, s \in Runs : ledger[q] = s => ledger'[q] = s
         /\ submit.pc # "reserve" \/ ledger[reservation] = None => ledger'[reservation] = submit.id
         /\ \A s \in Runs : s = submit.id /\ submit.pc # "reserve" => OnRecord(s)'
  <1>. USE DEF Agreed, Typed, RecordTyped, SubmitEffect
  <1>1. submit.id \in Runs /\ reservation \in Requests /\ submit.session \in Runs \cup {None}
    BY SubmitType DEF SubmitAgrees, SubmitRecord
  <1>2. /\ ledger' \in [Requests -> Runs \cup {None}]
        /\ \A q \in Requests, s \in Runs : ledger[q] = s => ledger'[q] = s
        /\ submit.pc # "reserve" \/ ledger[reservation] = None => ledger'[reservation] = submit.id
    <2>1. CASE submit.pc \in {"create", "reserve"}
      <3>1. submit.pc = "create" => ledger[reservation] = None
        BY <1>1, <2>1 DEF SubmitAgrees
      <3>2. ledger' = Promise(ledger, reservation, submit.id)
        BY <2>1 DEF Creation, Reserving
      <3>. QED BY <1>1, <2>1, <3>1, <3>2, ConstantAssumption DEF Promise, Runs
    <2>2. CASE submit.pc = "queue"
      BY <1>1, <2>2 DEF Queueing, SubmitAgrees
    <2>. QED BY <2>1, <2>2
  <1>3. CASE submit.pc = "reserve"
    <2>1. UNCHANGED <<task, cancelLedger>> /\ turns # <<>>
      BY <1>3 DEF Reserving, SubmitAgrees
    <2>. QED BY <1>2, <1>3, <2>1 DEF task, CancelAgrees, Born, OnRecord
  <1>4. CASE submit.pc # "reserve"
    <2>1. RecordTurn(submit.id) /\ UNCHANGED cancelLedger
      BY <1>4 DEF Creation, Queueing
    <2>2. /\ status' \in ActiveStatuses /\ active' \in Runs \cup {None}
          /\ turns' \in Seq(Runs) /\ turns' # <<>>
          /\ \E i \in 1..Len(turns') : turns'[i] = submit.id
          /\ \A s : (\E i \in 1..Len(turns) : turns[i] = s) => \E i \in 1..Len(turns') : turns'[i] = s
          /\ run' \in [Runs -> {"absent"} \cup LiveRun \cup TerminalRun]
          /\ session' \in Runs \cup {None}
      BY <1>1, <2>1, TurnRecorded
    <2>3. RecordTyped' /\ Born'
      BY <1>2, <2>1, <2>2 DEF Born, ActiveStatuses
    <2>4. ASSUME NEW s \in Runs, OnRecord(s) PROVE OnRecord(s)'
      BY <1>2, <2>2, <2>4 DEF OnRecord
    <2>5. \A s \in Runs : s = submit.id => OnRecord(s)'
      BY <1>1, <1>2, <1>4, <2>2 DEF OnRecord
    <2>. QED BY <1>2, <2>2, <2>3, <2>4, <2>5
  <1>. QED BY <1>3, <1>4

\* A step of the start or follow-up in progress that runs nothing.
LEMMA CallersKeep ==
  ASSUME Agreed, SubmitEffect \/ Noted, submit' \in SubmitRecord, SubmitAgrees',
         UNCHANGED acceptedIn \/ Accepted(submit.id), submit.pc # "idle",
         UNCHANGED <<receipt, reservation, host, nextRun, cancel, exec, cancelled, worker, awaited,
                     crashes, dispatches, thread, answers, told>>
  PROVE  Agreed'
  <1>1. /\ RecordTyped' /\ Born' /\ (turns # <<>> => turns' # <<>>)
        /\ \A s \in Runs : OnRecord(s) => OnRecord(s)'
        /\ \A q \in Requests, s \in Runs : ledger[q] = s => ledger'[q] = s
    <2>1. CASE SubmitEffect
      BY <2>1, SubmitEffects
    <2>2. CASE Noted
      BY <2>2 DEF Noted, task, OnRecord, Born, Agreed, CancelAgrees, Typed, RecordTyped
    <2>. QED BY <2>1, <2>2
  <1>2. submit.id \in Runs
    BY DEF Agreed, SubmitAgrees
  <1>3. /\ acceptedIn' \in [Runs -> Nat]
        /\ \A s \in Runs : acceptedIn'[s] \in {acceptedIn[s], crashes}
    BY <1>2, AcceptedMoves DEF Agreed, Typed, StoryType
  <1>. USE DEF Agreed
  <1>4. Typed'
    <2>1. StoryType'
      BY <1>3 DEF Typed, StoryType
    <2>2. nextRun \in 1..(MaxRuns + 1)
      BY DEF Typed, MemoryType
    <2>. QED BY <1>1, <2>1, <2>2, CallersTypes
  <1>5. FreshRuns' /\ WorkerAgrees'
    BY DEF FreshRuns, WorkerAgrees, WorkerRunsWhatIsExecuted
  <1>6. ExecAgrees'
    BY <1>1, <1>3 DEF ExecAgrees
  <1>7. DispatchedOnceOnRecord'
    BY <1>1 DEF DispatchedOnceOnRecord, OnRecord
  <1>8. AnswersKept' /\ CancelAgrees'
    BY <1>1 DEF AnswersKept, CancelAgrees, Typed, StoryType
  <1>. QED BY <1>4, <1>5, <1>6, <1>7, <1>8

LEMMA CreateTaskKeeps == ASSUME Agreed, CreateTask \/ ReserveFollowup PROVE Agreed'
  <1>1. /\ SubmitEffect /\ submit.pc \in {"create", "reserve"}
        /\ submit.pc = "create" => CreateTask /\ Accepted(submit.id)
        /\ submit.pc = "reserve" =>
               ReserveFollowup /\ ledger[reservation] = None /\ UNCHANGED acceptedIn
        /\ UNCHANGED <<receipt, reservation, host, nextRun, cancel, exec, cancelled, worker, awaited,
                       crashes, dispatches, thread, answers, told>>
    BY DEF CreateTask, ReserveFollowup, SubmitEffect, history
  <1>2. /\ submit' \in SubmitRecord /\ submit'.id = submit.id
        /\ submit'.pc = IF submit.pc = "create" THEN "completeStart" ELSE "queue"
    BY <1>1, SubmitType DEF CreateTask, ReserveFollowup, SubmitRecord, Agreed
  <1>3. SubmitAgrees'
    <2>1. /\ turns' # <<>> /\ ledger'[reservation] = submit.id
          /\ submit.pc = "create" => OnRecord(submit.id)'
      BY <1>1, <1>2, SubmitEffects DEF Agreed, SubmitAgrees
    <2>2. submit.pc = "create" => acceptedIn'[submit.id] = crashes
      BY <1>1, AcceptedMoves DEF Agreed, SubmitAgrees
    <2>. QED BY <1>1, <1>2, <2>1, <2>2 DEF Agreed, SubmitAgrees, Unscheduled
  <1>. QED BY <1>1, <1>2, <1>3, CallersKeep

\* The start or follow-up throws, and with it the call.
LEMMA SubmitThrowsKeeps == ASSUME Agreed, RecordThrows \/ LedgerThrows PROVE Agreed'
  <1>1. /\ SubmitEffect \/ Noted
        /\ submit.pc # "idle"
        /\ UNCHANGED acceptedIn \/ Accepted(submit.id)
        /\ UNCHANGED <<receipt, reservation, host, nextRun, cancel, exec, cancelled, worker, awaited,
                       crashes, dispatches, thread, answers, told>>
    BY DEF RecordThrows, LedgerThrows, Throws, SubmitEffect, Noted
  <1>2. submit' = IdleSubmit /\ IdleSubmit \in SubmitRecord /\ IdleSubmit.pc = "idle"
    BY DEF RecordThrows, LedgerThrows, IdleSubmit, SubmitRecord
  <1>3. turns' = <<>> => \A q \in Requests : ledger'[q] = None
    <2>1. CASE SubmitEffect
      BY <1>1, <2>1, SubmitEffects
    <2>2. CASE Noted
      BY <2>2 DEF Noted, task, Agreed, SubmitAgrees
    <2>. QED BY <1>1, <2>1, <2>2
  <1>4. SubmitAgrees'
    BY <1>2, <1>3 DEF SubmitAgrees, Unscheduled
  <1>. QED BY <1>1, <1>2, <1>4, CallersKeep

LEMMA QueueFollowupKeeps == ASSUME Agreed, QueueFollowup PROVE Agreed'
  <1>1. /\ submit.pc = "queue" /\ SubmitEffect /\ Accepted(submit.id) /\ Schedule(submit.id)
        /\ UNCHANGED <<receipt, reservation, host, nextRun, cancel,
                       cancelled, worker, awaited, crashes, dispatches, thread, answers, told>>
    BY DEF QueueFollowup, SubmitEffect
  <1>3. submit' \in SubmitRecord /\ submit'.pc = "completeFollowup" /\ submit'.id = submit.id
    BY SubmitType DEF QueueFollowup, SubmitRecord, Agreed
  <1>0. PICK r \in Runs : r = submit.id
    BY <1>1 DEF Agreed, SubmitAgrees
  <1>4. /\ exec[r].pc = "none" /\ dispatches[r] = 0 /\ r \in Runs /\ r < nextRun
        /\ reservation \in Requests
    BY <1>1, <1>0 DEF Agreed, SubmitAgrees, Unscheduled
  <1>5. /\ RecordTyped' /\ Born' /\ turns' # <<>>
        /\ \A s \in Runs : OnRecord(s) => OnRecord(s)'
        /\ \A q \in Requests, s \in Runs : ledger[q] = s => ledger'[q] = s
        /\ ledger'[reservation] = r /\ OnRecord(r)'
    BY <1>1, <1>0, SubmitEffects
  <1>2. /\ acceptedIn' \in [Runs -> Nat] /\ acceptedIn'[r] = crashes
        /\ \A s \in Runs : s # r => acceptedIn'[s] = acceptedIn[s]
    BY <1>1, <1>0, AcceptedMoves DEF Agreed
  <1>6. ExecMoves(r, "load", exec[r].verdict)
    BY <1>1, <1>0, ScheduleMoves DEF Agreed
  <1>7. Typed'
    <2>2. StoryType'
      BY <1>1, <1>2 DEF Agreed, Typed, StoryType
    <2>3. MemoryType'
      <3>1. /\ host \in {"up", "stopping", "draining", "down"} /\ nextRun \in 1..(MaxRuns + 1)
            /\ awaited \subseteq Runs
        BY DEF Agreed, Typed, MemoryType
      <3>. QED BY <1>1, <1>3, <1>6, <3>1, RecordTypes, CancelledType, MemoryTypeKept
               DEF Agreed, ExecMoves
    <2>. QED BY <1>5, <2>2, <2>3 DEF Typed
  <1>. USE <1>1 DEF Agreed
  <1>9. SubmitAgrees'
    BY <1>0, <1>3, <1>4, <1>5 DEF SubmitAgrees, Unscheduled
  <1>10. FreshRuns'
    BY <1>4, <1>6 DEF FreshRuns, ExecMoves, Runs, Typed, MemoryType
  <1>11. WorkerAgrees'
    BY <1>4, <1>6 DEF WorkerAgrees, WorkerRunsWhatIsExecuted, ExecMoves
  <1>12. ExecAgrees'
    <2>1. \A s \in Runs : s # r => exec'[s] = exec[s] /\ acceptedIn'[s] = acceptedIn[s]
      BY <1>2, <1>6 DEF ExecMoves
    <2>2. exec'[r].pc = "load" /\ acceptedIn'[r] = crashes
      BY <1>2, <1>6 DEF ExecMoves
    <2>. QED BY <1>4, <1>5, <2>1, <2>2 DEF ExecAgrees
  <1>13. DispatchedOnceOnRecord'
    BY <1>5 DEF DispatchedOnceOnRecord, OnRecord
  <1>14. AnswersKept' /\ CancelAgrees'
    BY <1>5 DEF AnswersKept, CancelAgrees, Typed, StoryType
  <1>. QED BY <1>7, <1>9, <1>10, <1>11, <1>12, <1>13, <1>14

-----------------------------------------------------------------------------
(* The host *)

LEMMA InitAgrees == Init => Agreed
  <1>. SUFFICES ASSUME Init PROVE Agreed
    OBVIOUS
  <1>. USE ConstantAssumption DEF Init
  <1>1. Typed
    <2>1. RecordTyped
      BY DEF RecordTyped
    <2>2. exec \in [Runs -> ExecRecord] /\ cancel \in [Runs -> CancelRecord]
      BY DEF ExecRecord, ExecPc, IdleExec, CancelRecord, CancelPc, IdleCancel
    <2>3. MemoryType
      BY <2>2 DEF MemoryType, ExecRecord, CancelRecord, CancelPc, IdleSubmit, NoWorker
    <2>4. StoryType
      BY DEF StoryType
    <2>. QED BY <2>1, <2>3, <2>4 DEF Typed
  <1>2. SubmitAgrees /\ FreshRuns /\ ExecAgrees /\ CancelAgrees
    BY DEF SubmitAgrees, FreshRuns, ExecAgrees, CancelAgrees, Born, IdleSubmit, IdleExec,
           IdleCancel, Unscheduled
  <1>3. WorkerAgrees /\ DispatchedOnceOnRecord /\ AnswersKept
    BY DEF WorkerAgrees, WorkerRunsWhatIsExecuted, DispatchedOnceOnRecord, AnswersKept, IdleExec,
           NoWorker, Runs
  <1>. QED BY <1>1, <1>2, <1>3 DEF Agreed

LEMMA ShutdownKeeps == ASSUME Agreed, Shutdown PROVE Agreed'
  <1>1. /\ UNCHANGED <<kept, nextRun, submit, cancel, exec, cancelled, awaited, story>>
        /\ host' = "stopping"
    BY NotedKept, StoryKept DEF Shutdown
  <1>2. worker' \in WorkerRecord /\ worker'.run = worker.run
        /\ (worker'.stage = "idle" \/ worker'.stage = worker.stage)
    <2>1. CASE worker.run = None
      BY <2>1 DEF Shutdown, NoWorker, WorkerRecord
    <2>2. CASE worker.run # None
      BY <2>2, RecordTypes DEF Shutdown, WorkerRecord, Agreed
    <2>. QED BY <2>1, <2>2
  <1>3. Typed'
    <2>1. /\ nextRun \in 1..(MaxRuns + 1) /\ awaited \subseteq Runs
      BY DEF Agreed, Typed, MemoryType
    <2>2. StoryType'
      BY <1>1 DEF history, story, Agreed, Typed, StoryType
    <2>. QED BY <1>1, <1>2, <2>1, <2>2, RecordTypes, SubmitType, CancelledType, DurableKept,
                MemoryTypeKept DEF Agreed, Typed
  <1>4. UNCHANGED <<core, status>>
    BY <1>1 DEF core, durable, kept, task, history, story
  <1>. QED BY <1>1, <1>2, <1>3, <1>4, WorkerMoves DEF Agreed, CancelAgrees, Born, core

\* Drain and Boot leave the executions, the worker and the callers alone.
LEMMA DrainKeeps == ASSUME Agreed, Drain PROVE Agreed'
  <1>1. /\ UNCHANGED <<kept, nextRun, submit, cancel, exec, cancelled, worker, story>>
        /\ host' = "draining" /\ awaited' \subseteq Runs
    BY NotedKept, StoryKept DEF Drain
  <1>2. Typed'
    <2>1. nextRun \in 1..(MaxRuns + 1)
      BY DEF Agreed, Typed, MemoryType
    <2>2. StoryType'
      BY <1>1 DEF history, story, Agreed, Typed, StoryType
    <2>. QED BY <1>1, <2>1, <2>2, RecordTypes, SubmitType, CancelledType, DurableKept,
                MemoryTypeKept DEF Agreed, Typed
  <1>3. UNCHANGED <<core, status>>
    BY <1>1 DEF core, durable, kept, task, history, story
  <1>. QED BY <1>1, <1>2, <1>3, NobodyRuns DEF Agreed, CancelAgrees, Born, core

LEMMA BootKeeps == ASSUME Agreed, Boot PROVE Agreed'
  <1>1. /\ UNCHANGED <<turns, session, ledger, cancelLedger, receipt, reservation, memory, story>>
        /\ host' = "up"
        /\ Born'
        /\ status' \in {"absent"} \cup ActiveStatuses \cup TerminalRun
    BY StoryKept DEF Boot, Parked, Noted, task, ActiveStatuses, TerminalRun, Agreed, CancelAgrees,
       Born, Typed, RecordTyped
  <1>2. /\ run' \in [Runs -> {"absent"} \cup LiveRun \cup TerminalRun]
        /\ active' \in Runs \cup {None}
    BY DEF Boot, Parked, Noted, task, TerminalRun, Agreed, Typed, RecordTyped
  <1>3. RecordTyped'
    BY <1>1, <1>2 DEF Agreed, Typed, RecordTyped
  <1>4. Typed'
    <2>1. /\ nextRun \in 1..(MaxRuns + 1) /\ awaited \subseteq Runs
      BY DEF Agreed, Typed, MemoryType
    <2>2. StoryType'
      BY <1>1 DEF story, Agreed, Typed, StoryType
    <2>3. MemoryType'
      BY <1>1, <2>1, RecordTypes, SubmitType, CancelledType, MemoryTypeKept DEF Agreed, memory
    <2>. QED BY <1>3, <2>2, <2>3 DEF Typed
  <1>5. UNCHANGED <<core, exec, worker, cancel>>
    BY <1>1 DEF core, memory, story
  <1>. QED BY <1>1, <1>4, <1>5, NobodyRuns DEF Agreed, CancelAgrees

\* The memory goes and the record stays.
LEMMA MemoryLostKeeps == ASSUME Agreed, MemoryLost PROVE Agreed'
  <1>1. /\ UNCHANGED <<kept, nextRun, dispatches, thread, acceptedIn, answers, told>>
        /\ crashes' = crashes + 1 /\ host' = "down" /\ cancelled' = {} /\ awaited' = {}
        /\ submit' \in SubmitRecord /\ submit'.pc = "idle"
        /\ exec' \in [Runs -> ExecRecord] /\ \A r \in Runs : exec'[r].pc = "none"
        /\ cancel' \in [Runs -> CancelRecord] /\ \A r \in Runs : cancel'[r].pc = "idle"
        /\ worker' \in WorkerRecord /\ worker'.run = None
    BY NotedKept DEF MemoryLost, IdleSubmit, SubmitRecord, IdleExec, ExecRecord, ExecPc, IdleCancel,
           CancelRecord, NoWorker, WorkerRecord, CancelPc
  <1>2. UNCHANGED <<status, turns, ledger, reservation>>
    BY <1>1 DEF durable, kept, task
  <1>3. Typed'
    <2>1. nextRun \in 1..(MaxRuns + 1)
      BY DEF Agreed, Typed, MemoryType
    <2>2. StoryType'
      BY <1>1 DEF Agreed, Typed, StoryType
    <2>3. MemoryType'
      BY <1>1, <2>1, MemoryTypeKept
    <2>. QED BY <1>1, <2>2, <2>3, DurableKept DEF Agreed, Typed
  <1>. USE <1>1, <1>2 DEF Agreed
  <1>4. SubmitAgrees' /\ FreshRuns' /\ ExecAgrees'
    BY DEF SubmitAgrees, FreshRuns, ExecAgrees, Unscheduled
  <1>5. WorkerAgrees'
    BY ConstantAssumption DEF WorkerAgrees, WorkerRunsWhatIsExecuted, Runs
  <1>6. DispatchedOnceOnRecord' /\ AnswersKept' /\ CancelAgrees'
    BY DEF DispatchedOnceOnRecord, AnswersKept, CancelAgrees, Born
  <1>. QED BY <1>3, <1>4, <1>5, <1>6

LEMMA StutterKeeps == ASSUME Agreed, UNCHANGED vars PROVE Agreed'
  <1>1. UNCHANGED <<kept, host, nextRun, submit, cancel, exec, cancelled, worker, awaited, story>>
    BY NotedKept, StoryKept DEF vars, memory
  <1>2. Typed'
    BY <1>1, RecordTypes, CancelledType, DurableKept, RunnersTypes DEF Agreed
  <1>3. UNCHANGED <<core, status>>
    BY <1>1 DEF core, durable, kept, task, history, story
  <1>. QED BY <1>1, <1>2, <1>3, NobodyRuns DEF Agreed, CancelAgrees, Born, core

\* The invariant is inductive.
LEMMA StepAgrees == Agreed /\ ShownAgrees /\ [Next]_vars => Agreed'
  <1>. SUFFICES ASSUME Agreed, ShownAgrees, [Next]_vars PROVE Agreed'
    OBVIOUS
  <1>1. ASSUME NEW q \in Requests, Duplicate(q) \/ Submit(q) \/ Refused(q) PROVE Agreed'
    BY <1>1, DuplicateKeeps, SubmitKeeps, RefusedKeeps
  <1>2. CASE SubmitStep
    BY <1>2, CreateTaskKeeps, CompleteKeeps, QueueFollowupKeeps, SubmitThrowsKeeps DEF SubmitStep
  <1>3. ASSUME NEW r \in Runs, ExecStep(r) PROVE Agreed'
    BY <1>3, LoadTurnKeeps, PrepareKeeps, CheckCancelledKeeps, RunTurnKeeps, DecideKeeps,
       SettleKeeps DEF ExecStep
  <1>4. ASSUME NEW r \in Runs, WorkerStep(r) \/ OtherEvent(r) PROVE Agreed'
    BY <1>4, EventKeeps, DispatchKeeps, WorkerEndKeeps DEF WorkerStep
  <1>5. ASSUME NEW r \in Runs, CancelCheck(r) \/ CancelStep(r) PROVE Agreed'
    BY <1>5, CancelMovesOn, CancelEndKeeps, InterruptAcceptedKeeps, SignalKeeps, KillKeeps
       DEF CancelStep
  <1>6. CASE IdleExit \/ Shutdown \/ Drain \/ Halt \/ Crash \/ Boot
    BY <1>6, IdleExitKeeps, ShutdownKeeps, DrainKeeps, MemoryLostKeeps, BootKeeps DEF Halt, Crash
  <1>7. CASE UNCHANGED vars
    BY <1>7, StutterKeeps
  <1>. QED BY <1>1, <1>2, <1>3, <1>4, <1>5, <1>6, <1>7 DEF Next

-----------------------------------------------------------------------------
(* What readers see *)

\* The record only grows, and readers see what it was, is, or becomes.
RecordGrows ==
    /\ UNCHANGED turns \/ (submit.pc \in {"create", "queue"} /\ turns' = Append(turns, submit.id))
    /\ \/ UNCHANGED ledger
       \/ submit.pc # "idle" /\ ledger' = Promise(ledger, reservation, submit.id)
    /\ UNCHANGED cancelLedger \/ \E r \in Runs : cancel[r].pc = "reserve" /\ Interrupting(r)
    /\ shown' \in {shown, Record, Record'}

LEMMA StepGrows == [Next]_vars => RecordGrows
  <1>. SUFFICES ASSUME [Next]_vars PROVE RecordGrows
    OBVIOUS
  <1>. USE DEF RecordGrows, InPlace, durable, task
  <1>1. ASSUME NEW q \in Requests, Duplicate(q) \/ Submit(q) \/ Refused(q) PROVE RecordGrows
    BY <1>1 DEF Duplicate, Submit, Accept, Refused
  <1>2. CASE SubmitStep
    BY <1>2 DEF SubmitStep, CreateTask, CompleteStart, ReserveFollowup, AlreadyReserved, QueueFollowup,
       CompleteFollowup, RecordThrows, LedgerThrows, Throws, Noted, Creation, Reserving, Queueing,
       RecordTurn
  <1>3. ASSUME NEW r \in Runs, ExecStep(r) PROVE RecordGrows
    BY <1>3 DEF ExecStep, LoadTurn, PrepareFails, CompileContext, CheckCancelled, TurnStarting,
       PrepareThrows, RunTurn, Decide, Inspect, CommitVerdict, SettleThrows, ReceiptThrows, Throws,
       Compiling, Starting, Settle
  <1>4. ASSUME NEW r \in Runs, WorkerStep(r) \/ OtherEvent(r) PROVE RecordGrows
    BY <1>4 DEF WorkerStep, SessionReady, Dispatch, TurnStarted, TurnCompleted, EventThrows,
       WorkerFails, StartupCancelled, WorkerLost, OtherEvent, Throws, Noted, Ready, Begun
  <1>5. ASSUME NEW r \in Runs, CancelCheck(r) \/ CancelStep(r) PROVE RecordGrows
    BY <1>5 DEF CancelCheck, CancelStep, InterruptRefused, InterruptAccepted, ReserveInterrupt, Signal,
       Kill, NoProcess, InspectVictim, SettleVictim, CompleteInterrupt, CancelThrows, ReceiptThrows,
       Throws, Noted, Settle, Interrupting
  <1>6. CASE IdleExit \/ Shutdown \/ Drain \/ Halt \/ Crash \/ Boot
    BY <1>6 DEF IdleExit, Shutdown, Drain, Halt, Crash, MemoryLost, Boot, Parked, Noted
  <1>7. CASE UNCHANGED vars
    BY <1>7 DEF vars
  <1>. QED BY <1>1, <1>2, <1>3, <1>4, <1>5, <1>6, <1>7 DEF Next

LEMMA RecordIn == RecordTyped <=> Record \in Records /\ receipt \in [Runs -> TerminalRun \cup {None}]
                                                   /\ reservation \in Requests \cup {None}
  BY DEF RecordTyped, Record, Records

LEMMA GrowsIsTransitive ==
  ASSUME NEW a \in Records, NEW b \in Records, NEW c \in Records, Grows(a, b), Grows(b, c)
  PROVE  Grows(a, c)
  <1>1. Len(a.turns) \in Nat /\ Len(b.turns) \in Nat /\ Len(c.turns) \in Nat
    BY DEF Records
  <1>. QED BY <1>1 DEF Grows

LEMMA StepShown == Agreed /\ ShownAgrees /\ Agreed' /\ [Next]_vars => ShownAgrees' /\ Grows(Record, Record')
  <1>. SUFFICES ASSUME Agreed, ShownAgrees, Agreed', RecordGrows
                PROVE  ShownAgrees' /\ Grows(Record, Record')
    BY StepGrows
  <1>1. Record \in Records /\ Record' \in Records /\ shown \in Records
    <2>1. RecordTyped /\ RecordTyped'
      BY DEF Agreed, Typed
    <2>. QED BY <2>1, RecordIn DEF ShownAgrees, RecordTyped, Record, Records
  <1>2. Grows(Record, Record')
    <2>1. /\ Len(turns) <= Len(turns')
          /\ \A i \in 1..Len(turns) : turns'[i] = turns[i]
      <3>1. turns \in Seq(Runs) /\ (submit.pc # "idle" => submit.id \in Runs)
        BY DEF Agreed, Typed, RecordTyped, SubmitAgrees
      <3>2. CASE turns' = turns
        BY <3>1, <3>2
      <3>3. CASE submit.pc \in {"create", "queue"} /\ turns' = Append(turns, submit.id)
        BY <3>1, <3>3
      <3>. QED BY <3>2, <3>3 DEF RecordGrows
    <2>2. \A q \in Requests : ledger[q] \in {None, ledger'[q]}
      BY DEF RecordGrows, Promise, Agreed, Typed, RecordTyped
    <2>3. \A r \in Runs : cancelLedger[r] \in {None, cancelLedger'[r]}
      BY DEF RecordGrows, Interrupting, Promise, Agreed, Typed, RecordTyped
    <2>4. status # "absent" => status' # "absent"
      <3>1. turns \in Seq(Runs) /\ turns' \in Seq(Runs)
        BY DEF Agreed, Typed, RecordTyped
      <3>. QED BY <2>1, <3>1 DEF Agreed, CancelAgrees, Born
    <2>. QED BY <2>1, <2>2, <2>3, <2>4 DEF Grows, Record
  <1>3. Grows(Record', Record')
    BY <1>1 DEF Grows, Records
  <1>4. Grows(shown, Record')
    BY <1>1, <1>2, GrowsIsTransitive DEF ShownAgrees
  <1>5. /\ shown' \in Records /\ Grows(shown', Record')
    BY <1>1, <1>2, <1>3, <1>4 DEF RecordGrows
  <1>6. shown'.status # "absent" => shown'.turns # <<>>
    BY DEF RecordGrows, ShownAgrees, Record, Agreed, CancelAgrees, Born
  <1>. QED BY <1>2, <1>5, <1>6 DEF ShownAgrees

LEMMA InitShown == Init => ShownAgrees
  <1>. SUFFICES ASSUME Init PROVE ShownAgrees
    OBVIOUS
  <1>1. RecordTyped /\ shown = Record
    BY InitAgrees DEF Agreed, Typed, Init
  <1>. QED BY <1>1, RecordIn DEF Init, ShownAgrees, Grows, Record, Records

LEMMA AlwaysAgreed == Spec => [](Agreed /\ ShownAgrees)
  BY InitAgrees, InitShown, StepAgrees, StepShown, PTL DEF Spec

-----------------------------------------------------------------------------
(* Nothing waits for a turn that nobody runs *)

\* While the host is down it has no memory, and what it accepted it accepted before the crash.
DownIsIdle ==
    host = "down" =>
        /\ submit.pc = "idle"
        /\ \A r \in Runs :
              exec[r].pc = "none" /\ cancel[r].pc = "idle" /\ acceptedIn[r] < crashes

Attends(r) == Executing(r) \/ r \in abandoned

\* In a record, a task that claims to be active has a live turn of this life of the host, and
\* such a turn is executed or abandoned.
LiveIn(record) ==
    /\ record.status \in ActiveStatuses =>
          \E r \in Runs : record.run[r] \in LiveRun /\ acceptedIn[r] = crashes
    /\ \A r \in Runs : record.run[r] \in LiveRun /\ acceptedIn[r] = crashes => Attends(r)

LiveAgrees ==
    /\ DownIsIdle
    /\ host # "down" => LiveIn(Record) /\ LiveIn(shown)
    /\ \A r \in Runs : acceptedIn[r] <= crashes

\* The executions go on: one that ends has settled its turn or is abandoned.
GoOn ==
    /\ host # "down"
    /\ UNCHANGED <<crashes, host>>
    /\ \A s \in Runs : acceptedIn'[s] = acceptedIn[s] \/ (acceptedIn'[s] = crashes /\ Attends(s)')
    /\ \A s \in Runs :
          Attends(s) => Attends(s)' \/ (run'[s] \notin LiveRun /\ shown'.run[s] \notin LiveRun)

\* What a step of an execution, of the worker or of a caller does to the record: nothing, it
\* shows a turn as live that is executed or abandoned, or it settles one.
RecordMoves ==
    \/ UNCHANGED <<run, status>>
    \/ \E r \in Runs, live \in LiveRun :
          /\ run' = [run EXCEPT ![r] = live]
          /\ status' \in ActiveStatuses
          /\ acceptedIn'[r] = crashes /\ Attends(r)'
    \/ \E r \in Runs, verdict \in TerminalRun :
          /\ run' = [run EXCEPT ![r] = verdict]
          /\ status' = verdict

LEMMA RunnersKeepLive ==
  ASSUME Agreed, LiveAgrees, GoOn, RecordMoves, RecordGrows
  PROVE  LiveAgrees'
  <1>. USE DEF LiveAgrees, GoOn
  <1>0. /\ run \in [Runs -> {"absent"} \cup LiveRun \cup TerminalRun] /\ LiveRun \cap TerminalRun = {}
        /\ ActiveStatuses \cap TerminalRun = {}
        /\ acceptedIn \in [Runs -> Nat] /\ crashes \in Nat
    BY DEF Agreed, Typed, RecordTyped, StoryType, LiveRun, TerminalRun, ActiveStatuses
  <1>1. DownIsIdle' /\ \A r \in Runs : acceptedIn'[r] <= crashes'
    BY <1>0 DEF DownIsIdle
  <1>2. LiveIn(Record)'
    <2>1. CASE UNCHANGED <<run, status>>
      BY <2>1 DEF LiveIn, Record
    <2>2. ASSUME NEW r \in Runs, NEW live \in LiveRun, run' = [run EXCEPT ![r] = live],
                 acceptedIn'[r] = crashes, Attends(r)'
          PROVE  LiveIn(Record)'
      BY <1>0, <2>2 DEF LiveIn, Record
    <2>3. ASSUME NEW r \in Runs, NEW verdict \in TerminalRun, run' = [run EXCEPT ![r] = verdict],
                 status' = verdict
          PROVE  LiveIn(Record)'
      BY <1>0, <2>3 DEF LiveIn, Record
    <2>. QED BY <2>1, <2>2, <2>3 DEF RecordMoves
  <1>3. ASSUME NEW record, LiveIn(record), shown' = record
        PROVE  LiveIn(shown)'
    <2>1. record.status \in ActiveStatuses =>
             \E r \in Runs : record.run[r] \in LiveRun /\ acceptedIn'[r] = crashes'
      BY <1>3 DEF LiveIn
    <2>2. \A r \in Runs : record.run[r] \in LiveRun /\ acceptedIn'[r] = crashes' => Attends(r)'
      BY <1>3 DEF LiveIn
    <2>. QED BY <1>3, <2>1, <2>2 DEF LiveIn
  <1>4. LiveIn(shown)'
    <2>1. CASE shown' = Record'
      BY <1>2, <2>1 DEF LiveIn
    <2>2. CASE shown' \in {shown, Record}
      BY <1>3, <2>2
    <2>. QED BY <2>1, <2>2 DEF RecordGrows
  <1>. QED BY <1>1, <1>2, <1>4

LEMMA ExecStepGoesOn ==
  ASSUME Agreed, LiveAgrees, NEW r \in Runs, ExecStep(r)
  PROVE  GoOn /\ RecordMoves
  <1>. USE DEF Uncalled
  <1>0. /\ exec \in [Runs -> ExecRecord]
        /\ run \in [Runs -> {"absent"} \cup LiveRun \cup TerminalRun]
    BY RecordTypes DEF Agreed, Typed, RecordTyped
  <1>1. exec[r].pc # "none" /\ UNCHANGED <<acceptedIn, crashes, host, submit>>
    BY DEF ExecStep, LoadTurn, PrepareFails, CompileContext, CheckCancelled, TurnStarting, PrepareThrows,
           RunTurn, Decide, Inspect, CommitVerdict, SettleThrows, history
  <1>2. host # "down" /\ acceptedIn[r] = crashes
    BY <1>1 DEF LiveAgrees, DownIsIdle, Agreed, ExecAgrees
  <1>3. /\ \A s \in Runs : s # r => exec'[s] = exec[s]
        /\ abandoned \subseteq abandoned'
    BY <1>0 DEF ExecStep, LoadTurn, PrepareFails, CompileContext, CheckCancelled, TurnStarting,
                PrepareThrows, RunTurn, Decide, Inspect, LeftAlone, CommitVerdict, SettleThrows,
                Goto, Verdict, Caught, Done, history, trouble
  <1>4. CASE exec'[r].pc \notin Uncalled \/ r \in abandoned'
    <2>1. GoOn /\ Attends(r)'
      BY <1>1, <1>2, <1>3, <1>4 DEF GoOn, Attends, Executing
    <2>2. CASE Noted
      BY <2>1, <2>2 DEF Noted, task, RecordMoves
    <2>3. CASE Compiling(r)
      BY <2>1, <2>3 DEF Compiling, RecordMoves
    <2>4. CASE Starting(r)
      BY <1>1, <1>2, <2>1, <2>4 DEF Starting, RecordMoves, LiveRun, ActiveStatuses
    <2>5. CASE exec[r].pc = "commit" /\ Settle(r, exec[r].verdict)
      BY <2>1, <2>5 DEF Settle, RecordMoves, Agreed, ExecAgrees
    <2>6. Noted \/ Compiling(r) \/ Starting(r) \/ (exec[r].pc = "commit" /\ Settle(r, exec[r].verdict))
      BY NotedKept DEF ExecStep, LoadTurn, PrepareFails, CompileContext, CheckCancelled, TurnStarting,
         PrepareThrows, RunTurn, Decide, Inspect, CommitVerdict, SettleThrows, ReceiptThrows, Throws,
         Noted
    <2>. QED BY <2>1, <2>2, <2>3, <2>4, <2>5, <2>6
  <1>5. CASE LeftAlone(r) /\ Noted /\ UNCHANGED shown
    <2>1. shown.run[r] \notin LiveRun /\ (run[r] \in LiveRun => r \in abandoned')
      BY <1>5 DEF LeftAlone, TerminalRun, LiveRun
    <2>. QED BY <1>1, <1>2, <1>3, <1>5, <2>1 DEF Noted, task, GoOn, RecordMoves, Attends, Executing
  <1>6. CASE CommitVerdict(r)
    <2>1. /\ exec[r].verdict \in TerminalRun
          /\ run' = [run EXCEPT ![r] = exec[r].verdict] /\ status' = exec[r].verdict
          /\ shown' = Record'
      BY <1>6 DEF CommitVerdict, Settle, InPlace, Agreed, ExecAgrees
    <2>2. run'[r] \notin LiveRun /\ shown'.run[r] \notin LiveRun
      BY <1>0, <2>1 DEF Record, TerminalRun, LiveRun
    <2>. QED BY <1>1, <1>2, <1>3, <2>1, <2>2 DEF GoOn, RecordMoves, Attends, Executing
  <1>7. \/ exec'[r].pc \notin Uncalled \/ r \in abandoned'
        \/ LeftAlone(r) /\ Noted /\ UNCHANGED shown
        \/ CommitVerdict(r)
    BY <1>0 DEF ExecStep, LoadTurn, PrepareFails, CompileContext, CheckCancelled, TurnStarting,
       PrepareThrows, RunTurn, Decide, Inspect, SettleThrows, Goto, Verdict, Caught, ExecRecord, Noted
  <1>. QED BY <1>4, <1>5, <1>6, <1>7

\* The end of the worker's turn leaves its execution undecided.
LEMMA WorkerEndsGoesOn ==
  ASSUME Typed, NEW r \in Runs, NEW verdict,
         Caught(r, verdict) \/ Verdict(r, "decide", verdict)
  PROVE  \A s \in Runs : exec[s].pc \notin Uncalled => exec'[s].pc \notin Uncalled
  BY RecordTypes DEF Verdict, Caught, Uncalled, ExecRecord

LEMMA WorkerStepGoesOn ==
  ASSUME Agreed, LiveAgrees, NEW r \in Runs, WorkerStep(r) \/ OtherEvent(r)
  PROVE  GoOn /\ RecordMoves
  <1>0. worker.run = r
    BY DEF WorkerStep, SessionReady, Startable, Dispatch, TurnStarted, OtherEvent, TurnCompleted,
           EventThrows, WorkerFails, StartupCancelled, WorkerLost, At
  <1>1. worker.run = r /\ UNCHANGED <<acceptedIn, crashes, host, submit, abandoned>>
    BY <1>0 DEF WorkerStep, SessionReady, Dispatch, TurnStarted, OtherEvent, TurnCompleted,
           EventThrows, WorkerFails, StartupCancelled, WorkerLost, history, trouble, memory
  <1>2. exec[r].pc = "running" /\ host # "down" /\ acceptedIn[r] = crashes
    BY <1>1 DEF LiveAgrees, DownIsIdle, Agreed, ExecAgrees, WorkerAgrees, WorkerRunsWhatIsExecuted
  <1>3. \A s \in Runs : exec[s].pc \notin Uncalled => exec'[s].pc \notin Uncalled
    <2>1. CASE SessionReady(r) \/ Dispatch(r) \/ TurnStarted(r) \/ OtherEvent(r)
      BY <2>1 DEF SessionReady, Dispatch, TurnStarted, OtherEvent, memory
    <2>2. CASE TurnCompleted(r) \/ EventThrows(r) \/ WorkerFails(r) \/ StartupCancelled(r) \/ WorkerLost(r)
      <3>1. PICK verdict : Caught(r, verdict) \/ Verdict(r, "decide", verdict)
        BY <2>2 DEF TurnCompleted, EventThrows, WorkerFails, StartupCancelled, WorkerLost, WorkerEnds
      <3>. QED BY <3>1, WorkerEndsGoesOn DEF Agreed
    <2>. QED BY <2>1, <2>2 DEF WorkerStep
  <1>4. GoOn /\ Attends(r)'
    BY <1>1, <1>2, <1>3 DEF GoOn, Attends, Executing, Uncalled
  <1>5. CASE Begun(r)
    BY <1>1, <1>2, <1>4, <1>5 DEF Begun, RecordMoves, LiveRun, ActiveStatuses
  <1>6. CASE Noted \/ Ready(r)
    BY <1>4, <1>6 DEF Noted, Ready, task, RecordMoves
  <1>7. Begun(r) \/ Noted \/ Ready(r)
    BY NotedKept DEF WorkerStep, SessionReady, Dispatch, TurnStarted, OtherEvent, TurnCompleted,
       EventThrows, WorkerFails, StartupCancelled, WorkerLost, Throws, Noted
  <1>. QED BY <1>4, <1>5, <1>6, <1>7

LEMMA CancelStepGoesOn ==
  ASSUME Agreed, LiveAgrees, NEW r \in Runs, CancelCheck(r) \/ CancelStep(r)
  PROVE  GoOn /\ RecordMoves
  <1>1. /\ UNCHANGED <<acceptedIn, crashes, host, submit, abandoned>>
        /\ cancel[r].pc # "idle" \/ host = "up"
    BY DEF CancelCheck, CancelStep, InterruptRefused, InterruptAccepted, ReserveInterrupt, Signal,
           Kill, NoProcess, InspectVictim, SettleVictim, CompleteInterrupt, CancelThrows, history,
           trouble
  <1>2. host # "down"
    BY <1>1 DEF LiveAgrees, DownIsIdle
  <1>3. \A s \in Runs : exec[s].pc \notin Uncalled => exec'[s].pc \notin Uncalled
    <2>1. CASE exec' = exec
      BY <2>1
    <2>2. CASE exec' # exec
      <3>1. PICK w : KillWorker(w)
        BY <2>2 DEF CancelCheck, CancelStep, InterruptRefused, InterruptAccepted, ReserveInterrupt,
           Signal, Kill, NoProcess, InspectVictim, SettleVictim, CompleteInterrupt, CancelThrows
      <3>2. Caught(worker.run, "interrupted") /\ worker.run # None
        BY <2>2, <3>1 DEF KillWorker, WorkerEnds
      <3>3. worker.run \in Runs
        BY <3>2, RecordTypes DEF Agreed, WorkerRecord
      <3>. QED BY <3>2, <3>3, WorkerEndsGoesOn DEF Agreed
    <2>. QED BY <2>1, <2>2
  <1>4. GoOn
    BY <1>1, <1>2, <1>3 DEF GoOn, Attends, Executing
  <1>5. CASE Noted \/ Interrupting(r)
    BY <1>4, <1>5 DEF Noted, Interrupting, task, RecordMoves
  <1>6. CASE cancel[r].pc = "commit" /\ Settle(cancel[r].victim, "interrupted")
    <2>1. cancel[r].victim \in Runs
      BY <1>6 DEF Agreed, CancelAgrees
    <2>. QED BY <1>4, <1>6, <2>1 DEF Settle, RecordMoves, TerminalRun
  <1>7. \/ Noted \/ Interrupting(r)
        \/ cancel[r].pc = "commit" /\ Settle(cancel[r].victim, "interrupted")
    BY NotedKept DEF CancelCheck, CancelStep, InterruptRefused, InterruptAccepted, ReserveInterrupt,
       Signal, Kill, NoProcess, InspectVictim, SettleVictim, CompleteInterrupt, CancelThrows,
       ReceiptThrows, Throws, Noted
  <1>. QED BY <1>4, <1>5, <1>6, <1>7

LEMMA AskGoesOn ==
  ASSUME Agreed, NEW q \in Requests, Duplicate(q) \/ Submit(q) \/ Refused(q)
  PROVE  GoOn /\ RecordMoves
  <1>1. /\ UNCHANGED <<run, status, acceptedIn, crashes, host, exec, abandoned>> /\ host = "up"
        /\ submit.pc = "idle"
    BY DEF Duplicate, Submit, Refused, Accept, Asks, task, memory, history, trouble
  <1>. QED BY <1>1 DEF GoOn, RecordMoves, Attends, Executing

LEMMA SubmitStepGoesOn ==
  ASSUME Agreed, LiveAgrees, SubmitStep
  PROVE  GoOn /\ RecordMoves
  <1>1. UNCHANGED <<crashes, host>> /\ submit.pc # "idle" /\ abandoned \subseteq abandoned'
    BY DEF SubmitStep, CreateTask, CompleteStart, ReserveFollowup, AlreadyReserved, QueueFollowup,
           CompleteFollowup, RecordThrows, LedgerThrows, history, trouble
  <1>2. host # "down"
    BY <1>1 DEF LiveAgrees, DownIsIdle
  <1>3. PICK r \in Runs : r = submit.id
    BY <1>1 DEF Agreed, SubmitAgrees
  <1>4. CASE CreateTask \/ QueueFollowup \/ RecordThrows
    <2>1. Accepted(r) /\ (Creation \/ Queueing \/ Noted)
      BY <1>3, <1>4 DEF CreateTask, QueueFollowup, RecordThrows, Throws, Noted
    <2>2. acceptedIn'[r] = crashes /\ \A s \in Runs : s # r => acceptedIn'[s] = acceptedIn[s]
      BY <2>1, AcceptedMoves DEF Agreed
    <2>3. Attends(r)' /\ \A s \in Runs : Attends(s) => Attends(s)'
      <3>1. CASE CreateTask
        <4>1. exec' = exec /\ submit.pc = "create" /\ submit'.pc = "completeStart" /\ submit'.id = r
          BY <1>3, <3>1, SubmitType DEF CreateTask, Agreed, SubmitRecord
        <4>. QED BY <1>1, <4>1 DEF Attends, Executing
      <3>2. CASE QueueFollowup
        <4>1. /\ submit.pc = "queue" /\ exec'[r].pc = "load"
              /\ \A t \in Runs : t # r => exec'[t] = exec[t]
          BY <1>3, <3>2, ScheduleMoves DEF QueueFollowup, Agreed, ExecMoves
        <4>. QED BY <1>1, <4>1 DEF Attends, Executing, Uncalled
      <3>3. CASE RecordThrows
        BY <1>1, <1>3, <3>3 DEF RecordThrows, Attends, Executing
      <3>. QED BY <1>4, <3>1, <3>2, <3>3
    <2>4. GoOn
      BY <1>1, <1>2, <2>2, <2>3 DEF GoOn
    <2>5. CASE Creation \/ Queueing
      <3>1. run' = [run EXCEPT ![r] = "starting"] /\ status' = "queued"
        BY <1>3, <2>5 DEF Creation, Queueing, RecordTurn
      <3>. QED BY <2>2, <2>3, <2>4, <3>1 DEF RecordMoves, LiveRun, ActiveStatuses
    <2>6. CASE Noted
      BY <2>4, <2>6 DEF Noted, task, RecordMoves
    <2>. QED BY <2>1, <2>5, <2>6
  <1>5. CASE CompleteStart \/ CompleteFollowup \/ ReserveFollowup \/ AlreadyReserved \/ LedgerThrows
    <2>1. UNCHANGED <<run, status, acceptedIn>>
      BY <1>5 DEF CompleteStart, CompleteFollowup, ReserveFollowup, AlreadyReserved, LedgerThrows,
         Throws, Noted, Reserving, task, history
    <2>2. ASSUME NEW s \in Runs, Attends(s) PROVE Attends(s)'
      <3>1. CASE CompleteStart
        <4>1. Schedule(r)
          BY <1>3, <3>1 DEF CompleteStart
        <4>2. exec'[r].pc = "load" /\ \A t \in Runs : t # r => exec'[t] = exec[t]
          BY <4>1, ScheduleMoves DEF Agreed, ExecMoves
        <4>. QED BY <1>1, <1>3, <2>2, <4>2 DEF Attends, Executing, Uncalled
      <3>2. CASE ~CompleteStart
        BY <1>1, <1>5, <2>2, <3>2
           DEF Attends, Executing, CompleteFollowup, ReserveFollowup, AlreadyReserved, LedgerThrows
      <3>. QED BY <3>1, <3>2
    <2>. QED BY <1>1, <1>2, <2>1, <2>2 DEF GoOn, RecordMoves
  <1>. QED BY <1>4, <1>5 DEF SubmitStep

LEMMA HostKeepsLive ==
  ASSUME Agreed, LiveAgrees, IdleExit \/ Shutdown \/ Drain \/ MemoryLost \/ Boot \/ UNCHANGED vars
  PROVE  LiveAgrees'
  <1>. USE DEF LiveAgrees
  <1>0. acceptedIn \in [Runs -> Nat] /\ crashes \in Nat
    BY DEF Agreed, Typed, StoryType
  <1>1. CASE IdleExit \/ Shutdown \/ Drain \/ UNCHANGED vars
    <2>1. /\ UNCHANGED <<run, status, shown, acceptedIn, crashes, submit, exec, cancel, abandoned>>
          /\ Record' = Record
          /\ host' = "down" <=> host = "down"
      BY <1>1 DEF IdleExit, Shutdown, Drain, vars, durable, task, memory, history, trouble, Record
    <2>. QED BY <2>1 DEF DownIsIdle, LiveIn, Attends, Executing
  <1>2. CASE MemoryLost
    <2>1. /\ acceptedIn' = acceptedIn /\ crashes' = crashes + 1 /\ host' = "down"
          /\ submit'.pc = "idle"
          /\ \A r \in Runs : exec'[r].pc = "none" /\ cancel'[r].pc = "idle"
      BY <1>2 DEF MemoryLost, IdleSubmit, IdleExec, IdleCancel
    <2>2. \A r \in Runs : acceptedIn[r] < crashes + 1
      BY <1>0
    <2>. QED BY <1>0, <2>1, <2>2 DEF DownIsIdle
  <1>3. CASE Boot
    <2>1. UNCHANGED <<acceptedIn, crashes>> /\ host = "down" /\ host' # "down"
          /\ status' \notin ActiveStatuses /\ shown' = Record'
      BY <1>3 DEF Boot, Parked, Noted, InPlace, task, history, ActiveStatuses
    <2>2. \A r \in Runs : acceptedIn[r] < crashes
      BY <2>1 DEF DownIsIdle
    <2>. QED BY <1>0, <2>1, <2>2 DEF DownIsIdle, LiveIn, Record
  <1>. QED BY <1>1, <1>2, <1>3

LEMMA StepKeepsLive == Agreed /\ LiveAgrees /\ [Next]_vars => LiveAgrees'
  <1>. SUFFICES ASSUME Agreed, LiveAgrees, [Next]_vars PROVE LiveAgrees'
    OBVIOUS
  <1>1. ASSUME GoOn, RecordMoves PROVE LiveAgrees'
    BY <1>1, StepGrows, RunnersKeepLive
  <1>2. ASSUME NEW q \in Requests, Duplicate(q) \/ Submit(q) \/ Refused(q) PROVE LiveAgrees'
    BY <1>1, <1>2, AskGoesOn
  <1>3. CASE SubmitStep
    BY <1>1, <1>3, SubmitStepGoesOn
  <1>4. ASSUME NEW r \in Runs,
               ExecStep(r) \/ WorkerStep(r) \/ OtherEvent(r) \/ CancelCheck(r) \/ CancelStep(r)
        PROVE  LiveAgrees'
    BY <1>1, <1>4, ExecStepGoesOn, WorkerStepGoesOn, CancelStepGoesOn
  <1>5. CASE IdleExit \/ Shutdown \/ Drain \/ Halt \/ Crash \/ Boot \/ UNCHANGED vars
    BY <1>5, HostKeepsLive DEF Halt, Crash
  <1>. QED BY <1>2, <1>3, <1>4, <1>5 DEF Next

LEMMA AlwaysLive == Spec => []LiveAgrees
  <1>1. Init => LiveAgrees
    BY DEF Init, LiveAgrees, DownIsIdle, LiveIn, Record, ActiveStatuses, LiveRun
  <1>. QED BY <1>1, AlwaysAgreed, StepKeepsLive, PTL DEF Spec

-----------------------------------------------------------------------------
(* What is settled stays, whatever is cancelled *)

\* A turn of a record, and one that others follow.
Among(r, record) == \E i \in 1..Len(record.turns) : record.turns[i] = r
Passed(r, record) == \E i \in 1..Len(record.turns) : i < Len(record.turns) /\ record.turns[i] = r

\* The turns are different runs, and a run is in the record when it is one of them.
RunsAmong(record) == \A r \in Runs : record.run[r] # "absent" => Among(r, record)
TurnsDiffer ==
    /\ \A i, j \in 1..Len(turns) : turns[i] = turns[j] => i = j
    /\ RunsAmong(Record) /\ RunsAmong(shown)
    /\ \A i \in 1..Len(turns) : turns[i] < nextRun
    /\ submit.pc \in {"create", "reserve", "queue"} =>
          \A i \in 1..Len(turns) : turns[i] # submit.id

\* A cancellation whose entry is in the ledger, and no reader sees it.
Hidden(c) == cancelLedger[c] # None /\ shown.cancelLedger[c] = None

\* A cancellation has a turn of the task as its victim, and records it before it touches it.  One
\* that is tried again, because an entry was made by a call that threw and is hidden, has the
\* victim of that entry: it is only asked for while the turn is the latest that readers see, and
\* they see nothing new before they see the entry.
Recorded == {"signal", "kill", "request", "inspect", "commit", "complete"}
VictimsAgree ==
    \A c \in Runs :
        /\ cancel[c].pc # "idle" => Among(c, shown)
        /\ cancel[c].pc \in Recorded \cup {"reserve"} => Among(cancel[c].victim, Record)
        /\ cancel[c].pc = "reserve" =>
              /\ cancel[c].victim = c \/ Passed(c, shown)
              /\ cancelLedger[c] \in {None, cancel[c].victim}
        /\ cancel[c].pc \in Recorded => cancelLedger[c] = cancel[c].victim
        /\ Hidden(c) => cancelLedger[c] = c \/ Passed(c, shown)
        /\ Hidden(c) /\ cancel[c].pc = "asked" => cancelLedger[c] = c /\ Latest(shown) = c

\* What is executed is live; a turn that ended by itself has its receipt, and so has the verdict
\* that is about to be committed.
Consistent(r) ==
    /\ Executing(r) => run[r] \in LiveRun
    /\ run[r] \in {"completed", "failed", "interrupted"} => receipt[r] = run[r]
    /\ exec[r].pc = "commit" => receipt[r] = exec[r].verdict

\* The turns that nobody interrupts and whose settlement did not throw.
Undisturbed == Runs \ (Interrupted \cup disputed)

SettledAgrees == TurnsDiffer /\ VictimsAgree /\ \A r \in Undisturbed : Consistent(r)

\* What a step leaves of it: the turns that stay undisturbed are consistent, and what is settled
\* stays.
Stays(r) ==
    /\ r \notin disputed' => Consistent(r)'
    /\ run[r] \in TerminalRun => run'[r] = run[r]
StepSettles == TurnsDiffer' /\ VictimsAgree' /\ \A r \in Undisturbed : Stays(r)

LEMMA RunType ==
  Typed => /\ run \in [Runs -> {"absent"} \cup LiveRun \cup TerminalRun]
            /\ turns \in Seq(Runs)
            /\ (turns # <<>> => LastTurn \in Runs /\ Len(turns) \in 1..Len(turns))
  BY DEF Typed, RecordTyped, LastTurn

LEMMA DisjointStatuses ==
  /\ LiveRun \cap TerminalRun = {} /\ "absent" \notin LiveRun \cup TerminalRun
  /\ ActiveStatuses \cap TerminalRun = {} /\ "absent" \notin ActiveStatuses
  BY DEF LiveRun, TerminalRun, ActiveStatuses

\* Readers see turns that were or are in the record.
LEMMA ShownRuns ==
  ASSUME RecordGrows, TurnsDiffer, RunsAmong(Record)'
  PROVE  RunsAmong(shown)'
  <1>1. RunsAmong(Record')
    BY DEF RunsAmong, Among
  <1>2. RunsAmong(shown')
    BY <1>1 DEF RecordGrows, TurnsDiffer
  <1>. QED BY <1>2 DEF RunsAmong, Among

\* A step that records no turn and asks for none.
LEMMA TurnsStay ==
  ASSUME Typed, RecordGrows, TurnsDiffer, UNCHANGED <<turns, nextRun>>,
         submit'.pc \in {"create", "reserve", "queue"} =>
             submit.pc \in {"create", "reserve", "queue"} /\ submit'.id = submit.id,
         \A s \in Runs : run'[s] # "absent" => run[s] # "absent" \/ Among(s, Record)
  PROVE  TurnsDiffer'
  <1>1. RunsAmong(Record)'
    BY DEF TurnsDiffer, RunsAmong, Among, Record
  <1>. QED BY <1>1, ShownRuns DEF TurnsDiffer

\* What a step does to the cancellation of c.
VictimMoves(c) ==
    \/ cancel'[c] = cancel[c] \/ cancel'[c].pc = "idle"
    \/ /\ cancel'[c].pc = "asked" /\ Latest(shown) = c /\ Among(c, shown)
       /\ UNCHANGED <<shown, cancelLedger>>
    \/ /\ cancel[c].pc = "asked" /\ cancel'[c].pc = "reserve" /\ cancel'[c].victim = Latest(shown)
       /\ shown.cancelLedger[c] = None
       /\ UNCHANGED <<shown, cancelLedger>>
    \/ /\ cancel'[c].pc \in Recorded /\ cancel'[c].victim = cancel[c].victim
       /\ cancel[c].pc \in Recorded \/ (cancel[c].pc = "reserve" /\ Interrupting(c))

LEMMA TurnsGrow ==
  ASSUME Agreed, ShownAgrees, RecordGrows
  PROVE  /\ shown.turns \in Seq(Runs) /\ turns \in Seq(Runs)
         /\ \A r : Among(r, Record) => Among(r, Record')
         /\ \A r : Among(r, shown) => Among(r, Record) /\ Among(r, shown')
         /\ \A r : Passed(r, shown) => Passed(r, shown')
  <1>1. shown.turns \in Seq(Runs) /\ turns \in Seq(Runs) /\ Record.turns = turns /\ Record.turns' = turns'
    BY DEF Agreed, Typed, RecordTyped, ShownAgrees, Records, Record
  <1>2. /\ Len(turns) <= Len(turns') /\ Len(turns') \in Nat
        /\ \A i \in 1..Len(turns) : turns'[i] = turns[i]
    <2>1. CASE turns' = turns
      BY <1>1, <2>1
    <2>2. CASE submit.pc \in {"create", "queue"} /\ turns' = Append(turns, submit.id)
      <3>1. submit.id \in Runs
        BY <2>2 DEF Agreed, SubmitAgrees
      <3>. QED BY <1>1, <2>2, <3>1
    <2>. QED BY <2>1, <2>2 DEF RecordGrows
  <1>3. /\ Len(shown.turns) <= Len(turns)
        /\ \A i \in 1..Len(shown.turns) : turns[i] = shown.turns[i]
    BY <1>1 DEF ShownAgrees, Grows
  <1>4. /\ Len(shown.turns) <= Len(shown'.turns) /\ Len(shown'.turns) \in Nat
        /\ \A i \in 1..Len(shown.turns) : shown'.turns[i] = shown.turns[i]
    <2>1. CASE shown' = shown
      BY <1>1, <2>1
    <2>2. CASE shown' = Record
      BY <1>1, <1>3, <2>2
    <2>3. CASE shown' = Record'
      <3>1. shown'.turns = turns'
        BY <1>1, <2>3
      <3>. QED BY <1>1, <1>2, <1>3, <3>1
    <2>. QED BY <2>1, <2>2, <2>3 DEF RecordGrows
  <1>5. /\ Len(turns) \in Nat /\ Len(turns') \in Nat /\ Len(shown.turns) \in Nat
    BY <1>1, <1>2
  <1>6. \A r : Among(r, Record) => Among(r, Record')
    BY <1>1, <1>2, <1>5 DEF Among
  <1>7. \A r : Among(r, shown) => Among(r, Record) /\ Among(r, shown')
    <2>. SUFFICES ASSUME NEW r, NEW i \in 1..Len(shown.turns), shown.turns[i] = r
                  PROVE  Among(r, Record) /\ Among(r, shown')
      BY DEF Among
    <2>1. i \in 1..Len(turns) /\ i \in 1..Len(shown'.turns)
      BY <1>3, <1>4, <1>5
    <2>. QED BY <1>1, <1>3, <1>4, <2>1 DEF Among
  <1>8. \A r : Passed(r, shown) => Passed(r, shown')
    BY <1>4, <1>5 DEF Passed
  <1>. QED BY <1>1, <1>6, <1>7, <1>8

\* The latest turn that readers see is followed by none, and is the record's.
LEMMA LatestShown ==
  ASSUME Agreed, ShownAgrees, TurnsDiffer, shown.turns # <<>>
  PROVE  /\ Latest(shown) \in Runs /\ Among(Latest(shown), shown)
         /\ ~Passed(Latest(shown), shown)
         /\ \A r : Among(r, shown) => r = Latest(shown) \/ Passed(r, shown)
  <1>1. shown.turns \in Seq(Runs) /\ turns \in Seq(Runs)
    BY DEF Agreed, Typed, RecordTyped, ShownAgrees, Records
  <1>2. /\ Len(shown.turns) <= Len(turns)
        /\ \A i \in 1..Len(shown.turns) : turns[i] = shown.turns[i]
    BY DEF ShownAgrees, Grows, Record
  <1>3. Len(shown.turns) \in 1..Len(shown.turns) /\ Len(turns) \in Nat
    BY <1>1
  <1>4. \A i, j \in 1..Len(shown.turns) : shown.turns[i] = shown.turns[j] => i = j
    BY <1>2, <1>3 DEF TurnsDiffer
  <1>. QED BY <1>1, <1>3, <1>4 DEF Latest, Among, Passed

LEMMA VictimsStay ==
  ASSUME Agreed, ShownAgrees, RecordGrows, TurnsDiffer, VictimsAgree,
         \A c \in Runs : VictimMoves(c)
  PROVE  VictimsAgree'
  <1>0. cancelLedger \in [Runs -> Runs \cup {None}] /\ cancel \in [Runs -> CancelRecord]
    BY RecordTypes DEF Agreed, Typed, RecordTyped
  <1>. SUFFICES ASSUME NEW c \in Runs
       PROVE /\ cancel'[c].pc # "idle" => Among(c, shown')
             /\ cancel'[c].pc \in Recorded \cup {"reserve"} => Among(cancel'[c].victim, Record')
             /\ cancel'[c].pc = "reserve" =>
                   /\ cancel'[c].victim = c \/ Passed(c, shown')
                   /\ cancelLedger'[c] \in {None, cancel'[c].victim}
             /\ cancel'[c].pc \in Recorded => cancelLedger'[c] = cancel'[c].victim
             /\ Hidden(c)' => cancelLedger'[c] = c \/ Passed(c, shown')
             /\ Hidden(c)' /\ cancel'[c].pc = "asked" => cancelLedger'[c] = c /\ Latest(shown') = c
    BY DEF VictimsAgree, Hidden, Among, Passed, Latest
  <1>1. /\ cancel[c].pc # "idle" => Among(c, shown)
        /\ cancel[c].pc \in Recorded \cup {"reserve"} => Among(cancel[c].victim, Record)
        /\ cancel[c].pc = "reserve" =>
              /\ cancel[c].victim = c \/ Passed(c, shown)
              /\ cancelLedger[c] \in {None, cancel[c].victim}
        /\ cancel[c].pc \in Recorded => cancelLedger[c] = cancel[c].victim
        /\ Hidden(c) => cancelLedger[c] = c \/ Passed(c, shown)
        /\ Hidden(c) /\ cancel[c].pc = "asked" => cancelLedger[c] = c /\ Latest(shown) = c
    BY DEF VictimsAgree
  <1>2. /\ \A r : Among(r, Record) => Among(r, Record')
        /\ \A r : Among(r, shown) => Among(r, Record) /\ Among(r, shown')
        /\ \A r : Passed(r, shown) => Passed(r, shown')
    BY TurnsGrow
  <1>3. \/ cancelLedger'[c] = cancelLedger[c]
        \/ /\ cancel[c].pc = "reserve" /\ cancelLedger[c] = None
           /\ cancelLedger'[c] = cancel[c].victim
    BY <1>0 DEF RecordGrows, Interrupting, Promise
  <1>4. ASSUME Hidden(c)'
        PROVE  \/ Hidden(c) /\ shown' = shown /\ cancelLedger'[c] = cancelLedger[c]
               \/ cancel[c].pc = "reserve" /\ cancelLedger'[c] = cancel[c].victim
    BY <1>3, <1>4 DEF RecordGrows, Hidden, Record
  <1>5. Hidden(c)' => cancelLedger'[c] = c \/ Passed(c, shown')
    BY <1>1, <1>2, <1>4
  <1>6. CASE cancel'[c] = cancel[c]
    BY <1>1, <1>2, <1>3, <1>4, <1>5, <1>6 DEF Recorded
  <1>7. CASE cancel'[c].pc = "idle"
    BY <1>5, <1>7 DEF Recorded
  <1>8. CASE cancel'[c].pc = "asked" /\ Latest(shown) = c /\ Among(c, shown) /\ UNCHANGED <<shown, cancelLedger>>
    <2>1. shown.turns # <<>>
      BY <1>8 DEF Among
    <2>2. Hidden(c)' => cancelLedger'[c] = c
      BY <1>1, <1>8, <2>1, LatestShown DEF Hidden
    <2>. QED BY <1>5, <1>8, <2>2 DEF Recorded
  <1>9. CASE /\ cancel[c].pc = "asked" /\ cancel'[c].pc = "reserve" /\ cancel'[c].victim = Latest(shown)
             /\ shown.cancelLedger[c] = None
             /\ UNCHANGED <<shown, cancelLedger>>
    <2>1. Among(c, shown) /\ shown.turns # <<>>
      BY <1>1, <1>9 DEF Among
    <2>2. cancelLedger[c] \in {None, cancel'[c].victim}
      BY <1>1, <1>9 DEF Hidden
    <2>. QED BY <1>2, <1>5, <1>9, <2>1, <2>2, LatestShown DEF Recorded
  <1>10. CASE /\ cancel'[c].pc \in Recorded /\ cancel'[c].victim = cancel[c].victim
              /\ cancel[c].pc \in Recorded \/ (cancel[c].pc = "reserve" /\ Interrupting(c))
    <2>1. cancelLedger'[c] = cancel[c].victim
      BY <1>0, <1>1, <1>3, <1>10, ConstantAssumption
         DEF Interrupting, Promise, Recorded, CancelAgrees, Agreed, Runs
    <2>. QED BY <1>1, <1>2, <1>5, <1>10, <2>1 DEF Recorded
  <1>. QED BY <1>6, <1>7, <1>8, <1>9, <1>10 DEF VictimMoves

\* A step that leaves run s as it is.
LEMMA RunStays ==
  ASSUME NEW s \in Runs, Consistent(s), run'[s] = run[s], receipt'[s] = receipt[s],
         exec'[s] = exec[s],
         submit' = submit \/ submit'.pc # "completeStart"
  PROVE  Stays(s)
  BY DEF Stays, Consistent, Executing

\* A step of the execution of run r or of its worker.
LEMMA RunMoves ==
  ASSUME Agreed, ShownAgrees, RecordGrows, SettledAgrees, NEW r \in Runs, exec[r].pc \notin Uncalled,
         UNCHANGED <<turns, nextRun, submit, cancel>>,
         \A s \in Runs : s # r => exec'[s] = exec[s] /\ run'[s] = run[s] /\ receipt'[s] = receipt[s],
         run[r] \in LiveRun =>
             \/ r \in disputed'
             \/ /\ run'[r] \in LiveRun
                /\ exec'[r].pc = "commit" => receipt'[r] = exec'[r].verdict
             \/ exec[r].pc = "commit" /\ run'[r] = exec[r].verdict /\ receipt'[r] = receipt[r]
                /\ exec'[r].pc = "done"
  PROVE  StepSettles
  <1>. USE DEF SettledAgrees, Agreed
  <1>1. Among(r, Record)
    BY DEF ExecAgrees, OnRecord, Uncalled, Among, Record
  <1>2. TurnsDiffer'
    <2>1. \A s \in Runs : run'[s] # "absent" => run[s] # "absent" \/ Among(s, Record)
      BY <1>1
    <2>. QED BY <2>1, TurnsStay
  <1>3. VictimsAgree'
    BY VictimsStay DEF VictimMoves
  <1>4. ASSUME NEW s \in Undisturbed PROVE Stays(s)
    <2>0. s \in Runs /\ Consistent(s)
      BY <1>4 DEF Undisturbed
    <2>1. CASE s # r
      BY <2>0, <2>1, RunStays
    <2>2. CASE s = r
      <3>1. run[r] \in LiveRun
        BY <2>0, <2>2 DEF Consistent, Executing
      <3>2. ~(submit.pc = "completeStart" /\ submit.id = r)
        BY DEF SubmitAgrees, Unscheduled, Uncalled
      <3>3. exec[r].pc = "commit" => receipt[r] = exec[r].verdict
        BY <2>0, <2>2 DEF Consistent
      <3>. QED BY <2>2, <3>1, <3>2, <3>3, DisjointStatuses
               DEF Stays, Consistent, Executing, Uncalled, LiveRun
    <2>. QED BY <2>1, <2>2
  <1>. QED BY <1>2, <1>3, <1>4 DEF StepSettles

\* executeTurn
LEMMA ExecStepSettles ==
  ASSUME Agreed, ShownAgrees, RecordGrows, SettledAgrees, NEW r \in Runs, ExecStep(r)
  PROVE  StepSettles
  <1>0. /\ exec \in [Runs -> ExecRecord] /\ receipt \in [Runs -> TerminalRun \cup {None}]
        /\ run \in [Runs -> {"absent"} \cup LiveRun \cup TerminalRun]
    BY RecordTypes DEF Agreed, Typed, RecordTyped
  <1>1. /\ exec[r].pc \notin Uncalled
        /\ UNCHANGED <<turns, nextRun, submit, cancel>>
    BY DEF ExecStep, LoadTurn, PrepareFails, CompileContext, CheckCancelled, TurnStarting, PrepareThrows,
           RunTurn, Decide, Inspect, CommitVerdict, SettleThrows, ReceiptThrows, Throws, Noted,
           Compiling, Starting, Settle, durable, task, Uncalled
  <1>2. \A s \in Runs : s # r => exec'[s] = exec[s]
    BY <1>0 DEF ExecStep, LoadTurn, PrepareFails, CompileContext, CheckCancelled, TurnStarting,
                PrepareThrows, RunTurn, Decide, Inspect, LeftAlone, CommitVerdict, SettleThrows, Goto,
                Verdict, Caught, Done
  <1>3. CASE \/ LoadTurn(r) \/ PrepareFails(r) \/ CompileContext(r) \/ CheckCancelled(r)
             \/ RunTurn(r) \/ Decide(r)
    <2>1. UNCHANGED <<run, receipt>>
      BY <1>3 DEF LoadTurn, PrepareFails, CompileContext, CheckCancelled, RunTurn, Decide, Compiling,
                  durable, task
    <2>2. exec'[r].pc # "commit"
      BY <1>0, <1>3 DEF LoadTurn, PrepareFails, CompileContext, CheckCancelled, RunTurn, Decide, Goto,
                        Verdict, Caught, ExecRecord
    <2>. QED BY <1>1, <1>2, <2>1, <2>2, RunMoves
  <1>4. CASE TurnStarting(r) \/ PrepareThrows(r)
    <2>1. receipt' = receipt /\ (run' = run \/ run' = [run EXCEPT ![r] = "starting"])
      BY <1>4 DEF TurnStarting, PrepareThrows, Throws, Starting, Compiling, task
    <2>2. exec'[r].pc # "commit"
      BY <1>0, <1>4 DEF TurnStarting, PrepareThrows, Goto, Caught, ExecRecord
    <2>. QED BY <1>0, <1>1, <1>2, <2>1, <2>2, RunMoves DEF LiveRun
  <1>5. CASE Inspect(r)
    <2>1. run' = run /\ \A s \in Runs : s # r => receipt'[s] = receipt[s]
      BY <1>0, <1>5 DEF Inspect, LeftAlone, task
    <2>2. exec'[r].pc = "commit" => receipt'[r] = exec'[r].verdict
      <3>1. CASE LeftAlone(r)
        BY <3>1, DoneMoves DEF LeftAlone, ExecMoves, Agreed
      <3>2. CASE Goto(r, "commit") /\ receipt' = [receipt EXCEPT ![r] = exec[r].verdict]
        BY <1>0, <3>2 DEF Goto, ExecRecord
      <3>. QED BY <1>5, <3>1, <3>2 DEF Inspect
    <2>. QED BY <1>1, <1>2, <2>1, <2>2, RunMoves
  <1>6. CASE CommitVerdict(r)
    <2>1. /\ exec[r].pc = "commit" /\ receipt' = receipt
          /\ run' = [run EXCEPT ![r] = exec[r].verdict]
      BY <1>6 DEF CommitVerdict, Settle
    <2>2. exec'[r].pc = "done"
      BY <1>6, DoneMoves DEF CommitVerdict, ExecMoves, Agreed
    <2>. QED BY <1>0, <1>1, <1>2, <2>1, <2>2, RunMoves
  <1>7. CASE SettleThrows(r)
    <2>1. /\ \A s \in Runs : s # r => receipt'[s] = receipt[s] /\ run'[s] = run[s]
          /\ \/ run' = run
             \/ /\ exec[r].pc = "commit" /\ receipt' = receipt
                /\ run' = [run EXCEPT ![r] = exec[r].verdict]
      BY <1>0, <1>7 DEF SettleThrows, ReceiptThrows, Throws, Settle, task
    <2>2. r \in disputed' \/ exec'[r].pc = "done"
      BY <1>7, DoneMoves DEF SettleThrows, ExecMoves, Agreed
    <2>. QED BY <1>0, <1>1, <1>2, <2>1, <2>2, RunMoves
  <1>. QED BY <1>3, <1>4, <1>5, <1>6, <1>7 DEF ExecStep

\* The worker
LEMMA WorkerStepSettles ==
  ASSUME Agreed, ShownAgrees, RecordGrows, SettledAgrees, NEW r \in Runs, WorkerStep(r) \/ OtherEvent(r)
  PROVE  StepSettles
  <1>0. /\ exec \in [Runs -> ExecRecord]
        /\ run \in [Runs -> {"absent"} \cup LiveRun \cup TerminalRun]
    BY RecordTypes DEF Agreed, Typed, RecordTyped
  <1>1. worker.run = r /\ UNCHANGED <<turns, nextRun, submit, cancel, receipt>>
    BY DEF WorkerStep, SessionReady, Startable, Dispatch, TurnStarted, OtherEvent, TurnCompleted,
           EventThrows, WorkerFails, StartupCancelled, WorkerLost, At, Throws, Noted, Ready, Begun,
           durable, task, memory
  <1>2. exec[r].pc = "running"
    BY <1>1 DEF Agreed, WorkerAgrees, WorkerRunsWhatIsExecuted
  <1>3. (\A s \in Runs : s # r => exec'[s] = exec[s]) /\ exec'[r].pc # "commit"
    <2>1. CASE SessionReady(r) \/ Dispatch(r) \/ TurnStarted(r) \/ OtherEvent(r)
      BY <1>2, <2>1 DEF SessionReady, Dispatch, TurnStarted, OtherEvent, memory
    <2>2. CASE TurnCompleted(r) \/ EventThrows(r) \/ WorkerFails(r) \/ StartupCancelled(r) \/ WorkerLost(r)
      <3>1. PICK verdict : Caught(r, verdict) \/ Verdict(r, "decide", verdict)
        BY <2>2 DEF TurnCompleted, EventThrows, WorkerFails, StartupCancelled, WorkerLost, WorkerEnds
      <3>. QED BY <1>0, <3>1 DEF Caught, Verdict, ExecRecord
    <2>. QED BY <2>1, <2>2 DEF WorkerStep
  <1>4. run' = run \/ run' = [run EXCEPT ![r] = "inProgress"]
    BY DEF WorkerStep, SessionReady, Dispatch, TurnStarted, OtherEvent, TurnCompleted, EventThrows,
           WorkerFails, StartupCancelled, WorkerLost, Throws, Noted, Ready, Begun, durable, task
  <1>. QED BY <1>0, <1>1, <1>2, <1>3, <1>4, RunMoves DEF Uncalled, LiveRun

\* A cancellation records its victim once, and then touches no other turn than that one.
LEMMA CancelStepMoves ==
  ASSUME Agreed, ShownAgrees, TurnsDiffer, NEW r \in Runs, CancelCheck(r) \/ CancelStep(r)
  PROVE  \A c \in Runs : VictimMoves(c)
  <1>0. cancel \in [Runs -> CancelRecord]
    BY RecordTypes DEF Agreed
  <1>1. \A c \in Runs : c # r => cancel'[c] = cancel[c]
    BY <1>0 DEF CancelCheck, CancelStep, InterruptRefused, InterruptAccepted, ReserveInterrupt,
           Signal, Kill, NoProcess, InspectVictim, SettleVictim, CompleteInterrupt, CancelThrows,
           CancelGoto
  <1>2. VictimMoves(r)
    <2>1. CASE CancelCheck(r)
      <3>1. RunsAmong(shown) /\ shown.run[r] \in LiveRun
        BY <2>1 DEF CancelCheck, TurnsDiffer
      <3>2. Among(r, shown)
        BY <3>1 DEF RunsAmong, LiveRun
      <3>. QED BY <1>0, <2>1, <3>2 DEF CancelCheck, CancelGoto, CancelRecord, VictimMoves, durable
    <2>2. CASE InterruptAccepted(r)
      BY <1>0, <2>2 DEF InterruptAccepted, Interruptible, CancelRecord, VictimMoves, durable
    <2>3. CASE InterruptRefused(r) \/ CompleteInterrupt(r) \/ CancelThrows(r)
      BY <1>0, <2>3 DEF InterruptRefused, CompleteInterrupt, CancelThrows, IdleCancel, VictimMoves
    <2>4. CASE \/ ReserveInterrupt(r) \/ Signal(r) \/ Kill(r) \/ NoProcess(r) \/ InspectVictim(r)
               \/ SettleVictim(r)
      <3>1. /\ cancel[r].pc \in Recorded \/ (cancel[r].pc = "reserve" /\ Interrupting(r))
            /\ cancel'[r].pc \in Recorded /\ cancel'[r].victim = cancel[r].victim
        BY <1>0, <2>4 DEF ReserveInterrupt, Signal, Kill, NoProcess, InspectVictim, SettleVictim,
           CancelGoto, CancelRecord, Recorded
      <3>. QED BY <3>1 DEF VictimMoves
    <2>. QED BY <2>1, <2>2, <2>3, <2>4 DEF CancelStep
  <1>. QED BY <1>1, <1>2 DEF VictimMoves

LEMMA CancelStepSettles ==
  ASSUME Agreed, ShownAgrees, RecordGrows, SettledAgrees, NEW r \in Runs, CancelCheck(r) \/ CancelStep(r)
  PROVE  StepSettles
  <1>. USE DEF SettledAgrees, Agreed
  <1>0. /\ exec \in [Runs -> ExecRecord] /\ worker \in WorkerRecord
        /\ receipt \in [Runs -> TerminalRun \cup {None}]
        /\ run \in [Runs -> {"absent"} \cup LiveRun \cup TerminalRun]
    BY RecordTypes DEF Typed, RecordTyped
  <1>1. UNCHANGED <<turns, nextRun, submit>>
    BY DEF CancelCheck, CancelStep, InterruptRefused, InterruptAccepted, ReserveInterrupt, Signal,
           Kill, NoProcess, InspectVictim, SettleVictim, CompleteInterrupt, CancelThrows,
           ReceiptThrows, Throws, Noted, Interrupting, Settle, durable, task
  <1>2. VictimsAgree'
    BY CancelStepMoves, VictimsStay
  <1>3. \/ UNCHANGED <<run, receipt>>
        \/ /\ cancel[r].pc \in Recorded
           /\ run' = run \/ run' = [run EXCEPT ![cancel[r].victim] = "interrupted"]
           /\ receipt' = receipt \/ receipt' = [receipt EXCEPT ![cancel[r].victim] = "interrupted"]
    BY DEF CancelCheck, CancelStep, InterruptRefused, InterruptAccepted, ReserveInterrupt, Signal,
           Kill, NoProcess, InspectVictim, SettleVictim, CompleteInterrupt, CancelThrows,
           ReceiptThrows, Throws, Noted, Interrupting, Settle, durable, task, Recorded
  <1>4. cancel[r].pc \in Recorded => cancel[r].victim \in Interrupted /\ Among(cancel[r].victim, Record)
    BY DEF VictimsAgree, Interrupted
  <1>5. \A s \in Undisturbed : run'[s] = run[s] /\ receipt'[s] = receipt[s]
    BY <1>0, <1>3, <1>4 DEF Undisturbed
  <1>6. \A s \in Runs : exec'[s] = exec[s] \/ (exec[s].pc = "running" /\ exec'[s].pc = "decide")
    <2>1. CASE exec' = exec
      BY <2>1
    <2>2. CASE exec' # exec
      <3>1. PICK w : KillWorker(w)
        BY <2>2 DEF CancelCheck, CancelStep, InterruptRefused, InterruptAccepted, ReserveInterrupt,
           Signal, Kill, NoProcess, InspectVictim, SettleVictim, CompleteInterrupt, CancelThrows
      <3>2. Caught(worker.run, "interrupted") /\ worker.run # None
        BY <2>2, <3>1 DEF KillWorker, WorkerEnds
      <3>3. worker.run \in Runs /\ exec[worker.run].pc = "running"
        BY <1>0, <3>2 DEF WorkerRecord, WorkerAgrees, WorkerRunsWhatIsExecuted
      <3>. QED BY <1>0, <3>2, <3>3 DEF Caught, ExecRecord
    <2>. QED BY <2>1, <2>2
  <1>7. TurnsDiffer'
    <2>1. \A s \in Runs : run'[s] # "absent" => run[s] # "absent" \/ Among(s, Record)
      BY <1>0, <1>3, <1>4
    <2>. QED BY <1>1, <2>1, TurnsStay
  <1>8. ASSUME NEW s \in Undisturbed PROVE Stays(s)
    <2>1. s \in Runs /\ run'[s] = run[s] /\ receipt'[s] = receipt[s] /\ Consistent(s)
      BY <1>5, <1>8 DEF Undisturbed
    <2>2. CASE exec'[s] = exec[s]
      BY <1>1, <2>1, <2>2, RunStays
    <2>3. CASE exec[s].pc = "running" /\ exec'[s].pc = "decide"
      BY <1>1, <2>1, <2>3 DEF Stays, Consistent, Executing, Uncalled
    <2>. QED BY <1>6, <2>1, <2>2, <2>3
  <1>. QED BY <1>2, <1>7, <1>8 DEF StepSettles

\* The start tool: no turn is touched before the new one is recorded.
LEMMA AskSettles ==
  ASSUME Agreed, ShownAgrees, RecordGrows, SettledAgrees,
         NEW q \in Requests, Duplicate(q) \/ Submit(q) \/ Refused(q)
  PROVE  StepSettles
  <1>. USE DEF SettledAgrees, Agreed
  <1>1. /\ UNCHANGED <<turns, run, receipt, exec, cancel>>
        /\ submit'.pc # "completeStart" \/ submit' = submit
    BY DEF Duplicate, Submit, Refused, Accept, Answer, Asks, IdleSubmit, task, memory
  <1>2. TurnsDiffer'
    <2>1. CASE Duplicate(q) \/ Refused(q)
      BY <1>1, <2>1, TurnsStay DEF Duplicate, Refused, Answer, Asks, IdleSubmit, memory
    <2>2. CASE Submit(q)
      <3>1. nextRun \in Runs /\ nextRun' = nextRun + 1 /\ submit'.id = nextRun /\ shown' = shown
        BY <2>2 DEF Submit, Accept
      <3>2. \A i \in 1..Len(turns) : turns[i] \in Runs
        BY DEF Typed, RecordTyped
      <3>3. RunsAmong(Record)' /\ RunsAmong(shown)'
        BY <1>1, <3>1 DEF TurnsDiffer, RunsAmong, Among, Record
      <3>. QED BY <1>1, <3>1, <3>2, <3>3, ConstantAssumption DEF TurnsDiffer, Runs
    <2>. QED BY <2>1, <2>2
  <1>3. VictimsAgree'
    BY <1>1, VictimsStay DEF VictimMoves
  <1>4. \A s \in Undisturbed : Stays(s)
    BY <1>1, RunStays DEF Undisturbed
  <1>. QED BY <1>2, <1>3, <1>4 DEF StepSettles

\* The other steps of the start tool that record no turn; it may end with a throw.
LEMMA CompleteSettles ==
  ASSUME Agreed, ShownAgrees, RecordGrows, SettledAgrees, SubmitStep, UNCHANGED <<turns, run>>
  PROVE  StepSettles
  <1>. USE DEF SettledAgrees, Agreed
  <1>1. /\ UNCHANGED <<turns, nextRun, run, receipt, cancel>>
        /\ submit'.pc # "completeStart" \/ CreateTask
        /\ submit'.pc = "queue" => submit.pc = "reserve" /\ submit'.id = submit.id
        /\ submit'.pc \notin {"create", "reserve"}
    BY SubmitType DEF SubmitStep, CreateTask, CompleteStart, ReserveFollowup, AlreadyReserved,
       QueueFollowup, CompleteFollowup, RecordThrows, LedgerThrows, Answer, IdleSubmit, SubmitRecord
  <1>2. ~CreateTask /\ ~QueueFollowup
    <2>1. ASSUME NEW s \in Runs, RecordTurn(s) PROVE FALSE
      <3>1. turns' = Append(turns, s) /\ turns \in Seq(Runs)
        BY <2>1 DEF RecordTurn, Typed, RecordTyped
      <3>. QED BY <3>1
    <2>. QED BY <2>1 DEF CreateTask, QueueFollowup, Creation, Queueing, SubmitAgrees
  <1>3. TurnsDiffer'
    BY <1>1, TurnsStay
  <1>4. VictimsAgree'
    BY <1>1, VictimsStay DEF VictimMoves
  <1>5. ASSUME NEW s \in Undisturbed PROVE Stays(s)
    <2>0. s \in Runs /\ Consistent(s)
      BY <1>5 DEF Undisturbed
    <2>1. CASE exec'[s] = exec[s]
      BY <1>1, <1>2, <2>0, <2>1, RunStays
    <2>2. CASE exec'[s] # exec[s]
      <3>1. CompleteStart /\ submit.id \in Runs /\ Schedule(submit.id)
        BY <1>2, <2>2 DEF SubmitStep, CompleteStart, CompleteFollowup, ReserveFollowup, AlreadyReserved,
                   RecordThrows, LedgerThrows, SubmitAgrees
      <3>2. exec'[submit.id].pc = "load" /\ \A u \in Runs : u # submit.id => exec'[u] = exec[u]
        BY <3>1, ScheduleMoves DEF ExecMoves
      <3>3. s = submit.id /\ submit.pc = "completeStart" /\ exec'[s].pc = "load"
        BY <2>0, <2>2, <3>1, <3>2 DEF CompleteStart
      <3>. QED BY <1>1, <2>0, <3>3 DEF Stays, Consistent, Executing
    <2>. QED BY <2>1, <2>2
  <1>. QED BY <1>3, <1>4, <1>5 DEF StepSettles

\* A turn that is recorded was not in the record before.
LEMMA RecordSettles ==
  ASSUME Agreed, ShownAgrees, RecordGrows, SettledAgrees, SubmitStep, RecordTurn(submit.id),
         submit.pc \in {"create", "queue"}
  PROVE  StepSettles
  <1>. USE DEF SettledAgrees, Agreed
  <1>1. CreateTask \/ QueueFollowup \/ RecordThrows
    BY DEF SubmitStep, CompleteStart, ReserveFollowup, AlreadyReserved, CompleteFollowup, LedgerThrows
  <1>2. PICK r \in Runs : r = submit.id /\ r < nextRun
    BY DEF SubmitAgrees
  <1>3. /\ \A s \in Runs : s # r => exec'[s] = exec[s]
        /\ exec[r].pc = "none" /\ exec'[r].pc \in {"none", "load"}
        /\ UNCHANGED <<receipt, nextRun, cancel>>
    <2>1. exec[r].pc = "none"
      BY <1>2 DEF SubmitAgrees, Unscheduled
    <2>2. exec' = exec \/ Schedule(r)
      BY <1>1, <1>2 DEF CreateTask, QueueFollowup, RecordThrows
    <2>. QED BY <1>1, <2>1, <2>2, ScheduleMoves DEF CreateTask, QueueFollowup, RecordThrows, ExecMoves
  <1>4. submit'.pc = "idle" \/ (submit'.id = r /\ submit'.pc \in {"completeStart", "completeFollowup"})
    BY <1>1, <1>2, SubmitType DEF CreateTask, QueueFollowup, RecordThrows, SubmitRecord, IdleSubmit
  <1>5. /\ turns \in Seq(Runs) /\ run \in [Runs -> {"absent"} \cup LiveRun \cup TerminalRun]
        /\ \A i \in 1..Len(turns) : turns[i] # r
        /\ run[r] = "absent"
    <2>1. \A i \in 1..Len(turns) : turns[i] # r
      BY <1>2 DEF TurnsDiffer
    <2>. QED BY <2>1, RunType DEF TurnsDiffer, RunsAmong, Among, Record
  <1>6. /\ Len(turns) \in Nat /\ Len(turns') = Len(turns) + 1 /\ turns'[Len(turns) + 1] = r
        /\ \A i \in 1..Len(turns) : turns'[i] = turns[i] /\ turns[i] \in Runs
    <2>1. turns' = Append(turns, r)
      BY <1>2 DEF RecordTurn
    <2>. QED BY <1>5, <2>1
  <1>7. run'[r] = "starting" /\ \A s \in Runs : s # r => run'[s] = run[s]
    BY <1>2, <1>5 DEF RecordTurn
  <1>8. TurnsDiffer'
    <2>1. \A i, j \in 1..Len(turns') : turns'[i] = turns'[j] => i = j
      BY <1>5, <1>6 DEF TurnsDiffer
    <2>2. ASSUME NEW s \in Runs, run'[s] # "absent" PROVE \E i \in 1..Len(turns') : turns'[i] = s
      <3>1. CASE s = r
        BY <1>6, <3>1
      <3>2. CASE s # r
        <4>1. PICK i \in 1..Len(turns) : turns[i] = s
          BY <1>7, <2>2, <3>2 DEF TurnsDiffer, RunsAmong, Among, Record
        <4>. QED BY <1>6, <4>1
      <3>. QED BY <3>1, <3>2
    <2>3. RunsAmong(Record)'
      BY <2>2 DEF RunsAmong, Among, Record
    <2>4. \A i \in 1..Len(turns') : turns'[i] < nextRun'
      BY <1>2, <1>3, <1>6 DEF TurnsDiffer
    <2>. QED BY <1>4, <2>1, <2>3, <2>4, ShownRuns DEF TurnsDiffer
  <1>9. VictimsAgree'
    BY <1>3, VictimsStay DEF VictimMoves
  <1>10. ASSUME NEW s \in Undisturbed PROVE Stays(s)
    <2>0. s \in Runs /\ Consistent(s)
      BY <1>10 DEF Undisturbed
    <2>1. CASE s = r
      BY <1>3, <1>5, <1>7, <2>1 DEF Stays, Consistent, LiveRun, TerminalRun
    <2>2. CASE s # r
      <3>1. Executing(s)' => Executing(s)
        BY <1>3, <1>4, <2>0, <2>2 DEF Executing
      <3>. QED BY <1>3, <1>7, <2>0, <2>2, <3>1 DEF Stays, Consistent
    <2>. QED BY <2>1, <2>2
  <1>. QED BY <1>8, <1>9, <1>10 DEF StepSettles

LEMMA SubmitStepSettles ==
  ASSUME Agreed, ShownAgrees, RecordGrows, SettledAgrees, SubmitStep
  PROVE  StepSettles
  <1>1. \/ submit.pc \in {"create", "queue"} /\ RecordTurn(submit.id)
        \/ UNCHANGED <<turns, run>>
    BY DEF SubmitStep, CreateTask, CompleteStart, ReserveFollowup, AlreadyReserved, QueueFollowup,
       CompleteFollowup, RecordThrows, LedgerThrows, Throws, Noted, Creation, Queueing, Reserving, task
  <1>. QED BY <1>1, CompleteSettles, RecordSettles

\* The host: a restart parks a turn that is live, while nothing is executed.
LEMMA HostSettles ==
  ASSUME Agreed, ShownAgrees, RecordGrows, LiveAgrees, SettledAgrees,
         IdleExit \/ Shutdown \/ Drain \/ MemoryLost \/ Boot
  PROVE  StepSettles
  <1>. USE DEF SettledAgrees, Agreed
  <1>0. run \in [Runs -> {"absent"} \cup LiveRun \cup TerminalRun] /\ turns \in Seq(Runs)
    BY RunType
  <1>1. /\ UNCHANGED <<turns, nextRun, receipt>>
        /\ \A c \in Runs : cancel'[c] = cancel[c] \/ cancel'[c].pc = "idle"
        /\ submit' = submit \/ submit'.pc = "idle"
    BY DEF IdleExit, Shutdown, Drain, MemoryLost, Boot, Parked, Noted, durable, task, memory,
           IdleCancel, IdleSubmit
  <1>2. VictimsAgree'
    BY <1>1, VictimsStay DEF VictimMoves
  <1>3. CASE IdleExit \/ Shutdown \/ Drain
    <2>1. UNCHANGED <<run, exec, submit>>
      BY <1>3 DEF IdleExit, Shutdown, Drain, durable, task
    <2>2. TurnsDiffer' /\ \A s \in Undisturbed : Stays(s)
      BY <1>1, <2>1, TurnsStay, RunStays DEF Undisturbed
    <2>. QED BY <1>2, <2>2 DEF StepSettles
  <1>4. CASE MemoryLost
    <2>1. run' = run /\ submit'.pc = "idle" /\ \A s \in Runs : exec'[s].pc = "none"
      BY <1>4 DEF MemoryLost, durable, task, IdleSubmit, IdleExec
    <2>2. TurnsDiffer'
      BY <1>1, <2>1, TurnsStay
    <2>3. ASSUME NEW s \in Undisturbed PROVE Stays(s)
      BY <1>1, <2>1, <2>3 DEF Undisturbed, Stays, Consistent, Executing, Uncalled
    <2>. QED BY <1>2, <2>2, <2>3 DEF StepSettles
  <1>5. CASE Boot
    <2>1. UNCHANGED <<submit, exec>> /\ host = "down"
      BY <1>5 DEF Boot, Parked, memory
    <2>2. submit.pc = "idle" /\ \A s \in Runs : exec[s].pc = "none"
      BY <2>1 DEF LiveAgrees, DownIsIdle
    <2>3. \A i \in LiveTurns : turns[i] \in Runs /\ run[turns[i]] \in LiveRun
      BY <1>0 DEF LiveTurns
    <2>4. \A s \in Runs : \/ run'[s] = run[s]
                          \/ run[s] \in LiveRun /\ run'[s] = "needs_resume"
      <3>1. \/ \E i \in LiveTurns : run' = [run EXCEPT ![turns[i]] = "needs_resume"]
            \/ run' = run
        BY <1>5 DEF Boot, Parked, Noted, task
      <3>2. ASSUME NEW i \in LiveTurns, run' = [run EXCEPT ![turns[i]] = "needs_resume"],
                   NEW s \in Runs, run'[s] # run[s]
            PROVE  run[s] \in LiveRun /\ run'[s] = "needs_resume"
        <4>1. turns[i] \in Runs /\ run[turns[i]] \in LiveRun
          BY <2>3
        <4>2. s = turns[i]
          BY <1>0, <3>2, <4>1
        <4>. QED BY <1>0, <3>2, <4>1, <4>2
      <3>. QED BY <3>1, <3>2
    <2>5. TurnsDiffer'
      <3>1. \A s \in Runs : run'[s] # "absent" => run[s] # "absent" \/ Among(s, Record)
        BY <2>4, DisjointStatuses
      <3>. QED BY <1>1, <2>1, <3>1, TurnsStay
    <2>6. ASSUME NEW s \in Undisturbed PROVE Stays(s)
      BY <1>1, <2>1, <2>2, <2>4, <2>6, DisjointStatuses
         DEF Undisturbed, Stays, Consistent, Executing, Uncalled
    <2>. QED BY <1>2, <2>5, <2>6 DEF StepSettles
  <1>. QED BY <1>3, <1>4, <1>5

LEMMA StepSettlesAll ==
  ASSUME Agreed, ShownAgrees, LiveAgrees, SettledAgrees, [Next]_vars
  PROVE  StepSettles
  <1>0. RecordGrows
    BY StepGrows
  <1>1. ASSUME NEW q \in Requests, Duplicate(q) \/ Submit(q) \/ Refused(q) PROVE StepSettles
    BY <1>0, <1>1, AskSettles
  <1>2. CASE SubmitStep
    BY <1>0, <1>2, SubmitStepSettles
  <1>3. ASSUME NEW r \in Runs,
               ExecStep(r) \/ WorkerStep(r) \/ OtherEvent(r) \/ CancelCheck(r) \/ CancelStep(r)
        PROVE  StepSettles
    BY <1>0, <1>3, ExecStepSettles, WorkerStepSettles, CancelStepSettles
  <1>4. CASE IdleExit \/ Shutdown \/ Drain \/ Halt \/ Crash \/ Boot
    BY <1>0, <1>4, HostSettles DEF Halt, Crash
  <1>5. CASE UNCHANGED vars
    <2>1. UNCHANGED <<turns, nextRun, run, receipt, exec, submit, cancel>>
      BY <1>5 DEF vars, durable, task, memory
    <2>2. TurnsDiffer' /\ VictimsAgree' /\ \A s \in Undisturbed : Stays(s)
      BY <1>0, <2>1, TurnsStay, VictimsStay, RunStays
         DEF SettledAgrees, Agreed, Undisturbed, VictimMoves
    <2>. QED BY <2>2 DEF StepSettles
  <1>. QED BY <1>1, <1>2, <1>3, <1>4, <1>5 DEF Next

\* What a throw has done is not forgotten.
LEMMA TroubleStays == [Next]_vars => abandoned \subseteq abandoned' /\ disputed \subseteq disputed'
  <1>. SUFFICES ASSUME [Next]_vars PROVE abandoned \subseteq abandoned' /\ disputed \subseteq disputed'
    OBVIOUS
  <1>. USE DEF history, trouble
  <1>1. ASSUME NEW q \in Requests, Duplicate(q) \/ Submit(q) \/ Refused(q)
        PROVE  UNCHANGED <<abandoned, disputed>>
    BY <1>1 DEF Duplicate, Submit, Accept, Refused
  <1>2. CASE SubmitStep
    BY <1>2 DEF SubmitStep, CreateTask, CompleteStart, ReserveFollowup, AlreadyReserved, QueueFollowup,
       CompleteFollowup, RecordThrows, LedgerThrows
  <1>3. ASSUME NEW r \in Runs, ExecStep(r)
        PROVE  abandoned \subseteq abandoned' /\ disputed \subseteq disputed'
    BY <1>3 DEF ExecStep, LoadTurn, PrepareFails, CompileContext, CheckCancelled, TurnStarting,
       PrepareThrows, RunTurn, Decide, Inspect, LeftAlone, CommitVerdict, SettleThrows
  <1>4. ASSUME NEW r \in Runs, WorkerStep(r) \/ OtherEvent(r) PROVE UNCHANGED <<abandoned, disputed>>
    BY <1>4 DEF WorkerStep, SessionReady, Dispatch, TurnStarted, TurnCompleted, EventThrows,
       WorkerFails, StartupCancelled, WorkerLost, OtherEvent
  <1>5. ASSUME NEW r \in Runs, CancelCheck(r) \/ CancelStep(r) PROVE UNCHANGED <<abandoned, disputed>>
    BY <1>5 DEF CancelCheck, CancelStep, InterruptRefused, InterruptAccepted, ReserveInterrupt, Signal,
       Kill, NoProcess, InspectVictim, SettleVictim, CompleteInterrupt, CancelThrows
  <1>6. CASE IdleExit \/ Shutdown \/ Drain \/ Halt \/ Crash \/ Boot
    BY <1>6 DEF IdleExit, Shutdown, Drain, Halt, Crash, MemoryLost, Boot
  <1>7. CASE UNCHANGED vars
    BY <1>7 DEF vars
  <1>. QED BY <1>1, <1>2, <1>3, <1>4, <1>5, <1>6, <1>7 DEF Next

\* A recorded cancellation stays recorded.
LEMMA InterruptedStays ==
  ASSUME Agreed, [Next]_vars
  PROVE  \A r \in Runs : r \in Interrupted => r \in Interrupted'
  <1>1. cancelLedger \in [Runs -> Runs \cup {None}] /\ None \notin Runs
    BY ConstantAssumption DEF Agreed, Typed, RecordTyped, Runs
  <1>2. \A c \in Runs : cancelLedger[c] \in Runs => cancelLedger'[c] = cancelLedger[c]
    BY <1>1, StepGrows DEF RecordGrows, Interrupting, Promise
  <1>. QED BY <1>1, <1>2 DEF Interrupted

LEMMA AlwaysSettled == Spec => []SettledAgrees
  <1>1. Init => SettledAgrees
    BY DEF Init, SettledAgrees, TurnsDiffer, RunsAmong, Record, VictimsAgree, Hidden, Recorded,
           Undisturbed, Consistent, Executing, Uncalled, IdleSubmit, IdleCancel, IdleExec
  <1>2. Agreed /\ ShownAgrees /\ LiveAgrees /\ SettledAgrees /\ [Next]_vars => SettledAgrees'
    <2>. SUFFICES ASSUME Agreed, ShownAgrees, LiveAgrees, SettledAgrees, [Next]_vars
                  PROVE  SettledAgrees'
      OBVIOUS
    <2>1. /\ StepSettles
          /\ \A r \in Runs : r \in Interrupted => r \in Interrupted'
          /\ disputed \subseteq disputed'
      BY StepSettlesAll, InterruptedStays, TroubleStays
    <2>2. \A r \in Undisturbed' : r \in Undisturbed /\ r \notin disputed'
      BY <2>1 DEF Undisturbed
    <2>. QED BY <2>1, <2>2 DEF StepSettles, Stays, SettledAgrees
  <1>. QED BY <1>1, <1>2, AlwaysAgreed, AlwaysLive, PTL DEF Spec
-----------------------------------------------------------------------------
(* Without cancellations *)

\* A run that is executed is the latest turn of a task that is active, for its readers too.
InProgress(r) ==
    /\ turns # <<>> /\ r = LastTurn /\ run[r] \in LiveRun
    /\ status \in ActiveStatuses /\ shown.status \in ActiveStatuses

\* Or its settlement threw after it was recorded, and it is to be settled again: its readers see
\* it settled, so it will be left alone, or they do not and no follow-up is accepted.
Seen(r) ==
    /\ run[r] \in TerminalRun /\ shown.run[r] \in TerminalRun
    /\ exec[r].pc \in {"decide", "inspect"}
Unseen(r) ==
    /\ turns # <<>> /\ r = LastTurn /\ run[r] \in TerminalRun
    /\ status \notin ActiveStatuses /\ shown.status \in ActiveStatuses
    /\ exec[r].pc \in {"decide", "inspect", "commit"}
    /\ submit.pc = "idle"

NoneLive == \A r \in Runs : run[r] \in LiveRun => r \in abandoned

\* A start or follow-up in progress finds no live turn but abandoned ones until it has queued its
\* own, and so does everybody who sees a task that is not active.
Asked == {"create", "reserve", "queue"}
OnlyLastRuns ==
    /\ \A r \in Runs : cancel[r].pc = "idle"
    /\ \A r \in Runs : exec[r].pc \notin Uncalled => InProgress(r) \/ Seen(r) \/ Unseen(r)
    /\ \A r \in Runs : r \in abandoned => r < nextRun /\ exec[r].pc \in Uncalled
    /\ submit.pc \in Unscheduled => submit.id \notin abandoned
    /\ submit.pc \in Asked \/ shown.status \notin ActiveStatuses => NoneLive
    /\ submit.pc = "completeStart" => InProgress(submit.id)
    /\ submit.pc = "completeFollowup" => turns # <<>> /\ submit.id = LastTurn

\* What was sent went to the thread of the binding, and the copies of the binding are good.
Copied == {"compile", "check", "starting", "runTurn"}
SessionsAgree ==
    /\ \A r \in Runs : dispatches[r] > 0 => session # None /\ thread[r] = session
    /\ submit.pc \in Asked => submit.session = session
    /\ shown.status \notin ActiveStatuses => shown.session = session
    /\ \A r \in Runs : exec[r].pc = "load" => shown.session = session
    /\ \A r \in Runs : exec[r].pc \in Copied => exec[r].session = session
    /\ worker.run # None =>
          /\ worker.stage \in {"startup", "ready", "dispatched", "turn"}
          /\ worker.stage = "startup" => exec[worker.run].session = session
          /\ worker.stage # "startup" => worker.thread = session /\ session # None

QuietAgrees == OnlyLastRuns /\ StatusMatchesTurns /\ SessionsAgree

\* While a run is executed no start or follow-up is under way that has not queued its turn, and no
\* other run is executed but those that will be left alone.
LEMMA ExecutedAlone ==
  ASSUME Agreed, QuietAgrees, NEW r \in Runs, exec[r].pc \notin Uncalled, ~Seen(r)
  PROVE  /\ turns # <<>> /\ r = LastTurn /\ r \notin abandoned
         /\ InProgress(r) \/ Unseen(r)
         /\ shown.status \in ActiveStatuses
         /\ submit.pc \in {"idle", "completeFollowup"}
         /\ submit.pc = "completeFollowup" => submit.id = r
         /\ \A s \in Runs : s # r => exec[s].pc \in Uncalled \/ Seen(s)
  <1>. USE DEF QuietAgrees, OnlyLastRuns
  <1>1. InProgress(r) \/ Unseen(r)
    OBVIOUS
  <1>2. turns # <<>> /\ r = LastTurn /\ r \notin abandoned /\ shown.status \in ActiveStatuses
    BY <1>1 DEF InProgress, Unseen
  <1>3. submit.pc \notin Asked
    BY <1>1, <1>2 DEF InProgress, Unseen, NoneLive, Asked
  <1>4. submit.pc # "completeStart"
    BY <1>2 DEF InProgress, Agreed, SubmitAgrees, Unscheduled, Uncalled
  <1>5. submit.pc \in {"idle", "create", "completeStart", "reserve", "queue", "completeFollowup"}
    BY DEF Agreed, Typed, MemoryType
  <1>6. submit.pc = "completeFollowup" => submit.id = r
    BY <1>2
  <1>7. \A s \in Runs : s # r => exec[s].pc \in Uncalled \/ Seen(s)
    BY <1>2 DEF InProgress, Unseen
  <1>. QED BY <1>1, <1>2, <1>3, <1>4, <1>5, <1>6, <1>7 DEF Asked

\* Outside the settlement, the run is in progress.
LEMMA ExecutedLive ==
  ASSUME Agreed, QuietAgrees, NEW r \in Runs,
         exec[r].pc \notin Uncalled \cup {"decide", "inspect", "commit"}
  PROVE  InProgress(r) /\ ~Seen(r)
  BY DEF QuietAgrees, OnlyLastRuns, Seen, Unseen

LEMMA SeenStays ==
  ASSUME RecordGrows, NEW s \in Runs, Seen(s), exec'[s] = exec[s], run'[s] = run[s]
  PROVE  Seen(s)'
  BY DEF RecordGrows, Seen, Record

\* The execution or the worker of run r moves, and the record keeps it live; or it leaves it.
LEMMA LiveRunMoves ==
  ASSUME Agreed, RecordGrows, TurnsDiffer, QuietAgrees, NEW r \in Runs,
         exec[r].pc \notin Uncalled, InProgress(r), ~Seen(r),
         UNCHANGED <<turns, submit, cancel, nextRun>>,
         \A s \in Runs : s # r => exec'[s] = exec[s] /\ run'[s] = run[s],
         run'[r] \in LiveRun, status' \in ActiveStatuses,
         \/ UNCHANGED abandoned
         \/ abandoned' = abandoned \cup {r} /\ exec'[r].pc = "done"
  PROVE  OnlyLastRuns' /\ StatusMatchesTurns'
  <1>0. /\ turns # <<>> /\ r = LastTurn /\ r \notin abandoned
        /\ submit.pc \in {"idle", "completeFollowup"}
        /\ submit.pc = "completeFollowup" => submit.id = r
        /\ \A s \in Runs : s # r => exec[s].pc \in Uncalled \/ Seen(s)
    BY ExecutedAlone
  <1>. USE RunType, DisjointStatuses DEF Agreed, QuietAgrees
  <1>1. shown'.status \in ActiveStatuses
    BY DEF RecordGrows, InProgress, Record
  <1>2. OnlyLastRuns'
    <2>1. \A s \in Runs : cancel'[s].pc = "idle"
      BY DEF OnlyLastRuns
    <2>2. InProgress(r)'
      BY <1>0, <1>1 DEF InProgress, LastTurn
    <2>3. \A s \in Runs : s # r => exec'[s].pc \in Uncalled \/ Seen(s)'
      BY <1>0, SeenStays
    <2>4. \A s \in Runs : s \in abandoned' => s < nextRun' /\ exec'[s].pc \in Uncalled
      <3>1. r < nextRun
        BY DEF FreshRuns, Uncalled, Typed, MemoryType, Runs
      <3>. QED BY <1>0, <3>1 DEF OnlyLastRuns, Uncalled
    <2>. QED BY <1>0, <1>1, <2>1, <2>2, <2>3, <2>4 DEF OnlyLastRuns, Unscheduled, Asked, LastTurn
  <1>3. StatusMatchesTurns'
    <2>1. turns[Len(turns)] = r /\ Len(turns) \in 1..Len(turns)
      BY <1>0 DEF LastTurn
    <2>2. ASSUME NEW i \in 1..Len(turns), i # Len(turns), run'[turns[i]] \in LiveRun
          PROVE  turns[i] \in abandoned'
      <3>1. turns[i] \in Runs /\ turns[i] # r
        BY <2>1, <2>2 DEF TurnsDiffer
      <3>2. run[turns[i]] \in LiveRun
        BY <2>2, <3>1
      <3>. QED BY <2>2, <3>2 DEF StatusMatchesTurns
    <2>. QED BY <2>1, <2>2 DEF StatusMatchesTurns
  <1>. QED BY <1>2, <1>3

\* A task that is not active has no live turn but abandoned ones.
LEMMA SettledTask ==
  ASSUME TurnsDiffer, StatusMatchesTurns, status \notin ActiveStatuses
  PROVE  NoneLive
  <1>. SUFFICES ASSUME NEW s \in Runs, run[s] \in LiveRun PROVE s \in abandoned
    BY DEF NoneLive
  <1>1. PICK i \in 1..Len(turns) : turns[i] = s
    BY DisjointStatuses DEF TurnsDiffer, RunsAmong, Among, Record
  <1>. QED BY <1>1 DEF StatusMatchesTurns

\* A step that leaves the task alone.
LEMMA RecordStays ==
  ASSUME RecordGrows, TurnsDiffer, QuietAgrees, UNCHANGED <<status, turns, run>>,
         \A s \in Runs : cancel'[s].pc = "idle",
         abandoned \subseteq abandoned',
         \A s \in Runs : s \in abandoned' => s < nextRun' /\ exec'[s].pc \in Uncalled,
         \A s \in Runs : exec'[s].pc \notin Uncalled =>
            \/ InProgress(s)
            \/ Seen(s) /\ exec'[s].pc \in {"decide", "inspect"}
            \/ /\ Unseen(s) /\ exec'[s].pc \in {"decide", "inspect", "commit"}
               /\ submit'.pc = "idle"
               /\ shown' = shown \/ exec'[s].pc # "commit",
         submit'.pc \in Unscheduled => submit'.id \notin abandoned',
         submit'.pc \in Asked => NoneLive,
         submit'.pc = "completeStart" => InProgress(submit'.id),
         submit'.pc = "completeFollowup" => turns # <<>> /\ submit'.id = LastTurn
  PROVE  OnlyLastRuns' /\ StatusMatchesTurns'
  <1>. USE DEF QuietAgrees
  <1>1. \/ shown' = shown
        \/ shown'.status = status /\ shown'.run = run
    BY DEF RecordGrows, Record
  <1>2. ASSUME NEW s, InProgress(s) PROVE InProgress(s)'
    BY <1>1, <1>2 DEF InProgress, LastTurn
  <1>3. ASSUME NEW s \in Runs, exec'[s].pc \notin Uncalled
        PROVE  InProgress(s)' \/ Seen(s)' \/ Unseen(s)'
    <2>1. CASE InProgress(s)
      BY <1>2, <2>1
    <2>2. CASE Seen(s) /\ exec'[s].pc \in {"decide", "inspect"}
      BY <1>1, <2>2 DEF Seen
    <2>3. CASE /\ Unseen(s) /\ exec'[s].pc \in {"decide", "inspect", "commit"}
               /\ submit'.pc = "idle"
               /\ shown' = shown \/ exec'[s].pc # "commit"
      BY <1>1, <2>3 DEF Seen, Unseen, LastTurn
    <2>. QED BY <1>3, <2>1, <2>2, <2>3
  <1>4. NoneLive => NoneLive'
    BY DEF NoneLive
  <1>5. shown'.status \notin ActiveStatuses => NoneLive
    BY <1>1, SettledTask DEF OnlyLastRuns
  <1>6. OnlyLastRuns'
    BY <1>2, <1>3, <1>4, <1>5 DEF OnlyLastRuns, LastTurn
  <1>7. StatusMatchesTurns'
    BY DEF StatusMatchesTurns
  <1>. QED BY <1>6, <1>7

\* A step that leaves the binding and what was sent alone.
LEMMA SessionsStay ==
  ASSUME RecordGrows, QuietAgrees, UNCHANGED <<session, dispatches, thread>>,
         submit'.pc \in Asked => submit'.session = session,
         \A s \in Runs : exec'[s].pc = "load" => exec[s].pc = "load" \/ shown' = Record',
         \A s \in Runs : exec'[s].pc \in Copied => exec'[s].session = session,
         worker'.run # None =>
            /\ worker'.stage \in {"startup", "ready", "dispatched", "turn"}
            /\ worker'.stage = "startup" => exec'[worker'.run].session = session
            /\ worker'.stage # "startup" => worker'.thread = session /\ session # None
  PROVE  SessionsAgree'
  <1>1. \/ shown' = shown
        \/ shown'.session = session
    BY DEF RecordGrows, Record
  <1>2. /\ shown'.status \notin ActiveStatuses => shown'.session = session
        /\ \A s \in Runs : exec'[s].pc = "load" => shown'.session = session
    BY <1>1 DEF QuietAgrees, SessionsAgree, Record
  <1>. QED BY <1>2 DEF QuietAgrees, SessionsAgree

\* The worker and its execution do not move.
LEMMA WorkerStays ==
  ASSUME Agreed, QuietAgrees,
         worker' = worker \/ worker'.run = None \/ UNCHANGED <<worker.run, worker.stage, worker.thread>>,
         UNCHANGED session,
         worker.run # None /\ worker'.run # None => exec'[worker.run] = exec[worker.run]
  PROVE  worker'.run # None =>
            /\ worker'.stage \in {"startup", "ready", "dispatched", "turn"}
            /\ worker'.stage = "startup" => exec'[worker'.run].session = session
            /\ worker'.stage # "startup" => worker'.thread = session /\ session # None
  BY DEF QuietAgrees, SessionsAgree

\* What is run by the worker, and only that, is in the worker.
LEMMA InWorker ==
  ASSUME Agreed, NEW r \in Runs
  PROVE  /\ worker.run = r <=> exec[r].pc = "running"
         /\ worker.run # None => worker.run \in Runs
  BY RecordTypes DEF Agreed, WorkerAgrees, WorkerRunsWhatIsExecuted, WorkerRecord

-----------------------------------------------------------------------------
(* executeTurn, where nobody cancels *)

\* A step of the execution of r that leaves the task alone.
LEMMA ExecutionRests ==
  ASSUME Agreed, RecordGrows, TurnsDiffer, QuietAgrees, NEW r \in Runs, exec[r].pc \notin Uncalled,
         UNCHANGED <<status, turns, run, submit, cancel, nextRun>>,
         \A s \in Runs : s # r => exec'[s] = exec[s],
         \/ exec'[r].pc = "done"
         \/ exec[r].pc \notin Uncalled \cup {"decide", "inspect", "commit"}
         \/ exec[r].pc = "decide" /\ exec'[r].pc = "inspect"
         \/ exec[r].pc = "inspect" /\ exec'[r].pc = "commit" /\ ~Seen(r) /\ shown' = shown
         \/ exec[r].pc \in {"inspect", "commit"} /\ exec'[r].pc = "decide",
         exec[r].pc \in {"decide", "inspect"} => shown' = shown,
         \/ UNCHANGED abandoned
         \/ abandoned' = abandoned \cup {r} /\ exec'[r].pc = "done"
  PROVE  OnlyLastRuns' /\ StatusMatchesTurns'
  <1>. USE DEF QuietAgrees
  <1>1. abandoned \subseteq abandoned'
    OBVIOUS
  <1>2. ASSUME NEW s \in Runs, s \in abandoned' PROVE s < nextRun' /\ exec'[s].pc \in Uncalled
    <2>1. r < nextRun
      BY DEF Agreed, FreshRuns, Uncalled, Typed, MemoryType, Runs
    <2>. QED BY <1>2, <2>1 DEF OnlyLastRuns, Uncalled
  <1>3. ASSUME NEW s \in Runs, exec'[s].pc \notin Uncalled
        PROVE  \/ InProgress(s)
               \/ Seen(s) /\ exec'[s].pc \in {"decide", "inspect"}
               \/ /\ Unseen(s) /\ exec'[s].pc \in {"decide", "inspect", "commit"}
                  /\ submit'.pc = "idle"
                  /\ shown' = shown \/ exec'[s].pc # "commit"
    <2>1. CASE s = r
      <3>1. InProgress(r) \/ Seen(r) \/ Unseen(r)
        BY DEF OnlyLastRuns
      <3>. QED BY <1>3, <2>1, <3>1 DEF Seen, Unseen, Uncalled
    <2>2. CASE s # r /\ ~Seen(r)
      <3>1. Seen(s)
        BY <1>3, <2>2, ExecutedAlone
      <3>. QED BY <2>2, <3>1 DEF Seen
    <2>3. CASE s # r /\ Seen(r)
      <3>1. InProgress(s) \/ Seen(s) \/ Unseen(s)
        BY <1>3, <2>3 DEF OnlyLastRuns
      <3>. QED BY <2>3, <3>1 DEF Seen, Unseen
    <2>. QED BY <2>1, <2>2, <2>3
  <1>4. /\ submit.pc \in Unscheduled => submit.id \notin abandoned'
        /\ submit.pc \in Asked => NoneLive
        /\ submit.pc = "completeStart" => InProgress(submit.id)
        /\ submit.pc = "completeFollowup" => turns # <<>> /\ submit.id = LastTurn
    <2>1. submit.pc \in Unscheduled => submit.id # r
      BY DEF Agreed, SubmitAgrees, Uncalled
    <2>. QED BY <2>1 DEF OnlyLastRuns
  <1>. QED BY <1>1, <1>2, <1>3, <1>4, RecordStays DEF OnlyLastRuns

\* A settlement is recorded: the execution ends, or the call throws and it is settled again.
LEMMA RunSettles ==
  ASSUME Agreed, RecordGrows, TurnsDiffer, QuietAgrees, NEW r \in Runs,
         exec[r].pc = "commit", InLine(r),
         UNCHANGED <<turns, submit, cancel, nextRun>>,
         \A s \in Runs : s # r => exec'[s] = exec[s] /\ run'[s] = run[s],
         run'[r] \in TerminalRun, status' \notin ActiveStatuses,
         \/ exec'[r].pc = "done"
         \/ exec'[r].pc = "decide" /\ shown' \in {Record, Record'},
         \/ UNCHANGED abandoned
         \/ abandoned' = abandoned \cup {r} /\ exec'[r].pc = "done"
  PROVE  OnlyLastRuns' /\ StatusMatchesTurns'
  <1>0. exec[r].pc \notin Uncalled /\ ~Seen(r)
    BY DEF Uncalled, Seen
  <1>1. /\ turns # <<>> /\ r = LastTurn /\ r \notin abandoned
        /\ InProgress(r) \/ Unseen(r)
        /\ submit.pc = "idle"
        /\ \A s \in Runs : s # r => exec[s].pc \in Uncalled \/ Seen(s)
    BY <1>0, ExecutedAlone DEF InLine
  <1>. USE RunType, DisjointStatuses DEF Agreed, QuietAgrees
  <1>2. ASSUME NEW i \in 1..Len(turns), run'[turns[i]] \in LiveRun PROVE turns[i] \in abandoned
    <2>1. turns[i] \in Runs /\ turns[i] # r
      BY <1>2
    <2>2. i # Len(turns)
      BY <1>1, <2>1 DEF LastTurn
    <2>. QED BY <1>2, <2>1, <2>2 DEF StatusMatchesTurns
  <1>3. NoneLive'
    <2>. SUFFICES ASSUME NEW s \in Runs, run'[s] \in LiveRun PROVE s \in abandoned'
      BY DEF NoneLive
    <2>1. s # r /\ run[s] \in LiveRun
      OBVIOUS
    <2>2. PICK i \in 1..Len(turns) : turns[i] = s
      BY <2>1 DEF TurnsDiffer, RunsAmong, Among, Record
    <2>. QED BY <1>2, <2>2
  <1>4. ASSUME exec'[r].pc = "decide" PROVE Seen(r)' \/ Unseen(r)'
    <2>1. CASE shown' = Record'
      BY <1>4, <2>1 DEF Seen, Record
    <2>2. CASE shown' = Record /\ InProgress(r)
      BY <1>1, <1>4, <2>2 DEF InProgress, Unseen, Record, LastTurn
    <2>3. CASE shown' = Record /\ Unseen(r)
      BY <1>4, <2>3 DEF Seen, Unseen, Record
    <2>. QED BY <1>1, <1>4, <2>1, <2>2, <2>3
  <1>5. \A s \in Runs : s # r => exec'[s].pc \in Uncalled \/ Seen(s)'
    BY <1>1, SeenStays
  <1>6. \A s \in Runs : s \in abandoned' => s < nextRun' /\ exec'[s].pc \in Uncalled
    <2>1. r < nextRun
      BY <1>0 DEF FreshRuns, Uncalled, Typed, MemoryType, Runs
    <2>. QED BY <1>1, <2>1 DEF OnlyLastRuns, Uncalled
  <1>7. OnlyLastRuns'
    BY <1>0, <1>1, <1>3, <1>4, <1>5, <1>6 DEF OnlyLastRuns, Uncalled, Unscheduled, Asked
  <1>8. StatusMatchesTurns'
    BY <1>2 DEF StatusMatchesTurns
  <1>. QED BY <1>7, <1>8

LEMMA PrepareQuiet ==
  ASSUME Agreed, RecordGrows, TurnsDiffer, QuietAgrees, NEW r \in Runs,
         LoadTurn(r) \/ PrepareFails(r) \/ CheckCancelled(r) \/ RunTurn(r) \/ Decide(r)
  PROVE  QuietAgrees'
  <1>0. exec \in [Runs -> ExecRecord]
    BY RecordTypes DEF Agreed
  <1>1. /\ exec[r].pc \notin Uncalled
        /\ UNCHANGED <<status, turns, run, session, shown, submit, cancel, nextRun, dispatches, thread,
                       abandoned>>
    BY DEF LoadTurn, PrepareFails, CheckCancelled, RunTurn, Decide, durable, task, history, trouble,
           Uncalled
  <1>2. \A s \in Runs : s # r => exec'[s] = exec[s]
    BY <1>0 DEF LoadTurn, PrepareFails, CheckCancelled, RunTurn, Decide, Goto, Verdict, Caught
  <1>3. \/ exec[r].pc \notin Uncalled \cup {"decide", "inspect", "commit"}
        \/ exec[r].pc = "decide" /\ exec'[r].pc = "inspect"
    BY <1>0 DEF LoadTurn, PrepareFails, CheckCancelled, RunTurn, Decide, Verdict, Uncalled, ExecRecord
  <1>4. OnlyLastRuns' /\ StatusMatchesTurns'
    BY <1>1, <1>2, <1>3, ExecutionRests
  <1>5. SessionsAgree'
    <2>. USE DEF SessionsAgree, QuietAgrees
    <2>1. /\ exec'[r].pc # "load"
          /\ exec'[r].pc \in Copied => exec'[r].session = session
      BY <1>0 DEF LoadTurn, PrepareFails, CheckCancelled, RunTurn, Decide, Goto, Verdict, Caught,
                  ExecRecord, Copied
    <2>2. CASE RunTurn(r) /\ host = "up" /\ worker.run = None
      <3>1. exec'[r].session = exec[r].session /\ exec[r].pc = "runTurn"
        BY <1>0, <2>2 DEF RunTurn, Goto, ExecRecord
      <3>2. worker'.run = r /\ worker'.stage = "startup"
        BY <2>2, RecordTypes DEF RunTurn, NoWorker, WorkerRecord, Agreed
      <3>3. exec'[worker'.run].session = session
        BY <3>1, <3>2 DEF Copied
      <3>. QED BY <1>1, <1>2, <2>1, <3>2, <3>3, SessionsStay
    <2>3. CASE ~(RunTurn(r) /\ host = "up" /\ worker.run = None)
      <3>1. worker' = worker
        BY <2>3 DEF LoadTurn, PrepareFails, CheckCancelled, RunTurn, Decide
      <3>2. worker.run # r
        BY InWorker DEF LoadTurn, PrepareFails, CheckCancelled, RunTurn, Decide
      <3>3. worker.run # None => exec'[worker.run] = exec[worker.run]
        BY <1>2, <3>2, InWorker
      <3>. QED BY <1>1, <1>2, <2>1, <3>1, <3>3, WorkerStays, SessionsStay
    <2>. QED BY <2>2, <2>3
  <1>. QED BY <1>4, <1>5 DEF QuietAgrees

\* The transitions before the turn is sent to the runtime, and their failure.
LEMMA CompileQuiet ==
  ASSUME Agreed, RecordGrows, TurnsDiffer, QuietAgrees, NEW r \in Runs,
         CompileContext(r) \/ TurnStarting(r) \/ PrepareThrows(r)
  PROVE  QuietAgrees'
  <1>0. exec \in [Runs -> ExecRecord]
    BY RecordTypes DEF Agreed
  <1>1. /\ exec[r].pc \in {"compile", "starting"}
        /\ UNCHANGED <<submit, cancel, nextRun, dispatches, thread, abandoned, worker>>
    BY DEF CompileContext, TurnStarting, PrepareThrows, history, trouble
  <1>2. /\ \A s \in Runs : s # r => exec'[s] = exec[s]
        /\ exec'[r].pc \in {"check", "runTurn", "decide"}
        /\ exec'[r].session = exec[r].session
    BY <1>0 DEF CompileContext, TurnStarting, PrepareThrows, Goto, Caught, ExecRecord
  <1>3. \/ Noted
        \/ exec[r].pc = "compile" /\ Compiling(r)
        \/ exec[r].pc = "starting" /\ Starting(r)
    BY DEF CompileContext, TurnStarting, PrepareThrows, Throws, Noted
  <1>4. InProgress(r) /\ ~Seen(r)
    BY <1>1, ExecutedLive DEF Uncalled
  <1>5. /\ UNCHANGED <<turns, session>>
        /\ \A s \in Runs : s # r => run'[s] = run[s]
        /\ run'[r] \in LiveRun /\ status' \in ActiveStatuses
    <2>1. exec[r].session = session
      BY <1>1 DEF QuietAgrees, SessionsAgree, Copied
    <2>. QED BY <1>3, <1>4, <2>1, RunType
             DEF Noted, Compiling, Starting, task, InProgress, LiveRun, ActiveStatuses, Agreed
  <1>6. OnlyLastRuns' /\ StatusMatchesTurns'
    BY <1>1, <1>2, <1>4, <1>5, LiveRunMoves DEF Uncalled
  <1>7. SessionsAgree'
    <2>1. worker.run # None => exec'[worker.run] = exec[worker.run]
      BY <1>1, <1>2, InWorker
    <2>2. exec'[r].session = session
      BY <1>1, <1>2 DEF QuietAgrees, SessionsAgree, Copied
    <2>3. \A s \in Runs : /\ exec'[s].pc = "load" => exec[s].pc = "load"
                          /\ exec'[s].pc \in Copied => exec'[s].session = session
      BY <1>2, <2>2 DEF QuietAgrees, SessionsAgree
    <2>4. submit'.pc \in Asked => submit'.session = session
      BY <1>1 DEF QuietAgrees, SessionsAgree
    <2>. QED BY <1>1, <1>5, <2>1, <2>3, <2>4, WorkerStays, SessionsStay
  <1>. QED BY <1>6, <1>7 DEF QuietAgrees

\* finalize*, and its failure.
LEMMA SettleQuiet ==
  ASSUME Agreed, RecordGrows, TurnsDiffer, QuietAgrees, NEW r \in Runs,
         Inspect(r) \/ CommitVerdict(r) \/ SettleThrows(r)
  PROVE  QuietAgrees'
  <1>0. exec \in [Runs -> ExecRecord] /\ run \in [Runs -> {"absent"} \cup LiveRun \cup TerminalRun]
    BY RecordTypes, RunType DEF Agreed
  <1>1. /\ exec[r].pc \in {"inspect", "commit"}
        /\ UNCHANGED <<submit, cancel, nextRun, dispatches, thread, worker>>
    BY DEF Inspect, CommitVerdict, SettleThrows, history
  <1>2. /\ \A s \in Runs : s # r => exec'[s] = exec[s]
        /\ exec'[r].pc \in {"done", "commit", "decide"}
    BY <1>0 DEF Inspect, LeftAlone, CommitVerdict, SettleThrows, Goto, Caught, Done, ExecRecord, IdleExec
  <1>3. \/ UNCHANGED abandoned
        \/ abandoned' = abandoned \cup {r} /\ exec'[r].pc = "done"
    BY <1>0 DEF Inspect, LeftAlone, CommitVerdict, SettleThrows, history, trouble, Done, IdleExec
  <1>4. ASSUME exec[r].pc = "inspect"
        PROVE  OnlyLastRuns' /\ StatusMatchesTurns' /\ session' = session
    <2>1. UNCHANGED <<status, turns, run, session, shown>>
      BY <1>4 DEF Inspect, CommitVerdict, SettleThrows, ReceiptThrows, task
    <2>2. \/ exec'[r].pc \in {"done", "decide"}
          \/ exec'[r].pc = "commit" /\ ~Seen(r)
      BY <1>0, <1>4 DEF Inspect, LeftAlone, CommitVerdict, SettleThrows, Caught, Done, IdleExec, ExecRecord, Seen, Goto
    <2>3. OnlyLastRuns' /\ StatusMatchesTurns'
      BY <1>1, <1>2, <1>3, <1>4, <2>1, <2>2, ExecutionRests DEF Uncalled
    <2>. QED BY <2>1, <2>3
  <1>5. ASSUME exec[r].pc = "commit"
        PROVE  OnlyLastRuns' /\ StatusMatchesTurns' /\ session' = session
    <2>1. PICK v \in TerminalRun : v = exec[r].verdict
      BY <1>5 DEF Agreed, ExecAgrees
    <2>2. InLine(r) /\ exec'[r].pc \in {"done", "decide"}
      BY <1>0, <1>5 DEF Inspect, CommitVerdict, SettleThrows, Done, Caught, IdleExec, ExecRecord
    <2>3. \/ UNCHANGED <<status, turns, run, session>>
          \/ Settle(r, v) /\ (exec'[r].pc = "done" \/ shown' \in {Record, Record'})
      BY <1>0, <1>5, <2>1 DEF Inspect, CommitVerdict, SettleThrows, Throws, Done, IdleExec, task
    <2>4. CASE UNCHANGED <<status, turns, run, session>>
      BY <1>1, <1>2, <1>3, <1>5, <2>2, <2>4, ExecutionRests DEF Uncalled
    <2>5. CASE Settle(r, v) /\ (exec'[r].pc = "done" \/ shown' \in {Record, Record'})
      <3>1. /\ UNCHANGED <<turns, session>>
            /\ run'[r] \in TerminalRun /\ \A s \in Runs : s # r => run'[s] = run[s]
            /\ status' \notin ActiveStatuses
        BY <1>0, <2>5, DisjointStatuses DEF Settle
      <3>2. OnlyLastRuns' /\ StatusMatchesTurns'
        BY <1>1, <1>2, <1>3, <1>5, <2>2, <2>5, <3>1, RunSettles
      <3>. QED BY <3>1, <3>2
    <2>. QED BY <2>3, <2>4, <2>5
  <1>6. OnlyLastRuns' /\ StatusMatchesTurns' /\ session' = session
    BY <1>1, <1>4, <1>5
  <1>7. SessionsAgree'
    <2>1. worker.run # None => exec'[worker.run] = exec[worker.run]
      BY <1>1, <1>2, InWorker
    <2>3. \A s \in Runs : /\ exec'[s].pc = "load" => exec[s].pc = "load"
                          /\ exec'[s].pc \in Copied => exec'[s].session = session
      BY <1>2 DEF QuietAgrees, SessionsAgree, Copied
    <2>4. submit'.pc \in Asked => submit'.session = session
      BY <1>1 DEF QuietAgrees, SessionsAgree
    <2>. QED BY <1>1, <1>6, <2>1, <2>3, <2>4, WorkerStays, SessionsStay
  <1>. QED BY <1>6, <1>7 DEF QuietAgrees

-----------------------------------------------------------------------------
(* The worker, where nobody cancels *)

\* A step of the worker that leaves the turn in it.
LEMMA TurnGoesOnQuiet ==
  ASSUME Agreed, RecordGrows, TurnsDiffer, QuietAgrees, NEW r \in Runs,
         SessionReady(r) \/ Dispatch(r) \/ TurnStarted(r) \/ OtherEvent(r)
  PROVE  QuietAgrees'
  <1>0. /\ exec \in [Runs -> ExecRecord] /\ worker \in WorkerRecord
        /\ run \in [Runs -> {"absent"} \cup LiveRun \cup TerminalRun]
        /\ dispatches \in [Runs -> Nat] /\ thread \in [Runs -> Runs \cup {None}]
    BY RecordTypes, RunType DEF Agreed, Typed, StoryType
  <1>1. /\ worker.run = r
        /\ UNCHANGED <<turns, submit, cancel, nextRun, abandoned, exec>>
    BY DEF SessionReady, Startable, Dispatch, TurnStarted, OtherEvent, Ready, Begun, Noted, At,
           durable, task, history, memory, trouble
  <1>2. exec[r].pc = "running" /\ InProgress(r) /\ ~Seen(r)
    <2>1. exec[r].pc = "running"
      BY <1>1, InWorker
    <2>. QED BY <2>1, ExecutedLive DEF Uncalled
  <1>3. /\ \A s \in Runs : s # r => exec[s].pc \in Uncalled \cup {"decide", "inspect"}
        /\ submit.pc \notin Asked
    BY <1>2, ExecutedAlone DEF Uncalled, Seen, Asked
  <1>4. /\ \A s \in Runs : s # r => run'[s] = run[s]
        /\ run'[r] \in LiveRun /\ status' \in ActiveStatuses
    BY <1>0, <1>2 DEF SessionReady, Dispatch, TurnStarted, OtherEvent, Ready, Begun, Noted, durable,
                      task, InProgress, LiveRun, ActiveStatuses
  <1>5. OnlyLastRuns' /\ StatusMatchesTurns'
    BY <1>1, <1>2, <1>4, LiveRunMoves DEF Uncalled
  <1>6. shown'.status \in ActiveStatuses
    BY <1>2, <1>4 DEF RecordGrows, InProgress, Record
  <1>7. /\ session # None => session' = session
        /\ worker'.run = r /\ worker'.stage \in {"startup", "ready", "dispatched", "turn"}
        /\ worker'.stage # "startup" /\ worker'.thread = session' /\ session' # None
    <2>. USE DEF QuietAgrees, SessionsAgree
    <2>1. CASE SessionReady(r)
      <3>1. exec[r].session = session
        BY <1>1, <2>1, ConstantAssumption DEF SessionReady, Startable, At, Runs
      <3>. QED BY <1>0, <1>1, <2>1, <3>1, ConstantAssumption
               DEF SessionReady, Ready, WorkerRecord, ThreadOf, Runs
    <2>2. CASE Dispatch(r) \/ TurnStarted(r)
      <3>1. worker.thread = session /\ session # None /\ session' = session
        BY <1>1, <2>2, ConstantAssumption DEF Dispatch, TurnStarted, Begun, At, Runs, durable, task
      <3>. QED BY <1>0, <1>1, <2>2, <3>1 DEF Dispatch, TurnStarted, WorkerRecord
    <2>3. CASE OtherEvent(r)
      <3>1. worker.thread = session /\ session # None /\ session' = session /\ worker' = worker
        BY <1>1, <2>3, ConstantAssumption DEF OtherEvent, Noted, At, Runs, memory, task
      <3>. QED BY <1>0, <1>1, <2>3, <3>1 DEF OtherEvent, At
    <2>. QED BY <2>1, <2>2, <2>3
  <1>8. \A s \in Runs : dispatches'[s] > 0 => session' # None /\ thread'[s] = session'
    <2>1. CASE Dispatch(r)
      <3>1. session' = session /\ worker.thread = session
        BY <1>1, <2>1, ConstantAssumption
           DEF Dispatch, At, Runs, durable, task, QuietAgrees, SessionsAgree
      <3>. QED BY <1>0, <1>7, <2>1, <3>1 DEF Dispatch, QuietAgrees, SessionsAgree
    <2>2. CASE ~Dispatch(r)
      <3>1. UNCHANGED <<dispatches, thread>>
        BY <2>2 DEF SessionReady, TurnStarted, OtherEvent, history
      <3>. QED BY <1>7, <3>1 DEF QuietAgrees, SessionsAgree
    <2>. QED BY <2>1, <2>2
  <1>9. SessionsAgree'
    <2>1. \A s \in Runs : exec'[s].pc \notin Copied \cup {"load"}
      BY <1>1, <1>2, <1>3 DEF Copied, Uncalled
    <2>2. submit'.pc \notin Asked
      BY <1>1, <1>3
    <2>. QED BY <1>6, <1>7, <1>8, <2>1, <2>2 DEF SessionsAgree
  <1>. QED BY <1>5, <1>9 DEF QuietAgrees

\* A step of the worker that ends its turn.
LEMMA TurnEndsQuiet ==
  ASSUME Agreed, RecordGrows, TurnsDiffer, QuietAgrees, NEW r \in Runs,
         TurnCompleted(r) \/ EventThrows(r) \/ WorkerFails(r) \/ StartupCancelled(r) \/ WorkerLost(r)
  PROVE  QuietAgrees'
  <1>0. /\ exec \in [Runs -> ExecRecord] /\ worker \in WorkerRecord
        /\ run \in [Runs -> {"absent"} \cup LiveRun \cup TerminalRun]
    BY RecordTypes, RunType DEF Agreed
  <1>1. /\ worker.run = r
        /\ UNCHANGED <<turns, submit, cancel, nextRun, abandoned, dispatches, thread>>
    BY DEF TurnCompleted, EventThrows, Startable, WorkerFails, StartupCancelled, WorkerLost, At,
           durable, task, history, trouble, Throws, Noted, Ready, Begun
  <1>2. exec[r].pc = "running" /\ InProgress(r) /\ ~Seen(r)
    <2>1. exec[r].pc = "running"
      BY <1>1, InWorker
    <2>. QED BY <2>1, ExecutedLive DEF Uncalled
  <1>3. /\ \A s \in Runs : s # r => exec[s].pc \in Uncalled \cup {"decide", "inspect"}
        /\ submit.pc \notin Asked
    BY <1>2, ExecutedAlone DEF Uncalled, Seen, Asked
  <1>4. /\ worker'.run = None /\ exec'[r].pc = "decide"
        /\ \A s \in Runs : s # r => exec'[s] = exec[s]
    <2>1. PICK process, verdict :
             worker' = Turnless(process) /\ (Caught(r, verdict) \/ Verdict(r, "decide", verdict))
      BY DEF TurnCompleted, EventThrows, WorkerFails, StartupCancelled, WorkerLost, WorkerEnds
    <2>2. worker'.run = None
      BY <1>0, <2>1 DEF Turnless, NoWorker, WorkerRecord
    <2>3. exec'[r].pc = "decide" /\ \A s \in Runs : s # r => exec'[s] = exec[s]
      BY <1>0, <2>1 DEF Caught, Verdict, ExecRecord
    <2>. QED BY <2>2, <2>3
  <1>5. Noted \/ Begun(r) \/ (At(r, "startup") /\ Ready(r))
    BY DEF TurnCompleted, EventThrows, WorkerFails, StartupCancelled, WorkerLost, Throws, Startable,
           Noted, durable
  <1>6. /\ \A s \in Runs : s # r => run'[s] = run[s]
        /\ run'[r] \in LiveRun /\ status' \in ActiveStatuses
    BY <1>0, <1>2, <1>5 DEF Ready, Begun, Noted, task, InProgress, LiveRun, ActiveStatuses
  <1>7. OnlyLastRuns' /\ StatusMatchesTurns'
    BY <1>1, <1>2, <1>4, <1>6, LiveRunMoves DEF Uncalled
  <1>8. shown'.status \in ActiveStatuses
    BY <1>2, <1>6 DEF RecordGrows, InProgress, Record
  <1>9. session # None => session' = session
    <2>1. CASE At(r, "startup") /\ Ready(r)
      <3>1. exec[r].session = session
        BY <1>1, <2>1, ConstantAssumption DEF At, Runs, QuietAgrees, SessionsAgree
      <3>. QED BY <2>1, <3>1 DEF Ready, ThreadOf
    <2>2. CASE Noted \/ Begun(r)
      BY <2>2 DEF Noted, Begun, task
    <2>. QED BY <1>5, <2>1, <2>2
  <1>10. SessionsAgree'
    <2>1. \A s \in Runs : exec'[s].pc \notin Copied \cup {"load"}
      BY <1>3, <1>4 DEF Copied, Uncalled
    <2>2. submit'.pc \notin Asked
      BY <1>1, <1>3
    <2>3. \A s \in Runs : dispatches'[s] > 0 => session' # None /\ thread'[s] = session'
      BY <1>1, <1>9 DEF QuietAgrees, SessionsAgree
    <2>. QED BY <1>4, <1>8, <2>1, <2>2, <2>3 DEF SessionsAgree
  <1>. QED BY <1>7, <1>10 DEF QuietAgrees

-----------------------------------------------------------------------------
(* The start tool, where nobody cancels *)

LEMMA AskQuiet ==
  ASSUME Agreed, RecordGrows, TurnsDiffer, QuietAgrees, NEW q \in Requests,
         Duplicate(q) \/ Submit(q) \/ Refused(q)
  PROVE  QuietAgrees'
  <1>. USE DEF QuietAgrees
  <1>1. /\ UNCHANGED <<status, turns, run, session, shown, exec, cancel, dispatches, thread, worker,
                       abandoned>>
        /\ submit.pc = "idle"
    BY DEF Duplicate, Submit, Refused, Asks, Accept, task, memory, history, trouble
  <1>2. \/ submit'.pc = "idle" /\ UNCHANGED nextRun
        \/ /\ nextRun \in Runs /\ nextRun' = nextRun + 1 /\ shown.status \notin ActiveStatuses
           /\ submit'.pc \in {"create", "reserve"} /\ submit'.id = nextRun
           /\ submit'.session = shown.session
    BY <1>1 DEF Duplicate, Submit, Refused, Accept, Free, Answer, IdleSubmit, memory
  <1>3. nextRun \in Nat
    BY DEF Agreed, Typed, MemoryType
  <1>4. ASSUME NEW s \in Runs, s \in abandoned PROVE s < nextRun' /\ exec'[s].pc \in Uncalled
    <2>1. s < nextRun /\ exec[s].pc \in Uncalled
      BY <1>4 DEF OnlyLastRuns
    <2>. QED BY <1>1, <1>2, <1>3, <2>1 DEF Runs
  <1>5. ASSUME NEW s \in Runs, exec[s].pc \notin Uncalled
        PROVE  \/ InProgress(s)
               \/ Seen(s) /\ exec[s].pc \in {"decide", "inspect"}
               \/ /\ Unseen(s) /\ exec[s].pc \in {"decide", "inspect", "commit"}
                  /\ submit'.pc = "idle"
    <2>1. InProgress(s) \/ Seen(s) \/ Unseen(s)
      BY <1>5 DEF OnlyLastRuns
    <2>. QED BY <1>2, <2>1 DEF Seen, Unseen
  <1>6. /\ submit'.pc \in Unscheduled => submit'.id \notin abandoned
        /\ submit'.pc \in Asked => NoneLive
        /\ submit'.pc \notin {"completeStart", "completeFollowup"}
    <2>1. nextRun \in Runs => nextRun \notin abandoned
      BY <1>3 DEF OnlyLastRuns
    <2>. QED BY <1>2, <2>1 DEF OnlyLastRuns, Unscheduled, Asked
  <1>7. OnlyLastRuns' /\ StatusMatchesTurns'
    BY <1>1, <1>4, <1>5, <1>6, RecordStays DEF OnlyLastRuns
  <1>8. submit'.pc \in Asked => submit'.session = session
    BY <1>2 DEF SessionsAgree, Asked
  <1>9. SessionsAgree'
    BY <1>1, <1>8, WorkerStays, SessionsStay DEF SessionsAgree
  <1>. QED BY <1>7, <1>9

\* A step of the start or follow-up in progress that records no turn.
LEMMA CallQuiet ==
  ASSUME Agreed, RecordGrows, TurnsDiffer, QuietAgrees, SubmitStep, UNCHANGED task
  PROVE  QuietAgrees'
  <1>. USE DEF QuietAgrees
  <1>0. exec \in [Runs -> ExecRecord]
    BY RecordTypes DEF Agreed
  <1>1. submit.pc # "idle" /\ UNCHANGED <<cancel, dispatches, thread, worker, nextRun, status, turns, run, session>>
    BY DEF SubmitStep, CreateTask, CompleteStart, ReserveFollowup, AlreadyReserved, QueueFollowup,
           CompleteFollowup, RecordThrows, LedgerThrows, history, task
  <1>2. PICK r \in Runs : r = submit.id
    BY <1>1 DEF Agreed, SubmitAgrees
  <1>3. ~RecordTurn(r)
    <2>1. RecordTurn(r) => turns' = Append(turns, r)
      BY DEF RecordTurn
    <2>2. turns \in Seq(Runs)
      BY RunType DEF Agreed
    <2>. QED BY <1>1, <2>1, <2>2
  <1>4. \/ UNCHANGED <<exec, abandoned>>
        \/ /\ submit.pc = "completeStart" /\ Schedule(r) /\ shown' = Record' /\ UNCHANGED abandoned
        \/ /\ submit.pc \in Unscheduled /\ UNCHANGED exec /\ abandoned' = abandoned \cup {r}
    BY <1>2, <1>3
       DEF SubmitStep, CreateTask, CompleteStart, ReserveFollowup, AlreadyReserved, QueueFollowup,
           CompleteFollowup, RecordThrows, LedgerThrows, Creation, Queueing, InPlace, history, trouble,
           Unscheduled
  <1>5. \/ submit'.pc = "idle"
        \/ submit.pc = "reserve" /\ submit' = [submit EXCEPT !.pc = "queue"] /\ UNCHANGED abandoned
    <2>1. ~CreateTask /\ ~QueueFollowup
      BY <1>2, <1>3 DEF CreateTask, QueueFollowup, Creation, Queueing
    <2>2. CompleteStart \/ AlreadyReserved \/ CompleteFollowup \/ RecordThrows \/ LedgerThrows
             => submit'.pc = "idle"
      BY DEF CompleteStart, AlreadyReserved, CompleteFollowup, RecordThrows, LedgerThrows, Answer,
             IdleSubmit
    <2>3. CASE ReserveFollowup
      BY <2>3 DEF ReserveFollowup, history, trouble
    <2>. QED BY <2>1, <2>2, <2>3 DEF SubmitStep
  <1>6. /\ \A s \in Runs : s # r => exec'[s] = exec[s]
        /\ exec'[r] = exec[r] \/ (exec'[r].pc = "load" /\ submit.pc = "completeStart" /\ shown' = Record')
    BY <1>0, <1>4 DEF Schedule, ExecRecord
  <1>7. abandoned \subseteq abandoned'
    BY <1>4
  <1>8. ASSUME NEW s \in Runs, s \in abandoned' PROVE s < nextRun' /\ exec'[s].pc \in Uncalled
    <2>1. submit.pc \in Unscheduled => exec[r].pc \in Uncalled /\ r \notin abandoned
      BY <1>2 DEF Agreed, SubmitAgrees, Uncalled, OnlyLastRuns
    <2>2. r < nextRun
      BY <1>1, <1>2 DEF Agreed, SubmitAgrees
    <2>3. s \in abandoned => s < nextRun /\ exec[s].pc \in Uncalled
      BY DEF OnlyLastRuns
    <2>4. submit.pc = "completeStart" => submit.pc \in Unscheduled
      BY DEF Unscheduled
    <2>. QED BY <1>1, <1>4, <1>6, <1>8, <2>1, <2>2, <2>3, <2>4
  <1>9. ASSUME NEW s \in Runs, exec'[s].pc \notin Uncalled
        PROVE  InProgress(s) \/ (Seen(s) /\ exec'[s].pc \in {"decide", "inspect"})
    <2>1. exec[s].pc \notin Uncalled => InProgress(s) \/ Seen(s)
      BY <1>1 DEF OnlyLastRuns, Unseen
    <2>2. submit.pc = "completeStart" => InProgress(r)
      BY <1>2 DEF OnlyLastRuns
    <2>. QED BY <1>6, <1>9, <2>1, <2>2 DEF Seen
  <1>10. /\ submit'.pc \in Unscheduled => submit'.id \notin abandoned'
         /\ submit'.pc \in Asked => NoneLive /\ submit'.session = session
         /\ submit'.pc \notin {"completeStart", "completeFollowup"}
    <2>1. CASE submit'.pc = "idle"
      BY <2>1 DEF Unscheduled, Asked
    <2>2. CASE submit.pc = "reserve" /\ submit' = [submit EXCEPT !.pc = "queue"] /\ UNCHANGED abandoned
      <3>1. submit'.pc = "queue" /\ submit'.id = submit.id /\ submit'.session = submit.session
        BY <2>2, SubmitType DEF Agreed, SubmitRecord
      <3>. QED BY <2>2, <3>1 DEF OnlyLastRuns, SessionsAgree, Unscheduled, Asked
    <2>. QED BY <1>5, <2>1, <2>2
  <1>11. OnlyLastRuns' /\ StatusMatchesTurns'
    BY <1>1, <1>7, <1>8, <1>9, <1>10, RecordStays DEF OnlyLastRuns
  <1>12. SessionsAgree'
    <2>1. worker.run # None => exec'[worker.run] = exec[worker.run]
      <3>1. submit.pc = "completeStart" => exec[r].pc = "none"
        BY <1>2 DEF Agreed, SubmitAgrees, Unscheduled
      <3>. QED BY <1>6, <3>1, InWorker
    <2>2. \A s \in Runs : /\ exec'[s].pc = "load" => exec[s].pc = "load" \/ shown' = Record'
                          /\ exec'[s].pc \in Copied => exec'[s].session = session
      BY <1>6 DEF SessionsAgree, Copied
    <2>. QED BY <1>1, <1>10, <2>1, <2>2, WorkerStays, SessionsStay
  <1>. QED BY <1>11, <1>12

\* A turn is queued: the task had no live turn but abandoned ones, and gets one.
LEMMA QueueQuiet ==
  ASSUME Agreed, RecordGrows, TurnsDiffer, QuietAgrees, SubmitStep, RecordTurn(submit.id),
         submit.pc \in Asked
  PROVE  QuietAgrees'
  <1>. USE DEF QuietAgrees
  <1>0. exec \in [Runs -> ExecRecord]
    BY RecordTypes DEF Agreed
  <1>1. UNCHANGED <<cancel, dispatches, thread, worker, nextRun>>
    BY DEF SubmitStep, CreateTask, CompleteStart, ReserveFollowup, AlreadyReserved, QueueFollowup,
           CompleteFollowup, RecordThrows, LedgerThrows, history
  <1>2. PICK r \in Runs : r = submit.id
    BY DEF Agreed, SubmitAgrees, Asked
  <1>3. /\ turns \in Seq(Runs) /\ Len(turns) \in Nat
        /\ turns' = Append(turns, r)
        /\ Len(turns') = Len(turns) + 1 /\ turns'[Len(turns) + 1] = r
        /\ \A i \in 1..Len(turns) : turns'[i] = turns[i] /\ turns[i] \in Runs
        /\ turns' # <<>> /\ LastTurn' = r
    <2>1. turns \in Seq(Runs) /\ turns' = Append(turns, r)
      BY <1>2, RunType DEF Agreed, RecordTurn
    <2>. QED BY <2>1 DEF LastTurn
  <1>4. /\ run'[r] \in LiveRun /\ \A s \in Runs : s # r => run'[s] = run[s]
        /\ status' \in ActiveStatuses /\ session' = session
    BY <1>2, RunType DEF RecordTurn, Agreed, LiveRun, ActiveStatuses, SessionsAgree
  <1>5. /\ exec[r].pc = "none" /\ r < nextRun /\ r \notin abandoned
        /\ \A i \in 1..Len(turns) : turns[i] # r
    BY <1>2 DEF Agreed, SubmitAgrees, OnlyLastRuns, TurnsDiffer, Asked, Unscheduled
  <1>6. \/ /\ submit.pc \in {"create", "queue"} /\ shown' = Record' /\ UNCHANGED abandoned
           /\ submit'.id = r
           /\ \/ submit'.pc = "completeStart" /\ UNCHANGED exec
              \/ submit'.pc = "completeFollowup" /\ Schedule(r)
        \/ submit'.pc = "idle" /\ abandoned' = abandoned \cup {r} /\ UNCHANGED exec
    <2>1. ~(turns' = turns)
      BY <1>3
    <2>2. ~Noted /\ ~Reserving
      BY <2>1 DEF Noted, Reserving, task
    <2>3. CASE CreateTask \/ QueueFollowup
      <3>1. submit'.id = r
        BY <1>2, <2>3, SubmitType DEF CreateTask, QueueFollowup, Agreed, SubmitRecord
      <3>2. submit'.pc \in {"completeStart", "completeFollowup"}
            /\ (CreateTask => submit'.pc = "completeStart") /\ (QueueFollowup => submit'.pc = "completeFollowup")
        BY <2>3, SubmitType DEF CreateTask, QueueFollowup, Agreed, SubmitRecord
      <3>. QED BY <1>2, <2>3, <3>1, <3>2 DEF CreateTask, QueueFollowup, InPlace, trouble
    <2>4. CASE RecordThrows
      BY <1>2, <2>4 DEF RecordThrows, IdleSubmit
    <2>. QED BY <2>1, <2>2, <2>3, <2>4
             DEF SubmitStep, CompleteStart, ReserveFollowup, AlreadyReserved, CompleteFollowup,
                 LedgerThrows, Throws, Reserving, Noted, task
  <1>7. /\ \A s \in Runs : s # r => exec'[s] = exec[s]
        /\ exec'[r].pc \in {"none", "load"}
        /\ exec'[r].pc = "load" => shown' = Record' /\ UNCHANGED abandoned
    BY <1>0, <1>5, <1>6 DEF Schedule, ExecRecord
  <1>8. \A s \in Runs : exec[s].pc \in Uncalled \/ Seen(s)
    <2>1. submit.pc # "idle" /\ NoneLive
      BY DEF OnlyLastRuns, Asked
    <2>. QED BY <2>1 DEF OnlyLastRuns, InProgress, Unseen, NoneLive
  <1>9. /\ shown' = Record' => InProgress(r)' /\ shown'.status \in ActiveStatuses
        /\ shown' # Record' => r \in abandoned'
    BY <1>3, <1>4, <1>6 DEF InProgress, Record
  <1>10. NoneLive /\ abandoned \subseteq abandoned'
    BY <1>6 DEF OnlyLastRuns
  <1>11. OnlyLastRuns'
    <2>1. \A s \in Runs : cancel'[s].pc = "idle"
      BY <1>1 DEF OnlyLastRuns
    <2>2. ASSUME NEW s \in Runs, exec'[s].pc \notin Uncalled PROVE InProgress(s)' \/ Seen(s)'
      <3>1. CASE s = r
        BY <1>7, <1>9, <2>2, <3>1 DEF Uncalled
      <3>2. CASE s # r
        BY <1>4, <1>7, <1>8, <2>2, <3>2, SeenStays
      <3>. QED BY <3>1, <3>2
    <2>3. ASSUME NEW s \in Runs, s \in abandoned' PROVE s < nextRun' /\ exec'[s].pc \in Uncalled
      <3>1. CASE s = r
        BY <1>1, <1>5, <1>6, <1>7, <2>3, <3>1 DEF Uncalled
      <3>2. CASE s # r
        BY <1>1, <1>6, <1>7, <2>3, <3>2 DEF OnlyLastRuns
      <3>. QED BY <3>1, <3>2
    <2>4. shown'.status \notin ActiveStatuses => NoneLive'
      BY <1>4, <1>9, <1>10 DEF NoneLive
    <2>5. /\ submit'.pc \notin Asked
          /\ submit'.pc \in Unscheduled => submit'.id \notin abandoned'
          /\ submit'.pc = "completeStart" => InProgress(r)' /\ submit'.id = r
          /\ submit'.pc = "completeFollowup" => turns' # <<>> /\ submit'.id = LastTurn'
      BY <1>3, <1>5, <1>6, <1>9 DEF Asked, Unscheduled
    <2>. QED BY <2>1, <2>2, <2>3, <2>4, <2>5 DEF OnlyLastRuns
  <1>12. StatusMatchesTurns'
    <2>1. ASSUME NEW i \in 1..Len(turns), run'[turns'[i]] \in LiveRun PROVE turns'[i] \in abandoned'
      <3>1. turns'[i] = turns[i] /\ turns[i] \in Runs /\ turns[i] # r
        BY <1>3, <1>5
      <3>. QED BY <1>4, <1>10, <2>1, <3>1 DEF NoneLive
    <2>2. run'[turns'[Len(turns')]] \in LiveRun
      BY <1>3, <1>4
    <2>. QED BY <1>3, <1>4, <2>1, <2>2 DEF StatusMatchesTurns
  <1>13. SessionsAgree'
    <2>1. worker.run = None
      BY <1>8, InWorker DEF Uncalled, Seen
    <2>2. \A s \in Runs : /\ exec'[s].pc = "load" => exec[s].pc = "load" \/ shown' = Record'
                          /\ exec'[s].pc \in Copied => exec'[s].session = session
      BY <1>7 DEF SessionsAgree, Copied
    <2>3. submit'.pc \notin Asked
      BY <1>6 DEF Asked
    <2>. QED BY <1>1, <1>4, <2>1, <2>2, <2>3, SessionsStay
  <1>. QED BY <1>11, <1>12, <1>13

LEMMA SubmitStepQuiet ==
  ASSUME Agreed, RecordGrows, TurnsDiffer, QuietAgrees, SubmitStep
  PROVE  QuietAgrees'
  <1>1. UNCHANGED task \/ (submit.pc \in Asked /\ RecordTurn(submit.id))
    BY DEF SubmitStep, CreateTask, CompleteStart, ReserveFollowup, AlreadyReserved, QueueFollowup,
           CompleteFollowup, RecordThrows, LedgerThrows, Throws, Noted, Creation, Reserving, Queueing,
           Asked
  <1>. QED BY <1>1, CallQuiet, QueueQuiet

-----------------------------------------------------------------------------
(* The host, where nobody cancels *)

LEMMA HostRestsQuiet ==
  ASSUME Agreed, RecordGrows, TurnsDiffer, QuietAgrees,
         IdleExit \/ Shutdown \/ Drain \/ MemoryLost \/ UNCHANGED vars
  PROVE  QuietAgrees'
  <1>. USE DEF QuietAgrees
  <1>1. /\ UNCHANGED <<status, turns, run, session, shown, dispatches, thread, nextRun, abandoned>>
        /\ \/ UNCHANGED <<exec, cancel, submit>>
           \/ /\ submit'.pc = "idle" /\ worker'.run = None
              /\ \A r \in Runs : exec'[r].pc = "none" /\ cancel'[r].pc = "idle"
    BY DEF IdleExit, Shutdown, Drain, MemoryLost, durable, task, history, trouble, vars, memory,
           IdleSubmit, NoWorker, IdleExec, IdleCancel
  <1>2. worker' = worker \/ worker'.run = None \/ UNCHANGED <<worker.run, worker.stage, worker.thread>>
    BY RecordTypes DEF IdleExit, Shutdown, Drain, MemoryLost, NoWorker, WorkerRecord, Agreed, vars, memory
  <1>3. OnlyLastRuns' /\ StatusMatchesTurns'
    <2>1. \A s \in Runs : cancel'[s].pc = "idle"
      BY <1>1 DEF OnlyLastRuns
    <2>2. \A s \in Runs : s \in abandoned' => s < nextRun' /\ exec'[s].pc \in Uncalled
      BY <1>1 DEF OnlyLastRuns, Uncalled
    <2>3. ASSUME NEW s \in Runs, exec'[s].pc \notin Uncalled
          PROVE  \/ InProgress(s)
                 \/ Seen(s) /\ exec'[s].pc \in {"decide", "inspect"}
                 \/ /\ Unseen(s) /\ exec'[s].pc \in {"decide", "inspect", "commit"}
                    /\ submit'.pc = "idle"
      <3>1. UNCHANGED <<exec, submit>>
        BY <1>1, <2>3 DEF Uncalled
      <3>2. InProgress(s) \/ Seen(s) \/ Unseen(s)
        BY <2>3, <3>1 DEF OnlyLastRuns
      <3>. QED BY <3>1, <3>2 DEF Seen, Unseen
    <2>4. /\ submit'.pc \in Unscheduled => submit'.id \notin abandoned'
          /\ submit'.pc \in Asked => NoneLive
          /\ submit'.pc = "completeStart" => InProgress(submit'.id)
          /\ submit'.pc = "completeFollowup" => turns # <<>> /\ submit'.id = LastTurn
      BY <1>1 DEF OnlyLastRuns, Unscheduled, Asked
    <2>. QED BY <1>1, <2>1, <2>2, <2>3, <2>4, RecordStays
  <1>4. SessionsAgree'
    <2>1. worker'.run # None => exec' = exec
      BY <1>1
    <2>2. \A s \in Runs : /\ exec'[s].pc = "load" => exec[s].pc = "load"
                          /\ exec'[s].pc \in Copied => exec'[s].session = session
      BY <1>1 DEF SessionsAgree, Copied
    <2>3. submit'.pc \in Asked => submit'.session = session
      BY <1>1 DEF SessionsAgree, Asked
    <2>. QED BY <1>1, <1>2, <2>1, <2>2, <2>3, WorkerStays, SessionsStay
  <1>. QED BY <1>3, <1>4

\* The start of the host parks the turn that was live, the latest.
LEMMA BootQuiet ==
  ASSUME Agreed, LiveAgrees, RecordGrows, TurnsDiffer, QuietAgrees, Boot
  PROVE  QuietAgrees'
  <1>1. /\ UNCHANGED <<turns, session, submit, exec, cancel, worker, dispatches, thread, nextRun,
                       abandoned>>
        /\ host = "down" /\ shown' = Record'
    BY DEF Boot, Parked, Noted, InPlace, task, memory, history, trouble
  <1>2. submit.pc = "idle" /\ \A r \in Runs : exec[r].pc = "none" /\ cancel[r].pc = "idle"
    BY <1>1 DEF LiveAgrees, DownIsIdle
  <1>. USE <1>1, RunType, DisjointStatuses DEF Agreed, QuietAgrees
  <1>3. /\ status' \notin ActiveStatuses
        /\ \A i \in 1..Len(turns) : run'[turns[i]] \in LiveRun => turns[i] \in abandoned
        /\ \A r \in Runs : run'[r] # run[r] => run'[r] \notin LiveRun
    <2>1. CASE status \notin ActiveStatuses
      <3>1. UNCHANGED <<status, run>>
        BY <2>1 DEF Boot, Noted, task
      <3>. QED BY <2>1, <3>1 DEF StatusMatchesTurns
    <2>2. CASE status \in ActiveStatuses
      <3>1. status' \notin ActiveStatuses
        BY <2>2 DEF Boot, Parked, ActiveStatuses
      <3>2. turns # <<>>
        BY <2>2 DEF CancelAgrees, Born
      <3>3. Len(turns) \in LiveTurns /\ LiveTurns \subseteq 1..Len(turns) /\ Len(turns) \in Nat
        BY <2>2, <3>2 DEF StatusMatchesTurns, LiveTurns
      <3>4. PICK i \in LiveTurns : (\A j \in LiveTurns : j <= i) /\ Parked(turns[i])
        BY <2>2, <3>3 DEF Boot
      <3>5. i = Len(turns)
        BY <3>3, <3>4
      <3>6. run' = [run EXCEPT ![LastTurn] = "needs_resume"] /\ LastTurn \in Runs
        BY <3>2, <3>4, <3>5 DEF Parked, LastTurn
      <3>7. ASSUME NEW j \in 1..Len(turns), run'[turns[j]] \in LiveRun PROVE turns[j] \in abandoned
        <4>1. turns[j] \in Runs /\ turns[j] # LastTurn /\ run[turns[j]] \in LiveRun
          BY <3>6, <3>7 DEF LiveRun
        <4>2. j # Len(turns)
          BY <4>1 DEF LastTurn
        <4>. QED BY <3>7, <4>1, <4>2 DEF StatusMatchesTurns
      <3>8. \A r \in Runs : run'[r] # run[r] => run'[r] \notin LiveRun
        BY <3>6 DEF LiveRun
      <3>. QED BY <3>1, <3>7, <3>8
    <2>. QED BY <2>1, <2>2
  <1>4. NoneLive'
    <2>. SUFFICES ASSUME NEW s \in Runs, run'[s] \in LiveRun PROVE s \in abandoned
      BY DEF NoneLive
    <2>1. run[s] \in LiveRun
      BY <1>3
    <2>2. PICK i \in 1..Len(turns) : turns[i] = s
      BY <2>1 DEF TurnsDiffer, RunsAmong, Among, Record
    <2>. QED BY <1>3, <2>2
  <1>5. OnlyLastRuns'
    BY <1>2, <1>4 DEF OnlyLastRuns, Uncalled, Unscheduled, Asked
  <1>6. StatusMatchesTurns'
    BY <1>3 DEF StatusMatchesTurns
  <1>7. SessionsAgree'
    BY <1>2 DEF SessionsAgree, Record, Asked, Copied
  <1>. QED BY <1>5, <1>6, <1>7

LEMMA StepQuiet ==
  ASSUME Cancellable = {}, Agreed, LiveAgrees, TurnsDiffer, QuietAgrees, [Next]_vars
  PROVE  QuietAgrees'
  <1>0. RecordGrows
    BY StepGrows
  <1>1. ASSUME NEW q \in Requests, Duplicate(q) \/ Submit(q) \/ Refused(q) PROVE QuietAgrees'
    BY <1>0, <1>1, AskQuiet
  <1>2. CASE SubmitStep
    BY <1>0, <1>2, SubmitStepQuiet
  <1>3. ASSUME NEW r \in Runs, ExecStep(r) PROVE QuietAgrees'
    BY <1>0, <1>3, PrepareQuiet, CompileQuiet, SettleQuiet DEF ExecStep
  <1>4. ASSUME NEW r \in Runs, WorkerStep(r) \/ OtherEvent(r) PROVE QuietAgrees'
    BY <1>0, <1>4, TurnGoesOnQuiet, TurnEndsQuiet DEF WorkerStep
  <1>5. ASSUME NEW r \in Runs, CancelCheck(r) \/ CancelStep(r) PROVE FALSE
    <2>1. cancel[r].pc = "idle"
      BY DEF QuietAgrees, OnlyLastRuns
    <2>. QED BY <1>5, <2>1
             DEF CancelCheck, CancelStep, InterruptRefused, InterruptAccepted, ReserveInterrupt,
                 Signal, Kill, NoProcess, InspectVictim, SettleVictim, CompleteInterrupt, CancelThrows
  <1>6. CASE IdleExit \/ Shutdown \/ Drain \/ Halt \/ Crash \/ Boot
    BY <1>0, <1>6, HostRestsQuiet, BootQuiet DEF Halt, Crash
  <1>7. CASE UNCHANGED vars
    BY <1>0, <1>7, HostRestsQuiet
  <1>. QED BY <1>1, <1>2, <1>3, <1>4, <1>5, <1>6, <1>7 DEF Next

LEMMA InitQuiet == Init => QuietAgrees
  BY DEF Init, QuietAgrees, OnlyLastRuns, StatusMatchesTurns, SessionsAgree, IdleSubmit, IdleExec,
         IdleCancel, NoWorker, Uncalled, ActiveStatuses, Unscheduled, Asked, Copied, NoneLive, LiveRun,
         Record

LEMMA AlwaysQuiet == ASSUME Cancellable = {} PROVE Spec => []QuietAgrees
  <1>1. Agreed /\ LiveAgrees /\ SettledAgrees /\ QuietAgrees /\ [Next]_vars => QuietAgrees'
    BY StepQuiet DEF SettledAgrees
  <1>. QED BY <1>1, InitQuiet, AlwaysAgreed, AlwaysLive, AlwaysSettled, PTL DEF Spec

-----------------------------------------------------------------------------
(* Every execution comes to its end *)

\* How many steps an execution still has before it, where its turn is in the worker.  A settlement
\* that throws is tried once more, by the catch clause.
StageLeft(stage) ==
    CASE stage = "startup" -> 4 [] stage = "ready" -> 3 [] stage = "dispatched" -> 2 [] OTHER -> 1
StepsLeft(pc, caught, stage) ==
    CASE pc = "load" -> 15 [] pc = "compile" -> 14 [] pc = "check" -> 13 [] pc = "starting" -> 12
      [] pc = "runTurn" -> 11 [] pc = "running" -> 6 + StageLeft(stage)
      [] pc = "decide" -> IF caught THEN 3 ELSE 6
      [] pc = "inspect" -> IF caught THEN 2 ELSE 5
      [] pc = "commit" -> IF caught THEN 1 ELSE 4
      [] OTHER -> 0
ExecLeft(r) == StepsLeft(exec[r].pc, exec[r].caught, worker.stage)

Nearer(r) == ExecLeft(r)' < ExecLeft(r)
NotBack(r) == exec[r].pc # "none" => ExecLeft(r)' <= ExecLeft(r)

LEMMA StageType == \A stage : StageLeft(stage) \in 1..4
  BY DEF StageLeft

LEMMA LeftType == \A pc, caught, stage : StepsLeft(pc, caught, stage) \in 0..15
  BY StageType DEF StepsLeft

\* An execution that does not move has what is left, if its worker is where it was.
LEMMA ExecRests ==
  ASSUME NEW r \in Runs, exec'[r].pc = exec[r].pc, exec'[r].caught = exec[r].caught,
         exec[r].pc = "running" => StageLeft(worker'.stage) <= StageLeft(worker.stage)
  PROVE  NotBack(r)
  <1>1. CASE exec[r].pc # "running"
    BY <1>1, LeftType DEF NotBack, ExecLeft, StepsLeft
  <1>2. CASE exec[r].pc = "running"
    BY <1>2, StageType DEF NotBack, ExecLeft, StepsLeft
  <1>. QED BY <1>1, <1>2

LEMMA OthersRest ==
  ASSUME Agreed, NEW r \in Runs, \A s \in Runs : s # r => exec'[s] = exec[s],
         worker' = worker \/ worker.run \in {None, r}
  PROVE  \A s \in Runs : s # r => NotBack(s)
  <1>. TAKE s \in Runs
  <1>. HAVE s # r
  <1>1. exec[s].pc = "running" => worker' = worker
    BY ConstantAssumption DEF Agreed, WorkerAgrees, WorkerRunsWhatIsExecuted, Runs
  <1>2. exec[s].pc = "running" => StageLeft(worker'.stage) <= StageLeft(worker.stage)
    BY <1>1, StageType
  <1>. QED BY <1>2, ExecRests

\* No execution is in the worker, or the worker does not move.
LEMMA NobodyGoesBack ==
  ASSUME Agreed, exec' = exec, worker' = worker \/ worker.run = None
  PROVE  \A s \in Runs : NotBack(s)
  <1>. TAKE s \in Runs
  <1>1. exec[s].pc = "running" => worker' = worker
    BY ConstantAssumption DEF Agreed, WorkerAgrees, WorkerRunsWhatIsExecuted, Runs
  <1>2. exec[s].pc = "running" => StageLeft(worker'.stage) <= StageLeft(worker.stage)
    BY <1>1, StageType
  <1>. QED BY <1>2, ExecRests

LEMMA ExecStepNearer ==
  ASSUME Agreed, NEW r \in Runs, ExecStep(r)
  PROVE  Nearer(r) /\ \A s \in Runs : s # r => NotBack(s)
  <1>0. exec \in [Runs -> ExecRecord] /\ exec[r].pc # "running"
    BY RecordTypes DEF Agreed, ExecStep, LoadTurn, PrepareFails, CompileContext, CheckCancelled,
         TurnStarting, PrepareThrows, RunTurn, Decide, Inspect, CommitVerdict, SettleThrows
  <1>1. worker' = worker \/ worker.run = None
    BY DEF ExecStep, LoadTurn, PrepareFails, CompileContext, CheckCancelled, TurnStarting,
         PrepareThrows, RunTurn, Decide, Inspect, CommitVerdict, SettleThrows
  <1>2. PICK pc, caught :
           /\ \/ exec[r].pc = "load" /\ pc \in {"compile", "check", "decide"}
              \/ exec[r].pc = "compile" /\ pc \in {"check", "decide"}
              \/ exec[r].pc = "check" /\ pc \in {"starting", "inspect"}
              \/ exec[r].pc = "starting" /\ pc \in {"runTurn", "decide"}
              \/ exec[r].pc = "runTurn" /\ pc \in {"running", "decide"}
              \/ exec[r].pc = "decide" /\ pc = "inspect" /\ caught = exec[r].caught
              \/ exec[r].pc = "inspect" /\ pc = "commit" /\ caught = exec[r].caught
              \/ exec[r].pc \in {"inspect", "commit"} /\ pc = "done"
              \/ exec[r].pc \in {"inspect", "commit"} /\ pc = "decide" /\ ~exec[r].caught /\ caught
           /\ exec'[r].pc = pc /\ exec'[r].caught = caught
           /\ \A s \in Runs : s # r => exec'[s] = exec[s]
    <2>1. CASE LoadTurn(r)
      BY <1>0, <2>1 DEF LoadTurn, ExecRecord
    <2>2. CASE PrepareFails(r) \/ CheckCancelled(r) \/ Decide(r) \/ RunTurn(r)
      BY <1>0, <2>2 DEF PrepareFails, CheckCancelled, Decide, RunTurn, Verdict, Goto, Caught, ExecRecord
    <2>3. CASE CompileContext(r) \/ TurnStarting(r) \/ PrepareThrows(r)
      BY <1>0, <2>3 DEF CompileContext, TurnStarting, PrepareThrows, Goto, Caught, ExecRecord
    <2>4. CASE Inspect(r) \/ CommitVerdict(r)
      BY <1>0, <2>4 DEF Inspect, LeftAlone, CommitVerdict, Done, Goto, IdleExec, ExecRecord
    <2>5. CASE SettleThrows(r)
      BY <1>0, <2>5 DEF SettleThrows, Done, Caught, IdleExec, ExecRecord
    <2>. QED BY <2>1, <2>2, <2>3, <2>4, <2>5 DEF ExecStep
  <1>3. Nearer(r)
    BY <1>2, StageType DEF Nearer, ExecLeft, StepsLeft
  <1>. QED BY <1>1, <1>2, <1>3, OthersRest

\* The turn of the worker has ended, for whatever reason.
LEMMA EndedNearer ==
  ASSUME Agreed, NEW r \in Runs, worker.run = r, NEW verdict,
         Caught(r, verdict) \/ Verdict(r, "decide", verdict)
  PROVE  Nearer(r) /\ \A s \in Runs : s # r => NotBack(s)
  <1>1. exec \in [Runs -> ExecRecord] /\ exec[r].pc = "running"
    BY RecordTypes DEF Agreed, WorkerAgrees, WorkerRunsWhatIsExecuted
  <1>2. exec'[r].pc = "decide" /\ \A s \in Runs : s # r => exec'[s] = exec[s]
    BY <1>1 DEF Caught, Verdict, ExecRecord
  <1>3. Nearer(r)
    BY <1>1, <1>2, StageType DEF Nearer, ExecLeft, StepsLeft
  <1>. QED BY <1>2, <1>3, OthersRest

LEMMA WorkerStepNearer ==
  ASSUME Agreed, NEW r \in Runs, WorkerStep(r)
  PROVE  Nearer(r) /\ \A s \in Runs : s # r => NotBack(s)
  <1>0. worker \in WorkerRecord /\ worker.run = r /\ exec[r].pc = "running"
    BY RecordTypes DEF Agreed, WorkerAgrees, WorkerRunsWhatIsExecuted, WorkerStep, SessionReady,
         Startable, Dispatch, TurnStarted, TurnCompleted, EventThrows, WorkerFails, StartupCancelled,
         WorkerLost, At
  <1>1. CASE SessionReady(r) \/ Dispatch(r) \/ TurnStarted(r)
    <2>1. exec' = exec /\ StageLeft(worker'.stage) < StageLeft(worker.stage)
      <3>1. CASE SessionReady(r)
        BY <1>0, <3>1 DEF SessionReady, Startable, At, StageLeft, WorkerRecord
      <3>2. CASE Dispatch(r)
        BY <1>0, <3>2 DEF Dispatch, At, StageLeft, WorkerRecord
      <3>3. CASE TurnStarted(r)
        BY <1>0, <3>3 DEF TurnStarted, At, StageLeft, WorkerRecord
      <3>. QED BY <1>1, <3>1, <3>2, <3>3
    <2>2. Nearer(r)
      BY <1>0, <2>1, StageType DEF Nearer, ExecLeft, StepsLeft
    <2>. QED BY <1>0, <2>1, <2>2, OthersRest
  <1>2. CASE \/ TurnCompleted(r) \/ EventThrows(r) \/ WorkerFails(r) \/ StartupCancelled(r)
             \/ WorkerLost(r)
    <2>1. PICK verdict : Caught(r, verdict) \/ Verdict(r, "decide", verdict)
      BY <1>2 DEF TurnCompleted, EventThrows, WorkerFails, StartupCancelled, WorkerLost, WorkerEnds
    <2>. QED BY <1>0, <2>1, EndedNearer
  <1>. QED BY <1>1, <1>2 DEF WorkerStep

\* Neither a cancellation nor the stop of the workers takes an execution back.
LEMMA KillNotBack ==
  ASSUME Agreed, NEW w, KillWorker(w) PROVE \A s \in Runs : NotBack(s)
  <1>1. CASE worker.id = w /\ worker.run # None
    <2>1. PICK r \in Runs : worker.run = r
      BY <1>1, RecordTypes DEF Agreed, WorkerRecord
    <2>2. Caught(r, "interrupted")
      BY <1>1, <2>1 DEF KillWorker, WorkerEnds
    <2>3. Nearer(r) /\ \A s \in Runs : s # r => NotBack(s)
      BY <2>1, <2>2, EndedNearer
    <2>4. NotBack(r)
      BY <2>3, LeftType DEF Nearer, NotBack, ExecLeft
    <2>. QED BY <2>3, <2>4
  <1>2. CASE ~(worker.id = w /\ worker.run # None)
    <2>1. exec' = exec /\ (worker' = worker \/ worker.run = None)
      BY <1>2 DEF KillWorker
    <2>. QED BY <2>1, NobodyGoesBack
  <1>. QED BY <1>1, <1>2

LEMMA OtherStepsNotBack ==
  ASSUME Agreed,
         \/ \E q \in Requests : Duplicate(q) \/ Submit(q) \/ Refused(q)
         \/ SubmitStep
         \/ \E r \in Runs : OtherEvent(r) \/ CancelCheck(r) \/ CancelStep(r)
         \/ IdleExit \/ Shutdown \/ Drain \/ Halt \/ Crash \/ Boot
         \/ UNCHANGED vars
  PROVE  \A s \in Runs : NotBack(s)
  <1>1. CASE CompleteStart \/ QueueFollowup
    <2>1. submit.id \in Runs /\ exec[submit.id].pc = "none" /\ Schedule(submit.id) /\ worker' = worker
      BY <1>1 DEF CompleteStart, QueueFollowup, Agreed, SubmitAgrees, Unscheduled
    <2>2. \A s \in Runs : s # submit.id => exec'[s] = exec[s]
      BY <2>1, ScheduleMoves DEF Agreed, ExecMoves
    <2>. QED BY <2>1, <2>2, OthersRest DEF NotBack
  <1>2. ASSUME NEW r \in Runs, Signal(r) \/ Kill(r) PROVE \A s \in Runs : NotBack(s)
    <2>1. CASE \E w : KillWorker(w)
      BY <2>1, KillNotBack
    <2>2. CASE exec' = exec /\ (worker' = worker \/ worker' = [worker EXCEPT !.interrupted = TRUE])
      <3>1. worker'.stage = worker.stage
        BY <2>2, RecordTypes DEF Agreed, WorkerRecord
      <3>. QED BY <2>2, <3>1, StageType, ExecRests
    <2>. QED BY <1>2, <2>1, <2>2 DEF Signal, Kill
  <1>3. CASE Shutdown
    <2>1. exec' = exec /\ (worker.run = None \/ worker'.stage = worker.stage)
      BY <1>3, RecordTypes DEF Shutdown, Agreed, WorkerRecord
    <2>. QED BY <2>1, NobodyGoesBack, StageType, ExecRests
  <1>4. CASE Halt \/ Crash
    <2>1. \A s \in Runs : exec'[s].pc = "none"
      BY <1>4 DEF Halt, Crash, MemoryLost, IdleExec
    <2>. QED BY <2>1, LeftType DEF NotBack, ExecLeft, StepsLeft
  <1>5. CASE exec' = exec /\ (worker' = worker \/ worker.run = None)
    BY <1>5, NobodyGoesBack
  <1>6. ASSUME NEW q \in Requests, Duplicate(q) \/ Submit(q) \/ Refused(q)
        PROVE  exec' = exec /\ worker' = worker
    BY <1>6 DEF Duplicate, Submit, Accept, Refused, memory
  <1>7. CreateTask \/ ReserveFollowup \/ AlreadyReserved \/ CompleteFollowup \/ RecordThrows \/ LedgerThrows
           => exec' = exec /\ worker' = worker
    BY DEF CreateTask, ReserveFollowup, AlreadyReserved, CompleteFollowup, RecordThrows, LedgerThrows
  <1>8. ASSUME NEW r \in Runs, OtherEvent(r) \/ CancelCheck(r) \/ CancelStep(r), ~Signal(r), ~Kill(r)
        PROVE  exec' = exec /\ worker' = worker
    BY <1>8 DEF OtherEvent, CancelCheck, CancelStep, InterruptRefused, InterruptAccepted,
         ReserveInterrupt, NoProcess, InspectVictim, SettleVictim, CompleteInterrupt, CancelThrows, memory
  <1>9. /\ IdleExit => exec' = exec /\ worker.run = None
        /\ Drain \/ Boot \/ UNCHANGED vars => exec' = exec /\ worker' = worker
    BY DEF IdleExit, Drain, Boot, memory, vars
  <1>. QED BY <1>1, <1>2, <1>3, <1>4, <1>5, <1>6, <1>7, <1>8, <1>9 DEF SubmitStep

-----------------------------------------------------------------------------
(* The theorems *)

TroubleType == faults \in Nat /\ abandoned \subseteq Runs /\ disputed \subseteq Runs

LEMMA TroubleTyped ==
  ASSUME Agreed, TroubleType, [Next]_vars PROVE TroubleType'
  <1>. USE DEF TroubleType
  <1>1. ASSUME NEW q \in Requests, Duplicate(q) \/ Submit(q) \/ Refused(q) PROVE UNCHANGED trouble
    BY <1>1 DEF Duplicate, Submit, Refused, Accept, history
  <1>2. CASE SubmitStep
    <2>1. submit.pc # "idle" => submit.id \in Runs
      BY DEF Agreed, SubmitAgrees
    <2>. QED BY <1>2, <2>1
             DEF SubmitStep, CreateTask, CompleteStart, ReserveFollowup, AlreadyReserved, QueueFollowup,
                 CompleteFollowup, RecordThrows, LedgerThrows, Throws, Fault, history, trouble
  <1>3. ASSUME NEW r \in Runs, ExecStep(r) PROVE TroubleType'
    BY <1>3 DEF ExecStep, LoadTurn, PrepareFails, CompileContext, CheckCancelled, TurnStarting,
       PrepareThrows, RunTurn, Decide, Inspect, LeftAlone, CommitVerdict, SettleThrows, ReceiptThrows,
       Throws, Fault, history, trouble
  <1>4. ASSUME NEW r \in Runs, WorkerStep(r) \/ OtherEvent(r) PROVE TroubleType'
    BY <1>4 DEF WorkerStep, SessionReady, Dispatch, TurnStarted, TurnCompleted, EventThrows,
       WorkerFails, StartupCancelled, WorkerLost, OtherEvent, Throws, Fault, history, trouble
  <1>5. ASSUME NEW r \in Runs, CancelCheck(r) \/ CancelStep(r) PROVE TroubleType'
    BY <1>5 DEF CancelCheck, CancelStep, InterruptRefused, InterruptAccepted, ReserveInterrupt, Signal,
       Kill, NoProcess, InspectVictim, SettleVictim, CompleteInterrupt, CancelThrows, ReceiptThrows,
       Throws, Fault, history, trouble
  <1>6. CASE IdleExit \/ Shutdown \/ Drain \/ Halt \/ Crash \/ Boot
    BY <1>6 DEF IdleExit, Shutdown, Drain, Halt, Crash, MemoryLost, Boot, history, trouble
  <1>7. CASE UNCHANGED vars
    BY <1>7 DEF vars, history, trouble
  <1>. QED BY <1>1, <1>2, <1>3, <1>4, <1>5, <1>6, <1>7 DEF Next, trouble

\* Every variable has its type.
THEOREM TasksTypeCorrect == Spec => []TypeOK
  <1>1. Init => TroubleType
    BY DEF Init, TroubleType
  <1>2. Agreed /\ ShownAgrees /\ TroubleType => TypeOK
    <2>. SUFFICES ASSUME Agreed, ShownAgrees, TroubleType PROVE TypeOK
      OBVIOUS
    <2>1. DurableType
      BY RecordIn DEF Agreed, Typed, ShownAgrees, DurableType
    <2>2. HistoryType
      BY DEF Agreed, Typed, StoryType, TroubleType, HistoryType
    <2>. QED BY <2>1, <2>2 DEF Agreed, Typed, TypeOK
  <1>. QED BY <1>1, <1>2, TroubleTyped, AlwaysAgreed, PTL DEF Spec

\* executeTurn of a run waits for the runtime exactly while the worker has that run's turn.
THEOREM WorkerAndExecutionsAgree == Spec => []WorkerRunsWhatIsExecuted
  <1>1. Agreed => WorkerRunsWhatIsExecuted
    BY DEF Agreed, WorkerAgrees
  <1>. QED BY <1>1, AlwaysAgreed, PTL

\* A prompt is sent at most once, whatever is cancelled, lost or retried, and what was sent is in
\* the record and in the ledger of requests.
THEOREM SentOnceAndRecorded == Spec => []DispatchedOnceOnRecord
  BY AlwaysAgreed, PTL DEF Agreed

\* A request that is retried, also after a crash, gets the run it was given before.
THEOREM RetriesAgree == Spec => []AnswersAgree
  <1>1. Agreed => AnswersAgree
    BY DEF Agreed, AnswersKept, AnswersAgree
  <1>. QED BY <1>1, AlwaysAgreed, PTL

\* Only Dispatch sends.
LEMMA OnlyDispatchSends ==
  ASSUME [Next]_vars
  PROVE  dispatches' = dispatches \/ \E r \in Runs : Dispatch(r)
  <1>. USE DEF history
  <1>1. ASSUME NEW q \in Requests, Duplicate(q) \/ Submit(q) \/ Refused(q)
        PROVE  dispatches' = dispatches
    BY <1>1 DEF Duplicate, Submit, Accept, Refused
  <1>2. SubmitStep => dispatches' = dispatches
    BY DEF SubmitStep, CreateTask, CompleteStart, ReserveFollowup, AlreadyReserved, QueueFollowup,
           CompleteFollowup, RecordThrows, LedgerThrows
  <1>3. ASSUME NEW r \in Runs, ExecStep(r) PROVE dispatches' = dispatches
    BY <1>3 DEF ExecStep, LoadTurn, PrepareFails, CompileContext, CheckCancelled, TurnStarting,
       PrepareThrows, RunTurn, Decide, Inspect, CommitVerdict, SettleThrows
  <1>4. ASSUME NEW r \in Runs, WorkerStep(r) \/ OtherEvent(r)
        PROVE  dispatches' = dispatches \/ Dispatch(r)
    BY <1>4 DEF WorkerStep, SessionReady, TurnStarted, TurnCompleted, EventThrows, WorkerFails,
       StartupCancelled, WorkerLost, OtherEvent
  <1>5. ASSUME NEW r \in Runs, CancelCheck(r) \/ CancelStep(r) PROVE dispatches' = dispatches
    BY <1>5 DEF CancelCheck, CancelStep, InterruptRefused, InterruptAccepted, ReserveInterrupt, Signal,
       Kill, NoProcess, InspectVictim, SettleVictim, CompleteInterrupt, CancelThrows
  <1>6. IdleExit \/ Shutdown \/ Drain \/ Halt \/ Crash \/ Boot \/ UNCHANGED vars
           => dispatches' = dispatches
    BY DEF IdleExit, Shutdown, Drain, Halt, Crash, MemoryLost, Boot, vars
  <1>. QED BY <1>1, <1>2, <1>3, <1>4, <1>5, <1>6 DEF Next

\* What is sent was accepted by this process of the host: nothing is replayed after a restart.
THEOREM NothingIsReplayed == Spec => NeverReplayedAfterRestart
  <1>1. Agreed /\ [Next]_vars =>
           [\A r \in Runs : dispatches'[r] > dispatches[r] => acceptedIn[r] = crashes]_vars
    <2>. SUFFICES ASSUME Agreed, [Next]_vars, NEW r \in Runs, dispatches'[r] > dispatches[r]
                  PROVE  acceptedIn[r] = crashes
      OBVIOUS
    <2>1. dispatches \in [Runs -> Nat]
      BY DEF Agreed, Typed, StoryType
    <2>2. PICK s \in Runs : Dispatch(s)
      BY <2>1, OnlyDispatchSends
    <2>3. s = r
      BY <2>1, <2>2 DEF Dispatch
    <2>. QED BY <2>2, <2>3
             DEF Dispatch, At, Agreed, WorkerAgrees, WorkerRunsWhatIsExecuted, ExecAgrees
  <1>. QED BY <1>1, AlwaysAgreed, PTL DEF Spec, NeverReplayedAfterRestart

\* Without a call of the store that throws readers see the record, no turn is left behind and no
\* settlement is tried twice: the exceptions of the theorems below are the work of such calls.
ExceptionsNeedAFault == faults = 0 => abandoned = {} /\ disputed = {} /\ shown = Record

LEMMA StepKeepsExceptions ==
  ASSUME TroubleType, ExceptionsNeedAFault, [Next]_vars PROVE ExceptionsNeedAFault'
  <1>. SUFFICES ASSUME faults' = 0
       PROVE  abandoned' = {} /\ disputed' = {} /\ shown' = Record'
    BY DEF ExceptionsNeedAFault
  <1>0. ~Fault
    BY DEF Fault, TroubleType
  <1>1. /\ \A transition \in BOOLEAN : ~Throws(transition)
        /\ ~RecordThrows /\ ~LedgerThrows
        /\ \A r \in Runs : ~PrepareThrows(r) /\ ~SettleThrows(r) /\ ~EventThrows(r) /\ ~CancelThrows(r)
    BY <1>0 DEF Throws, RecordThrows, LedgerThrows, PrepareThrows, SettleThrows, ReceiptThrows,
                EventThrows, CancelThrows
  <1>2. ASSUME faults = 0, UNCHANGED <<abandoned, disputed>>,
               InPlace \/ UNCHANGED <<task, ledger, cancelLedger, shown>>
        PROVE  abandoned' = {} /\ disputed' = {} /\ shown' = Record'
    BY <1>2 DEF ExceptionsNeedAFault, InPlace, Record, task
  <1>. USE DEF trouble, history, durable
  <1>3. ASSUME NEW q \in Requests, Duplicate(q) \/ Submit(q) \/ Refused(q)
        PROVE  abandoned' = {} /\ disputed' = {} /\ shown' = Record'
    BY <1>2, <1>3 DEF Duplicate, Submit, Refused, Accept
  <1>4. ASSUME SubmitStep PROVE abandoned' = {} /\ disputed' = {} /\ shown' = Record'
    BY <1>1, <1>2, <1>4 DEF SubmitStep, CreateTask, CompleteStart, ReserveFollowup, AlreadyReserved,
       QueueFollowup, CompleteFollowup
  <1>5. ASSUME NEW r \in Runs, Inspect(r)
        PROVE  abandoned' = {} /\ disputed' = {} /\ shown' = Record'
    <2>1. UNCHANGED <<task, ledger, cancelLedger, shown, faults, disputed>>
      BY <1>5 DEF Inspect
    <2>2. run[r] \notin LiveRun \/ shown.run[r] \notin TerminalRun
      BY <2>1, DisjointStatuses DEF ExceptionsNeedAFault, Record
    <2>3. UNCHANGED abandoned
      BY <1>5, <2>2 DEF Inspect, LeftAlone
    <2>. QED BY <1>2, <2>1, <2>3
  <1>6. ASSUME NEW r \in Runs, ExecStep(r), ~Inspect(r)
        PROVE  abandoned' = {} /\ disputed' = {} /\ shown' = Record'
    BY <1>1, <1>2, <1>6 DEF ExecStep, LoadTurn, PrepareFails, CompileContext, CheckCancelled,
       TurnStarting, RunTurn, Decide, CommitVerdict
  <1>7. ASSUME NEW r \in Runs, WorkerStep(r) \/ OtherEvent(r)
        PROVE  abandoned' = {} /\ disputed' = {} /\ shown' = Record'
    BY <1>1, <1>2, <1>7 DEF WorkerStep, SessionReady, Dispatch, TurnStarted, TurnCompleted,
       WorkerFails, StartupCancelled, WorkerLost, OtherEvent
  <1>8. ASSUME NEW r \in Runs, CancelCheck(r) \/ CancelStep(r)
        PROVE  abandoned' = {} /\ disputed' = {} /\ shown' = Record'
    BY <1>1, <1>2, <1>8 DEF CancelCheck, CancelStep, InterruptRefused, InterruptAccepted,
       ReserveInterrupt, Signal, Kill, NoProcess, InspectVictim, SettleVictim, CompleteInterrupt
  <1>9. ASSUME IdleExit \/ Shutdown \/ Drain \/ Halt \/ Crash \/ Boot
        PROVE  abandoned' = {} /\ disputed' = {} /\ shown' = Record'
    BY <1>2, <1>9 DEF IdleExit, Shutdown, Drain, Halt, Crash, MemoryLost, Boot
  <1>10. ASSUME UNCHANGED vars PROVE abandoned' = {} /\ disputed' = {} /\ shown' = Record'
    BY <1>2, <1>10 DEF vars
  <1>. QED BY <1>3, <1>4, <1>5, <1>6, <1>7, <1>8, <1>9, <1>10 DEF Next

\* What a reader sees lags behind the record, a turn is left behind, or a settlement is tried
\* twice, only after a call of the store has thrown.
THEOREM OnlyThrowsMakeExceptions == Spec => []ExceptionsNeedAFault
  <1>1. Init => TroubleType /\ ExceptionsNeedAFault
    BY DEF Init, TroubleType, ExceptionsNeedAFault
  <1>. QED BY <1>1, TroubleTyped, StepKeepsExceptions, AlwaysAgreed, PTL DEF Spec

\* While the host is up, a turn it accepted that the record or its readers have as live has an
\* execution, and so has a task that claims to be active, unless a call of the store that threw
\* has left that turn behind.
THEOREM LiveTurnsRun == Spec => []LiveTurnIsExecuted
  <1>1. LiveAgrees => LiveTurnIsExecuted
    BY DEF LiveAgrees, LiveIn, Attends, Attended, LiveTurnIsExecuted
  <1>. QED BY <1>1, AlwaysLive, PTL

\* Where nobody cancels, only the latest turn is live, and exactly while the task is active, but
\* for turns that a call of the store that threw has left behind.
THEOREM StatusAgreesWithTurns == ASSUME Cancellable = {} PROVE Spec => []StatusMatchesTurns
  BY AlwaysQuiet, PTL DEF QuietAgrees

\* A turn that is settled is never changed again unless its interruption is recorded or its
\* settlement threw, whatever else of the task is cancelled, crashes, throws or is started then.
THEOREM SettledIsFinal == Spec => TerminalIsFinal
  <1>1. Agreed /\ ShownAgrees /\ LiveAgrees /\ SettledAgrees /\ [Next]_vars =>
           [\A r \in Runs \ (Interrupted \cup disputed) : run[r] \in TerminalRun => run'[r] = run[r]]_vars
    BY StepSettlesAll DEF StepSettles, Stays, Undisturbed
  <1>. QED BY <1>1, AlwaysAgreed, AlwaysLive, AlwaysSettled, PTL DEF Spec, TerminalIsFinal

\* The receipt of a turn its execution settled says what the record says, unless an interruption
\* of that turn is recorded or its settlement threw.
THEOREM ReceiptsSayTheSame == Spec => []ReceiptMatchesRun
  <1>1. SettledAgrees => ReceiptMatchesRun
    BY DEF SettledAgrees, Undisturbed, Consistent, ReceiptMatchesRun
  <1>. QED BY <1>1, AlwaysSettled, PTL

\* Where nobody cancels, all turns of the task that are sent go to one thread.
THEOREM TasksHaveOneThread == ASSUME Cancellable = {} PROVE Spec => []OneThreadPerTask
  <1>1. QuietAgrees => OneThreadPerTask
    BY DEF QuietAgrees, SessionsAgree, OneThreadPerTask
  <1>. QED BY <1>1, AlwaysQuiet, PTL

\* An execution goes through executeTurn once: each of its own steps and of its worker's brings
\* it nearer to its end, and nobody's takes it back: not the settlement, cancellation or
\* follow-up of another turn, the stop, a second answer of the runtime, or a call that throws: the
\* catch clause settles a turn once more and no more.
ExecutionsEnd ==
    [][\A r \in Runs : (ExecStep(r) \/ WorkerStep(r) => Nearer(r)) /\ NotBack(r)]_vars
THEOREM ExecutionsComeToAnEnd == Spec => ExecutionsEnd /\ [](\A r \in Runs : ExecLeft(r) \in 0..15)
  <1>1. Agreed /\ [Next]_vars =>
           [\A r \in Runs : (ExecStep(r) \/ WorkerStep(r) => Nearer(r)) /\ NotBack(r)]_vars
    <2>. SUFFICES ASSUME Agreed, [Next]_vars, NEW r \in Runs
                  PROVE  (ExecStep(r) \/ WorkerStep(r) => Nearer(r)) /\ NotBack(r)
      OBVIOUS
    <2>1. CASE ExecStep(r) \/ WorkerStep(r)
      BY <2>1, ExecStepNearer, WorkerStepNearer, LeftType DEF Nearer, NotBack, ExecLeft
    <2>2. ASSUME ~(ExecStep(r) \/ WorkerStep(r)) PROVE NotBack(r)
      <3>1. ASSUME NEW s \in Runs, ExecStep(s) \/ WorkerStep(s) PROVE NotBack(r)
        BY <2>2, <3>1, ExecStepNearer, WorkerStepNearer
      <3>. QED BY <3>1, OtherStepsNotBack DEF Next
    <2>. QED BY <2>1, <2>2
  <1>2. \A r \in Runs : ExecLeft(r) \in 0..15
    BY LeftType DEF ExecLeft
  <1>. QED BY <1>1, <1>2, AlwaysAgreed, PTL DEF Spec, ExecutionsEnd

\* A live turn was accepted in this life of the host, or is abandoned: a boot leaves no other.
LiveIsRecent ==
    host # "down" =>
        \A r \in Runs : run[r] \in LiveRun /\ r \notin abandoned => acceptedIn[r] = crashes

LEMMA StepKeepsRecent ==
  ASSUME Agreed, LiveAgrees, QuietAgrees', LiveIsRecent, [Next]_vars
  PROVE  LiveIsRecent'
  <1>0. abandoned \subseteq abandoned'
    BY TroubleStays
  <1>1. ASSUME GoOn, RecordMoves PROVE LiveIsRecent'
    BY <1>0, <1>1, RunType, DisjointStatuses DEF LiveIsRecent, GoOn, RecordMoves, Agreed
  <1>2. ASSUME NEW q \in Requests, Duplicate(q) \/ Submit(q) \/ Refused(q) PROVE LiveIsRecent'
    BY <1>1, <1>2, AskGoesOn
  <1>3. CASE SubmitStep
    BY <1>1, <1>3, SubmitStepGoesOn
  <1>4. ASSUME NEW r \in Runs,
               ExecStep(r) \/ WorkerStep(r) \/ OtherEvent(r) \/ CancelCheck(r) \/ CancelStep(r)
        PROVE  LiveIsRecent'
    BY <1>1, <1>4, ExecStepGoesOn, WorkerStepGoesOn, CancelStepGoesOn
  <1>5. CASE IdleExit \/ Shutdown \/ Drain \/ UNCHANGED vars
    BY <1>0, <1>5 DEF IdleExit, Shutdown, Drain, vars, durable, task, history, LiveIsRecent
  <1>6. CASE Halt \/ Crash
    BY <1>6 DEF Halt, Crash, MemoryLost, LiveIsRecent
  <1>7. CASE Boot
    <2>1. status' \notin ActiveStatuses /\ shown' = Record'
      BY <1>7 DEF Boot, Parked, Noted, InPlace, task, ActiveStatuses
    <2>2. NoneLive'
      BY <2>1 DEF QuietAgrees, OnlyLastRuns, Record
    <2>. QED BY <2>2 DEF NoneLive, LiveIsRecent
  <1>. QED BY <1>2, <1>3, <1>4, <1>5, <1>6, <1>7 DEF Next

\* Where nobody cancels, every live turn of the record has an execution while the host is up, or
\* a call of the store that threw has left it behind, whatever life of the host accepted it: a
\* boot leaves none, and an execution ends only with its turn settled or abandoned.
EveryLiveTurnIsExecuted ==
    host # "down" => \A r \in Runs : run[r] \in LiveRun => Executing(r) \/ r \in abandoned
THEOREM EveryLiveTurnRuns == ASSUME Cancellable = {} PROVE Spec => []EveryLiveTurnIsExecuted
  <1>1. Init => LiveIsRecent
    BY DEF Init, LiveIsRecent, LiveRun
  <1>2. Agreed /\ LiveAgrees /\ QuietAgrees' /\ LiveIsRecent /\ [Next]_vars => LiveIsRecent'
    BY StepKeepsRecent
  <1>3. LiveAgrees /\ LiveIsRecent => EveryLiveTurnIsExecuted
    BY DEF LiveAgrees, LiveIn, Attends, LiveIsRecent, EveryLiveTurnIsExecuted, Record
  <1>. QED BY <1>1, <1>2, <1>3, AlwaysAgreed, AlwaysLive, AlwaysQuiet, PTL DEF Spec
=============================================================================
