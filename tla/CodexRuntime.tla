---------------------------- MODULE CodexRuntime ----------------------------
(***************************************************************************)
(* The Codex workers of one task (src/src/codex-runtime.ts): the manager's *)
(* entry for the task, CodexWorker with the turn it runs, and the          *)
(* CodexAppServer client with its child process and its queue of           *)
(* notifications.  TaskOrchestrator has these as one step per worker       *)
(* event; here a handler is a step per await.                              *)
(*                                                                         *)
(* Calls of runTurn may overlap: after a cancellation two executions of a  *)
(* task can be under way (TaskOrchestrator, SettleVictim).  Codex may      *)
(* answer turn/start before or after the turn's notifications, or never,   *)
(* and its process may end at any time.                                    *)
(*                                                                         *)
(* Abstracted: what a request carries and why one fails; the thread, which *)
(* TaskOrchestrator has; usage, messages and tool events.  Killing a       *)
(* process tree succeeds.  A worker is named after the call that made it.  *)
(* Bounds: a run is called once; MaxStops cancellations, questions of      *)
(* Codex that stop its worker, and stops of the manager.                   *)
(***************************************************************************)
EXTENDS Naturals, Sequences, FiniteSets

CONSTANTS Runs, MaxStops, None

ASSUME ConstantAssumption == None \notin Runs /\ MaxStops \in Nat

VARIABLES
    call,      \* runTurn of each run
    start,     \* its startTurn, and the ActiveTurn it holds
    current,   \* workers.get(taskId)
    worker,    \* CodexWorker
    server,    \* its CodexAppServer
    queue,     \* what Codex wrote and receive has not taken
    handling,  \* the notification receive is suspended in
    interrupt, \* the workers that wait for turn/interrupt
    stop,      \* shutdown of the manager
    \* external
    turn,      \* each turn in the process it was sent to
    \* history
    stops,     \* how often something stopped a worker
    raced,     \* two calls have waited for one dead worker
    caught     \* the manager was stopped while a call waited

inbox == <<queue, handling>>
history == <<stops, raced, caught>>
vars == <<call, start, current, worker, server, inbox, interrupt, stop, turn, history>>

NoCall == [pc |-> "idle", worker |-> None, by |-> None]
NoStart == [pc |-> "none", turn |-> None]
Fresh == [closed |-> FALSE, interrupted |-> FALSE, active |-> None, id |-> None,
          dispatched |-> FALSE]
Dead == [Fresh EXCEPT !.closed = TRUE]
NewServer == [process |-> "none", closed |-> FALSE, lost |-> FALSE, closing |-> "none"]
Silent == [kind |-> None, run |-> None, turn |-> None]

Init ==
    /\ call = [r \in Runs |-> NoCall]
    /\ start = [r \in Runs |-> NoStart]
    /\ current = None
    /\ worker = [w \in Runs |-> Fresh]
    /\ server = [w \in Runs |-> NewServer]
    /\ queue = [w \in Runs |-> <<>>]
    /\ handling = [w \in Runs |-> Silent]
    /\ interrupt = {}
    /\ stop = [pc |-> "running", worker |-> None]
    /\ turn = [r \in Runs |-> "unsent"]
    /\ stops = 0 /\ raced = FALSE /\ caught = FALSE

-----------------------------------------------------------------------------
(* Parts of several handlers *)

\* A promise of runTurn settles; only the first time counts.
Settled(r, by) == [call EXCEPT ![r].pc = "settled", ![r].by = by]

\* A worker without an active turn
Idle(w) == [Fresh EXCEPT !.closed = worker[w].closed]

\* CodexWorker.fail: the active turn, if any, is rejected.
Rejected(w) == IF worker[w].active = None THEN call ELSE Settled(worker[w].active, None)

\* terminateOwnedProcessTree
Killed(s) == [s EXCEPT !.process = IF @ = "live" THEN "dead" ELSE @]

\* CodexAppServer.fail: once; exited is called when the queue is drained.
Failed(s) == IF s.closed THEN s ELSE [Killed(s) EXCEPT !.closed = TRUE, !.lost = TRUE]

\* CodexAppServer.shutdown: once, up to its first await; without a child it fails at once.
Closing(s) ==
    IF s.closing # "none" THEN s
    ELSE [(IF s.process = "none" THEN Failed(s) ELSE Killed(s)) EXCEPT !.closing = "begun"]

\* fail in a worker that is closed
WorkerEnds(w) == call' = Rejected(w) /\ worker' = [worker EXCEPT ![w] = Dead]

\* fail and shutdown in one tick
StopWorker(w) == WorkerEnds(w) /\ server' = [server EXCEPT ![w] = Closing(@)]

-----------------------------------------------------------------------------
(* CodexRuntimeManager.runTurn, CodexWorker.run *)

\* server.start(), which opens the process once.
Started(w) == IF server[w].closed THEN "throws"
              ELSE IF server[w].process = "none" THEN "open" ELSE "startup"

MutBusyIgnored(w, r) ==
    /\ worker' = [worker EXCEPT ![w] = [Idle(w) EXCEPT !.active = r]]
    /\ call' = [call EXCEPT ![r].pc = "running", ![r].worker = w]
    /\ start' = [start EXCEPT ![r].pc = Started(w)]

Run(w, r) ==
    IF worker[w].active # None
    THEN call' = Settled(r, None) /\ UNCHANGED <<worker, start>>
    ELSE /\ worker' = [worker EXCEPT ![w] = [Idle(w) EXCEPT !.active = r]]
         /\ call' = [call EXCEPT ![r].pc = "running", ![r].worker = w]
         /\ start' = [start EXCEPT ![r].pc = Started(w)]

\* A worker that is closed is shut down first.
Call(r) ==
    /\ call[r].pc = "idle"
    /\ IF stop.pc # "running"
       THEN call' = Settled(r, None) /\ UNCHANGED <<current, worker, server, start, raced>>
       ELSE IF current = None
       THEN current' = r /\ Run(r, r) /\ UNCHANGED <<server, raced>>
       ELSE IF ~worker[current].closed
       THEN Run(current, r) /\ UNCHANGED <<current, server, raced>>
       ELSE /\ call' = [call EXCEPT ![r].pc = "waiting", ![r].worker = current]
            /\ server' = [server EXCEPT ![current] = Closing(@)]
            /\ raced' = (raced \/ \E other \in Runs : call[other].pc = "waiting")
            /\ UNCHANGED <<current, worker, start>>
    /\ UNCHANGED <<inbox, interrupt, stop, turn, stops, caught>>

\* The dead worker is gone: whatever the map holds now is replaced.
Replace(r) ==
    /\ call[r].pc = "waiting"
    /\ server[call[r].worker].closing = "done"
    /\ current' = r
    /\ Run(r, r)
    /\ UNCHANGED <<server, inbox, interrupt, stop, turn, history>>

MutDeadlineOnly(r) ==
    \E w \in Runs :
        /\ worker[w].active = r
        /\ call' = Rejected(w)
        /\ worker' = [worker EXCEPT ![w] = Idle(w)]
        /\ UNCHANGED <<server, start, current, inbox, interrupt, stop, turn, history>>
\* The timer of run
Deadline(r) ==
    \E w \in Runs :
        /\ worker[w].active = r
        /\ StopWorker(w)
        /\ UNCHANGED <<start, current, inbox, interrupt, stop, turn, history>>

-----------------------------------------------------------------------------
(* CodexWorker.startTurn *)

Of(r) == call[r].worker
At(r, pc) == start[r].pc = pc
Goto(r, pc) == start' = [start EXCEPT ![r].pc = pc]
Leave(r, pc) == start' = [start EXCEPT ![r] = [pc |-> pc, turn |-> None]]

MutSpawnLate(r) ==
    /\ At(r, "open")
    /\ Goto(r, "startup")
    /\ server' = [server EXCEPT ![Of(r)].process = "live"]
    /\ UNCHANGED <<call, current, worker, inbox, interrupt, stop, turn, history>>

\* CodexAppServer.open after mkdir: "closed during startup", or the process is spawned.
Spawn(r) ==
    /\ At(r, "open")
    /\ IF server[Of(r)].closed
       THEN Leave(r, "throws") /\ UNCHANGED server
       ELSE Goto(r, "startup") /\ server' = [server EXCEPT ![Of(r)].process = "live"]
    /\ UNCHANGED <<call, current, worker, inbox, interrupt, stop, turn, history>>

\* initialize, account/read, model/list, thread/start or thread/resume and the flush are
\* done; session/ready is on its way to the record.
Ready(r) ==
    LET w == worker[Of(r)] IN
    /\ At(r, "startup")
    /\ ~server[Of(r)].closed
    /\ IF w.active = None \/ w.interrupted \/ w.closed
       THEN Leave(r, "throws")
       ELSE start' = [start EXCEPT ![r] = [pc |-> "ready", turn |-> w.active]]
    /\ UNCHANGED <<call, current, worker, server, inbox, interrupt, stop, turn, history>>

\* The event is recorded; turn/start is written, perhaps to a process that is dying.
Send(r) ==
    LET s == server[Of(r)] IN
    /\ At(r, "ready")
    /\ IF s.closed THEN Leave(r, "throws") ELSE Goto(r, "sent")
    /\ worker' = [worker EXCEPT ![Of(r)].dispatched = @ \/ worker[Of(r)].active = start[r].turn]
    /\ turn' = IF s.process = "live" THEN [turn EXCEPT ![r] = "sent"] ELSE turn
    /\ UNCHANGED <<call, current, server, inbox, interrupt, stop, history>>

CanAnswer(r) == At(r, "sent") /\ turn[r] # "unsent" /\ ~server[Of(r)].closed

MutNamesAny(r) ==
    /\ CanAnswer(r)
    /\ worker' = [worker EXCEPT ![Of(r)].id = r]
    /\ Leave(r, "answered")
    /\ UNCHANGED <<call, current, server, inbox, interrupt, stop, turn, history>>

\* turn/start is answered: the turn takes its id from the answer, unless turn/started
\* brought it before or the turn is over; the event is on its way to the record.
Answered(r) ==
    LET w == worker[Of(r)] IN
    /\ CanAnswer(r)
    /\ IF w.active = start[r].turn /\ w.id = None
       THEN Leave(r, "answered") /\ worker' = [worker EXCEPT ![Of(r)].id = r]
       ELSE Leave(r, "done") /\ UNCHANGED worker
    /\ UNCHANGED <<call, current, server, inbox, interrupt, stop, turn, history>>

Recorded(r) ==
    /\ At(r, "answered")
    /\ Leave(r, "done")
    /\ UNCHANGED <<call, current, worker, server, inbox, interrupt, stop, turn, history>>

\* A request is refused, not answered in time or lost with the process; a readback does
\* not match; an event cannot be recorded.
Throws(r) ==
    /\ start[r].pc \in {"open", "startup", "ready", "sent", "answered"}
    /\ Leave(r, "throws")
    /\ UNCHANGED <<call, current, worker, server, inbox, interrupt, stop, turn, history>>

MutCatchOnly(r) ==
    /\ At(r, "throws")
    /\ Leave(r, "done")
    /\ call' = Rejected(Of(r))
    /\ worker' = [worker EXCEPT ![Of(r)] = Idle(Of(r))]
    /\ UNCHANGED <<server, current, inbox, interrupt, stop, turn, history>>

\* startTurn(...).catch: whichever turn the worker runs now is rejected.
Catch(r) ==
    /\ At(r, "throws")
    /\ Leave(r, "done")
    /\ StopWorker(Of(r))
    /\ UNCHANGED <<current, inbox, interrupt, stop, turn, history>>

-----------------------------------------------------------------------------
(* CodexWorker.interrupt and receive *)

\* interrupt: a turn that has no id yet is stopped at once, else turn/interrupt is awaited.
Interrupting(w) ==
    IF worker[w].active = None THEN UNCHANGED <<interrupt, call, worker, server>>
    ELSE IF worker[w].id = None THEN StopWorker(w) /\ UNCHANGED interrupt
    ELSE /\ interrupt' = interrupt \cup {w}
         /\ worker' = [worker EXCEPT ![w].interrupted = TRUE]
         /\ UNCHANGED <<call, server>>

\* CodexRuntimeManager.interrupt
Cancel ==
    /\ stops < MaxStops
    /\ current # None /\ worker[current].active # None
    /\ Interrupting(current)
    /\ stops' = stops + 1
    /\ UNCHANGED <<start, current, inbox, stop, turn, raced, caught>>

\* turn/interrupt was answered or not: the worker is stopped, with the turn it runs now.
InterruptStops(w) ==
    /\ w \in interrupt
    /\ interrupt' = interrupt \ {w}
    /\ StopWorker(w)
    /\ UNCHANGED <<start, current, inbox, stop, turn, history>>

MutIgnored(w, m) == m.kind # "question" /\ ~worker[w].dispatched
\* Nothing is done when no turn is active or, but for a question, before it is dispatched.
Ignored(w, m) ==
    \/ worker[w].active = None
    \/ m.kind # "question" /\ ~worker[w].dispatched
    \/ m.kind = "started" /\ worker[w].id = m.run

\* The next notification, up to the record of its event.  The completion of a turn that is
\* being interrupted stops the process.
Receive(w) ==
    LET m == Head(queue[w]) IN
    /\ queue[w] # <<>>
    /\ handling[w] = Silent
    /\ queue' = [queue EXCEPT ![w] = Tail(@)]
    /\ IF Ignored(w, m)
       THEN UNCHANGED <<worker, server, handling>>
       ELSE /\ handling' = [handling EXCEPT ![w] = [kind |-> m.kind, run |-> m.run,
                                                   turn |-> worker[w].active]]
            /\ worker' = IF m.kind = "started" THEN [worker EXCEPT ![w].id = m.run] ELSE worker
            /\ server' = IF m.kind = "completed" /\ worker[w].interrupted
                         THEN [server EXCEPT ![w] = Killed(@)] ELSE server
    /\ UNCHANGED <<call, start, current, interrupt, stop, turn, history>>

\* this.active = null and active.resolve(...)
Resolve(w) ==
    LET m == handling[w] IN
    /\ worker' = [worker EXCEPT ![w] = Idle(w)]
    /\ call' = IF call[m.turn].pc = "running" THEN Settled(m.turn, m.run) ELSE call
    /\ UNCHANGED <<server, interrupt>>

\* The event is recorded: a turn that is completed is resolved; a question that asks for
\* more authority stops the worker, without waiting for it.
Received(w) ==
    LET m == handling[w] IN
    /\ m # Silent
    /\ handling' = [handling EXCEPT ![w] = Silent]
    /\ \/ m.kind = "started" /\ UNCHANGED <<call, worker, server, interrupt>>
       \/ m.kind = "question" /\ Interrupting(w)
       \/ m.kind = "completed" /\ Resolve(w)
    /\ UNCHANGED <<start, current, queue, stop, turn, history>>

\* The event cannot be recorded: the client fails.
ReceiveFails(w) ==
    /\ handling[w] # Silent
    /\ handling' = [handling EXCEPT ![w] = Silent]
    /\ server' = [server EXCEPT ![w] = Failed(@)]
    /\ UNCHANGED <<call, start, current, worker, queue, interrupt, stop, turn, history>>

-----------------------------------------------------------------------------
(* CodexAppServer: loss and shutdown *)

\* The process exits, by itself or killed; or it writes what is not JSON.
Exit(w) ==
    /\ server[w].process # "none"
    /\ ~server[w].closed
    /\ server' = [server EXCEPT ![w] = Failed(@)]
    /\ UNCHANGED <<call, start, current, worker, inbox, interrupt, stop, turn, history>>

\* What was received before is handled: the worker is told of the loss.
Exited(w) ==
    /\ server[w].lost
    /\ handling[w] = Silent
    /\ server' = [server EXCEPT ![w].lost = FALSE]
    /\ WorkerEnds(w)
    /\ UNCHANGED <<start, current, inbox, interrupt, stop, turn, history>>

MutWaitsForExit(w) == Exit(w) /\ server[w].closing = "begun" /\ server[w].process = "live"
\* close: the process has exited or a second has passed, and fail is called.
CloseFails(w) ==
    /\ server[w].closing = "begun"
    /\ ~server[w].closed
    /\ server' = [server EXCEPT ![w] = Failed(@)]
    /\ UNCHANGED <<call, start, current, worker, inbox, interrupt, stop, turn, history>>

\* close: the queue is drained; CodexWorker.shutdown rejects what is left.
CloseEnds(w) ==
    /\ server[w].closing = "begun"
    /\ server[w].closed /\ ~server[w].lost
    /\ handling[w] = Silent
    /\ server' = [server EXCEPT ![w].closing = "done"]
    /\ WorkerEnds(w)
    /\ UNCHANGED <<start, current, inbox, interrupt, stop, turn, history>>

\* CodexRuntimeManager.shutdown
Stop ==
    /\ stops < MaxStops
    /\ stop.pc = "running"
    /\ stop' = [pc |-> "stopping", worker |-> current]
    /\ IF current = None THEN UNCHANGED <<worker, server>>
       ELSE /\ worker' = [worker EXCEPT ![current].closed = TRUE]
            /\ server' = [server EXCEPT ![current] = Closing(@)]
    /\ stops' = stops + 1
    /\ caught' = \E r \in Runs : call[r].pc = "waiting"
    /\ UNCHANGED <<call, start, current, inbox, interrupt, turn, raced>>

StopEnds ==
    /\ stop.pc = "stopping"
    /\ stop.worker # None => server[stop.worker].closing = "done"
    /\ stop' = [pc |-> "stopped", worker |-> None]
    /\ current' = None
    /\ UNCHANGED <<call, start, worker, server, inbox, interrupt, turn, history>>

-----------------------------------------------------------------------------
(* Codex: a turn is started once and completed once, with questions in between. *)

Writes(r, kind, before, after) ==
    /\ turn[r] \in before
    /\ server[Of(r)].process = "live"
    /\ turn' = [turn EXCEPT ![r] = after]
    /\ queue' = [queue EXCEPT ![Of(r)] = Append(@, [kind |-> kind, run |-> r])]
    /\ UNCHANGED <<call, start, current, worker, server, handling, interrupt, stop, raced, caught>>

TurnStarted(r) == Writes(r, "started", {"sent"}, "started") /\ UNCHANGED stops
TurnCompleted(r) == Writes(r, "completed", {"started"}, "over") /\ UNCHANGED stops
Question(r) ==
    /\ stops < MaxStops
    /\ Writes(r, "question", {"started"}, "started")
    /\ stops' = stops + 1

-----------------------------------------------------------------------------

StartStep(r) ==
    \/ Spawn(r) \/ Ready(r) \/ Send(r) \/ Answered(r) \/ Recorded(r)
    \/ Throws(r) \/ Catch(r)
ReceiveStep(w) == Receive(w) \/ Received(w) \/ ReceiveFails(w) \/ Exited(w)
CloseStep(w) == CloseFails(w) \/ CloseEnds(w)

HostStep ==
    \/ \E r \in Runs : Replace(r) \/ Deadline(r) \/ StartStep(r)
    \/ \E w \in Runs : ReceiveStep(w) \/ InterruptStops(w) \/ CloseStep(w)
    \/ StopEnds

Next ==
    \/ HostStep
    \/ \E r \in Runs : Call(r)
    \/ Cancel \/ Stop
    \/ \E w \in Runs : Exit(w)
    \/ \E r \in Runs : TurnStarted(r) \/ TurnCompleted(r) \/ Question(r)

Spec == Init /\ [][Next]_vars

\* The event loop runs while something the host awaits has settled or a timer is due;
\* Codex and the callers owe nothing.
FairSpec == Spec /\ WF_vars(HostStep)

-----------------------------------------------------------------------------
(* Properties *)

Maybe(S) == S \cup {None}
Kinds == {"started", "question", "completed"}

\* The variables have the types their declarations in the classes give them.
TypeOK ==
    /\ call \in [Runs -> [pc : {"idle", "waiting", "running", "settled"}, worker : Maybe(Runs),
                          by : Maybe(Runs)]]
    /\ start \in [Runs -> [pc : {"none", "open", "startup", "ready", "sent", "answered",
                                 "throws", "done"}, turn : Maybe(Runs)]]
    /\ current \in Maybe(Runs)
    /\ worker \in [Runs -> [closed : BOOLEAN, interrupted : BOOLEAN, active : Maybe(Runs),
                            id : Maybe(Runs), dispatched : BOOLEAN]]
    /\ server \in [Runs -> [process : {"none", "live", "dead"}, closed : BOOLEAN,
                            lost : BOOLEAN, closing : {"none", "begun", "done"}]]
    /\ queue \in [Runs -> Seq([kind : Kinds, run : Runs])]
    /\ handling \in [Runs -> {Silent} \cup [kind : Kinds, run : Runs, turn : Runs]]
    /\ interrupt \subseteq Runs
    /\ stop \in [pc : {"running", "stopping", "stopped"}, worker : Maybe(Runs)]
    /\ turn \in [Runs -> {"unsent", "sent", "started", "over"}]
    /\ stops \in 0..MaxStops /\ raced \in BOOLEAN /\ caught \in BOOLEAN

\* A call of runTurn is unsettled in a worker exactly while it is that worker's active
\* turn: no completion, failure or further call makes a worker forget a promise.
WorkerOwnsCall ==
    \A r \in Runs : call[r].pc = "running" <=> \E w \in Runs : worker[w].active = r

\* A turn is only ever given its own id and resolved with its own result, although answers,
\* notifications and failures of the turn before may still be on their way.
ResultIsOwn ==
    /\ \A r \in Runs : call[r].by \in {None, r}
    /\ \A w \in Runs : worker[w].id \in {None, worker[w].active}

\* A prompt reaches a process only while its call is unsettled: a turn that was
\* interrupted, timed out or stopped while session/ready was being recorded is not run.
SentWhileWanted ==
    [][\A r \in Runs : turn[r] = "unsent" /\ turn'[r] # "unsent" => call[r].pc = "running"]_vars

\* A process that was given a turn has completed it, or is killed, before it is given another.
OneTurnAtATime ==
    \A r, s \in Runs :
        /\ {turn[r], turn[s]} \subseteq {"sent", "started"}
        /\ Of(r) = Of(s) /\ server[Of(r)].process = "live"
        => r = s

\* A task has one Codex process, the one the manager can interrupt and stop, and none after
\* the stop; unless two calls waited for one dead worker, or one did when the stop came.
ProcessIsCurrent ==
    raced \/ caught \/ \A w \in Runs : server[w].process = "live" => w = current

\* Every call of runTurn is answered and a stop of the manager ends, whatever becomes of the
\* workers: a worker never waits for itself.
Waiting == stop.pc = "stopping" \/ \E r \in Runs : call[r].pc \in {"waiting", "running"}
EveryCallEnds == Waiting ~> ~Waiting

\* What the manager's callers and Codex see: a call that waits for a dead worker to go is pending
\* as well; one that was resolved has the run whose result it was given.
PromiseOf(r) ==
    CASE call[r].pc = "idle" -> "none"
      [] call[r].pc \in {"waiting", "running"} -> "pending"
      [] call[r].pc = "settled" /\ call[r].by = None -> "broken"
      [] call[r].pc = "settled" /\ call[r].by = r -> "kept"
      [] OTHER -> "misled"
PromptOf(r) == IF turn[r] = "started" THEN "sent" ELSE turn[r]
Contract == INSTANCE WorkerRuntime WITH
    accepting <- stop.pc = "running",
    promise <- [r \in Runs |-> PromiseOf(r)],
    prompt <- [r \in Runs |-> PromptOf(r)]

\* The manager and its workers are a WorkerRuntime: whatever is late, lost or stopped, a call is
\* resolved once, with its own completed turn, and sends its prompt once, while it is pending.
IsWorkerRuntime == Contract!Spec
=============================================================================
