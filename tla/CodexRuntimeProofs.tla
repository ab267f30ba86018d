------------------------- MODULE CodexRuntimeProofs -------------------------
(***************************************************************************)
(* Proofs about the Codex workers of one task, for every set of runs and   *)
(* any number of cancellations, questions and stops.                       *)
(*                                                                         *)
(* RuntimeAgrees is the inductive invariant.  Its heart: whatever refers   *)
(* to a turn -- a call, its startTurn, a notification, the turn in the     *)
(* process -- refers to the active turn of its worker, or the worker is    *)
(* closed and holds none, so that what comes late finds nothing to change. *)
(***************************************************************************)
EXTENDS CodexRuntime, SequenceTheorems, TLAPS

\* The worker named after w exists.
Made(w) == call[w].worker = w

\* A call has nothing before it has a worker; while it runs, its worker holds it.
CallAgrees(r) ==
    /\ call[r].pc = "idle" => call[r].worker = None
    /\ call[r].pc = "waiting" => call[r].worker \notin {None, r}
    /\ call[r].pc \in {"idle", "waiting"} => start[r].pc = "none" /\ turn[r] = "unsent"
    /\ start[r].pc # "none" \/ turn[r] # "unsent" \/ call[r].pc = "running"
          => call[r].worker # None
    /\ call[r].worker # None => Made(call[r].worker)
    /\ call[r].pc = "running" => worker[call[r].worker].active = r
    /\ call[r].by \in {None, r}

\* A worker that nobody made is untouched.
FreshAgrees(w) ==
    ~Made(w) => /\ worker[w] = Fresh /\ server[w] = NewServer
                /\ queue[w] = <<>> /\ handling[w] = Silent /\ w \notin interrupt

\* No process, and none will be opened.
Gone(w) == server[w].closed \/ server[w].process = "dead"

ServerAgrees(w) ==
    /\ server[w].closed => server[w].process # "live"
    /\ server[w].lost => server[w].closed
    /\ server[w].closing # "none" \/ worker[w].closed => Gone(w)

\* A worker holds a call that runs in it.
WorkerAgrees(w) ==
    /\ worker[w].active # None =>
          call[worker[w].active].pc = "running" /\ call[worker[w].active].worker = w
    /\ worker[w].id \in {None, worker[w].active}

Starting(r) == start[r].pc \in {"open", "startup", "ready"}
Ended(w) == worker[w].active = None /\ worker[w].closed
Has(w, r) == worker[w].active = r /\ worker[w].dispatched

\* Until it has sent its turn, startTurn works for the active turn, or its worker is closed.
StartAgrees(r) ==
    /\ Starting(r) =>
          /\ turn[r] = "unsent"
          /\ Ended(Of(r)) \/ (worker[Of(r)].active = r /\ ~worker[Of(r)].dispatched)
    /\ start[r].pc = "open" => server[Of(r)].process = "none"
    /\ start[r].pc \in {"ready", "sent"} => start[r].turn = r
OneStarts(r, s) == Starting(r) /\ Starting(s) /\ Of(r) = Of(s) => r = s

\* Notifications are about the active turn, unless the worker has ended; a completion is
\* the last.
Regards(w, r) == Ended(w) \/ Has(w, r)
QueueAgrees(w) ==
    \A i \in 1..Len(queue[w]) :
        /\ Regards(w, queue[w][i].run) /\ turn[queue[w][i].run] # "unsent"
        /\ queue[w][i].kind = "completed" => i = Len(queue[w]) /\ turn[queue[w][i].run] = "over"
HandlingAgrees(w) ==
    handling[w] # Silent =>
        /\ Regards(w, handling[w].turn) /\ turn[handling[w].turn] # "unsent"
        /\ handling[w].run = handling[w].turn
        /\ call[handling[w].turn].worker = w
        /\ handling[w].kind = "completed" => queue[w] = <<>> /\ turn[handling[w].run] = "over"

\* What a living process was given and has not completed is the active turn of its worker.
TurnAgrees(r) ==
    /\ turn[r] \in {"sent", "started"} /\ server[Of(r)].process = "live" => Has(Of(r), r)
    /\ turn[r] # "unsent" => server[Of(r)].process # "none"

\* The worker in the map is the only one with a process or without one yet.
CurrentAgrees ==
    \/ raced \/ caught
    \/ /\ \A w \in Runs : Made(w) /\ ~Gone(w) => w = current
       /\ \A r, s \in Runs : call[r].pc = "waiting" /\ call[s].pc = "waiting" => r = s
       /\ \A r \in Runs : call[r].pc = "waiting" =>
             call[r].worker = current /\ Gone(current) /\ stop.pc = "running"
       /\ stop.pc = "stopping" => stop.worker = current
MapAgrees ==
    /\ current # None => Made(current)
    /\ stop.worker # None => Made(stop.worker)
    /\ caught => stop.pc # "running"

AtRun(r) == CallAgrees(r) /\ StartAgrees(r) /\ TurnAgrees(r)
AtWorker(w) ==
    FreshAgrees(w) /\ ServerAgrees(w) /\ WorkerAgrees(w) /\ QueueAgrees(w) /\ HandlingAgrees(w)

RuntimeAgrees ==
    /\ TypeOK
    /\ \A r \in Runs : AtRun(r)
    /\ \A w \in Runs : AtWorker(w)
    /\ \A r, s \in Runs : OneStarts(r, s)
    /\ MapAgrees
    /\ CurrentAgrees

-----------------------------------------------------------------------------
(* Types *)

CallRecord == [pc : {"idle", "waiting", "running", "settled"}, worker : Maybe(Runs),
               by : Maybe(Runs)]
StartRecord == [pc : {"none", "open", "startup", "ready", "sent", "answered", "throws", "done"},
                turn : Maybe(Runs)]
WorkerRecord == [closed : BOOLEAN, interrupted : BOOLEAN, active : Maybe(Runs),
                 id : Maybe(Runs), dispatched : BOOLEAN]
ServerRecord == [process : {"none", "live", "dead"}, closed : BOOLEAN,
                 lost : BOOLEAN, closing : {"none", "begun", "done"}]
Message == [kind : Kinds, run : Runs]
Handled == [kind : Kinds, run : Runs, turn : Runs]
StopRecord == [pc : {"running", "stopping", "stopped"}, worker : Maybe(Runs)]

LEMMA Types ==
  ASSUME TypeOK
  PROVE  /\ call \in [Runs -> CallRecord]
         /\ start \in [Runs -> StartRecord]
         /\ current \in Maybe(Runs)
         /\ worker \in [Runs -> WorkerRecord]
         /\ server \in [Runs -> ServerRecord]
         /\ queue \in [Runs -> Seq(Message)]
         /\ handling \in [Runs -> {Silent} \cup Handled]
         /\ interrupt \subseteq Runs
         /\ stop \in StopRecord
         /\ turn \in [Runs -> {"unsent", "sent", "started", "over"}]
         /\ stops \in 0..MaxStops /\ raced \in BOOLEAN /\ caught \in BOOLEAN
  BY DEF TypeOK, CallRecord, StartRecord, WorkerRecord, ServerRecord, Message, Handled, StopRecord

LEMMA TypesKept ==
  ASSUME call' \in [Runs -> CallRecord],
         start' \in [Runs -> StartRecord],
         current' \in Maybe(Runs),
         worker' \in [Runs -> WorkerRecord],
         server' \in [Runs -> ServerRecord],
         queue' \in [Runs -> Seq(Message)],
         handling' \in [Runs -> {Silent} \cup Handled],
         interrupt' \subseteq Runs,
         stop' \in StopRecord,
         turn' \in [Runs -> {"unsent", "sent", "started", "over"}],
         stops' \in 0..MaxStops, raced' \in BOOLEAN, caught' \in BOOLEAN
  PROVE  TypeOK'
  BY DEF TypeOK, CallRecord, StartRecord, WorkerRecord, ServerRecord, Message, Handled, StopRecord

LEMMA RecordsTyped ==
  /\ NoCall \in CallRecord /\ NoStart \in StartRecord /\ Fresh \in WorkerRecord
  /\ Dead \in WorkerRecord /\ NewServer \in ServerRecord
  /\ Dead.active = None /\ Dead.closed /\ Dead.id = None /\ ~Dead.dispatched
  /\ Fresh.active = None /\ ~Fresh.closed /\ Fresh.id = None /\ ~Fresh.dispatched
  /\ NewServer.process = "none" /\ ~NewServer.closed /\ ~NewServer.lost
  /\ NewServer.closing = "none"
  BY DEF NoCall, NoStart, Fresh, Dead, NewServer, CallRecord, StartRecord, WorkerRecord,
         ServerRecord, Maybe

-----------------------------------------------------------------------------
(* Parts of several handlers *)

\* The client of worker w changes, and may end: nothing comes to life.
Ails(w) ==
    /\ server' \in [Runs -> ServerRecord]
    /\ \A v \in Runs : v # w => server'[v] = server[v]
    /\ server'[w].closed => server'[w].process # "live"
    /\ server'[w].lost => server'[w].closed
    /\ server'[w].closing # "none" => Gone(w)'
    /\ Gone(w) => Gone(w)'
    /\ server'[w].process = "live" => server[w].process = "live"
    /\ server[w].process = "none" <=> server'[w].process = "none"

\* Typed, and closed only without a process: what ServersAgree says of one client.
Sane(s) ==
    /\ s \in ServerRecord
    /\ s.closed => s.process # "live"
    /\ s.lost => s.closed
    /\ s.closing # "none" => s.closed \/ s.process = "dead"

Worse(s, t) ==
    /\ Sane(t)
    /\ s.closed \/ s.process = "dead" => t.closed \/ t.process = "dead"
    /\ t.process = "live" => s.process = "live"
    /\ s.process = "none" <=> t.process = "none"

LEMMA KilledIsWorse == ASSUME NEW s, Sane(s) PROVE Worse(s, Killed(s)) /\ Killed(s).process # "live"
  BY DEF Sane, Worse, Killed, ServerRecord

LEMMA FailedIsWorse == ASSUME NEW s, Sane(s) PROVE Worse(s, Failed(s)) /\ Failed(s).closed
  <1>1. CASE s.closed
    BY <1>1 DEF Failed, Worse, Sane
  <1>2. CASE ~s.closed
    <2>1. Failed(s) = [Killed(s) EXCEPT !.closed = TRUE, !.lost = TRUE]
      BY <1>2 DEF Failed
    <2>2. Killed(s) \in ServerRecord /\ Worse(s, Killed(s)) /\ Killed(s).process # "live"
      BY KilledIsWorse DEF Worse, Sane
    <2>. QED BY <2>1, <2>2 DEF Worse, Sane, ServerRecord
  <1>. QED BY <1>1, <1>2

LEMMA ClosingIsWorse ==
  ASSUME NEW s, Sane(s)
  PROVE  /\ Worse(s, Closing(s))
         /\ Closing(s).closed \/ Closing(s).process = "dead"
  <1>1. CASE s.closing # "none"
    BY <1>1 DEF Closing, Worse, Sane
  <1>2. CASE s.closing = "none"
    <2>. DEFINE t == IF s.process = "none" THEN Failed(s) ELSE Killed(s)
    <2>1. Worse(s, t) /\ (t.closed \/ t.process = "dead")
      <3>1. CASE s.process = "none"
        BY <3>1, FailedIsWorse
      <3>2. CASE s.process # "none"
        BY <3>2, KilledIsWorse DEF Killed, Sane, ServerRecord
      <3>. QED BY <3>1, <3>2
    <2>2. Closing(s) = [t EXCEPT !.closing = "begun"]
      BY <1>2 DEF Closing
    <2>. HIDE DEF t
    <2>. QED BY <2>1, <2>2 DEF Worse, Sane, ServerRecord
  <1>. QED BY <1>1, <1>2

LEMMA ServerIsSane ==
  ASSUME RuntimeAgrees, NEW w \in Runs
  PROVE  Sane(server[w])
  <1>1. server[w] \in ServerRecord /\ ServerAgrees(w)
    BY Types DEF RuntimeAgrees, AtWorker
  <1>. QED BY <1>1 DEF ServerAgrees, Sane, Gone

LEMMA WorseAils ==
  ASSUME RuntimeAgrees, NEW w \in Runs, NEW t, Worse(server[w], t),
         server' = [server EXCEPT ![w] = t]
  PROVE  Ails(w) /\ server'[w] = t
  <1>1. server \in [Runs -> ServerRecord]
    BY Types DEF RuntimeAgrees
  <1>. QED BY <1>1 DEF Ails, Worse, Sane, Gone

-----------------------------------------------------------------------------
(* What the invariant says of one run and of one worker *)

LEMMA OfRun ==
  ASSUME RuntimeAgrees, NEW r \in Runs
  PROVE  /\ CallAgrees(r) /\ StartAgrees(r) /\ TurnAgrees(r)
         /\ call[r] \in CallRecord /\ start[r] \in StartRecord
         /\ turn[r] \in {"unsent", "sent", "started", "over"}
         /\ Of(r) = call[r].worker
         /\ call[r].worker # None => call[r].worker \in Runs
  BY Types DEF RuntimeAgrees, AtRun, CallRecord, Maybe, Of

LEMMA OfWorker ==
  ASSUME RuntimeAgrees, NEW w \in Runs
  PROVE  /\ FreshAgrees(w) /\ ServerAgrees(w) /\ WorkerAgrees(w)
         /\ QueueAgrees(w) /\ HandlingAgrees(w)
         /\ worker[w] \in WorkerRecord /\ server[w] \in ServerRecord
         /\ queue[w] \in Seq(Message) /\ handling[w] \in {Silent} \cup Handled
         /\ worker[w].active # None => worker[w].active \in Runs
  BY Types DEF RuntimeAgrees, AtWorker, WorkerRecord, Maybe

\* What a call has come to happened in a worker that was made.
LEMMA OfMade ==
  ASSUME RuntimeAgrees, NEW r \in Runs,
         start[r].pc # "none" \/ turn[r] # "unsent" \/ call[r].pc \in {"waiting", "running"}
  PROVE  Of(r) \in Runs /\ Made(Of(r)) /\ call[r].worker = Of(r)
  BY OfRun, ConstantAssumption DEF CallAgrees

\* The parts of the invariant are checked one by one.
LEMMA Together ==
  ASSUME TypeOK',
         \A r \in Runs : CallAgrees(r)',
         \A r \in Runs : StartAgrees(r)',
         \A r \in Runs : TurnAgrees(r)',
         \A w \in Runs : FreshAgrees(w)',
         \A w \in Runs : ServerAgrees(w)',
         \A w \in Runs : WorkerAgrees(w)',
         \A w \in Runs : QueueAgrees(w)',
         \A w \in Runs : HandlingAgrees(w)',
         \A r, s \in Runs : OneStarts(r, s)',
         MapAgrees', CurrentAgrees'
  PROVE  RuntimeAgrees'
  BY DEF RuntimeAgrees, AtRun, AtWorker

-----------------------------------------------------------------------------
(* Steps that several handlers have in common *)

\* Nothing but the client of one worker, and the notification it handles, changes.
LEMMA AilsKeeps ==
  ASSUME RuntimeAgrees, NEW w \in Runs, Made(w), Ails(w),
         UNCHANGED <<call, start, current, worker, queue, interrupt, stop, turn, history>>,
         handling' = handling \/ handling' = [handling EXCEPT ![w] = Silent]
  PROVE  RuntimeAgrees'
  <1>1. \A v \in Runs : /\ Gone(v) => Gone(v)'
                        /\ Made(v)' <=> Made(v)
                        /\ server'[v].process = "live" => server[v].process = "live"
                        /\ server[v].process = "none" <=> server'[v].process = "none"
                        /\ handling'[v] \in {handling[v], Silent}
    BY Types DEF RuntimeAgrees, Ails, Gone, Made
  <1>2. TypeOK'
    BY Types, TypesKept DEF RuntimeAgrees, Ails, history
  <1>3. \A r \in Runs : CallAgrees(r)'
    BY OfRun DEF CallAgrees, Made
  <1>4. \A r \in Runs : StartAgrees(r)' /\ TurnAgrees(r)'
    <2>. TAKE r \in Runs
    <2>1. CASE start[r].pc = "none" /\ turn[r] = "unsent"
      BY <2>1 DEF StartAgrees, TurnAgrees, Starting
    <2>2. CASE start[r].pc # "none" \/ turn[r] # "unsent"
      <3>1. Of(r) \in Runs
        BY <2>2, OfMade
      <3>. QED BY <3>1, <1>1, OfRun DEF StartAgrees, TurnAgrees, Starting, Ended, Has, Of
    <2>. QED BY <2>1, <2>2
  <1>5. \A v \in Runs : FreshAgrees(v)'
    BY <1>1, OfWorker DEF FreshAgrees, Ails
  <1>6. \A v \in Runs : ServerAgrees(v)'
    BY <1>1, OfWorker DEF ServerAgrees, Ails, Gone
  <1>7. \A v \in Runs : WorkerAgrees(v)'
    BY OfWorker DEF WorkerAgrees
  <1>8. \A v \in Runs : QueueAgrees(v)' /\ HandlingAgrees(v)'
    BY <1>1, OfWorker DEF QueueAgrees, HandlingAgrees, Regards, Ended, Has
  <1>9. \A r, s \in Runs : OneStarts(r, s)'
    BY DEF RuntimeAgrees, OneStarts, Starting, Of
  <1>10. MapAgrees'
    BY DEF RuntimeAgrees, MapAgrees, Made, history
  <1>11. CurrentAgrees'
    <2>1. \A r \in Runs : call[r].pc = "waiting" => call[r].worker \in Runs
      BY OfMade
    <2>. QED BY <1>1, <2>1 DEF RuntimeAgrees, CurrentAgrees, history
  <1>. QED BY <1>2, <1>3, <1>4, <1>5, <1>6, <1>7, <1>8, <1>9, <1>10, <1>11, Together

LEMMA Settling ==
  ASSUME RuntimeAgrees, NEW r \in Runs, NEW by \in Maybe(Runs)
  PROVE  /\ [call[r] EXCEPT !.pc = "settled", !.by = by] \in CallRecord
         /\ Settled(r, by) = [call EXCEPT ![r] = [call[r] EXCEPT !.pc = "settled", !.by = by]]
  <1>1. call \in [Runs -> CallRecord]
    BY Types DEF RuntimeAgrees
  <1>. QED BY <1>1 DEF CallRecord, Settled

\* Only the active turn of a worker is rejected.
LEMMA Rejecting ==
  ASSUME RuntimeAgrees, NEW w \in Runs, call' = Rejected(w)
  PROVE  /\ call' \in [Runs -> CallRecord]
         /\ \A r \in Runs :
               /\ call'[r].worker = call[r].worker
               /\ \/ worker[w].active # r /\ call'[r] = call[r]
                  \/ worker[w].active = r /\ call'[r].pc = "settled" /\ call'[r].by = None
  <1>1. call \in [Runs -> CallRecord]
    BY Types DEF RuntimeAgrees
  <1>2. CASE worker[w].active = None
    BY <1>1, <1>2, ConstantAssumption DEF Rejected
  <1>3. CASE worker[w].active # None
    <2>1. PICK a \in Runs : a = worker[w].active
      BY <1>3, OfWorker
    <2>. DEFINE c == [call[a] EXCEPT !.pc = "settled", !.by = None]
    <2>2. c \in CallRecord /\ call' = [call EXCEPT ![a] = c]
      BY <1>3, <2>1, Settling DEF Rejected, Maybe
    <2>3. c.pc = "settled" /\ c.by = None /\ c.worker = call[a].worker
      BY <1>1 DEF CallRecord
    <2>. QED BY <1>1, <2>1, <2>2, <2>3
  <1>. QED BY <1>2, <1>3

\* A worker ends, and its call is rejected.
LEMMA WorkerEndsKeeps ==
  ASSUME RuntimeAgrees, NEW w \in Runs, Made(w), WorkerEnds(w), Ails(w), Gone(w)',
         UNCHANGED <<current, queue, stop, turn, raced, caught>>, stops' \in 0..MaxStops,
         start' = start \/ \E r \in Runs : start[r].pc = "throws" /\ Leave(r, "done"),
         handling' = handling \/ handling' = [handling EXCEPT ![w] = Silent],
         interrupt' \subseteq interrupt
  PROVE  RuntimeAgrees'
  <1>1. /\ worker' \in [Runs -> WorkerRecord]
        /\ \A v \in Runs : \/ v # w /\ worker'[v] = worker[v]
                           \/ /\ v = w /\ worker'[v] = Dead /\ worker'[v].active = None
                              /\ worker'[v].id = None /\ worker'[v].closed
    BY RecordsTyped, Types DEF RuntimeAgrees, WorkerEnds
  <1>2. /\ call' \in [Runs -> CallRecord]
        /\ \A r \in Runs :
               /\ call'[r].worker = call[r].worker
               /\ \/ worker[w].active # r /\ call'[r] = call[r]
                  \/ worker[w].active = r /\ call'[r].pc = "settled" /\ call'[r].by = None
    BY Rejecting DEF WorkerEnds
  <1>3. /\ start' \in [Runs -> StartRecord]
        /\ \A r \in Runs : \/ start'[r] = start[r]
                           \/ start[r].pc = "throws" /\ start'[r].pc = "done"
    <2>1. start \in [Runs -> StartRecord] /\ [pc |-> "done", turn |-> None] \in StartRecord
      BY Types DEF RuntimeAgrees, StartRecord, Maybe
    <2>. QED BY <2>1 DEF Leave
  <1>4. \A v \in Runs : /\ Gone(v) => Gone(v)'
                        /\ Made(v)' <=> Made(v)
                        /\ server'[v].process = "live" => server[v].process = "live" /\ v # w
                        /\ server[v].process = "none" <=> server'[v].process = "none"
                        /\ handling'[v] \in {handling[v], Silent}
    BY <1>2, Types DEF RuntimeAgrees, Ails, Gone, Made
  <1>5. TypeOK'
    <2>1. handling' \in [Runs -> {Silent} \cup Handled]
      BY Types DEF RuntimeAgrees
    <2>. QED BY <1>1, <1>2, <1>3, <2>1, Types, TypesKept DEF RuntimeAgrees, Ails
  <1>6. \A r \in Runs : CallAgrees(r)'
    <2>. TAKE r \in Runs
    <2>1. start'[r].pc = "none" <=> start[r].pc = "none"
      BY <1>3
    <2>2. (call[r].worker # None => Made(call[r].worker))'
      <3>1. call'[r].worker = call[r].worker
        BY <1>2
      <3>2. call[r].worker # None => call[r].worker \in Runs /\ Made(call[r].worker)
        BY OfRun DEF CallAgrees
      <3>. QED BY <1>2, <3>1, <3>2 DEF Made
    <2>3. CASE worker[w].active = r
      BY <2>1, <2>2, <2>3, <1>2, OfRun DEF CallAgrees
    <2>4. CASE worker[w].active # r
      <3>1. call'[r] = call[r]
        BY <2>4, <1>2
      <3>2. call[r].pc = "running" => worker'[call[r].worker].active = r
        BY <2>4, <1>1, OfRun DEF CallAgrees
      <3>. QED BY <2>1, <2>2, <3>1, <3>2, OfRun DEF CallAgrees
    <2>. QED BY <2>3, <2>4
  <1>7. \A v \in Runs : \A r : Regards(v, r) => Regards(v, r)'
    BY <1>1 DEF Regards, Ended, Has
  <1>8. \A r \in Runs : StartAgrees(r)' /\ TurnAgrees(r)'
    <2>. TAKE r \in Runs
    <2>1. CASE start'[r].pc \in {"none", "throws", "done"} /\ turn[r] = "unsent"
      BY <2>1 DEF StartAgrees, TurnAgrees, Starting
    <2>2. CASE start'[r].pc \notin {"none", "throws", "done"} \/ turn[r] # "unsent"
      <3>1. Of(r) \in Runs /\ Of(r)' = Of(r)
        BY <2>2, <1>2, <1>3, OfMade DEF Of
      <3>2. StartAgrees(r)'
        <4>1. CASE start'[r] # start[r]
          BY <4>1, <1>3 DEF StartAgrees, Starting
        <4>2. CASE start'[r] = start[r]
          BY <4>2, <3>1, <1>1, <1>4, OfRun DEF StartAgrees, Starting, Ended
        <4>. QED BY <4>1, <4>2
      <3>3. TurnAgrees(r)'
        BY <3>1, <1>1, <1>4, OfRun DEF TurnAgrees, Has
      <3>. QED BY <3>2, <3>3
    <2>. QED BY <2>1, <2>2
  <1>9. \A v \in Runs : FreshAgrees(v)'
    BY <1>1, <1>4, OfWorker DEF FreshAgrees, Ails
  <1>10. \A v \in Runs : ServerAgrees(v)'
    <2>. TAKE v \in Runs
    <2>1. CASE v = w
      BY <2>1 DEF ServerAgrees, Ails, Gone
    <2>2. CASE v # w
      BY <2>2, <1>1, OfWorker DEF ServerAgrees, Ails, Gone
    <2>. QED BY <2>1, <2>2
  <1>11. \A v \in Runs : WorkerAgrees(v)'
    <2>. TAKE v \in Runs
    <2>1. CASE v = w
      BY <2>1, <1>1 DEF WorkerAgrees
    <2>2. CASE v # w
      <3>1. ASSUME worker[v].active # None
            PROVE  worker[v].active \in Runs /\ worker[v].active # worker[w].active
        BY <2>2, <3>1, OfWorker DEF WorkerAgrees
      <3>2. worker'[v] = worker[v]
        BY <2>2, <1>1
      <3>. QED BY <3>1, <3>2, <1>2, OfWorker DEF WorkerAgrees
    <2>. QED BY <2>1, <2>2
  <1>12. \A v \in Runs : QueueAgrees(v)' /\ HandlingAgrees(v)'
    <2>. TAKE v \in Runs
    <2>1. QueueAgrees(v)'
      BY <1>7, OfWorker DEF QueueAgrees
    <2>2. ASSUME handling'[v] # Silent
          PROVE  handling'[v] = handling[v] /\ handling[v].turn \in Runs
      BY <2>2, <1>4, OfWorker DEF Handled
    <2>3. HandlingAgrees(v)'
      BY <2>2, <1>2, <1>7, OfWorker DEF HandlingAgrees
    <2>. QED BY <2>1, <2>3
  <1>13. \A r, s \in Runs : OneStarts(r, s)'
    BY <1>2, <1>3 DEF RuntimeAgrees, OneStarts, Starting, Of
  <1>14. MapAgrees'
    BY <1>4, Types DEF RuntimeAgrees, MapAgrees, Maybe, StopRecord, history
  <1>15. CurrentAgrees'
    <2>1. \A r \in Runs : call'[r].pc = "waiting" => call'[r] = call[r] /\ call[r].worker \in Runs
      BY <1>2, OfMade
    <2>. QED BY <1>4, <2>1 DEF RuntimeAgrees, CurrentAgrees
  <1>. QED BY <1>5, <1>6, <1>8, <1>9, <1>10, <1>11, <1>12, <1>13, <1>14, <1>15, Together

\* The client of a worker is shut down, and what the worker runs is rejected.
LEMMA StopWorkerKeeps ==
  ASSUME RuntimeAgrees, NEW w \in Runs, Made(w), StopWorker(w),
         UNCHANGED <<current, queue, stop, turn, raced, caught>>, stops' \in 0..MaxStops,
         start' = start \/ \E r \in Runs : start[r].pc = "throws" /\ Leave(r, "done"),
         handling' = handling \/ handling' = [handling EXCEPT ![w] = Silent],
         interrupt' \subseteq interrupt
  PROVE  RuntimeAgrees'
  <1>1. server' = [server EXCEPT ![w] = Closing(server[w])]
    BY DEF StopWorker
  <1>2. Worse(server[w], Closing(server[w]))
        /\ (Closing(server[w]).closed \/ Closing(server[w]).process = "dead")
    BY ServerIsSane, ClosingIsWorse
  <1>3. Ails(w) /\ Gone(w)'
    BY <1>1, <1>2, WorseAils DEF Gone
  <1>. QED BY <1>3, WorkerEndsKeeps DEF StopWorker

\* What only a worker that was made can have
LEMMA MadeIf ==
  ASSUME RuntimeAgrees, NEW w \in Runs,
         \/ server[w].process # "none" \/ server[w].closed \/ server[w].closing # "none"
         \/ worker[w].active # None \/ worker[w].closed
         \/ queue[w] # <<>> \/ handling[w] # Silent \/ w \in interrupt
  PROVE  Made(w)
  BY OfWorker, RecordsTyped DEF FreshAgrees

\* startTurn goes on after it has opened the process.
Goes(r) ==
    \/ start'[r] = start[r]
    \/ start[r].pc # "none" /\ start'[r].pc \in {"throws", "done", "answered"}
    \/ start[r].pc = "startup" /\ start'[r].pc = "ready" /\ start'[r].turn = r

\* A worker keeps its turn, whose id may become known or which may be interrupted.
Marked(w) ==
    /\ worker'[w].active = worker[w].active
    /\ worker'[w].closed = worker[w].closed
    /\ worker'[w].dispatched = worker[w].dispatched
    /\ worker'[w].id \in {None, worker[w].active}

\* Nothing of what a worker that nobody made has changes.
StaysFresh(w) ==
    ~Made(w) => /\ worker'[w] = worker[w] /\ server'[w] = server[w]
                /\ queue'[w] = queue[w] /\ handling'[w] = handling[w] /\ w \notin interrupt'

\* No call is made, moved or settled.
LEMMA MarksKeep ==
  ASSUME RuntimeAgrees,
         UNCHANGED <<call, current, stop, turn, raced, caught>>,
         stops' \in 0..MaxStops,
         start' \in [Runs -> StartRecord], \A r \in Runs : Goes(r),
         worker' \in [Runs -> WorkerRecord], \A v \in Runs : Marked(v),
         server' = server \/ \E w \in Runs : Ails(w),
         queue' \in [Runs -> Seq(Message)], handling' \in [Runs -> {Silent} \cup Handled],
         interrupt' \subseteq Runs,
         \A v \in Runs : StaysFresh(v),
         \A v \in Runs : QueueAgrees(v)', \A v \in Runs : HandlingAgrees(v)'
  PROVE  RuntimeAgrees'
  <1>1. \A v \in Runs : Made(v)' <=> Made(v)
    BY DEF Made
  <1>2. /\ server' \in [Runs -> ServerRecord]
        /\ \A v \in Runs : /\ Gone(v) => Gone(v)'
                           /\ server'[v].process = "live" => server[v].process = "live"
                           /\ server[v].process = "none" <=> server'[v].process = "none"
    <2>1. CASE server' = server
      BY <2>1, Types DEF RuntimeAgrees, Gone
    <2>2. CASE \E w \in Runs : Ails(w)
      BY <2>2, Types DEF RuntimeAgrees, Ails, Gone
    <2>. QED BY <2>1, <2>2
  <1>3. TypeOK'
    BY <1>2, Types, TypesKept DEF RuntimeAgrees
  <1>4. \A r \in Runs : CallAgrees(r)'
    <2>. TAKE r \in Runs
    <2>1. start'[r].pc = "none" <=> start[r].pc = "none"
      BY DEF Goes
    <2>2. call[r].worker # None => (Made(call[r].worker)' <=> Made(call[r].worker))
      BY <1>1, OfRun
    <2>3. call[r].pc = "running" => call[r].worker \in Runs /\ worker'[call[r].worker].active = r
      BY OfRun DEF CallAgrees, Marked
    <2>. QED BY <2>1, <2>2, <2>3, OfRun DEF CallAgrees, Made
  <1>5. \A r \in Runs : StartAgrees(r)' /\ TurnAgrees(r)'
    <2>. TAKE r \in Runs
    <2>1. CASE start[r].pc = "none" /\ turn[r] = "unsent"
      <3>1. start'[r].pc = "none"
        BY <2>1 DEF Goes
      <3>. QED BY <2>1, <3>1 DEF StartAgrees, TurnAgrees, Starting
    <2>2. CASE start[r].pc # "none" \/ turn[r] # "unsent"
      <3>1. Of(r) \in Runs /\ Of(r)' = Of(r)
        BY <2>2, OfMade DEF Of
      <3>2. Marked(Of(r))
        BY <3>1
      <3>3. TurnAgrees(r)'
        <4>1. PICK v \in Runs : v = Of(r) /\ v = Of(r)'
          BY <3>1
        <4>2. TurnAgrees(r) /\ Marked(v)
          BY OfRun
        <4>. QED BY <4>1, <4>2, <1>2 DEF TurnAgrees, Has, Marked
      <3>4. CASE start'[r] = start[r]
        <4>1. start[r].pc = "open" => server'[Of(r)].process = "none"
          BY <3>1, <1>2, OfRun DEF StartAgrees
        <4>. QED BY <3>1, <3>2, <3>3, <3>4, <4>1, OfRun DEF StartAgrees, Starting, Ended, Marked
      <3>5. CASE start'[r].pc \in {"throws", "done", "answered"}
        BY <3>3, <3>5 DEF StartAgrees, Starting
      <3>6. CASE start[r].pc = "startup" /\ start'[r].pc = "ready" /\ start'[r].turn = r
        BY <3>1, <3>2, <3>3, <3>6, OfRun DEF StartAgrees, Starting, Ended, Marked
      <3>. QED BY <3>4, <3>5, <3>6 DEF Goes
    <2>. QED BY <2>1, <2>2
  <1>6. \A v \in Runs : FreshAgrees(v)'
    BY <1>1, OfWorker DEF FreshAgrees, StaysFresh
  <1>7. \A v \in Runs : ServerAgrees(v)'
    <2>. TAKE v \in Runs
    <2>1. CASE server'[v] = server[v]
      BY <2>1, OfWorker DEF ServerAgrees, Gone, Marked
    <2>2. CASE Ails(v)
      BY <2>2, OfWorker DEF ServerAgrees, Ails, Marked
    <2>. QED BY <2>1, <2>2 DEF Ails
  <1>8. \A v \in Runs : WorkerAgrees(v)'
    BY OfWorker DEF WorkerAgrees, Marked
  <1>9. \A r, s \in Runs : OneStarts(r, s)'
    <2>. TAKE r, s \in Runs
    <2>1. (Starting(r)' => Starting(r)) /\ (Starting(s)' => Starting(s))
      BY DEF Goes, Starting
    <2>. QED BY <2>1 DEF RuntimeAgrees, OneStarts, Of
  <1>10. MapAgrees'
    BY DEF RuntimeAgrees, MapAgrees, Made, history
  <1>11. CurrentAgrees'
    <2>1. \A r \in Runs : call[r].pc = "waiting" => call[r].worker \in Runs
      BY OfMade
    <2>. QED BY <1>1, <1>2, <2>1 DEF RuntimeAgrees, CurrentAgrees
  <1>. QED BY <1>3, <1>4, <1>5, <1>6, <1>7, <1>8, <1>9, <1>10, <1>11, Together

-----------------------------------------------------------------------------
(* The end of a process, of its client and of its worker *)

LEMMA FailedAils ==
  ASSUME RuntimeAgrees, NEW w \in Runs, server' = [server EXCEPT ![w] = Failed(@)]
  PROVE  Ails(w)
  <1>1. server' = [server EXCEPT ![w] = Failed(server[w])]
    OBVIOUS
  <1>. QED BY <1>1, ServerIsSane, FailedIsWorse, WorseAils

LEMMA ReceiveFailsKeeps ==
  ASSUME RuntimeAgrees, NEW w \in Runs, ReceiveFails(w) PROVE RuntimeAgrees'
  <1>1. Made(w) /\ Ails(w)
    BY MadeIf, FailedAils DEF ReceiveFails
  <1>. QED BY <1>1, AilsKeeps DEF ReceiveFails

LEMMA ExitKeeps == ASSUME RuntimeAgrees, NEW w \in Runs, Exit(w) PROVE RuntimeAgrees'
  <1>1. Made(w) /\ Ails(w)
    BY MadeIf, FailedAils DEF Exit
  <1>. QED BY <1>1, AilsKeeps DEF Exit, inbox

LEMMA CloseFailsKeeps == ASSUME RuntimeAgrees, NEW w \in Runs, CloseFails(w) PROVE RuntimeAgrees'
  <1>1. Made(w) /\ Ails(w)
    BY MadeIf, FailedAils DEF CloseFails
  <1>. QED BY <1>1, AilsKeeps DEF CloseFails, inbox

LEMMA ExitedKeeps == ASSUME RuntimeAgrees, NEW w \in Runs, Exited(w) PROVE RuntimeAgrees'
  <1>1. server[w].closed
    BY OfWorker DEF Exited, ServerAgrees
  <1>2. Ails(w) /\ Gone(w)'
    <2>1. server \in [Runs -> ServerRecord]
      BY Types DEF RuntimeAgrees
    <2>. QED BY <2>1, <1>1, OfWorker DEF Exited, Ails, Gone, ServerAgrees, ServerRecord
  <1>. QED BY <1>1, <1>2, MadeIf, WorkerEndsKeeps, Types DEF RuntimeAgrees, Exited, inbox, history

LEMMA CloseEndsKeeps == ASSUME RuntimeAgrees, NEW w \in Runs, CloseEnds(w) PROVE RuntimeAgrees'
  <1>1. server[w].closed
    BY DEF CloseEnds
  <1>2. Ails(w) /\ Gone(w)'
    <2>1. server \in [Runs -> ServerRecord]
      BY Types DEF RuntimeAgrees
    <2>. QED BY <2>1, <1>1, OfWorker DEF CloseEnds, Ails, Gone, ServerAgrees, ServerRecord
  <1>. QED BY <1>1, <1>2, MadeIf, WorkerEndsKeeps, Types DEF RuntimeAgrees, CloseEnds, inbox, history

LEMMA DeadlineKeeps == ASSUME RuntimeAgrees, NEW r \in Runs, Deadline(r) PROVE RuntimeAgrees'
  <1>1. PICK w \in Runs : worker[w].active = r /\ StopWorker(w)
    BY DEF Deadline
  <1>2. Made(w)
    BY <1>1, MadeIf, ConstantAssumption
  <1>. QED BY <1>1, <1>2, StopWorkerKeeps, Types DEF RuntimeAgrees, Deadline, inbox, history

LEMMA CatchKeeps == ASSUME RuntimeAgrees, NEW r \in Runs, Catch(r) PROVE RuntimeAgrees'
  <1>1. start[r].pc = "throws" /\ Leave(r, "done") /\ StopWorker(Of(r))
    BY DEF Catch, At
  <1>2. Of(r) \in Runs /\ Made(Of(r))
    BY <1>1, OfMade
  <1>. QED BY <1>1, <1>2, StopWorkerKeeps, Types DEF RuntimeAgrees, Catch, inbox, history

LEMMA InterruptStopsKeeps ==
  ASSUME RuntimeAgrees, NEW w \in Runs, InterruptStops(w) PROVE RuntimeAgrees'
  <1>1. Made(w)
    BY MadeIf DEF InterruptStops
  <1>. QED BY <1>1, StopWorkerKeeps, Types DEF RuntimeAgrees, InterruptStops, inbox, history

-----------------------------------------------------------------------------
(* interrupt *)

\* A notification is taken, or it is not.
LEMMA StillRegarded ==
  ASSUME RuntimeAgrees, NEW w \in Runs,
         \A v \in Runs : Marked(v), UNCHANGED <<call, queue, turn>>,
         handling' = handling \/ handling' = [handling EXCEPT ![w] = Silent]
  PROVE  \A v \in Runs : QueueAgrees(v)' /\ HandlingAgrees(v)'
  <1>. TAKE v \in Runs
  <1>1. \A r : Regards(v, r)' <=> Regards(v, r)
    BY DEF Regards, Ended, Has, Marked
  <1>2. handling'[v] \in {handling[v], Silent}
    BY Types DEF RuntimeAgrees
  <1>. QED BY <1>1, <1>2, OfWorker DEF QueueAgrees, HandlingAgrees

LEMMA InterruptingKeeps ==
  ASSUME RuntimeAgrees, NEW w \in Runs, Made(w), Interrupting(w),
         UNCHANGED <<start, current, queue, stop, turn, raced, caught>>, stops' \in 0..MaxStops,
         handling' = handling \/ handling' = [handling EXCEPT ![w] = Silent]
  PROVE  RuntimeAgrees'
  <1>1. handling' \in [Runs -> {Silent} \cup Handled]
        /\ \A v \in Runs : ~Made(v) => handling'[v] = handling[v]
    BY Types DEF RuntimeAgrees
  <1>2. CASE UNCHANGED <<call, worker, server, interrupt>>
    <2>1. \A v \in Runs : Marked(v)
      BY <1>2, OfWorker DEF Marked, WorkerAgrees
    <2>2. \A v \in Runs : StaysFresh(v)
      BY <1>1, <1>2, OfWorker DEF StaysFresh, FreshAgrees
    <2>. QED BY <1>1, <1>2, <2>1, <2>2, StillRegarded, MarksKeep, Types DEF RuntimeAgrees, Goes
  <1>3. CASE StopWorker(w) /\ UNCHANGED interrupt
    BY <1>3, StopWorkerKeeps
  <1>4. CASE /\ interrupt' = interrupt \cup {w}
             /\ worker' = [worker EXCEPT ![w].interrupted = TRUE]
             /\ UNCHANGED <<call, server>>
    <2>1. worker \in [Runs -> WorkerRecord]
      BY Types DEF RuntimeAgrees
    <2>2. worker' \in [Runs -> WorkerRecord]
      BY <1>4, <2>1 DEF WorkerRecord
    <2>3. \A v \in Runs : Marked(v)
      BY <1>4, <2>1, OfWorker DEF Marked, WorkerAgrees, WorkerRecord
    <2>4. \A v \in Runs : StaysFresh(v)
      BY <1>1, <1>4, <2>1, OfWorker DEF StaysFresh, FreshAgrees
    <2>. QED BY <1>1, <1>4, <2>2, <2>3, <2>4, StillRegarded, MarksKeep, Types
             DEF RuntimeAgrees, Goes
  <1>. QED BY <1>2, <1>3, <1>4 DEF Interrupting

LEMMA CancelKeeps == ASSUME RuntimeAgrees, Cancel PROVE RuntimeAgrees'
  <1>1. current \in Runs /\ Made(current)
    BY MadeIf, Types DEF RuntimeAgrees, Cancel, Maybe
  <1>2. stops' \in 0..MaxStops
    BY Types, ConstantAssumption DEF RuntimeAgrees, Cancel
  <1>. QED BY <1>1, <1>2, InterruptingKeeps DEF Cancel, inbox

-----------------------------------------------------------------------------
(* startTurn *)

\* startTurn goes on, and the worker may learn the id of its turn.
LEMMA GoesKeeps ==
  ASSUME RuntimeAgrees, NEW r \in Runs,
         UNCHANGED <<call, current, server, inbox, interrupt, stop, turn, history>>,
         start' \in [Runs -> StartRecord], \A s \in Runs : Goes(s),
         \/ worker' = worker
         \/ /\ worker' = [worker EXCEPT ![Of(r)].id = r]
            /\ Of(r) \in Runs /\ worker[Of(r)].active = r
  PROVE  RuntimeAgrees'
  <1>1. worker \in [Runs -> WorkerRecord]
    BY Types DEF RuntimeAgrees
  <1>2. worker' \in [Runs -> WorkerRecord]
    BY <1>1 DEF WorkerRecord, Maybe
  <1>3. \A v \in Runs : Marked(v)
    BY <1>1, OfWorker DEF Marked, WorkerAgrees, WorkerRecord
  <1>4. \A v \in Runs : StaysFresh(v)
    <2>1. worker[Of(r)].active = r /\ Of(r) \in Runs => Made(Of(r))
      BY MadeIf, ConstantAssumption
    <2>. QED BY <1>1, <2>1, OfWorker DEF StaysFresh, FreshAgrees, inbox
  <1>. QED BY <1>2, <1>3, <1>4, StillRegarded, MarksKeep, Types DEF RuntimeAgrees, inbox, history

LEMMA LeaveGoes ==
  ASSUME RuntimeAgrees, NEW r \in Runs, NEW pc \in {"throws", "done", "answered"},
         start[r].pc # "none", Leave(r, pc)
  PROVE  start' \in [Runs -> StartRecord] /\ \A s \in Runs : Goes(s)
  <1>1. start \in [Runs -> StartRecord] /\ [pc |-> pc, turn |-> None] \in StartRecord
    BY Types DEF RuntimeAgrees, StartRecord, Maybe
  <1>. QED BY <1>1 DEF Leave, Goes

LEMMA ReadyKeeps == ASSUME RuntimeAgrees, NEW r \in Runs, Ready(r) PROVE RuntimeAgrees'
  <1>1. CASE Leave(r, "throws")
    BY <1>1, LeaveGoes, GoesKeeps DEF Ready, At
  <1>2. CASE /\ worker[Of(r)].active # None
             /\ start' = [start EXCEPT ![r] = [pc |-> "ready", turn |-> worker[Of(r)].active]]
    <2>1. worker[Of(r)].active = r
      BY <1>2, OfRun DEF Ready, At, StartAgrees, Starting, Ended
    <2>2. start \in [Runs -> StartRecord] /\ [pc |-> "ready", turn |-> r] \in StartRecord
      BY Types DEF RuntimeAgrees, StartRecord, Maybe
    <2>3. start' \in [Runs -> StartRecord] /\ \A s \in Runs : Goes(s)
      BY <1>2, <2>1, <2>2 DEF Goes, Ready, At
    <2>. QED BY <2>3, GoesKeeps DEF Ready
  <1>. QED BY <1>1, <1>2 DEF Ready

LEMMA AnsweredKeeps == ASSUME RuntimeAgrees, NEW r \in Runs, Answered(r) PROVE RuntimeAgrees'
  <1>1. start[r].pc = "sent" /\ start[r].turn = r /\ Of(r) \in Runs
    BY OfRun, OfMade DEF Answered, CanAnswer, At, StartAgrees
  <1>. QED BY <1>1, LeaveGoes, GoesKeeps DEF Answered

LEMMA RecordedKeeps == ASSUME RuntimeAgrees, NEW r \in Runs, Recorded(r) PROVE RuntimeAgrees'
  BY LeaveGoes, GoesKeeps DEF Recorded, At

LEMMA ThrowsKeeps == ASSUME RuntimeAgrees, NEW r \in Runs, Throws(r) PROVE RuntimeAgrees'
  BY LeaveGoes, GoesKeeps DEF Throws

LEMMA SpawnKeeps == ASSUME RuntimeAgrees, NEW r \in Runs, Spawn(r) PROVE RuntimeAgrees'
  <1>0. PICK w \in Runs : w = Of(r)
    BY OfMade DEF Spawn, At
  <1>1. start[r].pc = "open" /\ Made(w) /\ server[w].process = "none"
    BY <1>0, OfMade, OfRun DEF Spawn, At, StartAgrees
  <1>2. CASE server[w].closed
    BY <1>0, <1>1, <1>2, LeaveGoes, GoesKeeps DEF Spawn
  <1>3. CASE ~server[w].closed
    <2>1. /\ start \in [Runs -> StartRecord] /\ server \in [Runs -> ServerRecord]
      BY Types DEF RuntimeAgrees
    <2>2. /\ start' \in [Runs -> StartRecord]
          /\ \A s \in Runs : \/ s # r /\ start'[s] = start[s]
                             \/ /\ s = r /\ start'[s].pc = "startup"
                                /\ start'[s].turn = start[s].turn
      BY <1>0, <1>3, <2>1 DEF Spawn, Goto, StartRecord
    <2>3. /\ server' \in [Runs -> ServerRecord]
          /\ \A v \in Runs : \/ v # w /\ server'[v] = server[v]
                             \/ /\ v = w /\ server'[v].process = "live"
                                /\ server'[v].closed = server[v].closed
                                /\ server'[v].lost = server[v].lost
                                /\ server'[v].closing = server[v].closing
      BY <1>0, <1>3, <2>1 DEF Spawn, ServerRecord
    <2>4. UNCHANGED <<call, current, worker, queue, handling, interrupt, stop, turn, history>>
      BY DEF Spawn, inbox
    <2>5. ~Gone(w) /\ ~Gone(w)'
      BY <1>1, <1>3, <2>3 DEF Gone
    <2>6. \A v \in Runs : (Gone(v)' <=> Gone(v)) /\ (Made(v)' <=> Made(v))
      BY <2>3, <2>4, <2>5 DEF Gone, Made
    <2>7. TypeOK'
      BY <2>2, <2>3, <2>4, Types, TypesKept DEF RuntimeAgrees, history
    <2>8. \A s \in Runs : CallAgrees(s)'
      <3>. TAKE s \in Runs
      <3>1. start'[s].pc = "none" <=> start[s].pc = "none"
        BY <1>1, <2>2
      <3>. QED BY <2>4, <3>1, OfRun DEF CallAgrees, Made
    <2>9. \A s \in Runs : StartAgrees(s)' /\ TurnAgrees(s)'
      <3>. TAKE s \in Runs
      <3>1. CASE start[s].pc = "none" /\ turn[s] = "unsent"
        BY <1>1, <2>2, <2>4, <3>1 DEF StartAgrees, TurnAgrees, Starting
      <3>2. CASE start[s].pc # "none" \/ turn[s] # "unsent"
        <4>1. Of(s) \in Runs /\ Of(s)' = Of(s)
          BY <2>4, <3>2, OfMade DEF Of
        <4>2. TurnAgrees(s)'
          BY <1>1, <2>3, <2>4, <4>1, OfRun DEF TurnAgrees, Has
        <4>3. CASE s = r
          <5>1. start'[s].pc = "startup"
            BY <2>2, <4>3
          <5>2. Starting(s)
            BY <1>1, <4>3 DEF Starting
          <5>3. PICK v \in Runs : v = call[s].worker
            BY <4>1, OfRun
          <5>4. turn[s] = "unsent" /\ (Ended(v) \/ (worker[v].active = s /\ ~worker[v].dispatched))
            BY <5>2, <5>3, OfRun DEF StartAgrees, Ended, Of
          <5>. QED BY <2>4, <4>2, <5>1, <5>3, <5>4 DEF StartAgrees, Ended, Of
        <4>4. CASE s # r
          <5>1. start[s].pc = "open" => Of(s) # w
            BY <1>0, <1>1, <4>4 DEF RuntimeAgrees, OneStarts, Starting
          <5>2. start[s].pc = "open" => server'[Of(s)].process = "none"
            BY <2>3, <4>1, <5>1, OfRun DEF StartAgrees
          <5>3. start'[s] = start[s]
            BY <2>2, <4>4
          <5>4. PICK v \in Runs : v = call[s].worker
            BY <4>1, OfRun
          <5>5. Starting(s) =>
                   turn[s] = "unsent" /\ (Ended(v) \/ (worker[v].active = s /\ ~worker[v].dispatched))
            BY <5>4, OfRun DEF StartAgrees, Ended, Of
          <5>6. start[s].pc \in {"ready", "sent"} => start[s].turn = s
            BY OfRun DEF StartAgrees
          <5>. QED BY <2>4, <4>1, <4>2, <5>2, <5>3, <5>4, <5>5, <5>6 DEF StartAgrees, Starting, Ended, Of
        <4>. QED BY <4>2, <4>3, <4>4
      <3>. QED BY <3>1, <3>2
    <2>10. \A v \in Runs : FreshAgrees(v)'
      BY <1>1, <2>3, <2>4, <2>6, OfWorker DEF FreshAgrees
    <2>11. \A v \in Runs : ServerAgrees(v)'
      <3>. TAKE v \in Runs
      <3>1. CASE v = w
        BY <1>1, <1>3, <2>3, <2>4, <2>5, <3>1, OfWorker DEF ServerAgrees
      <3>2. CASE v # w
        BY <2>3, <2>4, <3>2, OfWorker DEF ServerAgrees, Gone
      <3>. QED BY <3>1, <3>2
    <2>12. \A v \in Runs : WorkerAgrees(v)' /\ QueueAgrees(v)' /\ HandlingAgrees(v)'
      BY <2>4, OfWorker DEF WorkerAgrees, QueueAgrees, HandlingAgrees, Regards, Ended, Has
    <2>13. \A s, t \in Runs : OneStarts(s, t)'
      <3>. TAKE s, t \in Runs
      <3>1. (Starting(s)' => Starting(s)) /\ (Starting(t)' => Starting(t))
        BY <1>1, <2>2 DEF Starting
      <3>. QED BY <2>4, <3>1 DEF RuntimeAgrees, OneStarts, Of
    <2>14. MapAgrees'
      BY <2>4 DEF RuntimeAgrees, MapAgrees, Made, history
    <2>15. CurrentAgrees'
      <3>1. \A s \in Runs : call[s].pc = "waiting" => call[s].worker \in Runs
        BY OfMade
      <3>. QED BY <2>4, <2>6, <3>1 DEF RuntimeAgrees, CurrentAgrees, history
    <2>. QED BY <2>7, <2>8, <2>9, <2>10, <2>11, <2>12, <2>13, <2>14, <2>15, Together
  <1>. QED BY <1>2, <1>3

LEMMA SendKeeps == ASSUME RuntimeAgrees, NEW r \in Runs, Send(r) PROVE RuntimeAgrees'
  <1>0. PICK w \in Runs : w = Of(r)
    BY OfMade DEF Send, At
  <1>1. /\ start[r].pc = "ready" /\ start[r].turn = r /\ turn[r] = "unsent" /\ Starting(r)
        /\ Made(w)
        /\ Ended(w) \/ (worker[w].active = r /\ ~worker[w].dispatched)
    BY <1>0, OfMade, OfRun DEF Send, At, StartAgrees, Starting
  <1>2. server[w].process = "live" => worker[w].active = r
    BY <1>1, OfWorker DEF Ended, ServerAgrees, Gone
  <1>3. start \in [Runs -> StartRecord] /\ worker \in [Runs -> WorkerRecord]
    BY Types DEF RuntimeAgrees
  <1>4. /\ start' \in [Runs -> StartRecord]
        /\ \A s \in Runs : \/ s # r /\ start'[s] = start[s]
                           \/ /\ s = r /\ start'[s].pc \in {"throws", "sent"}
                              /\ start'[s].pc = "sent" => start'[s].turn = r
    <2>1. [pc |-> "throws", turn |-> None] \in StartRecord
      BY DEF StartRecord, Maybe
    <2>2. CASE server[w].closed
      BY <1>0, <1>3, <2>1, <2>2 DEF Send, Leave
    <2>3. CASE ~server[w].closed
      BY <1>0, <1>1, <1>3, <2>3 DEF Send, Goto, StartRecord
    <2>. QED BY <2>2, <2>3
  <1>5. /\ worker' \in [Runs -> WorkerRecord]
        /\ \A v \in Runs : /\ worker'[v].active = worker[v].active
                           /\ worker'[v].closed = worker[v].closed
                           /\ worker'[v].id = worker[v].id
                           /\ v # w => worker'[v] = worker[v]
                           /\ worker[v].dispatched => worker'[v].dispatched
        /\ worker[w].active = r => worker'[w].dispatched
    BY <1>0, <1>1, <1>3 DEF Send, WorkerRecord
  <1>6. /\ turn' \in [Runs -> {"unsent", "sent", "started", "over"}]
        /\ \A s \in Runs : s # r => turn'[s] = turn[s]
        /\ turn'[r] = "unsent" \/ (turn'[r] = "sent" /\ server[w].process = "live")
    BY <1>0, <1>1, Types DEF RuntimeAgrees, Send
  <1>7. UNCHANGED <<call, current, server, queue, handling, interrupt, stop, history>>
    BY DEF Send, inbox
  <1>8. TypeOK'
    BY <1>4, <1>5, <1>6, <1>7, Types, TypesKept DEF RuntimeAgrees, history
  <1>9. \A s \in Runs : CallAgrees(s)'
    <2>. TAKE s \in Runs
    <2>1. CASE s = r
      BY <1>0, <1>1, <1>5, <1>7, <2>1, OfRun DEF CallAgrees, Made
    <2>2. CASE s # r
      BY <1>4, <1>5, <1>6, <1>7, <2>2, OfRun, ConstantAssumption DEF CallAgrees, Made
    <2>. QED BY <2>1, <2>2
  <1>10. \A v \in Runs : \A s : Regards(v, s) => Regards(v, s)'
    BY <1>5 DEF Regards, Ended, Has
  <1>11. \A s \in Runs : StartAgrees(s)' /\ TurnAgrees(s)'
    <2>. TAKE s \in Runs
    <2>1. CASE s = r
      <3>1. Of(s)' = w
        BY <1>0, <1>7, <2>1 DEF Of
      <3>2. StartAgrees(s)'
        BY <1>4, <2>1 DEF StartAgrees, Starting
      <3>3. TurnAgrees(s)'
        BY <1>1, <1>2, <1>5, <1>6, <1>7, <2>1, <3>1 DEF TurnAgrees, Has
      <3>. QED BY <3>2, <3>3
    <2>2. CASE s # r /\ start[s].pc = "none" /\ turn[s] = "unsent"
      BY <1>4, <1>6, <2>2 DEF StartAgrees, TurnAgrees, Starting
    <2>3. CASE s # r /\ (start[s].pc # "none" \/ turn[s] # "unsent")
      <3>1. Of(s) \in Runs /\ Of(s)' = Of(s) /\ start'[s] = start[s] /\ turn'[s] = turn[s]
        BY <1>4, <1>6, <1>7, <2>3, OfMade DEF Of
      <3>2. Starting(s) => Of(s) # w
        BY <1>0, <1>1, <2>3 DEF RuntimeAgrees, OneStarts
      <3>3. StartAgrees(s)'
        BY <1>5, <1>7, <3>1, <3>2, OfRun DEF StartAgrees, Starting, Ended
      <3>4. TurnAgrees(s)'
        BY <1>5, <1>7, <3>1, OfRun DEF TurnAgrees, Has
      <3>. QED BY <3>3, <3>4
    <2>. QED BY <2>1, <2>2, <2>3
  <1>12. \A v \in Runs : FreshAgrees(v)'
    BY <1>1, <1>5, <1>7, OfWorker DEF FreshAgrees, Made
  <1>13. \A v \in Runs : ServerAgrees(v)' /\ WorkerAgrees(v)'
    BY <1>5, <1>7, OfWorker DEF ServerAgrees, WorkerAgrees, Gone
  <1>14. \A v \in Runs : QueueAgrees(v)'
    <2>. TAKE v \in Runs
    <2>1. \A i \in 1..Len(queue[v]) : queue[v][i].run \in Runs
      <3>1. \A i \in 1..Len(queue[v]) : queue[v][i] \in Message
        BY OfWorker
      <3>. QED BY <3>1 DEF Message
    <2>2. \A s \in Runs : turn[s] # "unsent" => turn'[s] = turn[s]
      BY <1>1, <1>6
    <2>. QED BY <1>7, <1>10, <2>1, <2>2, OfWorker DEF QueueAgrees
  <1>15. \A v \in Runs : HandlingAgrees(v)'
    <2>. TAKE v \in Runs
    <2>1. handling[v] # Silent => handling[v].turn \in Runs
      BY OfWorker DEF Handled
    <2>2. \A s \in Runs : turn[s] # "unsent" => turn'[s] = turn[s]
      BY <1>1, <1>6
    <2>. QED BY <1>7, <1>10, <2>1, <2>2, OfWorker DEF HandlingAgrees
  <1>16. \A s, t \in Runs : OneStarts(s, t)'
    <2>. TAKE s, t \in Runs
    <2>1. (Starting(s)' => Starting(s)) /\ (Starting(t)' => Starting(t))
      BY <1>4 DEF Starting
    <2>. QED BY <1>7, <2>1 DEF RuntimeAgrees, OneStarts, Of
  <1>17. MapAgrees' /\ CurrentAgrees'
    BY <1>7 DEF RuntimeAgrees, MapAgrees, CurrentAgrees, Made, Gone, history
  <1>. QED BY <1>8, <1>9, <1>11, <1>12, <1>13, <1>14, <1>15, <1>16, <1>17, Together

-----------------------------------------------------------------------------
(* receive *)

\* What Codex wrote is of a run that the worker holds, unless the worker has ended.
LEMMA HeadRegards ==
  ASSUME RuntimeAgrees, NEW w \in Runs, queue[w] # <<>>
  PROVE  LET m == Head(queue[w]) IN
         /\ m \in Message /\ Regards(w, m.run) /\ turn[m.run] # "unsent"
         /\ m.kind = "completed" => Tail(queue[w]) = <<>> /\ turn[m.run] = "over"
  <1>1. queue[w] \in Seq(Message) /\ Len(queue[w]) \in Nat /\ Len(queue[w]) >= 1
    BY OfWorker
  <1>2. Head(queue[w]) = queue[w][1] /\ 1 \in 1..Len(queue[w]) /\ queue[w][1] \in Message
    BY <1>1
  <1>3. QueueAgrees(w)
    BY OfWorker
  <1>4. Len(queue[w]) = 1 => Tail(queue[w]) = <<>>
    <2>1. Tail(queue[w]) \in Seq(Message) /\ Len(Tail(queue[w])) = Len(queue[w]) - 1
      BY <1>1, HeadTailProperties
    <2>2. Len(Tail(queue[w])) = 0 => Tail(queue[w]) = <<>>
      BY <2>1, EmptySeq
    <2>. QED BY <1>1, <2>1, <2>2
  <1>. QED BY <1>2, <1>3, <1>4 DEF QueueAgrees

LEMMA ReceiveKeeps == ASSUME RuntimeAgrees, NEW w \in Runs, Receive(w) PROVE RuntimeAgrees'
  <1>1. Made(w) /\ handling[w] = Silent /\ queue[w] # <<>>
    BY MadeIf DEF Receive
  <1>0. PICK m \in Message, t \in Seq(Message) : m = Head(queue[w]) /\ t = Tail(queue[w])
    BY <1>1, HeadTailProperties, OfWorker
  <1>2. /\ Regards(w, m.run) /\ turn[m.run] # "unsent"
        /\ m.kind = "completed" => t = <<>> /\ turn[m.run] = "over"
    BY <1>0, <1>1, HeadRegards
  <1>3. /\ queue \in [Runs -> Seq(Message)] /\ worker \in [Runs -> WorkerRecord]
        /\ handling \in [Runs -> {Silent} \cup Handled] /\ server \in [Runs -> ServerRecord]
    BY Types DEF RuntimeAgrees
  <1>4. queue' = [queue EXCEPT ![w] = t]
        /\ UNCHANGED <<call, start, current, interrupt, stop, turn, history>>
    BY <1>0 DEF Receive
  <1>5. /\ Len(t) = Len(queue[w]) - 1 /\ Len(queue[w]) \in Nat
        /\ \A i \in 1..Len(t) : i + 1 \in 1..Len(queue[w]) /\ t[i] = queue[w][i + 1]
    BY <1>0, <1>1, HeadTailProperties, OfWorker
  <1>6. \A v \in Runs : Marked(v) =>
           \A r : Regards(v, r)' <=> Regards(v, r)
    BY DEF Regards, Ended, Has, Marked
  <1>7. ASSUME \A v \in Runs : Marked(v)
        PROVE  \A v \in Runs : QueueAgrees(v)'
    <2>. TAKE v \in Runs
    <2>1. CASE v # w
      BY <1>3, <1>4, <1>6, <1>7, <2>1, OfWorker DEF QueueAgrees
    <2>2. CASE v = w
      <3>1. queue'[v] = t
        BY <1>3, <1>4, <2>2
      <3>2. QueueAgrees(w)
        BY OfWorker
      <3>3. ASSUME NEW i \in 1..Len(t)
            PROVE  /\ Regards(v, t[i].run)' /\ turn'[t[i].run] # "unsent"
                   /\ t[i].kind = "completed" => i = Len(t) /\ turn'[t[i].run] = "over"
        <4>1. i + 1 \in 1..Len(queue[w]) /\ t[i] = queue[w][i + 1]
          BY <1>5
        <4>2. /\ Regards(w, t[i].run) /\ turn[t[i].run] # "unsent"
              /\ t[i].kind = "completed" => i + 1 = Len(queue[w]) /\ turn[t[i].run] = "over"
          BY <3>2, <4>1 DEF QueueAgrees
        <4>. QED BY <1>4, <1>5, <1>6, <1>7, <2>2, <4>2
      <3>. QED BY <3>1, <3>3 DEF QueueAgrees
    <2>. QED BY <2>1, <2>2
  <1>8. CASE UNCHANGED <<worker, server, handling>>
    <2>1. \A v \in Runs : Marked(v)
      BY <1>8, OfWorker DEF Marked, WorkerAgrees
    <2>2. \A v \in Runs : StaysFresh(v)
      BY <1>1, <1>3, <1>4, <1>8, OfWorker DEF StaysFresh, FreshAgrees
    <2>3. \A v \in Runs : HandlingAgrees(v)'
      <3>. TAKE v \in Runs
      <3>1. handling[v] = Silent \/ (v # w /\ queue'[v] = queue[v])
        BY <1>1, <1>3, <1>4
      <3>. QED BY <1>4, <1>6, <1>8, <2>1, <3>1, OfWorker DEF HandlingAgrees
    <2>. QED BY <1>3, <1>4, <1>7, <1>8, <2>1, <2>2, <2>3, MarksKeep, Types
             DEF RuntimeAgrees, history, Goes
  <1>9. CASE ~Ignored(w, m)
    <2>1. /\ handling' = [handling EXCEPT ![w] = [kind |-> m.kind, run |-> m.run,
                                                 turn |-> worker[w].active]]
          /\ worker' = IF m.kind = "started" THEN [worker EXCEPT ![w].id = m.run] ELSE worker
          /\ server' = server \/ server' = [server EXCEPT ![w] = Killed(server[w])]
      BY <1>0, <1>9 DEF Receive
    <2>2. worker[w].active = m.run /\ m.run \in Runs /\ m.kind \in Kinds
      BY <1>2, <1>9 DEF Ignored, Regards, Ended, Has, Message
    <2>3. worker' \in [Runs -> WorkerRecord]
      <3>1. CASE m.kind = "started"
        <4>1. [worker[w] EXCEPT !.id = m.run] \in WorkerRecord
          <5>1. worker[w] \in WorkerRecord
            BY <1>3
          <5>. QED BY <2>2, <5>1 DEF WorkerRecord, Maybe
        <4>2. worker' = [worker EXCEPT ![w] = [worker[w] EXCEPT !.id = m.run]]
          BY <2>1, <3>1
        <4>. QED BY <1>3, <4>1, <4>2
      <3>2. CASE m.kind # "started"
        BY <1>3, <2>1, <3>2
      <3>. QED BY <3>1, <3>2
    <2>4. \A v \in Runs : Marked(v)
      BY <1>3, <2>1, <2>2, OfWorker DEF Marked, WorkerAgrees, WorkerRecord
    <2>5. server' = server \/ Ails(w)
      BY <2>1, ServerIsSane, KilledIsWorse, WorseAils
    <2>6. /\ handling' \in [Runs -> {Silent} \cup Handled]
          /\ \A v \in Runs : v # w => handling'[v] = handling[v]
          /\ handling'[w].kind = m.kind /\ handling'[w].run = m.run /\ handling'[w].turn = m.run
      <3>1. [kind |-> m.kind, run |-> m.run, turn |-> m.run] \in Handled
        BY <2>2 DEF Handled
      <3>. QED BY <1>3, <2>1, <2>2, <3>1
    <2>7. \A v \in Runs : StaysFresh(v)
      BY <1>1, <1>3, <1>4, <2>1, OfWorker DEF StaysFresh, FreshAgrees
    <2>8. \A v \in Runs : HandlingAgrees(v)'
      <3>. TAKE v \in Runs
      <3>1. CASE v # w
        <4>1. queue'[v] = queue[v] /\ handling'[v] = handling[v]
          BY <1>3, <1>4, <2>6, <3>1
        <4>. QED BY <1>4, <1>6, <2>4, <4>1, OfWorker DEF HandlingAgrees
      <3>2. CASE v = w
        <4>1. call[m.run].worker = w
          BY <2>2, OfWorker, ConstantAssumption DEF WorkerAgrees
        <4>2. queue'[w] = t /\ Regards(w, m.run)'
          BY <1>2, <1>3, <1>4, <1>6, <2>4
        <4>3. /\ turn'[m.run] # "unsent"
              /\ m.kind = "completed" => queue'[w] = <<>> /\ turn'[m.run] = "over"
          BY <1>2, <1>4, <4>2
        <4>. QED BY <1>4, <2>6, <3>2, <4>1, <4>2, <4>3 DEF HandlingAgrees
      <3>. QED BY <3>1, <3>2
    <2>9. queue' \in [Runs -> Seq(Message)]
      BY <1>3, <1>4
    <2>10. server' = server \/ \E v \in Runs : Ails(v)
      BY <2>5
    <2>11. start' \in [Runs -> StartRecord] /\ stops' \in 0..MaxStops /\ interrupt' \subseteq Runs
      BY <1>4, Types DEF RuntimeAgrees, history
    <2>. QED BY <1>4, <1>7, <2>3, <2>4, <2>6, <2>7, <2>8, <2>9, <2>10, <2>11, MarksKeep
             DEF history, Goes
  <1>. QED BY <1>0, <1>8, <1>9 DEF Receive

\* A completion of the turn that the worker holds resolves it; after the end of the worker
\* it resolves nothing.
LEMMA ResolveKeeps ==
  ASSUME RuntimeAgrees, NEW w \in Runs, handling[w] # Silent, handling[w].kind = "completed",
         handling' = [handling EXCEPT ![w] = Silent], Resolve(w),
         UNCHANGED <<start, current, queue, stop, turn, history>>
  PROVE  RuntimeAgrees'
  <1>1. PICK m \in Runs :
           /\ handling[w].turn = m /\ handling[w].run = m /\ Regards(w, m)
           /\ call[m].worker = w /\ queue[w] = <<>> /\ turn[m] = "over"
    <2>1. handling[w].turn \in Runs
      BY OfWorker DEF Handled
    <2>. QED BY <2>1, OfWorker DEF HandlingAgrees
  <1>2. Made(w)
    BY MadeIf
  <1>3. /\ call \in [Runs -> CallRecord] /\ worker \in [Runs -> WorkerRecord]
        /\ handling \in [Runs -> {Silent} \cup Handled]
    BY Types DEF RuntimeAgrees
  <1>4. /\ worker' \in [Runs -> WorkerRecord]
        /\ \A v \in Runs : \/ v # w /\ worker'[v] = worker[v]
                           \/ /\ v = w /\ worker'[v].active = None /\ worker'[v].id = None
                              /\ worker'[v].closed = worker[v].closed
    <2>1. Idle(w) \in WorkerRecord /\ Idle(w).active = None /\ Idle(w).id = None
          /\ Idle(w).closed = worker[w].closed
      BY <1>3 DEF Idle, Fresh, WorkerRecord, Maybe
    <2>2. worker' = [worker EXCEPT ![w] = Idle(w)]
      BY DEF Resolve
    <2>. QED BY <1>3, <2>1, <2>2
  <1>5. /\ call' \in [Runs -> CallRecord]
        /\ \A r \in Runs :
               /\ call'[r].worker = call[r].worker
               /\ \/ worker[w].active # r /\ call'[r] = call[r]
                  \/ worker[w].active = r /\ call'[r].pc = "settled" /\ call'[r].by = r
    <2>1. call' = IF call[m].pc = "running"
                  THEN [call EXCEPT ![m] = [call[m] EXCEPT !.pc = "settled", !.by = m]] ELSE call
      <3>1. call' = IF call[m].pc = "running" THEN Settled(m, m) ELSE call
        BY <1>1 DEF Resolve, Settled
      <3>. QED BY <3>1, Settling DEF Maybe
    <2>2. [call[m] EXCEPT !.pc = "settled", !.by = m] \in CallRecord
      BY Settling DEF Maybe
    <2>3. worker[w].active = m \/ worker[w].active = None
      BY <1>1 DEF Regards, Ended, Has
    <2>4. call[m].pc = "running" <=> worker[w].active = m
      BY <1>1, OfRun, OfWorker, ConstantAssumption DEF CallAgrees, WorkerAgrees
    <2>. QED BY <1>3, <2>1, <2>2, <2>3, <2>4, ConstantAssumption DEF CallRecord
  <1>6. \A v \in Runs : handling'[v] = IF v = w THEN Silent ELSE handling[v]
    BY <1>3
  <1>7. \A v \in Runs : Made(v)' <=> Made(v)
    BY <1>5 DEF Made
  <1>8. UNCHANGED <<start, current, server, queue, interrupt, stop, turn, history>>
    BY DEF Resolve
  <1>9. TypeOK'
    <2>1. handling' \in [Runs -> {Silent} \cup Handled]
      BY <1>3
    <2>. QED BY <1>4, <1>5, <1>8, <2>1, Types, TypesKept DEF RuntimeAgrees, history
  <1>10. \A r \in Runs : CallAgrees(r)'
    <2>. TAKE r \in Runs
    <2>1. (call[r].worker # None => Made(call[r].worker))'
      <3>1. call'[r].worker = call[r].worker
        BY <1>5
      <3>2. call[r].worker # None => call[r].worker \in Runs /\ Made(call[r].worker)
        BY OfRun DEF CallAgrees
      <3>. QED BY <1>5, <3>1, <3>2 DEF Made
    <2>2. CASE worker[w].active = r
      BY <2>1, <2>2, <1>5, <1>8, OfRun DEF CallAgrees
    <2>3. CASE worker[w].active # r
      <3>1. call'[r] = call[r]
        BY <2>3, <1>5
      <3>2. call[r].pc = "running" => worker'[call[r].worker].active = r
        BY <2>3, <1>4, OfRun DEF CallAgrees
      <3>. QED BY <2>1, <3>1, <3>2, <1>8, OfRun DEF CallAgrees
    <2>. QED BY <2>2, <2>3
  <1>11. \A v \in Runs : v # w => \A r : Regards(v, r)' <=> Regards(v, r)
    BY <1>4 DEF Regards, Ended, Has
  <1>12. \A r \in Runs : StartAgrees(r)' /\ TurnAgrees(r)'
    <2>. TAKE r \in Runs
    <2>1. CASE start[r].pc = "none" /\ turn[r] = "unsent"
      BY <1>8, <2>1 DEF StartAgrees, TurnAgrees, Starting
    <2>2. CASE start[r].pc # "none" \/ turn[r] # "unsent"
      <3>1. Of(r) \in Runs /\ Of(r)' = Of(r)
        BY <2>2, <1>5, OfMade DEF Of
      <3>2. StartAgrees(r)'
        <4>1. Of(r) = w /\ Starting(r) => Ended(w)
          BY <1>1, OfRun DEF StartAgrees, Regards, Has
        <4>. QED BY <1>4, <1>8, <3>1, <4>1, OfRun DEF StartAgrees, Starting, Ended
      <3>3. TurnAgrees(r)'
        <4>1. turn[r] \in {"sent", "started"} /\ server[Of(r)].process = "live" => Of(r) # w
          BY <1>1, OfRun, ConstantAssumption DEF TurnAgrees, Regards, Ended, Has
        <4>. QED BY <1>4, <1>8, <3>1, <4>1, OfRun DEF TurnAgrees, Has
      <3>. QED BY <3>2, <3>3
    <2>. QED BY <2>1, <2>2
  <1>13. \A v \in Runs : FreshAgrees(v)' /\ ServerAgrees(v)'
    BY <1>2, <1>4, <1>6, <1>7, <1>8, OfWorker DEF FreshAgrees, ServerAgrees, Gone
  <1>14. \A v \in Runs : WorkerAgrees(v)'
    <2>. TAKE v \in Runs
    <2>1. CASE v = w
      BY <2>1, <1>4 DEF WorkerAgrees
    <2>2. CASE v # w
      <3>1. ASSUME worker[v].active # None
            PROVE  worker[v].active \in Runs /\ worker[v].active # worker[w].active
        BY <2>2, <3>1, OfWorker DEF WorkerAgrees
      <3>2. worker'[v] = worker[v]
        BY <2>2, <1>4
      <3>. QED BY <3>1, <3>2, <1>5, OfWorker DEF WorkerAgrees
    <2>. QED BY <2>1, <2>2
  <1>15. \A v \in Runs : QueueAgrees(v)' /\ HandlingAgrees(v)'
    <2>. TAKE v \in Runs
    <2>1. CASE v = w
      <3>1. handling'[v] = Silent /\ queue'[v] = <<>>
        BY <1>1, <1>6, <1>8, <2>1
      <3>. QED BY <3>1 DEF QueueAgrees, HandlingAgrees
    <2>2. CASE v # w
      <3>1. handling'[v] = handling[v] /\ queue'[v] = queue[v]
        BY <1>6, <1>8, <2>2
      <3>2. QueueAgrees(v)'
        BY <1>8, <1>11, <2>2, <3>1, OfWorker DEF QueueAgrees
      <3>3. handling[v] # Silent => handling[v].turn \in Runs
        BY OfWorker DEF Handled
      <3>4. HandlingAgrees(v)'
        BY <1>5, <1>8, <1>11, <2>2, <3>1, <3>3, OfWorker DEF HandlingAgrees
      <3>. QED BY <3>2, <3>4
    <2>. QED BY <2>1, <2>2
  <1>16. \A r, s \in Runs : OneStarts(r, s)'
    BY <1>5, <1>8 DEF RuntimeAgrees, OneStarts, Starting, Of
  <1>17. MapAgrees'
    BY <1>7, <1>8, Types DEF RuntimeAgrees, MapAgrees, Maybe, StopRecord, history
  <1>18. CurrentAgrees'
    <2>1. \A r \in Runs : call'[r].pc = "waiting" => call'[r] = call[r] /\ call[r].worker \in Runs
      BY <1>5, OfMade
    <2>. QED BY <1>7, <1>8, <2>1 DEF RuntimeAgrees, CurrentAgrees, Gone, history
  <1>. QED BY <1>9, <1>10, <1>12, <1>13, <1>14, <1>15, <1>16, <1>17, <1>18, Together

LEMMA ReceivedKeeps == ASSUME RuntimeAgrees, NEW w \in Runs, Received(w) PROVE RuntimeAgrees'
  <1>1. Made(w) /\ handling[w] # Silent /\ handling' = [handling EXCEPT ![w] = Silent]
        /\ UNCHANGED <<start, current, queue, stop, turn, history>>
    BY MadeIf DEF Received
  <1>2. CASE UNCHANGED <<call, worker, server, interrupt>>
    <2>1. Ails(w)
      BY <1>2, ServerIsSane, Types DEF RuntimeAgrees, Ails, Sane, Gone
    <2>. QED BY <1>1, <1>2, <2>1, AilsKeeps
  <1>3. CASE Interrupting(w)
    BY <1>1, <1>3, InterruptingKeeps, Types DEF RuntimeAgrees, history
  <1>4. CASE handling[w].kind = "completed" /\ Resolve(w)
    BY <1>1, <1>4, ResolveKeeps
  <1>. QED BY <1>2, <1>3, <1>4 DEF Received

-----------------------------------------------------------------------------
(* Codex *)

LEMMA WritesKeep ==
  ASSUME RuntimeAgrees, NEW r \in Runs, NEW kind \in Kinds, NEW before, NEW after,
         before \subseteq {"sent", "started"}, after \in {"started", "over"},
         Writes(r, kind, before, after), kind = "completed" => after = "over",
         stops' \in 0..MaxStops
  PROVE  RuntimeAgrees'
  <1>1. turn[r] \in {"sent", "started"} /\ server[Of(r)].process = "live"
    BY DEF Writes
  <1>2. PICK w \in Runs : w = Of(r) /\ Made(w) /\ Has(w, r) /\ call[r].worker = w
    BY <1>1, OfMade, OfRun DEF TurnAgrees
  <1>3. queue \in [Runs -> Seq(Message)] /\ [kind |-> kind, run |-> r] \in Message
    BY Types DEF RuntimeAgrees, Message
  <1>4. PICK m \in Message : m = [kind |-> kind, run |-> r] /\ m.kind = kind /\ m.run = r
    BY <1>3
  <1>5. /\ queue' \in [Runs -> Seq(Message)]
        /\ \A v \in Runs : v # w => queue'[v] = queue[v]
        /\ queue'[w] = Append(queue[w], m)
    BY <1>2, <1>3, <1>4 DEF Writes
  <1>6. /\ turn' \in [Runs -> {"unsent", "sent", "started", "over"}]
        /\ turn'[r] = after /\ \A s \in Runs : s # r => turn'[s] = turn[s]
    BY Types DEF RuntimeAgrees, Writes
  <1>7. UNCHANGED <<call, start, current, worker, server, handling, interrupt, stop,
                    raced, caught>>
    BY DEF Writes
  <1>8. TypeOK'
    BY <1>5, <1>6, <1>7, Types, TypesKept DEF RuntimeAgrees
  <1>9. \A s \in Runs : CallAgrees(s)'
    <2>. TAKE s \in Runs
    <2>1. turn'[s] # "unsent" <=> turn[s] # "unsent"
      BY <1>1, <1>6
    <2>. QED BY <1>7, <2>1, OfRun DEF CallAgrees, Made
  <1>10. \A s \in Runs : StartAgrees(s)'
    <2>. TAKE s \in Runs
    <2>1. turn'[s] = "unsent" <=> turn[s] = "unsent"
      BY <1>1, <1>6
    <2>. QED BY <1>7, <2>1, OfRun DEF StartAgrees, Starting, Ended, Of
  <1>11. \A s \in Runs : TurnAgrees(s)'
    <2>. TAKE s \in Runs
    <2>1. CASE s = r
      BY <1>1, <1>2, <1>7, <2>1 DEF TurnAgrees, Has, Of
    <2>2. CASE s # r
      BY <1>6, <1>7, <2>2, OfRun DEF TurnAgrees, Has, Of
    <2>. QED BY <2>1, <2>2
  <1>12. \A v \in Runs : FreshAgrees(v)'
    BY <1>2, <1>5, <1>7, OfWorker DEF FreshAgrees, Made
  <1>13. \A v \in Runs : ServerAgrees(v)' /\ WorkerAgrees(v)'
    BY <1>7, OfWorker DEF ServerAgrees, WorkerAgrees, Gone
  <1>14. \A v \in Runs : \A s : Regards(v, s)' <=> Regards(v, s)
    BY <1>7 DEF Regards, Ended, Has
  <1>15. \A s \in Runs : (turn[s] = "over" => turn'[s] = "over")
                           /\ (turn[s] # "unsent" => turn'[s] # "unsent")
    BY <1>1, <1>6
  <1>16. \A s \in Runs : Regards(w, s) => s = r
    BY <1>2, ConstantAssumption DEF Regards, Ended, Has
  <1>17. \A v \in Runs : QueueAgrees(v)'
    <2>. TAKE v \in Runs
    <2>1. \A i \in 1..Len(queue[v]) :
             /\ queue[v][i].run \in Runs
             /\ Regards(v, queue[v][i].run) /\ turn[queue[v][i].run] # "unsent"
             /\ queue[v][i].kind = "completed" => i = Len(queue[v]) /\ turn[queue[v][i].run] = "over"
      <3>1. \A i \in 1..Len(queue[v]) : queue[v][i] \in Message
        BY OfWorker
      <3>. QED BY <3>1, OfWorker DEF QueueAgrees, Message
    <2>2. CASE v # w
      <3>1. queue'[v] = queue[v]
        BY <1>5, <2>2
      <3>. QED BY <1>14, <1>15, <2>1, <3>1 DEF QueueAgrees
    <2>3. CASE v = w
      <3>1. /\ Len(queue[w]) \in Nat /\ Len(queue'[w]) = Len(queue[w]) + 1
            /\ queue'[w][Len(queue[w]) + 1] = m
            /\ \A i \in 1..Len(queue[w]) : queue'[w][i] = queue[w][i]
        BY <1>5, AppendProperties, OfWorker
      <3>2. ASSUME NEW i \in 1..Len(queue'[w]), NEW n, n = queue'[w][i]
            PROVE  /\ Regards(w, n.run)' /\ turn'[n.run] # "unsent"
                   /\ n.kind = "completed" => i = Len(queue'[w]) /\ turn'[n.run] = "over"
        <4>1. CASE i = Len(queue[w]) + 1
          <5>1. n.run = r /\ n.kind = kind
            BY <1>4, <3>1, <3>2, <4>1
          <5>. QED BY <1>2, <1>6, <1>14, <3>1, <4>1, <5>1 DEF Regards
        <4>2. CASE i # Len(queue[w]) + 1
          <5>1. i \in 1..Len(queue[w]) /\ n = queue[w][i]
            BY <3>1, <3>2, <4>2
          <5>2. n.run = r /\ Regards(w, n.run) /\ turn'[n.run] # "unsent"
            BY <1>15, <1>16, <2>1, <2>3, <5>1
          <5>3. n.kind # "completed"
            BY <1>1, <2>1, <2>3, <5>1, <5>2
          <5>. QED BY <1>14, <5>2, <5>3
        <4>. QED BY <4>1, <4>2
      <3>. QED BY <2>3, <3>2 DEF QueueAgrees
    <2>. QED BY <2>2, <2>3
  <1>18. \A v \in Runs : HandlingAgrees(v)'
    <2>. TAKE v \in Runs
    <2>1. CASE handling[v] = Silent
      BY <1>7, <2>1 DEF HandlingAgrees
    <2>2. CASE handling[v] # Silent
      <3>1. /\ handling[v].turn \in Runs /\ Regards(v, handling[v].turn)
            /\ turn[handling[v].turn] # "unsent"
            /\ handling[v].run = handling[v].turn /\ call[handling[v].turn].worker = v
            /\ handling[v].kind = "completed" => queue[v] = <<>> /\ turn[handling[v].run] = "over"
        BY <2>2, OfWorker DEF HandlingAgrees, Handled
      <3>2. v = w => handling[v].kind # "completed"
        BY <1>1, <1>16, <3>1
      <3>. QED BY <1>5, <1>7, <1>14, <1>15, <3>1, <3>2 DEF HandlingAgrees
    <2>. QED BY <2>1, <2>2
  <1>19. \A s, t \in Runs : OneStarts(s, t)'
    BY <1>7 DEF RuntimeAgrees, OneStarts, Starting, Of
  <1>20. MapAgrees' /\ CurrentAgrees'
    BY <1>7 DEF RuntimeAgrees, MapAgrees, CurrentAgrees, Made, Gone
  <1>. QED BY <1>8, <1>9, <1>10, <1>11, <1>12, <1>13, <1>17, <1>18, <1>19, <1>20, Together

LEMMA CodexKeeps ==
  ASSUME RuntimeAgrees, NEW r \in Runs, TurnStarted(r) \/ TurnCompleted(r) \/ Question(r)
  PROVE  RuntimeAgrees'
  <1>1. stops \in 0..MaxStops
    BY Types DEF RuntimeAgrees
  <1>2. CASE TurnStarted(r)
    BY <1>1, <1>2, WritesKeep DEF TurnStarted, Kinds
  <1>3. CASE TurnCompleted(r)
    BY <1>1, <1>3, WritesKeep DEF TurnCompleted, Kinds
  <1>4. CASE Question(r)
    <2>1. stops' \in 0..MaxStops
      BY <1>1, <1>4, ConstantAssumption DEF Question
    <2>. QED BY <1>4, <2>1, WritesKeep DEF Question, Kinds
  <1>. QED BY <1>2, <1>3, <1>4

-----------------------------------------------------------------------------
(* runTurn *)

\* A call is refused: the manager is stopped, or the worker is busy.
LEMMA RefusedKeeps ==
  ASSUME RuntimeAgrees, NEW r \in Runs, call[r].pc = "idle", call' = Settled(r, None),
         UNCHANGED <<start, current, worker, server, inbox, interrupt, stop, turn, history>>
  PROVE  RuntimeAgrees'
  <1>1. /\ call' \in [Runs -> CallRecord]
        /\ \A s \in Runs : call'[s].worker = call[s].worker /\ (s # r => call'[s] = call[s])
        /\ call'[r].pc = "settled" /\ call'[r].by = None
    <2>1. /\ [call[r] EXCEPT !.pc = "settled", !.by = None] \in CallRecord
          /\ call' = [call EXCEPT ![r] = [call[r] EXCEPT !.pc = "settled", !.by = None]]
      BY Settling DEF Maybe
    <2>. QED BY <2>1, Types DEF RuntimeAgrees, CallRecord
  <1>2. call[r].worker = None /\ start[r].pc = "none" /\ turn[r] = "unsent"
    BY OfRun DEF CallAgrees
  <1>3. \A v \in Runs : Made(v)' <=> Made(v)
    BY <1>1 DEF Made
  <1>4. TypeOK'
    BY <1>1, Types, TypesKept DEF RuntimeAgrees, inbox, history
  <1>5. \A s \in Runs : CallAgrees(s)'
    <2>. TAKE s \in Runs
    <2>1. CASE s = r
      BY <1>1, <1>2, <2>1 DEF CallAgrees
    <2>2. CASE s # r
      <3>1. call'[s] = call[s] /\ (call[s].worker # None => Made(call[s].worker)')
        BY <1>1, <1>3, <2>2, OfRun DEF CallAgrees
      <3>. QED BY <3>1, OfRun DEF CallAgrees, Made
    <2>. QED BY <2>1, <2>2
  <1>6. \A s \in Runs : StartAgrees(s)' /\ TurnAgrees(s)'
    <2>. TAKE s \in Runs
    <2>1. Of(s)' = Of(s)
      BY <1>1 DEF Of
    <2>. QED BY <2>1, OfRun DEF StartAgrees, TurnAgrees, Starting, Ended, Has
  <1>7. \A v \in Runs : FreshAgrees(v)' /\ ServerAgrees(v)'
    BY <1>3, OfWorker DEF FreshAgrees, ServerAgrees, Gone, inbox
  <1>8. \A v \in Runs : WorkerAgrees(v)'
    <2>. TAKE v \in Runs
    <2>1. worker[v].active # None => worker[v].active \in Runs /\ worker[v].active # r
      BY OfWorker DEF WorkerAgrees
    <2>. QED BY <1>1, <2>1, OfWorker DEF WorkerAgrees
  <1>9. \A v \in Runs : QueueAgrees(v)' /\ HandlingAgrees(v)'
    <2>. TAKE v \in Runs
    <2>1. handling[v] # Silent => handling[v].turn \in Runs
      BY OfWorker DEF Handled
    <2>2. QueueAgrees(v)'
      BY OfWorker DEF QueueAgrees, Regards, Ended, Has, inbox
    <2>. QED BY <1>1, <2>1, <2>2, OfWorker DEF HandlingAgrees, Regards, Ended, Has, inbox
  <1>10. \A s, t \in Runs : OneStarts(s, t)'
    BY <1>1 DEF RuntimeAgrees, OneStarts, Starting, Of
  <1>11. MapAgrees'
    BY <1>3, Types DEF RuntimeAgrees, MapAgrees, Maybe, StopRecord, history
  <1>12. CurrentAgrees'
    <2>1. \A s \in Runs : call'[s].pc = "waiting" => call'[s] = call[s] /\ call[s].worker \in Runs
      BY <1>1, OfMade
    <2>. QED BY <1>3, <2>1 DEF RuntimeAgrees, CurrentAgrees, Gone, history
  <1>. QED BY <1>4, <1>5, <1>6, <1>7, <1>8, <1>9, <1>10, <1>11, <1>12, Together

\* A call that has no worker yet is not the worker of another.
LEMMA NotMade ==
  ASSUME RuntimeAgrees, NEW r \in Runs, call[r].pc \in {"idle", "waiting"}
  PROVE  /\ ~Made(r) /\ worker[r] = Fresh /\ server[r] = NewServer
         /\ queue[r] = <<>> /\ handling[r] = Silent
         /\ start[r].pc = "none" /\ turn[r] = "unsent"
  BY OfRun, OfWorker, ConstantAssumption DEF CallAgrees, FreshAgrees, Made

\* What Run does in a worker that is free
RunEffect(w, r) ==
    /\ call' \in [Runs -> CallRecord]
    /\ call'[r].pc = "running" /\ call'[r].worker = w /\ call'[r].by = call[r].by
    /\ \A s \in Runs : s # r => call'[s] = call[s]
    /\ worker' \in [Runs -> WorkerRecord]
    /\ worker'[w].active = r /\ worker'[w].id = None /\ ~worker'[w].closed
    /\ ~worker'[w].dispatched
    /\ \A v \in Runs : v # w => worker'[v] = worker[v]
    /\ start' \in [Runs -> StartRecord]
    /\ start'[r].pc \in {"open", "startup", "throws"}
    /\ start'[r].pc = "open" => server[w].process = "none"
    /\ \A s \in Runs : s # r => start'[s] = start[s]

LEMMA RunHasEffect ==
  ASSUME RuntimeAgrees, NEW w \in Runs, NEW r \in Runs, Run(w, r),
         worker[w].active = None, ~worker[w].closed
  PROVE  RunEffect(w, r)
  <1>1. call \in [Runs -> CallRecord] /\ worker \in [Runs -> WorkerRecord]
        /\ start \in [Runs -> StartRecord]
    BY Types DEF RuntimeAgrees
  <1>2. /\ worker' = [worker EXCEPT ![w] = [Idle(w) EXCEPT !.active = r]]
        /\ call' = [call EXCEPT ![r].pc = "running", ![r].worker = w]
        /\ start' = [start EXCEPT ![r].pc = Started(w)]
    BY DEF Run
  <1>3. /\ [Idle(w) EXCEPT !.active = r] \in WorkerRecord
        /\ [Idle(w) EXCEPT !.active = r].active = r
        /\ [Idle(w) EXCEPT !.active = r].id = None
        /\ ~[Idle(w) EXCEPT !.active = r].closed /\ ~[Idle(w) EXCEPT !.active = r].dispatched
    BY <1>1 DEF Idle, Fresh, WorkerRecord, Maybe
  <1>4. /\ [call[r] EXCEPT !.pc = "running", !.worker = w] \in CallRecord
        /\ call' = [call EXCEPT ![r] = [call[r] EXCEPT !.pc = "running", !.worker = w]]
    BY <1>1, <1>2 DEF CallRecord, Maybe
  <1>5. /\ Started(w) \in {"open", "startup", "throws"}
        /\ Started(w) = "open" => server[w].process = "none"
    BY DEF Started
  <1>6. /\ [start[r] EXCEPT !.pc = Started(w)] \in StartRecord
        /\ start' = [start EXCEPT ![r] = [start[r] EXCEPT !.pc = Started(w)]]
    BY <1>1, <1>2, <1>5 DEF StartRecord
  <1>7. worker' \in [Runs -> WorkerRecord] /\ worker'[w] = [Idle(w) EXCEPT !.active = r]
        /\ \A v \in Runs : v # w => worker'[v] = worker[v]
    BY <1>1, <1>2, <1>3
  <1>8. /\ call' \in [Runs -> CallRecord]
        /\ call'[r].pc = "running" /\ call'[r].worker = w /\ call'[r].by = call[r].by
        /\ \A s \in Runs : s # r => call'[s] = call[s]
    BY <1>1, <1>4 DEF CallRecord
  <1>9. /\ start' \in [Runs -> StartRecord] /\ start'[r].pc = Started(w)
        /\ \A s \in Runs : s # r => start'[s] = start[s]
    BY <1>1, <1>6 DEF StartRecord
  <1>. QED BY <1>3, <1>5, <1>7, <1>8, <1>9 DEF RunEffect

\* A worker that is free and not closed has nothing under way.
LEMMA FreeWorker ==
  ASSUME RuntimeAgrees, NEW w \in Runs, worker[w].active = None, ~worker[w].closed
  PROVE  /\ \A r \in Runs : Of(r) = w => ~Starting(r)
         /\ \A r \in Runs : Of(r) = w /\ server[w].process = "live" =>
                              turn[r] \notin {"sent", "started"}
         /\ \A r \in Runs : call[r].pc = "running" => call[r].worker # w
         /\ handling[w] = Silent /\ Len(queue[w]) = 0
  <1>1. \A r \in Runs : ~Regards(w, r)
    BY ConstantAssumption DEF Regards, Ended, Has
  <1>2. handling[w] = Silent
    BY <1>1, OfWorker DEF HandlingAgrees, Handled
  <1>3. ASSUME Len(queue[w]) # 0 PROVE FALSE
    <2>1. Len(queue[w]) \in Nat
      BY OfWorker
    <2>2. 1 \in 1..Len(queue[w])
      BY <1>3, <2>1
    <2>3. queue[w][1] \in Message
      BY <2>2, OfWorker
    <2>. QED BY <1>1, <2>2, <2>3, OfWorker DEF QueueAgrees, Message
  <1>4. \A r \in Runs : Of(r) = w => ~Starting(r)
    BY OfRun, ConstantAssumption DEF StartAgrees, Ended
  <1>5. \A r \in Runs : Of(r) = w /\ server[w].process = "live" =>
                              turn[r] \notin {"sent", "started"}
    BY OfRun, ConstantAssumption DEF TurnAgrees, Has
  <1>6. \A r \in Runs : call[r].pc = "running" => call[r].worker # w
    BY OfRun, ConstantAssumption DEF CallAgrees
  <1>. QED BY <1>2, <1>3, <1>4, <1>5, <1>6

LEMMA RunKeeps ==
  ASSUME RuntimeAgrees, NEW w \in Runs, NEW r \in Runs,
         call[r].pc \in {"idle", "waiting"}, w = r \/ Made(w),
         worker[w].active = None, ~worker[w].closed, RunEffect(w, r),
         UNCHANGED <<server, inbox, interrupt, stop, turn, history>>,
         current' \in Maybe(Runs), MapAgrees', CurrentAgrees'
  PROVE  RuntimeAgrees'
  <1>1. ~Made(r) /\ start[r].pc = "none" /\ turn[r] = "unsent"
    BY NotMade
  <1>2. \A v \in Runs : Made(v)' <=> (Made(v) \/ v = w)
    BY <1>1 DEF Made, RunEffect
  <1>3. TypeOK'
    BY Types, TypesKept DEF RuntimeAgrees, RunEffect, inbox, history
  <1>4. \A s \in Runs : CallAgrees(s)'
    <2>. TAKE s \in Runs
    <2>1. CASE s = r
      <3>1. call'[r].worker = w /\ Made(w)' /\ w # None
        BY <1>2, ConstantAssumption DEF RunEffect
      <3>. QED BY <2>1, <3>1, OfRun DEF CallAgrees, RunEffect, Made
    <2>2. CASE s # r
      <3>1. call'[s] = call[s] /\ start'[s] = start[s]
        BY <2>2 DEF RunEffect
      <3>2. call[s].worker # None => (call[s].worker \in Runs /\ Made(call[s].worker)')
        <4>1. call[s].worker # None => call[s].worker \in Runs /\ Made(call[s].worker)
          BY OfRun DEF CallAgrees
        <4>. QED BY <1>2, <3>1, <4>1 DEF Made
      <3>3. call[s].pc = "running" => worker'[call[s].worker].active = s
        BY FreeWorker, OfRun DEF CallAgrees, RunEffect
      <3>. QED BY <3>1, <3>2, <3>3, OfRun DEF CallAgrees, Made
    <2>. QED BY <2>1, <2>2
  <1>5. \A s \in Runs : StartAgrees(s)' /\ TurnAgrees(s)'
    <2>. TAKE s \in Runs
    <2>1. CASE s = r
      BY <1>1, <2>1 DEF StartAgrees, TurnAgrees, Starting, Of, RunEffect
    <2>2. CASE s # r /\ start[s].pc = "none" /\ turn[s] = "unsent"
      BY <2>2 DEF StartAgrees, TurnAgrees, Starting, RunEffect
    <2>3. CASE s # r /\ (start[s].pc # "none" \/ turn[s] # "unsent")
      <3>1. PICK v \in Runs : v = call[s].worker
        BY <2>3, OfMade
      <3>2. call'[s] = call[s] /\ start'[s] = start[s]
        BY <2>3 DEF RunEffect
      <3>3. StartAgrees(s) /\ TurnAgrees(s)
        BY OfRun
      <3>4. CASE v = w
        BY <3>1, <3>2, <3>3, <3>4, FreeWorker DEF StartAgrees, TurnAgrees, Starting, Of
      <3>5. CASE v # w
        <4>1. worker'[v] = worker[v]
          BY <3>5 DEF RunEffect
        <4>2. TurnAgrees(s)'
          BY <3>1, <3>2, <3>3, <4>1 DEF TurnAgrees, Has, Of
        <4>. QED BY <3>1, <3>2, <3>3, <4>1, <4>2 DEF StartAgrees, Starting, Ended, Of
      <3>. QED BY <3>4, <3>5
    <2>. QED BY <2>1, <2>2, <2>3
  <1>6. \A v \in Runs : FreshAgrees(v)'
    BY <1>2, OfWorker DEF FreshAgrees, RunEffect, inbox
  <1>7. \A v \in Runs : ServerAgrees(v)'
    <2>. TAKE v \in Runs
    <2>1. worker'[v].closed => worker[v].closed
      BY DEF RunEffect
    <2>. QED BY <2>1, OfWorker DEF ServerAgrees, Gone
  <1>8. \A v \in Runs : WorkerAgrees(v)'
    <2>. TAKE v \in Runs
    <2>1. CASE v = w
      BY <2>1 DEF WorkerAgrees, RunEffect
    <2>2. CASE v # w
      <3>1. worker[v].active # None => worker[v].active \in Runs /\ worker[v].active # r
        BY OfWorker DEF WorkerAgrees
      <3>. QED BY <2>2, <3>1, OfWorker DEF WorkerAgrees, RunEffect
    <2>. QED BY <2>1, <2>2
  <1>9. \A v \in Runs : QueueAgrees(v)' /\ HandlingAgrees(v)'
    <2>. TAKE v \in Runs
    <2>1. CASE v = w
      BY <2>1, FreeWorker DEF QueueAgrees, HandlingAgrees, inbox
    <2>2. CASE v # w
      <3>1. \A s : Regards(v, s)' <=> Regards(v, s)
        BY <2>2 DEF Regards, Ended, Has, RunEffect
      <3>2. QueueAgrees(v)'
        BY <3>1, OfWorker DEF QueueAgrees, inbox
      <3>3. handling[v] # Silent => handling[v].turn \in Runs
        BY OfWorker DEF Handled
      <3>4. handling[v] # Silent => handling[v].turn # r
        BY <1>1, OfWorker DEF HandlingAgrees
      <3>. QED BY <3>1, <3>2, <3>3, <3>4, OfWorker DEF HandlingAgrees, RunEffect, inbox
    <2>. QED BY <2>1, <2>2
  <1>10. \A s, t \in Runs : OneStarts(s, t)'
    <2>. TAKE s, t \in Runs
    <2>1. \A x \in Runs : x # r => /\ Of(x)' = Of(x) /\ (Starting(x)' <=> Starting(x))
                                   /\ Starting(x) => Of(x) # w
      BY FreeWorker DEF Of, Starting, RunEffect
    <2>2. Of(r)' = w
      BY DEF Of, RunEffect
    <2>. QED BY <2>1, <2>2 DEF RuntimeAgrees, OneStarts
  <1>. QED BY <1>3, <1>4, <1>5, <1>6, <1>7, <1>8, <1>9, <1>10, Together

LEMMA CallKeeps == ASSUME RuntimeAgrees, NEW r \in Runs, Call(r) PROVE RuntimeAgrees'
  <1>1. /\ call[r].pc = "idle" /\ UNCHANGED <<inbox, interrupt, stop, turn, stops, caught>>
        /\ call[r].worker = None
    BY OfRun DEF Call, CallAgrees
  <1>2. current # None => current \in Runs /\ Made(current) /\ current # r
    BY NotMade, <1>1, Types DEF RuntimeAgrees, MapAgrees, Maybe
  <1>3. /\ call \in [Runs -> CallRecord] /\ server \in [Runs -> ServerRecord]
        /\ current \in Maybe(Runs) /\ stop \in StopRecord
    BY Types DEF RuntimeAgrees
  <1>4. \A s \in Runs : call[s].pc = "waiting" => call[s].worker \in Runs
    BY OfMade
  <1>5. CASE stop.pc # "running"
    BY <1>1, <1>5, RefusedKeeps DEF Call, history
  <1>6. CASE stop.pc = "running" /\ current = None
    <2>1. worker[r].active = None /\ ~worker[r].closed
      BY <1>1, NotMade, RecordsTyped
    <2>2. RunEffect(r, r) /\ current' = r /\ UNCHANGED <<server, raced>>
      BY <1>6, <2>1, RunHasEffect DEF Call
    <2>3. \A v \in Runs : Made(v)' <=> (Made(v) \/ v = r)
      BY <1>1, <1>3, ConstantAssumption, <2>2 DEF Made, RunEffect
    <2>4. MapAgrees'
      BY <1>1, <1>3, <2>2, <2>3 DEF RuntimeAgrees, MapAgrees, StopRecord, Maybe, history
    <2>5. CurrentAgrees'
      <3>1. CASE raced \/ caught
        BY <1>1, <2>2, <3>1 DEF CurrentAgrees
      <3>2. CASE ~raced /\ ~caught
        <4>1. \A v \in Runs : Made(v) => Gone(v)
          BY <1>6, <3>2, ConstantAssumption DEF RuntimeAgrees, CurrentAgrees
        <4>2. \A s \in Runs : call[s].pc # "waiting"
          BY <1>4, <1>6, <3>2, ConstantAssumption DEF RuntimeAgrees, CurrentAgrees
        <4>3. \A s \in Runs : call'[s].pc # "waiting"
          BY <2>2, <4>2 DEF RunEffect
        <4>. QED BY <1>1, <1>6, <2>2, <2>3, <4>1, <4>3 DEF CurrentAgrees, Gone
      <3>. QED BY <3>1, <3>2
    <2>. QED BY <1>1, <2>1, <2>2, <2>4, <2>5, RunKeeps DEF history, Maybe
  <1>7. CASE stop.pc = "running" /\ current # None /\ ~worker[current].closed
    <2>1. PICK w \in Runs : w = current /\ Made(w) /\ w # r
      BY <1>2, <1>7
    <2>2. Run(w, r) /\ UNCHANGED <<current, server, raced>>
      BY <1>7, <2>1 DEF Call
    <2>3. CASE worker[w].active # None
      BY <1>1, <2>2, <2>3, RefusedKeeps DEF Run, history
    <2>4. CASE worker[w].active = None
      <3>1. RunEffect(w, r)
        BY <1>7, <2>1, <2>2, <2>4, RunHasEffect
      <3>2. \A v \in Runs : Made(v)' <=> Made(v)
        BY <1>1, <2>1, <3>1, ConstantAssumption DEF Made, RunEffect
      <3>3. MapAgrees'
        BY <1>1, <1>3, <2>2, <3>2 DEF RuntimeAgrees, MapAgrees, StopRecord, Maybe, history
      <3>4. CurrentAgrees'
        <4>1. \A s \in Runs : call'[s].pc = "waiting" => call'[s] = call[s]
          BY <3>1 DEF RunEffect
        <4>. QED BY <1>1, <1>4, <2>2, <3>2, <4>1 DEF RuntimeAgrees, CurrentAgrees, Gone
      <3>. QED BY <1>1, <1>3, <1>7, <2>1, <2>2, <2>4, <3>1, <3>3, <3>4, RunKeeps DEF history
    <2>. QED BY <2>3, <2>4
  <1>8. CASE stop.pc = "running" /\ current # None /\ worker[current].closed
    <2>1. PICK w \in Runs : w = current /\ Made(w) /\ w # r /\ worker[w].closed
      BY <1>2, <1>8
    <2>2. /\ call' = [call EXCEPT ![r].pc = "waiting", ![r].worker = w]
          /\ server' = [server EXCEPT ![w] = Closing(server[w])]
          /\ raced' = (raced \/ \E other \in Runs : call[other].pc = "waiting")
          /\ UNCHANGED <<current, worker, start>>
      BY <1>8, <2>1 DEF Call
    <2>3. /\ call' \in [Runs -> CallRecord]
          /\ call'[r].pc = "waiting" /\ call'[r].worker = w /\ call'[r].by = call[r].by
          /\ \A s \in Runs : s # r => call'[s] = call[s]
      <3>1. /\ [call[r] EXCEPT !.pc = "waiting", !.worker = w] \in CallRecord
            /\ call' = [call EXCEPT ![r] = [call[r] EXCEPT !.pc = "waiting", !.worker = w]]
        BY <1>3, <2>2 DEF CallRecord, Maybe
      <3>. QED BY <1>3, <3>1 DEF CallRecord
    <2>4. Ails(w)
      BY <2>2, ServerIsSane, ClosingIsWorse, WorseAils
    <2>5. \A v \in Runs : /\ Gone(v) => Gone(v)'
                          /\ Made(v)' <=> Made(v)
                          /\ server'[v].process = "live" => server[v].process = "live"
                          /\ server'[v].process = "none" <=> server[v].process = "none"
      BY <1>1, <2>1, <2>3, <2>4, ConstantAssumption DEF Ails, Gone, Made
    <2>6. /\ UNCHANGED <<queue, handling>> /\ raced' \in BOOLEAN
          /\ start[r].pc = "none" /\ turn[r] = "unsent"
      BY <1>1, <2>2, NotMade, Types DEF RuntimeAgrees, inbox
    <2>7. TypeOK'
      BY <1>1, <2>2, <2>3, <2>4, <2>6, Types, TypesKept DEF RuntimeAgrees, Ails
    <2>8. \A s \in Runs : CallAgrees(s)'
      <3>. TAKE s \in Runs
      <3>1. CASE s = r
        <4>1. Made(w)'
          BY <2>1, <2>5
        <4>. QED BY <1>1, <2>1, <2>2, <2>3, <2>6, <3>1, <4>1, ConstantAssumption, OfRun
                 DEF CallAgrees, Made
      <3>2. CASE s # r
        <4>1. call'[s] = call[s]
          BY <2>3, <3>2
        <4>2. call[s].worker # None => (call[s].worker \in Runs /\ Made(call[s].worker)')
          <5>1. call[s].worker # None => call[s].worker \in Runs /\ Made(call[s].worker)
            BY OfRun DEF CallAgrees
          <5>. QED BY <2>5, <4>1, <5>1 DEF Made
        <4>3. CallAgrees(s) /\ UNCHANGED <<start, worker, turn>>
          BY <1>1, <2>2, OfRun
        <4>. QED BY <4>1, <4>2, <4>3 DEF CallAgrees, Made
      <3>. QED BY <3>1, <3>2
    <2>9. \A s \in Runs : StartAgrees(s)' /\ TurnAgrees(s)'
      <3>. TAKE s \in Runs
      <3>1. CASE start[s].pc = "none" /\ turn[s] = "unsent"
        BY <1>1, <2>2, <3>1 DEF StartAgrees, TurnAgrees, Starting
      <3>2. CASE start[s].pc # "none" \/ turn[s] # "unsent"
        <4>1. call'[s] = call[s] /\ Of(s) \in Runs /\ Of(s)' = Of(s)
          BY <2>3, <2>6, <3>2, OfMade DEF Of
        <4>2. StartAgrees(s)'
          BY <1>1, <2>2, <2>5, <4>1, OfRun DEF StartAgrees, Starting, Ended
        <4>3. TurnAgrees(s)'
          BY <1>1, <2>2, <2>5, <4>1, OfRun DEF TurnAgrees, Has
        <4>. QED BY <4>2, <4>3
      <3>. QED BY <3>1, <3>2
    <2>10. \A v \in Runs : FreshAgrees(v)' /\ ServerAgrees(v)'
      <3>. TAKE v \in Runs
      <3>1. FreshAgrees(v)'
        BY <1>1, <2>1, <2>2, <2>4, <2>5, <2>6, OfWorker DEF FreshAgrees, Ails
      <3>2. ServerAgrees(v)'
        BY <2>2, <2>4, <2>5, OfWorker DEF ServerAgrees, Ails, Gone
      <3>. QED BY <3>1, <3>2
    <2>11. \A v \in Runs : WorkerAgrees(v)'
      <3>. TAKE v \in Runs
      <3>1. worker[v].active # None => worker[v].active \in Runs /\ worker[v].active # r
        BY <1>1, OfWorker DEF WorkerAgrees
      <3>. QED BY <2>2, <2>3, <3>1, OfWorker DEF WorkerAgrees
    <2>12. \A v \in Runs : QueueAgrees(v)' /\ HandlingAgrees(v)'
      <3>. TAKE v \in Runs
      <3>1. handling[v] # Silent => handling[v].turn \in Runs /\ handling[v].turn # r
        BY <2>6, OfWorker DEF Handled, HandlingAgrees
      <3>2. QueueAgrees(v)'
        BY <1>1, <2>2, <2>6, OfWorker DEF QueueAgrees, Regards, Ended, Has
      <3>. QED BY <1>1, <2>2, <2>3, <2>6, <3>1, <3>2, OfWorker
               DEF HandlingAgrees, Regards, Ended, Has
    <2>13. \A s, t \in Runs : OneStarts(s, t)'
      BY <2>2, <2>3, <2>6 DEF RuntimeAgrees, OneStarts, Starting, Of
    <2>14. MapAgrees'
      BY <1>1, <1>3, <2>2, <2>5 DEF RuntimeAgrees, MapAgrees, Maybe, StopRecord, history
    <2>15. CurrentAgrees'
      <3>1. CASE raced' \/ caught
        BY <1>1, <3>1 DEF CurrentAgrees
      <3>2. CASE ~raced' /\ ~caught
        <4>1. ~raced /\ \A s \in Runs : call[s].pc # "waiting"
          BY <2>2, <3>2
        <4>2. \A s \in Runs : call'[s].pc = "waiting" => s = r
          BY <2>3, <4>1
        <4>3. Gone(w)'
          BY <2>1, <2>5, OfWorker DEF ServerAgrees
        <4>4. \A v \in Runs : (Made(v) /\ ~Gone(v))' => v = current
          BY <2>5, <3>2, <4>1 DEF RuntimeAgrees, CurrentAgrees
        <4>. QED BY <1>1, <1>8, <2>1, <2>2, <2>3, <4>2, <4>3, <4>4 DEF CurrentAgrees
      <3>. QED BY <3>1, <3>2
    <2>. QED BY <2>7, <2>8, <2>9, <2>10, <2>11, <2>12, <2>13, <2>14, <2>15, Together
  <1>. QED BY <1>5, <1>6, <1>7, <1>8

LEMMA ReplaceKeeps == ASSUME RuntimeAgrees, NEW r \in Runs, Replace(r) PROVE RuntimeAgrees'
  <1>1. /\ call[r].pc = "waiting" /\ current' = r /\ Run(r, r)
        /\ UNCHANGED <<server, inbox, interrupt, stop, turn, history>>
    BY DEF Replace
  <1>2. worker[r].active = None /\ ~worker[r].closed /\ ~Made(r)
    BY <1>1, NotMade, RecordsTyped
  <1>3. RunEffect(r, r)
    BY <1>1, <1>2, RunHasEffect
  <1>4. \A v \in Runs : Made(v)' <=> (Made(v) \/ v = r)
    BY <1>2, <1>3 DEF Made, RunEffect
  <1>5. MapAgrees'
    BY <1>1, <1>3, <1>4, Types DEF RuntimeAgrees, MapAgrees, Maybe, StopRecord, history
  <1>6. CurrentAgrees'
    <2>1. CASE raced \/ caught
      BY <1>1, <2>1 DEF CurrentAgrees, history
    <2>2. CASE ~raced /\ ~caught
      <3>1. /\ Gone(current) /\ stop.pc = "running"
            /\ \A s \in Runs : call[s].pc = "waiting" => s = r
            /\ \A v \in Runs : Made(v) => Gone(v)
        BY <1>1, <2>2 DEF RuntimeAgrees, CurrentAgrees
      <3>2. \A s \in Runs : call'[s].pc # "waiting"
        BY <1>3, <3>1 DEF RunEffect
      <3>. QED BY <1>1, <1>4, <3>1, <3>2 DEF CurrentAgrees, Gone
    <2>. QED BY <2>1, <2>2
  <1>. QED BY <1>1, <1>2, <1>3, <1>5, <1>6, RunKeeps DEF Maybe

-----------------------------------------------------------------------------
(* The stop of the manager *)

\* The worker in the map is told to stop, and nothing else changes.
StopEffect(v) ==
    /\ worker'[v].active = worker[v].active /\ worker'[v].id = worker[v].id
    /\ worker'[v].dispatched = worker[v].dispatched
    /\ worker[v].closed => worker'[v].closed
    /\ Gone(v) => Gone(v)'
    /\ server'[v].process = "live" => server[v].process = "live"
    /\ server'[v].process = "none" <=> server[v].process = "none"
    /\ ~Made(v) => worker'[v] = worker[v] /\ server'[v] = server[v]

LEMMA StopHasEffect ==
  ASSUME RuntimeAgrees, Stop
  PROVE  /\ worker' \in [Runs -> WorkerRecord] /\ server' \in [Runs -> ServerRecord]
         /\ \A v \in Runs : StopEffect(v) /\ ServerAgrees(v)'
  <1>1. /\ worker \in [Runs -> WorkerRecord] /\ server \in [Runs -> ServerRecord]
        /\ current \in Maybe(Runs)
    BY Types DEF RuntimeAgrees
  <1>2. CASE current = None
    <2>1. UNCHANGED <<worker, server>>
      BY <1>2 DEF Stop
    <2>. QED BY <1>1, <2>1, OfWorker DEF StopEffect, ServerAgrees, Gone
  <1>3. CASE current # None
    <2>1. PICK w \in Runs : w = current /\ Made(w)
      BY <1>1, <1>3 DEF Maybe, RuntimeAgrees, MapAgrees
    <2>2. /\ server' = [server EXCEPT ![w] = Closing(server[w])]
          /\ worker' = [worker EXCEPT ![w] = [worker[w] EXCEPT !.closed = TRUE]]
      BY <1>3, <2>1 DEF Stop
    <2>3. Ails(w) /\ Gone(w)'
      <3>1. Worse(server[w], Closing(server[w]))
            /\ (Closing(server[w]).closed \/ Closing(server[w]).process = "dead")
        BY ServerIsSane, ClosingIsWorse
      <3>. QED BY <2>2, <3>1, WorseAils DEF Gone
    <2>4. [worker[w] EXCEPT !.closed = TRUE] \in WorkerRecord
      BY <1>1 DEF WorkerRecord
    <2>5. /\ worker' \in [Runs -> WorkerRecord]
          /\ worker'[w] = [worker[w] EXCEPT !.closed = TRUE]
          /\ \A v \in Runs : v # w => worker'[v] = worker[v]
      BY <1>1, <2>2, <2>4
    <2>6. /\ worker'[w].active = worker[w].active /\ worker'[w].id = worker[w].id
          /\ worker'[w].dispatched = worker[w].dispatched /\ worker'[w].closed
      BY <1>1, <2>5 DEF WorkerRecord
    <2>7. ASSUME NEW v \in Runs PROVE StopEffect(v) /\ ServerAgrees(v)'
      <3>1. CASE v = w
        BY <2>1, <2>3, <2>6, <3>1 DEF StopEffect, ServerAgrees, Ails, Gone
      <3>2. CASE v # w
        BY <2>3, <2>5, <3>2, OfWorker DEF StopEffect, ServerAgrees, Ails, Gone
      <3>. QED BY <3>1, <3>2
    <2>. QED BY <2>3, <2>5, <2>7 DEF Ails
  <1>. QED BY <1>2, <1>3

LEMMA StopKeeps == ASSUME RuntimeAgrees, Stop PROVE RuntimeAgrees'
  <1>1. /\ stop.pc = "running" /\ stop' = [pc |-> "stopping", worker |-> current]
        /\ caught' = (\E r \in Runs : call[r].pc = "waiting")
        /\ UNCHANGED <<call, start, current, queue, handling, interrupt, turn, raced>>
    BY DEF Stop, inbox
  <1>2. /\ stops' \in 0..MaxStops /\ stop' \in StopRecord /\ caught' \in BOOLEAN
        /\ current \in Maybe(Runs)
    BY <1>1, Types, ConstantAssumption DEF RuntimeAgrees, Stop, StopRecord
  <1>3. /\ worker' \in [Runs -> WorkerRecord] /\ server' \in [Runs -> ServerRecord]
        /\ \A v \in Runs : StopEffect(v) /\ ServerAgrees(v)'
    BY StopHasEffect
  <1>4. TypeOK'
    BY <1>1, <1>2, <1>3, Types, TypesKept DEF RuntimeAgrees
  <1>5. \A v \in Runs : \A r : Regards(v, r) => Regards(v, r)'
    BY <1>3 DEF Regards, Ended, Has, StopEffect
  <1>6. \A r \in Runs : CallAgrees(r)'
    <2>. TAKE r \in Runs
    <2>1. call[r].pc = "running" =>
             call[r].worker \in Runs /\ worker'[call[r].worker].active = r
      BY <1>3, OfRun DEF CallAgrees, StopEffect
    <2>. QED BY <1>1, <2>1, OfRun DEF CallAgrees, Made
  <1>7. \A r \in Runs : StartAgrees(r)' /\ TurnAgrees(r)'
    <2>. TAKE r \in Runs
    <2>1. CASE start[r].pc = "none" /\ turn[r] = "unsent"
      BY <1>1, <2>1 DEF StartAgrees, TurnAgrees, Starting
    <2>2. CASE start[r].pc # "none" \/ turn[r] # "unsent"
      <3>1. PICK v \in Runs : v = call[r].worker
        BY <2>2, OfMade
      <3>2. StopEffect(v) /\ StartAgrees(r) /\ TurnAgrees(r)
        BY <1>3, OfRun
      <3>3. StartAgrees(r)'
        BY <1>1, <3>1, <3>2 DEF StartAgrees, Starting, Ended, Of, StopEffect
      <3>4. TurnAgrees(r)'
        BY <1>1, <3>1, <3>2 DEF TurnAgrees, Has, Of, StopEffect
      <3>. QED BY <3>3, <3>4
    <2>. QED BY <2>1, <2>2
  <1>8. \A v \in Runs : FreshAgrees(v)'
    BY <1>1, <1>3, OfWorker DEF FreshAgrees, StopEffect, Made
  <1>9. \A v \in Runs : WorkerAgrees(v)'
    BY <1>1, <1>3, OfWorker DEF WorkerAgrees, StopEffect
  <1>10. \A v \in Runs : QueueAgrees(v)' /\ HandlingAgrees(v)'
    BY <1>1, <1>5, OfWorker DEF QueueAgrees, HandlingAgrees
  <1>11. \A r, s \in Runs : OneStarts(r, s)'
    BY <1>1 DEF RuntimeAgrees, OneStarts, Starting, Of
  <1>12. MapAgrees'
    BY <1>1 DEF RuntimeAgrees, MapAgrees, Made, history
  <1>13. CurrentAgrees'
    <2>1. CASE raced \/ caught'
      BY <1>1, <2>1 DEF CurrentAgrees
    <2>2. CASE ~raced /\ ~caught /\ ~caught'
      <3>1. \A r \in Runs : call[r].pc # "waiting"
        BY <1>1, <2>2
      <3>2. \A v \in Runs : (Made(v) /\ ~Gone(v))' => v = current
        BY <1>1, <1>3, <2>2 DEF RuntimeAgrees, CurrentAgrees, StopEffect, Made
      <3>. QED BY <1>1, <3>1, <3>2 DEF CurrentAgrees
    <2>3. ~caught
      BY <1>1 DEF RuntimeAgrees, MapAgrees
    <2>. QED BY <2>1, <2>2, <2>3
  <1>. QED BY <1>3, <1>4, <1>6, <1>7, <1>8, <1>9, <1>10, <1>11, <1>12, <1>13, Together

LEMMA StopEndsKeeps == ASSUME RuntimeAgrees, StopEnds PROVE RuntimeAgrees'
  <1>1. /\ stop.pc = "stopping" /\ stop' = [pc |-> "stopped", worker |-> None]
        /\ stop.worker # None => server[stop.worker].closing = "done"
        /\ current' = None
        /\ UNCHANGED <<call, start, worker, server, queue, handling, interrupt, turn, history>>
    BY DEF StopEnds, inbox
  <1>2. stop' \in StopRecord /\ current' \in Maybe(Runs)
    BY <1>1 DEF StopRecord, Maybe
  <1>3. TypeOK'
    BY <1>1, <1>2, Types, TypesKept DEF RuntimeAgrees, history
  <1>4. \A r \in Runs : CallAgrees(r)' /\ StartAgrees(r)' /\ TurnAgrees(r)'
    BY <1>1, OfRun DEF CallAgrees, StartAgrees, TurnAgrees, Starting, Ended, Has, Of, Made
  <1>5. \A v \in Runs : FreshAgrees(v)' /\ ServerAgrees(v)' /\ WorkerAgrees(v)'
    BY <1>1, OfWorker DEF FreshAgrees, ServerAgrees, WorkerAgrees, Gone, Made
  <1>6. \A v \in Runs : QueueAgrees(v)' /\ HandlingAgrees(v)'
    BY <1>1, OfWorker DEF QueueAgrees, HandlingAgrees, Regards, Ended, Has
  <1>7. \A r, s \in Runs : OneStarts(r, s)'
    BY <1>1 DEF RuntimeAgrees, OneStarts, Starting, Of
  <1>8. MapAgrees'
    BY <1>1 DEF MapAgrees, history
  <1>9. CurrentAgrees'
    <2>1. CASE raced \/ caught
      BY <1>1, <2>1 DEF CurrentAgrees, history
    <2>2. CASE ~raced /\ ~caught
      <3>1. /\ \A v \in Runs : Made(v) /\ ~Gone(v) => v = current
            /\ stop.worker = current
            /\ \A r \in Runs : call[r].pc # "waiting"
        BY <1>1, <2>2 DEF RuntimeAgrees, CurrentAgrees
      <3>2. current \in Runs => Gone(current)
        BY <1>1, <3>1, OfWorker, ConstantAssumption DEF ServerAgrees
      <3>. QED BY <1>1, <3>1, <3>2 DEF CurrentAgrees, Made, Gone
    <2>. QED BY <2>1, <2>2
  <1>. QED BY <1>3, <1>4, <1>5, <1>6, <1>7, <1>8, <1>9, Together

-----------------------------------------------------------------------------
(* Every step *)

LEMMA Starts == Init => RuntimeAgrees
  <1>. SUFFICES ASSUME Init PROVE RuntimeAgrees
    OBVIOUS
  <1>1. TypeOK
    <2>1. NoCall \in CallRecord /\ NoStart \in StartRecord /\ Fresh \in WorkerRecord
          /\ NewServer \in ServerRecord /\ <<>> \in Seq(Message)
          /\ [pc |-> "running", worker |-> None] \in StopRecord
      BY RecordsTyped DEF StopRecord, Maybe
    <2>2. /\ call \in [Runs -> CallRecord] /\ start \in [Runs -> StartRecord]
          /\ worker \in [Runs -> WorkerRecord] /\ server \in [Runs -> ServerRecord]
      BY <2>1 DEF Init
    <2>3. /\ queue \in [Runs -> Seq(Message)] /\ handling \in [Runs -> {Silent} \cup Handled]
          /\ interrupt \subseteq Runs
          /\ turn \in [Runs -> {"unsent", "sent", "started", "over"}]
      BY <2>1 DEF Init
    <2>4. current \in Maybe(Runs) /\ stop \in StopRecord
      BY <2>1 DEF Init, Maybe
    <2>5. stops \in 0..MaxStops
      BY ConstantAssumption DEF Init
    <2>6. raced \in BOOLEAN /\ caught \in BOOLEAN
      BY DEF Init
    <2>. QED BY <2>2, <2>3, <2>4, <2>5, <2>6 DEF TypeOK, CallRecord, StartRecord, WorkerRecord, ServerRecord, Message,
                         Handled, StopRecord
  <1>2. \A r \in Runs : /\ call[r] = NoCall /\ start[r] = NoStart /\ worker[r] = Fresh
                        /\ server[r] = NewServer /\ queue[r] = <<>> /\ handling[r] = Silent
                        /\ turn[r] = "unsent"
    BY DEF Init
  <1>3. ASSUME NEW r \in Runs PROVE AtRun(r)
    BY <1>2 DEF AtRun, CallAgrees, StartAgrees, TurnAgrees, Starting, NoCall, NoStart
  <1>4. ASSUME NEW w \in Runs PROVE AtWorker(w)
    BY <1>2 DEF AtWorker, FreshAgrees, ServerAgrees, WorkerAgrees, QueueAgrees, HandlingAgrees,
                Init, Fresh, NewServer
  <1>5. \A r, s \in Runs : OneStarts(r, s)
    BY <1>2 DEF OneStarts, Starting, NoStart
  <1>6. MapAgrees
    BY DEF Init, MapAgrees
  <1>7. CurrentAgrees
    BY <1>2, ConstantAssumption DEF Init, CurrentAgrees, Made, NoCall
  <1>. QED BY <1>1, <1>3, <1>4, <1>5, <1>6, <1>7 DEF RuntimeAgrees

LEMMA StutterKeeps == ASSUME RuntimeAgrees, UNCHANGED vars PROVE RuntimeAgrees'
  <1>1. TypeOK'
    BY DEF RuntimeAgrees, vars, inbox, history, TypeOK
  <1>2. \A r \in Runs : CallAgrees(r)' /\ StartAgrees(r)' /\ TurnAgrees(r)'
    BY OfRun DEF CallAgrees, StartAgrees, TurnAgrees, Starting, Ended, Has, Of, Made, vars
  <1>3. \A v \in Runs : FreshAgrees(v)' /\ ServerAgrees(v)' /\ WorkerAgrees(v)'
    BY OfWorker DEF FreshAgrees, ServerAgrees, WorkerAgrees, Gone, Made, vars, inbox
  <1>4. \A v \in Runs : QueueAgrees(v)' /\ HandlingAgrees(v)'
    BY OfWorker DEF QueueAgrees, HandlingAgrees, Regards, Ended, Has, vars, inbox
  <1>5. \A r, s \in Runs : OneStarts(r, s)'
    BY DEF RuntimeAgrees, OneStarts, Starting, Of, vars
  <1>6. MapAgrees' /\ CurrentAgrees'
    BY DEF RuntimeAgrees, MapAgrees, CurrentAgrees, Made, Gone, vars, history
  <1>. QED BY <1>1, <1>2, <1>3, <1>4, <1>5, <1>6, Together

LEMMA HostKeeps == ASSUME RuntimeAgrees, HostStep PROVE RuntimeAgrees'
  <1>1. ASSUME NEW r \in Runs, Replace(r) \/ Deadline(r) PROVE RuntimeAgrees'
    BY <1>1, ReplaceKeeps, DeadlineKeeps
  <1>2. ASSUME NEW r \in Runs, StartStep(r) PROVE RuntimeAgrees'
    BY <1>2, SpawnKeeps, ReadyKeeps, SendKeeps, AnsweredKeeps, RecordedKeeps, ThrowsKeeps,
       CatchKeeps DEF StartStep
  <1>3. ASSUME NEW w \in Runs, ReceiveStep(w) PROVE RuntimeAgrees'
    BY <1>3, ReceiveKeeps, ReceivedKeeps, ReceiveFailsKeeps, ExitedKeeps DEF ReceiveStep
  <1>4. ASSUME NEW w \in Runs, InterruptStops(w) \/ CloseStep(w) PROVE RuntimeAgrees'
    BY <1>4, InterruptStopsKeeps, CloseFailsKeeps, CloseEndsKeeps DEF CloseStep
  <1>. QED BY <1>1, <1>2, <1>3, <1>4, StopEndsKeeps DEF HostStep

LEMMA StepKeeps == ASSUME RuntimeAgrees, [Next]_vars PROVE RuntimeAgrees'
  <1>1. CASE HostStep
    BY <1>1, HostKeeps
  <1>2. CASE Cancel \/ Stop
    BY <1>2, CancelKeeps, StopKeeps
  <1>3. ASSUME NEW r \in Runs, Call(r) \/ Exit(r) PROVE RuntimeAgrees'
    BY <1>3, CallKeeps, ExitKeeps
  <1>4. ASSUME NEW r \in Runs, TurnStarted(r) \/ TurnCompleted(r) \/ Question(r)
        PROVE  RuntimeAgrees'
    BY <1>4, CodexKeeps
  <1>5. CASE UNCHANGED vars
    BY <1>5, StutterKeeps
  <1>. QED BY <1>1, <1>2, <1>3, <1>4, <1>5 DEF Next

LEMMA RuntimeAlwaysAgrees == Spec => []RuntimeAgrees
  BY Starts, StepKeeps, PTL DEF Spec

-----------------------------------------------------------------------------
(* Theorems *)

\* However calls, answers, notifications and ends of processes interleave, CodexWorker,
\* CodexAppServer and the manager's map hold what their declarations allow.
THEOREM RuntimeTypeCorrect == Spec => []TypeOK
  BY RuntimeAlwaysAgrees, PTL DEF RuntimeAgrees

\* The promise of run is held by a worker exactly while it is unsettled: no failure, further
\* call or stop loses one, for any number of calls and stops.
THEOREM CallsAreOwned == Spec => []WorkerOwnsCall
  <1>1. ASSUME RuntimeAgrees PROVE WorkerOwnsCall
    <2>1. ASSUME NEW r \in Runs, call[r].pc = "running"
          PROVE  \E w \in Runs : worker[w].active = r
      BY <1>1, <2>1, OfRun DEF CallAgrees
    <2>2. ASSUME NEW r \in Runs, NEW w \in Runs, worker[w].active = r
          PROVE  call[r].pc = "running"
      BY <1>1, <2>2, OfWorker, ConstantAssumption DEF WorkerAgrees
    <2>. QED BY <2>1, <2>2 DEF WorkerOwnsCall
  <1>. QED BY <1>1, RuntimeAlwaysAgrees, PTL

\* The completion of a turn never resolves another, and no turn gets the id of another:
\* what receive handles is of the active turn or finds the worker ended.
THEOREM ResultsAreOwn == Spec => []ResultIsOwn
  <1>1. ASSUME RuntimeAgrees PROVE ResultIsOwn
    BY <1>1, OfRun, OfWorker DEF CallAgrees, WorkerAgrees, ResultIsOwn
  <1>. QED BY <1>1, RuntimeAlwaysAgrees, PTL

\* A living process has one turn that it was given and has not completed.
THEOREM TurnsComeOneByOne == Spec => []OneTurnAtATime
  <1>1. ASSUME RuntimeAgrees PROVE OneTurnAtATime
    BY <1>1, OfRun DEF TurnAgrees, Has, OneTurnAtATime
  <1>. QED BY <1>1, RuntimeAlwaysAgrees, PTL

\* Unless a call came while another waited for a dead worker, or a stop did, the process of
\* the task is the one in the manager's map.
THEOREM ProcessesAreCurrent == Spec => []ProcessIsCurrent
  <1>1. ASSUME RuntimeAgrees PROVE ProcessIsCurrent
    <2>1. ASSUME NEW w \in Runs, server[w].process = "live" PROVE Made(w) /\ ~Gone(w)
      BY <1>1, <2>1, MadeIf, OfWorker DEF ServerAgrees, Gone
    <2>. QED BY <1>1, <2>1 DEF RuntimeAgrees, CurrentAgrees, ProcessIsCurrent
  <1>. QED BY <1>1, RuntimeAlwaysAgrees, PTL

\* startTurn writes turn/start to a living process only for a call that still waits for it,
\* although it wrote session/ready to the record in between.
THEOREM SendsWhatIsWanted == Spec => SentWhileWanted
  <1>. DEFINE Wanted ==
         \A r \in Runs : turn[r] = "unsent" /\ turn'[r] # "unsent" => call[r].pc = "running"
  <1>1. ASSUME RuntimeAgrees, [Next]_vars PROVE [Wanted]_vars
    <2>. SUFFICES ASSUME NEW r \in Runs, turn[r] = "unsent", turn'[r] # "unsent"
                  PROVE  call[r].pc = "running"
      OBVIOUS
    <2>1. turn \in [Runs -> {"unsent", "sent", "started", "over"}]
      BY <1>1, Types DEF RuntimeAgrees
    <2>2. CASE Send(r)
      <3>1. server[Of(r)].process = "live" /\ Starting(r) /\ Of(r) \in Runs
        BY <1>1, <2>2, OfMade DEF Send, At, Starting
      <3>2. worker[Of(r)].active = r
        BY <1>1, <3>1, OfRun, OfWorker DEF StartAgrees, Ended, ServerAgrees, Gone
      <3>. QED BY <1>1, <3>1, <3>2, OfWorker, ConstantAssumption DEF WorkerAgrees
    <2>3. ASSUME NEW s \in Runs, Send(s), s # r PROVE FALSE
      BY <2>1, <2>3 DEF Send
    <2>4. ASSUME NEW s \in Runs, TurnStarted(s) \/ TurnCompleted(s) \/ Question(s) PROVE FALSE
      BY <2>1, <2>4 DEF TurnStarted, TurnCompleted, Question, Writes
    <2>5. CASE UNCHANGED turn
      BY <2>5
    <2>6. \/ \E s \in Runs : Send(s)
          \/ \E s \in Runs : TurnStarted(s) \/ TurnCompleted(s) \/ Question(s)
          \/ UNCHANGED turn
      BY <1>1 DEF Next, HostStep, StartStep, ReceiveStep, CloseStep, Replace, Deadline, Spawn,
           Ready, Answered, Recorded, Throws, Catch, Receive, Received, ReceiveFails, Exited,
           InterruptStops, CloseFails, CloseEnds, StopEnds, Call, Cancel, Stop, Exit, vars
    <2>. QED BY <2>2, <2>3, <2>4, <2>5, <2>6
  <1>. QED BY <1>1, RuntimeAlwaysAgrees, PTL DEF Spec, SentWhileWanted

-----------------------------------------------------------------------------
(* Every call ends: what the fairness of the host rests on *)

One(b) == IF b THEN 1 ELSE 0

\* How many steps of the host a call and its startTurn, a client and its queue, and the stop of
\* the manager can still take.
AnswerLeft(r) == CASE call[r].pc = "waiting" -> 8 [] call[r].pc = "running" -> 1 [] OTHER -> 0
StartLeft(r) ==
    CASE start[r].pc = "open" -> 6 [] start[r].pc = "startup" -> 5 [] start[r].pc = "ready" -> 4
      [] start[r].pc = "sent" -> 3 [] start[r].pc = "answered" -> 2 [] start[r].pc = "throws" -> 1
      [] OTHER -> 0
ServerLeft(s) ==
    (CASE s.closing = "none" -> 2 [] s.closing = "begun" -> 1 [] OTHER -> 0)
        + 2 * One(~s.closed) + One(s.lost)
InboxLeft(w) == 3 * Len(queue[w]) + 2 * One(handling[w] # Silent) + One(w \in interrupt)
HostLeft ==
    [r \in Runs |-> AnswerLeft(r) + StartLeft(r) + ServerLeft(server[r]) + InboxLeft(r)]
StopLeft == One(stop.pc = "stopping")

\* What callers and Codex can still do: call, and for each turn start and complete it; and the
\* process can exit.  Cancellations, stops and questions count in stops.
TurnLeft(r) ==
    CASE turn[r] = "unsent" -> 3 [] turn[r] = "sent" -> 2 [] turn[r] = "started" -> 1
      [] OTHER -> 0
OutsideLeft ==
    [r \in Runs |-> One(call[r].pc = "idle") + TurnLeft(r) + One(~server[r].closed)]

Below(f, g) == \A r \in Runs : g[r] <= f[r]

\* A step of the host leaves it less to do, and callers and Codex no more.
HostDrops ==
    /\ Below(HostLeft, HostLeft') /\ StopLeft' <= StopLeft
    /\ HostLeft' # HostLeft \/ StopLeft' # StopLeft

\* A step of a caller or of Codex uses up what they can do.
OutsideKept == Below(OutsideLeft, OutsideLeft') /\ stops <= stops'
OutsideDrops == OutsideKept /\ (OutsideLeft' # OutsideLeft \/ stops' # stops)

Descends == OutsideKept /\ ((HostStep /\ HostDrops) \/ OutsideDrops)

\* One of the host's steps is due: its guard holds.
Due ==
    \/ \E r, w \in Runs : worker[w].active = r                          \* Deadline
    \/ \E r \in Runs :                                                  \* Replace
          call[r].pc = "waiting" /\ server[call[r].worker].closing = "done"
    \/ \E w \in Runs : handling[w] # Silent                             \* Received
    \/ \E w \in Runs : server[w].lost /\ handling[w] = Silent           \* Exited
    \/ \E w \in Runs : server[w].closing = "begun" /\ ~server[w].closed \* CloseFails
    \/ \E w \in Runs :                                                  \* CloseEnds
          /\ server[w].closing = "begun" /\ handling[w] = Silent
          /\ server[w].closed /\ ~server[w].lost
    \/ /\ stop.pc = "stopping"                                          \* StopEnds
       /\ stop.worker # None => server[stop.worker].closing = "done"

\* Who waits for a client waits for one that is being closed.
Awaits ==
    /\ \A r \in Runs : call[r].pc = "waiting" => server[call[r].worker].closing # "none"
    /\ stop.pc = "stopping" /\ stop.worker # None => server[stop.worker].closing # "none"

\* A client only ever gets closer to its end.
Ages(s, t) ==
    /\ ServerLeft(t) <= ServerLeft(s)
    /\ s.closed => t.closed
    /\ s.closing # "none" => t.closing # "none"

LEMMA ServerLeftType == \A s \in ServerRecord : ServerLeft(s) \in Nat
  BY DEF ServerLeft, One

LEMMA SameAges == \A s \in ServerRecord : Ages(s, s)
  BY ServerLeftType DEF Ages

LEMMA KilledAges ==
  ASSUME NEW s \in ServerRecord
  PROVE  Killed(s) \in ServerRecord /\ Ages(s, Killed(s)) /\ Killed(s).closing = s.closing
  BY DEF Killed, Ages, ServerLeft, One, ServerRecord

LEMMA FailedAges ==
  ASSUME NEW s \in ServerRecord
  PROVE  /\ Failed(s) \in ServerRecord /\ Ages(s, Failed(s)) /\ Failed(s).closed
         /\ Failed(s).closing = s.closing
         /\ ~s.closed => ServerLeft(Failed(s)) < ServerLeft(s)
  <1>1. CASE s.closed
    BY <1>1, SameAges DEF Failed
  <1>2. CASE ~s.closed
    <2>1. Failed(s) = [Killed(s) EXCEPT !.closed = TRUE, !.lost = TRUE]
      BY <1>2 DEF Failed
    <2>2. Killed(s) \in ServerRecord /\ Killed(s).closing = s.closing
      BY KilledAges
    <2>3. /\ Failed(s) \in ServerRecord /\ Failed(s).closed /\ Failed(s).lost
          /\ Failed(s).closing = s.closing
      BY <2>1, <2>2 DEF ServerRecord
    <2>. QED BY <1>2, <2>3 DEF Ages, ServerLeft, One, ServerRecord
  <1>. QED BY <1>1, <1>2

LEMMA ClosingAges ==
  ASSUME NEW s \in ServerRecord
  PROVE  Closing(s) \in ServerRecord /\ Ages(s, Closing(s)) /\ Closing(s).closing # "none"
  <1>1. CASE s.closing # "none"
    BY <1>1, SameAges DEF Closing
  <1>2. CASE s.closing = "none"
    <2>. DEFINE t == IF s.process = "none" THEN Failed(s) ELSE Killed(s)
    <2>1. t \in ServerRecord /\ Ages(s, t) /\ t.closing = "none"
      BY <1>2, KilledAges, FailedAges
    <2>2. Closing(s) = [t EXCEPT !.closing = "begun"]
      BY <1>2 DEF Closing
    <2>. HIDE DEF t
    <2>3. /\ Closing(s) \in ServerRecord /\ Closing(s).closing = "begun"
          /\ Closing(s).closed = t.closed /\ Closing(s).lost = t.lost
      BY <2>1, <2>2 DEF ServerRecord
    <2>4. ServerLeft(Closing(s)) <= ServerLeft(t)
      BY <2>1, <2>3 DEF ServerLeft, One, ServerRecord
    <2>. QED BY <2>1, <2>3, <2>4, ServerLeftType DEF Ages
  <1>. QED BY <1>1, <1>2

\* Calls stay as they are, or are answered.
CallsEnd ==
    \A r \in Runs :
        \/ call'[r] = call[r]
        \/ call[r].pc = "running" /\ call'[r].pc = "settled"

ServersAge == \A w \in Runs : Ages(server[w], server'[w])

\* What is counted are numbers.
Numbers ==
    /\ StopLeft \in Nat
    /\ \A r \in Runs :
          /\ AnswerLeft(r) \in Nat /\ StartLeft(r) \in Nat /\ ServerLeft(server[r]) \in Nat
          /\ InboxLeft(r) \in Nat /\ TurnLeft(r) \in Nat

LEMMA OneType == \A b : One(b) \in {0, 1}
  BY DEF One

LEMMA Measured == RuntimeAgrees => Numbers
  <1>. SUFFICES ASSUME RuntimeAgrees, NEW r \in Runs
                PROVE  ServerLeft(server[r]) \in Nat /\ InboxLeft(r) \in Nat
    BY DEF Numbers, AnswerLeft, StartLeft, TurnLeft, StopLeft, One
  <1>1. ServerLeft(server[r]) \in Nat
    BY Types, ServerLeftType DEF RuntimeAgrees
  <1>2. Len(queue[r]) \in Nat
    BY OfWorker
  <1>3. InboxLeft(r) \in Nat
    BY <1>2, OneType DEF InboxLeft
  <1>. QED BY <1>1, <1>3

LEMMA MeasuredThen == RuntimeAgrees' => Numbers'
  BY Measured, PTL

\* The host has less to do when nothing of it grows and something shrinks.
LEMMA Dropping ==
  ASSUME RuntimeAgrees, RuntimeAgrees', ServersAge,
         \A r \in Runs : AnswerLeft(r)' + StartLeft(r)' <= AnswerLeft(r) + StartLeft(r),
         \A r \in Runs : InboxLeft(r)' <= InboxLeft(r),
         StopLeft' <= StopLeft,
         \/ \E r \in Runs :
               \/ AnswerLeft(r)' + StartLeft(r)' < AnswerLeft(r) + StartLeft(r)
               \/ InboxLeft(r)' < InboxLeft(r)
               \/ ServerLeft(server'[r]) < ServerLeft(server[r])
         \/ StopLeft' < StopLeft
  PROVE  HostDrops
  <1>1. \A r \in Runs :
           /\ AnswerLeft(r) \in Nat /\ StartLeft(r) \in Nat /\ ServerLeft(server[r]) \in Nat
           /\ InboxLeft(r) \in Nat
    BY Measured DEF Numbers
  <1>2. \A r \in Runs :
           /\ AnswerLeft(r)' \in Nat /\ StartLeft(r)' \in Nat /\ ServerLeft(server'[r]) \in Nat
           /\ InboxLeft(r)' \in Nat
    BY MeasuredThen DEF Numbers
  <1>3. StopLeft \in Nat /\ StopLeft' \in Nat
    BY Measured, MeasuredThen DEF Numbers
  <1>4. \A r \in Runs : ServerLeft(server'[r]) <= ServerLeft(server[r])
    BY DEF ServersAge, Ages
  <1>5. \A r \in Runs :
           /\ HostLeft[r] = AnswerLeft(r) + StartLeft(r) + ServerLeft(server[r]) + InboxLeft(r)
           /\ HostLeft'[r] = AnswerLeft(r)' + StartLeft(r)' + ServerLeft(server'[r]) + InboxLeft(r)'
    BY DEF HostLeft
  <1>. HIDE DEF HostLeft, AnswerLeft, StartLeft, InboxLeft, ServerLeft
  <1>6. Below(HostLeft, HostLeft')
    BY <1>1, <1>2, <1>4, <1>5 DEF Below
  <1>7. ASSUME NEW r \in Runs,
               \/ AnswerLeft(r)' + StartLeft(r)' < AnswerLeft(r) + StartLeft(r)
               \/ InboxLeft(r)' < InboxLeft(r)
               \/ ServerLeft(server'[r]) < ServerLeft(server[r])
        PROVE  HostLeft' # HostLeft
    <2>1. HostLeft'[r] < HostLeft[r]
      BY <1>1, <1>2, <1>4, <1>5, <1>7
    <2>2. HostLeft[r] \in Nat
      BY <1>1, <1>5
    <2>. QED BY <2>1, <2>2
  <1>. QED BY <1>3, <1>6, <1>7 DEF HostDrops

LEMMA EndingLowers ==
  ASSUME CallsEnd
  PROVE  /\ \A r \in Runs : AnswerLeft(r)' <= AnswerLeft(r)
         /\ \A r \in Runs : call'[r].pc # call[r].pc => AnswerLeft(r)' < AnswerLeft(r)
         /\ \A r \in Runs : call'[r].pc \in {"idle", "waiting"} => call'[r] = call[r]
  BY DEF CallsEnd, AnswerLeft

\* A step that ends calls and lets startTurn, the notifications and the clients go on.
LEMMA EndingDrops ==
  ASSUME RuntimeAgrees, RuntimeAgrees', CallsEnd, ServersAge, UNCHANGED stop,
         \A r \in Runs : StartLeft(r)' <= StartLeft(r),
         \A r \in Runs : InboxLeft(r)' <= InboxLeft(r),
         \E r \in Runs :
             \/ call'[r].pc # call[r].pc
             \/ StartLeft(r)' < StartLeft(r)
             \/ InboxLeft(r)' < InboxLeft(r)
             \/ ServerLeft(server'[r]) < ServerLeft(server[r])
  PROVE  HostDrops
  <1>1. \A r \in Runs : AnswerLeft(r) \in Nat /\ StartLeft(r) \in Nat
    BY Measured DEF Numbers
  <1>2. \A r \in Runs : AnswerLeft(r)' \in Nat /\ StartLeft(r)' \in Nat
    BY MeasuredThen DEF Numbers
  <1>3. StopLeft' <= StopLeft
    BY DEF StopLeft, One
  <1>4. /\ \A r \in Runs : AnswerLeft(r)' <= AnswerLeft(r)
        /\ \A r \in Runs : call'[r].pc # call[r].pc => AnswerLeft(r)' < AnswerLeft(r)
    BY EndingLowers
  <1>. HIDE DEF AnswerLeft, StartLeft, InboxLeft, ServerLeft
  <1>5. \A r \in Runs : AnswerLeft(r)' + StartLeft(r)' <= AnswerLeft(r) + StartLeft(r)
    BY <1>1, <1>2, <1>4
  <1>6. \A r \in Runs : call'[r].pc # call[r].pc \/ StartLeft(r)' < StartLeft(r) =>
           AnswerLeft(r)' + StartLeft(r)' < AnswerLeft(r) + StartLeft(r)
    BY <1>1, <1>2, <1>4
  <1>. QED BY <1>3, <1>5, <1>6, Dropping

LEMMA OneServerAges ==
  ASSUME RuntimeAgrees, NEW w \in Runs, NEW t, server' = [server EXCEPT ![w] = t], Ages(server[w], t)
  PROVE  ServersAge /\ server'[w] = t
  <1>1. server \in [Runs -> ServerRecord]
    BY Types DEF RuntimeAgrees
  <1>. QED BY <1>1, SameAges DEF ServersAge

LEMMA NoServerAges == ASSUME RuntimeAgrees, server' = server PROVE ServersAge
  BY Types, SameAges DEF RuntimeAgrees, ServersAge

LEMMA RejectingEnds ==
  ASSUME RuntimeAgrees, NEW w \in Runs, call' = Rejected(w)
  PROVE  /\ CallsEnd
         /\ \A r \in Runs : worker[w].active = r => call'[r].pc # call[r].pc
  <1>1. \A r \in Runs : \/ worker[w].active # r /\ call'[r] = call[r]
                        \/ worker[w].active = r /\ call'[r].pc = "settled" /\ call'[r].by = None
    BY Rejecting
  <1>2. \A r \in Runs : worker[w].active = r => call[r].pc = "running"
    BY OfWorker, ConstantAssumption DEF WorkerAgrees
  <1>. QED BY <1>1, <1>2 DEF CallsEnd

LEMMA StopWorkerEnds ==
  ASSUME RuntimeAgrees, NEW w \in Runs, StopWorker(w)
  PROVE  /\ CallsEnd /\ ServersAge
         /\ \A r \in Runs : worker[w].active = r => call'[r].pc # call[r].pc
  <1>1. server' = [server EXCEPT ![w] = Closing(server[w])] /\ call' = Rejected(w)
    BY DEF StopWorker, WorkerEnds
  <1>2. Ages(server[w], Closing(server[w]))
    BY ClosingAges, OfWorker
  <1>. QED BY <1>1, <1>2, OneServerAges, RejectingEnds

LEMMA InterruptingEnds ==
  ASSUME RuntimeAgrees, NEW w \in Runs, Interrupting(w)
  PROVE  /\ CallsEnd /\ ServersAge
         /\ \A v \in Runs : v # w => (v \in interrupt' <=> v \in interrupt)
  <1>1. CASE worker[w].active = None \/ worker[w].id # None
    BY <1>1, NoServerAges DEF Interrupting, CallsEnd
  <1>2. CASE worker[w].active # None /\ worker[w].id = None
    BY <1>2, StopWorkerEnds DEF Interrupting
  <1>. QED BY <1>1, <1>2

LEMMA StartMoves ==
  ASSUME RuntimeAgrees, NEW r \in Runs, NEW pc, Goto(r, pc) \/ Leave(r, pc)
  PROVE  start'[r].pc = pc /\ \A s \in Runs : s # r => start'[s] = start[s]
  BY Types DEF RuntimeAgrees, Goto, Leave, StartRecord

LEMMA InboxRests ==
  ASSUME RuntimeAgrees, UNCHANGED <<inbox, interrupt>>
  PROVE  \A r \in Runs : InboxLeft(r)' <= InboxLeft(r)
  BY Measured DEF Numbers, InboxLeft, inbox

LEMMA SpawnAges == ASSUME RuntimeAgrees, NEW r \in Runs, Spawn(r) PROVE ServersAge
  <1>1. Of(r) \in Runs /\ server[Of(r)] \in ServerRecord
    BY OfMade, OfWorker DEF Spawn, At
  <1>2. \/ server' = server
        \/ server' = [server EXCEPT ![Of(r)] = [server[Of(r)] EXCEPT !.process = "live"]]
    BY DEF Spawn
  <1>3. Ages(server[Of(r)], [server[Of(r)] EXCEPT !.process = "live"])
    BY <1>1, ServerLeftType DEF Ages, ServerLeft, One, ServerRecord
  <1>. QED BY <1>1, <1>2, <1>3, OneServerAges, NoServerAges

\* startTurn goes on by itself.
LEMMA StartsDrop ==
  ASSUME RuntimeAgrees, RuntimeAgrees', NEW r \in Runs, StartStep(r), ~Catch(r)
  PROVE  HostDrops
  <1>1. UNCHANGED <<call, inbox, interrupt, stop>>
    BY DEF StartStep, Spawn, Ready, Send, Answered, Recorded, Throws
  <1>3. StartLeft(r)' < StartLeft(r) /\ \A s \in Runs : s # r => start'[s] = start[s]
    <2>1. start \in [Runs -> StartRecord]
      BY Types DEF RuntimeAgrees
    <2>2. CASE Spawn(r) \/ Ready(r) \/ Send(r)
      BY <2>1, <2>2 DEF Spawn, Ready, Send, At, Goto, Leave, StartLeft, StartRecord
    <2>3. CASE Answered(r) \/ Recorded(r) \/ Throws(r)
      BY <2>1, <2>3 DEF Answered, Recorded, Throws, CanAnswer, At, Leave, StartLeft, StartRecord
    <2>. QED BY <2>2, <2>3 DEF StartStep
  <1>4. ServersAge
    BY SpawnAges, NoServerAges DEF StartStep, Ready, Send, Answered, Recorded, Throws
  <1>5. CallsEnd /\ \A s \in Runs : StartLeft(s)' <= StartLeft(s)
    BY <1>1, <1>3, Measured DEF CallsEnd, StartLeft, Numbers
  <1>. QED BY <1>1, <1>3, <1>4, <1>5, InboxRests, EndingDrops

LEMMA StartsRest ==
  ASSUME RuntimeAgrees, start' = start
  PROVE  \A r \in Runs : StartLeft(r)' <= StartLeft(r)
  BY Measured DEF Numbers, StartLeft

\* A deadline, an error of startTurn, and the end of an interruption stop a worker.
LEMMA StopsDrop ==
  ASSUME RuntimeAgrees, RuntimeAgrees', NEW r \in Runs, Deadline(r) \/ Catch(r) \/ InterruptStops(r)
  PROVE  HostDrops
  <1>1. CASE Deadline(r)
    <2>1. PICK w \in Runs : worker[w].active = r /\ StopWorker(w)
      BY <1>1 DEF Deadline
    <2>2. UNCHANGED <<start, inbox, interrupt, stop>>
      BY <1>1 DEF Deadline
    <2>. QED BY <2>1, <2>2, StopWorkerEnds, StartsRest, InboxRests, EndingDrops
  <1>2. CASE Catch(r)
    <2>1. Of(r) \in Runs /\ StopWorker(Of(r))
      BY <1>2, OfMade DEF Catch, At
    <2>2. UNCHANGED <<inbox, interrupt, stop>>
      BY <1>2 DEF Catch
    <2>3. StartLeft(r)' < StartLeft(r) /\ \A s \in Runs : s # r => start'[s] = start[s]
      BY <1>2, StartMoves DEF Catch, At, StartLeft
    <2>4. \A s \in Runs : StartLeft(s)' <= StartLeft(s)
      BY <2>3, Measured DEF StartLeft, Numbers
    <2>. QED BY <2>1, <2>2, <2>3, <2>4, StopWorkerEnds, InboxRests, EndingDrops
  <1>3. CASE InterruptStops(r)
    <2>1. StopWorker(r) /\ UNCHANGED <<start, inbox, stop>>
      BY <1>3 DEF InterruptStops
    <2>2. r \in interrupt /\ interrupt' = interrupt \ {r} /\ UNCHANGED <<queue, handling>>
      BY <1>3 DEF InterruptStops, inbox
    <2>3. \A w \in Runs : InboxLeft(w)' <= InboxLeft(w)
      <3>1. \A w \in Runs : Len(queue[w]) \in Nat
        BY OfWorker
      <3>. QED BY <2>2, <3>1 DEF InboxLeft, One
    <2>4. InboxLeft(r)' < InboxLeft(r)
      <3>1. Len(queue[r]) \in Nat /\ One(handling[r] # Silent) \in {0, 1}
        BY OfWorker, OneType
      <3>2. One(r \in interrupt) = 1 /\ One(r \in interrupt') = 0
        BY <2>2 DEF One
      <3>3. InboxLeft(r) = 3 * Len(queue[r]) + 2 * One(handling[r] # Silent) + 1
        BY <3>2 DEF InboxLeft
      <3>4. InboxLeft(r)' = 3 * Len(queue[r]) + 2 * One(handling[r] # Silent) + 0
        BY <2>2, <3>2 DEF InboxLeft
      <3>. QED BY <3>1, <3>3, <3>4
    <2>. QED BY <2>1, <2>3, <2>4, StopWorkerEnds, StartsRest, EndingDrops
  <1>. QED BY <1>1, <1>2, <1>3

\* The notifications: one is taken, and the one taken is done with.
LEMMA ReceivesDrop ==
  ASSUME RuntimeAgrees, RuntimeAgrees', NEW w \in Runs, Receive(w)
  PROVE  HostDrops
  <1>0. /\ queue \in [Runs -> Seq(Message)] /\ handling \in [Runs -> {Silent} \cup Handled]
        /\ queue[w] \in Seq(Message)
    BY Types DEF RuntimeAgrees
  <1>1. /\ queue[w] # <<>> /\ handling[w] = Silent /\ queue' = [queue EXCEPT ![w] = Tail(queue[w])]
        /\ UNCHANGED <<call, start, interrupt, stop>>
    BY DEF Receive
  <1>2. /\ Len(queue[w]) \in Nat /\ Len(queue'[w]) = Len(queue[w]) - 1 /\ Len(queue'[w]) \in Nat
        /\ \A v \in Runs : v # w => queue'[v] = queue[v] /\ handling'[v] = handling[v]
    BY <1>0, <1>1 DEF Receive
  <1>3. InboxLeft(w)' < InboxLeft(w)
    <2>1. One(handling[w] # Silent) = 0
      BY <1>1 DEF One
    <2>2. One(handling'[w] # Silent) \in {0, 1} /\ One(w \in interrupt) \in {0, 1}
      BY OneType
    <2>3. InboxLeft(w) = 3 * Len(queue[w]) + 2 * 0 + One(w \in interrupt)
      BY <2>1 DEF InboxLeft
    <2>4. InboxLeft(w)' = 3 * (Len(queue[w]) - 1) + 2 * One(handling'[w] # Silent)
                            + One(w \in interrupt)
      BY <1>1, <1>2 DEF InboxLeft
    <2>. QED BY <1>2, <2>2, <2>3, <2>4
  <1>4. \A v \in Runs : InboxLeft(v)' <= InboxLeft(v)
    <2>1. \A v \in Runs : v # w => InboxLeft(v)' = InboxLeft(v)
      BY <1>1, <1>2 DEF InboxLeft
    <2>. QED BY <1>3, <2>1, Measured, MeasuredThen DEF Numbers
  <1>5. ServersAge
    <2>1. server' = server \/ server' = [server EXCEPT ![w] = Killed(server[w])]
      BY DEF Receive
    <2>. QED BY <2>1, OfWorker, KilledAges, OneServerAges, NoServerAges
  <1>6. CallsEnd
    BY <1>1 DEF CallsEnd
  <1>. QED BY <1>1, <1>3, <1>4, <1>5, <1>6, StartsRest, EndingDrops

LEMMA HandledDrops ==
  ASSUME RuntimeAgrees, RuntimeAgrees', NEW w \in Runs, Received(w) \/ ReceiveFails(w)
  PROVE  HostDrops
  <1>0. handling \in [Runs -> {Silent} \cup Handled] /\ \A v \in Runs : Len(queue[v]) \in Nat
    BY Types, OfWorker DEF RuntimeAgrees
  <1>1. /\ handling[w] # Silent /\ handling' = [handling EXCEPT ![w] = Silent]
        /\ UNCHANGED <<start, queue, stop>>
    BY DEF Received, ReceiveFails
  <1>2. /\ CallsEnd /\ ServersAge
        /\ \A v \in Runs : v # w => (v \in interrupt' <=> v \in interrupt)
    <2>1. CASE ReceiveFails(w)
      <3>1. server' = [server EXCEPT ![w] = Failed(server[w])] /\ UNCHANGED <<call, interrupt>>
        BY <2>1 DEF ReceiveFails
      <3>. QED BY <3>1, OfWorker, FailedAges, OneServerAges DEF CallsEnd
    <2>2. CASE Received(w) /\ handling[w].kind = "completed"
      <3>1. Resolve(w)
        BY <2>2 DEF Received
      <3>2. UNCHANGED <<server, interrupt>>
        BY <3>1 DEF Resolve
      <3>3. PICK t \in Runs : t = handling[w].turn
        BY <1>0, <1>1 DEF Handled
      <3>4. call' = call \/ (call[t].pc = "running" /\ call' = Settled(t, handling[w].run))
        BY <3>1, <3>3 DEF Resolve
      <3>5. CallsEnd
        BY <3>4, Types DEF RuntimeAgrees, Settled, CallsEnd, CallRecord
      <3>. QED BY <3>2, <3>5, NoServerAges
    <2>3. CASE Received(w) /\ handling[w].kind # "completed"
      <3>1. CASE Interrupting(w)
        BY <3>1, InterruptingEnds
      <3>2. CASE UNCHANGED <<call, worker, server, interrupt>>
        BY <3>2, NoServerAges DEF CallsEnd
      <3>. QED BY <2>3, <3>1, <3>2 DEF Received
    <2>. QED BY <2>1, <2>2, <2>3
  <1>3. InboxLeft(w)' < InboxLeft(w)
    <2>1. One(handling[w] # Silent) = 1 /\ One(handling'[w] # Silent) = 0
      BY <1>0, <1>1 DEF One
    <2>2. One(w \in interrupt) \in {0, 1} /\ One(w \in interrupt') \in {0, 1}
      BY OneType
    <2>3. InboxLeft(w) = 3 * Len(queue[w]) + 2 * 1 + One(w \in interrupt)
      BY <2>1 DEF InboxLeft
    <2>4. InboxLeft(w)' = 3 * Len(queue[w]) + 2 * 0 + One(w \in interrupt')
      BY <1>1, <2>1 DEF InboxLeft
    <2>. QED BY <1>0, <2>2, <2>3, <2>4
  <1>4. \A v \in Runs : InboxLeft(v)' <= InboxLeft(v)
    <2>1. \A v \in Runs : v # w => InboxLeft(v)' <= InboxLeft(v)
      BY <1>0, <1>1, <1>2 DEF InboxLeft, One
    <2>. QED BY <1>3, <2>1, Measured, MeasuredThen DEF Numbers
  <1>. QED BY <1>1, <1>2, <1>3, <1>4, StartsRest, EndingDrops

\* The ends of a client, and of the manager.
LEMMA ClosesDrop ==
  ASSUME RuntimeAgrees, RuntimeAgrees', NEW w \in Runs, Exited(w) \/ CloseStep(w)
  PROVE  HostDrops
  <1>0. server[w] \in ServerRecord
    BY OfWorker
  <1>1. UNCHANGED <<start, inbox, interrupt, stop>>
    BY DEF Exited, CloseStep, CloseFails, CloseEnds
  <1>2. CallsEnd
    <2>1. call' = call \/ call' = Rejected(w)
      BY DEF Exited, CloseStep, CloseFails, CloseEnds, WorkerEnds
    <2>. QED BY <2>1, RejectingEnds DEF CallsEnd
  <1>3. PICK t : /\ server' = [server EXCEPT ![w] = t] /\ Ages(server[w], t)
                 /\ ServerLeft(t) < ServerLeft(server[w])
    <2>1. CASE Exited(w)
      <3>1. /\ server' = [server EXCEPT ![w] = [server[w] EXCEPT !.lost = FALSE]]
            /\ server[w].lost
        BY <2>1 DEF Exited
      <3>2. LET t == [server[w] EXCEPT !.lost = FALSE]
            IN  Ages(server[w], t) /\ ServerLeft(t) < ServerLeft(server[w])
        BY <1>0, <3>1 DEF Ages, ServerLeft, One, ServerRecord
      <3>. QED BY <3>1, <3>2
    <2>2. CASE CloseFails(w)
      <3>1. server' = [server EXCEPT ![w] = Failed(server[w])] /\ ~server[w].closed
        BY <2>2 DEF CloseFails
      <3>. QED BY <1>0, <3>1, FailedAges
    <2>3. CASE CloseEnds(w)
      <3>1. /\ server' = [server EXCEPT ![w] = [server[w] EXCEPT !.closing = "done"]]
            /\ server[w].closing = "begun"
        BY <2>3 DEF CloseEnds
      <3>2. LET t == [server[w] EXCEPT !.closing = "done"]
            IN  Ages(server[w], t) /\ ServerLeft(t) < ServerLeft(server[w])
        BY <1>0, <3>1 DEF Ages, ServerLeft, One, ServerRecord
      <3>. QED BY <3>1, <3>2
    <2>. QED BY <2>1, <2>2, <2>3 DEF CloseStep
  <1>4. ServersAge /\ ServerLeft(server'[w]) < ServerLeft(server[w])
    BY <1>3, OneServerAges
  <1>. QED BY <1>1, <1>2, <1>4, StartsRest, InboxRests, EndingDrops

LEMMA StopEndsDrops == ASSUME RuntimeAgrees, RuntimeAgrees', StopEnds PROVE HostDrops
  <1>1. UNCHANGED <<call, start, server, inbox, interrupt>> /\ StopLeft' < StopLeft
    BY DEF StopEnds, StopLeft, One
  <1>2. \A r \in Runs : AnswerLeft(r)' + StartLeft(r)' <= AnswerLeft(r) + StartLeft(r)
    BY <1>1, Measured DEF Numbers, AnswerLeft, StartLeft
  <1>3. StopLeft' <= StopLeft
    BY DEF StopEnds, StopLeft, One
  <1>. QED BY <1>1, <1>2, <1>3, NoServerAges, InboxRests, Dropping

\* A call that waited has opened its own worker, or was refused.
LEMMA ReplaceDrops ==
  ASSUME RuntimeAgrees, RuntimeAgrees', NEW r \in Runs, Replace(r) PROVE HostDrops
  <1>1. /\ call[r].pc = "waiting" /\ Run(r, r)
        /\ UNCHANGED <<server, inbox, interrupt, stop>>
    BY DEF Replace
  <1>2. /\ call \in [Runs -> CallRecord] /\ start \in [Runs -> StartRecord]
        /\ start[r].pc = "none"
    BY <1>1, Types, OfRun DEF RuntimeAgrees, CallAgrees
  <1>3. /\ call'[r].pc \in {"settled", "running"}
        /\ start'[r].pc \in {"none", "open", "startup", "throws"}
        /\ \A s \in Runs : s # r => call'[s] = call[s] /\ start'[s] = start[s]
    BY <1>1, <1>2 DEF Run, Settled, Started, CallRecord, StartRecord
  <1>4. AnswerLeft(r)' + StartLeft(r)' < AnswerLeft(r) + StartLeft(r)
    BY <1>1, <1>2, <1>3 DEF AnswerLeft, StartLeft
  <1>5. \A s \in Runs : AnswerLeft(s)' + StartLeft(s)' <= AnswerLeft(s) + StartLeft(s)
    <2>1. \A s \in Runs : s # r => AnswerLeft(s)' = AnswerLeft(s) /\ StartLeft(s)' = StartLeft(s)
      BY <1>3 DEF AnswerLeft, StartLeft
    <2>2. \A s \in Runs : /\ AnswerLeft(s) \in Nat /\ StartLeft(s) \in Nat
                          /\ AnswerLeft(s)' \in Nat /\ StartLeft(s)' \in Nat
      BY Measured, MeasuredThen DEF Numbers
    <2>. QED BY <1>4, <2>1, <2>2
  <1>6. StopLeft' <= StopLeft
    BY <1>1 DEF StopLeft, One
  <1>. QED BY <1>1, <1>4, <1>5, <1>6, NoServerAges, InboxRests, Dropping

LEMMA HostStepDrops == ASSUME RuntimeAgrees, HostStep PROVE HostDrops
  <1>1. RuntimeAgrees'
    BY HostKeeps
  <1>2. ASSUME NEW r \in Runs, Replace(r) \/ Deadline(r) \/ StartStep(r) PROVE HostDrops
    BY <1>1, <1>2, ReplaceDrops, StopsDrop, StartsDrop
  <1>3. ASSUME NEW w \in Runs, ReceiveStep(w) \/ InterruptStops(w) \/ CloseStep(w) PROVE HostDrops
    BY <1>1, <1>3, ReceivesDrop, HandledDrops, ClosesDrop, StopsDrop DEF ReceiveStep
  <1>. QED BY <1>1, <1>2, <1>3, StopEndsDrops DEF HostStep

\* No step brings back a call that was made, a turn that got on or a client that is closed.
OutsideStays ==
    /\ \A r \in Runs : call'[r].pc = "idle" => call[r].pc = "idle"
    /\ \A r \in Runs : TurnLeft(r)' <= TurnLeft(r)
    /\ ServersAge
    /\ stops <= stops'

LEMMA OutsideNumbers ==
  ASSUME RuntimeAgrees, RuntimeAgrees', NEW r \in Runs, OutsideStays
  PROVE  /\ OutsideLeft'[r] <= OutsideLeft[r]
         /\ \/ call'[r].pc # "idle" /\ call[r].pc = "idle"
            \/ TurnLeft(r)' < TurnLeft(r)
            \/ server'[r].closed /\ ~server[r].closed
            => OutsideLeft'[r] < OutsideLeft[r]
         /\ OutsideLeft[r] \in Nat
  <1>1. TurnLeft(r) \in Nat /\ TurnLeft(r)' \in Nat
    BY Measured, MeasuredThen DEF Numbers
  <1>2. /\ OutsideLeft[r] = One(call[r].pc = "idle") + TurnLeft(r) + One(~server[r].closed)
        /\ OutsideLeft'[r] = One(call'[r].pc = "idle") + TurnLeft(r)' + One(~server'[r].closed)
    BY DEF OutsideLeft
  <1>3. /\ One(call'[r].pc = "idle") <= One(call[r].pc = "idle")
        /\ call'[r].pc # "idle" /\ call[r].pc = "idle" =>
              One(call'[r].pc = "idle") < One(call[r].pc = "idle")
    BY DEF OutsideStays, One
  <1>4. /\ One(~server'[r].closed) <= One(~server[r].closed)
        /\ server'[r].closed /\ ~server[r].closed =>
              One(~server'[r].closed) < One(~server[r].closed)
    BY DEF OutsideStays, ServersAge, Ages, One
  <1>5. /\ One(call[r].pc = "idle") \in {0, 1} /\ One(call'[r].pc = "idle") \in {0, 1}
        /\ One(~server[r].closed) \in {0, 1} /\ One(~server'[r].closed) \in {0, 1}
    BY OneType
  <1>6. TurnLeft(r)' <= TurnLeft(r)
    BY DEF OutsideStays
  <1>. HIDE DEF OutsideLeft, TurnLeft, One
  <1>. QED BY <1>1, <1>2, <1>3, <1>4, <1>5, <1>6


\* Every step lets the calls, the turns and the clients go on.
CallsGoOn ==
    \A r \in Runs :
        \/ call'[r] = call[r]
        \/ call'[r].pc \in {"running", "settled"}
        \/ call'[r].pc = "waiting" /\ server'[call'[r].worker].closing # "none"
TurnsGoOn == \A r \in Runs : TurnLeft(r)' <= TurnLeft(r)
GoOn == CallsGoOn /\ TurnsGoOn /\ ServersAge /\ stops <= stops'

LEMMA TurnsRest == ASSUME turn' = turn PROVE TurnsGoOn
  BY DEF TurnsGoOn, TurnLeft

LEMMA OneTurnGoesOn ==
  ASSUME RuntimeAgrees, NEW r \in Runs, NEW after \in {"sent", "started", "over"},
         turn' = [turn EXCEPT ![r] = after], turn[r] = "unsent" \/ after # "sent",
         turn[r] # "over"
  PROVE  TurnsGoOn /\ (turn[r] # after => TurnLeft(r)' < TurnLeft(r))
  <1>1. turn \in [Runs -> {"unsent", "sent", "started", "over"}]
    BY Types DEF RuntimeAgrees
  <1>. QED BY <1>1 DEF TurnsGoOn, TurnLeft

LEMMA StartsGoOn == ASSUME RuntimeAgrees, NEW r \in Runs, StartStep(r) PROVE GoOn
  <1>0. stops' = stops
    BY DEF StartStep, Spawn, Ready, Send, Answered, Recorded, Throws, Catch, history
  <1>1. CASE Catch(r)
    <2>1. StopWorker(Of(r)) /\ Of(r) \in Runs /\ turn' = turn
      BY <1>1, OfMade DEF Catch, At
    <2>. QED BY <1>0, <2>1, StopWorkerEnds, TurnsRest, Types
         DEF RuntimeAgrees, CallsEnd, GoOn, CallsGoOn
  <1>2. CASE Send(r)
    <2>1. turn[r] = "unsent"
      BY <1>2, OfRun DEF Send, At, StartAgrees, Starting
    <2>2. TurnsGoOn
      BY <1>2, <2>1, TurnsRest, OneTurnGoesOn DEF Send
    <2>3. call' = call /\ server' = server
      BY <1>2 DEF Send
    <2>. QED BY <1>0, <2>2, <2>3, NoServerAges, Types DEF RuntimeAgrees, GoOn, CallsGoOn
  <1>3. CASE ~Catch(r) /\ ~Send(r)
    <2>1. call' = call /\ turn' = turn
      BY <1>3 DEF StartStep, Spawn, Ready, Answered, Recorded, Throws
    <2>2. ServersAge
      BY <1>3, SpawnAges, NoServerAges DEF StartStep, Ready, Answered, Recorded, Throws
    <2>. QED BY <1>0, <2>1, <2>2, TurnsRest, Types DEF RuntimeAgrees, GoOn, CallsGoOn
  <1>. QED BY <1>1, <1>2, <1>3

LEMMA ReceivesGoOn ==
  ASSUME RuntimeAgrees, NEW w \in Runs, ReceiveStep(w) \/ CloseStep(w) \/ Exit(w)
  PROVE  GoOn
  <1>1. stops' = stops /\ turn' = turn
    BY DEF ReceiveStep, CloseStep, Receive, Received, ReceiveFails, Exited, CloseFails, CloseEnds,
           Exit, history
  <1>2. call \in [Runs -> CallRecord] /\ handling[w] \in {Silent} \cup Handled
    BY Types, OfWorker DEF RuntimeAgrees
  <1>3. CallsGoOn /\ ServersAge
    <2>1. CASE Receive(w)
      <3>1. call' = call /\ (server' = server \/ server' = [server EXCEPT ![w] = Killed(server[w])])
        BY <2>1 DEF Receive
      <3>. QED BY <3>1, OfWorker, KilledAges, OneServerAges, NoServerAges DEF CallsGoOn
    <2>2. CASE ReceiveFails(w) \/ CloseFails(w) \/ Exit(w)
      <3>1. call' = call /\ server' = [server EXCEPT ![w] = Failed(server[w])]
        BY <2>2 DEF ReceiveFails, CloseFails, Exit
      <3>. QED BY <3>1, OfWorker, FailedAges, OneServerAges DEF CallsGoOn
    <2>3. CASE Exited(w) \/ CloseEnds(w)
      <3>1. call' = Rejected(w)
        BY <2>3 DEF Exited, CloseEnds, WorkerEnds
      <3>2. CASE Exited(w)
        <4>1. server' = [server EXCEPT ![w] = [server[w] EXCEPT !.lost = FALSE]]
          BY <3>2 DEF Exited
        <4>2. Ages(server[w], [server[w] EXCEPT !.lost = FALSE])
          BY OfWorker DEF Ages, ServerLeft, One, ServerRecord
        <4>. QED BY <3>1, <4>1, <4>2, OneServerAges, RejectingEnds DEF CallsEnd, CallsGoOn
      <3>3. CASE CloseEnds(w)
        <4>1. /\ server' = [server EXCEPT ![w] = [server[w] EXCEPT !.closing = "done"]]
              /\ server[w].closing = "begun"
          BY <3>3 DEF CloseEnds
        <4>2. Ages(server[w], [server[w] EXCEPT !.closing = "done"])
          BY <4>1, OfWorker DEF Ages, ServerLeft, One, ServerRecord
        <4>. QED BY <3>1, <4>1, <4>2, OneServerAges, RejectingEnds DEF CallsEnd, CallsGoOn
      <3>. QED BY <2>3, <3>2, <3>3
    <2>4. CASE Received(w)
      <3>1. CASE Interrupting(w)
        BY <3>1, InterruptingEnds DEF CallsEnd, CallsGoOn
      <3>2. CASE UNCHANGED <<call, worker, server, interrupt>>
        BY <3>2, NoServerAges DEF CallsGoOn
      <3>3. CASE handling[w] # Silent /\ Resolve(w)
        <4>1. handling[w].turn \in Runs /\ server' = server
          BY <1>2, <3>3 DEF Handled, Resolve
        <4>2. call' = call \/ call' = Settled(handling[w].turn, handling[w].run)
          BY <3>3 DEF Resolve
        <4>3. CallsGoOn
          BY <1>2, <4>1, <4>2 DEF Settled, CallsGoOn, CallRecord
        <4>. QED BY <4>1, <4>3, NoServerAges
      <3>. QED BY <2>4, <3>1, <3>2, <3>3 DEF Received
    <2>. QED BY <2>1, <2>2, <2>3, <2>4 DEF ReceiveStep, CloseStep
  <1>. QED BY <1>1, <1>3, Types, TurnsRest DEF RuntimeAgrees, GoOn, TypeOK

LEMMA StopsGoOn ==
  ASSUME RuntimeAgrees,
         \/ \E r \in Runs : Deadline(r) \/ InterruptStops(r)
         \/ Cancel \/ Stop \/ StopEnds
  PROVE  GoOn
  <1>0. turn' = turn /\ stops' \in {stops, stops + 1}
    BY DEF Deadline, InterruptStops, Cancel, Stop, StopEnds, history
  <1>1. stops <= stops' /\ TurnsGoOn
    BY <1>0, TurnsRest DEF RuntimeAgrees, TypeOK
  <1>2. current # None => current \in Runs
    BY Types DEF RuntimeAgrees, Maybe
  <1>3. ASSUME NEW w \in Runs, StopWorker(w) PROVE CallsGoOn /\ ServersAge
    BY <1>3, StopWorkerEnds DEF CallsEnd, CallsGoOn
  <1>4. CASE Cancel
    BY <1>1, <1>2, <1>4, InterruptingEnds DEF Cancel, CallsEnd, CallsGoOn, GoOn
  <1>5. CASE Stop
    <2>1. call' = call
      BY <1>5 DEF Stop
    <2>2. server' = server \/ (current # None /\ server' = [server EXCEPT ![current] = Closing(server[current])])
      BY <1>5 DEF Stop
    <2>. QED BY <1>1, <1>2, <2>1, <2>2, OfWorker, ClosingAges, OneServerAges, NoServerAges
         DEF CallsGoOn, GoOn
  <1>6. CASE StopEnds
    BY <1>1, <1>6, NoServerAges DEF StopEnds, CallsGoOn, GoOn
  <1>. QED BY <1>1, <1>3, <1>4, <1>5, <1>6 DEF Deadline, InterruptStops, GoOn

LEMMA CallsThemselvesGoOn ==
  ASSUME RuntimeAgrees, NEW r \in Runs, Call(r) \/ Replace(r)
  PROVE  GoOn
  <1>1. turn' = turn /\ stops' = stops
    BY DEF Call, Replace, history
  <1>2. call \in [Runs -> CallRecord] /\ (current # None => current \in Runs)
    BY Types DEF RuntimeAgrees, Maybe
  <1>3. ASSUME NEW w \in Runs, Run(w, r) PROVE CallsGoOn
    BY <1>2, <1>3 DEF Run, Settled, CallsGoOn, CallRecord
  <1>4. CallsGoOn /\ ServersAge
    <2>1. CASE server' = server /\ (Run(r, r) \/ (current # None /\ Run(current, r)))
      BY <1>2, <1>3, <2>1, NoServerAges
    <2>2. CASE server' = server /\ call' = Settled(r, None)
      BY <1>2, <2>2, NoServerAges DEF Settled, CallsGoOn, CallRecord
    <2>3. CASE /\ current # None
               /\ call' = [call EXCEPT ![r].pc = "waiting", ![r].worker = current]
               /\ server' = [server EXCEPT ![current] = Closing(server[current])]
      <3>1. ServersAge /\ server'[current].closing # "none"
        <4>1. PICK w \in Runs : w = current
          BY <1>2, <2>3
        <4>2. server[w] \in ServerRecord
          BY OfWorker
        <4>. QED BY <2>3, <4>1, <4>2, ClosingAges, OneServerAges
      <3>. QED BY <1>2, <2>3, <3>1 DEF CallsGoOn, CallRecord
    <2>. QED BY <2>1, <2>2, <2>3 DEF Call, Replace
  <1>. QED BY <1>1, <1>4, Types, TurnsRest DEF RuntimeAgrees, TypeOK, GoOn

LEMMA CodexGoesOn ==
  ASSUME RuntimeAgrees, NEW r \in Runs, TurnStarted(r) \/ TurnCompleted(r) \/ Question(r)
  PROVE  /\ GoOn
         /\ Question(r) \/ TurnLeft(r)' < TurnLeft(r)
  <1>1. call' = call /\ server' = server /\ stops <= stops'
    BY Types DEF RuntimeAgrees, TurnStarted, TurnCompleted, Question, Writes
  <1>2. PICK after \in {"started", "over"} :
           /\ turn' = [turn EXCEPT ![r] = after] /\ turn[r] # "over"
           /\ Question(r) \/ turn[r] # after
    BY DEF TurnStarted, TurnCompleted, Question, Writes
  <1>3. TurnsGoOn /\ (turn[r] # after => TurnLeft(r)' < TurnLeft(r))
    BY <1>2, OneTurnGoesOn
  <1>. QED BY <1>1, <1>2, <1>3, NoServerAges DEF CallsGoOn, GoOn

LEMMA EveryStepGoesOn == ASSUME RuntimeAgrees, Next PROVE GoOn
  BY StartsGoOn, ReceivesGoOn, StopsGoOn, CallsThemselvesGoOn, CodexGoesOn DEF Next, HostStep

LEMMA OutsideStaysKept ==
  ASSUME RuntimeAgrees, RuntimeAgrees', GoOn PROVE OutsideStays /\ OutsideKept
  <1>1. OutsideStays
    BY DEF GoOn, CallsGoOn, TurnsGoOn, OutsideStays
  <1>. QED BY <1>1, OutsideNumbers DEF OutsideStays, OutsideKept, Below

\* What callers and Codex do uses up something.
LEMMA OutsideStepDrops ==
  ASSUME RuntimeAgrees, RuntimeAgrees', Next, ~HostStep
  PROVE  OutsideDrops
  <1>1. GoOn /\ OutsideStays /\ OutsideKept
    BY EveryStepGoesOn, OutsideStaysKept
  <1>2. ASSUME NEW r \in Runs,
               \/ call'[r].pc # "idle" /\ call[r].pc = "idle"
               \/ TurnLeft(r)' < TurnLeft(r)
               \/ server'[r].closed /\ ~server[r].closed
        PROVE  OutsideDrops
    <2>1. OutsideLeft'[r] < OutsideLeft[r] /\ OutsideLeft[r] \in Nat
      BY <1>1, <1>2, OutsideNumbers
    <2>. HIDE DEF OutsideLeft
    <2>. QED BY <1>1, <2>1 DEF OutsideDrops
  <1>3. CASE stops' = stops + 1
    BY <1>1, <1>3, Types DEF RuntimeAgrees, TypeOK, OutsideDrops
  <1>4. ASSUME NEW r \in Runs, Call(r) PROVE call'[r].pc # "idle" /\ call[r].pc = "idle"
    BY <1>4, Types DEF RuntimeAgrees, Call, Run, Settled, CallRecord
  <1>5. ASSUME NEW r \in Runs, Exit(r) PROVE server'[r].closed /\ ~server[r].closed
    BY <1>5, OfWorker, FailedAges, Types DEF RuntimeAgrees, Exit
  <1>6. ASSUME NEW r \in Runs, TurnStarted(r) \/ TurnCompleted(r)
        PROVE  TurnLeft(r)' < TurnLeft(r) \/ stops' = stops + 1
    BY <1>6, CodexGoesOn DEF Question
  <1>7. Cancel \/ Stop \/ (\E r \in Runs : Question(r)) => stops' = stops + 1
    BY DEF Cancel, Stop, Question
  <1>. QED BY <1>2, <1>3, <1>4, <1>5, <1>6, <1>7 DEF Next

LEMMA StepsDescend == ASSUME RuntimeAgrees, Next PROVE Descends
  <1>1. RuntimeAgrees'
    BY StepKeeps
  <1>2. OutsideKept
    BY <1>1, EveryStepGoesOn, OutsideStaysKept
  <1>. QED BY <1>1, <1>2, HostStepDrops, OutsideStepDrops DEF Descends

\* Who waits keeps waiting for a client that is on its way out.
LEMMA AwaitsKept == ASSUME RuntimeAgrees, Awaits, [Next]_vars PROVE Awaits'
  <1>1. CASE UNCHANGED vars
    BY <1>1 DEF vars, Awaits
  <1>2. CASE Next
    <2>1. GoOn
      BY <1>2, EveryStepGoesOn
    <2>2. ASSUME NEW r \in Runs, call'[r].pc = "waiting"
          PROVE  server'[call'[r].worker].closing # "none"
      <3>1. CASE call'[r] = call[r]
        <4>1. call[r].worker \in Runs /\ server[call[r].worker].closing # "none"
          BY <2>2, <3>1, OfMade DEF Awaits
        <4>. QED BY <2>1, <3>1, <4>1 DEF GoOn, ServersAge, Ages
      <3>. QED BY <2>1, <2>2, <3>1 DEF GoOn, CallsGoOn
    <2>3. ASSUME stop'.pc = "stopping", stop'.worker # None
          PROVE  server'[stop'.worker].closing # "none"
      <3>1. CASE stop' = stop
        <4>1. stop.worker \in Runs /\ server[stop.worker].closing # "none"
          BY <2>3, <3>1, Types DEF RuntimeAgrees, Awaits, StopRecord, Maybe
        <4>. QED BY <2>1, <3>1, <4>1 DEF GoOn, ServersAge, Ages
      <3>2. CASE Stop
        <4>1. current \in Runs /\ stop'.worker = current
              /\ server' = [server EXCEPT ![current] = Closing(server[current])]
          BY <2>3, <3>2, Types DEF RuntimeAgrees, Stop, Maybe
        <4>2. server[current] \in ServerRecord
          BY <4>1, OfWorker
        <4>3. Closing(server[current]).closing # "none" /\ Ages(server[current], Closing(server[current]))
          BY <4>2, ClosingAges
        <4>. QED BY <4>1, <4>3, OneServerAges
      <3>3. CASE StopEnds
        BY <2>3, <3>3 DEF StopEnds
      <3>4. stop' = stop \/ Stop \/ StopEnds
        <4>1. ASSUME NEW r \in Runs,
                     StartStep(r) \/ Replace(r) \/ Deadline(r) \/ Call(r) \/ InterruptStops(r)
              PROVE  stop' = stop
          BY <4>1 DEF StartStep, Replace, Deadline, Call, InterruptStops, Spawn, Ready, Send,
               Answered, Recorded, Throws, Catch
        <4>2. ASSUME NEW w \in Runs, ReceiveStep(w) \/ CloseStep(w) \/ Exit(w)
              PROVE  stop' = stop
          BY <4>2 DEF ReceiveStep, CloseStep, Exit, Receive, Received, ReceiveFails, Exited,
               CloseFails, CloseEnds
        <4>3. ASSUME NEW r \in Runs, TurnStarted(r) \/ TurnCompleted(r) \/ Question(r)
              PROVE  stop' = stop
          BY <4>3 DEF TurnStarted, TurnCompleted, Question, Writes
        <4>4. Cancel => stop' = stop
          BY DEF Cancel
        <4>. QED BY <1>2, <4>1, <4>2, <4>3, <4>4 DEF Next, HostStep
      <3>. QED BY <3>1, <3>2, <3>3, <3>4
    <2>. QED BY <2>2, <2>3 DEF Awaits
  <1>. QED BY <1>1, <1>2

LEMMA AlwaysAwaits == Spec => []Awaits
  <1>1. Init => Awaits
    BY DEF Init, NoCall, Awaits
  <1>. QED BY <1>1, AwaitsKept, RuntimeAlwaysAgrees, PTL DEF Spec

\* A client that is being closed has a step to take.
LEMMA ClosingIsDue ==
  ASSUME RuntimeAgrees, NEW w \in Runs, server[w].closing = "begun" PROVE Due
  BY DEF Due

\* What a behaviour has left is finite: stop steps and the numbers of every call, turn, client
\* and queue; each step either is the host's and leaves less, or uses up what callers and
\* Codex may do, which no step of the host gives back.  So no behaviour goes on for ever, and
\* a host that keeps taking the steps that are due comes to the end of every call.
EveryStepDescends == [][Descends]_vars
THEOREM EveryStepCounts ==
  Spec => /\ EveryStepDescends
          /\ [](HostLeft \in [Runs -> Nat] /\ StopLeft \in Nat)
          /\ [](OutsideLeft \in [Runs -> Nat] /\ stops \in 0..MaxStops)
  <1>1. ASSUME RuntimeAgrees, [Next]_vars PROVE [Descends]_vars
    BY <1>1, StepsDescend
  <1>2. ASSUME RuntimeAgrees
        PROVE  HostLeft \in [Runs -> Nat] /\ StopLeft \in Nat
    <2>1. Numbers
      BY <1>2, Measured
    <2>. HIDE DEF AnswerLeft, StartLeft, ServerLeft, InboxLeft
    <2>. QED BY <2>1 DEF Numbers, HostLeft
  <1>3. ASSUME RuntimeAgrees
        PROVE  OutsideLeft \in [Runs -> Nat] /\ stops \in 0..MaxStops
    <2>1. Numbers
      BY <1>3, Measured
    <2>2. \A b : One(b) \in Nat
      BY OneType
    <2>. HIDE DEF TurnLeft, One
    <2>. QED BY <1>3, <2>1, <2>2 DEF Numbers, OutsideLeft, RuntimeAgrees, TypeOK
  <1>. QED BY <1>1, <1>2, <1>3, RuntimeAlwaysAgrees, PTL DEF Spec, EveryStepDescends

\* As long as a call of runTurn or the stop of the manager is unanswered, one of the host's
\* steps has its guard: the deadline of the turn, or the next step of the client it waits
\* for, which was told to end before anybody waited for it.  A worker never waits for itself.
THEOREM SomethingIsDue == Spec => [](Waiting => Due)
  <1>1. ASSUME RuntimeAgrees, Awaits, Waiting PROVE Due
    <2>1. ASSUME NEW r \in Runs, call[r].pc = "running" PROVE Due
      <3>1. call[r].worker \in Runs /\ worker[call[r].worker].active = r
        BY <1>1, <2>1, OfRun, OfMade DEF CallAgrees
      <3>. QED BY <3>1 DEF Due
    <2>2. ASSUME NEW w \in Runs, server[w].closing # "none", server[w].closing # "done"
          PROVE  Due
      <3>1. server[w].closing = "begun"
        BY <1>1, <2>2, OfWorker DEF ServerRecord
      <3>. QED BY <1>1, <3>1, ClosingIsDue
    <2>3. ASSUME NEW r \in Runs, call[r].pc = "waiting" PROVE Due
      <3>1. call[r].worker \in Runs /\ server[call[r].worker].closing # "none"
        BY <1>1, <2>3, OfMade DEF Awaits
      <3>. QED BY <2>2, <2>3, <3>1 DEF Due
    <2>4. CASE stop.pc = "stopping"
      <3>1. stop.worker # None => stop.worker \in Runs /\ server[stop.worker].closing # "none"
        BY <1>1, <2>4, Types DEF RuntimeAgrees, Awaits, StopRecord, Maybe
      <3>. QED BY <2>2, <2>4, <3>1 DEF Due
    <2>. QED BY <1>1, <2>1, <2>3, <2>4 DEF Waiting
  <1>. QED BY <1>1, RuntimeAlwaysAgrees, AlwaysAwaits, PTL

-----------------------------------------------------------------------------
(* The manager and its workers are a WorkerRuntime *)

\* What callers, Codex and shutdown see of a step: nothing, or what happens to one run.
SameView ==
    /\ \A r \in Runs : PromiseOf(r)' = PromiseOf(r) /\ PromptOf(r)' = PromptOf(r)
    /\ stop'.pc = "running" <=> stop.pc = "running"
Promises(r, to) ==
    /\ PromiseOf(r)' = to
    /\ \A s \in Runs : s # r => PromiseOf(s)' = PromiseOf(s)
    /\ turn' = turn /\ stop' = stop
Prompts(r, to) ==
    /\ PromptOf(r)' = to
    /\ \A s \in Runs : s # r => PromptOf(s)' = PromptOf(s)
    /\ call' = call /\ stop' = stop

ViewChanges(r) ==
    \/ PromiseOf(r) = "none" /\ stop.pc = "running" /\ Promises(r, "pending")
    \/ PromiseOf(r) = "none" /\ Promises(r, "broken")
    \/ PromiseOf(r) = "pending" /\ PromptOf(r) = "unsent" /\ Prompts(r, "sent")
    \/ PromptOf(r) = "sent" /\ Prompts(r, "over")
    \/ PromiseOf(r) = "pending" /\ PromptOf(r) = "over" /\ Promises(r, "kept")
    \/ PromiseOf(r) = "pending" /\ Promises(r, "broken")
Seen == SameView \/ (\E r \in Runs : ViewChanges(r)) \/ Stop

LEMMA PromiseKept ==
  \A r \in Runs : call'[r].pc = call[r].pc /\ call'[r].by = call[r].by
                     => PromiseOf(r)' = PromiseOf(r)
  BY DEF PromiseOf
LEMMA PromptKept == \A r \in Runs : turn'[r] = turn[r] => PromptOf(r)' = PromptOf(r)
  BY DEF PromptOf

\* The view changes as the contract says.
LEMMA SeenIsContract ==
  ASSUME Seen PROVE [Contract!Next]_(Contract!vars)
  <1>. DEFINE promise == [r \in Runs |-> PromiseOf(r)]
              prompt == [r \in Runs |-> PromptOf(r)]
  <1>1. CASE SameView
    <2>1. promise' = promise /\ prompt' = prompt
      BY <1>1 DEF SameView
    <2>2. (stop.pc = "running")' = (stop.pc = "running")
      BY <1>1 DEF SameView
    <2>. QED BY <2>1, <2>2 DEF Contract!vars
  <1>2. CASE Stop
    <2>1. \A r \in Runs : PromiseOf(r)' = PromiseOf(r) /\ PromptOf(r)' = PromptOf(r)
      BY <1>2, PromiseKept, PromptKept DEF Stop
    <2>2. promise' = promise /\ prompt' = prompt
      BY <2>1
    <2>3. stop.pc = "running" /\ stop'.pc = "stopping"
      BY <1>2 DEF Stop
    <2>. QED BY <2>2, <2>3 DEF Contract!Next, Contract!Shutdown
  <1>3. ASSUME NEW r \in Runs, ViewChanges(r) PROVE Contract!Next
    <2>1. ASSUME NEW to, Promises(r, to)
          PROVE  /\ promise' = [promise EXCEPT ![r] = to] /\ prompt' = prompt
                 /\ (stop.pc = "running")' = (stop.pc = "running")
      <3>1. \A s \in Runs : PromptOf(s)' = PromptOf(s)
        BY <2>1, PromptKept DEF Promises
      <3>. QED BY <2>1, <3>1 DEF Promises
    <2>2. ASSUME NEW to, Prompts(r, to)
          PROVE  /\ prompt' = [prompt EXCEPT ![r] = to] /\ promise' = promise
                 /\ (stop.pc = "running")' = (stop.pc = "running")
      <3>1. \A s \in Runs : PromiseOf(s)' = PromiseOf(s)
        BY <2>2, PromiseKept DEF Prompts
      <3>. QED BY <2>2, <3>1 DEF Prompts
    <2>3. promise[r] = PromiseOf(r) /\ prompt[r] = PromptOf(r)
      OBVIOUS
    <2>. HIDE DEF promise, prompt
    <2>4. \/ Contract!RunTurn(r) \/ Contract!Send(r) \/ Contract!Complete(r)
          \/ Contract!Resolve(r) \/ Contract!Reject(r)
      <3>1. CASE PromiseOf(r) = "none" /\ stop.pc = "running" /\ Promises(r, "pending")
        BY <2>1, <2>3, <3>1 DEF Contract!RunTurn, Contract!Turns, promise, prompt
      <3>2. CASE PromiseOf(r) = "none" /\ Promises(r, "broken")
        BY <2>1, <2>3, <3>2 DEF Contract!RunTurn, Contract!Turns, promise, prompt
      <3>3. CASE PromiseOf(r) = "pending" /\ PromptOf(r) = "unsent" /\ Prompts(r, "sent")
        BY <2>2, <2>3, <3>3 DEF Contract!Send, promise, prompt
      <3>4. CASE PromptOf(r) = "sent" /\ Prompts(r, "over")
        BY <2>2, <2>3, <3>4 DEF Contract!Complete, promise, prompt
      <3>5. CASE PromiseOf(r) = "pending" /\ PromptOf(r) = "over" /\ Promises(r, "kept")
        BY <2>1, <2>3, <3>5 DEF Contract!Resolve, Contract!Turns, promise, prompt
      <3>6. CASE PromiseOf(r) = "pending" /\ Promises(r, "broken")
        BY <2>1, <2>3, <3>6 DEF Contract!Reject, Contract!Turns, promise, prompt
      <3>. QED BY <1>3, <3>1, <3>2, <3>3, <3>4, <3>5, <3>6 DEF ViewChanges
    <2>. QED BY <2>4 DEF Contract!Next
  <1>. QED BY <1>1, <1>2, <1>3 DEF Seen

\* A call that settles, a worker that ends, and the turn of a worker that is resolved.
LEMMA SettledIsSeen ==
  ASSUME RuntimeAgrees, NEW r \in Runs, NEW by \in {None, r}, call' = Settled(r, by)
  PROVE  /\ PromiseOf(r)' = IF by = None THEN "broken" ELSE "kept"
         /\ \A s \in Runs : s # r => PromiseOf(s)' = PromiseOf(s)
  <1>2. call' = [call EXCEPT ![r].pc = "settled", ![r].by = by]
    BY DEF Settled
  <1>3. call \in [Runs -> CallRecord] /\ r # None
    BY Types, ConstantAssumption DEF RuntimeAgrees
  <1>4. call'[r].pc = "settled" /\ call'[r].by = by /\ \A s \in Runs : s # r => call'[s] = call[s]
    BY <1>2, <1>3 DEF CallRecord
  <1>. QED BY <1>3, <1>4, PromiseKept DEF PromiseOf

LEMMA QuietIsSeen ==
  ASSUME UNCHANGED <<call, turn>>, stop' = stop PROVE Seen
  BY PromiseKept, PromptKept DEF Seen, SameView

LEMMA RejectedIsSeen ==
  ASSUME RuntimeAgrees, NEW w \in Runs, call' = Rejected(w), UNCHANGED <<turn, stop>>
  PROVE  Seen
  <1>1. CASE worker[w].active = None
    BY <1>1, QuietIsSeen DEF Rejected
  <1>2. CASE worker[w].active # None
    <2>1. PICK r \in Runs : r = worker[w].active
      BY <1>2, OfWorker
    <2>2. call[r].pc = "running" /\ call' = Settled(r, None)
      BY <1>2, <2>1, OfWorker DEF WorkerAgrees, Rejected
    <2>3. PromiseOf(r) = "pending" /\ Promises(r, "broken")
      BY <2>2, SettledIsSeen DEF Promises, PromiseOf
    <2>. QED BY <2>3 DEF Seen, ViewChanges
  <1>. QED BY <1>1, <1>2

LEMMA CallIsSeen ==
  ASSUME RuntimeAgrees, NEW r \in Runs, Call(r) PROVE Seen
  <1>1. PromiseOf(r) = "none" /\ UNCHANGED <<turn, stop>>
    BY DEF Call, PromiseOf
  <1>2. CASE call' = Settled(r, None)
    BY <1>1, <1>2, SettledIsSeen DEF Promises, Seen, ViewChanges
  <1>3. CASE call' # Settled(r, None)
    <2>1. PICK pc \in {"waiting", "running"} :
             \E w : call' = [call EXCEPT ![r].pc = pc, ![r].worker = w]
      BY <1>3 DEF Call, Run
    <2>2. call'[r].pc = pc /\ \A s \in Runs : s # r => call'[s] = call[s]
      BY <2>1, Types DEF RuntimeAgrees, CallRecord
    <2>3. stop.pc = "running"
      BY <1>3 DEF Call
    <2>4. PromiseOf(r)' = "pending"
      BY <2>1, <2>2 DEF PromiseOf
    <2>. QED BY <1>1, <2>2, <2>3, <2>4, PromiseKept DEF Promises, Seen, ViewChanges
  <1>. QED BY <1>2, <1>3

LEMMA ReplaceIsSeen ==
  ASSUME RuntimeAgrees, NEW r \in Runs, Replace(r) PROVE Seen
  <1>1. PromiseOf(r) = "pending" /\ UNCHANGED <<turn, stop>>
    BY DEF Replace, PromiseOf
  <1>2. CASE call' = Settled(r, None)
    BY <1>1, <1>2, SettledIsSeen DEF Promises, Seen, ViewChanges
  <1>3. CASE call' = [call EXCEPT ![r].pc = "running", ![r].worker = r]
    <2>1. call'[r].pc = "running" /\ \A s \in Runs : s # r => call'[s] = call[s]
      BY <1>3, Types DEF RuntimeAgrees, CallRecord
    <2>2. PromiseOf(r)' = "pending"
      BY <2>1 DEF PromiseOf
    <2>3. SameView
      BY <1>1, <2>1, <2>2, PromiseKept, PromptKept DEF SameView
    <2>. QED BY <2>3 DEF Seen
  <1>. QED BY <1>2, <1>3 DEF Replace, Run

\* turn/start is written for the active turn of the worker, which waits for it.
LEMMA SendIsSeen ==
  ASSUME RuntimeAgrees, NEW r \in Runs, Send(r) PROVE Seen
  <1>1. CASE server[Of(r)].process # "live"
    BY <1>1, QuietIsSeen DEF Send, history
  <1>2. CASE server[Of(r)].process = "live"
    <2>1. Starting(r) /\ Of(r) \in Runs
      BY OfMade DEF Send, At, Starting
    <2>2. worker[Of(r)].active = r /\ turn[r] = "unsent"
      BY <1>2, <2>1, OfRun, OfWorker DEF StartAgrees, Ended, ServerAgrees, Gone
    <2>3. call[r].pc = "running"
      BY <2>1, <2>2, OfWorker, ConstantAssumption DEF WorkerAgrees
    <2>4. turn' = [turn EXCEPT ![r] = "sent"] /\ UNCHANGED <<call, stop>>
      BY <1>2 DEF Send
    <2>5. turn'[r] = "sent" /\ \A s \in Runs : s # r => turn'[s] = turn[s]
      BY <2>4, Types DEF RuntimeAgrees
    <2>6. PromiseOf(r) = "pending" /\ PromptOf(r) = "unsent" /\ Prompts(r, "sent")
      BY <2>2, <2>3, <2>4, <2>5, PromptKept DEF PromiseOf, PromptOf, Prompts
    <2>. QED BY <2>6 DEF Seen, ViewChanges
  <1>. QED BY <1>1, <1>2

\* What Codex writes.
LEMMA WritesIsSeen ==
  ASSUME RuntimeAgrees, NEW r \in Runs, TurnStarted(r) \/ TurnCompleted(r) \/ Question(r)
  PROVE  Seen
  <1>1. PICK after \in {"started", "over"} :
           /\ turn[r] \in {"sent", "started"} /\ turn' = [turn EXCEPT ![r] = after]
           /\ UNCHANGED <<call, stop>>
    BY DEF TurnStarted, TurnCompleted, Question, Writes
  <1>2. turn'[r] = after /\ \A s \in Runs : s # r => turn'[s] = turn[s]
    BY <1>1, Types DEF RuntimeAgrees
  <1>3. PromptOf(r) = "sent" /\ \A s \in Runs : s # r => PromptOf(s)' = PromptOf(s)
    BY <1>1, <1>2, PromptKept DEF PromptOf
  <1>4. CASE after = "started"
    <2>1. PromptOf(r)' = "sent"
      BY <1>2, <1>4 DEF PromptOf
    <2>2. SameView
      BY <1>1, <1>3, <2>1, PromiseKept DEF SameView
    <2>. QED BY <2>2 DEF Seen
  <1>5. CASE after = "over"
    <2>1. PromptOf(r)' = "over"
      BY <1>2, <1>5 DEF PromptOf
    <2>. QED BY <1>1, <1>3, <2>1 DEF Prompts, Seen, ViewChanges
  <1>. QED BY <1>4, <1>5

\* A notification that was handled resolves the turn it was read for, which Codex has completed.
LEMMA ReceivedIsSeen ==
  ASSUME RuntimeAgrees, NEW w \in Runs, Received(w) PROVE Seen
  <1>1. UNCHANGED <<turn, stop>> /\ handling[w] # Silent
    BY DEF Received
  <1>2. CASE handling[w].kind = "completed" /\ Resolve(w)
    <2>1. PICK r \in Runs : r = handling[w].turn
      BY <1>1, OfWorker DEF Handled
    <2>2. handling[w].run = r /\ turn[r] = "over"
      BY <1>1, <1>2, <2>1, OfWorker DEF HandlingAgrees
    <2>3. CASE call[r].pc = "running"
      <3>1. call' = Settled(r, r)
        BY <1>2, <2>1, <2>2, <2>3 DEF Resolve
      <3>2. PromiseOf(r)' = "kept" /\ \A s \in Runs : s # r => PromiseOf(s)' = PromiseOf(s)
        BY <3>1, SettledIsSeen, ConstantAssumption
      <3>3. PromiseOf(r) = "pending" /\ PromptOf(r) = "over"
        BY <2>2, <2>3 DEF PromiseOf, PromptOf
      <3>. QED BY <1>1, <3>2, <3>3 DEF Promises, Seen, ViewChanges
    <2>4. CASE call[r].pc # "running"
      BY <1>1, <1>2, <2>1, <2>4, QuietIsSeen DEF Resolve
    <2>. QED BY <2>3, <2>4
  <1>3. CASE Interrupting(w)
    <2>1. call' = call \/ call' = Rejected(w)
      BY <1>3 DEF Interrupting, StopWorker, WorkerEnds
    <2>. QED BY <1>1, <2>1, QuietIsSeen, RejectedIsSeen
  <1>4. CASE call' = call
    BY <1>1, <1>4, QuietIsSeen
  <1>. QED BY <1>2, <1>3, <1>4 DEF Received

LEMMA StepIsSeen ==
  ASSUME RuntimeAgrees, [Next]_vars PROVE Seen
  <1>1. ASSUME NEW r \in Runs, StartStep(r) PROVE Seen
    <2>1. CASE Catch(r)
      <3>1. Of(r) \in Runs
        BY <2>1, OfMade DEF Catch, At
      <3>. QED BY <2>1, <3>1, RejectedIsSeen DEF Catch, StopWorker, WorkerEnds
    <2>2. CASE Spawn(r) \/ Ready(r) \/ Answered(r) \/ Recorded(r) \/ Throws(r)
      BY <2>2, QuietIsSeen DEF Spawn, Ready, Answered, Recorded, Throws
    <2>. QED BY <1>1, <2>1, <2>2, SendIsSeen DEF StartStep
  <1>2. ASSUME NEW w \in Runs, ReceiveStep(w) \/ InterruptStops(w) \/ CloseStep(w) PROVE Seen
    <2>1. CASE Exited(w) \/ InterruptStops(w) \/ CloseEnds(w)
      BY <2>1, RejectedIsSeen DEF Exited, InterruptStops, CloseEnds, StopWorker, WorkerEnds
    <2>2. CASE Receive(w) \/ ReceiveFails(w) \/ CloseFails(w)
      BY <2>2, QuietIsSeen DEF Receive, ReceiveFails, CloseFails
    <2>. QED BY <1>2, <2>1, <2>2, ReceivedIsSeen DEF ReceiveStep, CloseStep
  <1>3. ASSUME NEW r \in Runs, Deadline(r) PROVE Seen
    BY <1>3, RejectedIsSeen DEF Deadline, StopWorker, WorkerEnds
  <1>4. CASE StopEnds
    <2>1. UNCHANGED <<call, turn>> /\ stop.pc # "running" /\ stop'.pc # "running"
      BY <1>4 DEF StopEnds
    <2>. QED BY <2>1, PromiseKept, PromptKept DEF Seen, SameView
  <1>5. CASE Cancel
    <2>1. current \in Runs /\ UNCHANGED <<turn, stop>>
      BY <1>5, Types DEF Cancel, RuntimeAgrees, Maybe
    <2>2. call' = call \/ call' = Rejected(current)
      BY <1>5 DEF Cancel, Interrupting, StopWorker, WorkerEnds
    <2>. QED BY <2>1, <2>2, QuietIsSeen, RejectedIsSeen
  <1>6. ASSUME NEW w \in Runs, Exit(w) PROVE Seen
    BY <1>6, QuietIsSeen DEF Exit
  <1>7. CASE UNCHANGED vars
    BY <1>7, QuietIsSeen DEF vars
  <1>8. CASE Stop
    BY <1>8 DEF Seen
  <1>. QED BY <1>1, <1>2, <1>3, <1>4, <1>5, <1>6, <1>7, <1>8, CallIsSeen, ReplaceIsSeen,
              WritesIsSeen DEF Next, HostStep

\* The manager and its workers are a WorkerRuntime: whatever is late, lost, refused or stopped,
\* runTurn is answered at most once, by the completion of its own prompt or with an error, and
\* its prompt is sent at most once, while it is pending.
THEOREM RuntimeKeepsItsPromises == Spec => IsWorkerRuntime
  <1>1. Init => Contract!Init
    <2>. SUFFICES ASSUME Init PROVE Contract!Init
      OBVIOUS
    <2>1. \A r \in Runs : PromiseOf(r) = "none" /\ PromptOf(r) = "unsent"
      BY DEF Init, NoCall, PromiseOf, PromptOf
    <2>2. stop.pc = "running"
      BY DEF Init
    <2>. QED BY <2>1, <2>2 DEF Contract!Init
  <1>2. RuntimeAgrees /\ [Next]_vars => [Contract!Next]_(Contract!vars)
    BY StepIsSeen, SeenIsContract
  <1>. QED BY <1>1, <1>2, RuntimeAlwaysAgrees, PTL DEF Spec, IsWorkerRuntime, Contract!Spec

\* A result is what the model gave to the prompt of that call: the orchestrator never records
\* a turn as completed that Codex has not completed, and an answer is never changed.
THEOREM ResultsAreReal == Spec => []Contract!KeptIsReal /\ Contract!AnswerStays
  <1>1. Contract!Init => Contract!KeptIsReal
    BY DEF Contract!Init, Contract!KeptIsReal
  <1>2. Contract!KeptIsReal /\ [Contract!Next]_(Contract!vars) => Contract!KeptIsReal'
    BY DEF Contract!KeptIsReal, Contract!Next, Contract!vars, Contract!RunTurn, Contract!Send,
           Contract!Complete, Contract!Resolve, Contract!Reject, Contract!Shutdown, Contract!Turns
  <1>. DEFINE promise == [r \in Runs |-> PromiseOf(r)]
  <1>3. [Contract!Next]_(Contract!vars) =>
           [\A r \in Runs : promise[r] \in {"kept", "broken"} => promise'[r] = promise[r]
           ]_(Contract!vars)
    BY DEF Contract!Next, Contract!vars, Contract!RunTurn, Contract!Send, Contract!Complete,
           Contract!Resolve, Contract!Reject, Contract!Shutdown, Contract!Turns
  <1>. QED BY <1>1, <1>2, <1>3, RuntimeKeepsItsPromises, PTL
           DEF IsWorkerRuntime, Contract!Spec, Contract!AnswerStays

-----------------------------------------------------------------------------
(* One call of a task runs at a time *)

\* A client that is done has a worker that has ended; a worker with a turn is the one in the map.
DoneIsEnded == \A w \in Runs : server[w].closing = "done" => Ended(w)
OnlyCurrentRuns == raced \/ caught \/ \A w \in Runs : worker[w].active # None => w = current
Exclusive == DoneIsEnded /\ OnlyCurrentRuns

\* No worker is given a turn, and none is done that has not ended.
Calms ==
    \A w \in Runs :
        /\ worker'[w].active \in {None, worker[w].active}
        /\ worker[w].closed => worker'[w].closed
        /\ server'[w].closing = "done" => server[w].closing = "done" \/ Ended(w)'

LEMMA ClosingType ==
  ASSUME NEW s \in ServerRecord
  PROVE  /\ Killed(s).closing = s.closing /\ Failed(s).closing = s.closing
         /\ Closing(s).closing = "done" => s.closing = "done"
  <1>1. Killed(s) \in ServerRecord /\ Killed(s).closing = s.closing
    BY DEF Killed, ServerRecord
  <1>2. Failed(s) \in ServerRecord /\ Failed(s).closing = s.closing
    BY <1>1 DEF Failed, ServerRecord
  <1>3. CASE s.closing = "none"
    <2>. DEFINE t == IF s.process = "none" THEN Failed(s) ELSE Killed(s)
    <2>1. t \in ServerRecord
      BY <1>1, <1>2
    <2>2. Closing(s) = [t EXCEPT !.closing = "begun"]
      BY <1>3 DEF Closing
    <2>. HIDE DEF t
    <2>. QED BY <1>1, <1>2, <2>1, <2>2 DEF ServerRecord
  <1>. QED BY <1>1, <1>2, <1>3 DEF Closing

LEMMA CalmKeeps ==
  ASSUME Exclusive, Calms, current' = current, raced => raced', caught => caught'
  PROVE  Exclusive'
  BY DEF Exclusive, DoneIsEnded, OnlyCurrentRuns, Calms, Ended

\* A worker that ends or is stopped.
LEMMA WorkerEndsCalms ==
  ASSUME RuntimeAgrees, NEW w \in Runs, worker' = [worker EXCEPT ![w] = Dead],
         \/ server' = server
         \/ server' = [server EXCEPT ![w] = Closing(@)]
         \/ \E lost \in BOOLEAN, closing \in {"done", server[w].closing} :
               server' = [server EXCEPT ![w].lost = lost, ![w].closing = closing]
  PROVE  Calms
  <1>1. worker'[w] = Dead /\ \A v \in Runs : v # w => worker'[v] = worker[v] /\ server'[v] = server[v]
    BY Types DEF RuntimeAgrees
  <1>2. Ended(w)'
    BY <1>1, RecordsTyped DEF Ended
  <1>. QED BY <1>1, <1>2 DEF Calms, Ended

LEMMA StartCalms ==
  ASSUME RuntimeAgrees, NEW r \in Runs, StartStep(r) PROVE Calms
  <1>0. server \in [Runs -> ServerRecord] /\ worker \in [Runs -> WorkerRecord]
    BY Types DEF RuntimeAgrees
  <1>1. Of(r) \in Runs
    BY OfMade DEF StartStep, Spawn, Ready, Send, Answered, Recorded, Throws, Catch, CanAnswer, At
  <1>2. CASE Catch(r)
    BY <1>1, <1>2, WorkerEndsCalms DEF Catch, StopWorker, WorkerEnds
  <1>3. CASE Spawn(r)
    <2>1. worker' = worker /\ \A w \in Runs : server'[w].closing = server[w].closing
      <3>1. \/ server' = server
            \/ server' = [server EXCEPT ![Of(r)].process = "live"]
        BY <1>3 DEF Spawn
      <3>2. worker' = worker
        BY <1>3 DEF Spawn
      <3>. QED BY <1>0, <1>1, <3>1, <3>2 DEF ServerRecord
    <2>. QED BY <2>1 DEF Calms
  <1>4. CASE Send(r) \/ Answered(r)
    <2>1. PICK b : \/ worker' = worker
                   \/ worker' = [worker EXCEPT ![Of(r)].dispatched = b]
                   \/ worker' = [worker EXCEPT ![Of(r)].id = r]
      BY <1>4 DEF Send, Answered
    <2>2. \A w \in Runs : /\ worker'[w].active = worker[w].active
                          /\ worker'[w].closed = worker[w].closed
      BY <1>0, <1>1, <2>1 DEF WorkerRecord
    <2>3. server' = server
      BY <1>4 DEF Send, Answered
    <2>. QED BY <2>2, <2>3 DEF Calms
  <1>5. CASE Ready(r) \/ Recorded(r) \/ Throws(r)
    BY <1>5 DEF Ready, Recorded, Throws, Calms
  <1>. QED BY <1>2, <1>3, <1>4, <1>5 DEF StartStep

LEMMA InterruptingCalms ==
  ASSUME RuntimeAgrees, NEW w \in Runs, Interrupting(w) PROVE Calms
  <1>1. CASE UNCHANGED <<worker, server>>
    BY <1>1 DEF Calms
  <1>2. CASE StopWorker(w)
    BY <1>2, WorkerEndsCalms DEF StopWorker, WorkerEnds
  <1>3. CASE worker' = [worker EXCEPT ![w].interrupted = TRUE] /\ server' = server
    <2>1. \A v \in Runs : worker'[v].active = worker[v].active /\ worker'[v].closed = worker[v].closed
      BY <1>3, Types DEF RuntimeAgrees, WorkerRecord
    <2>. QED BY <1>3, <2>1 DEF Calms
  <1>. QED BY <1>1, <1>2, <1>3 DEF Interrupting

LEMMA ReceiveCalms ==
  ASSUME RuntimeAgrees, NEW w \in Runs, ReceiveStep(w) \/ CloseStep(w) \/ InterruptStops(w) \/ Exit(w)
  PROVE  Calms
  <1>0. server \in [Runs -> ServerRecord] /\ worker \in [Runs -> WorkerRecord]
    BY Types DEF RuntimeAgrees
  <1>1. CASE Receive(w)
    <2>1. \A v \in Runs : worker'[v].active = worker[v].active /\ worker'[v].closed = worker[v].closed
      BY <1>0, <1>1 DEF Receive, WorkerRecord
    <2>2. \A v \in Runs : server'[v].closing = server[v].closing
      <3>1. server' = server \/ server' = [server EXCEPT ![w] = Killed(server[w])]
        BY <1>1 DEF Receive
      <3>. QED BY <1>0, <3>1, ClosingType
    <2>. QED BY <2>1, <2>2 DEF Calms
  <1>2. CASE Received(w)
    <2>1. CASE Resolve(w)
      <3>1. worker' = [worker EXCEPT ![w] = Idle(w)] /\ server' = server
        BY <2>1 DEF Resolve
      <3>2. Idle(w).active = None /\ Idle(w).closed = worker[w].closed
        BY DEF Idle, Fresh
      <3>. QED BY <1>0, <3>1, <3>2 DEF Calms
    <2>2. CASE UNCHANGED <<worker, server>>
      BY <2>2 DEF Calms
    <2>. QED BY <1>2, <2>1, <2>2, InterruptingCalms DEF Received
  <1>3. CASE ReceiveFails(w) \/ Exit(w) \/ CloseFails(w)
    <2>1. worker' = worker /\ server' = [server EXCEPT ![w] = Failed(server[w])]
      BY <1>3 DEF ReceiveFails, Exit, CloseFails
    <2>2. \A v \in Runs : server'[v].closing = server[v].closing
      BY <1>0, <2>1, ClosingType
    <2>. QED BY <2>1, <2>2 DEF Calms
  <1>4. CASE InterruptStops(w)
    BY <1>4, WorkerEndsCalms DEF InterruptStops, StopWorker, WorkerEnds
  <1>5. CASE Exited(w) \/ CloseEnds(w)
    <2>1. /\ worker' = [worker EXCEPT ![w] = Dead]
          /\ \A v \in Runs : v # w => server'[v].closing = server[v].closing
      BY <1>0, <1>5 DEF Exited, CloseEnds, WorkerEnds
    <2>2. worker'[w] = Dead /\ \A v \in Runs : v # w => worker'[v] = worker[v]
      BY <1>0, <2>1
    <2>3. Ended(w)'
      BY <2>2, RecordsTyped DEF Ended
    <2>. QED BY <2>1, <2>2, <2>3 DEF Calms, Ended
  <1>. QED BY <1>1, <1>2, <1>3, <1>4, <1>5 DEF ReceiveStep, CloseStep

LEMMA StopCalms ==
  ASSUME RuntimeAgrees, Stop PROVE Calms
  <1>1. CASE current = None
    BY <1>1 DEF Stop, Calms
  <1>2. CASE current # None
    <2>1. /\ worker' = [worker EXCEPT ![current].closed = TRUE] /\ current \in Runs
          /\ server' = [server EXCEPT ![current] = Closing(server[current])]
      BY <1>2, Types DEF Stop, RuntimeAgrees, Maybe
    <2>2. server \in [Runs -> ServerRecord] /\ worker \in [Runs -> WorkerRecord]
      BY Types DEF RuntimeAgrees
    <2>3. \A w \in Runs : /\ worker'[w].active = worker[w].active
                          /\ worker[w].closed => worker'[w].closed
      BY <2>1, <2>2 DEF WorkerRecord
    <2>4. \A w \in Runs : server'[w].closing = "done" => server[w].closing = "done"
      BY <2>1, <2>2, ClosingType
    <2>. QED BY <2>3, <2>4 DEF Calms
  <1>. QED BY <1>1, <1>2

\* A call takes the worker in the map, which is idle, or makes one when that has ended.
LEMMA RunKeepsExclusive ==
  ASSUME RuntimeAgrees, Exclusive, NEW w \in Runs, NEW r \in Runs, Run(w, r), current' = w,
         \/ w = current /\ ~worker[w].closed
         \/ ~Made(w) /\ (raced \/ caught \/ current = None \/ Ended(current)),
         UNCHANGED <<server, raced, caught>>
  PROVE  Exclusive'
  <1>0. worker \in [Runs -> WorkerRecord] /\ server \in [Runs -> ServerRecord]
    BY Types DEF RuntimeAgrees
  <1>1. \A v \in Runs : v # w => worker'[v] = worker[v]
    BY <1>0 DEF Run
  <1>2. server[w].closing # "done"
    <2>1. CASE ~worker[w].closed
      BY <2>1 DEF Exclusive, DoneIsEnded, Ended
    <2>2. CASE ~Made(w)
      BY <2>2, OfWorker, RecordsTyped DEF FreshAgrees
    <2>. QED BY <2>1, <2>2
  <1>3. DoneIsEnded'
    BY <1>1, <1>2 DEF Exclusive, DoneIsEnded, Ended
  <1>4. \/ raced \/ caught
        \/ \A v \in Runs : v # w => worker[v].active = None
    BY ConstantAssumption DEF Exclusive, OnlyCurrentRuns, Ended
  <1>5. OnlyCurrentRuns'
    BY <1>1, <1>4 DEF OnlyCurrentRuns
  <1>. QED BY <1>3, <1>5 DEF Exclusive

LEMMA CallKeepsExclusive ==
  ASSUME RuntimeAgrees, Exclusive, NEW r \in Runs, Call(r) PROVE Exclusive'
  <1>0. UNCHANGED caught /\ (raced => raced')
    BY DEF Call
  <1>1. CASE stop.pc # "running"
    BY <1>0, <1>1, CalmKeeps DEF Call, Calms
  <1>2. CASE stop.pc = "running" /\ current = None
    <2>1. ~Made(r)
      BY OfRun, ConstantAssumption DEF Call, CallAgrees, Made
    <2>2. current' = r /\ Run(r, r) /\ UNCHANGED <<server, raced>>
      BY <1>2 DEF Call
    <2>. QED BY <1>0, <1>2, <2>1, <2>2, RunKeepsExclusive
  <1>3. CASE stop.pc = "running" /\ current # None /\ ~worker[current].closed
    <2>1. PICK w \in Runs : w = current
      BY <1>3, Types DEF RuntimeAgrees, Maybe
    <2>2. Run(w, r) /\ UNCHANGED <<current, server, raced>>
      BY <1>3, <2>1 DEF Call
    <2>. QED BY <1>0, <1>3, <2>1, <2>2, RunKeepsExclusive
  <1>4. CASE stop.pc = "running" /\ current # None /\ worker[current].closed
    <2>1. /\ current \in Runs /\ server' = [server EXCEPT ![current] = Closing(server[current])]
          /\ UNCHANGED <<current, worker>>
      BY <1>4, Types DEF Call, RuntimeAgrees, Maybe
    <2>2. \A w \in Runs : server'[w].closing = "done" => server[w].closing = "done"
      BY <2>1, ClosingType, Types DEF RuntimeAgrees
    <2>3. Calms
      BY <2>1, <2>2 DEF Calms
    <2>. QED BY <1>0, <2>1, <2>3, CalmKeeps
  <1>. QED BY <1>1, <1>2, <1>3, <1>4

LEMMA ReplaceKeepsExclusive ==
  ASSUME RuntimeAgrees, Exclusive, NEW r \in Runs, Replace(r) PROVE Exclusive'
  <1>1. ~Made(r) /\ call[r].worker \in Runs
    BY OfRun, OfMade DEF Replace, CallAgrees, Made
  <1>2. Ended(call[r].worker)
    BY <1>1 DEF Replace, Exclusive, DoneIsEnded
  <1>3. raced \/ caught \/ call[r].worker = current
    BY DEF Replace, RuntimeAgrees, CurrentAgrees
  <1>4. Run(r, r) /\ current' = r /\ UNCHANGED <<server, raced, caught>>
    BY DEF Replace, history
  <1>. QED BY <1>1, <1>2, <1>3, <1>4, RunKeepsExclusive

LEMMA StopEndsKeepsExclusive ==
  ASSUME RuntimeAgrees, Exclusive, StopEnds PROVE Exclusive'
  <1>1. UNCHANGED <<worker, server, raced, caught>> /\ current' = None
    BY DEF StopEnds, history
  <1>2. raced \/ caught \/ stop.worker = current
    BY DEF StopEnds, RuntimeAgrees, CurrentAgrees
  <1>3. stop.worker # None => stop.worker \in Runs /\ Ended(stop.worker)
    BY Types DEF StopEnds, RuntimeAgrees, StopRecord, Maybe, Exclusive, DoneIsEnded
  <1>4. raced \/ caught \/ \A w \in Runs : worker[w].active = None
    BY <1>2, <1>3, ConstantAssumption DEF Exclusive, OnlyCurrentRuns, Ended
  <1>. QED BY <1>1, <1>4 DEF Exclusive, DoneIsEnded, OnlyCurrentRuns, Ended

LEMMA StepKeepsExclusive ==
  ASSUME RuntimeAgrees, Exclusive, [Next]_vars PROVE Exclusive'
  <1>1. ASSUME NEW r \in Runs, StartStep(r) PROVE Exclusive'
    <2>1. UNCHANGED <<current, raced, caught>>
      BY <1>1 DEF StartStep, Spawn, Ready, Send, Answered, Recorded, Throws, Catch, history
    <2>. QED BY <1>1, <2>1, StartCalms, CalmKeeps
  <1>2. ASSUME NEW r \in Runs, Deadline(r) PROVE Exclusive'
    <2>1. UNCHANGED <<current, raced, caught>>
      BY <1>2 DEF Deadline, history
    <2>. QED BY <1>2, <2>1, WorkerEndsCalms, CalmKeeps DEF Deadline, StopWorker, WorkerEnds
  <1>3. ASSUME NEW w \in Runs, ReceiveStep(w) \/ CloseStep(w) \/ InterruptStops(w) \/ Exit(w)
        PROVE  Exclusive'
    <2>1. UNCHANGED <<current, raced, caught>>
      BY <1>3 DEF ReceiveStep, Receive, Received, ReceiveFails, Exited, CloseStep, CloseFails,
                  CloseEnds, InterruptStops, Exit, history
    <2>. QED BY <1>3, <2>1, ReceiveCalms, CalmKeeps
  <1>4. CASE Cancel
    <2>1. current \in Runs /\ UNCHANGED <<current, raced, caught>> /\ Interrupting(current)
      BY <1>4, Types DEF Cancel, RuntimeAgrees, Maybe
    <2>. QED BY <2>1, InterruptingCalms, CalmKeeps
  <1>5. CASE Stop
    <2>1. UNCHANGED <<current, raced>> /\ ~caught
      BY <1>5 DEF Stop, RuntimeAgrees, MapAgrees
    <2>. QED BY <1>5, <2>1, StopCalms, CalmKeeps
  <1>6. ASSUME NEW r \in Runs, TurnStarted(r) \/ TurnCompleted(r) \/ Question(r) PROVE Exclusive'
    <2>1. UNCHANGED <<current, raced, caught, worker, server>>
      BY <1>6 DEF TurnStarted, TurnCompleted, Question, Writes
    <2>. QED BY <2>1, CalmKeeps DEF Calms
  <1>7. CASE UNCHANGED vars
    BY <1>7, CalmKeeps DEF Calms, vars, history
  <1>. QED BY <1>1, <1>2, <1>3, <1>4, <1>5, <1>6, <1>7, CallKeepsExclusive,
              ReplaceKeepsExclusive, StopEndsKeepsExclusive DEF Next, HostStep

\* One call of runTurn runs at a time, in the worker of the manager's map, although a call may
\* come while the worker before is still being stopped; unless two calls waited for one dead
\* worker, or one did when the stop came.  So TaskOrchestrator has one worker for the task.
OneCallRuns ==
    raced \/ caught \/ \A r, s \in Runs : call[r].pc = "running" /\ call[s].pc = "running" => r = s
THEOREM CallsRunOneByOne == Spec => []OneCallRuns
  <1>1. Init => Exclusive
    BY RecordsTyped DEF Init, Exclusive, DoneIsEnded, OnlyCurrentRuns
  <1>2. RuntimeAgrees /\ Exclusive => OneCallRuns
    <2>. SUFFICES ASSUME RuntimeAgrees, Exclusive, ~raced, ~caught,
                         NEW r \in Runs, NEW s \in Runs,
                         call[r].pc = "running", call[s].pc = "running"
                  PROVE  r = s
      BY DEF OneCallRuns
    <2>1. /\ worker[Of(r)].active = r /\ Of(r) \in Runs
          /\ worker[Of(s)].active = s /\ Of(s) \in Runs
      BY OfRun, OfMade DEF CallAgrees
    <2>. QED BY <2>1, ConstantAssumption DEF Exclusive, OnlyCurrentRuns
  <1>. QED BY <1>1, <1>2, StepKeepsExclusive, RuntimeAlwaysAgrees, PTL DEF Spec
=============================================================================
