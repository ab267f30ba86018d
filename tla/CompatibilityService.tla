------------------------ MODULE CompatibilityService ------------------------
(***************************************************************************)
(* The bridge between the conversations and the orchestrator: initialize   *)
(* and start of src/src/compat/compatibility-service.ts, the file they     *)
(* keep (src/src/compat/bridge-state.ts), and the registration of the      *)
(* project (src/src/project-registry.ts).                                  *)
(*                                                                         *)
(* The service works on a copy of its file in memory and writes the whole  *)
(* file after each change; a write that fails throws and leaves the change *)
(* in memory.  withOperationLock admits one call of a conversation at a    *)
(* time, calls of two conversations interleave at every await.             *)
(*                                                                         *)
(* The conversations here share one workspace.  A mode is what a call can  *)
(* choose for a turn (permission, network, model, effort, timeout),        *)
(* reduced to the one that has a ceiling: numbers in the order of          *)
(* permissionRank.  startTask and followup are what TaskOrchestrator shows *)
(* them to be for their callers: one step, idempotent in their ledger.     *)
(***************************************************************************)
EXTENDS Naturals, FiniteSets

CONSTANTS
    Conversations,  \* webSessionIds
    Requests,       \* request_ids
    MayAsk,         \* the <<conversation, request_id>> pairs that occur
    Prompts, Modes, None,
    MaxSaveFaults,  \* bound: failed writes of the bridge's file
    MaxCallFaults,  \* bound: calls of the orchestrator that fail
    MaxCrashes      \* bound: ends of the host process

ASSUME MayAskAssumption == MayAsk \subseteq Conversations \X Requests
ASSUME ModesAssumption == Modes \subseteq Nat
ASSUME BoundsAssumption == {MaxSaveFaults, MaxCallFaults, MaxCrashes} \subseteq Nat

Content == [prompt : Prompts, mode : Modes]
\* A task is named after the request that started it, a run after its ledger entry: <<None, q>>
\* for start:q, <<task, q>> for followup:q of the task.
Runs == (Requests \cup {None}) \X Requests
TaskOf(run) == IF run[1] = None THEN run[2] ELSE run[1]

Binding == [mode : Modes, task : Requests \cup {None}, lastJob : Nat \cup {None}]
ReservationRecord == [content : Content, job : Nat, base : Requests \cup {None},
                      state : {"reserved", "attached"}]
JobRecord == [id : Nat, content : Content, run : Runs]
StateRecord == [session : [Conversations -> Binding \cup {None}],
                reservation : [MayAsk -> ReservationRecord \cup {None}],
                job : [MayAsk -> JobRecord \cup {None}]]

ASSUME NoneAssumption ==
    /\ None \notin Requests \cup Runs \cup Modes
    /\ None \notin Binding
    /\ None \notin ReservationRecord
    /\ None \notin JobRecord
    /\ None \notin [by : Conversations, content : Content]

VARIABLES
    mem,        \* CompatibilityStateStore.state
    disk,       \* compatibility/state.json
    call,       \* the call of each conversation that holds its operation lock
    project,    \* None or the ceiling of the workspace's project
    turn,       \* the tasks' request ledgers: <<task, request>> -> None or the turn
    busy,       \* the tasks with an active turn
    nextJob,    \* randomUUID() of a job
    saveFaults, callFaults, crashes,
    answers,    \* history: what callers of start were given
    lost        \* history: conversations that lost a reservation that was never written

bounds == <<saveFaults, callFaults, crashes>>
backend == <<project, turn, busy>>
vars == <<mem, disk, call, backend, nextJob, bounds, answers, lost>>

EmptyState == [session |-> [c \in Conversations |-> None],
               reservation |-> [a \in MayAsk |-> None],
               job |-> [a \in MayAsk |-> None]]

Idle == [pc |-> "idle", request |-> None, mode |-> None, run |-> None]

Init ==
    /\ mem = EmptyState /\ disk = EmptyState
    /\ call = [c \in Conversations |-> Idle]
    /\ project \in {None} \cup Modes   \* the operator may have registered it
    /\ turn = [r \in Runs |-> None]
    /\ busy = {}
    /\ nextJob = 1
    /\ saveFaults = 0 /\ callFaults = 0 /\ crashes = 0
    /\ answers = {} /\ lost = {}

-----------------------------------------------------------------------------
(* The file *)

\* save() succeeds; save() throws and the change stays in memory.
Save(state) == mem' = state /\ disk' = state /\ UNCHANGED bounds
SaveThrows(state) ==
    /\ saveFaults < MaxSaveFaults
    /\ saveFaults' = saveFaults + 1
    /\ mem' = state
    /\ UNCHANGED <<disk, callFaults, crashes>>

Goto(c, pc) == call' = [call EXCEPT ![c].pc = pc]
Leave(c) == call' = [call EXCEPT ![c] = Idle]

Of(c) == {a \in MayAsk : a[1] = c}
Pending(state, c) ==
    {a \in Of(c) : state.reservation[a] # None /\ state.reservation[a].state = "reserved"}

-----------------------------------------------------------------------------
(* initialize *)

\* A conversation with a binding, and a new request: the same settings are recorded once
\* more, others are refused (a start may have changed the binding).  The initializations
\* themselves, which only repeat an answer, are left out; the file is written.
PutAgain(c, m) ==
    /\ call[c].pc = "idle"
    /\ mem.session[c] # None
    /\ mem.session[c].mode = m
    /\ Save(mem) \/ SaveThrows(mem)
    /\ UNCHANGED <<call, backend, nextJob, answers, lost>>

\* ensureProject looks for the project of the workspace: one that exists is never
\* expanded, else the call goes on to register it.
EnsureProject(c, m) ==
    /\ call[c].pc = "idle"
    /\ mem.session[c] = None
    /\ project # None => m <= project
    /\ call' = [call EXCEPT ![c] = [Idle EXCEPT !.mode = m,
                                    !.pc = IF project = None THEN "register" ELSE "put"]]
    /\ UNCHANGED <<mem, disk, backend, nextJob, bounds, answers, lost>>

\* ProjectRegistry.register and upsertProject: replaces the project of that id.
Register(c) ==
    /\ call[c].pc = "register"
    /\ project' = call[c].mode
    /\ Goto(c, "put")
    /\ UNCHANGED <<mem, disk, turn, busy, nextJob, bounds, answers, lost>>

\* putInitialization with a new binding
PutInitialization(c) ==
    /\ call[c].pc = "put"
    /\ LET state == [mem EXCEPT
                        !.session[c] = [mode |-> call[c].mode, task |-> None, lastJob |-> None]]
       IN Save(state) \/ SaveThrows(state)
    /\ Leave(c)
    /\ UNCHANGED <<backend, nextJob, answers, lost>>

-----------------------------------------------------------------------------
(* start *)

Told(a, content, job) ==
    answers' = answers \cup {[ask |-> a, content |-> content, job |-> job.id, run |-> job.run]}

\* requireBinding and assertWorkspace; a mode that is left out is the binding's.
Authorized(c, m, content) ==
    /\ call[c].pc = "idle"
    /\ mem.session[c] # None
    /\ content.mode = IF m = None THEN mem.session[c].mode ELSE m
    /\ project # None
    /\ content.mode <= project

MutTrustsTheId(c, q, m, content) ==
    /\ Authorized(c, m, content)
    /\ mem.job[<<c, q>>] # None
    /\ Told(<<c, q>>, content, mem.job[<<c, q>>])
    /\ UNCHANGED <<mem, disk, call, backend, nextJob, bounds, lost>>

\* The request has a job and its fingerprint is that of this call: the job is returned.
StartedBefore(c, q, m, content) ==
    /\ Authorized(c, m, content)
    /\ mem.job[<<c, q>>] # None
    /\ mem.job[<<c, q>>].content = content
    /\ Told(<<c, q>>, content, mem.job[<<c, q>>])
    /\ UNCHANGED <<mem, disk, call, backend, nextJob, bounds, lost>>

\* The request was reserved by an earlier call with the same fingerprint.
Retry(c, q, m, content) ==
    /\ Authorized(c, m, content)
    /\ mem.job[<<c, q>>] = None
    /\ mem.reservation[<<c, q>>] # None
    /\ mem.reservation[<<c, q>>].content = content
    /\ call' = [call EXCEPT ![c] = [Idle EXCEPT !.pc = "call", !.request = q]]
    /\ UNCHANGED <<mem, disk, backend, nextJob, bounds, answers, lost>>

MutNoPending(c, q) ==
    /\ mem.reservation[<<c, q>>] = None
    /\ mem.session[c].task \notin busy
\* No reservation of this request nor an unfinished one of the conversation; a follow-up
\* waits until its task is not active.
MayReserve(c, q) ==
    /\ mem.reservation[<<c, q>>] = None
    /\ Pending(mem, c) = {}
    /\ mem.session[c].task \notin busy

MutAlwaysReserves(c, q, m, content) ==
    /\ Authorized(c, m, content)
    /\ Pending(mem, c) = {}
    /\ nextJob' = nextJob + 1
    /\ Save([mem EXCEPT !.job[<<c, q>>] = None, !.reservation[<<c, q>>] =
                 [content |-> content, job |-> nextJob, base |-> mem.session[c].task,
                  state |-> "reserved"]])
    /\ call' = [call EXCEPT ![c] = [Idle EXCEPT !.pc = "call", !.request = q]]
    /\ UNCHANGED <<backend, answers, lost>>

\* reserveStart: the route is a follow-up when the conversation has a task.
ReserveStart(c, q, m, content) ==
    /\ Authorized(c, m, content)
    /\ mem.job[<<c, q>>] = None
    /\ MayReserve(c, q)
    /\ nextJob' = nextJob + 1
    /\ LET state == [mem EXCEPT !.reservation[<<c, q>>] =
                        [content |-> content, job |-> nextJob, base |-> mem.session[c].task,
                         state |-> "reserved"]]
       IN \/ Save(state) /\ call' = [call EXCEPT ![c] = [Idle EXCEPT !.pc = "call", !.request = q]]
          \/ SaveThrows(state) /\ UNCHANGED call
    /\ UNCHANGED <<backend, answers, lost>>

Reservation(c) == mem.reservation[<<c, call[c].request>>]

\* The ledger entry of the request: start:<request> among all tasks for startTask,
\* followup:<request> in the reservation's task for followup.
RunOf(c) == <<Reservation(c).base, call[c].request>>

\* startTask or followup returns what its ledger has for the request, or records a turn.
Call(c) ==
    /\ call[c].pc = "call"
    /\ LET run == RunOf(c)
           content == Reservation(c).content
       IN /\ IF turn[run] # None THEN UNCHANGED <<turn, busy>>
             ELSE /\ TaskOf(run) \notin busy
                  /\ content.mode <= project
                  /\ turn' = [turn EXCEPT ![run] = [by |-> c, content |-> content]]
                  /\ busy' = busy \cup {TaskOf(run)}
          /\ call' = [call EXCEPT ![c].pc = "attach", ![c].run = run]
    /\ UNCHANGED <<mem, disk, project, nextJob, bounds, answers, lost>>

\* The orchestrator refuses: the task is active again or the ceiling was replaced.
CallRefused(c) ==
    /\ call[c].pc = "call"
    /\ turn[RunOf(c)] = None
    /\ TaskOf(RunOf(c)) \in busy \/ Reservation(c).content.mode > project
    /\ Leave(c)
    /\ UNCHANGED <<mem, disk, backend, nextJob, bounds, answers, lost>>

\* The orchestrator throws, before or after it has recorded the turn.
CallFails(c) ==
    /\ call[c].pc \in {"call", "attach"}
    /\ callFaults < MaxCallFaults
    /\ callFaults' = callFaults + 1
    /\ Leave(c)
    /\ UNCHANGED <<mem, disk, backend, nextJob, saveFaults, crashes, answers, lost>>

MutRebound(c) == [mem EXCEPT !.session[c].mode = call[c].mode]
\* updateBinding, and attachStart after it.
Rebound(c) == [mem EXCEPT !.session[c].mode = Reservation(c).content.mode]
MutNotReleased(c) ==
    LET a == <<c, call[c].request>>
        r == Reservation(c)
    IN [Rebound(c) EXCEPT
            !.job[a] = [id |-> r.job, content |-> r.content, run |-> call[c].run],
            !.session[c].task = TaskOf(call[c].run),
            !.session[c].lastJob = r.job]

MutFreshJob(c) ==
    LET a == <<c, call[c].request>>
    IN [Rebound(c) EXCEPT
            !.reservation[a].state = "attached",
            !.job[a] = [id |-> nextJob, content |-> Reservation(c).content, run |-> call[c].run],
            !.session[c].task = TaskOf(call[c].run),
            !.session[c].lastJob = nextJob]

Attached(c) ==
    LET a == <<c, call[c].request>>
        r == Reservation(c)
        run == call[c].run
    IN [session |-> [Rebound(c).session EXCEPT ![c].task = TaskOf(run), ![c].lastJob = r.job],
        reservation |-> [mem.reservation EXCEPT ![a].state = "attached"],
        job |-> [mem.job EXCEPT ![a] = [id |-> r.job, content |-> r.content, run |-> run]]]

\* No await lies between the two writes; each can fail.
AttachStart(c) ==
    /\ call[c].pc = "attach"
    /\ \/ /\ Save(Attached(c))
          /\ Told(<<c, call[c].request>>, Reservation(c).content, Attached(c).job[<<c, call[c].request>>])
       \/ SaveThrows(Rebound(c)) /\ UNCHANGED answers
       \/ /\ saveFaults < MaxSaveFaults
          /\ saveFaults' = saveFaults + 1
          /\ mem' = Attached(c) /\ disk' = Rebound(c)
          /\ UNCHANGED <<callFaults, crashes, answers>>
    /\ Leave(c)
    /\ UNCHANGED <<backend, nextJob, lost>>

-----------------------------------------------------------------------------
(* The tasks and the process *)

TurnEnds(t) ==
    /\ t \in busy
    /\ busy' = busy \ {t}
    /\ UNCHANGED <<mem, disk, call, project, turn, nextJob, bounds, answers, lost>>

\* The process ends and starts again with the file it finds; boot parks active tasks.
RestartWith(file) ==
    /\ crashes < MaxCrashes
    /\ crashes' = crashes + 1
    /\ mem' = file /\ disk' = file
    /\ call' = [c \in Conversations |-> Idle]
    /\ busy' = {}
    /\ lost' = lost \cup {a[1] : a \in {b \in MayAsk : /\ mem.reservation[b] # None
                                                       /\ file.reservation[b] = None}}
    /\ UNCHANGED <<project, turn, nextJob, saveFaults, callFaults, answers>>

Crash == RestartWith(disk)

\* It ends between the two writes of start.
CrashBetweenWrites(c) == call[c].pc = "attach" /\ RestartWith(Rebound(c))

Steps(c) ==
    \/ Register(c) \/ PutInitialization(c)
    \/ Call(c) \/ CallRefused(c) \/ CallFails(c) \/ AttachStart(c)

Next ==
    \/ \E c \in Conversations, m \in Modes : PutAgain(c, m) \/ EnsureProject(c, m)
    \/ \E a \in MayAsk, m \in Modes \cup {None}, content \in Content :
          \/ StartedBefore(a[1], a[2], m, content)
          \/ Retry(a[1], a[2], m, content)
          \/ ReserveStart(a[1], a[2], m, content)
    \/ \E c \in Conversations : Steps(c) \/ CrashBetweenWrites(c)
    \/ \E t \in Requests : TurnEnds(t)
    \/ Crash

Spec == Init /\ [][Next]_vars

-----------------------------------------------------------------------------
(* Properties *)

\* The state of the service, its file, and the calls in progress are well formed
\* (CompatibilityState, bridge-state.ts:68).
TypeOK ==
    /\ mem \in StateRecord /\ disk \in StateRecord
    /\ call \in [Conversations -> [pc : {"idle", "register", "put", "call", "attach"},
                                   request : Requests \cup {None}, mode : Modes \cup {None},
                                   run : Runs \cup {None}]]
    /\ project \in Modes \cup {None}
    /\ turn \in [Runs -> [by : Conversations, content : Content] \cup {None}]
    /\ busy \subseteq Requests
    /\ nextJob \in Nat
    /\ bounds \in Nat \X Nat \X Nat
    /\ \A t \in answers : /\ t.ask \in MayAsk /\ t.content \in Content
                          /\ t.job \in Nat /\ t.run \in Runs
    /\ lost \subseteq Conversations

\* At every instant the file in memory and the one on disk are states the service can go on
\* from: a conversation has at most one unfinished request, a request has a job exactly
\* when its reservation is attached, and the job is the one reserved; the conversation's
\* task and last job are those of one of its jobs (reserveStart, attachStart).
Consistent(state) ==
    \A c \in Conversations :
        /\ \A a, b \in Pending(state, c) : a = b
        /\ \A a \in Of(c) :
              IF state.job[a] = None THEN \/ state.reservation[a] = None
                                          \/ state.reservation[a].state = "reserved"
              ELSE /\ state.reservation[a] # None
                   /\ state.reservation[a].state = "attached"
                   /\ state.reservation[a].job = state.job[a].id
        /\ state.session[c] # None /\ state.session[c].task # None =>
              \E a \in Of(c) : /\ state.job[a] # None
                               /\ state.job[a].id = state.session[c].lastJob
                               /\ TaskOf(state.job[a].run) = state.session[c].task
FilesConsistent == Consistent(mem) /\ Consistent(disk)

TurnsFor(a) == {r \in Runs : turn[r] # None /\ turn[r].by = a[1] /\ r[2] = a[2]}
TasksOf(c) == {TaskOf(r) : r \in UNION {TurnsFor(a) : a \in Of(c)}}

\* However often a start is retried, after failed calls, failed writes and restarts, its
\* request has one turn; the exception is a conversation whose reservation was never
\* written and whose process ended then (bridge-state.ts:158: the reservation stays in
\* memory when save throws, and the retry goes on with it).
OneTurnPerRequest == \A a \in MayAsk : a[1] \notin lost => Cardinality(TurnsFor(a)) <= 1

\* No other conversation can come to the ledger entry of a run: it would have to ask with the
\* run's id, and to have the run's task from an id that it asks with as well.
Alone(c, run) ==
    \A d \in Conversations : {<<d, TaskOf(run)>>, <<d, run[2]>>} \subseteq MayAsk => d = c

\* All turns of a conversation are in one task, the one its binding names once a job is
\* attached: a start that fails half way never leaves a task that no later start continues
\* (the same exception).  Only the first of these turns can be another conversation's, one
\* that uses the id which the task is named after (task-orchestrator.ts:160).
OneTaskPerConversation ==
    \A c \in Conversations \ lost :
        /\ Cardinality(TasksOf(c)) <= 1
        /\ mem.session[c] # None /\ mem.session[c].task # None =>
              /\ TasksOf(c) \subseteq {mem.session[c].task}
              /\ Alone(c, <<None, mem.session[c].task>>) => TasksOf(c) # {}

\* A caller of start is given a job only for the instruction and settings of its own call:
\* the run behind it was recorded with them, for this conversation (the fingerprint at
\* compatibility-service.ts:236; the same two exceptions, a reservation that was lost and a
\* run that another conversation can come to).
JobRunsTheInstruction ==
    \A t \in answers : t.ask[1] \notin lost /\ Alone(t.ask[1], t.run) =>
        turn[t.run] = [by |-> t.ask[1], content |-> t.content]

\* A job that a caller was given is never replaced by another: whatever fails later, the
\* file that a restart finds has the request reserved for that very job, and all answers
\* name the same run.
AnswersSurvive ==
    /\ \A t \in answers : /\ disk.reservation[t.ask] # None
                          /\ disk.reservation[t.ask].job = t.job
    /\ \A t, u \in answers : t.ask = u.ask => t.job = u.job /\ t.run = u.run

\* "KAI Work Host will not expand it from WebGPT" (compatibility-service.ts:437, 440): the
\* ceiling of a project that exists is not raised by initialize.
CeilingNotExpanded == [][project # None => project' <= project]_project
=============================================================================
