--------------------- MODULE CompatibilityServiceProofs ---------------------
(***************************************************************************)
(* Proofs about CompatibilityService, for every set of conversations,      *)
(* request ids, prompts and modes, and any number of failures.             *)
(***************************************************************************)
EXTENDS CompatibilityService, TLAPS

\* A job's run is the ledger entry its reservation leads to.
RunsAgree(state) ==
    \A a \in MayAsk : state.job[a] # None =>
        state.job[a].run = <<state.reservation[a].base, a[2]>>

Sound(state) == state \in StateRecord /\ Consistent(state) /\ RunsAgree(state)

SameReservation(r, s) == s # None /\ s.job = r.job /\ s.base = r.base

\* What is written of a reservation is what the memory has of it.
WrittenIsKnown ==
    \A a \in MayAsk : disk.reservation[a] # None =>
        SameReservation(disk.reservation[a], mem.reservation[a])

\* A job is attached only after its reservation was written.
JobsAreReserved == \A a \in MayAsk : mem.job[a] # None => disk.reservation[a] # None

\* What a call in progress relies on.
CallAgrees(c) ==
    LET a == <<c, call[c].request>>
    IN /\ call[c].pc \in {"register", "put"} => mem.session[c] = None /\ call[c].mode \in Modes
       /\ call[c].pc \in {"call", "attach"} =>
             /\ a \in MayAsk
             /\ mem.session[c] # None
             /\ mem.reservation[a] # None
             /\ mem.reservation[a].state = "reserved"
       /\ call[c].pc = "attach" => call[c].run = <<mem.reservation[a].base, a[2]>>

AnswerWritten(t) ==
    /\ disk.reservation[t.ask] # None
    /\ disk.reservation[t.ask].job = t.job
    /\ t.run = <<disk.reservation[t.ask].base, t.ask[2]>>

\* The inductive invariant.
Durable ==
    /\ TypeOK
    /\ Sound(mem) /\ Sound(disk)
    /\ WrittenIsKnown
    /\ JobsAreReserved
    /\ \A c \in Conversations : CallAgrees(c)
    /\ \A t \in answers : AnswerWritten(t)

-----------------------------------------------------------------------------
(* What the changes of the file do to it *)

\* A pair of MayAsk, taken apart.
LEMMA AskType ==
    ASSUME NEW a \in MayAsk
    PROVE  a[1] \in Conversations /\ a[2] \in Requests /\ a = <<a[1], a[2]>>
BY MayAskAssumption

\* putInitialization leaves a sound file.
LEMMA NewSessionSound ==
    ASSUME NEW s, Sound(s), NEW c \in Conversations, NEW m \in Modes
    PROVE  LET t == [s EXCEPT !.session[c] = [mode |-> m, task |-> None, lastJob |-> None]]
           IN /\ Sound(t)
              /\ t.reservation = s.reservation /\ t.job = s.job
              /\ t.session = [s.session EXCEPT ![c] = [mode |-> m, task |-> None, lastJob |-> None]]
<1> DEFINE b == [mode |-> m, task |-> None, lastJob |-> None]
           t == [s EXCEPT !.session[c] = b]
<1>1. s \in StateRecord
  BY DEF Sound
<1>2. t = [session |-> [s.session EXCEPT ![c] = b], reservation |-> s.reservation, job |-> s.job]
  BY <1>1 DEF StateRecord
<1>3. b \in Binding
  BY DEF Binding
<1>4. t \in StateRecord
  BY <1>1, <1>2, <1>3 DEF StateRecord
<1>5. Consistent(t)
  BY <1>1, <1>2 DEF Sound, Consistent, Pending, Of, StateRecord
<1>6. RunsAgree(t)
  BY <1>2 DEF Sound, RunsAgree
<1> QED
  BY <1>2, <1>4, <1>5, <1>6 DEF Sound

\* reserveStart leaves a sound file.
LEMMA ReservedSound ==
    ASSUME NEW s, Sound(s), NEW a \in MayAsk, s.reservation[a] = None, Pending(s, a[1]) = {},
           NEW r \in ReservationRecord, r.state = "reserved"
    PROVE  LET t == [s EXCEPT !.reservation[a] = r]
           IN /\ Sound(t)
              /\ t.session = s.session /\ t.job = s.job
              /\ t.reservation = [s.reservation EXCEPT ![a] = r]
<1> DEFINE t == [s EXCEPT !.reservation[a] = r]
<1>1. s \in StateRecord
  BY DEF Sound
<1>2. t = [session |-> s.session, reservation |-> [s.reservation EXCEPT ![a] = r], job |-> s.job]
  BY <1>1 DEF StateRecord
<1>4. t \in StateRecord
  BY <1>1, <1>2 DEF StateRecord
<1>7. s.job[a] = None
  BY AskType DEF Sound, Consistent, Of
<1>8. r # None
  BY NoneAssumption
<1>5. Consistent(t)
  <2> SUFFICES ASSUME NEW c \in Conversations
               PROVE  /\ \A x, y \in Pending(t, c) : x = y
                      /\ \A x \in Of(c) :
                            IF t.job[x] = None THEN \/ t.reservation[x] = None
                                                    \/ t.reservation[x].state = "reserved"
                            ELSE /\ t.reservation[x] # None
                                 /\ t.reservation[x].state = "attached"
                                 /\ t.reservation[x].job = t.job[x].id
                      /\ t.session[c] # None /\ t.session[c].task # None =>
                            \E x \in Of(c) : /\ t.job[x] # None
                                             /\ t.job[x].id = t.session[c].lastJob
                                             /\ TaskOf(t.job[x].run) = t.session[c].task
    BY DEF Consistent
  <2>1. \A x \in MayAsk : t.reservation[x] = IF x = a THEN r ELSE s.reservation[x]
    BY <1>1, <1>2 DEF StateRecord
  <2>2. \A x, y \in Pending(t, c) : x = y
    <3>1. Pending(t, c) \subseteq Pending(s, c) \cup {a}
      BY <2>1 DEF Pending, Of
    <3>2. CASE c = a[1]
      BY <3>1, <3>2
    <3>3. CASE c # a[1]
      <4>1. a \notin Pending(t, c)
        BY <3>3 DEF Pending, Of
      <4> QED
        BY <3>1, <4>1 DEF Sound, Consistent
    <3> QED
      BY <3>2, <3>3
  <2> QED
    BY <1>2, <1>7, <2>1, <2>2 DEF Sound, Consistent, Of
<1>6. RunsAgree(t)
  BY <1>1, <1>2, <1>7 DEF Sound, RunsAgree, StateRecord
<1> QED
  BY <1>2, <1>4, <1>5, <1>6 DEF Sound

\* updateBinding leaves a sound file.
LEMMA ReboundSound ==
    ASSUME NEW s, Sound(s), NEW c \in Conversations, s.session[c] # None, NEW m \in Modes
    PROVE  LET t == [s EXCEPT !.session[c].mode = m]
           IN /\ Sound(t)
              /\ t.reservation = s.reservation /\ t.job = s.job
              /\ t.session = [s.session EXCEPT ![c] = [s.session[c] EXCEPT !.mode = m]]
              /\ t.session[c] # None
<1> DEFINE b == [s.session[c] EXCEPT !.mode = m]
           t == [s EXCEPT !.session[c].mode = m]
<1>1. s \in StateRecord
  BY DEF Sound
<1>2. t = [session |-> [s.session EXCEPT ![c] = b], reservation |-> s.reservation, job |-> s.job]
  BY <1>1 DEF StateRecord
<1>3. s.session[c] \in Binding /\ b \in Binding /\ b.task = s.session[c].task
      /\ b.lastJob = s.session[c].lastJob
  BY <1>1 DEF Binding, StateRecord
<1>4. t \in StateRecord
  BY <1>1, <1>2, <1>3 DEF StateRecord
<1>5. \A d \in Conversations : t.session[d] # None =>
          /\ s.session[d] # None
          /\ t.session[d].task = s.session[d].task
          /\ t.session[d].lastJob = s.session[d].lastJob
  BY <1>1, <1>2, <1>3 DEF StateRecord
<1>6. Consistent(t)
  BY <1>2, <1>5 DEF Sound, Consistent, Pending, Of
<1>7. RunsAgree(t)
  BY <1>2 DEF Sound, RunsAgree
<1>8. t.session[c] # None
  BY <1>1, <1>2, <1>3, NoneAssumption DEF StateRecord
<1> QED
  BY <1>2, <1>4, <1>6, <1>7, <1>8 DEF Sound

\* What attachStart makes of a file.
AttachedTo(s, a, run) ==
    [session |-> [s.session EXCEPT ![a[1]].task = TaskOf(run),
                                   ![a[1]].lastJob = s.reservation[a].job],
     reservation |-> [s.reservation EXCEPT ![a].state = "attached"],
     job |-> [s.job EXCEPT ![a] = [id |-> s.reservation[a].job,
                                   content |-> s.reservation[a].content, run |-> run]]]

\* It leaves a sound file.
LEMMA AttachedSound ==
    ASSUME NEW s, Sound(s), NEW a \in MayAsk, s.session[a[1]] # None,
           s.reservation[a] # None, s.reservation[a].state = "reserved",
           NEW run \in Runs, run = <<s.reservation[a].base, a[2]>>
    PROVE  LET r == s.reservation[a]
               j == [id |-> r.job, content |-> r.content, run |-> run]
               t == AttachedTo(s, a, run)
           IN /\ Sound(t)
              /\ t.reservation = [s.reservation EXCEPT ![a] = [r EXCEPT !.state = "attached"]]
              /\ t.job = [s.job EXCEPT ![a] = j]
              /\ \A d \in Conversations : t.session[d] = None <=> s.session[d] = None
<1> DEFINE c == a[1]
           r == s.reservation[a]
           ra == [r EXCEPT !.state = "attached"]
           j == [id |-> r.job, content |-> r.content, run |-> run]
           b == [s.session[c] EXCEPT !.task = TaskOf(run), !.lastJob = r.job]
           t == AttachedTo(s, a, run)
<1>1. s \in StateRecord /\ c \in Conversations
  BY AskType DEF Sound
<1>2. r \in ReservationRecord /\ s.session[c] \in Binding
  BY <1>1 DEF StateRecord
<1>3. t = [session |-> [s.session EXCEPT ![c] = b], reservation |-> [s.reservation EXCEPT ![a] = ra],
           job |-> [s.job EXCEPT ![a] = j]]
  BY <1>1 DEF StateRecord, AttachedTo
<1> HIDE DEF t
<1>4. /\ ra \in ReservationRecord /\ ra # None
      /\ ra.state = "attached" /\ ra.job = r.job /\ ra.base = r.base
  BY <1>2, NoneAssumption DEF ReservationRecord
<1>5. j \in JobRecord /\ j # None /\ j.id = r.job /\ j.run = run
  BY <1>2, NoneAssumption DEF ReservationRecord, JobRecord
<1>6. TaskOf(run) \in Requests /\ TaskOf(run) # None
  BY NoneAssumption DEF TaskOf, Runs
<1>7. b \in Binding /\ b # None /\ b.task = TaskOf(run) /\ b.lastJob = r.job
  BY <1>2, <1>6, NoneAssumption DEF Binding, ReservationRecord
<1> HIDE DEF ra, j, b
<1>8. t \in StateRecord
  BY <1>1, <1>3, <1>4, <1>5, <1>7 DEF StateRecord
<1>9. /\ \A x \in MayAsk : t.reservation[x] = IF x = a THEN ra ELSE s.reservation[x]
      /\ \A x \in MayAsk : t.job[x] = IF x = a THEN j ELSE s.job[x]
      /\ \A d \in Conversations : t.session[d] = IF d = c THEN b ELSE s.session[d]
  BY <1>1, <1>3 DEF StateRecord
<1>10. s.job[a] = None
  BY <1>1, <1>4, AskType DEF Sound, Consistent, Of
<1>11. Consistent(t)
  <2> SUFFICES ASSUME NEW d \in Conversations
               PROVE  /\ \A x, y \in Pending(t, d) : x = y
                      /\ \A x \in Of(d) :
                            IF t.job[x] = None THEN \/ t.reservation[x] = None
                                                    \/ t.reservation[x].state = "reserved"
                            ELSE /\ t.reservation[x] # None
                                 /\ t.reservation[x].state = "attached"
                                 /\ t.reservation[x].job = t.job[x].id
                      /\ t.session[d] # None /\ t.session[d].task # None =>
                            \E x \in Of(d) : /\ t.job[x] # None
                                             /\ t.job[x].id = t.session[d].lastJob
                                             /\ TaskOf(t.job[x].run) = t.session[d].task
    BY DEF Consistent
  <2>1. \A x, y \in Pending(t, d) : x = y
    <3>1. Pending(t, d) \subseteq Pending(s, d)
      BY <1>4, <1>9 DEF Pending, Of
    <3> QED
      BY <3>1 DEF Sound, Consistent
  <2>2. \A x \in Of(d) :
            IF t.job[x] = None THEN t.reservation[x] = None \/ t.reservation[x].state = "reserved"
            ELSE /\ t.reservation[x] # None
                 /\ t.reservation[x].state = "attached"
                 /\ t.reservation[x].job = t.job[x].id
    BY <1>4, <1>5, <1>9 DEF Sound, Consistent, Of
  <2>3. ASSUME t.session[d] # None, t.session[d].task # None
        PROVE  \E x \in Of(d) : /\ t.job[x] # None
                                /\ t.job[x].id = t.session[d].lastJob
                                /\ TaskOf(t.job[x].run) = t.session[d].task
    <3>1. CASE d = c
      <4>1. a \in Of(d)
        BY <3>1 DEF Of
      <4> QED
        BY <3>1, <4>1, <1>5, <1>7, <1>9
    <3>2. CASE d # c
      <4>1. PICK x \in Of(d) : /\ s.job[x] # None
                               /\ s.job[x].id = s.session[d].lastJob
                               /\ TaskOf(s.job[x].run) = s.session[d].task
        BY <2>3, <3>2, <1>9 DEF Sound, Consistent
      <4>2. x \in MayAsk /\ x # a
        BY <3>2 DEF Of
      <4> QED
        BY <3>2, <4>1, <4>2, <1>9
    <3> QED
      BY <3>1, <3>2
  <2> QED
    BY <2>1, <2>2, <2>3
<1>12. RunsAgree(t)
  BY <1>4, <1>5, <1>9 DEF Sound, RunsAgree
<1>13. \A d \in Conversations : t.session[d] = None <=> s.session[d] = None
  BY <1>7, <1>9
<1>14. Sound(t)
  BY <1>8, <1>11, <1>12 DEF Sound
<1> QED
  BY <1>3, <1>13, <1>14 DEF t, ra, j

-----------------------------------------------------------------------------
(* What is common to several steps *)

\* Answers stay written as long as no reservation in the file is dropped or changed.
LEMMA AnswersKept ==
    ASSUME Durable, answers' = answers,
           \A a \in MayAsk : disk.reservation[a] # None =>
               SameReservation(disk.reservation[a], disk.reservation'[a])
    PROVE  \A t \in answers' : AnswerWritten(t)'
<1> SUFFICES ASSUME NEW t \in answers
             PROVE  AnswerWritten(t)'
  OBVIOUS
<1>1. t.ask \in MayAsk /\ AnswerWritten(t)
  BY DEF Durable, TypeOK
<1> QED
  BY <1>1 DEF AnswerWritten, SameReservation

\* A step of one conversation leaves the calls of the others alone.
LEMMA OthersKept ==
    ASSUME Durable, NEW c \in Conversations, CallAgrees(c)',
           \A d \in Conversations \ {c} :
              /\ call'[d] = call[d]
              /\ mem.session'[d] = None <=> mem.session[d] = None
              /\ \A a \in Of(d) : mem.reservation'[a] = mem.reservation[a]
    PROVE  \A d \in Conversations : CallAgrees(d)'
<1> SUFFICES ASSUME NEW d \in Conversations, d # c
             PROVE  CallAgrees(d)'
  OBVIOUS
<1>1. CallAgrees(d) /\ call'[d] = call[d] /\ (mem.session'[d] = None <=> mem.session[d] = None)
  BY DEF Durable
<1>2. <<d, call[d].request>> \in MayAsk =>
         mem.reservation'[<<d, call[d].request>>] = mem.reservation[<<d, call[d].request>>]
  BY DEF Of
<1> QED
  BY <1>1, <1>2 DEF CallAgrees

\* An idle call relies on nothing.
LEMMA IdleAgrees ==
    ASSUME NEW c, call'[c] = Idle
    PROVE  CallAgrees(c)'
BY DEF CallAgrees, Idle

\* The fields of a call, and of one that is over.
CallRecord == [pc : {"idle", "register", "put", "call", "attach"}, request : Requests \cup {None},
               mode : Modes \cup {None}, run : Runs \cup {None}]

\* No call at all is a well-formed call.
LEMMA IdleType == Idle \in CallRecord
BY DEF Idle, CallRecord

-----------------------------------------------------------------------------
(* The steps *)

\* The service starts with no file.
LEMMA InitDurable == Init => Durable
<1> SUFFICES ASSUME Init PROVE Durable
  OBVIOUS
<1> USE DEF Init
<1>1. EmptyState \in StateRecord
  BY DEF EmptyState, StateRecord
<1>2. TypeOK
  BY <1>1, IdleType DEF TypeOK, CallRecord, bounds
<1>3. Sound(EmptyState)
  BY <1>1 DEF Sound, EmptyState, Consistent, RunsAgree, Pending, Of
<1>4. WrittenIsKnown /\ JobsAreReserved
  BY DEF WrittenIsKnown, JobsAreReserved, EmptyState
<1>5. \A c \in Conversations : CallAgrees(c)
  BY DEF CallAgrees, Idle
<1> QED
  BY <1>2, <1>3, <1>4, <1>5 DEF Durable

\* Steps that touch neither the file nor the calls.
LEMMA StutterKeeps == Durable /\ UNCHANGED vars => Durable'
BY DEF Durable, vars, backend, bounds, TypeOK, WrittenIsKnown, JobsAreReserved, CallAgrees,
       AnswerWritten

\* The end of a turn changes nothing the bridge keeps.
LEMMA TurnEndsKeeps == ASSUME Durable, NEW t, TurnEnds(t) PROVE Durable'
BY DEF Durable, TurnEnds, backend, bounds, TypeOK, WrittenIsKnown, JobsAreReserved, CallAgrees,
       AnswerWritten

\* The same settings once more: the whole file is written.
LEMMA PutAgainKeeps ==
    ASSUME Durable, NEW c \in Conversations, NEW m, PutAgain(c, m)
    PROVE  Durable'
<1>1. mem' = mem /\ (disk' = mem \/ disk' = disk) /\ UNCHANGED <<call, backend, nextJob, answers, lost>>
  BY DEF PutAgain, Save, SaveThrows
<1>2. bounds' \in Nat \X Nat \X Nat
  BY DEF Durable, TypeOK, bounds, PutAgain, Save, SaveThrows
<1>3. TypeOK'
  BY <1>1, <1>2 DEF Durable, TypeOK, backend
<1>4. Sound(mem') /\ Sound(disk')
  BY <1>1 DEF Durable
<1>5. WrittenIsKnown' /\ JobsAreReserved'
  BY <1>1 DEF Durable, WrittenIsKnown, JobsAreReserved, SameReservation, Sound, Consistent, Of
<1>6. \A d \in Conversations : CallAgrees(d)'
  BY <1>1 DEF Durable, CallAgrees
<1>7. \A t \in answers' : AnswerWritten(t)'
  BY <1>1, AnswersKept DEF Durable, WrittenIsKnown, SameReservation
<1> QED
  BY <1>3, <1>4, <1>5, <1>6, <1>7 DEF Durable

\* Steps that change the call of one conversation and nothing of the file.
LEMMA CallStep ==
    ASSUME Durable, NEW c \in Conversations, NEW k \in CallRecord,
           call' = [call EXCEPT ![c] = k], CallAgrees(c)',
           UNCHANGED <<mem, disk, answers, nextJob, lost>>,
           bounds' \in Nat \X Nat \X Nat, project' \in Modes \cup {None},
           turn' \in [Runs -> [by : Conversations, content : Content] \cup {None}],
           busy' \subseteq Requests
    PROVE  Durable'
<1>1. call \in [Conversations -> CallRecord]
  BY DEF Durable, TypeOK, CallRecord
<1>2. TypeOK'
  BY <1>1 DEF Durable, TypeOK, CallRecord
<1>3. \A d \in Conversations : CallAgrees(d)'
  BY <1>1, OthersKept
<1> QED
  BY <1>2, <1>3
     DEF Durable, WrittenIsKnown, JobsAreReserved, AnswerWritten

\* The parts of TypeOK, one by one.
LEMMA BackendType ==
    ASSUME Durable
    PROVE  /\ bounds \in Nat \X Nat \X Nat /\ project \in Modes \cup {None}
           /\ turn \in [Runs -> [by : Conversations, content : Content] \cup {None}]
           /\ busy \subseteq Requests
           /\ call \in [Conversations -> CallRecord]
           /\ mem \in StateRecord /\ disk \in StateRecord
BY DEF Durable, TypeOK, CallRecord

\* initialize without a binding begins.
LEMMA EnsureProjectKeeps ==
    ASSUME Durable, NEW c \in Conversations, NEW m \in Modes, EnsureProject(c, m)
    PROVE  Durable'
<1> DEFINE k == [Idle EXCEPT !.mode = m, !.pc = IF project = None THEN "register" ELSE "put"]
<1>1. k \in CallRecord /\ k.mode = m /\ k.pc \in {"register", "put"}
  BY DEF Idle, CallRecord
<1>2. call' = [call EXCEPT ![c] = k] /\ call'[c] = k /\ mem.session[c] = None /\ mem' = mem
  BY BackendType DEF EnsureProject
<1>3. CallAgrees(c)'
  BY <1>1, <1>2 DEF CallAgrees
<1> QED
  BY <1>1, <1>2, <1>3, CallStep, BackendType DEF EnsureProject, backend, bounds

\* The project is registered or replaced.
LEMMA RegisterKeeps ==
    ASSUME Durable, NEW c \in Conversations, Register(c)
    PROVE  Durable'
<1> DEFINE k == [call[c] EXCEPT !.pc = "put"]
<1>1. call[c] \in CallRecord /\ CallAgrees(c) /\ call[c].pc = "register"
  BY BackendType DEF Durable, Register
<1>2. k \in CallRecord /\ k.pc = "put" /\ k.mode = call[c].mode
  BY <1>1 DEF CallRecord
<1>3. call' = [call EXCEPT ![c] = k] /\ call'[c] = k /\ mem' = mem
  BY BackendType DEF Register, Goto
<1>4. CallAgrees(c)'
  BY <1>1, <1>2, <1>3 DEF CallAgrees
<1>5. project' \in Modes \cup {None}
  BY <1>1 DEF Register, CallAgrees
<1> QED
  BY <1>2, <1>3, <1>4, <1>5, CallStep, BackendType DEF Register, bounds

\* A reserved start goes on.
LEMMA RetryKeeps ==
    ASSUME Durable, NEW a \in MayAsk, NEW m, NEW content, Retry(a[1], a[2], m, content)
    PROVE  Durable'
<1> DEFINE c == a[1]
           k == [Idle EXCEPT !.pc = "call", !.request = a[2]]
<1>1. c \in Conversations /\ a[2] \in Requests /\ a = <<c, a[2]>>
  BY AskType
<1>2. k \in CallRecord /\ k.pc = "call" /\ k.request = a[2]
  BY <1>1 DEF Idle, CallRecord
<1>3. call' = [call EXCEPT ![c] = k] /\ call'[c] = k /\ mem' = mem
  BY <1>1, BackendType DEF Retry
<1>4. mem.session[c] # None /\ mem.job[a] = None /\ mem.reservation[a] # None
  BY <1>1 DEF Retry, Authorized
<1>5. mem.reservation[a].state = "reserved"
  BY <1>1, <1>4 DEF Durable, Sound, Consistent, Of
<1>6. CallAgrees(c)'
  BY <1>1, <1>2, <1>3, <1>4, <1>5 DEF CallAgrees
<1> QED
  BY <1>1, <1>2, <1>3, <1>6, CallStep, BackendType DEF Retry, backend, bounds

\* startTask and followup.
LEMMA CallKeeps ==
    ASSUME Durable, NEW c \in Conversations, Call(c)
    PROVE  Durable'
<1> DEFINE run == RunOf(c)
           k == [call[c] EXCEPT !.pc = "attach", !.run = run]
<1>1. call[c] \in CallRecord /\ CallAgrees(c) /\ call[c].pc = "call"
  BY BackendType DEF Durable, Call
<1>2. Reservation(c) \in ReservationRecord /\ call[c].request \in Requests
  BY <1>1, BackendType, AskType DEF CallAgrees, Reservation, StateRecord
<1>3. run \in Runs /\ Reservation(c).content \in Content
  BY <1>2 DEF RunOf, Runs, ReservationRecord
<1>4. TaskOf(run) \in Requests
  BY <1>3 DEF TaskOf, Runs
<1>5. /\ k \in CallRecord /\ k.pc = "attach" /\ k.request = call[c].request /\ k.run = run
  BY <1>1, <1>3 DEF CallRecord
<1>6. call' = [call EXCEPT ![c] = k] /\ call'[c] = k /\ mem' = mem
  BY BackendType DEF Call
<1>7. CallAgrees(c)'
  BY <1>1, <1>5, <1>6 DEF CallAgrees, RunOf, Reservation
<1>8. /\ turn' \in [Runs -> [by : Conversations, content : Content] \cup {None}]
      /\ busy' \subseteq Requests
  BY <1>3, <1>4, BackendType DEF Call
<1> QED
  BY <1>5, <1>6, <1>7, <1>8, CallStep, BackendType DEF Call, bounds

\* The call of the orchestrator throws.
LEMMA LeaveKeeps ==
    ASSUME Durable, NEW c \in Conversations, CallRefused(c) \/ CallFails(c)
    PROVE  Durable'
<1>1. call' = [call EXCEPT ![c] = Idle] /\ call'[c] = Idle
  BY BackendType DEF CallRefused, CallFails, Leave
<1>2. CallAgrees(c)'
  BY <1>1, IdleAgrees
<1>3. bounds' \in Nat \X Nat \X Nat
  BY BackendType DEF CallRefused, CallFails, bounds
<1> QED
  BY <1>1, <1>2, <1>3, CallStep, IdleType, BackendType DEF CallRefused, CallFails, backend

\* A request that has a job is answered with it.
LEMMA StartedBeforeKeeps ==
    ASSUME Durable, NEW a \in MayAsk, NEW m, NEW content \in Content,
           StartedBefore(a[1], a[2], m, content)
    PROVE  Durable'
<1> DEFINE j == mem.job[a]
           t0 == [ask |-> a, content |-> content, job |-> j.id, run |-> j.run]
<1>1. a = <<a[1], a[2]>>
  BY AskType
<1>2. j # None /\ answers' = answers \cup {t0}
  BY <1>1 DEF StartedBefore, Told
<1>3. j \in JobRecord
  BY <1>2, BackendType DEF StateRecord
<1>4. /\ j.id = mem.reservation[a].job
      /\ j.run = <<mem.reservation[a].base, a[2]>>
  BY <1>1, <1>2, AskType DEF Durable, Sound, Consistent, RunsAgree, Of
<1>5. /\ disk.reservation[a] # None
      /\ disk.reservation[a].job = j.id
      /\ j.run = <<disk.reservation[a].base, a[2]>>
  BY <1>2, <1>4 DEF Durable, JobsAreReserved, WrittenIsKnown, SameReservation
<1>6. t0.ask = a /\ t0.job = j.id /\ t0.run = j.run /\ t0.content = content
  OBVIOUS
<1> HIDE DEF t0, j
<1>7. UNCHANGED <<mem, disk, call, backend, nextJob, bounds, lost>>
  BY DEF StartedBefore
<1>8. j.id \in Nat /\ j.run \in Runs
  BY <1>3 DEF JobRecord
<1>9. TypeOK'
  BY <1>2, <1>6, <1>7, <1>8 DEF Durable, TypeOK, backend, bounds
<1>10. \A t \in answers' : AnswerWritten(t)'
  BY <1>2, <1>5, <1>6, <1>7 DEF Durable, AnswerWritten
<1> QED
  BY <1>7, <1>9, <1>10 DEF Durable, WrittenIsKnown, JobsAreReserved, CallAgrees

\* The new binding is written, or stays in memory.
LEMMA PutInitializationKeeps ==
    ASSUME Durable, NEW c \in Conversations, PutInitialization(c)
    PROVE  Durable'
<1> DEFINE m == call[c].mode
           state == [mem EXCEPT !.session[c] = [mode |-> m, task |-> None, lastJob |-> None]]
<1>1. m \in Modes /\ mem.session[c] = None
  BY DEF Durable, CallAgrees, PutInitialization
<1>2. /\ Sound(state)
      /\ state.reservation = mem.reservation /\ state.job = mem.job
      /\ state.session = [mem.session EXCEPT ![c] = [mode |-> m, task |-> None, lastJob |-> None]]
  BY <1>1, NewSessionSound DEF Durable
<1>3. /\ mem' = state /\ (disk' = state \/ disk' = disk)
      /\ UNCHANGED <<backend, nextJob, answers, lost>>
      /\ call' = [call EXCEPT ![c] = Idle]
  BY DEF PutInitialization, Save, SaveThrows, Leave
<1>4. bounds' \in Nat \X Nat \X Nat
  BY BackendType DEF bounds, PutInitialization, Save, SaveThrows
<1> HIDE DEF state
<1>5. call' \in [Conversations -> CallRecord] /\ call'[c] = Idle
  BY <1>3, BackendType, IdleType
<1>6. TypeOK'
  BY <1>2, <1>3, <1>4, <1>5 DEF Durable, TypeOK, backend, CallRecord, Sound
<1>7. WrittenIsKnown' /\ JobsAreReserved'
  BY <1>2, <1>3 DEF Durable, WrittenIsKnown, JobsAreReserved, SameReservation, Sound, Consistent, Of
<1>8. \A d \in Conversations : CallAgrees(d)'
  <2>1. CallAgrees(c)'
    BY <1>5, IdleAgrees
  <2>2. \A d \in Conversations \ {c} : call'[d] = call[d] /\ mem.session'[d] = mem.session[d]
    BY <1>2, <1>3, BackendType DEF StateRecord
  <2> QED
    BY <1>2, <1>3, <2>1, <2>2, OthersKept
<1>9. \A t \in answers' : AnswerWritten(t)'
  BY <1>2, <1>3, AnswersKept DEF Durable, WrittenIsKnown, SameReservation
<1> QED
  BY <1>2, <1>3, <1>6, <1>7, <1>8, <1>9 DEF Durable

\* The reservation is written, or stays in memory and the call ends.
LEMMA ReserveStartKeeps ==
    ASSUME Durable, NEW a \in MayAsk, NEW m, NEW content \in Content,
           ReserveStart(a[1], a[2], m, content)
    PROVE  Durable'
<1> DEFINE c == a[1]
           r == [content |-> content, job |-> nextJob, base |-> mem.session[c].task,
                 state |-> "reserved"]
           state == [mem EXCEPT !.reservation[a] = r]
           k == [Idle EXCEPT !.pc = "call", !.request = a[2]]
<1>1. c \in Conversations /\ a[2] \in Requests /\ a = <<c, a[2]>>
  BY AskType
<1>2. /\ mem.session[c] # None /\ mem.reservation[a] = None /\ Pending(mem, c) = {}
      /\ mem.job[a] = None
  BY <1>1 DEF ReserveStart, Authorized, MayReserve
<1>3. r \in ReservationRecord
  <2>1. nextJob \in Nat /\ mem.session[c] \in Binding
    BY <1>1, <1>2, BackendType DEF Durable, TypeOK, StateRecord
  <2> QED
    BY <2>1 DEF ReservationRecord, Binding
<1>4. r.state = "reserved" /\ r # None
  BY <1>3, NoneAssumption
<1>5. /\ mem' = state /\ (disk' = state \/ disk' = disk)
      /\ UNCHANGED <<backend, answers, lost>>
      /\ nextJob' = nextJob + 1
      /\ (call' = [call EXCEPT ![c] = k] /\ disk' = state) \/ call' = call
  BY <1>1 DEF ReserveStart, Save, SaveThrows
<1>6. bounds' \in Nat \X Nat \X Nat
  BY BackendType DEF bounds, ReserveStart, Save, SaveThrows
<1>7. k \in CallRecord /\ k.pc = "call" /\ k.request = a[2]
  BY <1>1 DEF Idle, CallRecord
<1>8. call[c] = Idle \/ call[c].pc = "idle"
  BY DEF ReserveStart, Authorized
<1>9. /\ Sound(state)
      /\ state.session = mem.session /\ state.job = mem.job
      /\ state.reservation = [mem.reservation EXCEPT ![a] = r]
  BY <1>2, <1>3, <1>4, ReservedSound DEF Durable
<1> HIDE DEF state, r, k
<1>10. \A x \in MayAsk : state.reservation[x] = IF x = a THEN r ELSE mem.reservation[x]
  BY <1>9, BackendType DEF StateRecord
<1>11. call' \in [Conversations -> CallRecord]
  BY <1>1, <1>5, <1>7, BackendType
<1>12. TypeOK'
  BY <1>5, <1>6, <1>9, <1>11 DEF Durable, TypeOK, backend, CallRecord, Sound
<1>13. WrittenIsKnown'
  BY <1>2, <1>4, <1>5, <1>10 DEF Durable, WrittenIsKnown, SameReservation
<1>14. JobsAreReserved'
  <2> SUFFICES ASSUME NEW x \in MayAsk, mem'.job[x] # None
               PROVE  disk'.reservation[x] # None
    BY DEF JobsAreReserved
  <2>1. mem.job[x] # None /\ x # a
    BY <1>2, <1>5, <1>9
  <2>2. disk.reservation[x] # None /\ mem.reservation[x] # None
    BY <2>1 DEF Durable, JobsAreReserved, WrittenIsKnown, SameReservation
  <2> QED
    BY <1>5, <1>10, <2>1, <2>2
<1>15. CallAgrees(c)'
  BY <1>1, <1>2, <1>4, <1>5, <1>7, <1>8, <1>9, <1>10, BackendType DEF CallAgrees, Idle
<1>16. \A d \in Conversations : CallAgrees(d)'
  <2>1. \A d \in Conversations \ {c} : /\ call'[d] = call[d]
                                       /\ mem.session'[d] = mem.session[d]
                                       /\ \A x \in Of(d) : mem.reservation'[x] = mem.reservation[x]
    BY <1>5, <1>9, <1>10, BackendType DEF Of
  <2> QED
    BY <1>1, <1>15, <2>1, OthersKept
<1>17. \A t \in answers' : AnswerWritten(t)'
  BY <1>2, <1>5, <1>10, AnswersKept DEF Durable, WrittenIsKnown, SameReservation
<1> QED
  BY <1>5, <1>9, <1>12, <1>13, <1>14, <1>16, <1>17 DEF Durable

\* The two files that the end of a start writes.
LEMMA AttachFiles ==
    ASSUME Durable, NEW c \in Conversations, call[c].pc = "attach"
    PROVE  LET a == <<c, call[c].request>>
               r == Reservation(c)
               ra == [r EXCEPT !.state = "attached"]
               j == [id |-> r.job, content |-> r.content, run |-> call[c].run]
           IN /\ a \in MayAsk /\ r = mem.reservation[a] /\ r \in ReservationRecord /\ r # None
              /\ call[c].run \in Runs /\ call[c].run = <<r.base, a[2]>>
              /\ Sound(Rebound(c))
              /\ Rebound(c).reservation = mem.reservation /\ Rebound(c).job = mem.job
              /\ Sound(Attached(c))
              /\ Attached(c).reservation = [mem.reservation EXCEPT ![a] = ra]
              /\ Attached(c).job = [mem.job EXCEPT ![a] = j]
              /\ \A d \in Conversations :
                    /\ Rebound(c).session[d] = None <=> mem.session[d] = None
                    /\ Attached(c).session[d] = None <=> mem.session[d] = None
<1> DEFINE a == <<c, call[c].request>>
           r == Reservation(c)
           m == r.content.mode
           run == call[c].run
<1>1. /\ a \in MayAsk /\ mem.session[c] # None /\ r # None /\ r.state = "reserved"
      /\ run = <<r.base, a[2]>> /\ r = mem.reservation[a]
  BY DEF Durable, CallAgrees, Reservation
<1>2. r \in ReservationRecord /\ a[1] = c /\ a[2] \in Requests
  BY <1>1, AskType, BackendType DEF StateRecord
<1>3. m \in Modes /\ run \in Runs
  BY <1>1, <1>2 DEF ReservationRecord, Content, Runs
<1>4. /\ Sound(Rebound(c))
      /\ Rebound(c).reservation = mem.reservation /\ Rebound(c).job = mem.job
      /\ Rebound(c).session = [mem.session EXCEPT ![c] = [mem.session[c] EXCEPT !.mode = m]]
      /\ Rebound(c).session[c] # None
  BY <1>1, <1>3, ReboundSound DEF Durable, Rebound
<1>5. \A d \in Conversations : Rebound(c).session[d] = None <=> mem.session[d] = None
  BY <1>1, <1>4, BackendType DEF StateRecord
<1> DEFINE s == Rebound(c)
<1>6. Attached(c) = AttachedTo(s, a, run)
  BY <1>1, <1>2, <1>4 DEF Attached, AttachedTo
<1> HIDE DEF r, run, a, s
<1>7. /\ Sound(Attached(c))
      /\ Attached(c).reservation = [s.reservation EXCEPT ![a] =
                                       [s.reservation[a] EXCEPT !.state = "attached"]]
      /\ Attached(c).job = [s.job EXCEPT ![a] = [id |-> s.reservation[a].job,
                                                 content |-> s.reservation[a].content,
                                                 run |-> run]]
      /\ \A d \in Conversations : Attached(c).session[d] = None <=> s.session[d] = None
  <2>1. /\ Sound(s) /\ s.session[a[1]] # None /\ s.reservation[a] # None
        /\ s.reservation[a].state = "reserved" /\ run = <<s.reservation[a].base, a[2]>>
    BY <1>1, <1>2, <1>4 DEF s
  <2>2. a \in MayAsk /\ run \in Runs
    BY <1>1, <1>3
  <2>3. /\ Sound(AttachedTo(s, a, run))
        /\ AttachedTo(s, a, run).reservation =
              [s.reservation EXCEPT ![a] = [s.reservation[a] EXCEPT !.state = "attached"]]
        /\ AttachedTo(s, a, run).job =
              [s.job EXCEPT ![a] = [id |-> s.reservation[a].job,
                                    content |-> s.reservation[a].content, run |-> run]]
        /\ \A d \in Conversations : AttachedTo(s, a, run).session[d] = None <=> s.session[d] = None
    BY <2>1, <2>2, AttachedSound, Z3
  <2> QED
    BY <1>6, <2>3
<1> QED
  BY <1>1, <1>2, <1>3, <1>4, <1>5, <1>7 DEF a, r, run, s

\* The end of a start, with none, the first or the second write failing.
LEMMA AttachStartKeeps ==
    ASSUME Durable, NEW c \in Conversations, AttachStart(c)
    PROVE  Durable'
<1> DEFINE a == <<c, call[c].request>>
           r == Reservation(c)
           ra == [r EXCEPT !.state = "attached"]
           j == [id |-> r.job, content |-> r.content, run |-> call[c].run]
           t0 == [ask |-> a, content |-> r.content, job |-> r.job, run |-> call[c].run]
<1>1. call[c].pc = "attach"
  BY DEF AttachStart
<1>2. /\ a \in MayAsk /\ r = mem.reservation[a] /\ r \in ReservationRecord /\ r # None
      /\ call[c].run \in Runs /\ call[c].run = <<r.base, a[2]>>
      /\ Sound(Rebound(c))
      /\ Rebound(c).reservation = mem.reservation /\ Rebound(c).job = mem.job
      /\ Sound(Attached(c))
      /\ Attached(c).reservation = [mem.reservation EXCEPT ![a] = ra]
      /\ Attached(c).job = [mem.job EXCEPT ![a] = j]
      /\ \A d \in Conversations :
            /\ Rebound(c).session[d] = None <=> mem.session[d] = None
            /\ Attached(c).session[d] = None <=> mem.session[d] = None
  BY <1>1, AttachFiles
<1>3. ra # None /\ ra.job = r.job /\ ra.base = r.base
  <2>1. ra \in ReservationRecord /\ ra.job = r.job /\ ra.base = r.base
    BY <1>2 DEF ReservationRecord
  <2> QED
    BY <2>1, NoneAssumption
<1>4. j.id = r.job /\ j.content = r.content /\ j.run = call[c].run
  OBVIOUS
<1> HIDE DEF ra, j
<1>5. /\ \A x \in MayAsk : Attached(c).reservation[x] = IF x = a THEN ra ELSE mem.reservation[x]
      /\ \A x \in MayAsk : Attached(c).job[x] = IF x = a THEN j ELSE mem.job[x]
  BY <1>2, BackendType DEF StateRecord
<1>6. UNCHANGED <<backend, nextJob, lost>> /\ call' = [call EXCEPT ![c] = Idle]
  BY DEF AttachStart, Leave
<1>7. \/ mem' = Attached(c) /\ disk' = Attached(c) /\ answers' = answers \cup {t0}
      \/ mem' = Rebound(c) /\ disk' = disk /\ answers' = answers
      \/ mem' = Attached(c) /\ disk' = Rebound(c) /\ answers' = answers
  BY <1>2, <1>4, <1>5 DEF AttachStart, Save, SaveThrows, Told
<1>8. bounds' \in Nat \X Nat \X Nat
  BY BackendType DEF bounds, AttachStart, Save, SaveThrows
<1>9. t0.ask = a /\ t0.content = r.content /\ t0.job = r.job /\ t0.run = call[c].run
  OBVIOUS
<1>10. r.content \in Content /\ r.job \in Nat
  BY <1>2 DEF ReservationRecord
<1> HIDE DEF t0
<1>11. call' \in [Conversations -> CallRecord] /\ call'[c] = Idle
  BY <1>6, BackendType, IdleType
<1>12. Sound(mem') /\ Sound(disk')
  BY <1>2, <1>7 DEF Durable
<1>13. \A t \in answers' : /\ t.ask \in MayAsk /\ t.content \in Content
                           /\ t.job \in Nat /\ t.run \in Runs
  BY <1>2, <1>7, <1>9, <1>10 DEF Durable, TypeOK
<1>14. TypeOK'
  BY <1>6, <1>8, <1>11, <1>12, <1>13 DEF Durable, TypeOK, backend, CallRecord, Sound
<1>15. \A x \in MayAsk : disk.reservation[x] # None =>
          SameReservation(disk.reservation[x], mem.reservation[x])
  BY DEF Durable, WrittenIsKnown
<1>16. /\ \A x \in MayAsk : disk'.reservation[x] # None =>
             SameReservation(disk'.reservation[x], mem'.reservation[x])
       /\ \A x \in MayAsk : disk.reservation[x] # None =>
             SameReservation(disk.reservation[x], disk'.reservation[x])
  <2>1. \A x \in MayAsk : mem.reservation[x] # None =>
           SameReservation(mem.reservation[x], Attached(c).reservation[x])
    BY <1>2, <1>3, <1>5 DEF SameReservation
  <2>2. \A x \in MayAsk : mem.reservation[x] # None =>
           SameReservation(mem.reservation[x], mem.reservation[x])
    BY DEF SameReservation
  <2>3. \A x \in MayAsk : disk.reservation[x] # None =>
           SameReservation(disk.reservation[x], disk.reservation[x])
    BY DEF SameReservation
  <2>4. \A x \in MayAsk : disk.reservation[x] # None =>
           SameReservation(disk.reservation[x], Attached(c).reservation[x])
    BY <1>15, <2>1 DEF SameReservation
  <2>5. \A x \in MayAsk : Attached(c).reservation[x] # None =>
           SameReservation(Attached(c).reservation[x], Attached(c).reservation[x])
    BY DEF SameReservation
  <2>6. CASE mem' = Attached(c) /\ disk' = Attached(c)
    BY <2>4, <2>5, <2>6
  <2>7. CASE mem' = Rebound(c) /\ disk' = disk
    BY <1>2, <1>15, <2>3, <2>7
  <2>8. CASE mem' = Attached(c) /\ disk' = Rebound(c)
    BY <1>2, <1>15, <2>1, <2>8
  <2> QED
    BY <1>7, <2>6, <2>7, <2>8
<1>17. WrittenIsKnown'
  BY <1>16 DEF WrittenIsKnown
<1>18. JobsAreReserved'
  <2>1. \A x \in MayAsk : mem.job[x] # None => disk.reservation[x] # None
    BY DEF Durable, JobsAreReserved
  <2>2. \A x \in MayAsk : mem.job[x] # None =>
           disk'.reservation[x] # None
    BY <2>1, <1>16 DEF SameReservation
  <2>3. CASE mem' = Rebound(c)
    BY <1>2, <2>2, <2>3 DEF JobsAreReserved
  <2>4. CASE mem' = Attached(c) /\ disk' \in {Attached(c), Rebound(c)}
    BY <1>2, <1>3, <1>5, <2>2, <2>4 DEF JobsAreReserved
  <2> QED
    BY <1>7, <2>3, <2>4
<1>19. \A d \in Conversations : CallAgrees(d)'
  <2>1. CallAgrees(c)'
    BY <1>11, IdleAgrees
  <2>2. \A d \in Conversations \ {c} : \A x \in Of(d) :
            Attached(c).reservation[x] = mem.reservation[x]
    BY <1>5 DEF Of
  <2>3. \A d \in Conversations \ {c} : /\ call'[d] = call[d]
                                       /\ mem'.session[d] = None <=> mem.session[d] = None
                                       /\ \A x \in Of(d) : mem'.reservation[x] = mem.reservation[x]
    BY <1>2, <1>6, <1>7, <2>2, BackendType
  <2> QED
    BY <2>1, <2>3, OthersKept
<1>20. \A t \in answers' : AnswerWritten(t)'
  <2> SUFFICES ASSUME NEW t \in answers'
               PROVE  AnswerWritten(t)'
    OBVIOUS
  <2>1. CASE t \in answers
    <3>1. t.ask \in MayAsk /\ AnswerWritten(t)
      BY <2>1 DEF Durable, TypeOK
    <3> QED
      BY <1>16, <3>1 DEF AnswerWritten, SameReservation
  <2>2. CASE t \notin answers
    <3>1. disk' = Attached(c) /\ t = t0
      BY <1>7, <2>2
    <3>2. disk'.reservation[a] = ra
      BY <1>2, <1>5, <3>1
    <3> QED
      BY <1>2, <1>3, <1>9, <3>1, <3>2 DEF AnswerWritten
  <2> QED
    BY <2>1, <2>2
<1> QED
  BY <1>12, <1>14, <1>17, <1>18, <1>19, <1>20 DEF Durable

\* The process starts again with a sound file that has every reservation of the old one.
LEMMA RestartKeeps ==
    ASSUME Durable, NEW file, Sound(file), RestartWith(file),
           \A a \in MayAsk : disk.reservation[a] # None =>
               SameReservation(disk.reservation[a], file.reservation[a])
    PROVE  Durable'
<1>1. /\ mem' = file /\ disk' = file /\ call' = [c \in Conversations |-> Idle] /\ busy' = {}
      /\ UNCHANGED <<project, turn, nextJob, answers>>
  BY DEF RestartWith
<1>2. crashes' \in Nat /\ saveFaults' \in Nat /\ callFaults' \in Nat
  BY BackendType DEF RestartWith, bounds
<1>3. lost' \subseteq Conversations
  BY AskType DEF RestartWith, Durable, TypeOK
<1>4. TypeOK'
  BY <1>1, <1>2, <1>3, IdleType DEF Durable, TypeOK, bounds, CallRecord, Sound
<1>5. WrittenIsKnown' /\ JobsAreReserved'
  <2>1. \A a \in MayAsk : file.job[a] # None => file.reservation[a] # None
    BY AskType DEF Sound, Consistent, Of
  <2>2. \A a \in MayAsk : file.reservation[a] # None =>
           SameReservation(file.reservation[a], file.reservation[a])
    BY DEF SameReservation
  <2> QED
    BY <1>1, <2>1, <2>2 DEF WrittenIsKnown, JobsAreReserved
<1>6. \A d \in Conversations : CallAgrees(d)'
  BY <1>1, IdleAgrees
<1>7. \A t \in answers' : AnswerWritten(t)'
  BY <1>1, AnswersKept
<1> QED
  BY <1>1, <1>4, <1>5, <1>6, <1>7 DEF Durable

\* The process ends at any point, also between the two writes of a start.
LEMMA CrashKeeps ==
    ASSUME Durable, Crash \/ \E c \in Conversations : CrashBetweenWrites(c)
    PROVE  Durable'
<1>1. CASE Crash
  <2>1. \A a \in MayAsk : disk.reservation[a] # None =>
           SameReservation(disk.reservation[a], disk.reservation[a])
    BY DEF SameReservation
  <2> QED
    BY <1>1, <2>1, RestartKeeps DEF Crash, Durable
<1>2. ASSUME NEW c \in Conversations, CrashBetweenWrites(c)
      PROVE  Durable'
  <2>1. call[c].pc = "attach" /\ RestartWith(Rebound(c))
    BY <1>2 DEF CrashBetweenWrites
  <2>2. Sound(Rebound(c)) /\ Rebound(c).reservation = mem.reservation
    BY <2>1, AttachFiles
  <2>3. \A a \in MayAsk : disk.reservation[a] # None =>
           SameReservation(disk.reservation[a], Rebound(c).reservation[a])
    BY <2>2 DEF Durable, WrittenIsKnown
  <2> QED
    BY <2>1, <2>2, <2>3, RestartKeeps
<1> QED
  BY <1>1, <1>2

\* Every step keeps the invariant.
LEMMA NextKeeps == Durable /\ [Next]_vars => Durable'
<1> SUFFICES ASSUME Durable, [Next]_vars
             PROVE  Durable'
  OBVIOUS
<1>1. ASSUME NEW c \in Conversations, NEW m \in Modes, PutAgain(c, m) \/ EnsureProject(c, m)
      PROVE  Durable'
  BY <1>1, PutAgainKeeps, EnsureProjectKeeps
<1>2. ASSUME NEW a \in MayAsk, NEW m \in Modes \cup {None}, NEW content \in Content,
             \/ StartedBefore(a[1], a[2], m, content)
             \/ Retry(a[1], a[2], m, content)
             \/ ReserveStart(a[1], a[2], m, content)
      PROVE  Durable'
  BY <1>2, StartedBeforeKeeps, RetryKeeps, ReserveStartKeeps
<1>3. ASSUME NEW c \in Conversations, Steps(c)
      PROVE  Durable'
  BY <1>3, RegisterKeeps, PutInitializationKeeps, CallKeeps, LeaveKeeps, AttachStartKeeps
     DEF Steps
<1>4. ASSUME NEW t \in Requests, TurnEnds(t)
      PROVE  Durable'
  BY <1>4, TurnEndsKeeps
<1>5. CASE UNCHANGED vars
  BY <1>5, StutterKeeps
<1> QED
  BY <1>1, <1>2, <1>3, <1>4, <1>5, CrashKeeps DEF Next

-----------------------------------------------------------------------------
(* The theorems *)

\* The bridge's memory, its file, the calls in progress and the answers agree at every
\* instant (bridge-state.ts, compatibility-service.ts).
THEOREM Durability == Spec => []Durable
BY InitDurable, NextKeeps, PTL DEF Spec

\* Every record of the bridge stays well formed.
THEOREM BridgeTypeCorrect == Spec => []TypeOK
<1>1. Durable => TypeOK
  BY DEF Durable
<1> QED
  BY <1>1, Durability, PTL

\* Whatever write fails and wherever the process ends, the file and the memory are states
\* the service can go on from.
THEOREM FilesStayConsistent == Spec => []FilesConsistent
<1>1. Durable => FilesConsistent
  BY DEF Durable, Sound, FilesConsistent
<1> QED
  BY <1>1, Durability, PTL

\* A job that a caller was given stays reserved for its request, with its run, in the file
\* that every later restart finds.
THEOREM ToldJobsSurvive == Spec => []AnswersSurvive
<1>1. Durable => AnswersSurvive
  <2> SUFFICES ASSUME Durable
               PROVE  AnswersSurvive
    OBVIOUS
  <2>1. \A t \in answers : AnswerWritten(t)
    BY DEF Durable
  <2> QED
    BY <2>1 DEF AnswersSurvive, AnswerWritten
<1> QED
  BY <1>1, Durability, PTL
=============================================================================
