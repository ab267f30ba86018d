----------------------- MODULE CompatibilityTurnProofs -----------------------
(***************************************************************************)
(* Proofs about the turns that the bridge has the orchestrator run: each   *)
(* request has one, all of a conversation are in one task, and a caller is *)
(* answered with the run of its own instruction.  They rest on Durable,    *)
(* the invariant of the bridge's file (CompatibilityServiceProofs).        *)
(***************************************************************************)
EXTENDS CompatibilityServiceProofs, FiniteSetTheorems

\* The route of a reservation is the one its conversation's binding has, before and after
\* it is attached; it leads to a task named after an id of the conversation.
Routed(state) ==
    \A a \in MayAsk : state.reservation[a] # None =>
        /\ state.session[a[1]] # None
        /\ state.reservation[a].state = "reserved" =>
              state.reservation[a].base = state.session[a[1]].task
        /\ state.reservation[a].state = "attached" =>
              TaskOf(<<state.reservation[a].base, a[2]>>) = state.session[a[1]].task
        /\ state.reservation[a].base # None => <<a[1], state.reservation[a].base>> \in MayAsk

\* What is written of a reservation has the content that the memory has of it.
ContentIsKnown ==
    \A a \in MayAsk : disk.reservation[a] # None =>
        disk.reservation[a].content = mem.reservation[a].content

\* A turn was recorded for the reservation of its request, with its route and its content,
\* by a conversation that uses both ids of the run.
TurnIsReserved(r) ==
    LET a == <<turn[r].by, r[2]>>
    IN /\ a \in MayAsk
       /\ r[1] # None => <<turn[r].by, r[1]>> \in MayAsk
       /\ turn[r].by \notin lost =>
             /\ mem.reservation[a] # None
             /\ mem.reservation[a].base = r[1]
             /\ mem.reservation[a].content = turn[r].content
TurnsAreReserved == \A r \in Runs : turn[r] # None => TurnIsReserved(r)

\* The invariant behind OneTurnPerRequest.
Planned == Routed(mem) /\ Routed(disk) /\ ContentIsKnown /\ TurnsAreReserved

Ran(c, run, content) ==
    c \notin lost /\ Alone(c, run) => turn[run] = [by |-> c, content |-> content]
JobsRan(state) ==
    \A a \in MayAsk : state.job[a] # None => Ran(a[1], state.job[a].run, state.job[a].content)
CallsRan ==
    \A c \in Conversations : call[c].pc = "attach" => Ran(c, call[c].run, Reservation(c).content)

\* The invariant behind the other two: what a job, a call about to attach, or an answer
\* names was recorded for its conversation.
Executed == JobsRan(mem) /\ JobsRan(disk) /\ CallsRan /\ JobRunsTheInstruction

-----------------------------------------------------------------------------
(* What the changes of the file do to its routes *)

\* A new binding has no route to keep: its conversation has no reservation.
LEMMA NewSessionRouted ==
    ASSUME NEW s, s \in StateRecord, Routed(s), NEW c \in Conversations, s.session[c] = None,
           NEW t, t.reservation = s.reservation, NEW b, t.session = [s.session EXCEPT ![c] = b]
    PROVE  Routed(t)
<1> SUFFICES ASSUME NEW a \in MayAsk, s.reservation[a] # None
             PROVE  a[1] # c /\ t.session[a[1]] = s.session[a[1]]
  BY DEF Routed
<1>1. a[1] \in Conversations /\ s.session[a[1]] # None
  BY AskType DEF Routed
<1> QED
  BY <1>1 DEF StateRecord

\* The task of a binding is named after an id of its conversation.
LEMMA TaskIsAsked ==
    ASSUME NEW s, Sound(s), Routed(s), NEW c \in Conversations,
           s.session[c] # None, s.session[c].task # None
    PROVE  <<c, s.session[c].task>> \in MayAsk
<1>1. PICK a \in Of(c) : s.job[a] # None /\ TaskOf(s.job[a].run) = s.session[c].task
  BY DEF Sound, Consistent
<1>2. a \in MayAsk /\ a[1] = c /\ a = <<c, a[2]>>
  BY <1>1, AskType DEF Of
<1>3. s.reservation[a] # None /\ s.job[a].run = <<s.reservation[a].base, a[2]>>
  BY <1>1, <1>2 DEF Sound, Consistent, RunsAgree
<1> QED
  BY <1>1, <1>2, <1>3 DEF Routed, TaskOf

\* A new reservation takes the route of the binding.
LEMMA ReservedRouted ==
    ASSUME NEW s, s \in StateRecord, Routed(s), NEW a \in MayAsk, s.session[a[1]] # None,
           NEW r, r.base = s.session[a[1]].task, r.state = "reserved",
           r.base # None => <<a[1], r.base>> \in MayAsk,
           NEW t, t.session = s.session, t.reservation = [s.reservation EXCEPT ![a] = r]
    PROVE  Routed(t)
<1>1. \A x \in MayAsk : t.reservation[x] = IF x = a THEN r ELSE s.reservation[x]
  BY DEF StateRecord
<1> QED
  BY <1>1 DEF Routed

\* The route of one reservation.
LEMMA RouteOf ==
    ASSUME NEW s, Routed(s), NEW a \in MayAsk, s.reservation[a] # None
    PROVE  /\ s.reservation[a].state = "reserved" => s.reservation[a].base = s.session[a[1]].task
           /\ s.reservation[a].state = "attached" =>
                 TaskOf(<<s.reservation[a].base, a[2]>>) = s.session[a[1]].task
           /\ s.reservation[a].base # None => <<a[1], s.reservation[a].base>> \in MayAsk
BY DEF Routed

\* updateBinding does not touch the routes.
LEMMA ReboundRouted ==
    ASSUME Durable, Routed(mem), NEW c \in Conversations, call[c].pc = "attach"
    PROVE  /\ Routed(Rebound(c))
           /\ Rebound(c) \in StateRecord
           /\ \A d \in Conversations : Rebound(c).session[d] # None =>
                 Rebound(c).session[d].task = mem.session[d].task
<1> DEFINE m == Reservation(c).content.mode
<1>1. /\ Reservation(c) \in ReservationRecord /\ mem.session[c] # None /\ mem \in StateRecord
      /\ Sound(Rebound(c)) /\ Rebound(c).reservation = mem.reservation
      /\ \A d \in Conversations : Rebound(c).session[d] = None <=> mem.session[d] = None
  BY AttachFiles, BackendType DEF Durable, CallAgrees
<1>2. m \in Modes
  BY <1>1 DEF ReservationRecord, Content
<1>3. Rebound(c).session = [mem.session EXCEPT ![c] = [mem.session[c] EXCEPT !.mode = m]]
  BY <1>1, <1>2, ReboundSound DEF Durable, Rebound
<1>4. mem.session[c] \in Binding
  BY <1>1 DEF StateRecord
<1>5. \A d \in Conversations : Rebound(c).session[d] # None =>
         Rebound(c).session[d].task = mem.session[d].task
  BY <1>1, <1>3, <1>4 DEF StateRecord, Binding
<1>6. Routed(Rebound(c))
  BY <1>1, <1>5, AskType DEF Routed
<1> QED
  BY <1>1, <1>5, <1>6 DEF Sound

\* attachStart makes the task of the run the one of the binding; a binding that has a task
\* keeps it.
LEMMA AttachedRouted ==
    ASSUME Durable, Routed(mem), NEW c \in Conversations, call[c].pc = "attach"
    PROVE  Routed(Attached(c))
<1> DEFINE a == <<c, call[c].request>>
           r == Reservation(c)
           run == call[c].run
           ra == [r EXCEPT !.state = "attached"]
           s == Rebound(c)
           b == [s.session[c] EXCEPT !.task = TaskOf(run), !.lastJob = r.job]
           t == Attached(c)
<1>1. /\ a \in MayAsk /\ r = mem.reservation[a] /\ r \in ReservationRecord /\ r # None
      /\ run \in Runs /\ run = <<r.base, a[2]>>
      /\ t.reservation = [mem.reservation EXCEPT ![a] = ra]
      /\ s.reservation = mem.reservation
      /\ \A d \in Conversations : s.session[d] = None <=> mem.session[d] = None
      /\ \A d \in Conversations : t.session[d] = None <=> mem.session[d] = None
  BY AttachFiles
<1>2. mem.session[c] # None /\ r.state = "reserved" /\ mem \in StateRecord /\ Sound(mem)
  BY <1>1, BackendType DEF Durable, CallAgrees
<1>3. s \in StateRecord /\ Routed(s)
  BY ReboundRouted
<1>4. t.session = [s.session EXCEPT ![c] = b]
  BY DEF Attached
<1>5. s.session[c] \in Binding /\ s.session[c] # None
  BY <1>1, <1>2, <1>3 DEF StateRecord
<1>6. b.task = TaskOf(run)
  BY <1>5 DEF Binding
<1>7. ra.state = "attached" /\ ra.base = r.base
  BY <1>1 DEF ReservationRecord
<1>8. /\ \A x \in MayAsk : t.reservation[x] = IF x = a THEN ra ELSE mem.reservation[x]
      /\ \A d \in Conversations : t.session[d] = IF d = c THEN b ELSE s.session[d]
  BY <1>1, <1>2, <1>3, <1>4 DEF StateRecord
<1>9. r.base = s.session[c].task
  <2>1. s.reservation[a] = r /\ a[1] = c
    BY <1>1
  <2>2. a \in MayAsk /\ r # None /\ r.state = "reserved" /\ Routed(s)
    BY <1>1, <1>2, <1>3
  <2> HIDE DEF s, r, a
  <2> QED
    BY <2>1, <2>2, RouteOf
<1>10. s.session[c].task # None => TaskOf(run) = s.session[c].task
  BY <1>1, <1>9 DEF TaskOf
<1> HIDE DEF ra, b, t, s, r, run
<1> SUFFICES ASSUME NEW x \in MayAsk, t.reservation[x] # None
             PROVE  /\ t.session[x[1]] # None
                    /\ t.reservation[x].state = "reserved" =>
                          t.reservation[x].base = t.session[x[1]].task
                    /\ t.reservation[x].state = "attached" =>
                          TaskOf(<<t.reservation[x].base, x[2]>>) = t.session[x[1]].task
                    /\ t.reservation[x].base # None =>
                          <<x[1], t.reservation[x].base>> \in MayAsk
  BY DEF Routed, t
<1>14. t.reservation[x].base # None => <<x[1], t.reservation[x].base>> \in MayAsk
  BY <1>1, <1>2, <1>7, <1>8 DEF Routed
<1>11. CASE x = a
  BY <1>1, <1>2, <1>6, <1>7, <1>8, <1>11, <1>14 DEF a
<1>12. CASE x # a /\ x[1] # c
  BY <1>1, <1>3, <1>8, <1>12, <1>14, AskType DEF Routed
<1>13. CASE x # a /\ x[1] = c
  <2>1. t.reservation[x] = mem.reservation[x] /\ t.session[x[1]] = b /\ mem.reservation[x] # None
    BY <1>8, <1>13, AskType
  <2>2. mem.reservation[x].state = "attached"
    <3>1. x \in Of(c) /\ a \in Of(c)
      BY <1>1, <1>13 DEF Of, a
    <3>2. a \in Pending(mem, c)
      BY <1>1, <1>2, <3>1 DEF Pending
    <3>3. x \notin Pending(mem, c)
      BY <1>13, <3>2, <1>2 DEF Sound, Consistent
    <3>4. mem.reservation[x] \in ReservationRecord
      BY <1>2, <2>1 DEF StateRecord
    <3> QED
      BY <2>1, <3>1, <3>3, <3>4 DEF Pending, ReservationRecord
  <2>3. TaskOf(<<mem.reservation[x].base, x[2]>>) = s.session[c].task
    <3>1. s.reservation = mem.reservation /\ Routed(s) /\ x[1] = c /\ x \in MayAsk
      BY <1>1, <1>3, <1>13
    <3>2. s.reservation[x] # None /\ s.reservation[x].state = "attached"
      BY <2>1, <2>2, <3>1
    <3>3. TaskOf(<<s.reservation[x].base, x[2]>>) = s.session[x[1]].task
      BY <3>1, <3>2, RouteOf
    <3> QED
      BY <3>1, <3>3
  <2>4. TaskOf(<<mem.reservation[x].base, x[2]>>) # None
    <3>1. mem.reservation[x].base \in Requests \cup {None} /\ x[2] \in Requests
      BY <1>2, <2>1, AskType DEF StateRecord, ReservationRecord
    <3> QED
      BY <3>1, NoneAssumption DEF TaskOf
  <2>5. mem.session[x[1]] # None
    BY <1>2, <1>13
  <2> QED
    BY <1>1, <1>6, <1>10, <1>13, <1>14, <2>1, <2>2, <2>3, <2>4, <2>5, AskType
<1> QED
  BY <1>11, <1>12, <1>13

-----------------------------------------------------------------------------
(* The steps keep the routes and the turns *)

\* Turns stay those of their reservations as long as the memory drops and changes none.
LEMMA TurnsStayReserved ==
    ASSUME TurnsAreReserved, turn' = turn, lost' = lost,
           \A a \in MayAsk : mem.reservation[a] # None =>
               /\ mem'.reservation[a] # None
               /\ mem'.reservation[a].base = mem.reservation[a].base
               /\ mem'.reservation[a].content = mem.reservation[a].content
    PROVE  TurnsAreReserved'
BY DEF TurnsAreReserved, TurnIsReserved

\* Steps that touch neither the file nor the ledgers.
LEMMA UntouchedPlanned ==
    ASSUME Planned, UNCHANGED <<mem, disk, turn, lost>>
    PROVE  Planned'
BY DEF Planned, Routed, ContentIsKnown, TurnsAreReserved, TurnIsReserved

\* The steps of a call that leave the file and the ledgers alone.
QuietSteps ==
    \/ \E c \in Conversations, m \in Modes : EnsureProject(c, m)
    \/ \E a \in MayAsk, m \in Modes \cup {None}, content \in Content :
          StartedBefore(a[1], a[2], m, content) \/ Retry(a[1], a[2], m, content)
    \/ \E c \in Conversations : Register(c) \/ CallRefused(c) \/ CallFails(c)
    \/ \E t \in Requests : TurnEnds(t)
    \/ UNCHANGED vars

\* They keep the routes and the turns.
LEMMA QuietKeepsPlanned == Planned /\ QuietSteps => Planned'
<1> SUFFICES ASSUME Planned, QuietSteps
             PROVE  Planned'
  OBVIOUS
<1>1. UNCHANGED <<mem, disk, turn, lost>>
  BY DEF QuietSteps, EnsureProject, StartedBefore, Retry, Register, CallRefused, CallFails,
         TurnEnds, vars, backend
<1> QED
  BY <1>1, UntouchedPlanned

\* initialize once more writes the memory as it is.
LEMMA PutAgainKeepsPlanned ==
    ASSUME Durable, Planned, NEW c, NEW m, PutAgain(c, m)
    PROVE  Planned'
<1>1. mem' = mem /\ (disk' = mem \/ disk' = disk) /\ UNCHANGED <<turn, lost>>
  BY DEF PutAgain, Save, SaveThrows, backend
<1> QED
  BY <1>1, TurnsStayReserved DEF Planned, ContentIsKnown

\* A new binding comes with no reservation.
LEMMA PutInitializationKeepsPlanned ==
    ASSUME Durable, Planned, NEW c \in Conversations, PutInitialization(c)
    PROVE  Planned'
<1> DEFINE b == [mode |-> call[c].mode, task |-> None, lastJob |-> None]
           state == [mem EXCEPT !.session[c] = b]
<1>1. call[c].mode \in Modes /\ mem.session[c] = None /\ mem \in StateRecord
  BY BackendType DEF Durable, CallAgrees, PutInitialization
<1>2. state.reservation = mem.reservation /\ state.session = [mem.session EXCEPT ![c] = b]
  BY <1>1, NewSessionSound DEF Durable
<1>3. mem' = state /\ (disk' = state \/ disk' = disk) /\ UNCHANGED <<turn, lost>>
  BY DEF PutInitialization, Save, SaveThrows, backend
<1> HIDE DEF b, state
<1>4. Routed(state)
  BY <1>1, <1>2, NewSessionRouted DEF Planned
<1>5. TurnsAreReserved'
  BY <1>2, <1>3, TurnsStayReserved DEF Planned
<1> QED
  BY <1>2, <1>3, <1>4, <1>5 DEF Planned, ContentIsKnown

\* A reservation that is made has no turn yet, whichever write fails.
LEMMA ReserveStartKeepsPlanned ==
    ASSUME Durable, Planned, NEW a \in MayAsk, NEW m, NEW content \in Content,
           ReserveStart(a[1], a[2], m, content)
    PROVE  Planned'
<1> DEFINE c == a[1]
           r == [content |-> content, job |-> nextJob, base |-> mem.session[c].task,
                 state |-> "reserved"]
           state == [mem EXCEPT !.reservation[a] = r]
<1>1. a = <<c, a[2]>> /\ mem \in StateRecord
  BY AskType, BackendType
<1>2. mem.session[c] # None /\ mem.reservation[a] = None
  BY <1>1 DEF ReserveStart, Authorized, MayReserve
<1>3. mem' = state /\ (disk' = state \/ disk' = disk) /\ UNCHANGED <<turn, lost>>
  BY <1>1 DEF ReserveStart, Save, SaveThrows, backend
<1>4. state.session = mem.session /\ state.reservation = [mem.reservation EXCEPT ![a] = r]
  BY <1>1 DEF StateRecord
<1>5. r.base = mem.session[c].task /\ r.state = "reserved"
  OBVIOUS
<1>11. r.base # None => <<c, r.base>> \in MayAsk
  BY <1>1, <1>2, <1>5, AskType, TaskIsAsked DEF Durable, Planned
<1> HIDE DEF r, state
<1>6. Routed(state)
  BY <1>1, <1>2, <1>4, <1>5, <1>11, ReservedRouted DEF Planned
<1>7. \A x \in MayAsk : mem.reservation[x] # None => state.reservation[x] = mem.reservation[x]
  BY <1>1, <1>2, <1>4 DEF StateRecord
<1>8. TurnsAreReserved'
  BY <1>3, <1>7, TurnsStayReserved DEF Planned
<1>9. \A x \in MayAsk : disk.reservation[x] # None => mem.reservation[x] # None
  BY DEF Durable, WrittenIsKnown, SameReservation
<1>10. ContentIsKnown'
  BY <1>3, <1>7, <1>9 DEF Planned, ContentIsKnown
<1> QED
  BY <1>3, <1>6, <1>8, <1>10 DEF Planned

\* The turn that a call records is the one of its reservation.
LEMMA CallKeepsPlanned ==
    ASSUME Durable, Planned, NEW c \in Conversations, Call(c)
    PROVE  Planned'
<1> DEFINE a == <<c, call[c].request>>
           r == Reservation(c)
           run == RunOf(c)
<1>1. /\ a \in MayAsk /\ r = mem.reservation[a] /\ r # None /\ run = <<r.base, a[2]>>
      /\ a[2] = call[c].request
  BY DEF Durable, CallAgrees, Call, Reservation, RunOf
<1>2. UNCHANGED <<mem, disk, lost>>
  BY DEF Call
<1>3. turn' = turn \/ turn' = [turn EXCEPT ![run] = [by |-> c, content |-> r.content]]
  BY DEF Call
<1> HIDE DEF r, run, a
<1>4. TurnsAreReserved'
  <2> SUFFICES ASSUME NEW x \in Runs, turn'[x] # None
               PROVE  TurnIsReserved(x)'
    BY DEF TurnsAreReserved
  <2>1. CASE turn'[x] = turn[x]
    BY <1>2, <2>1 DEF Planned, TurnsAreReserved, TurnIsReserved
  <2>2. CASE turn'[x] # turn[x]
    <3>1. x = run /\ turn'[x] = [by |-> c, content |-> r.content]
      BY <1>3, <2>2, BackendType
    <3>2. <<turn'[x].by, x[2]>> = a
      BY <1>1, <3>1 DEF a
    <3>3. turn'[x].content = r.content /\ x[1] = r.base /\ turn'[x].by = c
      BY <1>1, <3>1
    <3>4. r.base # None => <<c, r.base>> \in MayAsk
      BY <1>1 DEF Planned, Routed, a
    <3> QED
      BY <1>1, <1>2, <3>2, <3>3, <3>4 DEF TurnIsReserved
  <2> QED
    BY <2>1, <2>2
<1> QED
  BY <1>2, <1>4 DEF Planned, Routed, ContentIsKnown

\* The end of a start changes neither the base nor the content of a reservation.
LEMMA AttachContent ==
    ASSUME Durable, NEW c \in Conversations, call[c].pc = "attach"
    PROVE  /\ Rebound(c).reservation = mem.reservation
           /\ \A x \in MayAsk : mem.reservation[x] # None =>
                 /\ Attached(c).reservation[x] # None
                 /\ Attached(c).reservation[x].base = mem.reservation[x].base
                 /\ Attached(c).reservation[x].content = mem.reservation[x].content
<1> DEFINE a == <<c, call[c].request>>
           r == Reservation(c)
           ra == [r EXCEPT !.state = "attached"]
<1>1. /\ a \in MayAsk /\ r = mem.reservation[a] /\ r \in ReservationRecord
      /\ Attached(c).reservation = [mem.reservation EXCEPT ![a] = ra]
      /\ Rebound(c).reservation = mem.reservation
  BY AttachFiles
<1>2. ra \in ReservationRecord /\ ra.base = r.base /\ ra.content = r.content
  BY <1>1 DEF ReservationRecord
<1> HIDE DEF ra
<1>3. \A x \in MayAsk : Attached(c).reservation[x] = IF x = a THEN ra ELSE mem.reservation[x]
  BY <1>1, BackendType DEF StateRecord
<1> QED
  BY <1>1, <1>2, <1>3, NoneAssumption

\* The end of a start, with none, the first or the second write failing.
LEMMA AttachStartKeepsPlanned ==
    ASSUME Durable, Planned, NEW c \in Conversations, AttachStart(c)
    PROVE  Planned'
<1>1. call[c].pc = "attach" /\ UNCHANGED <<turn, lost>>
  BY DEF AttachStart, backend
<1>2. \/ mem' = Attached(c) /\ disk' \in {Attached(c), Rebound(c)}
      \/ mem' = Rebound(c) /\ disk' = disk
  BY DEF AttachStart, Save, SaveThrows
<1>3. Routed(Rebound(c)) /\ Routed(Attached(c))
  BY <1>1, ReboundRouted, AttachedRouted DEF Planned
<1>4. /\ Rebound(c).reservation = mem.reservation
      /\ \A x \in MayAsk : mem.reservation[x] # None =>
            /\ Attached(c).reservation[x] # None
            /\ Attached(c).reservation[x].base = mem.reservation[x].base
            /\ Attached(c).reservation[x].content = mem.reservation[x].content
  BY <1>1, AttachContent
<1>5. TurnsAreReserved'
  BY <1>1, <1>2, <1>4, TurnsStayReserved DEF Planned
<1>6. ContentIsKnown'
  BY <1>2, <1>4 DEF Planned, ContentIsKnown
<1> QED
  BY <1>2, <1>3, <1>5, <1>6 DEF Planned

\* A restart drops no reservation of a conversation that is not lost by it.
LEMMA RestartKeepsPlanned ==
    ASSUME Durable, Planned, NEW file, RestartWith(file), Routed(file),
           \A a \in MayAsk : file.reservation[a] # None =>
               /\ mem.reservation[a] # None
               /\ file.reservation[a].base = mem.reservation[a].base
               /\ file.reservation[a].content = mem.reservation[a].content
    PROVE  Planned'
<1>1. /\ mem' = file /\ disk' = file /\ turn' = turn /\ lost \subseteq lost'
      /\ \A a \in MayAsk : mem.reservation[a] # None /\ file.reservation[a] = None => a[1] \in lost'
  BY DEF RestartWith
<1>2. TurnsAreReserved'
  <2> SUFFICES ASSUME NEW r \in Runs, turn[r] # None
               PROVE  TurnIsReserved(r)'
    BY <1>1 DEF TurnsAreReserved
  <2> DEFINE a == <<turn[r].by, r[2]>>
  <2>1. a \in MayAsk /\ a[1] = turn[r].by
    BY DEF Planned, TurnsAreReserved, TurnIsReserved
  <2>2. ASSUME turn[r].by \notin lost'
        PROVE  /\ file.reservation[a] # None
               /\ file.reservation[a].base = r[1]
               /\ file.reservation[a].content = turn[r].content
    <3>1. /\ mem.reservation[a] # None /\ mem.reservation[a].base = r[1]
          /\ mem.reservation[a].content = turn[r].content
      BY <1>1, <2>2 DEF Planned, TurnsAreReserved, TurnIsReserved
    <3> QED
      BY <1>1, <2>1, <2>2, <3>1
  <2>3. r[1] # None => <<turn[r].by, r[1]>> \in MayAsk
    BY DEF Planned, TurnsAreReserved, TurnIsReserved
  <2> HIDE DEF a
  <2>4. turn' = turn /\ mem'.reservation = file.reservation
    BY <1>1
  <2> QED
    BY <2>1, <2>2, <2>3, <2>4 DEF TurnIsReserved, a
<1> QED
  BY <1>1, <1>2 DEF Planned, ContentIsKnown

\* The process ends at any point, also between the two writes of a start.
LEMMA CrashKeepsPlanned ==
    ASSUME Durable, Planned, Crash \/ \E c \in Conversations : CrashBetweenWrites(c)
    PROVE  Planned'
<1>1. CASE Crash
  <2>1. \A a \in MayAsk : disk.reservation[a] # None =>
           /\ mem.reservation[a] # None
           /\ disk.reservation[a].base = mem.reservation[a].base
           /\ disk.reservation[a].content = mem.reservation[a].content
    BY DEF Durable, Planned, WrittenIsKnown, SameReservation, ContentIsKnown
  <2> QED
    BY <1>1, <2>1, RestartKeepsPlanned DEF Crash, Planned
<1>2. ASSUME NEW c \in Conversations, CrashBetweenWrites(c)
      PROVE  Planned'
  <2>1. call[c].pc = "attach" /\ RestartWith(Rebound(c))
    BY <1>2 DEF CrashBetweenWrites
  <2>2. Routed(Rebound(c)) /\ Rebound(c).reservation = mem.reservation
    BY <2>1, ReboundRouted, AttachContent DEF Planned
  <2> QED
    BY <2>1, <2>2, RestartKeepsPlanned
<1> QED
  BY <1>1, <1>2

\* Every step is one of these.
LEMMA StepCases ==
    ASSUME [Next]_vars
    PROVE  \/ QuietSteps
           \/ \E c \in Conversations, m \in Modes : PutAgain(c, m)
           \/ \E c \in Conversations : PutInitialization(c) \/ Call(c) \/ AttachStart(c)
           \/ \E a \in MayAsk, m \in Modes \cup {None}, content \in Content :
                 ReserveStart(a[1], a[2], m, content)
           \/ Crash \/ \E c \in Conversations : CrashBetweenWrites(c)
BY Zenon DEF Next, Steps, QuietSteps

\* Every step keeps the invariant.
LEMMA NextKeepsPlanned == Durable /\ Planned /\ [Next]_vars => Planned'
BY StepCases, QuietKeepsPlanned, PutAgainKeepsPlanned, PutInitializationKeepsPlanned,
   CallKeepsPlanned, AttachStartKeepsPlanned, ReserveStartKeepsPlanned, CrashKeepsPlanned

-----------------------------------------------------------------------------
(* The steps keep what jobs, calls and answers name *)

\* Nothing recorded is forgotten: turns stay, and no conversation stops being lost.
Kept == (\A r \in Runs : turn[r] # None => turn'[r] = turn[r]) /\ lost \subseteq lost'

\* Ran, after the step.
RanThen(c, run, content) ==
    c \notin lost' /\ Alone(c, run) => turn'[run] = [by |-> c, content |-> content]

\* What was recorded stays recorded.
LEMMA RanStays ==
    ASSUME Kept, NEW c \in Conversations, NEW run \in Runs, NEW content \in Content,
           Ran(c, run, content)
    PROVE  RanThen(c, run, content)
<1>1. [by |-> c, content |-> content] # None
  BY NoneAssumption
<1> QED
  BY <1>1 DEF Ran, RanThen, Kept

\* The job of a well-formed file whose run was recorded.
LEMMA JobsRanStay ==
    ASSUME Kept, NEW s, s \in StateRecord, JobsRan(s), NEW a \in MayAsk, s.job[a] # None
    PROVE  RanThen(a[1], s.job[a].run, s.job[a].content)
<1>1. s.job[a] \in JobRecord
  BY DEF StateRecord
<1>2. s.job[a].run \in Runs /\ s.job[a].content \in Content
  BY <1>1 DEF JobRecord
<1>3. Ran(a[1], s.job[a].run, s.job[a].content)
  BY DEF JobsRan
<1> QED
  BY <1>2, <1>3, AskType, RanStays

\* A file whose jobs are those of the memory or of the file there was.
LEMMA FilesStayRan ==
    ASSUME Durable, Executed, Kept, mem'.job = mem.job \/ mem'.job = disk.job,
           disk'.job = mem.job \/ disk'.job = disk.job
    PROVE  JobsRan(mem)' /\ JobsRan(disk)'
<1>1. /\ \A a \in MayAsk : mem.job[a] # None =>
            RanThen(a[1], mem.job[a].run, mem.job[a].content)
      /\ \A a \in MayAsk : disk.job[a] # None =>
            RanThen(a[1], disk.job[a].run, disk.job[a].content)
  BY JobsRanStay, BackendType DEF Executed
<1> QED
  BY <1>1 DEF JobsRan, Ran, RanThen

\* Answers stay right.
LEMMA AnswersStay ==
    ASSUME Durable, JobRunsTheInstruction, Kept, NEW t \in answers, t.ask[1] \notin lost',
           Alone(t.ask[1], t.run)
    PROVE  turn'[t.run] = [by |-> t.ask[1], content |-> t.content]
<1>1. t.ask \in MayAsk /\ t.content \in Content /\ t.run \in Runs
  BY DEF Durable, TypeOK
<1>2. t.ask[1] \in Conversations /\ t.ask[1] \notin lost
  BY <1>1, AskType DEF Kept
<1>3. turn[t.run] = [by |-> t.ask[1], content |-> t.content]
  BY <1>2 DEF JobRunsTheInstruction
<1>4. turn[t.run] # None
  BY <1>1, <1>2, <1>3, NoneAssumption
<1> QED
  BY <1>1, <1>3, <1>4 DEF Kept

\* A call that still waits to attach, with a reservation that kept its content.
LEMMA CallStays ==
    ASSUME Durable, CallsRan, Kept, NEW c \in Conversations, call[c].pc = "attach"
    PROVE  RanThen(c, call[c].run, Reservation(c).content)
<1>1. call[c].run \in Runs /\ Reservation(c) \in ReservationRecord
  BY AttachFiles
<1>2. Reservation(c).content \in Content
  BY <1>1 DEF ReservationRecord
<1>3. Ran(c, call[c].run, Reservation(c).content)
  BY DEF CallsRan
<1> QED
  BY <1>1, <1>2, <1>3, RanStays

\* Calls that wait to attach stay right in steps that keep them and their reservations.
LEMMA CallsStay ==
    ASSUME Durable, CallsRan, Kept,
           \A c \in Conversations : call'[c].pc = "attach" =>
               /\ call'[c] = call[c]
               /\ mem'.reservation[<<c, call[c].request>>] = mem.reservation[<<c, call[c].request>>]
    PROVE  CallsRan'
<1> SUFFICES ASSUME NEW c \in Conversations, call'[c].pc = "attach"
             PROVE  RanThen(c, call'[c].run, mem'.reservation[<<c, call'[c].request>>].content)
  BY DEF CallsRan, Ran, RanThen, Reservation
<1>1. RanThen(c, call[c].run, Reservation(c).content)
  BY CallStays
<1> QED
  BY <1>1 DEF Reservation

-----------------------------------------------------------------------------
(* The steps, one by one *)

\* The steps that leave files and ledgers alone; an answered request has a recorded job.
LEMMA QuietKeepsExecuted == Durable /\ Executed /\ QuietSteps => Executed'
<1> SUFFICES ASSUME Durable, Executed, QuietSteps
             PROVE  Executed'
  OBVIOUS
<1>1. UNCHANGED <<mem, disk, turn, lost>>
  BY DEF QuietSteps, EnsureProject, StartedBefore, Retry, Register, CallRefused, CallFails,
         TurnEnds, vars, backend
<1>2. Kept
  BY <1>1 DEF Kept
<1>3. JobsRan(mem)' /\ JobsRan(disk)'
  BY <1>1, <1>2, FilesStayRan
<1>4. \A d \in Conversations : call'[d].pc = "attach" => call'[d] = call[d]
  <2> SUFFICES ASSUME NEW d \in Conversations, call'[d].pc = "attach"
               PROVE  call'[d] = call[d]
    OBVIOUS
  <2> USE BackendType
  <2>1. ASSUME NEW c \in Conversations, NEW m \in Modes, EnsureProject(c, m)
        PROVE  call'[d] = call[d]
    BY <2>1 DEF EnsureProject, Idle
  <2>2. ASSUME NEW a \in MayAsk, NEW m, NEW content,
               StartedBefore(a[1], a[2], m, content) \/ Retry(a[1], a[2], m, content)
        PROVE  call'[d] = call[d]
    BY <2>2, AskType DEF StartedBefore, Retry, Idle
  <2>3. ASSUME NEW c \in Conversations, Register(c)
        PROVE  call'[d] = call[d]
    BY <2>3 DEF Register, Goto, CallRecord
  <2>4. ASSUME NEW c \in Conversations, CallRefused(c) \/ CallFails(c)
        PROVE  call'[d] = call[d]
    BY <2>4 DEF CallRefused, CallFails, Leave, Idle
  <2> QED
    BY <2>1, <2>2, <2>3, <2>4 DEF QuietSteps, TurnEnds, vars
<1>5. CallsRan'
  BY <1>1, <1>2, <1>4, CallsStay DEF Executed
<1>6. JobRunsTheInstruction'
  <2>1. ASSUME NEW a \in MayAsk, NEW m, NEW content, StartedBefore(a[1], a[2], m, content)
        PROVE  JobRunsTheInstruction'
    <3> DEFINE t0 == [ask |-> a, content |-> content, job |-> mem.job[a].id, run |-> mem.job[a].run]
    <3>1. mem.job[a] # None /\ mem.job[a].content = content /\ answers' = answers \cup {t0}
      BY <2>1, AskType DEF StartedBefore, Told
    <3>2. a[1] \notin lost /\ Alone(a[1], mem.job[a].run) =>
             turn[mem.job[a].run] = [by |-> a[1], content |-> content]
      BY <3>1 DEF Executed, JobsRan, Ran
    <3>3. t0.ask = a /\ t0.run = mem.job[a].run /\ t0.content = content
      OBVIOUS
    <3> HIDE DEF t0
    <3> QED
      BY <1>1, <3>1, <3>2, <3>3 DEF Executed, JobRunsTheInstruction
  <2>2. CASE answers' = answers
    BY <1>1, <2>2 DEF Executed, JobRunsTheInstruction
  <2> QED
    BY <2>1, <2>2
       DEF QuietSteps, EnsureProject, Retry, Register, CallRefused, CallFails, TurnEnds, vars
<1> QED
  BY <1>3, <1>5, <1>6 DEF Executed

\* The file and the binding of initialize, and the reservation of start, add no job.
LEMMA WritesKeepExecuted ==
    ASSUME Durable, Executed,
           \/ \E c \in Conversations, m \in Modes : PutAgain(c, m)
           \/ \E c \in Conversations : PutInitialization(c)
           \/ \E a \in MayAsk, m \in Modes \cup {None}, content \in Content :
                 ReserveStart(a[1], a[2], m, content)
    PROVE  Executed'
<1>1. UNCHANGED <<turn, lost, answers>> /\ (disk' = mem' \/ disk' = disk)
  BY DEF PutAgain, PutInitialization, ReserveStart, Save, SaveThrows, backend
<1>2. Kept
  BY <1>1 DEF Kept
<1>3. mem'.job = mem.job
  BY BackendType
     DEF PutAgain, PutInitialization, ReserveStart, Save, SaveThrows, StateRecord
<1>4. JobsRan(mem)' /\ JobsRan(disk)'
  BY <1>1, <1>2, <1>3, FilesStayRan
<1>5. \A d \in Conversations : call'[d].pc = "attach" =>
         /\ call'[d] = call[d]
         /\ mem'.reservation[<<d, call[d].request>>] = mem.reservation[<<d, call[d].request>>]
  <2> SUFFICES ASSUME NEW d \in Conversations, call'[d].pc = "attach"
               PROVE  /\ call'[d] = call[d]
                      /\ mem'.reservation[<<d, call[d].request>>] =
                            mem.reservation[<<d, call[d].request>>]
    OBVIOUS
  <2>1. ASSUME NEW c \in Conversations, NEW m \in Modes, PutAgain(c, m)
        PROVE  call' = call /\ mem' = mem
    BY <2>1 DEF PutAgain, Save, SaveThrows
  <2>2. ASSUME NEW c \in Conversations, PutInitialization(c)
        PROVE  call'[d] = call[d] /\ mem'.reservation = mem.reservation
    BY <2>2, BackendType DEF PutInitialization, Save, SaveThrows, Leave, Idle, StateRecord
  <2>3. ASSUME NEW a \in MayAsk, NEW m \in Modes \cup {None}, NEW content \in Content,
               ReserveStart(a[1], a[2], m, content)
        PROVE  /\ call'[d] = call[d]
               /\ mem'.reservation[<<d, call[d].request>>] =
                     mem.reservation[<<d, call[d].request>>]
    <3> DEFINE k == [Idle EXCEPT !.pc = "call", !.request = a[2]]
    <3>1. a[1] \in Conversations /\ call[a[1]].pc = "idle" /\ k.pc = "call"
      BY <2>3, AskType DEF ReserveStart, Authorized, Idle
    <3>2. call' = call \/ call' = [call EXCEPT ![a[1]] = k]
      BY <2>3 DEF ReserveStart
    <3> HIDE DEF k
    <3>3. call'[d] = call[d] /\ d # a[1]
      BY <3>1, <3>2, BackendType
    <3>4. <<d, call[d].request>> \in MayAsk /\ <<d, call[d].request>> # a
      BY <3>3 DEF Durable, CallAgrees
    <3>5. \E r : mem' = [mem EXCEPT !.reservation[a] = r]
      BY <2>3, AskType DEF ReserveStart, Save, SaveThrows
    <3>6. \E r : mem'.reservation = [mem.reservation EXCEPT ![a] = r]
      BY <3>5, BackendType DEF StateRecord
    <3> QED
      BY <3>3, <3>4, <3>6, BackendType DEF StateRecord
  <2> QED
    BY <2>1, <2>2, <2>3
<1>6. CallsRan'
  BY <1>2, <1>5, CallsStay DEF Executed
<1>7. JobRunsTheInstruction'
  BY <1>1 DEF Executed, JobRunsTheInstruction
<1> QED
  BY <1>4, <1>6, <1>7 DEF Executed

\* The ledger has the call's own instruction: what startTask or followup returns is the
\* turn it records, or the one it has recorded for the same reservation.
LEMMA CallKeepsExecuted ==
    ASSUME Durable, Planned, Executed, NEW c \in Conversations, Call(c)
    PROVE  Executed'
<1> DEFINE a == <<c, call[c].request>>
           r == Reservation(c)
           run == RunOf(c)
           k == [call[c] EXCEPT !.pc = "attach", !.run = run]
<1>1. /\ a \in MayAsk /\ r = mem.reservation[a] /\ r # None /\ run = <<r.base, a[2]>>
      /\ call[c].request \in Requests
  BY AskType DEF Durable, CallAgrees, Call, Reservation, RunOf
<1>2. /\ r \in ReservationRecord /\ r.content \in Content /\ run \in Runs
  BY <1>1, BackendType DEF StateRecord, ReservationRecord, Runs
<1>3. UNCHANGED <<mem, disk, lost, answers>> /\ call' = [call EXCEPT ![c] = k]
  BY DEF Call
<1>4. \/ turn[run] # None /\ turn' = turn
      \/ turn[run] = None /\ turn' = [turn EXCEPT ![run] = [by |-> c, content |-> r.content]]
  BY DEF Call
<1>5. k.run = run /\ k.request = call[c].request
  BY BackendType DEF CallRecord
<1> HIDE DEF r, run, k
<1>6. Kept
  BY <1>3, <1>4, BackendType DEF Kept
<1>7. RanThen(c, run, r.content)
  <2>1. CASE turn[run] = None
    BY <1>2, <1>4, <2>1, BackendType DEF RanThen
  <2>2. CASE turn[run] # None
    <3>1. TurnIsReserved(run)
      BY <1>2, <2>2 DEF Planned, TurnsAreReserved
    <3>2. {<<turn[run].by, TaskOf(run)>>, <<turn[run].by, run[2]>>} \subseteq MayAsk
      BY <3>1 DEF TurnIsReserved, TaskOf
    <3>3. turn[run] \in [by : Conversations, content : Content]
      BY <1>2, <2>2, BackendType
    <3>4. Alone(c, run) => turn[run].by = c
      BY <3>2, <3>3 DEF Alone
    <3>5. Alone(c, run) /\ c \notin lost => turn[run].content = r.content
      BY <1>1, <3>1, <3>4 DEF TurnIsReserved
    <3> QED
      BY <1>3, <1>4, <2>2, <3>3, <3>4, <3>5 DEF RanThen
  <2> QED
    BY <2>1, <2>2
<1>8. JobsRan(mem)' /\ JobsRan(disk)'
  BY <1>3, <1>6, FilesStayRan
<1>9. CallsRan'
  <2> SUFFICES ASSUME NEW d \in Conversations, call'[d].pc = "attach"
               PROVE  RanThen(d, call'[d].run, mem.reservation[<<d, call'[d].request>>].content)
    BY <1>3 DEF CallsRan, Ran, RanThen, Reservation
  <2>1. CASE d = c
    BY <1>1, <1>3, <1>5, <1>7, <2>1, BackendType
  <2>2. CASE d # c
    <3>1. call'[d] = call[d]
      BY <1>3, <2>2, BackendType
    <3>2. RanThen(d, call[d].run, Reservation(d).content)
      BY <1>6, <3>1, CallStays DEF Executed
    <3> QED
      BY <3>1, <3>2 DEF Reservation
  <2> QED
    BY <2>1, <2>2
<1>10. JobRunsTheInstruction'
  BY <1>3, <1>6, AnswersStay DEF Executed, JobRunsTheInstruction
<1> QED
  BY <1>8, <1>9, <1>10 DEF Executed

\* The job that is attached, and the answer, name the run that the call was given.
LEMMA AttachStartKeepsExecuted ==
    ASSUME Durable, Executed, NEW c \in Conversations, AttachStart(c)
    PROVE  Executed'
<1> DEFINE a == <<c, call[c].request>>
           r == Reservation(c)
           run == call[c].run
           ra == [r EXCEPT !.state = "attached"]
           j == [id |-> r.job, content |-> r.content, run |-> run]
           t0 == [ask |-> a, content |-> r.content, job |-> r.job, run |-> run]
<1>1. call[c].pc = "attach" /\ UNCHANGED <<turn, lost>>
  BY DEF AttachStart, backend
<1>2. /\ a \in MayAsk /\ a[1] = c
      /\ Rebound(c).reservation = mem.reservation /\ Rebound(c).job = mem.job
      /\ Attached(c).reservation = [mem.reservation EXCEPT ![a] = ra]
      /\ Attached(c).job = [mem.job EXCEPT ![a] = j]
  BY <1>1, AttachFiles
<1>3. /\ j.run = run /\ j.content = r.content /\ j.id = r.job
      /\ t0.ask = a /\ t0.run = run /\ t0.content = r.content
  OBVIOUS
<1>4. Ran(c, run, r.content)
  BY <1>1 DEF Executed, CallsRan
<1> HIDE DEF j, ra, r, run
<1>5. /\ \A x \in MayAsk : Attached(c).job[x] = IF x = a THEN j ELSE mem.job[x]
      /\ \A x \in MayAsk : x # a => Attached(c).reservation[x] = mem.reservation[x]
  BY <1>2, BackendType DEF StateRecord
<1>6. call' = [call EXCEPT ![c] = Idle]
  BY DEF AttachStart, Leave
<1>7. /\ mem' \in {Attached(c), Rebound(c)}
      /\ disk' \in {Attached(c), Rebound(c), disk}
      /\ answers' = answers \/ answers' = answers \cup {t0}
  BY <1>2, <1>3, <1>5 DEF AttachStart, Save, SaveThrows, Told, r, run
<1> HIDE DEF t0
<1>8. JobsRan(Attached(c)) /\ JobsRan(Rebound(c))
  BY <1>2, <1>3, <1>4, <1>5 DEF Executed, JobsRan
<1>9. JobsRan(mem)' /\ JobsRan(disk)'
  BY <1>1, <1>7, <1>8 DEF Executed, JobsRan, Ran
<1>10. CallsRan'
  <2>1. Kept
    BY <1>1 DEF Kept
  <2>2. ASSUME NEW d \in Conversations, call'[d].pc = "attach"
        PROVE  /\ call'[d] = call[d]
               /\ mem'.reservation[<<d, call[d].request>>] = mem.reservation[<<d, call[d].request>>]
    <3>1. d # c /\ call'[d] = call[d]
      BY <1>6, <2>2, BackendType DEF Idle
    <3>2. <<d, call[d].request>> \in MayAsk /\ <<d, call[d].request>> # a
      BY <2>2, <3>1 DEF Durable, CallAgrees
    <3> QED
      BY <1>2, <1>5, <1>7, <3>1, <3>2
  <2> QED
    BY <2>1, <2>2, CallsStay DEF Executed
<1>11. JobRunsTheInstruction'
  BY <1>1, <1>2, <1>3, <1>4, <1>7 DEF Executed, JobRunsTheInstruction, Ran
<1> QED
  BY <1>9, <1>10, <1>11 DEF Executed

\* A restart goes on with one of the two files, and with no calls.
LEMMA CrashKeepsExecuted ==
    ASSUME Durable, Executed, Crash \/ \E c \in Conversations : CrashBetweenWrites(c)
    PROVE  Executed'
<1>1. PICK file : RestartWith(file) /\ (file.job = mem.job \/ file.job = disk.job)
  BY AttachFiles DEF Crash, CrashBetweenWrites
<1>2. /\ mem' = file /\ disk' = file /\ UNCHANGED <<turn, answers>> /\ lost \subseteq lost'
      /\ call' = [c \in Conversations |-> Idle]
  BY <1>1 DEF RestartWith
<1>3. Kept
  BY <1>2 DEF Kept
<1>4. JobsRan(mem)' /\ JobsRan(disk)'
  BY <1>1, <1>2, <1>3, FilesStayRan
<1>5. CallsRan'
  BY <1>2 DEF CallsRan, Idle
<1>6. JobRunsTheInstruction'
  BY <1>2, <1>3, AnswersStay DEF Executed, JobRunsTheInstruction
<1> QED
  BY <1>4, <1>5, <1>6 DEF Executed

\* Every step keeps the invariant.
LEMMA NextKeepsExecuted ==
    Durable /\ Planned /\ Executed /\ [Next]_vars => Executed'
BY StepCases, QuietKeepsExecuted, WritesKeepExecuted, CallKeepsExecuted,
   AttachStartKeepsExecuted, CrashKeepsExecuted

-----------------------------------------------------------------------------
(* The theorems *)

\* The service starts with no file, no turn and no answer.
LEMMA InitPlanned == Init => Planned /\ Executed
BY DEF Init, EmptyState, Idle, Planned, Executed, Routed, ContentIsKnown, TurnsAreReserved,
       JobsRan, CallsRan, JobRunsTheInstruction

\* Every turn was recorded for the reservation of its request, unless that was lost before
\* it was written.
LEMMA TurnsArePlanned == Spec => [](Durable /\ Planned)
<1>1. Init => Durable /\ Planned
  BY InitDurable, InitPlanned
<1>2. Durable /\ Planned /\ [Next]_vars => (Durable /\ Planned)'
  BY NextKeeps, NextKeepsPlanned
<1> QED
  BY <1>1, <1>2, PTL DEF Spec

\* The one turn that a request can have.
LEMMA PlannedTurn ==
    ASSUME Planned, NEW a \in MayAsk, a[1] \notin lost, NEW r \in TurnsFor(a)
    PROVE  mem.reservation[a] # None /\ r = <<mem.reservation[a].base, a[2]>>
<1>1. r \in Runs /\ turn[r] # None /\ turn[r].by = a[1] /\ r[2] = a[2]
  BY DEF TurnsFor
<1>2. TurnIsReserved(r) /\ <<turn[r].by, r[2]>> = a
  BY <1>1, AskType DEF Planned, TurnsAreReserved
<1>3. mem.reservation[a] # None /\ mem.reservation[a].base = r[1]
  BY <1>1, <1>2 DEF TurnIsReserved
<1> QED
  BY <1>1, <1>3 DEF Runs

\* However often a start is retried, after whatever fails, its request has one turn
\* (reserveStart keeps the route of a request, bridge-state.ts; the ledgers keep its turn).
THEOREM RequestsRunOnce == Spec => []OneTurnPerRequest
<1>1. Durable /\ Planned => OneTurnPerRequest
  <2> SUFFICES ASSUME Planned, NEW a \in MayAsk, a[1] \notin lost
               PROVE  Cardinality(TurnsFor(a)) <= 1
    BY DEF OneTurnPerRequest
  <2> DEFINE one == <<mem.reservation[a].base, a[2]>>
  <2>1. \A r \in TurnsFor(a) : r = one
    BY PlannedTurn
  <2> HIDE DEF one
  <2>2. TurnsFor(a) = {} \/ TurnsFor(a) = {one}
    BY <2>1
  <2>3. Cardinality(TurnsFor(a)) \in {0, 1}
    BY <2>2, FS_EmptySet, FS_Singleton, Zenon
  <2> QED
    BY <2>3
<1> QED
  BY <1>1, TurnsArePlanned, PTL

\* What jobs, calls and answers name was recorded, unless another conversation can come to it.
LEMMA JobsAreExecuted == Spec => [](Durable /\ Planned /\ Executed)
<1>1. Init => Durable /\ Planned /\ Executed
  BY InitDurable, InitPlanned
<1>2. Durable /\ Planned /\ Executed /\ [Next]_vars => (Durable /\ Planned /\ Executed)'
  BY NextKeeps, NextKeepsPlanned, NextKeepsExecuted
<1> QED
  BY <1>1, <1>2, PTL DEF Spec

\* A caller of start is answered with the run of its own instruction and settings, unless
\* another conversation uses ids that lead to the same run (the fingerprint,
\* compatibility-service.ts:236).
THEOREM JobsRunTheirInstruction == Spec => []JobRunsTheInstruction
<1>1. Executed => JobRunsTheInstruction
  BY DEF Executed
<1> QED
  BY <1>1, JobsAreExecuted, PTL

\* The task of a binding is the task of all turns of its conversation, and one of them is the
\* run of its last job if no other conversation uses the id of the task.
LEMMA BoundTask ==
    ASSUME Durable, Planned, Executed, NEW c \in Conversations, c \notin lost,
           mem.session[c] # None, mem.session[c].task # None
    PROVE  /\ TasksOf(c) \subseteq {mem.session[c].task}
           /\ Alone(c, <<None, mem.session[c].task>>) => TasksOf(c) # {}
<1> DEFINE t == mem.session[c].task
<1>1. TasksOf(c) \subseteq {t}
  <2> SUFFICES ASSUME NEW a \in Of(c), NEW r \in TurnsFor(a)
               PROVE  TaskOf(r) = t
    BY DEF TasksOf
  <2>1. a \in MayAsk /\ a[1] = c
    BY DEF Of
  <2>2. r = <<mem.reservation[a].base, a[2]>> /\ mem.reservation[a] # None
    BY <2>1, PlannedTurn
  <2>3. mem.reservation[a].state \in {"reserved", "attached"}
    BY <2>1, <2>2, BackendType DEF StateRecord, ReservationRecord
  <2> QED
    BY <2>1, <2>2, <2>3 DEF Planned, Routed, TaskOf
<1>2. ASSUME Alone(c, <<None, t>>) PROVE t \in TasksOf(c)
  <2>1. PICK a \in Of(c) : mem.job[a] # None /\ TaskOf(mem.job[a].run) = t
    BY DEF Durable, Sound, Consistent
  <2>2. a \in MayAsk /\ a[1] = c
    BY DEF Of
  <2>3. mem.job[a].run \in Runs /\ mem.job[a].content \in Content
    BY <2>1, <2>2, BackendType DEF StateRecord, JobRecord
  <2>8. Alone(c, mem.job[a].run)
    BY <1>2, <2>1 DEF Alone, TaskOf
  <2>4. turn[mem.job[a].run] = [by |-> c, content |-> mem.job[a].content]
    BY <2>1, <2>2, <2>8 DEF Executed, JobsRan, Ran
  <2>5. turn[mem.job[a].run] # None /\ turn[mem.job[a].run].by = c
    BY <2>3, <2>4, NoneAssumption
  <2>6. mem.job[a].run[2] = a[2]
    BY <2>1, <2>2 DEF Durable, Sound, RunsAgree
  <2>7. mem.job[a].run \in TurnsFor(a)
    BY <2>2, <2>3, <2>5, <2>6 DEF TurnsFor
  <2> QED
    BY <2>1, <2>7 DEF TasksOf
<1> QED
  BY <1>1, <1>2

\* A conversation whose binding has no task yet has turns for one request at most.
LEMMA FirstTask ==
    ASSUME Durable, Planned, NEW c \in Conversations, c \notin lost,
           mem.session[c] = None \/ mem.session[c].task = None,
           NEW a \in Of(c), NEW r \in TurnsFor(a), NEW b \in Of(c), NEW q \in TurnsFor(b)
    PROVE  r = q
<1>1. ASSUME NEW x \in Of(c), NEW v \in TurnsFor(x)
      PROVE  x \in Pending(mem, c) /\ v = <<mem.reservation[x].base, x[2]>>
  <2>1. x \in MayAsk /\ x[1] = c
    BY DEF Of
  <2>2. v = <<mem.reservation[x].base, x[2]>> /\ mem.reservation[x] # None
    BY <2>1, PlannedTurn
  <2>3. mem.session[c].task = None
    BY <2>1, <2>2 DEF Planned, Routed
  <2>4. /\ mem.reservation[x].state \in {"reserved", "attached"}
        /\ mem.reservation[x].base \in Requests \cup {None} /\ x[2] \in Requests
    BY <2>1, <2>2, AskType, BackendType DEF StateRecord, ReservationRecord
  <2>5. TaskOf(<<mem.reservation[x].base, x[2]>>) # None
    BY <2>4, NoneAssumption DEF TaskOf
  <2>6. mem.reservation[x].state # "attached"
    BY <2>1, <2>2, <2>3, <2>5 DEF Planned, Routed
  <2> QED
    BY <2>2, <2>4, <2>6 DEF Pending
<1>2. a \in Pending(mem, c) /\ b \in Pending(mem, c)
  BY <1>1
<1>3. a = b
  BY <1>2 DEF Durable, Sound, Consistent
<1> QED
  BY <1>1, <1>3

\* All turns of a conversation are in one task, the one its binding names once it has one:
\* a start that fails half way leaves no task behind (updateBinding and attachStart,
\* bridge-state.ts).
THEOREM ConversationsKeepTheirTask == Spec => []OneTaskPerConversation
<1>1. Durable /\ Planned /\ Executed => OneTaskPerConversation
  <2> SUFFICES ASSUME Durable, Planned, Executed, NEW c \in Conversations \ lost
               PROVE  /\ Cardinality(TasksOf(c)) <= 1
                      /\ mem.session[c] # None /\ mem.session[c].task # None =>
                            /\ TasksOf(c) \subseteq {mem.session[c].task}
                            /\ Alone(c, <<None, mem.session[c].task>>) => TasksOf(c) # {}
    BY DEF OneTaskPerConversation
  <2>1. \A x, y \in TasksOf(c) : x = y
    <3>1. CASE mem.session[c] # None /\ mem.session[c].task # None
      BY <3>1, BoundTask
    <3>2. CASE mem.session[c] = None \/ mem.session[c].task = None
      BY <3>2, FirstTask DEF TasksOf
    <3> QED
      BY <3>1, <3>2
  <2>2. TasksOf(c) = {} \/ \E x : TasksOf(c) = {x}
    BY <2>1
  <2>3. Cardinality(TasksOf(c)) \in {0, 1}
    BY <2>2, FS_EmptySet, FS_Singleton, Zenon
  <2> QED
    BY <2>3, BoundTask
<1> QED
  BY <1>1, JobsAreExecuted, PTL
=============================================================================
