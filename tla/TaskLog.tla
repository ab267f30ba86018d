------------------------------ MODULE TaskLog ------------------------------
(***************************************************************************)
(* What the durable store promises about one task, without files.          *)
(*                                                                         *)
(* A task is the list of the transitions committed to it.  A caller        *)
(* submits one transition; the store commits it in one step, at the end of *)
(* the list, at most once, and never takes it back.  An answer "ok" means  *)
(* that it was committed.  An error means either "not committed" or        *)
(* "committed, but the host could not finish": the caller cannot tell.     *)
(* A crash forgets the calls in progress and nothing else; a restart may   *)
(* add the transition that parks an unfinished task.                       *)
(***************************************************************************)
EXTENDS Naturals, Sequences

CONSTANTS
    Clients,    \* the concurrent callers inside the host
    Changes,    \* the transitions a caller may ask for
    Creation,   \* the transition that creates the task
    Parking,    \* the transition a restart adds to an unfinished task
    None        \* no value

VARIABLES
    committed,  \* the transitions of the task, oldest first
    pending,    \* the call of each caller: None, or the change and its position
    acked       \* the positions whose callers were answered "ok"

vars == <<committed, pending, acked>>

\* A call before it is committed has position 0.
Call == [change : Changes, at : Nat]

TypeOK ==
    /\ committed \in Seq(Changes \cup {Parking})
    /\ pending \in [Clients -> Call \cup {None}]
    /\ acked \subseteq Nat

Init ==
    /\ committed = <<>>
    /\ pending = [c \in Clients |-> None]
    /\ acked = {}

Submit(c, change) ==
    /\ pending[c] = None
    /\ pending' = [pending EXCEPT ![c] = [change |-> change, at |-> 0]]
    /\ UNCHANGED <<committed, acked>>

\* The creation is the first transition of a task and only the first.
Commit(c) ==
    /\ pending[c] # None
    /\ pending[c].at = 0
    /\ (pending[c].change = Creation) <=> (committed = <<>>)
    /\ committed' = Append(committed, pending[c].change)
    /\ pending' = [pending EXCEPT ![c].at = Len(committed')]
    /\ UNCHANGED acked

Succeed(c) ==
    /\ pending[c] # None
    /\ pending[c].at # 0
    /\ acked' = acked \cup {pending[c].at}
    /\ pending' = [pending EXCEPT ![c] = None]
    /\ UNCHANGED committed

\* The caller is told of an error: the transition may stand all the same.
Fail(c) ==
    /\ pending[c] # None
    /\ pending' = [pending EXCEPT ![c] = None]
    /\ UNCHANGED <<committed, acked>>

Crash ==
    /\ pending' = [c \in Clients |-> None]
    /\ UNCHANGED <<committed, acked>>

\* A restart parks a task it finds unfinished, before it takes calls.
Park ==
    /\ pending = [c \in Clients |-> None]
    /\ committed # <<>>
    /\ committed' = Append(committed, Parking)
    /\ UNCHANGED <<pending, acked>>

Next ==
    \/ \E c \in Clients :
        \/ \E change \in Changes : Submit(c, change)
        \/ Commit(c)
        \/ Succeed(c)
        \/ Fail(c)
    \/ Crash
    \/ Park

Spec == Init /\ [][Next]_vars
=============================================================================
