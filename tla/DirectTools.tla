----------------------------- MODULE DirectTools -----------------------------
(* The terminals of DirectToolService and the calls that start, poll and     *)
(* cancel them.  A job is named after the call that made it.  A terminal is  *)
(* a shell and the processes it started that hold the pipes of the job; one  *)
(* of them stands for all.  One conversation owns all jobs.                  *)
EXTENDS ToolHost

CONSTANTS Requests, Instructions

VARIABLES
    asked,      \* what each call asks: request id and instruction; the job it is given
    job,        \* the TerminalJob of each call that made one
    request,    \* terminalRequests: the job of each request id
    shell,      \* the shell of each job
    work        \* does a process that the shell started hold the pipes?

terminalVars == <<asked, job, request, shell, work>>

Final == {"completed", "failed", "cancelled"}
NotAsked == [request |-> None, instruction |-> None, job |-> None]
NoJob == [status |-> "absent", child |-> FALSE, kill |-> FALSE]

TerminalInit ==
    /\ asked = [c \in Calls |-> NotAsked]
    /\ job = [c \in Calls |-> NoJob]
    /\ request = [r \in Requests |-> None]
    /\ shell = [c \in Calls |-> "none"]
    /\ work = [c \in Calls |-> FALSE]

TerminalType ==
    /\ asked \in [Calls -> [request : Requests \cup {None}, instruction : Instructions \cup {None},
                            job : Calls \cup {None}]]
    /\ job \in [Calls -> [status : {"absent", "running"} \cup Final, child : BOOLEAN,
                          kill : BOOLEAN]]
    /\ request \in [Requests -> Calls \cup {None}]
    /\ shell \in [Calls -> {"none", "alive", "gone"}]
    /\ work \in [Calls -> BOOLEAN]

-----------------------------------------------------------------------------
(* The calls *)

\* terminal_start, or terminal_exec, which waits.
TerminalTools == {"terminal_start", "terminal_exec"}
AskTerminal(c, tool, r, instruction) ==
    /\ Ask(c, tool)
    /\ asked' = [asked EXCEPT ![c] = [request |-> r, instruction |-> instruction, job |-> None]]
    /\ UNCHANGED <<job, request, shell, work>>

\* Not authorized, or read-only, or a directory outside the workspace; or the request id has
\* been used with other instructions.
Refuse(c) ==
    /\ Step(c, pc[c], "over")
    /\ asked' = [asked EXCEPT ![c] = NotAsked]
TerminalRefused(c) ==
    /\ pc[c] \in TerminalTools
    /\ Refuse(c)
    /\ UNCHANGED <<job, request, shell, work>>

Prior(c) == request[asked[c].request]
\* Mutant: only a running job answers a retry.
MutRetried(c) == Prior(c) # None /\ job[Prior(c)].status = "running"
Retried(c) == Prior(c) # None

\* What the call does with the job it was given: answer, or wait for it.
Given(c, j) ==
    /\ Step(c, pc[c], IF pc[c] = "terminal_exec" /\ job'[j].status = "running" THEN "wait"
                                                                             ELSE "over")
    /\ asked' = [asked EXCEPT ![c].job = j]

\* The request has a job already: it is answered with it, or refused for other instructions.
RetryTerminal(c) ==
    /\ pc[c] \in TerminalTools
    /\ Retried(c)
    /\ UNCHANGED <<job, request, shell, work>>
    /\ IF asked[Prior(c)].instruction = asked[c].instruction
       THEN Given(c, Prior(c))
       ELSE Refuse(c)

\* The shell is spawned; the error of a failed spawn comes before anything else.
StartTerminal(c) ==
    /\ pc[c] \in TerminalTools
    /\ ~Retried(c)
    /\ \E spawned \in BOOLEAN :
          /\ job' = [job EXCEPT ![c] = [status |-> IF spawned THEN "running" ELSE "failed",
                                        child |-> TRUE, kill |-> FALSE]]
          /\ shell' = [shell EXCEPT ![c] = IF spawned THEN "alive" ELSE "gone"]
    /\ request' = [request EXCEPT ![asked[c].request] = c]
    /\ Given(c, c)
    /\ UNCHANGED work

\* Mutant: only the end of the process wakes the wait.
MutWaitEnds(c) ==
    /\ pc[c] = "wait"
    /\ ~job[asked[c].job].child
    /\ Step(c, "wait", "over")
    /\ UNCHANGED terminalVars
\* The close or error of the process, or the timer of waitTerminal.
WaitEnds(c) == Step(c, "wait", "over") /\ UNCHANGED terminalVars

\* cancelTerminal: the job is cancelled, the shell gets a signal, a timer is armed.  On
\* Windows the signal ends the shell, elsewhere it may be ignored, or refused with an error
\* event that overwrites the status.
Cancel(j) ==
    /\ host = "up"
    /\ job[j].status = "running"
    /\ \E refused \in BOOLEAN :
          /\ refused => platform = "posix" /\ shell[j] = "alive"
          /\ job' = [job EXCEPT ![j].status = IF refused THEN "failed" ELSE "cancelled",
                                ![j].kill = TRUE]
    /\ shell' = [shell EXCEPT ![j] = IF platform = "win32" THEN "gone" ELSE @]
    /\ UNCHANGED <<hostVars, pc, asked, request, work>>

\* terminateOwnedProcessTree: nothing when the shell is gone; the tree on Windows; elsewhere
\* the process group of the shell, which has none of its own.
Reached(j) == platform = "win32" /\ shell[j] = "alive"

\* The timer of cancelTerminal, five seconds later.
ForceKill(j) ==
    /\ Running
    /\ job[j].kill
    /\ job' = [job EXCEPT ![j].kill = FALSE]
    /\ shell' = [shell EXCEPT ![j] = IF Reached(j) THEN "gone" ELSE @]
    /\ work' = [work EXCEPT ![j] = IF Reached(j) THEN FALSE ELSE @]
    /\ UNCHANGED <<hostVars, pc, asked, request>>

\* Mutant: the exit code decides, also for a job that was cancelled.
MutSettled(j, status) == status
Settled(j, status) == IF job[j].status = "running" THEN status ELSE job[j].status

\* The event close: the shell has exited and nobody holds its pipes any more.
Close(j) ==
    /\ Running
    /\ job[j].child
    /\ shell[j] = "gone"
    /\ ~work[j]
    /\ \E status \in {"completed", "failed"} :
          job' = [job EXCEPT ![j].child = FALSE, ![j].status = Settled(j, status)]
    /\ UNCHANGED <<hostVars, pc, asked, request, shell, work>>

-----------------------------------------------------------------------------
(* The stop *)

\* DirectToolService.shutdown
Stopped(j) == job[j].status = "running" /\ job[j].child
StopTerminals ==
    /\ ToolsStop
    /\ job' = [j \in Calls |-> IF Stopped(j)
                               THEN [job[j] EXCEPT !.status = "cancelled", !.child = FALSE]
                               ELSE job[j]]
    /\ shell' = [j \in Calls |-> IF Stopped(j) /\ Reached(j) THEN "gone" ELSE shell[j]]
    /\ work' = [j \in Calls |-> IF Stopped(j) /\ Reached(j) THEN FALSE ELSE work[j]]
    /\ UNCHANGED <<asked, request>>

-----------------------------------------------------------------------------
(* The processes, which go their own way *)

Forks(j) ==
    /\ shell[j] = "alive"
    /\ work' = [work EXCEPT ![j] = TRUE]
    /\ UNCHANGED shell
ShellExits(j) ==
    /\ shell[j] = "alive"
    /\ shell' = [shell EXCEPT ![j] = "gone"]
    /\ UNCHANGED work
WorkEnds(j) ==
    /\ work' = [work EXCEPT ![j] = FALSE]
    /\ UNCHANGED shell
Process(j) ==
    /\ Running
    /\ Forks(j) \/ ShellExits(j) \/ WorkEnds(j)
    /\ UNCHANGED <<hostVars, pc, asked, job, request>>
=============================================================================
