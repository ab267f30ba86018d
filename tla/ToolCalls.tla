------------------------------ MODULE ToolCalls ------------------------------
(* The tool calls of mcp-tools-direct.ts that have awaits of their own, in   *)
(* one host: terminals and imports, with the stop of the host under them.    *)
EXTENDS DirectTools, AttachmentImport

vars == <<hostVars, pc, terminalVars, importVars>>

Init == HostInit /\ TerminalInit /\ ImportInit

TerminalCall(c) ==
    /\ \/ \E tool \in TerminalTools, r \in Requests, i \in Instructions : AskTerminal(c, tool, r, i)
       \/ Cancel(c)
    /\ UNCHANGED importVars
TerminalStep(c) ==
    /\ TerminalRefused(c) \/ RetryTerminal(c) \/ StartTerminal(c) \/ WaitEnds(c)
    /\ UNCHANGED importVars
TerminalEvent(c) == (ForceKill(c) \/ Close(c)) /\ UNCHANGED importVars
Import(c) == (\E overwrite \in BOOLEAN : AskImport(c, overwrite)) /\ UNCHANGED terminalVars
ImportGoesOn(c) == ImportStep(c) /\ UNCHANGED terminalVars
Stop == StopTerminals /\ UNCHANGED importVars
HostDown == Exit /\ UNCHANGED <<terminalVars, importVars>>

Next ==
    \/ \E c \in Calls :
          \/ TerminalCall(c) \/ TerminalStep(c) \/ TerminalEvent(c)
          \/ Import(c) \/ ImportGoesOn(c)
          \/ LateOpen(c) /\ UNCHANGED terminalVars
          \/ Process(c) /\ UNCHANGED importVars
    \/ Edit /\ UNCHANGED terminalVars
    \/ Shutdown /\ UNCHANGED <<terminalVars, importVars>>
    \/ Stop
    \/ HostDown

Spec == Init /\ [][Next]_vars

\* A call goes on when its await settles, and the stop with it.
Fairness ==
    /\ \A c \in Calls : WF_vars(TerminalStep(c)) /\ WF_vars(ImportGoesOn(c))
    /\ WF_vars(Stop)
    /\ WF_vars(HostDown)

FairSpec == Spec /\ Fairness

-----------------------------------------------------------------------------
(* Properties *)

TypeOK ==
    /\ HostType /\ TerminalType /\ ImportType
    /\ pc \in [Calls -> Over \cup TerminalTools \cup {"wait"} \cup ImportPc]

\* A request id is one process, however often terminal_start and terminal_exec are retried
\* while it starts, runs, fails or is cancelled, and it runs what each answered caller asked.
OneProcessPerRequest ==
    /\ \A c, d \in Calls :
          /\ job[c].status # "absent" /\ job[d].status # "absent"
          /\ asked[c].request = asked[d].request
          => c = d
    /\ \A c \in Calls :
          asked[c].job # None => asked[asked[c].job].instruction = asked[c].instruction

\* What a caller was told of a job that had ended stays true: its exit, the five-second timer,
\* the stop of the host and a retry of its request never change a final status.
FinalStatusStays ==
    [][\A j \in Calls : job[j].status \in Final => job'[j].status = job[j].status]_vars

\* The HTTP host stops its terminals when the calls are over, so after it no job is running, no
\* shell is left on Windows, and no import is cut off: nothing half copied has the name of the
\* destination, and a temporary file stays only if its removal failed or came too early.
Graceful == entry = "http" /\ host \in {"stopping", "down"}
StopIsOrderly ==
    Graceful =>
        /\ \A j \in Calls : job[j].status # "running"
        /\ platform = "win32" => \A j \in Calls : shell[j] # "alive"
        /\ target.whole
        /\ \A c \in Calls : temp[c] \in {"part", "whole"} => import[c].kept

\* An import without overwrite takes its name only when nothing has it, and what it changes
\* afterwards is the file it placed, unless a failing copy removes what replaced it meanwhile.
ExclusiveReplacesNothing ==
    [][\A c \in Calls :
          ImportGoesOn(c) /\ ~import[c].overwrite /\ target' # target =>
              Free \/ import[c].placed]_vars

\* What an import reports is true: a reported file was placed, and a failure left nothing of
\* the call at the destination, unless the removal of its temporary file failed.
OutcomeIsTrue ==
    \A c \in Calls :
        /\ import[c].outcome = "imported" => import[c].placed
        /\ import[c].outcome = "failed" /\ target.is = c => import[c].kept

\* A stop ends: no wait for a command and no import holds it for ever.
StopEnds == host = "closing" ~> host = "down"

\* Stated of the code: the cancellation of a terminal cleans up the processes the terminal
\* owns.  When its timer has fired, nothing the shell started holds the pipes of the job.
CancelEndsTheTree ==
    [][\A j \in Calls : Running /\ job[j].kill /\ ~job'[j].kill => ~work'[j]]_vars
=============================================================================
