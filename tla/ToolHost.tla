------------------------------ MODULE ToolHost ------------------------------
(* What the direct tools of the MCP surface share: the tool calls in         *)
(* progress, each asleep at one of its awaits, and the host they run in with *)
(* the order of its graceful stop.  The HTTP server waits for its calls      *)
(* before it stops the terminals, the stdio entry point does not.            *)
(* authorizeDirectTool and assertWorkspace only read; they may refuse.       *)
CONSTANTS Calls, None

ASSUME CallsAssumption == Calls \cap {None, "absent", "other", "directory"} = {}

VARIABLES
    platform,   \* process.platform, as far as it makes a difference
    entry,      \* the entry point of the host: index.ts or stdio.ts
    host,       \* "up", "closing", "stopping" (terminals stopped), "down"
    pc          \* where each tool call is

hostVars == <<platform, entry, host>>

Over == {"unused", "over"}

HostInit ==
    /\ platform \in {"win32", "posix"}
    /\ entry \in {"http", "stdio"}
    /\ host = "up"
    /\ pc = [c \in Calls |-> "unused"]

HostType ==
    /\ platform \in {"win32", "posix"}
    /\ entry \in {"http", "stdio"}
    /\ host \in {"up", "closing", "stopping", "down"}

Running == host # "down"

Goto(c, to) == pc' = [pc EXCEPT ![c] = to]

\* A tool call arrives; it goes to sleep in authorizeDirectTool.
Ask(c, tool) ==
    /\ host = "up"
    /\ pc[c] = "unused"
    /\ Goto(c, tool)
    /\ UNCHANGED hostVars

\* A call goes on after an await.
Step(c, from, to) ==
    /\ Running
    /\ pc[c] = from
    /\ Goto(c, to)
    /\ UNCHANGED hostVars

\* SIGTERM, SIGINT or the end of stdin: no new calls from here on.
Shutdown ==
    /\ host = "up"
    /\ host' = "closing"
    /\ UNCHANGED <<platform, entry, pc>>

\* Mutant: the server does not wait for the calls in progress either.
MutNobodyWaits == TRUE
\* server.close calls back when no call is in progress; stdio.close does not wait.
CallsOver == entry = "http" => \A c \in Calls : pc[c] \in Over

\* mcpRuntime.shutdown has its turn.
ToolsStop ==
    /\ host = "closing"
    /\ CallsOver
    /\ host' = "stopping"
    /\ UNCHANGED <<platform, entry, pc>>

\* orchestrator.shutdown is done, process.exit.
Exit ==
    /\ host = "stopping"
    /\ host' = "down"
    /\ UNCHANGED <<platform, entry, pc>>
=============================================================================
