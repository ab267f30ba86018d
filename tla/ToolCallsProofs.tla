--------------------------- MODULE ToolCallsProofs ---------------------------
(* Proofs about the direct tools, for every number of calls and requests and *)
(* any change of the destination by others.                                  *)
EXTENDS ToolCalls, TLAPS

\* A call that has not been let in has no job; a job has the key of its request, and only it;
\* a job that was given exists.
JobsAreKeyed ==
    /\ \A c \in Calls : pc[c] \in {"unused"} \cup TerminalTools => job[c] = NoJob
    /\ \A c \in Calls : pc[c] \in TerminalTools => asked[c].request \in Requests
    /\ \A c \in Calls :
          job[c].status # "absent" =>
              asked[c].request \in Requests /\ request[asked[c].request] = c
    /\ \A r \in Requests :
          request[r] # None => job[request[r]].status # "absent"
    /\ \A c \in Calls :
          asked[c].job # None =>
              /\ job[asked[c].job].status # "absent"
              /\ asked[asked[c].job].instruction = asked[c].instruction

\* A running job has its process; a shell that lives on Windows belongs to a running job.
ShellsAreOwned ==
    /\ \A j \in Calls : job[j].status = "running" => job[j].child
    /\ platform = "win32" => \A j \in Calls : shell[j] = "alive" => job[j].status = "running"

\* What has the name of the destination was put there by a call that is far enough, and is all
\* there unless that call is still copying; a call past that point has placed its file.
DestinationIsOwned ==
    /\ ~target.whole => target.is \in Calls /\ pc[target.is] = "copying"
    /\ target.is \in Calls =>
          \/ pc[target.is] \in {"copying", "unlink", "unlinkCopy", "cleanup", "over"}
          \/ pc[target.is] = "copy" /\ import[target.is].kept
    /\ \A c \in Calls : pc[c] \in {"copying", "unlink", "unlinkCopy"} => import[c].placed

\* A temporary file is there while its call needs it or has yet to remove it.
TempIsOwned ==
    \A c \in Calls :
        temp[c] \in {"part", "whole"} =>
            \/ import[c].kept
            \/ pc[c] \in {"writing", "recheck", "commit", "copy", "copying", "unlink",
                          "unlinkCopy", "cleanup"}

\* After the stop of the HTTP host nothing goes on.
StopHolds ==
    Graceful =>
        /\ \A c \in Calls : pc[c] \in Over
        /\ \A j \in Calls : job[j].status # "running"

Owned ==
    TypeOK /\ JobsAreKeyed /\ ShellsAreOwned /\ DestinationIsOwned /\ TempIsOwned
           /\ OutcomeIsTrue /\ StopHolds

-----------------------------------------------------------------------------
(* Types *)

LEMMA InitTypes == Init => TypeOK
  BY EditsAssumption
  DEF Init, HostInit, TerminalInit, ImportInit, NoJob, NotAsked, NoImport, Nothing, Final,
      TypeOK, HostType, TerminalType, ImportType, Over, TerminalTools, ImportPc

JobRecords == [status : {"absent", "running"} \cup Final, child : BOOLEAN, kill : BOOLEAN]

LEMMA JobRecordsType == TypeOK => job \in [Calls -> JobRecords]
  BY DEF TypeOK, TerminalType, JobRecords

\* Steps that leave the imports alone keep their variables well formed, and the other way round.
LEMMA TerminalCallTypes ==
  ASSUME TypeOK, NEW c \in Calls, TerminalCall(c)
  PROVE  TypeOK'
  <1>0. importVars' = importVars /\ ImportType
    BY DEF TerminalCall, TypeOK
  <1>1. ImportType'
    BY <1>0 DEF ImportType, importVars
  <1>2. CASE \E tool \in TerminalTools, r \in Requests, i \in Instructions :
                AskTerminal(c, tool, r, i)
    BY <1>1, <1>2
    DEF AskTerminal, Ask, Goto, hostVars, TypeOK, HostType, TerminalType, TerminalTools
  <1>3. CASE Cancel(c)
    <2>1. PICK refused \in BOOLEAN :
             job' = [job EXCEPT ![c].status = IF refused THEN "failed" ELSE "cancelled",
                                ![c].kill = TRUE]
      BY <1>3 DEF Cancel
    <2>2. (IF refused THEN "failed" ELSE "cancelled") \in Final
      BY DEF Final
    <2>3. job' \in [Calls -> JobRecords]
      BY <2>1, <2>2, JobRecordsType DEF JobRecords
    <2>4. shell' \in [Calls -> {"none", "alive", "gone"}]
      BY <1>3 DEF Cancel, TypeOK, TerminalType
    <2>. QED BY <1>1, <1>3, <2>3, <2>4
             DEF Cancel, hostVars, TypeOK, HostType, TerminalType, JobRecords
  <1>. QED BY <1>2, <1>3 DEF TerminalCall

LEMMA TerminalStepTypes ==
  ASSUME TypeOK, JobsAreKeyed, NEW c \in Calls, TerminalStep(c)
  PROVE  TypeOK'
  <1>0. importVars' = importVars /\ ImportType
    BY DEF TerminalStep, TypeOK
  <1>1. ImportType'
    BY <1>0 DEF ImportType, importVars
  <1>2. CASE TerminalRefused(c)
    BY <1>1, <1>2
    DEF TerminalRefused, Refuse, Step, Goto, NotAsked, hostVars, TypeOK, HostType, TerminalType, Over
  <1>3. CASE RetryTerminal(c)
    <2>1. CASE Refuse(c)
      BY <1>1, <1>3, <2>1
      DEF RetryTerminal, Refuse, Step, Goto, NotAsked, hostVars, TypeOK, HostType, TerminalType, Over
    <2>2. CASE Given(c, Prior(c))
      <3>1. Prior(c) \in Calls \cup {None}
        BY <1>3 DEF RetryTerminal, Prior, JobsAreKeyed, TypeOK, TerminalType
      <3>. QED
        BY <1>1, <1>3, <2>2, <3>1
        DEF RetryTerminal, Given, Step, Goto, hostVars, TypeOK, HostType, TerminalType, Over
    <2>. QED BY <1>3, <2>1, <2>2 DEF RetryTerminal
  <1>4. CASE StartTerminal(c)
    <2>1. PICK spawned \in BOOLEAN :
             /\ job' = [job EXCEPT ![c] = [status |-> IF spawned THEN "running" ELSE "failed",
                                           child |-> TRUE, kill |-> FALSE]]
             /\ shell' = [shell EXCEPT ![c] = IF spawned THEN "alive" ELSE "gone"]
      BY <1>4 DEF StartTerminal
    <2>2. [status |-> IF spawned THEN "running" ELSE "failed", child |-> TRUE, kill |-> FALSE]
             \in JobRecords
      BY DEF JobRecords, Final
    <2>3. job' \in [Calls -> JobRecords]
      BY <2>1, <2>2, JobRecordsType
    <2>4. shell' \in [Calls -> {"none", "alive", "gone"}]
      BY <2>1 DEF TypeOK, TerminalType
    <2>5. pc' \in [Calls -> Over \cup TerminalTools \cup {"wait"} \cup ImportPc]
      BY <1>4 DEF StartTerminal, Given, Step, Goto, TypeOK, Over
    <2>6. asked' \in [Calls -> [request : Requests \cup {None},
                                instruction : Instructions \cup {None},
                                job : Calls \cup {None}]]
      <3>1. asked' = [asked EXCEPT ![c].job = c]
        BY <1>4 DEF StartTerminal, Given
      <3>. QED BY <3>1 DEF TypeOK, TerminalType
    <2>7. request' \in [Requests -> Calls \cup {None}]
      BY <1>4 DEF StartTerminal, TypeOK, TerminalType
    <2>. QED
      BY <1>1, <1>4, <2>3, <2>4, <2>5, <2>6, <2>7
      DEF StartTerminal, Given, Step, hostVars, TypeOK, HostType, TerminalType, JobRecords
  <1>5. CASE WaitEnds(c)
    BY <1>1, <1>5
    DEF WaitEnds, Step, Goto, terminalVars, hostVars, TypeOK, HostType, TerminalType, Over
  <1>. QED BY <1>2, <1>3, <1>4, <1>5 DEF TerminalStep

LEMMA ProcessTypes ==
  ASSUME TypeOK, NEW j \in Calls,
         ForceKill(j) \/ Close(j) \/ Process(j), UNCHANGED importVars
  PROVE  TypeOK'
  <1>1. ImportType'
    BY DEF TypeOK, ImportType, importVars
  <1>2. CASE ForceKill(j)
    BY <1>1, <1>2 DEF ForceKill, hostVars, TypeOK, HostType, TerminalType
  <1>3. CASE Close(j)
    <2>1. PICK status \in {"completed", "failed"} :
             job' = [job EXCEPT ![j].child = FALSE, ![j].status = Settled(j, status)]
      BY <1>3 DEF Close
    <2>2. Settled(j, status) \in {"absent", "running"} \cup Final
      BY <2>1, JobRecordsType DEF Settled, JobRecords, Final
    <2>3. job' \in [Calls -> JobRecords]
      BY <2>1, <2>2, JobRecordsType DEF JobRecords
    <2>. QED BY <1>1, <1>3, <2>3 DEF Close, hostVars, TypeOK, HostType, TerminalType, JobRecords
  <1>4. CASE Process(j)
    BY <1>1, <1>4 DEF Process, Forks, ShellExits, WorkEnds, hostVars, TypeOK, HostType, TerminalType
  <1>. QED BY <1>2, <1>3, <1>4

\* Imports leave the terminals alone.
ImportRecords == [overwrite : BOOLEAN, late : BOOLEAN, outcome : {None, "imported", "failed"},
                  placed : BOOLEAN, kept : BOOLEAN]

LEMMA ImportRecordsType == TypeOK => import \in [Calls -> ImportRecords]
  BY DEF TypeOK, ImportType, ImportRecords

LEMMA TerminalsUntouched ==
  ASSUME TypeOK, UNCHANGED terminalVars
  PROVE  TerminalType'
  BY DEF TypeOK, TerminalType, terminalVars

LEMMA AskImportTypes ==
  ASSUME TypeOK, NEW c \in Calls, Import(c)
  PROVE  TypeOK'
  <1>1. TerminalType'
    BY TerminalsUntouched DEF Import
  <1>. QED
    BY <1>1
    DEF Import, AskImport, Ask, Goto, hostVars, TypeOK, HostType, ImportType, ImportPc

LEMMA ImportTypes ==
  ASSUME TypeOK, NEW c \in Calls, ImportGoesOn(c)
  PROVE  TypeOK'
  <1>0. TerminalType'
    BY TerminalsUntouched DEF ImportGoesOn
  <1>. USE DEF Step, Goto, hostVars, TypeOK, HostType, ImportType, ImportPc, Over
  <1>1. CASE ImportRefused(c)
    BY <1>0, <1>1 DEF ImportRefused
  <1>2. CASE Validate(c)
    BY <1>0, <1>2 DEF Validate, importVars
  <1>3. CASE OpenTemp(c)
    BY <1>0, <1>3 DEF OpenTemp
  <1>4. CASE Downloaded(c)
    BY <1>0, <1>4 DEF Downloaded
  <1>5. CASE Throws(c)
    <2>1. PICK late \in BOOLEAN :
             import' = [import EXCEPT ![c].outcome = "failed", ![c].late = late]
      BY <1>5 DEF Throws
    <2>2. import' \in [Calls -> ImportRecords]
      <3>1. [import[c] EXCEPT !.outcome = "failed", !.late = late] \in ImportRecords
        BY ImportRecordsType DEF ImportRecords
      <3>2. import' = [import EXCEPT ![c] = [import[c] EXCEPT !.outcome = "failed", !.late = late]]
        BY <2>1, ImportRecordsType DEF ImportRecords
      <3>. QED BY <3>1, <3>2, ImportRecordsType
    <2>. QED BY <1>0, <1>5, <2>2 DEF Throws, ImportRecords
  <1>6. CASE Recheck(c)
    BY <1>0, <1>6 DEF Recheck, importVars
  <1>7. CASE Rename(c)
    <2>1. import' = [import EXCEPT ![c].placed = TRUE, ![c].outcome = "imported"]
      BY <1>7 DEF Rename, PlacedBy, Place
    <2>2. import' \in [Calls -> ImportRecords]
      <3>1. [import[c] EXCEPT !.placed = TRUE, !.outcome = "imported"] \in ImportRecords
        BY ImportRecordsType DEF ImportRecords
      <3>2. import' = [import EXCEPT ![c] = [import[c] EXCEPT !.placed = TRUE, !.outcome = "imported"]]
        BY <2>1, ImportRecordsType DEF ImportRecords
      <3>. QED BY <3>1, <3>2, ImportRecordsType
    <2>3. target' = [is |-> c, whole |-> TRUE]
      BY <1>7 DEF Rename, PlacedBy, Place
    <2>. QED BY <1>0, <1>7, <2>2, <2>3 DEF Rename, ImportRecords
  <1>8. CASE Link(c)
    <2>1. import' = [import EXCEPT ![c].placed = TRUE, ![c].outcome = None]
      BY <1>8 DEF Link, Place
    <2>2. import' \in [Calls -> ImportRecords]
      <3>1. [import[c] EXCEPT !.placed = TRUE, !.outcome = None] \in ImportRecords
        BY ImportRecordsType DEF ImportRecords
      <3>2. import' = [import EXCEPT ![c] = [import[c] EXCEPT !.placed = TRUE, !.outcome = None]]
        BY <2>1, ImportRecordsType DEF ImportRecords
      <3>. QED BY <3>1, <3>2, ImportRecordsType
    <2>3. target' = [is |-> c, whole |-> TRUE]
      BY <1>8 DEF Link, Place
    <2>. QED BY <1>0, <1>8, <2>2, <2>3 DEF Link, ImportRecords
  <1>9. CASE LinkFails(c)
    BY <1>0, <1>9 DEF LinkFails, importVars
  <1>10. CASE Copy(c)
    <2>1. import' = [import EXCEPT ![c].placed = TRUE, ![c].outcome = None]
      BY <1>10 DEF Copy, Place
    <2>2. import' \in [Calls -> ImportRecords]
      <3>1. [import[c] EXCEPT !.placed = TRUE, !.outcome = None] \in ImportRecords
        BY ImportRecordsType DEF ImportRecords
      <3>2. import' = [import EXCEPT ![c] = [import[c] EXCEPT !.placed = TRUE, !.outcome = None]]
        BY <2>1, ImportRecordsType DEF ImportRecords
      <3>. QED BY <3>1, <3>2, ImportRecordsType
    <2>3. target' = [is |-> c, whole |-> FALSE]
      BY <1>10 DEF Copy, Place
    <2>. QED BY <1>0, <1>10, <2>2, <2>3 DEF Copy, ImportRecords
  <1>11. CASE CopyEnds(c)
    <2>1. target' \in [is : Calls \cup {"absent", "other", "directory"}, whole : BOOLEAN]
      BY <1>11 DEF CopyEnds
    <2>2. pc' \in [Calls -> Over \cup TerminalTools \cup {"wait"} \cup ImportPc]
      BY <1>11 DEF CopyEnds
    <2>3. ImportType'
      BY <1>11, <2>1 DEF CopyEnds
    <2>4. HostType'
      BY <1>11 DEF CopyEnds
    <2>. QED BY <1>0, <2>2, <2>3, <2>4
  <1>12. CASE CopyFails(c)
    BY <1>0, <1>12 DEF CopyFails, Nothing
  <1>13. CASE Unlink(c)
    BY <1>0, <1>13 DEF Unlink
  <1>14. CASE UnlinkFails(c)
    <2>1. PICK outcome \in {None, "imported", "failed"} :
             import' = [import EXCEPT ![c].kept = TRUE, ![c].outcome = outcome]
      BY <1>14, ImportRecordsType DEF UnlinkFails, ImportRecords
    <2>2. import' \in [Calls -> ImportRecords]
      <3>1. [import[c] EXCEPT !.kept = TRUE, !.outcome = outcome] \in ImportRecords
        BY ImportRecordsType DEF ImportRecords
      <3>2. import' = [import EXCEPT ![c] = [import[c] EXCEPT !.kept = TRUE, !.outcome = outcome]]
        BY <2>1, ImportRecordsType DEF ImportRecords
      <3>. QED BY <3>1, <3>2, ImportRecordsType
    <2>3. pc' \in [Calls -> Over \cup TerminalTools \cup {"wait"} \cup ImportPc]
      BY <1>14 DEF UnlinkFails
    <2>. QED BY <1>0, <1>14, <2>2, <2>3 DEF UnlinkFails, ImportRecords
  <1>15. CASE Cleanup(c)
    <2>1. PICK removed \in BOOLEAN :
             /\ temp' = [temp EXCEPT ![c] = IF removed THEN "none" ELSE @]
             /\ import' = [import EXCEPT ![c].kept = @ \/ (~removed /\ temp[c] # "none")]
      BY <1>15 DEF Cleanup
    <2>2. import' \in [Calls -> ImportRecords]
      <3>1. PICK kept \in BOOLEAN : import' = [import EXCEPT ![c].kept = kept]
        BY <2>1, ImportRecordsType DEF ImportRecords
      <3>. QED BY <3>1, ImportRecordsType DEF ImportRecords
    <2>3. temp' \in [Calls -> {"none", "part", "whole", "late"}]
      BY <2>1
    <2>. QED BY <1>0, <1>15, <2>2, <2>3 DEF Cleanup, ImportRecords
  <1>. QED
    BY <1>1, <1>2, <1>3, <1>4, <1>5, <1>6, <1>7, <1>8, <1>9, <1>10, <1>11, <1>12, <1>13,
       <1>14, <1>15
    DEF ImportGoesOn, ImportStep

LEMMA HostTypes ==
  ASSUME TypeOK,
         \/ Edit /\ UNCHANGED terminalVars
         \/ Shutdown /\ UNCHANGED <<terminalVars, importVars>>
         \/ Stop
         \/ HostDown
  PROVE  TypeOK'
  <1>. USE DEF hostVars, TypeOK, HostType
  <1>1. CASE Edit /\ UNCHANGED terminalVars
    <2>1. TerminalType'
      BY <1>1, TerminalsUntouched
    <2>. QED BY <1>1, <2>1, EditsAssumption DEF Edit, ImportType
  <1>2. CASE Shutdown /\ UNCHANGED <<terminalVars, importVars>>
    <2>1. TerminalType'
      BY <1>2, TerminalsUntouched
    <2>. QED BY <1>2, <2>1 DEF Shutdown, ImportType, importVars
  <1>3. CASE HostDown
    <2>1. TerminalType'
      BY <1>3, TerminalsUntouched DEF HostDown
    <2>. QED BY <1>3, <2>1 DEF HostDown, Exit, ImportType, importVars
  <1>4. CASE Stop
    <2>1. \A j \in Calls :
             [job[j] EXCEPT !.status = "cancelled", !.child = FALSE] \in JobRecords
      BY JobRecordsType DEF JobRecords, Final
    <2>2. job' \in [Calls -> JobRecords]
      BY <1>4, <2>1, JobRecordsType DEF Stop, StopTerminals
    <2>3. /\ shell' \in [Calls -> {"none", "alive", "gone"}]
          /\ work' \in [Calls -> BOOLEAN]
      BY <1>4 DEF Stop, StopTerminals, TerminalType
    <2>. QED
      BY <1>4, <2>2, <2>3
      DEF Stop, StopTerminals, ToolsStop, TerminalType, ImportType, importVars, JobRecords
  <1>. QED BY <1>1, <1>2, <1>3, <1>4

LEMMA StepTypes ==
  ASSUME TypeOK, JobsAreKeyed, [Next]_vars
  PROVE  TypeOK'
  <1>1. CASE UNCHANGED vars
    BY <1>1
    DEF vars, hostVars, terminalVars, importVars, TypeOK, HostType, TerminalType, ImportType
  <1>2. ASSUME NEW c \in Calls, LateOpen(c), UNCHANGED terminalVars PROVE TypeOK'
    <2>1. TerminalType'
      BY <1>2, TerminalsUntouched
    <2>. QED BY <1>2, <2>1 DEF LateOpen, hostVars, TypeOK, HostType, ImportType
  <1>3. ASSUME NEW c \in Calls,
               \/ TerminalCall(c) \/ TerminalStep(c) \/ TerminalEvent(c)
               \/ Import(c) \/ ImportGoesOn(c)
               \/ Process(c) /\ UNCHANGED importVars
        PROVE  TypeOK'
    BY <1>3, TerminalCallTypes, TerminalStepTypes, ProcessTypes, AskImportTypes, ImportTypes
    DEF TerminalEvent
  <1>. QED BY <1>1, <1>2, <1>3, HostTypes DEF Next

-----------------------------------------------------------------------------
(* What the terminals, the imports and the stop of the host leave to each other *)

Idle == {"unused", "wait"} \cup TerminalTools

\* A step of a terminal call does not touch the imports.
LEMMA ImportsApart ==
  ASSUME TypeOK, DestinationIsOwned, TempIsOwned, OutcomeIsTrue, UNCHANGED importVars,
         \A d \in Calls : \/ pc'[d] = pc[d]
                          \/ pc[d] \in Idle /\ pc'[d] \in Idle \cup {"over"}
  PROVE  DestinationIsOwned' /\ TempIsOwned' /\ OutcomeIsTrue'
  <1>. USE DEF importVars, Idle, TerminalTools, TypeOK, ImportType
  <1>1. DestinationIsOwned'
    BY DEF DestinationIsOwned
  <1>2. TempIsOwned'
    BY DEF TempIsOwned
  <1>3. OutcomeIsTrue'
    BY DEF OutcomeIsTrue
  <1>. QED BY <1>1, <1>2, <1>3

\* A step of an import does not touch the terminals.
LEMMA TerminalsApart ==
  ASSUME TypeOK, JobsAreKeyed, ShellsAreOwned, UNCHANGED terminalVars, platform' = platform,
         \A d \in Calls : pc'[d] = pc[d] \/ pc'[d] \notin Idle
  PROVE  JobsAreKeyed' /\ ShellsAreOwned'
  <1>. USE DEF terminalVars, Idle
  <1>1. JobsAreKeyed'
    BY DEF JobsAreKeyed
  <1>2. ShellsAreOwned'
    BY DEF ShellsAreOwned
  <1>. QED BY <1>1, <1>2

\* A step that only a call in progress or a host that is up can take says nothing of a host
\* that was stopped in order; nor does one that starts nothing.
LEMMA StopKept ==
  ASSUME TypeOK, StopHolds, UNCHANGED <<entry, host>>,
         \/ host = "up"
         \/ \E c \in Calls : pc[c] \notin Over
         \/ pc' = pc /\ \A j \in Calls : job'[j].status = "running" => job[j].status = "running"
  PROVE  StopHolds'
  BY DEF StopHolds, Graceful

\* A step that only changes jobs that exist keeps their keys.
LEMMA KeysKept ==
  ASSUME TypeOK, JobsAreKeyed, UNCHANGED <<asked, request, pc>>,
         \A j \in Calls : job[j] = NoJob => job'[j] = NoJob,
         \A j \in Calls : job'[j].status = "absent" <=> job[j].status = "absent"
  PROVE  JobsAreKeyed'
  <1>1. \A r \in Requests : request[r] # None => request[r] \in Calls
    BY DEF TypeOK, TerminalType
  <1>2. \A c \in Calls : asked[c].job # None => asked[c].job \in Calls
    BY DEF TypeOK, TerminalType
  <1>. QED BY <1>1, <1>2 DEF JobsAreKeyed

-----------------------------------------------------------------------------
(* The terminals *)

\* One lemma for each step of a terminal.
LEMMA AskTerminalKeeps ==
  ASSUME Owned, NEW c \in Calls, NEW tool \in TerminalTools, NEW r \in Requests,
         NEW i \in Instructions, AskTerminal(c, tool, r, i)
  PROVE  JobsAreKeyed' /\ ShellsAreOwned'
  <1>0. TypeOK /\ JobsAreKeyed /\ ShellsAreOwned
    BY DEF Owned
  <1>1. job[c] = NoJob /\ pc[c] = "unused"
    BY <1>0 DEF AskTerminal, Ask, JobsAreKeyed
  <1>2. /\ pc' = [pc EXCEPT ![c] = tool]
        /\ asked' = [asked EXCEPT ![c] = [request |-> r, instruction |-> i, job |-> None]]
        /\ UNCHANGED <<job, request, shell, work, platform>>
    BY DEF AskTerminal, Ask, Goto, hostVars
  <1>3. \A d \in Calls : asked[d].job # c /\ asked[d].job \in Calls \cup {None}
    BY <1>0, <1>1, CallsAssumption DEF JobsAreKeyed, NoJob, TypeOK, TerminalType
  <1>4. \A d \in Calls : /\ pc'[d] = IF d = c THEN tool ELSE pc[d]
                         /\ d # c => asked'[d] = asked[d]
    BY <1>0, <1>2 DEF TypeOK, TerminalType
  <1>5. asked'[c].request = r /\ asked'[c].job = None
    BY <1>0, <1>2 DEF TypeOK, TerminalType
  <1>6. JobsAreKeyed'
    BY <1>0, <1>1, <1>2, <1>3, <1>4, <1>5 DEF JobsAreKeyed, NoJob
  <1>7. ShellsAreOwned'
    BY <1>0, <1>2 DEF ShellsAreOwned
  <1>. QED BY <1>6, <1>7

LEMMA RefuseKeeps ==
  ASSUME TypeOK, JobsAreKeyed, ShellsAreOwned, NEW c \in Calls, pc[c] \in TerminalTools,
         Refuse(c), UNCHANGED <<job, request, shell, work>>
  PROVE  JobsAreKeyed' /\ ShellsAreOwned'
  <1>1. job[c] = NoJob
    BY DEF JobsAreKeyed
  <1>2. \A d \in Calls : asked[d].job # c /\ asked[d].job \in Calls \cup {None}
    BY <1>1, CallsAssumption DEF JobsAreKeyed, NoJob, TypeOK, TerminalType
  <1>3. \A d \in Calls : /\ pc'[d] = IF d = c THEN "over" ELSE pc[d]
                         /\ asked'[d] = IF d = c THEN NotAsked ELSE asked[d]
    BY DEF Refuse, Step, Goto, TypeOK, TerminalType
  <1>4. platform' = platform
    BY DEF Refuse, Step, hostVars
  <1>5. JobsAreKeyed'
    BY <1>1, <1>2, <1>3 DEF JobsAreKeyed, NoJob, NotAsked, TerminalTools
  <1>6. ShellsAreOwned'
    BY <1>4 DEF ShellsAreOwned
  <1>. QED BY <1>5, <1>6

LEMMA RetryTerminalKeeps ==
  ASSUME TypeOK, JobsAreKeyed, ShellsAreOwned, NEW c \in Calls, RetryTerminal(c)
  PROVE  JobsAreKeyed' /\ ShellsAreOwned'
  <1>1. CASE Refuse(c)
    BY <1>1, RefuseKeeps DEF RetryTerminal
  <1>2. CASE Given(c, Prior(c)) /\ asked[Prior(c)].instruction = asked[c].instruction
    <2>1. /\ pc[c] \in TerminalTools /\ job[c] = NoJob
          /\ asked[c].request \in Requests
          /\ UNCHANGED <<job, request, shell, work>>
      BY <1>2 DEF RetryTerminal, JobsAreKeyed
    <2>2. Prior(c) \in Calls /\ job[Prior(c)].status # "absent"
      BY <2>1 DEF RetryTerminal, Retried, Prior, JobsAreKeyed, TypeOK, TerminalType
    <2>3. \A d \in Calls : /\ asked'[d].request = asked[d].request
                           /\ asked'[d].instruction = asked[d].instruction
                           /\ asked'[d].job = IF d = c THEN Prior(c) ELSE asked[d].job
      BY <1>2 DEF Given, TypeOK, TerminalType
    <2>4. \A d \in Calls : IF d = c THEN pc'[d] \in {"wait", "over"} ELSE pc'[d] = pc[d]
      BY <1>2 DEF Given, Step, Goto, TypeOK
    <2>5. \A d \in Calls : asked[d].job \in Calls \cup {None}
      BY DEF TypeOK, TerminalType
    <2>6. platform' = platform
      BY <1>2 DEF Given, Step, hostVars
    <2>7. JobsAreKeyed'
      BY <1>2, <2>1, <2>2, <2>3, <2>4, <2>5 DEF JobsAreKeyed, TerminalTools
    <2>8. ShellsAreOwned'
      BY <2>1, <2>6 DEF ShellsAreOwned
    <2>. QED BY <2>7, <2>8
  <1>. QED BY <1>1, <1>2 DEF RetryTerminal

LEMMA StartTerminalKeeps ==
  ASSUME TypeOK, JobsAreKeyed, ShellsAreOwned, NEW c \in Calls, StartTerminal(c)
  PROVE  JobsAreKeyed' /\ ShellsAreOwned'
  <1>1. /\ pc[c] \in TerminalTools /\ job[c] = NoJob
        /\ asked[c].request \in Requests /\ request[asked[c].request] = None
    BY DEF StartTerminal, JobsAreKeyed, Retried, Prior
  <1>2. PICK spawned \in BOOLEAN :
           /\ job' = [job EXCEPT ![c] = [status |-> IF spawned THEN "running" ELSE "failed",
                                         child |-> TRUE, kill |-> FALSE]]
           /\ shell' = [shell EXCEPT ![c] = IF spawned THEN "alive" ELSE "gone"]
    BY DEF StartTerminal
  <1>3. \A d \in Calls :
           /\ d # c => job'[d] = job[d] /\ shell'[d] = shell[d]
           /\ d = c => /\ job'[d].status # "absent" /\ job'[d].child
                       /\ shell'[d] = "alive" => job'[d].status = "running"
    BY <1>2 DEF TypeOK, TerminalType
  <1>4. request' = [request EXCEPT ![asked[c].request] = c]
    BY DEF StartTerminal
  <1>5. asked' = [asked EXCEPT ![c].job = c]
    BY DEF StartTerminal, Given
  <1>6. \A d \in Calls : /\ asked'[d].request = asked[d].request
                         /\ asked'[d].instruction = asked[d].instruction
                         /\ asked'[d].job = IF d = c THEN c ELSE asked[d].job
                         /\ asked[d].job \in Calls \cup {None}
    BY <1>5 DEF TypeOK, TerminalType
  <1>7. \A d \in Calls : IF d = c THEN pc'[d] \in {"wait", "over"} ELSE pc'[d] = pc[d]
    BY DEF StartTerminal, Given, Step, Goto, TypeOK
  <1>8. platform' = platform
    BY DEF StartTerminal, Given, Step, hostVars
  <1>9. \A r \in Requests : /\ request'[r] = IF r = asked[c].request THEN c ELSE request[r]
                            /\ request[r] \in Calls \cup {None}
    BY <1>1, <1>4 DEF TypeOK, TerminalType
  <1>10. c # None
    BY CallsAssumption
  <1>11. JobsAreKeyed'
    <2>1. \A d \in Calls : pc'[d] \in {"unused"} \cup TerminalTools =>
             job'[d] = NoJob /\ d # c
      BY <1>3, <1>7 DEF JobsAreKeyed, TerminalTools
    <2>2. \A d \in Calls : pc'[d] \in TerminalTools => asked'[d].request \in Requests
      BY <1>6, <1>7, <2>1 DEF JobsAreKeyed
    <2>3. \A d \in Calls : job'[d].status # "absent" =>
             asked'[d].request \in Requests /\ request'[asked'[d].request] = d
      BY <1>1, <1>3, <1>6, <1>9, <1>10, CallsAssumption DEF JobsAreKeyed
    <2>4. \A r \in Requests : request'[r] # None => job'[request'[r]].status # "absent"
      BY <1>1, <1>3, <1>9 DEF JobsAreKeyed
    <2>5. \A d \in Calls : asked'[d].job # None =>
             /\ job'[asked'[d].job].status # "absent"
             /\ asked'[asked'[d].job].instruction = asked'[d].instruction
      BY <1>3, <1>6 DEF JobsAreKeyed
    <2>. QED BY <2>1, <2>2, <2>3, <2>4, <2>5 DEF JobsAreKeyed
  <1>12. ShellsAreOwned'
    BY <1>3, <1>8 DEF ShellsAreOwned
  <1>. QED BY <1>11, <1>12

LEMMA WaitEndsKeeps ==
  ASSUME TypeOK, JobsAreKeyed, ShellsAreOwned, NEW c \in Calls, WaitEnds(c)
  PROVE  JobsAreKeyed' /\ ShellsAreOwned'
  <1>1. \A d \in Calls : pc'[d] = IF d = c THEN "over" ELSE pc[d]
    BY DEF WaitEnds, Step, Goto, TypeOK
  <1>2. UNCHANGED <<terminalVars, platform>>
    BY DEF WaitEnds, Step, hostVars
  <1>. QED BY <1>1, <1>2, TerminalsApart DEF Idle, TerminalTools

LEMMA CancelKeeps ==
  ASSUME TypeOK, JobsAreKeyed, ShellsAreOwned, NEW c \in Calls, Cancel(c)
  PROVE  JobsAreKeyed' /\ ShellsAreOwned'
  <1>1. PICK refused \in BOOLEAN :
           /\ refused => platform = "posix"
           /\ job' = [job EXCEPT ![c].status = IF refused THEN "failed" ELSE "cancelled",
                                 ![c].kill = TRUE]
    BY DEF Cancel
  <1>2. job[c].status = "running"
    BY DEF Cancel
  <1>3. \A j \in Calls : /\ j # c => job'[j] = job[j]
                         /\ job'[c].status \in Final
    BY <1>1 DEF TypeOK, TerminalType, Final
  <1>4. JobsAreKeyed'
    <2>1. \A j \in Calls : job[j] = NoJob => job'[j] = NoJob
      BY <1>2, <1>3 DEF NoJob
    <2>2. \A j \in Calls : job'[j].status = "absent" <=> job[j].status = "absent"
      BY <1>2, <1>3 DEF Final
    <2>3. UNCHANGED <<asked, request, pc>>
      BY DEF Cancel
    <2>. QED BY <2>1, <2>2, <2>3, KeysKept
  <1>5. \A j \in Calls : shell'[j] = IF j = c /\ platform = "win32" THEN "gone" ELSE shell[j]
    BY DEF Cancel, TypeOK, TerminalType
  <1>6. ShellsAreOwned'
    <2>1. platform' = platform
      BY DEF Cancel, hostVars
    <2>2. job'[c].status # "running"
      BY <1>3 DEF Final
    <2>. QED BY <1>3, <1>5, <2>1, <2>2 DEF ShellsAreOwned
  <1>. QED BY <1>4, <1>6

LEMMA ForceKillKeeps ==
  ASSUME TypeOK, JobsAreKeyed, ShellsAreOwned, NEW j \in Calls, ForceKill(j)
  PROVE  JobsAreKeyed' /\ ShellsAreOwned'
  <1>1. \A d \in Calls : /\ d # j => job'[d] = job[d]
                         /\ job'[d].status = job[d].status /\ job'[d].child = job[d].child
    BY DEF ForceKill, TypeOK, TerminalType
  <1>2. job[j].kill
    BY DEF ForceKill
  <1>3. JobsAreKeyed'
    BY <1>1, <1>2, KeysKept DEF ForceKill, NoJob
  <1>4. \A d \in Calls : shell'[d] = "alive" => shell[d] = "alive"
    BY DEF ForceKill, TypeOK, TerminalType
  <1>5. ShellsAreOwned'
    BY <1>1, <1>4 DEF ForceKill, hostVars, ShellsAreOwned
  <1>. QED BY <1>3, <1>5

LEMMA CloseKeeps ==
  ASSUME TypeOK, JobsAreKeyed, ShellsAreOwned, NEW j \in Calls, Close(j)
  PROVE  JobsAreKeyed' /\ ShellsAreOwned'
  <1>1. PICK status \in {"completed", "failed"} :
           job' = [job EXCEPT ![j].child = FALSE, ![j].status = Settled(j, status)]
    BY DEF Close
  <1>2. /\ \A d \in Calls \ {j} : job'[d] = job[d]
        /\ job'[j].status = Settled(j, status)
    BY <1>1 DEF TypeOK, TerminalType
  <1>3. /\ Settled(j, status) # "running"
        /\ Settled(j, status) = "absent" <=> job[j].status = "absent"
    BY <1>1 DEF Settled
  <1>4. job[j].child /\ shell[j] = "gone"
    BY DEF Close
  <1>5. JobsAreKeyed'
    <2>1. \A d \in Calls : job[d] = NoJob => job'[d] = NoJob
      BY <1>2, <1>4 DEF NoJob
    <2>2. \A d \in Calls : job'[d].status = "absent" <=> job[d].status = "absent"
      BY <1>2, <1>3
    <2>3. UNCHANGED <<asked, request, pc>>
      BY DEF Close
    <2>. QED BY <2>1, <2>2, <2>3, KeysKept
  <1>6. ShellsAreOwned'
    BY <1>2, <1>3, <1>4 DEF Close, hostVars, ShellsAreOwned
  <1>. QED BY <1>5, <1>6

LEMMA ProcessKeeps ==
  ASSUME TypeOK, JobsAreKeyed, ShellsAreOwned, NEW j \in Calls, Process(j)
  PROVE  JobsAreKeyed' /\ ShellsAreOwned'
  <1>1. JobsAreKeyed'
    <2>1. UNCHANGED <<asked, request, pc, job>>
      BY DEF Process
    <2>. QED BY <2>1, KeysKept DEF NoJob
  <1>2. \A d \in Calls : shell'[d] = "alive" => shell[d] = "alive"
    BY DEF Process, Forks, ShellExits, WorkEnds, TypeOK, TerminalType
  <1>3. ShellsAreOwned'
    BY <1>2 DEF Process, hostVars, ShellsAreOwned
  <1>. QED BY <1>1, <1>3

LEMMA StopTerminalsKeeps ==
  ASSUME TypeOK, JobsAreKeyed, ShellsAreOwned, StopTerminals
  PROVE  /\ JobsAreKeyed' /\ ShellsAreOwned'
         /\ \A j \in Calls : job'[j].status # "running"
  <1>1. \A j \in Calls :
           IF job[j].status = "running"
           THEN job'[j].status = "cancelled"
           ELSE job'[j] = job[j]
    BY DEF StopTerminals, Stopped, ShellsAreOwned, TypeOK, TerminalType
  <1>2. JobsAreKeyed'
    <2>1. \A j \in Calls : job[j] = NoJob => job'[j] = NoJob
      BY <1>1 DEF NoJob
    <2>2. \A j \in Calls : job'[j].status = "absent" <=> job[j].status = "absent"
      BY <1>1
    <2>3. UNCHANGED <<asked, request, pc>>
      BY DEF StopTerminals, ToolsStop
    <2>. QED BY <2>1, <2>2, <2>3, KeysKept
  <1>3. \A j \in Calls :
           shell'[j] = "alive" =>
              shell[j] = "alive" /\ ~(platform = "win32" /\ job[j].status = "running")
    BY DEF StopTerminals, Stopped, Reached, ShellsAreOwned
  <1>4. ShellsAreOwned'
    BY <1>1, <1>3 DEF StopTerminals, ToolsStop, ShellsAreOwned
  <1>. QED BY <1>1, <1>2, <1>4

-----------------------------------------------------------------------------
(* The imports *)

ImportsAreOwned == DestinationIsOwned /\ TempIsOwned /\ OutcomeIsTrue

\* One lemma for each step of an import.
LEMMA ImportRefusedKeeps ==
  ASSUME TypeOK, ImportsAreOwned, NEW c \in Calls, ImportRefused(c)
  PROVE  ImportsAreOwned'
  <1>. USE CallsAssumption DEF ImportRefused, Step, Goto, TypeOK, ImportType, ImportsAreOwned
  <1>1. DestinationIsOwned'
    BY DEF DestinationIsOwned
  <1>2. TempIsOwned'
    BY DEF TempIsOwned
  <1>3. OutcomeIsTrue'
    BY DEF DestinationIsOwned, OutcomeIsTrue
  <1>. QED BY <1>1, <1>2, <1>3

LEMMA ValidateKeeps ==
  ASSUME TypeOK, ImportsAreOwned, NEW c \in Calls, Validate(c)
  PROVE  ImportsAreOwned'
  <1>. USE CallsAssumption DEF Validate, importVars, Step, Goto, TypeOK, ImportType, ImportsAreOwned
  <1>1. DestinationIsOwned'
    BY DEF DestinationIsOwned
  <1>2. TempIsOwned'
    BY DEF TempIsOwned
  <1>3. OutcomeIsTrue'
    BY DEF DestinationIsOwned, OutcomeIsTrue
  <1>. QED BY <1>1, <1>2, <1>3

LEMMA OpenTempKeeps ==
  ASSUME TypeOK, ImportsAreOwned, NEW c \in Calls, OpenTemp(c)
  PROVE  ImportsAreOwned'
  <1>. USE CallsAssumption DEF OpenTemp, Step, Goto, TypeOK, ImportType, ImportsAreOwned
  <1>1. DestinationIsOwned'
    BY DEF DestinationIsOwned
  <1>2. TempIsOwned'
    BY DEF TempIsOwned
  <1>3. OutcomeIsTrue'
    BY DEF DestinationIsOwned, OutcomeIsTrue
  <1>. QED BY <1>1, <1>2, <1>3

LEMMA DownloadedKeeps ==
  ASSUME TypeOK, ImportsAreOwned, NEW c \in Calls, Downloaded(c)
  PROVE  ImportsAreOwned'
  <1>. USE CallsAssumption DEF Downloaded, Step, Goto, TypeOK, ImportType, ImportsAreOwned
  <1>1. DestinationIsOwned'
    BY DEF DestinationIsOwned
  <1>2. TempIsOwned'
    BY DEF TempIsOwned
  <1>3. OutcomeIsTrue'
    BY DEF DestinationIsOwned, OutcomeIsTrue
  <1>. QED BY <1>1, <1>2, <1>3

LEMMA ThrowsKeeps ==
  ASSUME TypeOK, ImportsAreOwned, NEW c \in Calls, Throws(c)
  PROVE  ImportsAreOwned'
  <1>. USE CallsAssumption DEF Throws, Step, Goto, TypeOK, ImportType, ImportsAreOwned
  <1>1. DestinationIsOwned'
    BY DEF DestinationIsOwned
  <1>2. TempIsOwned'
    BY DEF TempIsOwned
  <1>3. OutcomeIsTrue'
    BY DEF DestinationIsOwned, OutcomeIsTrue
  <1>. QED BY <1>1, <1>2, <1>3

LEMMA RecheckKeeps ==
  ASSUME TypeOK, ImportsAreOwned, NEW c \in Calls, Recheck(c)
  PROVE  ImportsAreOwned'
  <1>. USE CallsAssumption DEF Recheck, importVars, Step, Goto, TypeOK, ImportType, ImportsAreOwned
  <1>1. DestinationIsOwned'
    BY DEF DestinationIsOwned
  <1>2. TempIsOwned'
    BY DEF TempIsOwned
  <1>3. OutcomeIsTrue'
    BY DEF DestinationIsOwned, OutcomeIsTrue
  <1>. QED BY <1>1, <1>2, <1>3

LEMMA RenameKeeps ==
  ASSUME TypeOK, ImportsAreOwned, NEW c \in Calls, Rename(c)
  PROVE  ImportsAreOwned'
  <1>. USE CallsAssumption DEF Rename, PlacedBy, Place, Step, Goto, TypeOK, ImportType, ImportsAreOwned
  <1>1. DestinationIsOwned'
    BY DEF DestinationIsOwned
  <1>2. TempIsOwned'
    BY DEF TempIsOwned
  <1>3. OutcomeIsTrue'
    BY DEF DestinationIsOwned, OutcomeIsTrue
  <1>. QED BY <1>1, <1>2, <1>3

LEMMA LinkKeeps ==
  ASSUME TypeOK, ImportsAreOwned, NEW c \in Calls, Link(c)
  PROVE  ImportsAreOwned'
  <1>. USE CallsAssumption DEF Link, Place, Step, Goto, TypeOK, ImportType, ImportsAreOwned
  <1>1. DestinationIsOwned'
    BY DEF DestinationIsOwned
  <1>2. TempIsOwned'
    BY DEF TempIsOwned
  <1>3. OutcomeIsTrue'
    BY OutcomesAssumption DEF DestinationIsOwned, OutcomeIsTrue
  <1>. QED BY <1>1, <1>2, <1>3

LEMMA LinkFailsKeeps ==
  ASSUME TypeOK, ImportsAreOwned, NEW c \in Calls, LinkFails(c)
  PROVE  ImportsAreOwned'
  <1>. USE CallsAssumption DEF LinkFails, importVars, Step, Goto, TypeOK, ImportType, ImportsAreOwned
  <1>1. DestinationIsOwned'
    BY DEF DestinationIsOwned
  <1>2. TempIsOwned'
    BY DEF TempIsOwned
  <1>3. OutcomeIsTrue'
    BY DEF DestinationIsOwned, OutcomeIsTrue
  <1>. QED BY <1>1, <1>2, <1>3

LEMMA CopyKeeps ==
  ASSUME TypeOK, ImportsAreOwned, NEW c \in Calls, Copy(c)
  PROVE  ImportsAreOwned'
  <1>. USE CallsAssumption DEF Copy, Place, Step, Goto, TypeOK, ImportType, ImportsAreOwned
  <1>1. DestinationIsOwned'
    BY DEF DestinationIsOwned
  <1>2. TempIsOwned'
    BY DEF TempIsOwned
  <1>3. OutcomeIsTrue'
    BY OutcomesAssumption DEF DestinationIsOwned, OutcomeIsTrue
  <1>. QED BY <1>1, <1>2, <1>3

LEMMA CopyEndsKeeps ==
  ASSUME TypeOK, ImportsAreOwned, NEW c \in Calls, CopyEnds(c)
  PROVE  ImportsAreOwned'
  <1>. USE CallsAssumption DEF CopyEnds, Step, Goto, TypeOK, ImportType, ImportsAreOwned
  <1>1. DestinationIsOwned'
    BY DEF DestinationIsOwned
  <1>2. TempIsOwned'
    BY DEF TempIsOwned
  <1>3. OutcomeIsTrue'
    BY DEF DestinationIsOwned, OutcomeIsTrue
  <1>. QED BY <1>1, <1>2, <1>3

LEMMA CopyFailsKeeps ==
  ASSUME TypeOK, ImportsAreOwned, NEW c \in Calls, CopyFails(c)
  PROVE  ImportsAreOwned'
  <1>. USE CallsAssumption DEF CopyFails, Nothing, Step, Goto, TypeOK, ImportType, ImportsAreOwned
  <1>1. DestinationIsOwned'
    BY DEF DestinationIsOwned
  <1>2. TempIsOwned'
    BY DEF TempIsOwned
  <1>3. OutcomeIsTrue'
    BY DEF DestinationIsOwned, OutcomeIsTrue
  <1>. QED BY <1>1, <1>2, <1>3

LEMMA UnlinkKeeps ==
  ASSUME TypeOK, ImportsAreOwned, NEW c \in Calls, Unlink(c)
  PROVE  ImportsAreOwned'
  <1>. USE CallsAssumption DEF Unlink, Step, Goto, TypeOK, ImportType, ImportsAreOwned
  <1>1. DestinationIsOwned'
    BY DEF DestinationIsOwned
  <1>2. TempIsOwned'
    BY DEF TempIsOwned
  <1>3. OutcomeIsTrue'
    BY DEF DestinationIsOwned, OutcomeIsTrue
  <1>. QED BY <1>1, <1>2, <1>3

LEMMA UnlinkFailsKeeps ==
  ASSUME TypeOK, ImportsAreOwned, NEW c \in Calls, UnlinkFails(c)
  PROVE  ImportsAreOwned'
  <1>. USE CallsAssumption DEF UnlinkFails, Step, Goto, TypeOK, ImportType, ImportsAreOwned
  <1>1. DestinationIsOwned'
    BY DEF DestinationIsOwned
  <1>2. TempIsOwned'
    BY DEF TempIsOwned
  <1>3. OutcomeIsTrue'
    BY DEF DestinationIsOwned, OutcomeIsTrue
  <1>. QED BY <1>1, <1>2, <1>3

LEMMA CleanupKeeps ==
  ASSUME TypeOK, ImportsAreOwned, NEW c \in Calls, Cleanup(c)
  PROVE  ImportsAreOwned'
  <1>. USE CallsAssumption DEF Cleanup, Step, Goto, TypeOK, ImportType, ImportsAreOwned
  <1>1. DestinationIsOwned'
    BY DEF DestinationIsOwned
  <1>2. TempIsOwned'
    <2>1. PICK removed \in BOOLEAN :
             /\ temp' = [temp EXCEPT ![c] = IF removed THEN "none" ELSE @]
             /\ import' = [import EXCEPT ![c].kept = @ \/ (~removed /\ temp[c] # "none")]
      OBVIOUS
    <2>2. \A d \in Calls : d # c => temp'[d] = temp[d] /\ import'[d] = import[d] /\ pc'[d] = pc[d]
      BY <2>1
    <2>3. removed => temp'[c] = "none"
      BY <2>1
    <2>4. ~removed => temp'[c] = temp[c]
      BY <2>1
    <2>5. import'[c].kept = (import[c].kept \/ (~removed /\ temp[c] # "none"))
      BY <2>1
    <2>. QED BY <2>2, <2>3, <2>4, <2>5 DEF TempIsOwned
  <1>3. OutcomeIsTrue'
    BY DEF DestinationIsOwned, OutcomeIsTrue
  <1>. QED BY <1>1, <1>2, <1>3

LEMMA AskImportKeeps ==
  ASSUME TypeOK, ImportsAreOwned, NEW c \in Calls, NEW overwrite \in BOOLEAN,
         AskImport(c, overwrite)
  PROVE  ImportsAreOwned'
  <1>. USE DEF AskImport, Ask, Goto, TypeOK, ImportType, ImportsAreOwned
  <1>1. DestinationIsOwned'
    BY DEF DestinationIsOwned
  <1>2. TempIsOwned'
    BY DEF TempIsOwned
  <1>3. OutcomeIsTrue'
    BY DEF OutcomeIsTrue
  <1>. QED BY <1>1, <1>2, <1>3

LEMMA LateOpenKeeps ==
  ASSUME TypeOK, ImportsAreOwned, NEW c \in Calls, LateOpen(c)
  PROVE  ImportsAreOwned'
  <1>. USE DEF LateOpen, TypeOK, ImportType, ImportsAreOwned
  <1>1. DestinationIsOwned'
    BY DEF DestinationIsOwned
  <1>2. TempIsOwned'
    BY DEF TempIsOwned
  <1>3. OutcomeIsTrue'
    BY DEF OutcomeIsTrue
  <1>. QED BY <1>1, <1>2, <1>3

LEMMA EditKeeps ==
  ASSUME TypeOK, ImportsAreOwned, Edit
  PROVE  ImportsAreOwned'
  <1>. USE CallsAssumption DEF Edit, TypeOK, ImportType, ImportsAreOwned
  <1>1. DestinationIsOwned'
    BY DEF DestinationIsOwned
  <1>2. TempIsOwned'
    BY DEF TempIsOwned
  <1>3. OutcomeIsTrue'
    BY DEF OutcomeIsTrue
  <1>. QED BY <1>1, <1>2, <1>3

-----------------------------------------------------------------------------
(* Each kind of step keeps the invariant *)

LEMMA OwnedParts ==
  Owned <=> /\ TypeOK /\ JobsAreKeyed /\ ShellsAreOwned
            /\ ImportsAreOwned /\ StopHolds
  BY DEF Owned, ImportsAreOwned

\* Steps of a terminal and of its processes.
LEMMA TerminalKeeps ==
  ASSUME Owned, NEW c \in Calls, UNCHANGED importVars,
         \/ TerminalCall(c) \/ TerminalStep(c) \/ TerminalEvent(c) \/ Process(c)
  PROVE  JobsAreKeyed' /\ ShellsAreOwned' /\ ImportsAreOwned' /\ StopHolds'
  <1>0. TypeOK /\ JobsAreKeyed /\ ShellsAreOwned /\ ImportsAreOwned /\ StopHolds
    BY OwnedParts
  <1>1. JobsAreKeyed' /\ ShellsAreOwned'
    BY <1>0, AskTerminalKeeps, RefuseKeeps, RetryTerminalKeeps, StartTerminalKeeps,
       WaitEndsKeeps, CancelKeeps, ForceKillKeeps, CloseKeeps, ProcessKeeps
    DEF TerminalCall, TerminalStep, TerminalEvent, TerminalRefused
  <1>2. \A d \in Calls : \/ pc'[d] = pc[d]
                         \/ pc[d] \in Idle /\ pc'[d] \in Idle \cup {"over"}
    <2>1. CASE TerminalCall(c)
      BY <1>0, <2>1
      DEF TerminalCall, AskTerminal, Ask, Goto, Cancel, Idle, TypeOK
    <2>2. CASE TerminalStep(c)
      <3>1. PICK to \in {"wait", "over"} : Step(c, pc[c], to) /\ pc[c] \in Idle
        BY <2>2
        DEF TerminalStep, TerminalRefused, RetryTerminal, StartTerminal, WaitEnds, Refuse, Given,
            Step, Idle
      <3>. QED BY <1>0, <3>1 DEF Step, Goto, Idle, TypeOK
    <2>3. CASE TerminalEvent(c) \/ Process(c)
      BY <2>3 DEF TerminalEvent, ForceKill, Close, Process
    <2>. QED BY <2>1, <2>2, <2>3
  <1>3. ImportsAreOwned'
    BY <1>0, <1>2, ImportsApart DEF ImportsAreOwned
  <1>4. StopHolds'
    <2>1. CASE TerminalCall(c)
      BY <1>0, <2>1, StopKept
      DEF TerminalCall, AskTerminal, Ask, Cancel, hostVars
    <2>2. CASE TerminalStep(c)
      <3>1. pc[c] \notin Over
        BY <2>2
        DEF TerminalStep, TerminalRefused, RetryTerminal, StartTerminal, WaitEnds, Step,
            TerminalTools, Over
      <3>2. UNCHANGED <<entry, host>>
        BY <2>2
        DEF TerminalStep, TerminalRefused, RetryTerminal, StartTerminal, WaitEnds, Refuse, Given,
            Step, hostVars
      <3>. QED BY <1>0, <3>1, <3>2, StopKept
    <2>3. CASE ForceKill(c)
      <3>1. \A j \in Calls : job'[j].status = job[j].status
        BY <1>0, <2>3 DEF ForceKill, TypeOK, TerminalType
      <3>2. UNCHANGED <<entry, host, pc>>
        BY <2>3 DEF ForceKill, hostVars
      <3>. QED BY <1>0, <3>1, <3>2, StopKept
    <2>4. CASE Close(c)
      <3>1. \A j \in Calls : job'[j].status = "running" => job[j].status = "running"
        BY <1>0, <2>4 DEF Close, Settled, TypeOK, TerminalType
      <3>2. UNCHANGED <<entry, host, pc>>
        BY <2>4 DEF Close, hostVars
      <3>. QED BY <1>0, <3>1, <3>2, StopKept
    <2>5. CASE Process(c)
      <3>1. UNCHANGED <<entry, host, pc, job>>
        BY <2>5 DEF Process, hostVars
      <3>. QED BY <1>0, <3>1, StopKept
    <2>. QED BY <2>1, <2>2, <2>3, <2>4, <2>5 DEF TerminalEvent
  <1>. QED BY <1>1, <1>3, <1>4

\* Steps of an import.
LEMMA ImportKeeps ==
  ASSUME Owned, NEW c \in Calls, Import(c) \/ ImportGoesOn(c)
  PROVE  JobsAreKeyed' /\ ShellsAreOwned' /\ ImportsAreOwned' /\ StopHolds'
  <1>0. TypeOK /\ JobsAreKeyed /\ ShellsAreOwned /\ ImportsAreOwned /\ StopHolds
    BY OwnedParts
  <1>1. ImportsAreOwned'
    BY <1>0, AskImportKeeps, ImportRefusedKeeps, ValidateKeeps, OpenTempKeeps, DownloadedKeeps,
       ThrowsKeeps, RecheckKeeps, RenameKeeps, LinkKeeps, LinkFailsKeeps, CopyKeeps,
       CopyEndsKeeps, CopyFailsKeeps, UnlinkKeeps, UnlinkFailsKeeps, CleanupKeeps
    DEF Import, ImportGoesOn, ImportStep
  <1>2. UNCHANGED <<terminalVars, hostVars>>
    BY DEF Import, ImportGoesOn, ImportStep, AskImport, Ask, ImportRefused, Validate, OpenTemp,
           Downloaded, Throws, Recheck, Rename, Link, LinkFails, Copy, CopyEnds, CopyFails,
           Unlink, UnlinkFails, Cleanup, Step
  <1>3. \/ host = "up" /\ pc' = [pc EXCEPT ![c] = "import"]
        \/ pc[c] \in ImportPc /\ \E to \in ImportPc \cup {"over"} : pc' = [pc EXCEPT ![c] = to]
    <2>1. CASE Import(c)
      BY <2>1 DEF Import, AskImport, Ask, Goto
    <2>2. CASE ImportGoesOn(c)
      BY <2>2
      DEF ImportGoesOn, ImportStep, ImportRefused, Validate, OpenTemp, Downloaded, Throws,
          Recheck, Rename, Link, LinkFails, Copy, CopyEnds, CopyFails, Unlink, UnlinkFails,
          Cleanup, Step, Goto, ImportPc
    <2>. QED BY <2>1, <2>2
  <1>4. \A d \in Calls : pc'[d] = pc[d] \/ pc'[d] \notin Idle
    BY <1>0, <1>3 DEF ImportPc, Idle, TerminalTools, TypeOK
  <1>5. JobsAreKeyed' /\ ShellsAreOwned'
    BY <1>0, <1>2, <1>4, TerminalsApart DEF hostVars
  <1>6. host = "up" \/ pc[c] \notin Over
    BY <1>3 DEF ImportPc, Over
  <1>7. StopHolds'
    BY <1>0, <1>2, <1>6, StopKept DEF hostVars
  <1>. QED BY <1>1, <1>5, <1>7

\* Steps of the host, of others, and of a file that opens late.
LEMMA HostKeeps ==
  ASSUME Owned,
         \/ \E c \in Calls : LateOpen(c) /\ UNCHANGED terminalVars
         \/ Edit /\ UNCHANGED terminalVars
         \/ Shutdown /\ UNCHANGED <<terminalVars, importVars>>
         \/ Stop
         \/ HostDown
  PROVE  JobsAreKeyed' /\ ShellsAreOwned' /\ ImportsAreOwned' /\ StopHolds'
  <1>0. TypeOK /\ JobsAreKeyed /\ ShellsAreOwned /\ ImportsAreOwned /\ StopHolds
    BY OwnedParts
  <1>1. CASE \E c \in Calls : LateOpen(c) /\ UNCHANGED terminalVars
    <2>1. UNCHANGED <<hostVars, pc, terminalVars>>
      BY <1>1 DEF LateOpen
    <2>2. ImportsAreOwned'
      BY <1>0, <1>1, LateOpenKeeps
    <2>3. JobsAreKeyed' /\ ShellsAreOwned'
      BY <1>0, <2>1, TerminalsApart DEF hostVars
    <2>4. StopHolds'
      BY <1>0, <2>1, StopKept DEF hostVars, terminalVars
    <2>. QED BY <2>2, <2>3, <2>4
  <1>2. CASE Edit /\ UNCHANGED terminalVars
    <2>1. UNCHANGED <<hostVars, pc, terminalVars>>
      BY <1>2 DEF Edit
    <2>2. ImportsAreOwned'
      BY <1>0, <1>2, EditKeeps
    <2>3. JobsAreKeyed' /\ ShellsAreOwned'
      BY <1>0, <2>1, TerminalsApart DEF hostVars
    <2>4. StopHolds'
      BY <1>0, <2>1, StopKept DEF hostVars, terminalVars
    <2>. QED BY <2>2, <2>3, <2>4
  <1>3. CASE Shutdown /\ UNCHANGED <<terminalVars, importVars>>
    <2>1. UNCHANGED <<platform, pc, terminalVars, importVars>> /\ host' = "closing"
      BY <1>3 DEF Shutdown
    <2>2. ImportsAreOwned'
      BY <1>0, <2>1, ImportsApart DEF ImportsAreOwned
    <2>3. JobsAreKeyed' /\ ShellsAreOwned'
      BY <1>0, <2>1, TerminalsApart
    <2>4. StopHolds'
      BY <2>1 DEF StopHolds, Graceful
    <2>. QED BY <2>2, <2>3, <2>4
  <1>4. CASE HostDown
    <2>1. UNCHANGED <<platform, entry, pc, terminalVars, importVars>> /\ host = "stopping"
      BY <1>4 DEF HostDown, Exit
    <2>2. ImportsAreOwned'
      BY <1>0, <2>1, ImportsApart DEF ImportsAreOwned
    <2>3. JobsAreKeyed' /\ ShellsAreOwned'
      BY <1>0, <2>1, TerminalsApart
    <2>4. StopHolds'
      BY <1>0, <2>1 DEF StopHolds, Graceful, terminalVars
    <2>. QED BY <2>2, <2>3, <2>4
  <1>5. CASE Stop
    <2>1. UNCHANGED <<platform, entry, pc, importVars>> /\ CallsOver
      BY <1>5 DEF Stop, StopTerminals, ToolsStop
    <2>2. ImportsAreOwned'
      BY <1>0, <2>1, ImportsApart DEF ImportsAreOwned
    <2>3. /\ JobsAreKeyed' /\ ShellsAreOwned'
          /\ \A j \in Calls : job'[j].status # "running"
      BY <1>0, <1>5, StopTerminalsKeeps DEF Stop
    <2>4. StopHolds'
      BY <2>1, <2>3 DEF StopHolds, Graceful, CallsOver
    <2>. QED BY <2>2, <2>3, <2>4
  <1>. QED BY <1>1, <1>2, <1>3, <1>4, <1>5

-----------------------------------------------------------------------------
(* The theorems *)

LEMMA InitOwned == Init => Owned
  <1>. SUFFICES ASSUME Init PROVE Owned
    OBVIOUS
  <1>1. TypeOK
    BY InitTypes
  <1>2. JobsAreKeyed /\ ShellsAreOwned
    BY DEF Init, TerminalInit, HostInit, JobsAreKeyed, ShellsAreOwned, NoJob, NotAsked,
           TerminalTools
  <1>3. DestinationIsOwned /\ TempIsOwned /\ OutcomeIsTrue
    BY CallsAssumption, OutcomesAssumption
    DEF Init, ImportInit, HostInit, DestinationIsOwned, TempIsOwned, OutcomeIsTrue, Nothing,
        NoImport
  <1>4. StopHolds
    BY DEF Init, HostInit, StopHolds, Graceful
  <1>. QED BY <1>1, <1>2, <1>3, <1>4 DEF Owned

LEMMA NextOwned == Owned /\ [Next]_vars => Owned'
  <1>. SUFFICES ASSUME Owned, [Next]_vars PROVE Owned'
    OBVIOUS
  <1>1. TypeOK'
    BY StepTypes DEF Owned
  <1>2. JobsAreKeyed' /\ ShellsAreOwned' /\ ImportsAreOwned' /\ StopHolds'
    <2>1. CASE UNCHANGED vars
      BY <2>1
      DEF vars, hostVars, terminalVars, importVars, Owned, JobsAreKeyed, ShellsAreOwned,
          ImportsAreOwned, DestinationIsOwned, TempIsOwned, OutcomeIsTrue, StopHolds, Graceful
    <2>2. CASE \E c \in Calls :
                  \/ TerminalCall(c) \/ TerminalStep(c) \/ TerminalEvent(c)
                  \/ Process(c) /\ UNCHANGED importVars
      BY <2>2, TerminalKeeps DEF TerminalCall, TerminalStep, TerminalEvent
    <2>3. CASE \E c \in Calls : Import(c) \/ ImportGoesOn(c)
      BY <2>3, ImportKeeps
    <2>. QED BY <2>1, <2>2, <2>3, HostKeeps DEF Next
  <1>. QED BY <1>1, <1>2 DEF Owned, ImportsAreOwned

\* Memory, processes, temporary files and the destination agree at every await of every call.
THEOREM CallsOwn == Spec => []Owned
  BY InitOwned, NextOwned, PTL DEF Spec

\* Every record of the tools stays well formed.
THEOREM ToolsTypeCorrect == Spec => []TypeOK
  BY CallsOwn, PTL DEF Owned

\* A request id is one process, and it runs what each answered caller asked.
THEOREM RequestsAreOneProcess == Spec => []OneProcessPerRequest
  <1>1. Owned => OneProcessPerRequest
    BY DEF Owned, JobsAreKeyed, OneProcessPerRequest
  <1>. QED BY <1>1, CallsOwn, PTL

\* What an import reports is true.
THEOREM OutcomesAreTrue == Spec => []OutcomeIsTrue
  BY CallsOwn, PTL DEF Owned

\* The HTTP host stops in order.
THEOREM HttpStopIsOrderly == Spec => []StopIsOrderly
  <1>1. Owned => StopIsOrderly
    BY DEF Owned, StopHolds, ShellsAreOwned, DestinationIsOwned, TempIsOwned, StopIsOrderly, Over
  <1>. QED BY <1>1, CallsOwn, PTL

\* No step changes the final status of a job.
THEOREM FinalIsFinal == Spec => FinalStatusStays
  <1>1. ASSUME Owned, [Next]_vars, NEW j \in Calls, job[j].status \in Final
        PROVE  job'[j].status = job[j].status
    <2>. USE DEF Owned, TypeOK, TerminalType
    <2>0. job[j].status \notin {"absent", "running"}
      BY <1>1 DEF Final
    <2>1. CASE UNCHANGED job
      BY <2>1
    <2>2. CASE \E c \in Calls : StartTerminal(c)
      <3>1. PICK c \in Calls : StartTerminal(c)
        BY <2>2
      <3>2. job[c] = NoJob
        BY <1>1, <3>1 DEF StartTerminal, JobsAreKeyed
      <3>. QED BY <1>1, <2>0, <3>1, <3>2 DEF StartTerminal, NoJob
    <2>3. CASE \E c \in Calls : Cancel(c)
      BY <1>1, <2>0, <2>3 DEF Cancel
    <2>4. CASE \E c \in Calls : ForceKill(c)
      BY <1>1, <2>4 DEF ForceKill
    <2>5. CASE \E c \in Calls : Close(c)
      BY <1>1, <2>0, <2>5 DEF Close, Settled
    <2>6. CASE Stop
      BY <1>1, <2>0, <2>6 DEF Stop, StopTerminals, Stopped
    <2>7. CASE \E c \in Calls :
                  \/ \E tool \in TerminalTools, r \in Requests, i \in Instructions :
                        AskTerminal(c, tool, r, i)
                  \/ TerminalRefused(c) \/ RetryTerminal(c) \/ WaitEnds(c) \/ Process(c)
      BY <2>1, <2>7
      DEF AskTerminal, TerminalRefused, RetryTerminal, WaitEnds, Process, terminalVars
    <2>. QED
      BY <1>1, <2>1, <2>2, <2>3, <2>4, <2>5, <2>6, <2>7
      DEF Next, vars, terminalVars, TerminalCall, TerminalStep, TerminalEvent, Import,
          ImportGoesOn, HostDown
  <1>2. Owned /\ [Next]_vars => [\A j \in Calls :
           job[j].status \in Final => job'[j].status = job[j].status]_vars
    BY <1>1
  <1>. QED BY <1>2, CallsOwn, PTL DEF Spec, FinalStatusStays

\* An import that may not overwrite replaces nothing but the file it placed.
THEOREM ImportsReplaceNothing == Spec => ExclusiveReplacesNothing
  <1>1. ASSUME Owned, NEW c \in Calls, ImportGoesOn(c), ~import[c].overwrite, target' # target
        PROVE  Free \/ import[c].placed
    <2>1. \/ Rename(c) \/ Link(c) \/ Copy(c) \/ CopyEnds(c) \/ CopyFails(c)
      BY <1>1
      DEF ImportGoesOn, ImportStep, ImportRefused, Validate, OpenTemp, Downloaded, Throws,
          Recheck, LinkFails, Unlink, UnlinkFails, Cleanup, importVars
    <2>2. CASE Rename(c)
      BY <1>1, <2>2 DEF Rename
    <2>3. CASE Link(c) \/ Copy(c)
      BY <2>3 DEF Link, Copy, MayCopy
    <2>4. CASE CopyEnds(c) \/ CopyFails(c)
      BY <1>1, <2>4 DEF CopyEnds, CopyFails, Step, Owned, DestinationIsOwned
    <2>. QED BY <2>1, <2>2, <2>3, <2>4
  <1>2. Owned => [\A c \in Calls :
           ImportGoesOn(c) /\ ~import[c].overwrite /\ target' # target =>
              Free \/ import[c].placed]_vars
    BY <1>1
  <1>. QED BY <1>2, CallsOwn, PTL DEF ExclusiveReplacesNothing

-----------------------------------------------------------------------------
(* Every call comes to its end *)

\* The longest way a call still has to its answer.  An import may try the hard link, fail to
\* remove its temporary file, and copy.
CallLeft(c) ==
    CASE pc[c] = "import" -> 10 [] pc[c] = "opening" -> 9 [] pc[c] = "writing" -> 8
      [] pc[c] = "recheck" -> 7 [] pc[c] = "commit" -> 6 [] pc[c] = "unlink" -> 5
      [] pc[c] = "copy" -> 4 [] pc[c] = "copying" -> 3 [] pc[c] = "unlinkCopy" -> 2
      [] pc[c] \in TerminalTools -> 2 [] pc[c] \in {"cleanup", "wait"} -> 1 [] OTHER -> 0

\* What a call goes through; the failures of the copy and of the removals lead on, never back.
Onward(from, to) ==
    \/ from \in TerminalTools /\ to \in {"wait", "over"}
    \/ from \in {"wait", "cleanup"} /\ to = "over"
    \/ from = "import" /\ to \in {"opening", "over"}
    \/ from = "opening" /\ to \in {"writing", "cleanup"}
    \/ from = "writing" /\ to \in {"recheck", "cleanup"}
    \/ from = "recheck" /\ to \in {"commit", "cleanup"}
    \/ from = "commit" /\ to \in {"unlink", "copy", "cleanup"}
    \/ from = "unlink" /\ to \in {"copy", "cleanup"}
    \/ from = "copy" /\ to \in {"copying", "cleanup"}
    \/ from = "copying" /\ to \in {"unlinkCopy", "cleanup"}
    \/ from = "unlinkCopy" /\ to = "cleanup"

LEMMA OnwardIsNearer ==
  ASSUME NEW c \in Calls, Onward(pc[c], pc'[c]) PROVE CallLeft(c)' < CallLeft(c)
  BY DEF Onward, CallLeft, TerminalTools

LEMMA CallLeftType == \A c \in Calls : CallLeft(c) \in 0..10
  BY DEF CallLeft

LEMMA StepMovesOne ==
  ASSUME TypeOK, NEW c \in Calls, NEW from, NEW to, Step(c, from, to)
  PROVE  pc[c] = from /\ pc'[c] = to /\ \A d \in Calls : d # c => pc'[d] = pc[d]
  BY DEF Step, Goto, TypeOK

LEMMA TerminalOnward ==
  ASSUME TypeOK, NEW c \in Calls, TerminalStep(c)
  PROVE  Onward(pc[c], pc'[c]) /\ \A d \in Calls : d # c => pc'[d] = pc[d]
  <1>1. CASE TerminalRefused(c)
    BY <1>1, StepMovesOne DEF TerminalRefused, Refuse, Onward
  <1>2. CASE RetryTerminal(c)
    BY <1>2, StepMovesOne DEF RetryTerminal, Given, Refuse, Onward
  <1>3. CASE StartTerminal(c)
    BY <1>3, StepMovesOne DEF StartTerminal, Given, Onward
  <1>4. CASE WaitEnds(c)
    BY <1>4, StepMovesOne DEF WaitEnds, Onward
  <1>. QED BY <1>1, <1>2, <1>3, <1>4 DEF TerminalStep

LEMMA ImportOnward ==
  ASSUME TypeOK, NEW c \in Calls, ImportStep(c)
  PROVE  Onward(pc[c], pc'[c]) /\ \A d \in Calls : d # c => pc'[d] = pc[d]
  <1>1. CASE ImportRefused(c) \/ Validate(c) \/ OpenTemp(c) \/ Downloaded(c) \/ Recheck(c)
    BY <1>1, StepMovesOne
    DEF ImportRefused, Validate, OpenTemp, Downloaded, Recheck, Onward
  <1>2. CASE Throws(c)
    BY <1>2, StepMovesOne DEF Throws, Onward
  <1>3. CASE Rename(c) \/ Link(c) \/ LinkFails(c) \/ Copy(c) \/ CopyEnds(c) \/ CopyFails(c)
    BY <1>3, StepMovesOne DEF Rename, Link, LinkFails, Copy, CopyEnds, CopyFails, Onward
  <1>4. CASE Unlink(c) \/ UnlinkFails(c) \/ Cleanup(c)
    BY <1>4, StepMovesOne DEF Unlink, UnlinkFails, Cleanup, Onward
  <1>. QED BY <1>1, <1>2, <1>3, <1>4 DEF ImportStep

\* A call goes through its awaits once: a step of its own brings it nearer to its answer, and
\* no other call, process, cancellation, edit or stop moves one that has been made.  What the
\* stop of the HTTP host waits for is over after at most ten steps of each call.
CallsEnd ==
    [][\A c \in Calls :
          /\ TerminalStep(c) \/ ImportGoesOn(c) => CallLeft(c)' < CallLeft(c)
          /\ pc[c] # "unused" => CallLeft(c)' <= CallLeft(c)]_vars
THEOREM CallsComeToAnEnd == Spec => CallsEnd /\ [](\A c \in Calls : CallLeft(c) \in 0..10)
  <1>1. ASSUME TypeOK, [Next]_vars, NEW c \in Calls
        PROVE  /\ TerminalStep(c) \/ ImportGoesOn(c) => CallLeft(c)' < CallLeft(c)
               /\ pc[c] # "unused" => CallLeft(c)' <= CallLeft(c)
    <2>1. TerminalStep(c) \/ ImportGoesOn(c) => CallLeft(c)' < CallLeft(c)
      BY <1>1, TerminalOnward, ImportOnward, OnwardIsNearer DEF ImportGoesOn
    <2>2. ASSUME pc[c] # "unused" PROVE pc'[c] = pc[c] \/ CallLeft(c)' < CallLeft(c)
      <3>1. ASSUME NEW d \in Calls, TerminalStep(d) \/ ImportGoesOn(d)
            PROVE  pc'[c] = pc[c] \/ CallLeft(c)' < CallLeft(c)
        BY <1>1, <2>1, <3>1, TerminalOnward, ImportOnward DEF ImportGoesOn
      <3>2. ASSUME NEW d \in Calls, TerminalCall(d) \/ Import(d) PROVE pc'[c] = pc[c]
        BY <1>1, <2>2, <3>2
        DEF TerminalCall, Import, AskTerminal, AskImport, Ask, Goto, Cancel, TypeOK
      <3>3. ASSUME NEW d \in Calls, TerminalEvent(d) \/ LateOpen(d) \/ Process(d)
            PROVE  pc' = pc
        BY <3>3 DEF TerminalEvent, ForceKill, Close, LateOpen, Process
      <3>4. CASE Edit \/ Shutdown \/ HostDown \/ UNCHANGED vars
        BY <3>4 DEF Edit, Shutdown, HostDown, Exit, vars
      <3>5. CASE Stop
        BY <3>5, Zenon DEF Stop, StopTerminals, ToolsStop
      <3>. QED BY <1>1, <3>1, <3>2, <3>3, <3>4, <3>5 DEF Next
    <2>3. pc'[c] = pc[c] => CallLeft(c)' = CallLeft(c)
      BY DEF CallLeft
    <2>4. CallLeft(c) \in 0..10 /\ (pc'[c] = pc[c] => CallLeft(c)' \in 0..10)
      BY <2>3, CallLeftType
    <2>. QED
      <3>1. pc[c] # "unused" => CallLeft(c)' <= CallLeft(c)
        BY <2>2, <2>3, <2>4 DEF CallLeft
      <3>. QED BY <2>1, <3>1
  <1>2. TypeOK /\ [Next]_vars =>
           [\A c \in Calls :
               /\ TerminalStep(c) \/ ImportGoesOn(c) => CallLeft(c)' < CallLeft(c)
               /\ pc[c] # "unused" => CallLeft(c)' <= CallLeft(c)]_vars
    BY <1>1
  <1>. QED BY <1>2, CallLeftType, ToolsTypeCorrect, PTL DEF Spec, CallsEnd
=============================================================================
