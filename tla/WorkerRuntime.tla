---------------------------- MODULE WorkerRuntime ----------------------------
(***************************************************************************)
(* What WorkerRuntimeControl (src/src/worker-runtime.ts) promises the      *)
(* orchestrator about one task, without workers, processes and             *)
(* notifications.                                                          *)
(*                                                                         *)
(* runTurn answers with a promise.  It may be rejected at any time: the    *)
(* caller cannot tell whether its prompt was sent.  It is resolved only    *)
(* with the result of its own prompt, once the model has completed that.   *)
(* A prompt is sent once, and only while somebody waits for it.  When      *)
(* shutdown has been called no new call is taken; what was taken before    *)
(* may still go on.                                                        *)
(***************************************************************************)
CONSTANT Runs

VARIABLES
    accepting,  \* shutdown has not been called
    promise,    \* runTurn of each run, as its caller sees it
    prompt      \* the prompt of each run, as the model sees it

vars == <<accepting, promise, prompt>>

Init ==
    /\ accepting = TRUE
    /\ promise = [r \in Runs |-> "none"]
    /\ prompt = [r \in Runs |-> "unsent"]

Turns(r, from, to) == promise[r] = from /\ promise' = [promise EXCEPT ![r] = to]

RunTurn(r) ==
    /\ \/ accepting /\ Turns(r, "none", "pending")
       \/ Turns(r, "none", "broken")
    /\ UNCHANGED <<accepting, prompt>>

Send(r) ==
    /\ promise[r] = "pending"
    /\ prompt[r] = "unsent"
    /\ prompt' = [prompt EXCEPT ![r] = "sent"]
    /\ UNCHANGED <<accepting, promise>>

\* The model completes the turn, whether or not somebody still waits for it.
Complete(r) ==
    /\ prompt[r] = "sent"
    /\ prompt' = [prompt EXCEPT ![r] = "over"]
    /\ UNCHANGED <<accepting, promise>>

Resolve(r) ==
    /\ prompt[r] = "over"
    /\ Turns(r, "pending", "kept")
    /\ UNCHANGED <<accepting, prompt>>

Reject(r) ==
    /\ Turns(r, "pending", "broken")
    /\ UNCHANGED <<accepting, prompt>>

Shutdown ==
    /\ accepting /\ accepting' = FALSE
    /\ UNCHANGED <<promise, prompt>>

Next ==
    \/ \E r \in Runs : RunTurn(r) \/ Send(r) \/ Complete(r) \/ Resolve(r) \/ Reject(r)
    \/ Shutdown

Spec == Init /\ [][Next]_vars

\* What follows: a result is one the model gave, for a prompt that was sent for it, and an
\* answer is never changed.
KeptIsReal == \A r \in Runs : promise[r] = "kept" => prompt[r] = "over"
AnswerStays ==
    [][\A r \in Runs : promise[r] \in {"kept", "broken"} => promise'[r] = promise[r]]_vars
=============================================================================
