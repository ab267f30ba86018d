------------------------ MODULE MCTaskOrchestrator ------------------------
(* Instances of TaskOrchestrator for TLC: request ids are interchangeable. *)
EXTENDS TaskOrchestrator, TLC

Symmetry == Permutations(Requests)
=============================================================================
