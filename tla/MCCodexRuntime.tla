-------------------------- MODULE MCCodexRuntime --------------------------
(* Instances of CodexRuntime for TLC: runs are interchangeable. *)
EXTENDS CodexRuntime, TLC

Symmetry == Permutations(Runs)
=============================================================================
