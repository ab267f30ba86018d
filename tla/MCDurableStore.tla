--------------------------- MODULE MCDurableStore ---------------------------
(* TLC instance of DurableStore: callers are interchangeable, and so are     *)
(* ledger keys.                                                              *)
EXTENDS DurableStore, TLC

Symmetry == Permutations(Clients) \cup Permutations(Requests)
=============================================================================
