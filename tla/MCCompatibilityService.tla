---------------------- MODULE MCCompatibilityService ----------------------
(* Instances of CompatibilityService for TLC: who uses which request ids. *)
EXTENDS CompatibilityService

CONSTANTS c1, c2, q1, q2

\* A conversation with a first turn and a follow-up, and one that uses one of its ids.
TwoAndOne == {<<c1, q1>>, <<c1, q2>>, <<c2, q2>>}
OneEach == {<<c1, q1>>, <<c2, q2>>}
=============================================================================
