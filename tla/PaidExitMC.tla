----------------------------- MODULE PaidExitMC -----------------------------
(* PaidExit for TLC: gates, requests and payments of the session are       *)
(* interchangeable in the specification and in the invariants checked.     *)
(* After MaxExits exits an instance is not followed further.               *)
EXTENDS PaidExit, TLC

CONSTANT MaxExits

Symmetry ==
  Permutations(Gates) \cup Permutations(ParkRows) \cup Permutations(Callers)

FewExits == exits <= MaxExits
=============================================================================
