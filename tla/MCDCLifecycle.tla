---------------------------- MODULE MCDCLifecycle ----------------------------
(* Bounds for checking DCLifecycle: interchangeable groups and transfers.   *)
EXTENDS DCLifecycle, TLC

Symmetry == Permutations(Groups) \cup Permutations(Transfers) \cup Permutations(Places)
=============================================================================
