--------------------------- MODULE MCChallanStore ---------------------------
(* Bounds for checking ChallanStore: interchangeable requests, groups, places. *)
EXTENDS ChallanStore, TLC

Symmetry == Permutations(Requests) \cup Permutations(Groups) \cup Permutations(Places)
=============================================================================
