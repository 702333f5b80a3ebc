---------------------------- MODULE MCSerialIssue ----------------------------
(* Bounds for checking SerialIssue: quantities up to two pieces.            *)
EXTENDS SerialIssue, TLC

MCQtys == 0 .. 2
Symmetry == Permutations(DCs) \cup Permutations(Templates) \cup Permutations(Serials)
=============================================================================
