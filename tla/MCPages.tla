------------------------------ MODULE MCPages -------------------------------
(* Two projects, an address type under its own slug and one under another.   *)
EXTENDS Server

CONSTANTS A, B
=============================================================================
