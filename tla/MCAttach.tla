------------------------------ MODULE MCAttach ------------------------------
(* Small instances of Attach for TLC. *)
EXTENDS Attach

CONSTANTS c1
=============================================================================
