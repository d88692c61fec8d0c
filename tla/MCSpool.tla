------------------------------ MODULE MCSpool ------------------------------
(* Small instances of Spool for TLC. *)
EXTENDS Spool

CONSTANTS p1, p2
=============================================================================
