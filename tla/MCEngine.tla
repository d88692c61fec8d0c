----------------------------- MODULE MCEngine ------------------------------
(* Small instances of Engine for TLC. *)
EXTENDS Engine

CONSTANTS kf, kp, ks, c1, c2, v1, v2

(* kf is a key of Fake, ks a row with one caller, kp a row with two. *)
ClientsOf == [k \in Keys |-> IF k = ks THEN {c1} ELSE Callers]
=============================================================================
