----------------------------- MODULE MCRuntime -----------------------------
(* Small instances of Runtime for TLC. *)
EXTENDS RuntimeEffects, TLC

CONSTANTS w1, w2, g1, g2, id1, id2, c1, pay, mail, alias

Symm == Permutations(Workers)

(* Owner names: one for each worker, or the same one for both. *)
OwnNames == [w \in Workers |-> IF w = w1 THEN id1 ELSE id2]
SharedName == [w \in Workers |-> id1]

(* JSONB that reads arguments back as they were written, and JSONB that       *)
(* rewrites a number (1e2 becomes 100): `alias` reads back as `pay`.          *)
Exact == [k \in Calls |-> k]
Rewrites == [k \in Calls |-> IF k = alias THEN pay ELSE k]

(* What each worker's process has registered: everything, or (a process of   *)
(* another release) everything but the tool `mail`, or no agent.             *)
AllTools  == [w \in Workers |-> Calls]
SomeTools == [w \in Workers |-> IF w = w1 THEN Calls ELSE Calls \ {mail}]
AllAgents  == [w \in Workers |-> Goals]
SomeAgents == [w \in Workers |-> IF w = w1 THEN Goals ELSE {}]

Faults(crash, error, stall, pause, resume, resolve) ==
    [crash |-> crash, error |-> error, stall |-> stall, pause |-> pause,
     resume |-> resume, resolve |-> resolve]

NoErrors  == Faults(1, 0, 1, 1, 1, 1)
CrashOnly == Faults(2, 1, 0, 0, 1, 1)
OneStall  == Faults(0, 0, 1, 0, 0, 0)
TwoSignals == Faults(0, 0, 0, 1, 2, 0)
OneCrash  == Faults(1, 0, 0, 0, 0, 0)
=============================================================================
