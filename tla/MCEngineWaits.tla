--------------------------- MODULE MCEngineWaits ---------------------------
(* Small instances of the whole Engine interface, Engine and Waits, for TLC.  *)
(* Steps share no state with timers and signals, so that a behaviour has only *)
(* one half of it.                                                            *)
EXTENDS MCEngine, Waits

CONSTANTS w1, w2, tp, tf, dp, df

(* w2's clock is ahead of the database's. *)
AheadOf == [w \in Waiters |-> IF w = w2 THEN 1 ELSE 0]

VARIABLE half

BothInit == Init /\ WaitsInit /\ half \in {"steps", "waits"}

BothNext ==
    /\ \/ half = "steps" /\ Next /\ UNCHANGED waitVars
       \/ half = "waits" /\ WaitsNext /\ UNCHANGED vars
    /\ UNCHANGED half

BothSpec == BothInit /\ [][BothNext]_<<vars, waitVars, half>> /\ WaitsFair
=============================================================================
