--------------------------- MODULE RuntimeEffects ---------------------------
(* Runtime implements EffectContract as long as no two workers are at the     *)
(* same tool: no stalls, and no pause of a goal whose tool is running.        *)
EXTENDS Runtime

(* The attempts of step s of goal g that are at pc. *)
InTool(g, s, pc) ==
    {w \in Workers : At(w, pc) /\ wk[w].goal = g /\ wk[w].step = s}

(* What the effects table and the workers say of a step. *)
PhaseOf(g, s) ==
    IF eff[g][s].status \in {"committed", "failed", "needs_review"}
        THEN eff[g][s].status
    ELSE IF InTool(g, s, "tool") # {} THEN "running"
    ELSE IF \E w \in InTool(g, s, "result") : wk[w].out = "committed"
        THEN "returned"
    ELSE IF InTool(g, s, "result") # {} THEN "erred"
    ELSE IF eff[g][s].attempts > 0 THEN "doubt"
    ELSE "new"

E == INSTANCE EffectContract WITH
        phase <- [g \in Goals |-> [s \in Steps |-> PhaseOf(g, s)]],
        acts <- runs,
        cursor <- [g \in Goals |-> goal[g].cursor]

(* README.md:5, executor.go:131-272: through crashes, errors and operators,   *)
(* every change of an effect, of a tool's doings and of a cursor is one the   *)
(* contract allows.  In particular a result is recorded as the tool gave it,  *)
(* and a tool that took effect runs again only if an operator says so.        *)
EffectsKept == E!EffectSpec
=============================================================================
