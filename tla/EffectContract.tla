--------------------------- MODULE EffectContract ---------------------------
(* What the executor promises of a goal's steps (README.md, "effects"): only  *)
(* the step at the cursor runs, one attempt of its tool at a time; what the   *)
(* tool returned is what is recorded; an attempt without a recorded result is *)
(* in doubt and runs again only if the tool had taken no effect; a doubt that *)
(* cannot be settled waits for an operator; and the cursor passes committed   *)
(* steps only.                                                                *)
EXTENDS Naturals

CONSTANTS Goals, Steps

VARIABLES phase,    \* phase[g][s]: how far the step's effect is
          acts,     \* acts[g][s]: times its tool took effect
          cursor    \* cursor[g]: the step the goal is at

effectVars == <<phase, acts, cursor>>

Open == {"new", "doubt"}
InFlight == {"running", "returned", "erred"}

Becomes(g, s, p) == phase' = [phase EXCEPT ![g][s] = p]

EffectInit ==
    /\ phase = [g \in Goals |-> [s \in Steps |-> "new"]]
    /\ acts = [g \in Goals |-> [s \in Steps |-> 0]]
    /\ cursor = [g \in Goals |-> 0]

(* An attempt begins. *)
Start(g, s) ==
    /\ s = cursor[g]
    /\ phase[g][s] = "new" \/ (phase[g][s] = "doubt" /\ acts[g][s] = 0)
    /\ Becomes(g, s, "running")
    /\ UNCHANGED <<acts, cursor>>

(* The tool takes effect and returns, or fails having taken effect or not. *)
ToolEnds(g, s) ==
    /\ phase[g][s] = "running"
    /\ \E p \in {"returned", "erred"}, n \in {0, 1} :
          /\ p = "returned" => n = 1
          /\ Becomes(g, s, p)
          /\ acts' = [acts EXCEPT ![g][s] = @ + n]
    /\ UNCHANGED cursor

Record(g, s) ==
    /\ \/ phase[g][s] = "returned" /\ Becomes(g, s, "committed")
       \/ phase[g][s] = "erred" /\ Becomes(g, s, "failed")
    /\ UNCHANGED <<acts, cursor>>

(* Whoever ran it is gone before it was recorded. *)
Lose(g, s) ==
    /\ phase[g][s] \in InFlight
    /\ Becomes(g, s, "doubt")
    /\ UNCHANGED <<acts, cursor>>

(* A probe finds that it took effect. *)
Adopt(g, s) ==
    /\ phase[g][s] = "doubt" /\ acts[g][s] > 0
    /\ Becomes(g, s, "committed")
    /\ UNCHANGED <<acts, cursor>>

(* A doubt nobody can settle, or a call that needs approval. *)
Park(g, s) ==
    /\ phase[g][s] \in Open
    /\ Becomes(g, s, "needs_review")
    /\ UNCHANGED <<acts, cursor>>

OperatorResolves(g, s) ==
    /\ phase[g][s] = "needs_review"
    /\ \E p \in {"new", "committed", "failed"} : Becomes(g, s, p)
    /\ UNCHANGED <<acts, cursor>>

Advance(g) ==
    /\ cursor[g] \in Steps /\ phase[g][cursor[g]] = "committed"
    /\ cursor' = [cursor EXCEPT ![g] = @ + 1]
    /\ UNCHANGED <<phase, acts>>

EffectNext ==
    \E g \in Goals :
        \/ Advance(g)
        \/ \E s \in Steps :
              \/ Start(g, s) \/ ToolEnds(g, s) \/ Record(g, s) \/ Lose(g, s)
              \/ Adopt(g, s) \/ Park(g, s) \/ OperatorResolves(g, s)

EffectSpec == EffectInit /\ [][EffectNext]_effectVars
=============================================================================
