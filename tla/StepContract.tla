---------------------------- MODULE StepContract ----------------------------
(* What the Engine interface (internal/engine/engine.go) promises of a step:  *)
(* fn runs at most once at a time for a key, an attempt that was recorded     *)
(* and never resolved is in doubt, a doubt is settled by a probe or by an     *)
(* operator and by nobody else, and every caller is told the recorded         *)
(* outcome.                                                                   *)

CONSTANTS Keys,      \* idempotency keys
          Callers,   \* concurrent callers of ScheduleStep
          Probing,   \* the callers that pass a probe
          Vals,      \* results of fn
          None       \* no caller

VARIABLES phase,     \* phase[k]: what is durably known of k
          runner,    \* runner[k]: the caller whose fn is in flight, or None
          told       \* told[k]: the outcomes callers were given

contractVars == <<phase, runner, told>>

Open(status) == [status |-> status, val |-> None]

(* "new" is also a step that an operator sent back with "retry". *)
New == Open("new")
Running == Open("running")
Doubt == Open("doubt")
InReview == Open("review")

Committed == [status : {"committed"}, val : Vals]
Outcomes == Committed \cup {Open("failed")}

-----------------------------------------------------------------------------
ContractInit ==
    /\ phase = [k \in Keys |-> New]
    /\ runner = [k \in Keys |-> None]
    /\ told = [k \in Keys |-> {}]

(* fn starts for a fresh step, or for one in doubt when the caller's probe   *)
(* did not find the work done.                                               *)
Start(c, k) ==
    /\ runner[k] = None
    /\ phase[k] = New \/ (phase[k] = Doubt /\ c \in Probing)
    /\ phase' = [phase EXCEPT ![k] = Running]
    /\ runner' = [runner EXCEPT ![k] = c]
    /\ UNCHANGED told

(* The caller in flight records its outcome and is given it. *)
Finish(c, k) ==
    /\ phase[k] = Running /\ runner[k] = c
    /\ \E o \in Outcomes :
          /\ phase' = [phase EXCEPT ![k] = o]
          /\ told' = [told EXCEPT ![k] = @ \cup {o}]
    /\ runner' = [runner EXCEPT ![k] = None]

(* It dies before it records one. *)
Lose(c, k) ==
    /\ phase[k] = Running /\ runner[k] = c
    /\ phase' = [phase EXCEPT ![k] = Doubt]
    /\ runner' = [runner EXCEPT ![k] = None]
    /\ UNCHANGED told

(* A probe finds the work done: its result is adopted, fn is not run. *)
Adopt(k) ==
    /\ phase[k] = Doubt
    /\ \E o \in Committed :
          /\ phase' = [phase EXCEPT ![k] = o]
          /\ told' = [told EXCEPT ![k] = @ \cup {o}]
    /\ UNCHANGED runner

(* A caller without a probe hands the doubt to an operator. *)
Review(k) ==
    /\ phase[k] = Doubt
    /\ phase' = [phase EXCEPT ![k] = InReview]
    /\ UNCHANGED <<runner, told>>

(* Resolve: retry, committed or failed. *)
OperatorResolve(k) ==
    /\ phase[k] = InReview
    /\ \E p \in Outcomes \cup {New} : phase' = [phase EXCEPT ![k] = p]
    /\ UNCHANGED <<runner, told>>

(* A later call is told the recorded outcome. *)
Tell(k) ==
    /\ phase[k] \in Outcomes
    /\ told' = [told EXCEPT ![k] = @ \cup {phase[k]}]
    /\ UNCHANGED <<phase, runner>>

ContractNext ==
    \E k \in Keys :
        \/ \E c \in Callers : Start(c, k) \/ Finish(c, k) \/ Lose(c, k)
        \/ Adopt(k) \/ Review(k) \/ OperatorResolve(k) \/ Tell(k)

ContractSpec == ContractInit /\ [][ContractNext]_contractVars
=============================================================================
