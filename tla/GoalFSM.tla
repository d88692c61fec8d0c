------------------------------ MODULE GoalFSM ------------------------------
(* The goal lifecycle of internal/fsm: the states and the table of legal     *)
(* edges that every state change of a goal is checked against.               *)

GoalStates == {"proposed", "approved", "executing", "verifying",
               "done", "failed", "paused", "cancelled"}

TerminalStates == {"done", "failed", "cancelled"}

Terminal(s) == s \in TerminalStates

(* Mutant of CanTransition: the table is not consulted. *)
AnyTransition(from, to) == from \in GoalStates /\ to \in GoalStates

(* The table `legal`: the edges out of each state.  fsm.Check is this test   *)
(* with an error for an answer; a terminal state has no edge.                *)
CanTransition(from, to) ==
    \/ from = "proposed"  /\ to \in {"approved", "paused", "cancelled"}
    \/ from = "approved"  /\ to \in {"executing", "paused", "cancelled"}
    \/ from = "executing" /\ to \in {"verifying", "failed", "paused",
                                     "cancelled"}
    \/ from = "verifying" /\ to \in {"done", "failed", "executing", "paused",
                                     "cancelled"}
    \/ from = "paused"    /\ to \in {"proposed", "approved", "executing",
                                     "verifying", "cancelled"}

(* The states a goal can be paused from, hence resumed to. *)
ActiveStates == {"proposed", "approved", "executing", "verifying"}

(* The states whose goals store.Claim hands to workers. *)
RunnableStates == {"approved", "executing", "verifying"}
=============================================================================
