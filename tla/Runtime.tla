------------------------------ MODULE Runtime ------------------------------
(* The core of Harbour: goals leased to workers, each step's tool call run    *)
(* under a two-phase commit (intent, attempt, tool, result), operators        *)
(* signalling goals through the API, and workers that crash, lose their       *)
(* lease or see the database fail at any point.  One action is one database   *)
(* transaction, or one call of a tool, an agent or the Warrant service.       *)
EXTENDS Integers, GoalFSM

CONSTANTS
    Goals,        \* goal ids
    Workers,      \* worker goroutines, over all processes
    Ids,          \* lease owner names
    WorkerId,     \* the owner name of each worker; names may coincide
    Calls,        \* tool calls: a tool with its canonical arguments
    ToolCalls,    \* the calls whose tool each worker's process has registered
    ProbeCalls,   \* the calls whose tool has a reconciliation probe
    Jsonb,        \* what the arguments of a call read back as from JSONB
    KnownAgents,  \* the goals whose agent each worker's process has registered
    Clients,      \* operators' resume requests in flight
    None,         \* SQL NULL
    NSteps,       \* an agent plans at most this many tool calls
    MaxSteps,     \* worker.MaxSteps: iterations of one drive
    MaxEpoch,     \* bound: claims of one goal
    MaxFaults,    \* bound: occurrences of each kind of fault or signal
    SerialOps     \* TRUE: operators send one signal at a time

Steps == 0 .. NSteps - 1

(* What the environment does a bounded number of times.  A "stall" is a live  *)
(* worker whose heartbeats do not reach the database for a whole lease TTL.   *)
FaultKinds == {"crash", "error", "stall", "pause", "resume", "resolve"}

ASSUME ConstantsAssumption ==
    /\ WorkerId \in [Workers -> Ids]
    /\ ToolCalls \in [Workers -> SUBSET Calls]
    /\ KnownAgents \in [Workers -> SUBSET Goals]
    /\ ProbeCalls \subseteq Calls
    /\ Jsonb \in [Calls -> Calls]
    /\ NSteps \in Nat
    /\ MaxSteps \in Nat
    /\ MaxEpoch \in Nat
    /\ MaxFaults \in [FaultKinds -> Nat]
    /\ SerialOps \in BOOLEAN
    /\ None \notin Goals \cup Ids \cup Calls \cup GoalStates
                  \cup {"committed", "failed"}

VARIABLES
    goal,      \* the goals table
    eff,       \* the effects table: at most one row for a goal's step
    recorded,  \* the steps table: the steps recorded for each goal
    wk,        \* the local state of each worker
    pending,   \* the resume requests between their two transactions
    used,      \* how often each kind of fault has happened
    runs,      \* the outside world: times a step's tool took effect
    retried,   \* history: times an operator resolved a step with "retry"
    flagged,   \* history: <<goal, step>> whose call the agent flagged
    approved,  \* history: goals an operator has approved
    writer     \* history: lease epoch of the last fenced write to a goal

vars == <<goal, eff, recorded, wk, pending, used, runs, retried, flagged,
          approved, writer>>

history == <<retried, flagged, approved, writer>>

EffectStates == {"absent", "intent", "committed", "failed", "needs_review"}

(* `expires` compares lease_expires with the database's clock, the only       *)
(* clock leases use: NULL, in the future or in the past.                      *)
GoalRow == [state: GoalStates \cup {"absent"},
            pausedFrom: ActiveStates \cup {None},
            cursor: 0 .. NSteps,
            owner: Ids \cup {None},
            epoch: Nat,
            expires: {"null", "future", "past"}]

EffectRow == [status: EffectStates, attempts: Nat, key: Calls \cup {None}]

(* Where a worker stands: the name of the transaction or call it makes next.  *)
FencedMoves == {"begin", "finish", "doneGoal", "failGoal", "pauseGoal",
                "cancelGoal"}
StepPcs == {"step", "intent", "approvalIntent", "flagReview", "markReview",
            "probe", "probed", "authorize", "attempt", "tool", "result",
            "commitStep"}
Pcs == {"idle", "load", "verify", "release"} \cup FencedMoves \cup StepPcs

WorkerState == [pc: Pcs, goal: Goals \cup {None}, epoch: Nat,
                step: 0 .. NSteps, call: Calls \cup {None},
                out: {"committed", "failed", None}, iter: 0 .. MaxSteps]

IdleWorker == [pc |-> "idle", goal |-> None, epoch |-> 0, step |-> 0,
               call |-> None, out |-> None, iter |-> 0]

Inserted(state) == [state |-> state, pausedFrom |-> None, cursor |-> 0,
                    owner |-> None, epoch |-> 0, expires |-> "null"]

NoEffect == [status |-> "absent", attempts |-> 0, key |-> None]

Init ==
    /\ goal = [g \in Goals |-> Inserted("absent")]
    /\ eff = [g \in Goals |-> [s \in Steps |-> NoEffect]]
    /\ recorded = [g \in Goals |-> {}]
    /\ wk = [w \in Workers |-> IdleWorker]
    /\ pending = [c \in Clients |-> None]
    /\ used = [k \in FaultKinds |-> 0]
    /\ runs = [g \in Goals |-> [s \in Steps |-> 0]]
    /\ retried = [g \in Goals |-> [s \in Steps |-> 0]]
    /\ flagged = {}
    /\ approved = {}
    /\ writer = [g \in Goals |-> 0]
----------------------------------------------------------------------------
(* The goals table.                                                           *)

(* Mutant of Holds: the lease is checked by owner name alone. *)
HoldsByName(w) == wk[w].goal \in Goals /\ goal[wk[w].goal].owner = WorkerId[w]

(* checkLease: w's lease is the one the goal's row names. *)
Holds(w) ==
    /\ wk[w].goal \in Goals
    /\ goal[wk[w].goal].owner = WorkerId[w]
    /\ goal[wk[w].goal].epoch = wk[w].epoch

(* Mutant of DropsLease: only a pause drops the lease. *)
DropsOnPauseOnly(to) == to = "paused"

DropsLease(to) == to = "paused" \/ Terminal(to)

(* Mutant of Moved: paused_from is not reset. *)
MovedKeepsFrom(r, to) ==
    [r EXCEPT !.state = to, !.pausedFrom = r.state,
              !.owner = IF DropsLease(to) THEN None ELSE r.owner,
              !.expires = IF DropsLease(to) THEN "null" ELSE r.expires]

(* The row Transition and TransitionFenced write. *)
Moved(r, to) ==
    [state      |-> to,
     pausedFrom |-> IF to = "paused" THEN r.state ELSE None,
     cursor     |-> r.cursor,
     owner      |-> IF DropsLease(to) THEN None ELSE r.owner,
     epoch      |-> r.epoch,
     expires    |-> IF DropsLease(to) THEN "null" ELSE r.expires]

(* The row with its lease columns set. *)
Leased(r, owner, epoch, expires) ==
    [state |-> r.state, pausedFrom |-> r.pausedFrom, cursor |-> r.cursor,
     owner |-> owner, epoch |-> epoch, expires |-> expires]

Advanced(r) ==
    [state |-> r.state, pausedFrom |-> r.pausedFrom, cursor |-> r.cursor + 1,
     owner |-> r.owner, epoch |-> r.epoch, expires |-> r.expires]

Spend(k) ==
    /\ used[k] < MaxFaults[k]
    /\ used' = [used EXCEPT ![k] = @ + 1]

(* Operators racing each other are ruled out when SerialOps is TRUE. *)
Quiet == SerialOps => \A c \in Clients : pending[c] = None

Transition(g, to) ==
    /\ CanTransition(goal[g].state, to)
    /\ goal' = [goal EXCEPT ![g] = Moved(goal[g], to)]
    /\ UNCHANGED <<eff, recorded, wk, runs, retried, flagged, writer>>

Create(g) ==
    /\ goal[g].state = "absent"
    /\ goal' = [goal EXCEPT ![g] = Inserted("proposed")]
    /\ UNCHANGED <<eff, recorded, wk, pending, used, runs, history>>

(* The approve signal, and the second transaction of a submit with approve:   *)
(* both are Transition to approved, legal from proposed and from paused.      *)
Approve(g) ==
    /\ Quiet
    /\ IF goal[g].state = "paused" THEN Spend("resume") ELSE UNCHANGED used
    /\ Transition(g, "approved")
    /\ approved' = approved \cup {g}
    /\ UNCHANGED pending

Pause(g) ==
    /\ Quiet
    /\ Spend("pause")
    /\ Transition(g, "paused")
    /\ UNCHANGED <<pending, approved>>

Cancel(g) ==
    /\ Quiet
    /\ Transition(g, "cancelled")
    /\ UNCHANGED <<pending, used, approved>>

(* Mutant of ResumeTarget: a resume always returns to approved. *)
TargetApproved(g) == "approved"

ResumeTarget(g) == goal[g].pausedFrom

(* Resume reads the state to return to in one transaction ...                 *)
ResumeRead(c, g) ==
    /\ Quiet
    /\ pending[c] = None
    /\ goal[g].state = "paused"
    /\ goal[g].pausedFrom # None
    /\ Spend("resume")
    /\ pending' = [pending EXCEPT ![c] = [goal |-> g, to |-> ResumeTarget(g)]]
    /\ UNCHANGED <<goal, eff, recorded, wk, runs, history>>

(* ... and moves the goal there in another, whatever happened in between.     *)
ResumeApply(c) ==
    /\ pending[c] # None
    /\ pending' = [pending EXCEPT ![c] = None]
    /\ UNCHANGED <<used, approved>>
    /\ \/ Transition(pending[c].goal, pending[c].to)
       \/ /\ ~ CanTransition(goal[pending[c].goal].state, pending[c].to)
          /\ UNCHANGED <<goal, eff, recorded, wk, runs, retried, flagged, writer>>
----------------------------------------------------------------------------
(* The effects table.                                                         *)

SetEffect(g, s, row) == eff' = [eff EXCEPT ![g][s] = row]

(* Mutant of Settled: the last writer wins. *)
SettledLastWins(row, to) == [row EXCEPT !.status = to]

(* A result or a review flag is written only while the row is an intent. *)
Settled(row, to) ==
    [status   |-> IF row.status = "intent" THEN to ELSE row.status,
     attempts |-> row.attempts,
     key      |-> row.key]

(* Mutant of Attempted: the attempt is not counted before the tool runs. *)
AttemptedNot(row) == row

Attempted(row) ==
    [status   |-> row.status,
     attempts |-> IF row.status = "intent" THEN row.attempts + 1
                                           ELSE row.attempts,
     key      |-> row.key]

(* An operator settles a needs_review effect; retry re-arms it from scratch.  *)
ResolveReview(g, s, action) ==
    /\ eff[g][s].status = "needs_review"
    /\ Spend("resolve")
    /\ IF action = "retry"
       THEN /\ SetEffect(g, s, [status |-> "intent", attempts |-> 0,
                                key |-> eff[g][s].key])
            /\ retried' = [retried EXCEPT ![g][s] = @ + 1]
       ELSE /\ SetEffect(g, s, [status |-> action,
                                attempts |-> eff[g][s].attempts,
                                key |-> eff[g][s].key])
            /\ UNCHANGED retried
    /\ UNCHANGED <<goal, recorded, wk, pending, runs, flagged, approved, writer>>
----------------------------------------------------------------------------
(* Workers.  A worker's locals are dropped when it leaves worker.step.        *)

At(w, p) == wk[w].pc = p

Locals(r, p, step, call, out) ==
    [pc |-> p, goal |-> r.goal, epoch |-> r.epoch, step |-> step,
     call |-> call, out |-> out, iter |-> r.iter]

AtPc(r, p) == IF p \in StepPcs THEN Locals(r, p, r.step, r.call, r.out)
                               ELSE Locals(r, p, 0, None, None)

Goto(w, p) == wk' = [wk EXCEPT ![w] = AtPc(wk[w], p)]

(* The effect row of the step w is at. *)
Row(w) == eff[wk[w].goal][wk[w].step]
SetRow(w, row) == SetEffect(wk[w].goal, wk[w].step, row)

(* A fenced write: the history remembers the epoch it was made under. *)
FencedWrite(w) ==
    /\ Holds(w)
    /\ writer' = [writer EXCEPT ![wk[w].goal] = wk[w].epoch]

(* Mutant of Claimable: an expired lease is not taken over. *)
ClaimableUnleased(g) ==
    goal[g].state \in RunnableStates /\ goal[g].owner = None

Claimable(g) ==
    /\ goal[g].state \in RunnableStates
    /\ goal[g].owner = None \/ goal[g].expires = "past"

Claimed(g, e) == [pc |-> "load", goal |-> g, epoch |-> e, step |-> 0,
                  call |-> None, out |-> None, iter |-> 0]

Claim(w, g) ==
    /\ At(w, "idle")
    /\ Claimable(g)
    /\ goal[g].epoch < MaxEpoch
    /\ LET e == goal[g].epoch + 1 IN
       /\ goal' = [goal EXCEPT ![g] = Leased(goal[g], WorkerId[w], e, "future")]
       /\ wk' = [wk EXCEPT ![w] = Claimed(g, e)]
    /\ UNCHANGED <<eff, recorded, pending, used, runs, history>>

(* failFrom: a goal with an unknown agent that never started is cancelled. *)
LoadPc(w, g) ==
    IF g \notin KnownAgents[w]
    THEN IF goal[g].state = "approved" THEN "cancelGoal" ELSE "failGoal"
    ELSE CASE goal[g].state = "approved"  -> "begin"
           [] goal[g].state = "executing" -> "step"
           [] goal[g].state = "verifying" -> "verify"
           [] OTHER -> "release"

(* One iteration of drive: LoadFenced, then dispatch on the state. *)
Load(w) ==
    /\ At(w, "load")
    /\ wk[w].iter < MaxSteps
    /\ Holds(w)
    /\ LET g == wk[w].goal
           p == LoadPc(w, g)
       IN wk' = [wk EXCEPT ![w] =
                    [pc |-> p, goal |-> g, epoch |-> wk[w].epoch,
                     step |-> IF p = "step" THEN goal[g].cursor ELSE 0,
                     call |-> None, out |-> None, iter |-> wk[w].iter + 1]]
    /\ UNCHANGED <<goal, eff, recorded, pending, used, runs, history>>

MaxStepsExceeded(w) ==
    /\ At(w, "load")
    /\ wk[w].iter = MaxSteps
    /\ Goto(w, "release")
    /\ UNCHANGED <<goal, eff, recorded, pending, used, runs, history>>

(* Mutant of VerifyPcs: a failed verification executes the goal again. *)
VerifyPcsRetry == {"doneGoal", "begin"}

VerifyPcs == {"doneGoal", "failGoal"}

(* agent.Verify decides between done and failed. *)
Verify(w) ==
    /\ At(w, "verify")
    /\ \E p \in VerifyPcs : Goto(w, p)
    /\ UNCHANGED <<goal, eff, recorded, pending, used, runs, history>>

MoveTarget(p) ==
    CASE p = "begin"     -> "executing"
      [] p = "finish"    -> "verifying"
      [] p = "doneGoal"  -> "done"
      [] p = "failGoal"  -> "failed"
      [] p = "pauseGoal" -> "paused"
      [] OTHER           -> "cancelled"

(* TransitionFenced; an illegal edge is an error that ends the drive. *)
TransitionFenced(w) ==
    /\ wk[w].pc \in FencedMoves
    /\ Holds(w)
    /\ LET g  == wk[w].goal
           to == MoveTarget(wk[w].pc)
       IN \/ /\ CanTransition(goal[g].state, to)
             /\ goal' = [goal EXCEPT ![g] = Moved(goal[g], to)]
             /\ FencedWrite(w)
             /\ Goto(w, IF wk[w].pc \in {"begin", "finish"}
                        THEN "load" ELSE "release")
          \/ /\ ~ CanTransition(goal[g].state, to)
             /\ Goto(w, "release")
             /\ UNCHANGED <<goal, writer>>
    /\ UNCHANGED <<eff, recorded, pending, used, runs, retried, flagged, approved>>

(* Mutant of HasEffect: the row of the step is not looked up. *)
EffectNotSought(w) == FALSE

(* EffectByStep at the cursor. *)
HasEffect(w) == wk[w].step \in Steps /\ Row(w).status # "absent"

(* A step that already has an effect row is bound to the call recorded there. *)
ReuseEffect(w) ==
    /\ At(w, "step")
    /\ HasEffect(w)
    /\ wk' = [wk EXCEPT ![w] = Locals(wk[w], "intent", wk[w].step,
                                      Jsonb[Row(w).key], None)]
    /\ UNCHANGED <<goal, eff, recorded, pending, used, runs, history>>

(* Otherwise the agent is asked: it fails, finishes, or plans a call that it  *)
(* may flag as derived from untrusted content (RequiresApproval).             *)
AskAgent(w) ==
    /\ At(w, "step")
    /\ ~ HasEffect(w)
    /\ \/ \E p \in {"failGoal", "finish"} : Goto(w, p)
       \/ /\ wk[w].step \in Steps
          /\ \E p \in {"intent", "approvalIntent"}, k \in Calls :
                wk' = [wk EXCEPT ![w] = Locals(wk[w], p, wk[w].step, k, None)]
    /\ UNCHANGED <<goal, eff, recorded, pending, used, runs, history>>
----------------------------------------------------------------------------
(* executor.Run and its callees.                                              *)

(* An unregistered tool is an error of Run: the drive ends, the goal stays.   *)
UnknownTool(w) ==
    /\ At(w, "intent")
    /\ wk[w].call \notin ToolCalls[w]
    /\ Goto(w, "release")
    /\ UNCHANGED <<goal, eff, recorded, pending, used, runs, history>>

(* Mutant of SettlePc: an in-doubt effect is run again without a probe. *)
SettlePcBlindRetry(row) ==
    CASE row.status = "committed"    -> "commitStep"
      [] row.status = "failed"       -> "failGoal"
      [] row.status = "needs_review" -> "pauseGoal"
      [] OTHER -> "authorize"

(* Mutant of SettlePc: an effect under review passes for a committed one. *)
SettlePcReviewed(row) ==
    CASE row.status \in {"committed", "needs_review"} -> "commitStep"
      [] row.status = "failed" -> "failGoal"
      [] row.status = "intent" /\ row.attempts = 0 -> "authorize"
      [] OTHER -> IF row.key \in ProbeCalls THEN "probe" ELSE "markReview"

(* settle and Reconcile, up to their first transaction or external call. *)
SettlePc(row) ==
    CASE row.status = "committed"    -> "commitStep"
      [] row.status = "failed"       -> "failGoal"
      [] row.status = "needs_review" -> "pauseGoal"
      [] row.status = "intent" /\ row.attempts = 0 -> "authorize"
      [] OTHER -> IF row.key \in ProbeCalls THEN "probe" ELSE "markReview"

(* Phase (a).  The row is created, or found with its status and attempts;     *)
(* a row under another key is an error that ends the drive.                   *)
CommitIntent(w) ==
    /\ At(w, "intent")
    /\ wk[w].call \in ToolCalls[w]
    /\ Holds(w)
    /\ \/ /\ Row(w).status = "absent"
          /\ SetRow(w, [status |-> "intent", attempts |-> 0, key |-> wk[w].call])
          /\ FencedWrite(w)
          /\ Goto(w, "authorize")
       \/ /\ Row(w).status # "absent"
          /\ Goto(w, IF Row(w).key = wk[w].call THEN SettlePc(Row(w))
                                                ELSE "release")
          /\ UNCHANGED <<eff, writer>>
    /\ UNCHANGED <<goal, recorded, pending, used, runs, retried, flagged, approved>>

(* The first transaction of RequestApproval: CommitIntent again. *)
RequestApproval(w) ==
    /\ At(w, "approvalIntent")
    /\ Holds(w)
    /\ \/ /\ Row(w).status = "absent"
          /\ SetRow(w, [status |-> "intent", attempts |-> 0, key |-> wk[w].call])
          /\ flagged' = flagged \cup {<<wk[w].goal, wk[w].step>>}
          /\ FencedWrite(w)
          /\ Goto(w, "flagReview")
       \/ /\ Row(w).status # "absent"
          /\ Goto(w, "pauseGoal")
          /\ UNCHANGED <<eff, flagged, writer>>
    /\ UNCHANGED <<goal, recorded, pending, used, runs, retried, approved>>

(* Its second transaction, and the one that parks an in-doubt effect. *)
MarkNeedsReview(w) ==
    /\ wk[w].pc \in {"flagReview", "markReview"}
    /\ SetRow(w, Settled(Row(w), "needs_review"))
    /\ Goto(w, "pauseGoal")
    /\ UNCHANGED <<goal, recorded, pending, used, runs, history>>

(* The tool's probe answers truthfully, or fails. *)
Probe(w) ==
    /\ At(w, "probe")
    /\ \/ Goto(w, "markReview")
       \/ /\ runs[wk[w].goal][wk[w].step] > 0
          /\ wk' = [wk EXCEPT ![w] = Locals(wk[w], "probed", wk[w].step,
                                            wk[w].call, "committed")]
       \/ /\ runs[wk[w].goal][wk[w].step] = 0
          /\ Goto(w, "authorize")
    /\ UNCHANGED <<goal, eff, recorded, pending, used, runs, history>>

(* Warrant allows the call, or denies it (an unreachable Warrant denies).     *)
Authorize(w) ==
    /\ At(w, "authorize")
    /\ \E p \in {"attempt", "pauseGoal"} : Goto(w, p)
    /\ UNCHANGED <<goal, eff, recorded, pending, used, runs, history>>

(* Not fenced, and silent when the row is no longer an intent. *)
MarkAttempt(w) ==
    /\ At(w, "attempt")
    /\ SetRow(w, Attempted(Row(w)))
    /\ Goto(w, "tool")
    /\ UNCHANGED <<goal, recorded, pending, used, runs, history>>

(* Phase (b).  A tool that returns an error may have taken effect or not; one *)
(* whose context is cancelled returns an error.                               *)
ToolExecute(w) ==
    /\ At(w, "tool")
    /\ \E out \in {"committed", "failed"}, acted \in {0, 1} :
          /\ out = "committed" => acted = 1
          /\ runs' = [runs EXCEPT ![wk[w].goal][wk[w].step] = @ + acted]
          /\ wk' = [wk EXCEPT ![w] = Locals(wk[w], "result", wk[w].step,
                                            wk[w].call, out)]
    /\ UNCHANGED <<goal, eff, recorded, pending, used, history>>

FinalPc(status) ==
    CASE status = "committed" -> "commitStep"
      [] status = "failed"    -> "failGoal"
      [] OTHER                -> "pauseGoal"

(* Phase (c).  Not fenced: the first writer wins and every later one is told  *)
(* what was recorded (settleFinal).                                           *)
CommitResult(w) ==
    /\ wk[w].pc \in {"result", "probed"}
    /\ SetRow(w, Settled(Row(w), wk[w].out))
    /\ Goto(w, FinalPc(Settled(Row(w), wk[w].out).status))
    /\ UNCHANGED <<goal, recorded, pending, used, runs, history>>

(* The steps row and the cursor, in one fenced transaction. *)
CommitStep(w) ==
    /\ At(w, "commitStep")
    /\ Holds(w)
    /\ LET g == wk[w].goal IN
       \/ /\ goal[g].cursor = wk[w].step
          /\ wk[w].step \notin recorded[g]
          /\ recorded' = [recorded EXCEPT ![g] = @ \cup {wk[w].step}]
          /\ goal' = [goal EXCEPT ![g] = Advanced(goal[g])]
          /\ FencedWrite(w)
          /\ Goto(w, "load")
       \/ /\ goal[g].cursor # wk[w].step \/ wk[w].step \in recorded[g]
          /\ Goto(w, "release")
          /\ UNCHANGED <<goal, recorded, writer>>
    /\ UNCHANGED <<eff, pending, used, runs, retried, flagged, approved>>
----------------------------------------------------------------------------
(* Leases and failures.                                                       *)

(* RunOnce returns: the lease is given up if it is still this worker's.       *)
Release(w) ==
    /\ At(w, "release")
    /\ wk' = [wk EXCEPT ![w] = IdleWorker]
    /\ LET g == wk[w].goal IN
       goal' = IF Holds(w)
               THEN [goal EXCEPT ![g] = Leased(goal[g], None, goal[g].epoch, "null")]
               ELSE goal
    /\ UNCHANGED <<eff, recorded, pending, used, runs, history>>

(* The heartbeat goroutine revives a lease that expired unclaimed. *)
Heartbeat(w) ==
    /\ ~ At(w, "idle")
    /\ Holds(w)
    /\ LET g == wk[w].goal IN
       /\ goal[g].expires = "past"
       /\ goal' = [goal EXCEPT ![g] = Leased(goal[g], goal[g].owner,
                                             goal[g].epoch, "future")]
    /\ UNCHANGED <<eff, recorded, wk, pending, used, runs, history>>

(* A fenced transaction answers ErrLeaseLost, or the heartbeat goroutine      *)
(* learns of the loss and cancels the context.  A running tool only sees its  *)
(* context end, and phase (c) runs without it (context.WithoutCancel).        *)
LeaseLost(w) ==
    /\ wk[w].pc \notin {"idle", "release", "tool", "result"}
    /\ ~ Holds(w)
    /\ Goto(w, "release")
    /\ UNCHANGED <<goal, eff, recorded, pending, used, runs, history>>

(* A database error, or a shutdown that cancels the context.  A transaction   *)
(* that committed although its caller saw an error is the transaction         *)
(* followed by this step.                                                     *)
Error(w) ==
    /\ wk[w].pc \notin {"idle", "release"}
    /\ Spend("error")
    /\ Goto(w, "release")
    /\ UNCHANGED <<goal, eff, recorded, pending, runs, history>>

(* The process dies; its leases stay in the table until they expire.  A new   *)
(* worker takes its place, with the same owner name.                          *)
Crash(w) ==
    /\ ~ At(w, "idle")
    /\ Spend("crash")
    /\ wk' = [wk EXCEPT ![w] = IdleWorker]
    /\ UNCHANGED <<goal, eff, recorded, pending, runs, history>>

Live(g) == \E w \in Workers : wk[w].goal = g /\ Holds(w)

(* A lease runs out when its worker is gone, or stalls for a whole TTL. *)
LeaseExpires(g) ==
    /\ goal[g].expires = "future"
    /\ IF Live(g) THEN Spend("stall") ELSE UNCHANGED used
    /\ goal' = [goal EXCEPT ![g] = Leased(goal[g], goal[g].owner,
                                          goal[g].epoch, "past")]
    /\ UNCHANGED <<eff, recorded, wk, pending, runs, history>>
----------------------------------------------------------------------------
(* What a live worker does next, apart from claiming a goal. *)
Work(w) ==
    \/ Load(w) \/ MaxStepsExceeded(w) \/ Verify(w) \/ TransitionFenced(w)
    \/ ReuseEffect(w) \/ AskAgent(w) \/ UnknownTool(w) \/ CommitIntent(w)
    \/ RequestApproval(w) \/ MarkNeedsReview(w) \/ Probe(w) \/ Authorize(w)
    \/ MarkAttempt(w) \/ ToolExecute(w) \/ CommitResult(w) \/ CommitStep(w)
    \/ Release(w) \/ LeaseLost(w)

Signal(g) == Create(g) \/ Approve(g) \/ Pause(g) \/ Cancel(g)

Next ==
    \/ \E g \in Goals : Signal(g) \/ LeaseExpires(g)
    \/ \E c \in Clients : (\E g \in Goals : ResumeRead(c, g)) \/ ResumeApply(c)
    \/ \E g \in Goals, s \in Steps, action \in {"retry", "committed", "failed"} :
          ResolveReview(g, s, action)
    \/ \E w \in Workers :
          \/ \E g \in Goals : Claim(w, g)
          \/ Work(w) \/ Heartbeat(w) \/ Error(w) \/ Crash(w)

Spec == Init /\ [][Next]_vars

(* Workers keep running and polling; a heartbeat that is due is sent; a dead  *)
(* worker's lease runs out; a request in the API finishes; Claim serves the   *)
(* goal that has waited longest.  Nothing is assumed of operators, crashes,   *)
(* errors and stalls.                                                         *)
Fairness ==
    /\ \A w \in Workers : WF_vars(Work(w)) /\ WF_vars(Heartbeat(w))
    /\ \A g \in Goals : /\ WF_vars(\E w \in Workers : Claim(w, g))
                        /\ WF_vars(~ Live(g) /\ LeaseExpires(g))
    /\ \A c \in Clients : WF_vars(ResumeApply(c))

FairSpec == Spec /\ Fairness
----------------------------------------------------------------------------
(* Properties.                                                                *)

(* Every variable stays in its set. *)
TypeOK ==
    /\ goal \in [Goals -> GoalRow]
    /\ eff \in [Goals -> [Steps -> EffectRow]]
    /\ recorded \in [Goals -> SUBSET Steps]
    /\ wk \in [Workers -> WorkerState]
    /\ pending \in [Clients -> [goal: Goals, to: ActiveStates] \cup {None}]
    /\ used \in [FaultKinds -> Nat]
    /\ runs \in [Goals -> [Steps -> Nat]]
    /\ retried \in [Goals -> [Steps -> Nat]]
    /\ flagged \subseteq Goals \X Steps
    /\ approved \subseteq Goals
    /\ writer \in [Goals -> Nat]

(* store.go:340-342, 430-453: only a runnable goal is leased.  Pausing,       *)
(* cancelling and finishing drop the lease and no resume, approve, heartbeat  *)
(* or late claim brings a lease to a goal that is not runnable.               *)
LeaseOnlyRunnable ==
    \A g \in Goals :
        goal[g].owner # None => goal[g].state \in RunnableStates

(* store.go:432-434, 479-488: a lease epoch fences.  Two workers that both    *)
(* pass checkLease for a goal are the same worker, even when their processes  *)
(* share an owner name.                                                       *)
FenceExclusive ==
    \A v, w \in Workers :
        Holds(v) /\ Holds(w) /\ wk[v].goal = wk[w].goal => v = w

(* store.go:834-857: a goal's history has no hole, and no step enters it      *)
(* before the effect of the step is committed, whoever recorded the result:   *)
(* the worker, a later worker's probe or an operator.                         *)
StepsCommitted ==
    \A g \in Goals :
        /\ recorded[g] = 0 .. goal[g].cursor - 1
        /\ \A s \in recorded[g] : eff[g][s].status = "committed"

(* api.go:133-164, fsm.go: no tool runs for a goal no operator ever approved, *)
(* whatever mixture of approve, pause and resume signals reached it.          *)
OperatorApproved ==
    \A g \in Goals :
        /\ goal[g].state \in RunnableStates => g \in approved
        /\ \A s \in Steps : runs[g][s] > 0 => g \in approved

(* worker.go:149-151: a worker that commits an intent for a step that already *)
(* has an effect row presents the row's key, so an agent that would decide    *)
(* differently the second time cannot fork a second side effect.              *)
RecoverySameKey ==
    \A w \in Workers :
        At(w, "intent") /\ Holds(w) /\ Row(w).status # "absent"
            => wk[w].call = Row(w).key

(* README.md:5, executor.go:140, 181-209: a step's tool takes effect at most  *)
(* once, and once more for every time an operator resolves it with "retry".   *)
AtMostOnce ==
    \A g \in Goals, s \in Steps : runs[g][s] <= 1 + retried[g][s]

(* registry.go:85-93: a call the agent flagged as derived from untrusted      *)
(* content runs only after an operator resolved it with "retry".              *)
ApprovalBeforeEffect ==
    \A g \in Goals, s \in Steps :
        <<g, s>> \in flagged /\ runs[g][s] > 0 => retried[g][s] > 0

(* worker.go:112-122: a goal is done only when nothing of it is in doubt.     *)
DoneSettled ==
    \A g \in Goals, s \in Steps :
        goal[g].state = "done" => eff[g][s].status \in {"absent", "committed"}

(* store.go:639-641: a recorded outcome is final and a row keeps its key.     *)
(* Only an operator's retry takes a row back to an intent.                    *)
EffectFinal ==
    [][\A g \in Goals, s \in Steps :
          /\ eff[g][s].status \in {"committed", "failed"}
                => eff'[g][s] = eff[g][s]
          /\ eff[g][s].status # "absent" => eff'[g][s].key = eff[g][s].key
          /\ eff'[g][s].attempts < eff[g][s].attempts
                => retried'[g][s] > retried[g][s]]_vars

(* store.go:432-434: fenced writes to a goal are ordered by lease epoch: once *)
(* a worker has written under an epoch no worker of an earlier epoch writes.  *)
EpochOrder == [][\A g \in Goals : writer'[g] >= writer[g]]_vars

(* fsm.go:29-31: a goal that is done, failed or cancelled stays as it is,     *)
(* late workers, stale resumes and all.                                       *)
TerminalFinal ==
    [][\A g \in Goals :
          Terminal(goal[g].state) =>
              /\ goal'[g] = goal[g]
              /\ recorded'[g] = recorded[g]]_vars

(* store.go:379: a resume returns a paused goal to the state it was paused    *)
(* from.  (An approve may take it to approved, a cancel to cancelled.)  In    *)
(* particular a goal being verified is not sent back to executing.            *)
ResumeReturns ==
    [][\A g \in Goals :
          /\ goal[g].state = "paused" /\ goal'[g].state # "paused"
                => goal'[g].state \in {goal[g].pausedFrom, "approved", "cancelled"}
          /\ goal[g].state = "verifying" => goal'[g].state # "executing"
          /\ goal[g].state = "executing" /\ goal'[g].state = "verifying"
                => \E w \in Workers : At(w, "finish") /\ Holds(w)]_vars

(* README.md: an approved goal does not stay with a dead worker: it ends, or  *)
(* stops to wait for an operator.                                             *)
Settles ==
    \A g \in Goals :
        goal[g].state = "approved"
            ~> goal[g].state \in TerminalStates \cup {"paused"}
=============================================================================
