------------------------- MODULE RuntimeOnceProofs -------------------------
(* The promise of the executor, for as long as no live worker loses its       *)
(* lease: a step's tool takes effect at most once, and once more for every    *)
(* retry an operator asks for; and every change of an effect is one that      *)
(* EffectContract allows.  Any number of crashes, database errors, cancels,   *)
(* approvals and resumes is allowed for, and pauses of goals nobody is at.    *)
EXTENDS RuntimeHistoryProofs, RuntimeEffects

(* The condition README.md:5 leaves out, of a step: no heartbeat is late by a *)
(* whole TTL, and no operator pauses a goal while a worker has its lease.     *)
NoLeaseLoss == \A g \in Goals : Live(g) => ~ Pause(g) /\ ~ LeaseExpires(g)

(* Past its claim and not yet done with its goal. *)
Active(w) == wk[w].pc \notin {"idle", "release"}

(* Every active worker has its lease, unless its goal was cancelled; a lease  *)
(* that ran out is nobody's; no goal has two active workers.                  *)
LeaseHeld ==
    /\ \A w \in Workers :
          Active(w) => Holds(w) \/ Terminal(goal[wk[w].goal].state)
    /\ \A g \in Goals : goal[g].expires = "past" => ~ Live(g)
    /\ \A v, w \in Workers :
          Active(v) /\ Active(w) /\ wk[v].goal = wk[w].goal => v = w

(* On the way to the tool; and between reading the intent and settling it. *)
OncePcs == {"authorize", "attempt", "tool"}
OpenPcs == OncePcs \cup {"result", "probe", "probed", "markReview", "flagReview"}

(* The runs of one step against its retries, by what its effect row says. *)
RunsOK(g, s) ==
    /\ runs[g][s] <= 1 + retried[g][s]
    /\ eff[g][s].status = "absent" => runs[g][s] = 0
    /\ eff[g][s].status = "intent" /\ eff[g][s].attempts = 0
          => runs[g][s] <= retried[g][s]

(* What a worker past phase (a) may rely on. *)
OpenOK(w) ==
    /\ wk[w].pc \in OpenPcs => Row(w).status = "intent"
    /\ wk[w].pc \in OncePcs
          => runs[wk[w].goal][wk[w].step] <= retried[wk[w].goal][wk[w].step]
    /\ wk[w].pc \in {"tool", "result"} => Row(w).attempts > 0

OnceInv ==
    /\ \A g \in Goals, s \in Steps : RunsOK(g, s)
    /\ \A w \in Workers : OpenOK(w)

----------------------------------------------------------------------------
(* An active worker is at a goal. *)
LEMMA ActiveGoal ==
    ASSUME Typed, NEW w \in Workers, Active(w)
    PROVE  wk[w].goal \in Goals
  BY DEF Active, Typed, TypeOK, LocalOK, WorkerOK, WorkerState

(* Who can take over a goal finds no active worker at it. *)
LEMMA ClaimFindsNone ==
    ASSUME Typed, LeaseInv, LeaseHeld, NEW w \in Workers, NEW g \in Goals, Claim(w, g),
           NEW v \in Workers, Active(v), wk[v].goal = g
    PROVE  FALSE
  <1>1. goal[g].state \in RunnableStates /\ (goal[g].owner = None \/ goal[g].expires = "past")
    BY DEF Claim, Claimable
  <1>2. Holds(v)
    BY <1>1 DEF LeaseHeld, Terminal, TerminalStates, RunnableStates
  <1>3. goal[g].owner # None
    BY <1>2, ConstantsAssumption DEF Holds
  <1> QED
    BY <1>1, <1>2, <1>3 DEF LeaseHeld, Live

(* A worker becomes active by claiming its goal. *)
LEMMA ActiveChange ==
    ASSUME Typed, [Next]_vars, NEW w \in Workers, Active(w)'
    PROVE  \/ Active(w) /\ LeaseKept(w)
           \/ \E g \in Goals : Claim(w, g)
  <1>1. CASE wk'[w] = wk[w]
    BY <1>1 DEF Active, LeaseKept
  <1>2. CASE Acts(w) /\ ~ \E g \in Goals : Claim(w, g)
    <2>1. wk'[w].pc # "idle"
      BY DEF Active
    <2>2. wk'[w].goal # None
      BY <2>1, TypedStep DEF Typed, LocalOK, WorkerOK
    <2>3. LeaseKept(w)
      BY <1>2, <2>2, WorkerChange
    <2>4. Active(w)
      <3>1. ~ Release(w)
        BY <2>1 DEF Release, IdleWorker, Typed, TypeOK
      <3>2. ~ Crash(w)
        BY <2>1 DEF Crash, IdleWorker, Typed, TypeOK
      <3> QED
        BY <1>2, <3>1, <3>2 DEF Active, Acts, Work, Error, Load, MaxStepsExceeded,
           Verify, TransitionFenced, ReuseEffect, AskAgent, UnknownTool, CommitIntent,
           RequestApproval, MarkNeedsReview, Probe, Authorize, MarkAttempt,
           ToolExecute, CommitResult, CommitStep, LeaseLost, At, FencedMoves
    <2> QED
      BY <2>3, <2>4
  <1> QED
    BY <1>1, <1>2, WorkerFrame

(* The ways a goal's lease can go, and who may drop it. *)
LeaseDrop(g) ==
    \/ goal'[g].owner = goal[g].owner /\ goal'[g].epoch = goal[g].epoch
    \/ Terminal(goal'[g].state)
    \/ ~ Live(g)
    \/ \E w \in Workers : Claim(w, g)
    \/ \E w \in Workers : wk[w].goal = g /\ Holds(w) /\ ~ Active(w)'

LEMMA LeaseChange ==
    ASSUME NoLeaseLoss, Typed, LeaseInv, [Next]_vars, NEW g \in Goals
    PROVE  LeaseDrop(g)
  <1> USE DEF LeaseDrop
  <1>1. ASSUME NEW to, NEW h \in Goals, goal' = [goal EXCEPT ![h] = Moved(goal[h], to)],
               ~ DropsLease(to) \/ Terminal(to)
        PROVE  LeaseDrop(g)
    BY <1>1 DEF Moved, Typed, TypeOK
  <1>2. ASSUME NEW h \in Goals, Signal(h) \/ LeaseExpires(h)
        PROVE  LeaseDrop(g)
    <2>1. CASE Create(h)
      <3>1. ~ Live(h)
        BY <2>1, ConstantsAssumption DEF Create, LeaseInv, Inserted, Live, Holds
      <3> QED
        BY <2>1, <3>1 DEF Create, Typed, TypeOK
    <2>2. CASE Approve(h)
      BY <1>1, <2>2 DEF Approve, Transition, DropsLease, Terminal, TerminalStates
    <2>3. CASE Pause(h)
      <3>1. ~ Live(h)
        BY <2>3 DEF NoLeaseLoss
      <3>2. g # h => goal'[g] = goal[g]
        BY <2>3 DEF Pause, Transition, Typed, TypeOK
      <3> QED
        BY <3>1, <3>2
    <2>4. CASE Cancel(h)
      BY <1>1, <2>4 DEF Cancel, Transition, Terminal, TerminalStates
    <2>5. CASE LeaseExpires(h)
      BY <2>5 DEF LeaseExpires, Leased, Typed, TypeOK
    <2> QED
      BY <1>2, <2>1, <2>2, <2>3, <2>4, <2>5 DEF Signal
  <1>3. ASSUME NEW c \in Clients, ResumeApply(c)
        PROVE  LeaseDrop(g)
    <2>1. pending[c].goal \in Goals /\ pending[c].to \in ActiveStates
      BY <1>3 DEF ResumeApply, Typed, TypeOK
    <2>2. ~ DropsLease(pending[c].to)
      BY <2>1 DEF DropsLease, Terminal, TerminalStates, ActiveStates
    <2> QED
      BY <1>1, <1>3, <2>1, <2>2 DEF ResumeApply, Transition
  <1>4. ASSUME NEW w \in Workers, TransitionFenced(w)
        PROVE  LeaseDrop(g)
    <2>1. wk[w].goal \in Goals /\ Holds(w)
      BY <1>4 DEF TransitionFenced, Holds
    <2>2. CASE wk[w].pc \in {"begin", "finish"}
      <3>1. ~ DropsLease(MoveTarget(wk[w].pc))
        BY <2>2 DEF MoveTarget, DropsLease, Terminal, TerminalStates
      <3> QED
        BY <1>1, <1>4, <2>1, <3>1 DEF TransitionFenced
    <2>3. CASE wk[w].pc \notin {"begin", "finish"}
      <3>1. Goto(w, "release")
        BY <1>4, <2>3 DEF TransitionFenced
      <3>2. ~ Active(w)'
        BY <3>1, GotoLocals DEF Active
      <3>3. g # wk[w].goal => goal'[g] = goal[g]
        BY <1>4, <2>1 DEF TransitionFenced, Typed, TypeOK
      <3> QED
        BY <2>1, <3>2, <3>3
    <2> QED
      BY <2>2, <2>3
  <1>5. ASSUME NEW w \in Workers, Release(w)
        PROVE  LeaseDrop(g)
    <2>1. CASE Holds(w)
      <3>1. wk[w].goal \in Goals
        BY <2>1 DEF Holds
      <3>2. ~ Active(w)'
        BY <1>5 DEF Release, Active, IdleWorker, Typed, TypeOK
      <3>3. g # wk[w].goal => goal'[g] = goal[g]
        BY <1>5, <2>1, <3>1 DEF Release, Typed, TypeOK
      <3> QED
        BY <2>1, <3>1, <3>2, <3>3
    <2>2. CASE ~ Holds(w)
      BY <1>5, <2>2 DEF Release
    <2> QED
      BY <2>1, <2>2
  <1>6. ASSUME NEW w \in Workers, Heartbeat(w) \/ CommitStep(w)
        PROVE  LeaseDrop(g)
    <2>1. wk[w].goal \in Goals
      BY <1>6 DEF Heartbeat, CommitStep, Holds
    <2>2. CASE Heartbeat(w)
      BY <2>1, <2>2 DEF Heartbeat, Leased, Typed, TypeOK
    <2>3. CASE CommitStep(w)
      <3>1. CASE goal' = goal
        BY <3>1
      <3>2. CASE goal' = [goal EXCEPT ![wk[w].goal] = Advanced(goal[wk[w].goal])]
        BY <2>1, <3>2 DEF Advanced, Typed, TypeOK
      <3> QED
        BY <2>3, <3>1, <3>2 DEF CommitStep
    <2> QED
      BY <1>6, <2>2, <2>3
  <1>7. ASSUME NEW w \in Workers, NEW h \in Goals, Claim(w, h)
        PROVE  LeaseDrop(g)
    <2>1. CASE h = g
      BY <1>7, <2>1
    <2>2. CASE h # g
      BY <1>7, <2>2 DEF Claim, Typed, TypeOK
    <2> QED
      BY <2>1, <2>2
  <1>8. CASE goal' = goal
    BY <1>8
  <1> QED
    BY <1>2, <1>3, <1>4, <1>5, <1>6, <1>7, <1>8 DEF Next, Work, ResumeRead,
       ResolveReview, Error, Crash, Load, MaxStepsExceeded, Verify,
       ReuseEffect, AskAgent, UnknownTool, CommitIntent, RequestApproval,
       MarkNeedsReview, Probe, Authorize, MarkAttempt, ToolExecute, CommitResult,
       LeaseLost, vars

(* What can make a row's lease count as run out. *)
LEMMA ExpiryChange ==
    ASSUME NoLeaseLoss, Typed, LeaseInv, [Next]_vars, NEW g \in Goals,
           goal'[g].expires = "past"
    PROVE  /\ goal'[g].owner = goal[g].owner /\ goal'[g].epoch = goal[g].epoch
           /\ goal[g].expires = "past" \/ ~ Live(g)
           /\ ~ \E w \in Workers : Claim(w, g)
  <1>1. GoalStep
    BY GoalChange
  <1>2. ~ \E w \in Workers : Claim(w, g)
    BY DEF Claim, Leased, Typed, TypeOK
  <1>3. goal'[g] # Inserted("proposed")
    BY DEF Inserted
  <1>4. ASSUME NEW to, goal'[g] = Moved(goal[g], to)
        PROVE  /\ goal'[g].owner = goal[g].owner /\ goal'[g].epoch = goal[g].epoch
               /\ goal[g].expires = "past"
    BY <1>4 DEF Moved
  <1>5. ASSUME NEW x, NEW o, goal'[g] = Leased(goal[g], o, goal[g].epoch, x)
        PROVE  x = "past" /\ goal'[g].owner = o /\ goal'[g].epoch = goal[g].epoch
    BY <1>5 DEF Leased
  <1>6. CASE goal'[g] = Advanced(goal[g])
    BY <1>2, <1>6 DEF Advanced
  <1>7. /\ goal'[g].owner = goal[g].owner /\ goal'[g].epoch = goal[g].epoch
        /\ ~ \E w \in Workers : Claim(w, g)
    BY <1>1, <1>2, <1>3, <1>4, <1>5, <1>6, RowChange
  <1>8. goal[g].expires = "past" \/ ~ Live(g)
    <2>1. SUFFICES ASSUME goal[g].expires # "past"
                   PROVE  ~ Live(g)
      OBVIOUS
    <2>2. goal'[g] # goal[g] /\ goal'[g] # Advanced(goal[g])
      BY <2>1 DEF Advanced
    <2>3. \A to : goal'[g] # Moved(goal[g], to)
      BY <1>4, <2>1
    <2>4. ASSUME NEW h \in Goals, LeaseExpires(h)
          PROVE  ~ Live(g)
      <3>1. h = g
        BY <2>2, <2>4 DEF LeaseExpires, Typed, TypeOK
      <3> QED
        BY <2>4, <3>1 DEF NoLeaseLoss
    <2>5. ASSUME NEW h \in Goals, Signal(h)
          PROVE  FALSE
      BY <1>3, <2>2, <2>3, <2>5 DEF Signal, Create, Approve, Pause, Cancel,
         Transition, Typed, TypeOK
    <2>6. ASSUME NEW c \in Clients, ResumeApply(c)
          PROVE  FALSE
      BY <2>2, <2>3, <2>6 DEF ResumeApply, Transition, Typed, TypeOK
    <2>7. ASSUME NEW w \in Workers, Heartbeat(w)
          PROVE  FALSE
      <3>1. wk[w].goal \in Goals
        BY <2>7 DEF Heartbeat, Holds
      <3> QED
        BY <2>2, <2>7, <3>1 DEF Heartbeat, Leased, Typed, TypeOK
    <2>8. ASSUME NEW w \in Workers, TransitionFenced(w) \/ CommitStep(w)
          PROVE  FALSE
      BY <2>2, <2>3, <2>8 DEF TransitionFenced, CommitStep, Holds, Typed, TypeOK
    <2>9. ASSUME NEW w \in Workers, Release(w)
          PROVE  FALSE
      <3>1. Holds(w) /\ wk[w].goal \in Goals
        BY <2>2, <2>9 DEF Release, Holds
      <3> QED
        BY <2>2, <2>9, <3>1 DEF Release, Leased, Typed, TypeOK
    <2>10. ASSUME NEW w \in Workers, NEW h \in Goals, Claim(w, h)
           PROVE  FALSE
      BY <1>2, <2>2, <2>10 DEF Claim, Typed, TypeOK
    <2>11. goal' # goal
      BY <2>2
    <2> QED
      BY <2>4, <2>5, <2>6, <2>7, <2>8, <2>9, <2>10, <2>11 DEF Next, Work, ResumeRead,
         ResolveReview, Error, Crash, Load, MaxStepsExceeded, Verify,
         ReuseEffect, AskAgent, UnknownTool, CommitIntent, RequestApproval,
         MarkNeedsReview, Probe, Authorize, MarkAttempt, ToolExecute, CommitResult,
         LeaseLost, vars
  <1> QED
    BY <1>7, <1>8

LEMMA InitHeld == Init => LeaseHeld
  BY DEF Init, LeaseHeld, Active, IdleWorker, Inserted

LEMMA HeldStutter == LeaseHeld /\ UNCHANGED vars => LeaseHeld'
  BY DEF vars, LeaseHeld, Active, Holds, Live

LEMMA HeldStep ==
    NoLeaseLoss /\ Typed /\ LeaseInv /\ EpochInv /\ LeaseHeld /\ [Next]_vars
        => LeaseHeld'
  <1> SUFFICES ASSUME NoLeaseLoss, Typed, LeaseInv, EpochInv, LeaseHeld, [Next]_vars
               PROVE  LeaseHeld'
    OBVIOUS
  <1>1. ASSUME NEW w \in Workers, NEW g \in Goals, Claim(w, g)
        PROVE  /\ wk'[w].goal = g /\ Holds(w)'
               /\ \A v \in Workers \ {w} : wk'[v] = wk[v]
    BY <1>1 DEF Claim, Claimed, Leased, Holds, Typed, TypeOK
  <1>2. ASSUME NEW w \in Workers, Active(w)'
        PROVE  Holds(w)' \/ Terminal(goal'[wk'[w].goal].state)
    <2>1. CASE \E g \in Goals : Claim(w, g)
      BY <1>1, <2>1
    <2>2. CASE Active(w) /\ LeaseKept(w)
      <3> DEFINE g == wk[w].goal
      <3>1. g \in Goals
        BY <2>2, ActiveGoal
      <3>2. CASE Terminal(goal[g].state)
        <4>1. ~ \E v \in Workers : Claim(v, g)
          BY <3>2 DEF Claim, Claimable, RunnableStates, Terminal, TerminalStates
        <4>2. ~ \E to \in GoalStates : CanTransition(goal[g].state, to)
          BY <3>2 DEF CanTransition, Terminal, TerminalStates
        <4>3. goal[g].state # "absent"
          BY <3>2 DEF Terminal, TerminalStates
        <4>4. \A o, e, x : Leased(goal[g], o, e, x).state = goal[g].state
          BY DEF Leased
        <4>5. Advanced(goal[g]).state = goal[g].state
          BY DEF Advanced
        <4>6. goal'[g].state = goal[g].state
          BY <3>1, <4>1, <4>2, <4>3, <4>4, <4>5, GoalChange, RowChange
        <4> QED
          BY <2>2, <3>2, <4>6 DEF LeaseKept
      <3>3. CASE Holds(w) /\ ~ Terminal(goal[g].state)
        <4>1. Live(g)
          BY <3>3 DEF Live
        <4>2. ~ \E v \in Workers : Claim(v, g)
          BY <2>2, <3>1, ClaimFindsNone
        <4>3. ASSUME NEW v \in Workers, wk[v].goal = g, Holds(v), ~ Active(v)'
              PROVE  FALSE
          <5>1. v = w
            BY <3>1, <3>3, <4>3 DEF Holds, EpochInv
          <5> QED
            BY <1>2, <4>3, <5>1
        <4>4. \/ goal'[g].owner = goal[g].owner /\ goal'[g].epoch = goal[g].epoch
              \/ Terminal(goal'[g].state)
          BY <3>1, <4>1, <4>2, <4>3, LeaseChange DEF LeaseDrop
        <4> QED
          BY <2>2, <3>1, <3>3, <4>4 DEF Holds, LeaseKept
      <3> QED
        BY <2>2, <3>2, <3>3 DEF LeaseHeld
    <2> QED
      BY <1>2, <2>1, <2>2, ActiveChange
  <1>3. ASSUME NEW g \in Goals, goal'[g].expires = "past"
        PROVE  ~ Live(g)'
    <2>1. /\ goal'[g].owner = goal[g].owner /\ goal'[g].epoch = goal[g].epoch
          /\ ~ Live(g)
          /\ ~ \E w \in Workers : Claim(w, g)
      BY <1>3, ExpiryChange DEF LeaseHeld
    <2>2. ASSUME NEW w \in Workers, wk'[w].goal = g, Holds(w)'
          PROVE  FALSE
      <3>1. LeaseKept(w)
        BY <1>1, <2>1, <2>2, WorkerChange, ConstantsAssumption
      <3>2. wk[w].goal = g /\ Holds(w)
        BY <2>1, <2>2, <3>1 DEF Holds, LeaseKept
      <3> QED
        BY <2>1, <3>2 DEF Live
    <2> QED
      BY <2>2 DEF Live
  <1>4. ASSUME NEW v \in Workers, NEW w \in Workers, Active(v)', Active(w)',
               wk'[v].goal = wk'[w].goal
        PROVE  v = w
    <2>1. ASSUME NEW x \in Workers, NEW y \in Workers, NEW g \in Goals, Claim(x, g),
                 x # y, Active(y)', wk'[x].goal = wk'[y].goal
          PROVE  FALSE
      <3>1. wk'[y] = wk[y] /\ wk'[x].goal = g
        BY <1>1, <2>1
      <3>2. Active(y) /\ wk[y].goal = g
        BY <2>1, <3>1 DEF Active
      <3> QED
        BY <2>1, <3>2, ClaimFindsNone
    <2>2. CASE Active(v) /\ LeaseKept(v) /\ Active(w) /\ LeaseKept(w)
      BY <1>4, <2>2 DEF LeaseHeld, LeaseKept
    <2> QED
      BY <1>4, <2>1, <2>2, ActiveChange
  <1> QED
    BY <1>2, <1>3, <1>4 DEF LeaseHeld

----------------------------------------------------------------------------
(* Only an operator's retry counts as one. *)
LEMMA RetriedChange ==
    ASSUME Typed, [Next]_vars, NEW g \in Goals, NEW s \in Steps
    PROVE  \/ retried'[g][s] = retried[g][s]
           \/ retried'[g][s] = retried[g][s] + 1
  <1>1. ASSUME NEW h \in Goals, NEW t \in Steps,
               NEW action \in {"retry", "committed", "failed"},
               ResolveReview(h, t, action)
        PROVE  \/ retried'[g][s] = retried[g][s]
               \/ retried'[g][s] = retried[g][s] + 1
    <2>1. retried \in [Goals -> [Steps -> Nat]]
      BY DEF Typed, TypeOK
    <2>2. CASE retried' = retried
      BY <2>2
    <2>3. CASE retried' = [retried EXCEPT ![h][t] = @ + 1]
      BY <2>1, <2>3
    <2> QED
      BY <1>1, <2>2, <2>3 DEF ResolveReview
  <1>2. ASSUME NEW h \in Goals, Signal(h) \/ LeaseExpires(h)
        PROVE  retried' = retried
    BY <1>2 DEF Signal, Create, Approve, Pause, Cancel, Transition, LeaseExpires,
       history
  <1>3. ASSUME NEW c \in Clients, (\E h \in Goals : ResumeRead(c, h)) \/ ResumeApply(c)
        PROVE  retried' = retried
    BY <1>3 DEF ResumeRead, ResumeApply, Transition, history
  <1>4. ASSUME NEW w \in Workers,
               Work(w) \/ Heartbeat(w) \/ Error(w) \/ Crash(w)
               \/ \E h \in Goals : Claim(w, h)
        PROVE  retried' = retried
    BY <1>4 DEF Work, Heartbeat, Error, Crash, Claim, Load, MaxStepsExceeded,
       Verify, TransitionFenced, ReuseEffect, AskAgent, UnknownTool, CommitIntent,
       RequestApproval, MarkNeedsReview, Probe, Authorize, MarkAttempt,
       ToolExecute, CommitResult, CommitStep, Release, LeaseLost, history
  <1>5. CASE UNCHANGED vars
    BY <1>5 DEF vars
  <1> QED
    BY <1>1, <1>2, <1>3, <1>4, <1>5 DEF Next

(* settle sends only a fresh intent to the tool and only intents further. *)
LEMMA SettleOpen ==
    ASSUME NEW row \in EffectRow, row.status # "absent"
    PROVE  /\ SettlePc(row) \in OpenPcs => row.status = "intent"
           /\ SettlePc(row) \in OncePcs => row.attempts = 0
           /\ SettlePc(row) \notin {"tool", "result"}
  <1>1. row.status \in {"intent", "committed", "failed", "needs_review"}
    BY DEF EffectRow, EffectStates
  <1>2. CASE row.status = "committed"
    BY <1>2 DEF SettlePc, OpenPcs, OncePcs
  <1>3. CASE row.status = "failed"
    BY <1>3 DEF SettlePc, OpenPcs, OncePcs
  <1>4. CASE row.status = "needs_review"
    BY <1>4 DEF SettlePc, OpenPcs, OncePcs
  <1>5. CASE row.status = "intent" /\ row.attempts = 0
    BY <1>5 DEF SettlePc, OpenPcs, OncePcs
  <1>6. CASE row.status = "intent" /\ row.attempts # 0
    <2>1. SettlePc(row) \in {"probe", "markReview"}
      BY <1>6 DEF SettlePc
    <2> QED
      BY <1>6, <2>1 DEF OpenPcs, OncePcs
  <1> QED
    BY <1>1, <1>2, <1>3, <1>4, <1>5, <1>6

(* One step of the runs against the retries. *)
LEMMA RunsStep ==
    ASSUME Typed, OnceInv, [Next]_vars, NEW g \in Goals, NEW s \in Steps
    PROVE  RunsOK(g, s)'
  <1>1. /\ runs[g][s] \in Nat /\ retried[g][s] \in Nat
        /\ eff[g][s] \in EffectRow /\ eff[g][s].attempts \in Nat
    BY DEF Typed, TypeOK, EffectRow
  <1>2. RunsOK(g, s)
    BY DEF OnceInv
  <1>3. ASSUME NEW w \in Workers, ToolExecute(w), wk[w].goal = g, wk[w].step = s,
               runs'[g][s] = runs[g][s] + 1
        PROVE  RunsOK(g, s)'
    <2>1. /\ eff[g][s].status = "intent" /\ eff[g][s].attempts > 0
          /\ runs[g][s] <= retried[g][s]
      BY <1>3 DEF OnceInv, OpenOK, ToolExecute, At, OpenPcs, OncePcs, Row
    <2>2. eff' = eff /\ retried' = retried
      BY <1>3 DEF ToolExecute, history
    <2> QED
      BY <1>1, <1>3, <2>1, <2>2 DEF RunsOK
  <1>4. CASE runs'[g][s] = runs[g][s]
    <2>1. retried'[g][s] \in Nat /\ retried[g][s] <= retried'[g][s]
      BY <1>1, RetriedChange
    <2>2. CASE eff'[g][s] = eff[g][s]
      BY <1>1, <1>2, <1>4, <2>1, <2>2 DEF RunsOK
    <2>3. CASE Created(g, s)
      BY <1>1, <1>2, <1>4, <2>1, <2>3 DEF RunsOK, Created
    <2>4. CASE Settles1(g, s)
      <3>1. \/ eff'[g][s].status \in {"needs_review", "committed", "failed"}
            \/ /\ eff'[g][s].status = eff[g][s].status
               /\ eff'[g][s].attempts = eff[g][s].attempts
        BY <1>1, <2>4 DEF Settles1, Settled
      <3> QED
        BY <1>1, <1>2, <1>4, <2>1, <3>1 DEF RunsOK
    <2>5. CASE Attempts1(g, s)
      <3>1. /\ eff'[g][s].status = eff[g][s].status
            /\ eff'[g][s].attempts = 0 => eff[g][s].attempts = 0
        BY <1>1, <2>5 DEF Attempts1, Attempted
      <3> QED
        BY <1>1, <1>2, <1>4, <2>1, <3>1 DEF RunsOK
    <2>6. CASE Resolves(g, s)
      <3>1. \/ eff'[g][s].status \in {"committed", "failed"}
            \/ /\ eff'[g][s].status = "intent"
               /\ retried'[g][s] = retried[g][s] + 1
        BY <1>1, <2>6 DEF Resolves, Typed, TypeOK
      <3> QED
        BY <1>1, <1>2, <1>4, <2>1, <3>1 DEF RunsOK
    <2> QED
      BY <2>2, <2>3, <2>4, <2>5, <2>6, EffectChange DEF EffectStep
  <1> QED
    BY <1>3, <1>4, RunsChange

(* The row of a worker past phase (a), and the doings of its tool, are nobody *)
(* else's to change.                                                          *)
LEMMA RowUndisturbed ==
    ASSUME Typed, LeaseHeld, OnceInv, [Next]_vars, NEW w \in Workers,
           ~ Acts(w), wk[w].pc \in OpenPcs
    PROVE  /\ wk[w].goal \in Goals /\ wk[w].step \in Steps
           /\ eff'[wk[w].goal][wk[w].step] = eff[wk[w].goal][wk[w].step]
           /\ runs'[wk[w].goal][wk[w].step] = runs[wk[w].goal][wk[w].step]
  <1> DEFINE g == wk[w].goal
             s == wk[w].step
  <1>1. g \in Goals /\ s \in Steps
    BY StepLocals DEF OpenPcs, OncePcs, StepPcs
  <1>2. eff[g][s].status = "intent"
    BY DEF OnceInv, OpenOK, Row
  <1>3. ASSUME NEW v \in Workers, wk[v].goal = g,
               MarkNeedsReview(v) \/ CommitResult(v) \/ MarkAttempt(v) \/ ToolExecute(v)
        PROVE  FALSE
    <2>1. Active(v) /\ Active(w)
      BY <1>3 DEF Active, OpenPcs, OncePcs, MarkNeedsReview, CommitResult,
         MarkAttempt, ToolExecute, At
    <2>2. v = w
      BY <1>3, <2>1 DEF LeaseHeld
    <2> QED
      BY <1>3, <2>2 DEF Acts, Work
  <1>4. eff'[g][s] = eff[g][s]
    BY <1>1, <1>2, <1>3, EffectChange
    DEF EffectStep, Created, Settles1, Attempts1, Resolves
  <1>5. runs'[g][s] = runs[g][s]
    BY <1>1, <1>3, RunsChange
  <1> QED
    BY <1>1, <1>4, <1>5

(* What holds for a worker past phase (a) is nobody else's to undo. *)
LEMMA OpenUndisturbed ==
    ASSUME Typed, LeaseHeld, OnceInv, [Next]_vars, NEW w \in Workers,
           wk'[w] = wk[w], ~ Acts(w)
    PROVE  OpenOK(w)'
  <1> SUFFICES ASSUME wk[w].pc \in OpenPcs
               PROVE  OpenOK(w)'
    BY DEF OpenOK, OpenPcs, OncePcs
  <1> DEFINE g == wk[w].goal
             s == wk[w].step
  <1>1. /\ g \in Goals /\ s \in Steps
        /\ eff'[g][s] = eff[g][s] /\ runs'[g][s] = runs[g][s]
    BY RowUndisturbed
  <1>2. OpenOK(w)
    BY DEF OnceInv
  <1>6. retried[g][s] <= retried'[g][s] /\ retried'[g][s] \in Nat
    <2>1. retried[g][s] \in Nat
      BY <1>1 DEF Typed, TypeOK
    <2> QED
      BY <1>1, <2>1, RetriedChange
  <1>7. runs[g][s] \in Nat /\ retried[g][s] \in Nat
    BY <1>1 DEF Typed, TypeOK
  <1> QED
    BY <1>1, <1>2, <1>6, <1>7 DEF OpenOK, Row

(* The steps of the worker itself. *)
LEMMA OpenActs ==
    ASSUME Typed, OnceInv, [Next]_vars, NEW w \in Workers, Acts(w)
    PROVE  OpenOK(w)'
  <1> DEFINE g == wk[w].goal
             s == wk[w].step
  <1>1. ASSUME wk'[w].pc \notin OpenPcs
        PROVE  OpenOK(w)'
    BY <1>1 DEF OpenOK, OpenPcs, OncePcs
  <1>2. ASSUME NEW p, Goto(w, p), p \notin OpenPcs
        PROVE  OpenOK(w)'
    BY <1>1, <1>2, GotoLocals
  <1>3. ASSUME NEW p \in OpenPcs, wk[w].pc \in StepPcs \ {"step"},
               wk'[w].pc = p, wk'[w].goal = g, wk'[w].step = s,
               eff'[g][s].status = "intent",
               runs' = runs, retried' = retried,
               p \in OncePcs => runs[g][s] <= retried[g][s],
               p \in {"tool", "result"} => eff'[g][s].attempts > 0
        PROVE  OpenOK(w)'
    BY <1>3 DEF OpenOK, Row
  <1>4. OpenOK(w)
    BY DEF OnceInv
  <1>5. ASSUME NEW p, Goto(w, p), p \in OpenPcs
        PROVE  wk'[w].pc = p /\ wk'[w].goal = g /\ wk'[w].step = s
    BY <1>5, GotoLocals DEF LeaseKept, OpenPcs, OncePcs, StepPcs
  <1>6. CASE CommitIntent(w)
    <2>1. /\ wk[w].pc \in StepPcs \ {"step"} /\ g \in Goals /\ s \in Steps
          /\ Row(w) \in EffectRow /\ Row(w) = eff[g][s]
      BY <1>6, StepLocals DEF CommitIntent, At, StepPcs, Row
    <2>2. runs' = runs /\ retried' = retried
      BY <1>6 DEF CommitIntent
    <2>3. RunsOK(g, s) /\ runs[g][s] \in Nat /\ retried[g][s] \in Nat
      BY <2>1 DEF OnceInv, Typed, TypeOK
    <2>4. CASE /\ Row(w).status = "absent" /\ Goto(w, "authorize")
               /\ SetRow(w, [status |-> "intent", attempts |-> 0, key |-> wk[w].call])
      <3>1. eff'[g][s].status = "intent"
        BY <2>1, <2>4 DEF SetRow, SetEffect, Typed, TypeOK
      <3>2. runs[g][s] <= retried[g][s]
        BY <2>1, <2>3, <2>4 DEF RunsOK
      <3> QED
        BY <1>3, <1>5, <2>1, <2>2, <2>4, <3>1, <3>2 DEF OpenPcs, OncePcs
    <2>5. CASE /\ Row(w).status # "absent" /\ eff' = eff
               /\ Goto(w, SettlePc(Row(w)))
      <3> DEFINE p == SettlePc(Row(w))
      <3>1. CASE p \notin OpenPcs
        BY <1>2, <2>5, <3>1
      <3>2. CASE p \in OpenPcs
        <4>1. /\ Row(w).status = "intent" /\ p \notin {"tool", "result"}
              /\ p \in OncePcs => Row(w).attempts = 0
          BY <2>1, <2>5, <3>2, SettleOpen
        <4>2. p \in OncePcs => runs[g][s] <= retried[g][s]
          BY <2>1, <2>3, <4>1 DEF RunsOK
        <4>3. wk'[w].pc = p /\ wk'[w].goal = g /\ wk'[w].step = s
          BY <1>5, <2>5, <3>2
        <4> QED
          BY <1>3, <2>1, <2>2, <2>5, <3>2, <4>1, <4>2, <4>3
      <3> QED
        BY <3>1, <3>2
    <2>6. CASE Goto(w, "release")
      BY <1>2, <2>6 DEF OpenPcs, OncePcs
    <2> QED
      BY <1>6, <2>4, <2>5, <2>6 DEF CommitIntent
  <1>7. CASE RequestApproval(w)
    <2>1. /\ wk[w].pc \in StepPcs \ {"step"} /\ g \in Goals /\ s \in Steps
      BY <1>7, StepLocals DEF RequestApproval, At, StepPcs
    <2>2. runs' = runs /\ retried' = retried
      BY <1>7 DEF RequestApproval
    <2>3. CASE /\ Goto(w, "flagReview")
               /\ SetRow(w, [status |-> "intent", attempts |-> 0, key |-> wk[w].call])
      <3>1. eff'[g][s].status = "intent"
        BY <2>1, <2>3 DEF SetRow, SetEffect, Typed, TypeOK
      <3> QED
        BY <1>3, <1>5, <2>1, <2>2, <2>3, <3>1 DEF OpenPcs, OncePcs
    <2>4. CASE Goto(w, "pauseGoal")
      BY <1>2, <2>4 DEF OpenPcs, OncePcs
    <2> QED
      BY <1>7, <2>3, <2>4 DEF RequestApproval
  <1>8. CASE Probe(w)
    <2>1. /\ wk[w].pc \in StepPcs \ {"step"} /\ g \in Goals /\ s \in Steps
          /\ eff[g][s].status = "intent"
      BY <1>4, <1>8, StepLocals DEF Probe, At, StepPcs, OpenOK, OpenPcs, Row
    <2>2. eff' = eff /\ runs' = runs /\ retried' = retried
      BY <1>8 DEF Probe, history
    <2>3. CASE Goto(w, "markReview")
      BY <1>3, <1>5, <2>1, <2>2, <2>3 DEF OpenPcs, OncePcs
    <2>4. CASE Goto(w, "authorize") /\ runs[g][s] = 0
      <3>1. runs[g][s] <= retried[g][s]
        BY <2>1, <2>4 DEF Typed, TypeOK
      <3> QED
        BY <1>3, <1>5, <2>1, <2>2, <2>4, <3>1 DEF OpenPcs, OncePcs
    <2>5. CASE wk' = [wk EXCEPT ![w] = Locals(wk[w], "probed", wk[w].step,
                                              wk[w].call, "committed")]
      <3>1. wk'[w].pc = "probed" /\ wk'[w].goal = g /\ wk'[w].step = s
        BY <2>5 DEF Locals, Typed, TypeOK
      <3> QED
        BY <1>3, <2>1, <2>2, <3>1 DEF OpenPcs, OncePcs
    <2> QED
      BY <1>8, <2>3, <2>4, <2>5 DEF Probe
  <1>9. CASE Authorize(w)
    <2>1. /\ wk[w].pc \in StepPcs \ {"step"} /\ eff[g][s].status = "intent"
          /\ runs[g][s] <= retried[g][s]
      BY <1>4, <1>9 DEF Authorize, At, StepPcs, OpenOK, OpenPcs, OncePcs, Row
    <2>2. eff' = eff /\ runs' = runs /\ retried' = retried
      BY <1>9 DEF Authorize, history
    <2>3. CASE Goto(w, "attempt")
      BY <1>3, <1>5, <2>1, <2>2, <2>3 DEF OpenPcs, OncePcs
    <2>4. CASE Goto(w, "pauseGoal")
      BY <1>2, <2>4 DEF OpenPcs, OncePcs
    <2> QED
      BY <1>9, <2>3, <2>4 DEF Authorize
  <1>10. CASE MarkAttempt(w)
    <2>1. /\ wk[w].pc \in StepPcs \ {"step"} /\ g \in Goals /\ s \in Steps
          /\ eff[g][s].status = "intent" /\ runs[g][s] <= retried[g][s]
      BY <1>4, <1>10, StepLocals
      DEF MarkAttempt, At, StepPcs, OpenOK, OpenPcs, OncePcs, Row
    <2>2. runs' = runs /\ retried' = retried /\ Goto(w, "tool")
      BY <1>10 DEF MarkAttempt, history
    <2>3. eff'[g][s] = Attempted(eff[g][s])
      BY <1>10, <2>1 DEF MarkAttempt, SetRow, SetEffect, Row, Typed, TypeOK
    <2>4. eff[g][s].attempts \in Nat
      BY <2>1 DEF Typed, TypeOK, EffectRow
    <2>5. eff'[g][s].status = "intent" /\ eff'[g][s].attempts > 0
      BY <2>1, <2>3, <2>4 DEF Attempted
    <2> QED
      BY <1>3, <1>5, <2>1, <2>2, <2>5 DEF OpenPcs, OncePcs
  <1>11. CASE ToolExecute(w)
    <2>1. eff[g][s].status = "intent" /\ eff[g][s].attempts > 0
      BY <1>4, <1>11 DEF ToolExecute, At, OpenOK, OpenPcs, OncePcs, Row
    <2>2. eff' = eff /\ wk'[w].pc = "result" /\ wk'[w].goal = g /\ wk'[w].step = s
      BY <1>11 DEF ToolExecute, Locals, Typed, TypeOK
    <2> QED
      BY <2>1, <2>2 DEF OpenOK, OpenPcs, OncePcs, Row
  <1>12. CASE CommitResult(w)
    BY <1>2, <1>12, FinalPcType DEF CommitResult, OpenPcs, OncePcs
  <1>13. CASE Load(w)
    <2>1. wk'[w].pc = LoadPc(w, g)
      BY <1>13 DEF Load, Typed, TypeOK
    <2>2. LoadPc(w, g) \notin OpenPcs
      BY DEF LoadPc, OpenPcs, OncePcs
    <2> QED
      BY <1>1, <2>1, <2>2
  <1>14. CASE ReuseEffect(w) \/ AskAgent(w)
    <2>1. ASSUME NEW p \in {"intent", "approvalIntent"}, NEW k,
                 wk' = [wk EXCEPT ![w] = Locals(wk[w], p, wk[w].step, k, None)]
          PROVE  OpenOK(w)'
      <3>1. wk'[w].pc = p
        BY <2>1 DEF Locals, Typed, TypeOK
      <3> QED
        BY <1>1, <3>1 DEF OpenPcs, OncePcs
    <2> QED
      BY <1>2, <1>14, <2>1 DEF ReuseEffect, AskAgent, OpenPcs, OncePcs
  <1>15. CASE \/ MaxStepsExceeded(w) \/ Verify(w) \/ TransitionFenced(w)
              \/ UnknownTool(w) \/ MarkNeedsReview(w) \/ CommitStep(w)
              \/ LeaseLost(w) \/ Error(w)
    <2>1. \E p \in {"release", "doneGoal", "failGoal", "load", "pauseGoal"} : Goto(w, p)
      BY <1>15 DEF MaxStepsExceeded, Verify, VerifyPcs, TransitionFenced, UnknownTool,
         MarkNeedsReview, CommitStep, LeaseLost, Error
    <2> QED
      BY <1>2, <2>1 DEF OpenPcs, OncePcs
  <1>16. CASE Release(w) \/ Crash(w) \/ \E h \in Goals : Claim(w, h)
    <2>1. wk'[w].pc \in {"idle", "load"}
      BY <1>16 DEF Release, Crash, Claim, Claimed, IdleWorker, Typed, TypeOK
    <2> QED
      BY <1>1, <2>1 DEF OpenPcs, OncePcs
  <1> QED
    BY <1>6, <1>7, <1>8, <1>9, <1>10, <1>11, <1>12, <1>13, <1>14, <1>15, <1>16
    DEF Acts, Work

LEMMA InitOnce == Init => OnceInv
  BY DEF Init, OnceInv, RunsOK, OpenOK, IdleWorker, NoEffect, OpenPcs, OncePcs

LEMMA OnceStep == Typed /\ LeaseHeld /\ OnceInv /\ [Next]_vars => OnceInv'
  BY RunsStep, OpenUndisturbed, OpenActs, WorkerFrame DEF OnceInv

LEMMA OnceInvariant ==
    Spec /\ [][NoLeaseLoss]_vars => [](Typed /\ LeaseHeld /\ OnceInv)
  <1>1. Typed /\ LeaseInv /\ EpochInv /\ LeaseHeld /\ [Next]_vars /\ [NoLeaseLoss]_vars
           => LeaseHeld'
    BY HeldStep, HeldStutter
  <1>2. Spec /\ [][NoLeaseLoss]_vars => [](Typed /\ LeaseHeld)
    BY <1>1, EpochInvariant, InitHeld, PTL DEF Spec
  <1> QED
    BY <1>2, InitOnce, OnceStep, PTL DEF Spec

(* README.md:5, executor.Run: while no live worker loses its lease, a step's  *)
(* tool takes effect at most once, and once more for every retry an operator  *)
(* asks for, however often workers crash and databases fail.                  *)
THEOREM OnceWhileLeased == Spec /\ [][NoLeaseLoss]_vars => []AtMostOnce
  <1>1. OnceInv => AtMostOnce
    BY DEF OnceInv, RunsOK, AtMostOnce
  <1> QED
    BY <1>1, OnceInvariant, PTL

----------------------------------------------------------------------------
(* What settle found out about a step that is in doubt stays true until it is *)
(* acted on: a probe is asked of attempted steps only, a hit means that the   *)
(* tool took effect, and a step goes back to the tool only if it was not      *)
(* attempted or had no effect.  The step a worker is at is the goal's cursor. *)
DoubtOK(w) ==
    /\ wk[w].pc \in {"probe", "probed"} => Row(w).attempts > 0
    /\ wk[w].pc = "probed" => /\ wk[w].out = "committed"
                              /\ runs[wk[w].goal][wk[w].step] > 0
    /\ wk[w].pc \in {"authorize", "attempt"}
          => Row(w).attempts = 0 \/ runs[wk[w].goal][wk[w].step] = 0
    /\ wk[w].pc \in StepPcs => wk[w].step = goal[wk[w].goal].cursor

DoubtInv == \A w \in Workers : DoubtOK(w)

LEMMA DoubtUndisturbed ==
    ASSUME Typed, LeaseInv, LeaseHeld, OnceInv, DoubtInv, [Next]_vars,
           NEW w \in Workers, wk'[w] = wk[w], ~ Acts(w)
    PROVE  DoubtOK(w)'
  <1>1. DoubtOK(w)
    BY DEF DoubtInv
  <1>2. ASSUME wk[w].pc \in StepPcs
        PROVE  goal'[wk[w].goal].cursor = goal[wk[w].goal].cursor
    <2>1. Active(w) /\ wk[w].goal \in Goals
      BY <1>2, ActiveGoal DEF Active, StepPcs
    <2>2. ASSUME NEW v \in Workers, Recording(v, wk[w].goal)
          PROVE  FALSE
      <3>1. Active(v)
        BY <2>2 DEF Recording, At, Active
      <3>2. v = w
        BY <2>1, <2>2, <3>1 DEF Recording, LeaseHeld
      <3> QED
        BY <2>2, <3>2 DEF Recording, Acts, Work
    <2> QED
      BY <2>1, <2>2, RecordedChange
  <1>3. ASSUME wk[w].pc \in {"probe", "probed", "authorize", "attempt"}
        PROVE  /\ eff'[wk[w].goal][wk[w].step] = Row(w)
               /\ runs'[wk[w].goal][wk[w].step] = runs[wk[w].goal][wk[w].step]
    BY <1>3, RowUndisturbed DEF OpenPcs, OncePcs, Row
  <1> QED
    BY <1>1, <1>2, <1>3 DEF DoubtOK, Row

(* settle asks a probe about attempted effects and runs unattempted ones. *)
LEMMA SettleDoubt ==
    ASSUME NEW row \in EffectRow, row.status # "absent"
    PROVE  /\ SettlePc(row) = "probe" => row.attempts > 0
           /\ SettlePc(row) = "authorize" => row.attempts = 0
           /\ SettlePc(row) \notin {"probed", "attempt"}
  <1>1. row.status \in {"intent", "committed", "failed", "needs_review"}
        /\ row.attempts \in Nat
    BY DEF EffectRow, EffectStates
  <1>2. CASE row.status = "committed"
    BY <1>2 DEF SettlePc
  <1>3. CASE row.status = "failed"
    BY <1>3 DEF SettlePc
  <1>4. CASE row.status = "needs_review"
    BY <1>4 DEF SettlePc
  <1>5. CASE row.status = "intent" /\ row.attempts = 0
    BY <1>5 DEF SettlePc
  <1>6. CASE row.status = "intent" /\ row.attempts # 0
    <2>1. SettlePc(row) \in {"probe", "markReview"}
      BY <1>6 DEF SettlePc
    <2> QED
      BY <1>1, <1>6, <2>1
  <1> QED
    BY <1>1, <1>2, <1>3, <1>4, <1>5, <1>6

LEMMA DoubtActs ==
    ASSUME Typed, OnceInv, DoubtInv, [Next]_vars, NEW w \in Workers, Acts(w)
    PROVE  DoubtOK(w)'
  <1> DEFINE g == wk[w].goal
             s == wk[w].step
  <1>1. ASSUME wk'[w].pc \notin StepPcs
        PROVE  DoubtOK(w)'
    BY <1>1 DEF DoubtOK, StepPcs
  <1>2. ASSUME NEW p, Goto(w, p), p \notin StepPcs
        PROVE  DoubtOK(w)'
    BY <1>1, <1>2, GotoLocals
  <1>3. DoubtOK(w)
    BY DEF DoubtInv
  <1>4. ASSUME NEW p \in StepPcs, wk[w].pc \in StepPcs, goal' = goal,
               wk'[w].pc = p, wk'[w].goal = g, wk'[w].step = s,
               p \notin {"probe", "probed", "authorize", "attempt"}
        PROVE  DoubtOK(w)'
    BY <1>3, <1>4 DEF DoubtOK, Row
  <1>5. ASSUME NEW p \in StepPcs, wk[w].pc \in StepPcs, goal' = goal, runs' = runs,
               wk'[w].pc = p, wk'[w].goal = g, wk'[w].step = s,
               p = "probe" => eff'[g][s].attempts > 0,
               p \in {"authorize", "attempt"}
                   => eff'[g][s].attempts = 0 \/ runs[g][s] = 0,
               p # "probed"
        PROVE  DoubtOK(w)'
    BY <1>3, <1>5 DEF DoubtOK, Row
  <1>6. ASSUME NEW p \in StepPcs, Goto(w, p)
        PROVE  wk'[w].pc = p /\ wk'[w].goal = g /\ wk'[w].step = s
    BY <1>6, GotoLocals DEF LeaseKept
  <1>7. CASE CommitIntent(w)
    <2>1. /\ wk[w].pc \in StepPcs /\ g \in Goals /\ s \in Steps
          /\ Row(w) \in EffectRow /\ Row(w) = eff[g][s]
      BY <1>7, StepLocals DEF CommitIntent, At, StepPcs, Row
    <2>2. runs' = runs /\ goal' = goal
      BY <1>7 DEF CommitIntent
    <2>3. CASE /\ Row(w).status = "absent" /\ Goto(w, "authorize")
               /\ SetRow(w, [status |-> "intent", attempts |-> 0, key |-> wk[w].call])
      <3>1. eff'[g][s].attempts = 0
        BY <2>1, <2>3 DEF SetRow, SetEffect, Typed, TypeOK
      <3>2. "authorize" \in StepPcs
        BY DEF StepPcs
      <3> QED
        BY <1>5, <1>6, <2>1, <2>2, <2>3, <3>1, <3>2
    <2>4. CASE /\ Row(w).status # "absent" /\ eff' = eff
               /\ Goto(w, SettlePc(Row(w)))
      <3> DEFINE p == SettlePc(Row(w))
      <3>1. CASE p \notin StepPcs
        BY <1>2, <2>4, <3>1
      <3>2. CASE p \in StepPcs
        <4>1. /\ p = "probe" => eff'[g][s].attempts > 0
              /\ p = "authorize" => eff'[g][s].attempts = 0
              /\ p \notin {"probed", "attempt"}
          BY <2>1, <2>4, SettleDoubt
        <4>2. wk'[w].pc = p /\ wk'[w].goal = g /\ wk'[w].step = s
          BY <1>6, <2>4, <3>2
        <4> QED
          BY <1>5, <2>1, <2>2, <3>2, <4>1, <4>2
      <3> QED
        BY <3>1, <3>2
    <2>5. CASE Goto(w, "release")
      BY <1>2, <2>5 DEF StepPcs
    <2> QED
      BY <1>7, <2>3, <2>4, <2>5 DEF CommitIntent
  <1>8. CASE RequestApproval(w) \/ MarkAttempt(w) \/ CommitResult(w)
    <2>1. wk[w].pc \in StepPcs /\ goal' = goal
      BY <1>8 DEF RequestApproval, MarkAttempt, CommitResult, At, StepPcs
    <2>2. \E p \in {"flagReview", "tool", "commitStep", "failGoal", "pauseGoal"} : Goto(w, p)
      BY <1>8, FinalPcType DEF RequestApproval, MarkAttempt, CommitResult
    <2>3. ASSUME NEW p \in {"flagReview", "tool", "commitStep"}, Goto(w, p)
          PROVE  DoubtOK(w)'
      BY <1>4, <1>6, <2>1, <2>3 DEF StepPcs
    <2> QED
      BY <1>2, <2>2, <2>3 DEF StepPcs
  <1>9. CASE Probe(w)
    <2>1. wk[w].pc \in StepPcs /\ goal' = goal /\ runs' = runs /\ eff' = eff
      BY <1>9 DEF Probe, At, StepPcs
    <2>2. wk[w].pc = "probe" /\ Row(w).attempts > 0
      BY <1>3, <1>9 DEF Probe, At, DoubtOK
    <2>3. CASE Goto(w, "markReview")
      BY <1>4, <1>6, <2>1, <2>3 DEF StepPcs
    <2>4. CASE runs[g][s] = 0 /\ Goto(w, "authorize")
      BY <1>5, <1>6, <2>1, <2>4 DEF StepPcs
    <2>5. CASE /\ runs[g][s] > 0
               /\ wk' = [wk EXCEPT ![w] = Locals(wk[w], "probed", wk[w].step,
                                                 wk[w].call, "committed")]
      <3>1. /\ wk'[w].pc = "probed" /\ wk'[w].goal = g /\ wk'[w].step = s
            /\ wk'[w].out = "committed"
        BY <2>5 DEF Locals, Typed, TypeOK
      <3>2. s = goal[g].cursor
        BY <1>3, <2>1 DEF DoubtOK
      <3> QED
        BY <2>1, <2>2, <2>5, <3>1, <3>2 DEF DoubtOK, Row
    <2> QED
      BY <1>9, <2>3, <2>4, <2>5 DEF Probe
  <1>10. CASE Authorize(w)
    <2>1. /\ wk[w].pc \in StepPcs /\ goal' = goal /\ runs' = runs /\ eff' = eff
          /\ Row(w).attempts = 0 \/ runs[g][s] = 0
      BY <1>3, <1>10 DEF Authorize, At, StepPcs, DoubtOK
    <2>2. CASE Goto(w, "attempt")
      BY <1>5, <1>6, <2>1, <2>2 DEF StepPcs, Row
    <2>3. CASE Goto(w, "pauseGoal")
      BY <1>2, <2>3 DEF StepPcs
    <2> QED
      BY <1>10, <2>2, <2>3 DEF Authorize
  <1>11. CASE ToolExecute(w)
    <2>1. /\ wk[w].pc \in StepPcs /\ goal' = goal
          /\ wk'[w].pc = "result" /\ wk'[w].goal = g /\ wk'[w].step = s
      BY <1>11 DEF ToolExecute, At, StepPcs, Locals, Typed, TypeOK
    <2> QED
      BY <1>4, <2>1 DEF StepPcs
  <1>12. CASE Load(w)
    <2>1. /\ wk'[w].pc = LoadPc(w, g) /\ wk'[w].goal = g /\ goal' = goal
          /\ wk'[w].pc = "step" => wk'[w].step = goal[g].cursor
      BY <1>12 DEF Load, Typed, TypeOK
    <2>2. LoadPc(w, g) \in StepPcs => LoadPc(w, g) = "step"
      BY DEF LoadPc, StepPcs
    <2>3. CASE wk'[w].pc = "step"
      BY <2>1, <2>3 DEF DoubtOK
    <2> QED
      BY <1>1, <2>1, <2>2, <2>3
  <1>13. CASE ReuseEffect(w) \/ AskAgent(w)
    <2>1. wk[w].pc \in StepPcs /\ goal' = goal
      BY <1>13 DEF ReuseEffect, AskAgent, At, StepPcs
    <2>2. ASSUME NEW p \in {"intent", "approvalIntent"}, NEW k,
                 wk' = [wk EXCEPT ![w] = Locals(wk[w], p, wk[w].step, k, None)]
          PROVE  DoubtOK(w)'
      <3>1. wk'[w].pc = p /\ wk'[w].goal = g /\ wk'[w].step = s
        BY <2>2 DEF Locals, Typed, TypeOK
      <3> QED
        BY <1>4, <2>1, <2>2, <3>1 DEF StepPcs
    <2> QED
      BY <1>2, <1>13, <2>2 DEF ReuseEffect, AskAgent, StepPcs
  <1>14. CASE \/ MaxStepsExceeded(w) \/ Verify(w) \/ TransitionFenced(w)
              \/ UnknownTool(w) \/ MarkNeedsReview(w) \/ CommitStep(w)
              \/ LeaseLost(w) \/ Error(w)
    <2>1. \E p \in {"release", "doneGoal", "failGoal", "load", "pauseGoal"} : Goto(w, p)
      BY <1>14 DEF MaxStepsExceeded, Verify, VerifyPcs, TransitionFenced, UnknownTool,
         MarkNeedsReview, CommitStep, LeaseLost, Error
    <2> QED
      BY <1>2, <2>1 DEF StepPcs
  <1>15. CASE Release(w) \/ Crash(w) \/ \E h \in Goals : Claim(w, h)
    <2>1. wk'[w].pc \in {"idle", "load"}
      BY <1>15 DEF Release, Crash, Claim, Claimed, IdleWorker, Typed, TypeOK
    <2> QED
      BY <1>1, <2>1 DEF StepPcs
  <1> QED
    BY <1>7, <1>8, <1>9, <1>10, <1>11, <1>12, <1>13, <1>14, <1>15 DEF Acts, Work

LEMMA DoubtInvariant ==
    Spec /\ [][NoLeaseLoss]_vars => [](Typed /\ LeaseHeld /\ OnceInv /\ DoubtInv)
  <1>1. Init => DoubtInv
    BY DEF Init, DoubtInv, DoubtOK, IdleWorker, StepPcs
  <1>2. Typed /\ LeaseInv /\ LeaseHeld /\ OnceInv /\ DoubtInv /\ [Next]_vars => DoubtInv'
    BY DoubtUndisturbed, DoubtActs, WorkerFrame DEF DoubtInv
  <1> QED
    BY <1>1, <1>2, OnceInvariant, EpochInvariant, PTL DEF Spec

----------------------------------------------------------------------------
(* The executor implements EffectContract.                                    *)

Final == {"committed", "failed", "needs_review"}

(* A worker with locals r is at the tool of step s of goal g. *)
Attempting(r, g, s) == r.pc \in {"tool", "result"} /\ r.goal = g /\ r.step = s

(* PhaseOf in terms of one row and of what the workers are at. *)
PhaseBy(row, locals, g, s) ==
    LET In(pc) == {w \in Workers : locals[w].pc = pc /\ locals[w].goal = g
                                                    /\ locals[w].step = s}
    IN IF row.status \in Final THEN row.status
       ELSE IF In("tool") # {} THEN "running"
       ELSE IF \E w \in In("result") : locals[w].out = "committed" THEN "returned"
       ELSE IF In("result") # {} THEN "erred"
       ELSE IF row.attempts > 0 THEN "doubt"
       ELSE "new"

(* The phase of a step that no worker is running. *)
RestPhase(row) ==
    IF row.status \in Final THEN row.status
    ELSE IF row.attempts > 0 THEN "doubt" ELSE "new"

(* The phase of a step that only a worker with locals r is running. *)
RunPhase(r) ==
    IF r.pc = "tool" THEN "running"
    ELSE IF r.out = "committed" THEN "returned" ELSE "erred"

LEMMA PhaseNow ==
    ASSUME NEW g \in Goals, NEW s \in Steps
    PROVE  /\ PhaseOf(g, s) = PhaseBy(eff[g][s], wk, g, s)
           /\ PhaseOf(g, s)' = PhaseBy(eff'[g][s], wk', g, s)
  BY DEF PhaseOf, PhaseBy, InTool, At, Final

LEMMA PhaseAtRest ==
    ASSUME NEW row, NEW locals, NEW g, NEW s,
           \A v \in Workers : ~ Attempting(locals[v], g, s)
    PROVE  PhaseBy(row, locals, g, s) = RestPhase(row)
  <1>1. \A pc \in {"tool", "result"} :
           {w \in Workers : locals[w].pc = pc /\ locals[w].goal = g
                                             /\ locals[w].step = s} = {}
    BY DEF Attempting
  <1> QED
    BY <1>1 DEF PhaseBy, RestPhase

LEMMA PhaseRunning ==
    ASSUME NEW row, NEW locals, NEW g, NEW s, NEW w \in Workers,
           Attempting(locals[w], g, s), row.status \notin Final,
           \A v \in Workers : Attempting(locals[v], g, s) => v = w
    PROVE  PhaseBy(row, locals, g, s) = RunPhase(locals[w])
  <1> DEFINE In(pc) == {v \in Workers : locals[v].pc = pc /\ locals[v].goal = g
                                                        /\ locals[v].step = s}
  <1>1. \A v \in In("tool") \cup In("result") : v = w
    BY DEF Attempting
  <1>2. CASE locals[w].pc = "tool"
    <2>1. w \in In("tool")
      BY <1>2 DEF Attempting
    <2> QED
      BY <1>2, <2>1 DEF PhaseBy, RunPhase
  <1>3. CASE locals[w].pc = "result"
    <2>1. w \in In("result") /\ In("tool") = {}
      BY <1>1, <1>3 DEF Attempting
    <2>2. (\E v \in In("result") : locals[v].out = "committed")
             <=> locals[w].out = "committed"
      BY <1>1, <2>1
    <2>3. In("result") # {}
      BY <2>1
    <2>4. PhaseBy(row, locals, g, s)
             = IF \E v \in In("result") : locals[v].out = "committed"
               THEN "returned" ELSE "erred"
      BY <2>1, <2>3 DEF PhaseBy
    <2> QED
      BY <1>3, <2>2, <2>4 DEF RunPhase
  <1> QED
    BY <1>2, <1>3 DEF Attempting

(* A step's phase changes only with its row and with the workers at its tool. *)
LEMMA PhaseSame ==
    ASSUME NEW row, NEW locals, NEW others, NEW g, NEW s,
           \A v \in Workers :
              \/ others[v] = locals[v]
              \/ ~ Attempting(locals[v], g, s) /\ ~ Attempting(others[v], g, s)
    PROVE  PhaseBy(row, others, g, s) = PhaseBy(row, locals, g, s)
  <1> DEFINE In(l, pc) == {v \in Workers : l[v].pc = pc /\ l[v].goal = g
                                                     /\ l[v].step = s}
  <1>1. \A pc \in {"tool", "result"} : In(others, pc) = In(locals, pc)
    BY DEF Attempting
  <1>2. \A v \in In(locals, "result") : others[v] = locals[v]
    BY DEF Attempting
  <1>3. (\E v \in In(others, "result") : others[v].out = "committed")
          <=> (\E v \in In(locals, "result") : locals[v].out = "committed")
    BY <1>1, <1>2
  <1> QED
    BY <1>1, <1>3 DEF PhaseBy

(* A worker's step leaves the other workers where they are. *)
LEMMA OnlyActor ==
    ASSUME Typed, NEW w \in Workers, Acts(w), NEW v \in Workers \ {w}
    PROVE  wk'[v] = wk[v]
  <1>1. ASSUME NEW r, wk' = [wk EXCEPT ![w] = r]
        PROVE  wk'[v] = wk[v]
    BY <1>1 DEF Typed, TypeOK
  <1>2. ASSUME NEW p, Goto(w, p)
        PROVE  wk'[v] = wk[v]
    BY <1>1, <1>2 DEF Goto
  <1>3. CASE \/ Load(w) \/ ReuseEffect(w) \/ AskAgent(w) \/ Probe(w) \/ ToolExecute(w)
             \/ Release(w) \/ Crash(w) \/ \E g \in Goals : Claim(w, g)
    BY <1>1, <1>2, <1>3 DEF Load, ReuseEffect, AskAgent, Probe, ToolExecute, Release,
       Crash, Claim
  <1> QED
    BY <1>2, <1>3 DEF Acts, Work, MaxStepsExceeded, Verify, TransitionFenced, UnknownTool,
       CommitIntent, RequestApproval, MarkNeedsReview, Authorize, MarkAttempt,
       CommitResult, CommitStep, LeaseLost, Error

(* Only CommitStep moves a cursor, and it moves its worker. *)
LEMMA CursorSame ==
    ASSUME Typed, LeaseInv, [Next]_vars,
           \A v \in Workers : wk'[v] = wk[v] \/ ~ CommitStep(v)
    PROVE  \A g \in Goals : goal'[g].cursor = goal[g].cursor
  <1>1. ASSUME NEW v \in Workers, CommitStep(v)
        PROVE  FALSE
    <2>1. wk[v].pc = "commitStep" /\ (Goto(v, "load") \/ Goto(v, "release"))
      BY <1>1 DEF CommitStep, At
    <2>2. wk'[v].pc \in {"load", "release"}
      BY <2>1, GotoLocals
    <2> QED
      BY <1>1, <2>1, <2>2
  <1> QED
    BY <1>1, RecordedChange DEF Recording

(* How the mapped variables change, point by point. *)
LEMMA EffectStutter ==
    ASSUME \A g \in Goals, s \in Steps : PhaseOf(g, s)' = PhaseOf(g, s),
           runs' = runs,
           \A g \in Goals : goal'[g].cursor = goal[g].cursor
    PROVE  UNCHANGED E!effectVars
  BY DEF E!effectVars

LEMMA PhaseBecomes ==
    ASSUME NEW g \in Goals, NEW s \in Steps, NEW p, PhaseOf(g, s)' = p,
           \A h \in Goals, t \in Steps :
              <<h, t>> # <<g, s>> => PhaseOf(h, t)' = PhaseOf(h, t)
    PROVE  E!Becomes(g, s, p)
  <1> DEFINE ph == [h \in Goals |-> [t \in Steps |-> PhaseOf(h, t)]]
             qh == [h \in Goals |-> [t \in Steps |-> PhaseOf(h, t)']]
  <1>1. ASSUME NEW h \in Goals
        PROVE  qh[h] = [ph EXCEPT ![g][s] = p][h]
    <2>1. CASE h = g
      <3>1. [ph EXCEPT ![g][s] = p][g] = [ph[g] EXCEPT ![s] = p]
        OBVIOUS
      <3>2. \A t \in Steps : qh[g][t] = [ph[g] EXCEPT ![s] = p][t]
        OBVIOUS
      <3> QED
        BY <2>1, <3>1, <3>2
    <2>2. CASE h # g
      <3>1. \A t \in Steps : PhaseOf(h, t)' = PhaseOf(h, t)
        BY <2>2
      <3> QED
        BY <2>2, <3>1
    <2> QED
      BY <2>1, <2>2
  <1>2. qh = [ph EXCEPT ![g][s] = p]
    BY <1>1
  <1> QED
    BY <1>2 DEF E!Becomes

(* A step of an active worker touches the phase of the step it is at only. *)
LEMMA ActorPhases ==
    ASSUME Typed, LeaseHeld, NEW w \in Workers, Acts(w), Active(w),
           NEW g \in Goals, NEW s \in Steps, wk[w].goal = g, wk[w].step = s,
           \A h \in Goals, t \in Steps :
              <<h, t>> # <<g, s>> => eff'[h][t] = eff[h][t],
           wk'[w].pc \in {"tool", "result"} => wk'[w].goal = g /\ wk'[w].step = s
    PROVE  /\ \A h \in Goals, t \in Steps :
                 <<h, t>> # <<g, s>> => PhaseOf(h, t)' = PhaseOf(h, t)
           /\ wk[w].pc \notin {"tool", "result"}
                 => PhaseOf(g, s) = RestPhase(eff[g][s])
           /\ wk'[w].pc \notin {"tool", "result"}
                 => PhaseOf(g, s)' = RestPhase(eff'[g][s])
           /\ wk[w].pc \in {"tool", "result"} /\ eff[g][s].status \notin Final
                 => PhaseOf(g, s) = RunPhase(wk[w])
           /\ wk'[w].pc \in {"tool", "result"} /\ eff'[g][s].status \notin Final
                 => PhaseOf(g, s)' = RunPhase(wk'[w])
  <1>1. \A v \in Workers \ {w} : wk'[v] = wk[v]
    BY OnlyActor
  <1>2. \A v \in Workers : Attempting(wk[v], g, s) => v = w
    BY DEF Attempting, LeaseHeld, Active
  <1>3. \A v \in Workers : Attempting(wk'[v], g, s) => v = w
    BY <1>1, <1>2
  <1>4. ASSUME NEW h \in Goals, NEW t \in Steps, <<h, t>> # <<g, s>>
        PROVE  PhaseOf(h, t)' = PhaseOf(h, t)
    <2>1. ~ Attempting(wk[w], h, t) /\ ~ Attempting(wk'[w], h, t)
      BY <1>4 DEF Attempting
    <2>2. PhaseBy(eff[h][t], wk', h, t) = PhaseBy(eff[h][t], wk, h, t)
      BY <1>1, <2>1, PhaseSame
    <2>3. eff'[h][t] = eff[h][t]
      BY <1>4
    <2> QED
      BY <2>2, <2>3, PhaseNow
  <1>5. ASSUME wk[w].pc \notin {"tool", "result"}
        PROVE  PhaseOf(g, s) = RestPhase(eff[g][s])
    <2>1. \A v \in Workers : ~ Attempting(wk[v], g, s)
      BY <1>2, <1>5 DEF Attempting
    <2> QED
      BY <2>1, PhaseAtRest, PhaseNow
  <1>6. ASSUME wk'[w].pc \notin {"tool", "result"}
        PROVE  PhaseOf(g, s)' = RestPhase(eff'[g][s])
    <2>1. \A v \in Workers : ~ Attempting(wk'[v], g, s)
      BY <1>3, <1>6 DEF Attempting
    <2> QED
      BY <2>1, PhaseAtRest, PhaseNow
  <1>7. ASSUME wk[w].pc \in {"tool", "result"}, eff[g][s].status \notin Final
        PROVE  PhaseOf(g, s) = RunPhase(wk[w])
    <2>1. Attempting(wk[w], g, s)
      BY <1>7 DEF Attempting
    <2> QED
      BY <1>2, <1>7, <2>1, PhaseRunning, PhaseNow
  <1>8. ASSUME wk'[w].pc \in {"tool", "result"}, eff'[g][s].status \notin Final
        PROVE  PhaseOf(g, s)' = RunPhase(wk'[w])
    <2>1. Attempting(wk'[w], g, s)
      BY <1>8 DEF Attempting
    <2> QED
      BY <1>3, <1>8, <2>1, PhaseRunning, PhaseNow
  <1> QED
    BY <1>4, <1>5, <1>6, <1>7, <1>8

(* Steps that neither write the effects table nor move a worker at a tool. *)
LEMMA QuietPhases ==
    ASSUME eff' = eff,
           \A v \in Workers :
              \/ wk'[v] = wk[v]
              \/ /\ wk[v].pc \notin {"tool", "result"}
                 /\ wk'[v].pc \notin {"tool", "result"}
    PROVE  \A g \in Goals, s \in Steps : PhaseOf(g, s)' = PhaseOf(g, s)
  <1> TAKE g \in Goals, s \in Steps
  <1>1. PhaseBy(eff[g][s], wk', g, s) = PhaseBy(eff[g][s], wk, g, s)
    BY PhaseSame DEF Attempting
  <1> QED
    BY <1>1, PhaseNow

(* Writing the row of the step a worker is at. *)
LEMMA RowWritten ==
    ASSUME Typed, NEW w \in Workers, wk[w].goal \in Goals, wk[w].step \in Steps,
           NEW row, SetRow(w, row)
    PROVE  /\ eff'[wk[w].goal][wk[w].step] = row
           /\ \A h \in Goals, t \in Steps :
                 <<h, t>> # <<wk[w].goal, wk[w].step>> => eff'[h][t] = eff[h][t]
  BY DEF SetRow, SetEffect, Typed, TypeOK

EffectInvs == /\ Typed /\ LeaseInv /\ AbsentInv /\ HistoryInv
              /\ LeaseHeld /\ OnceInv /\ DoubtInv

(* Phase (a) creates the row of a step that stays new. *)
LEMMA IntentRefined ==
    ASSUME EffectInvs, [Next]_vars, NEW w \in Workers, CommitIntent(w) \/ RequestApproval(w)
    PROVE  UNCHANGED E!effectVars
  <1> USE DEF EffectInvs
  <1>1. /\ wk[w].pc \in {"intent", "approvalIntent"} /\ runs' = runs
        /\ wk[w].pc \in StepPcs \ {"step"} /\ Active(w) /\ Acts(w)
    BY DEF CommitIntent, RequestApproval, At, StepPcs, Active, Acts, Work
  <1>2. wk[w].goal \in Goals /\ wk[w].step \in Steps /\ Row(w) \in EffectRow
    BY <1>1, StepLocals
  <1>g. PICK g \in Goals : g = wk[w].goal
    BY <1>2
  <1>s. PICK s \in Steps : s = wk[w].step
    BY <1>2
  <1> USE <1>g, <1>s
  <1>3. wk'[w].pc \notin {"tool", "result"}
    <2>1. ASSUME NEW p \in {"authorize", "release", "flagReview", "pauseGoal"}, Goto(w, p)
          PROVE  wk'[w].pc \notin {"tool", "result"}
      BY <2>1, GotoLocals
    <2>2. ASSUME Row(w).status # "absent", Goto(w, SettlePc(Row(w)))
          PROVE  wk'[w].pc \notin {"tool", "result"}
      BY <1>2, <2>2, GotoLocals, SettleOpen
    <2> QED
      BY <2>1, <2>2 DEF CommitIntent, RequestApproval
  <1>4. \A h \in Goals : goal'[h].cursor = goal[h].cursor
    BY DEF CommitIntent, RequestApproval
  <1>5. CASE eff' = eff
    <2>1. \A v \in Workers \ {w} : wk'[v] = wk[v]
      BY <1>1, OnlyActor
    <2>2. \A h \in Goals, t \in Steps : PhaseOf(h, t)' = PhaseOf(h, t)
      BY <1>1, <1>3, <1>5, <2>1, QuietPhases
    <2> QED
      BY <1>1, <1>4, <2>2, EffectStutter
  <1>6. CASE /\ Row(w).status = "absent"
             /\ SetRow(w, [status |-> "intent", attempts |-> 0, key |-> wk[w].call])
    <2>1. /\ eff'[g][s] = [status |-> "intent", attempts |-> 0, key |-> wk[w].call]
          /\ \A h \in Goals, t \in Steps : <<h, t>> # <<g, s>> => eff'[h][t] = eff[h][t]
      BY <1>2, <1>6, RowWritten
    <2>2. eff[g][s].status = "absent" /\ eff[g][s].attempts = 0
      BY <1>2, <1>6 DEF Row, AbsentInv
    <2>3. RestPhase(eff[g][s]) = "new" /\ RestPhase(eff'[g][s]) = "new"
      BY <2>1, <2>2 DEF RestPhase, Final
    <2>4. \A h \in Goals, t \in Steps : PhaseOf(h, t)' = PhaseOf(h, t)
      BY <1>1, <1>2, <1>3, <2>1, <2>3, ActorPhases
    <2> QED
      BY <1>1, <1>4, <2>4, EffectStutter
  <1> QED
    BY <1>5, <1>6 DEF CommitIntent, RequestApproval

(* MarkNeedsReview parks the step. *)
LEMMA ReviewRefined ==
    ASSUME EffectInvs, [Next]_vars, NEW w \in Workers, MarkNeedsReview(w)
    PROVE  \E g \in Goals, s \in Steps : E!Park(g, s)
  <1> USE DEF EffectInvs
  <1>1. /\ wk[w].pc \in {"flagReview", "markReview"} /\ runs' = runs /\ goal' = goal
        /\ wk[w].pc \in StepPcs \ {"step"} /\ Active(w) /\ Acts(w)
    BY DEF MarkNeedsReview, StepPcs, Active, Acts, Work
  <1>2. wk[w].goal \in Goals /\ wk[w].step \in Steps /\ Row(w) \in EffectRow
    BY <1>1, StepLocals
  <1>g. PICK g \in Goals : g = wk[w].goal
    BY <1>2
  <1>s. PICK s \in Steps : s = wk[w].step
    BY <1>2
  <1> USE <1>g, <1>s
  <1>3. eff[g][s].status = "intent"
    BY <1>1 DEF OnceInv, OpenOK, OpenPcs, Row
  <1>4. wk'[w].pc = "pauseGoal"
    BY GotoLocals DEF MarkNeedsReview
  <1>5. /\ eff'[g][s].status = "needs_review"
        /\ \A h \in Goals, t \in Steps : <<h, t>> # <<g, s>> => eff'[h][t] = eff[h][t]
    BY <1>2, <1>3, RowWritten DEF MarkNeedsReview, Settled, Row
  <1>6. RestPhase(eff[g][s]) \in {"new", "doubt"} /\ RestPhase(eff'[g][s]) = "needs_review"
    BY <1>3, <1>5 DEF RestPhase, Final
  <1>7. /\ PhaseOf(g, s) \in {"new", "doubt"} /\ PhaseOf(g, s)' = "needs_review"
        /\ \A h \in Goals, t \in Steps :
              <<h, t>> # <<g, s>> => PhaseOf(h, t)' = PhaseOf(h, t)
    BY <1>1, <1>2, <1>4, <1>5, <1>6, ActorPhases
  <1>8. E!Becomes(g, s, "needs_review")
    BY <1>2, <1>7, PhaseBecomes
  <1>9. E!Park(g, s)
    BY <1>1, <1>2, <1>7, <1>8 DEF E!Park, E!Open
  <1> QED
    BY <1>2, <1>9

(* MarkAttempt starts the step at the cursor, if it is new or had no effect. *)
LEMMA AttemptRefined ==
    ASSUME EffectInvs, [Next]_vars, NEW w \in Workers, MarkAttempt(w)
    PROVE  \E g \in Goals, s \in Steps : E!Start(g, s)
  <1> USE DEF EffectInvs
  <1>1. /\ wk[w].pc = "attempt" /\ runs' = runs /\ goal' = goal
        /\ wk[w].pc \in StepPcs \ {"step"} /\ Active(w) /\ Acts(w)
    BY DEF MarkAttempt, At, StepPcs, Active, Acts, Work
  <1>2. wk[w].goal \in Goals /\ wk[w].step \in Steps /\ Row(w) \in EffectRow
    BY <1>1, StepLocals
  <1>g. PICK g \in Goals : g = wk[w].goal
    BY <1>2
  <1>s. PICK s \in Steps : s = wk[w].step
    BY <1>2
  <1> USE <1>g, <1>s
  <1>3. /\ eff[g][s].status = "intent" /\ s = goal[g].cursor
        /\ eff[g][s].attempts = 0 \/ runs[g][s] = 0
    BY <1>1 DEF OnceInv, OpenOK, OpenPcs, OncePcs, DoubtInv, DoubtOK, Row
  <1>4. wk'[w].pc = "tool" /\ wk'[w].goal = g /\ wk'[w].step = s
    BY GotoLocals DEF MarkAttempt, LeaseKept, StepPcs
  <1>5. /\ eff'[g][s].status = "intent"
        /\ \A h \in Goals, t \in Steps : <<h, t>> # <<g, s>> => eff'[h][t] = eff[h][t]
    <2>1. SetRow(w, Attempted(Row(w))) /\ Row(w) = eff[g][s]
      BY DEF MarkAttempt, Row
    <2>2. /\ eff'[g][s] = Attempted(Row(w))
          /\ \A h \in Goals, t \in Steps : <<h, t>> # <<g, s>> => eff'[h][t] = eff[h][t]
      BY <1>2, <2>1, RowWritten
    <2>3. Attempted(Row(w)).status = Row(w).status
      BY DEF Attempted
    <2> QED
      BY <1>3, <2>1, <2>2, <2>3
  <1>6. RestPhase(eff[g][s]) = "new" \/ (RestPhase(eff[g][s]) = "doubt" /\ runs[g][s] = 0)
    BY <1>3 DEF RestPhase, Final
  <1>7. /\ PhaseOf(g, s) = "new" \/ (PhaseOf(g, s) = "doubt" /\ runs[g][s] = 0)
        /\ PhaseOf(g, s)' = "running"
        /\ \A h \in Goals, t \in Steps :
              <<h, t>> # <<g, s>> => PhaseOf(h, t)' = PhaseOf(h, t)
    <2>1. RunPhase(wk'[w]) = "running" /\ eff'[g][s].status \notin Final
      BY <1>4, <1>5 DEF RunPhase, Final
    <2> QED
      BY <1>1, <1>2, <1>4, <1>5, <1>6, <2>1, ActorPhases
  <1>8. E!Becomes(g, s, "running")
    BY <1>2, <1>7, PhaseBecomes
  <1>9. E!Start(g, s)
    BY <1>1, <1>2, <1>3, <1>7, <1>8 DEF E!Start
  <1> QED
    BY <1>2, <1>9

(* The tool returns, or fails, with or without effect. *)
LEMMA ToolRefined ==
    ASSUME EffectInvs, [Next]_vars, NEW w \in Workers, ToolExecute(w)
    PROVE  \E g \in Goals, s \in Steps : E!ToolEnds(g, s)
  <1> USE DEF EffectInvs
  <1>1. /\ wk[w].pc = "tool" /\ eff' = eff /\ goal' = goal
        /\ wk[w].pc \in StepPcs \ {"step"} /\ Active(w) /\ Acts(w)
    BY DEF ToolExecute, At, StepPcs, Active, Acts, Work
  <1>2. wk[w].goal \in Goals /\ wk[w].step \in Steps /\ Row(w) \in EffectRow
    BY <1>1, StepLocals
  <1>g. PICK g \in Goals : g = wk[w].goal
    BY <1>2
  <1>s. PICK s \in Steps : s = wk[w].step
    BY <1>2
  <1> USE <1>g, <1>s
  <1>3. eff[g][s].status = "intent" /\ eff[g][s].status \notin Final
    BY <1>1 DEF OnceInv, OpenOK, OpenPcs, OncePcs, Row, Final
  <1>4. PICK out \in {"committed", "failed"}, n \in {0, 1} :
          /\ out = "committed" => n = 1
          /\ runs' = [runs EXCEPT ![g][s] = @ + n]
          /\ wk' = [wk EXCEPT ![w] = Locals(wk[w], "result", wk[w].step, wk[w].call, out)]
    BY DEF ToolExecute
  <1>5. wk'[w].pc = "result" /\ wk'[w].goal = g /\ wk'[w].step = s /\ wk'[w].out = out
    BY <1>4 DEF Locals, Typed, TypeOK
  <1>6. PICK p \in {"returned", "erred"} : p = IF out = "committed" THEN "returned" ELSE "erred"
    OBVIOUS
  <1>7. RunPhase(wk[w]) = "running" /\ RunPhase(wk'[w]) = p
    BY <1>1, <1>5, <1>6 DEF RunPhase
  <1>8. /\ PhaseOf(g, s) = "running" /\ PhaseOf(g, s)' = p
        /\ \A h \in Goals, t \in Steps :
              <<h, t>> # <<g, s>> => PhaseOf(h, t)' = PhaseOf(h, t)
    BY <1>1, <1>2, <1>3, <1>5, <1>7, ActorPhases
  <1>9. E!Becomes(g, s, p)
    BY <1>8, PhaseBecomes
  <1>10. p = "returned" => n = 1
    BY <1>4, <1>6
  <1>11. E!ToolEnds(g, s)
    BY <1>1, <1>4, <1>8, <1>9, <1>10 DEF E!ToolEnds
  <1> QED
    BY <1>11

(* Phase (c) records what the tool gave, or adopts what a probe found. *)
LEMMA ResultRefined ==
    ASSUME EffectInvs, [Next]_vars, NEW w \in Workers, CommitResult(w)
    PROVE  \E g \in Goals, s \in Steps : E!Record(g, s) \/ E!Adopt(g, s)
  <1> USE DEF EffectInvs
  <1>1. /\ wk[w].pc \in {"result", "probed"} /\ runs' = runs /\ goal' = goal
        /\ wk[w].pc \in StepPcs \ {"step"} /\ Active(w) /\ Acts(w)
    BY DEF CommitResult, At, StepPcs, Active, Acts, Work
  <1>2. wk[w].goal \in Goals /\ wk[w].step \in Steps /\ Row(w) \in EffectRow
    BY <1>1, StepLocals
  <1>g. PICK g \in Goals : g = wk[w].goal
    BY <1>2
  <1>s. PICK s \in Steps : s = wk[w].step
    BY <1>2
  <1> USE <1>g, <1>s
  <1>3. /\ eff[g][s].status = "intent" /\ eff[g][s].status \notin Final
        /\ wk[w].out \in {"committed", "failed"}
    BY <1>1 DEF OnceInv, OpenOK, OpenPcs, OncePcs, Row, Final, Typed, LocalOK, WorkerOK
  <1>4. wk'[w].pc \notin {"tool", "result"}
    BY GotoLocals, FinalPcType DEF CommitResult
  <1>5. /\ eff'[g][s].status = wk[w].out
        /\ \A h \in Goals, t \in Steps : <<h, t>> # <<g, s>> => eff'[h][t] = eff[h][t]
    <2>1. SetRow(w, Settled(Row(w), wk[w].out)) /\ Row(w) = eff[g][s]
      BY DEF CommitResult, Row
    <2>2. /\ eff'[g][s] = Settled(Row(w), wk[w].out)
          /\ \A h \in Goals, t \in Steps : <<h, t>> # <<g, s>> => eff'[h][t] = eff[h][t]
      BY <1>2, <2>1, RowWritten
    <2>3. Settled(Row(w), wk[w].out).status = wk[w].out
      BY <1>3, <2>1 DEF Settled
    <2> QED
      BY <2>2, <2>3
  <1>6. RestPhase(eff'[g][s]) = wk[w].out
    BY <1>3, <1>5 DEF RestPhase, Final
  <1>7. /\ PhaseOf(g, s)' = wk[w].out
        /\ wk[w].pc = "result" => PhaseOf(g, s) = RunPhase(wk[w])
        /\ wk[w].pc = "probed" => PhaseOf(g, s) = RestPhase(eff[g][s])
        /\ \A h \in Goals, t \in Steps :
              <<h, t>> # <<g, s>> => PhaseOf(h, t)' = PhaseOf(h, t)
    BY <1>1, <1>2, <1>3, <1>4, <1>5, <1>6, ActorPhases
  <1>8. PICK p \in {"committed", "failed"} : p = wk[w].out
    BY <1>3
  <1>9. PhaseOf(g, s)' = p
    BY <1>7, <1>8
  <1>10. E!Becomes(g, s, p)
    BY <1>7, <1>9, PhaseBecomes
  <1>11. CASE wk[w].pc = "result"
    <2>1. PhaseOf(g, s) = IF p = "committed" THEN "returned" ELSE "erred"
      BY <1>7, <1>8, <1>11 DEF RunPhase
    <2>2. E!Record(g, s)
      BY <1>1, <1>10, <2>1 DEF E!Record
    <2> QED
      BY <2>2
  <1>12. CASE wk[w].pc = "probed"
    <2>1. p = "committed" /\ runs[g][s] > 0 /\ eff[g][s].attempts > 0
      BY <1>8, <1>12 DEF DoubtInv, DoubtOK, Row
    <2>2. PhaseOf(g, s) = "doubt"
      BY <1>3, <1>7, <1>12, <2>1 DEF RestPhase
    <2>3. E!Adopt(g, s)
      BY <1>1, <1>10, <2>1, <2>2 DEF E!Adopt
    <2> QED
      BY <2>3
  <1> QED
    BY <1>1, <1>11, <1>12

(* A worker that goes while its tool runs, or before the result is recorded,  *)
(* leaves a doubt.                                                            *)
LEMMA LossRefined ==
    ASSUME EffectInvs, [Next]_vars, NEW w \in Workers, Error(w) \/ Crash(w),
           wk[w].pc \in {"tool", "result"}
    PROVE  \E g \in Goals, s \in Steps : E!Lose(g, s)
  <1> USE DEF EffectInvs
  <1>1. /\ eff' = eff /\ runs' = runs /\ goal' = goal
        /\ wk[w].pc \in StepPcs \ {"step"} /\ Active(w) /\ Acts(w)
    BY DEF Error, Crash, StepPcs, Active, Acts
  <1>2. wk[w].goal \in Goals /\ wk[w].step \in Steps /\ Row(w) \in EffectRow
    BY <1>1, StepLocals
  <1>g. PICK g \in Goals : g = wk[w].goal
    BY <1>2
  <1>s. PICK s \in Steps : s = wk[w].step
    BY <1>2
  <1> USE <1>g, <1>s
  <1>3. eff[g][s].status = "intent" /\ eff[g][s].attempts > 0 /\ eff[g][s].status \notin Final
    BY DEF OnceInv, OpenOK, OpenPcs, OncePcs, Row, Final
  <1>4. wk'[w].pc \in {"idle", "release"}
    BY GotoLocals DEF Error, Crash, IdleWorker, Typed, TypeOK
  <1>5. RestPhase(eff'[g][s]) = "doubt" /\ RunPhase(wk[w]) \in E!InFlight
    BY <1>1, <1>3 DEF RestPhase, RunPhase, E!InFlight
  <1>6. /\ PhaseOf(g, s) \in E!InFlight /\ PhaseOf(g, s)' = "doubt"
        /\ \A h \in Goals, t \in Steps :
              <<h, t>> # <<g, s>> => PhaseOf(h, t)' = PhaseOf(h, t)
    BY <1>1, <1>2, <1>3, <1>4, <1>5, ActorPhases
  <1>7. E!Becomes(g, s, "doubt")
    BY <1>6, PhaseBecomes
  <1>8. E!Lose(g, s)
    BY <1>1, <1>6, <1>7 DEF E!Lose
  <1> QED
    BY <1>8

(* CommitStep moves the cursor past a committed step, or does nothing. *)
LEMMA CommitStepRefined ==
    ASSUME EffectInvs, [Next]_vars, NEW w \in Workers, CommitStep(w)
    PROVE  UNCHANGED E!effectVars \/ \E g \in Goals : E!Advance(g)
  <1> USE DEF EffectInvs
  <1>1. /\ wk[w].pc = "commitStep" /\ eff' = eff /\ runs' = runs
        /\ wk[w].pc \in StepPcs \ {"step"} /\ Active(w) /\ Acts(w)
    BY DEF CommitStep, At, StepPcs, Active, Acts, Work
  <1>2. wk[w].goal \in Goals /\ wk[w].step \in Steps
    BY <1>1, StepLocals
  <1>g. PICK g \in Goals : g = wk[w].goal
    BY <1>2
  <1>3. wk'[w].pc \notin {"tool", "result"}
    BY GotoLocals DEF CommitStep
  <1>4. \A h \in Goals, s \in Steps : PhaseOf(h, s)' = PhaseOf(h, s)
    <2>1. \A v \in Workers \ {w} : wk'[v] = wk[v]
      BY <1>1, OnlyActor
    <2> QED
      BY <1>1, <1>3, <2>1, QuietPhases
  <1>5. CASE goal' = goal
    BY <1>1, <1>4, <1>5, EffectStutter
  <1>6. CASE goal[g].cursor = wk[w].step /\ goal' = [goal EXCEPT ![g] = Advanced(goal[g])]
    <2> DEFINE cur == [h \in Goals |-> goal[h].cursor]
               next == [h \in Goals |-> goal'[h].cursor]
    <2>1. \A h \in Goals : goal'[h].cursor = IF h = g THEN goal[h].cursor + 1
                                                    ELSE goal[h].cursor
      BY <1>6 DEF Advanced, Typed, TypeOK
    <2>2. next = [cur EXCEPT ![g] = @ + 1]
      BY <2>1
    <2>3. cur[g] \in Steps
      BY <1>2, <1>6
    <2>4. eff[g][cur[g]].status = "committed"
      BY <1>1, <1>6, <1>g DEF HistoryInv, At, Row
    <2>5. PhaseOf(g, cur[g]) = "committed"
      BY <2>4 DEF PhaseOf
    <2>6. [h \in Goals |-> [s \in Steps |-> PhaseOf(h, s)]]' =
             [h \in Goals |-> [s \in Steps |-> PhaseOf(h, s)]]
      BY <1>4
    <2>7. E!Advance(g)
      BY <1>1, <2>2, <2>3, <2>5, <2>6 DEF E!Advance
    <2> QED
      BY <2>7
  <1> QED
    BY <1>5, <1>6, <1>g DEF CommitStep

(* An operator settles a step under review; no worker is at its tool. *)
LEMMA ResolveRefined ==
    ASSUME EffectInvs, [Next]_vars, NEW g \in Goals, NEW s \in Steps,
           NEW action \in {"retry", "committed", "failed"}, ResolveReview(g, s, action)
    PROVE  E!OperatorResolves(g, s)
  <1> USE DEF EffectInvs
  <1>1. eff[g][s].status = "needs_review" /\ wk' = wk /\ runs' = runs /\ goal' = goal
    BY DEF ResolveReview
  <1>2. \A v \in Workers : ~ Attempting(wk[v], g, s)
    BY <1>1 DEF Attempting, OnceInv, OpenOK, OpenPcs, OncePcs, Row
  <1>3. PhaseOf(g, s) = "needs_review"
    BY <1>1 DEF PhaseOf
  <1>4. PICK p \in {"new", "committed", "failed"} :
               p = IF action = "retry" THEN "new" ELSE action
    OBVIOUS
  <1>5. /\ RestPhase(eff'[g][s]) = p
        /\ \A h \in Goals, t \in Steps : <<h, t>> # <<g, s>> => eff'[h][t] = eff[h][t]
    <2>1. ASSUME NEW row, SetEffect(g, s, row)
          PROVE  /\ eff'[g][s] = row
                 /\ \A h \in Goals, t \in Steps :
                       <<h, t>> # <<g, s>> => eff'[h][t] = eff[h][t]
      BY <2>1 DEF SetEffect, Typed, TypeOK
    <2>2. CASE action = "retry"
      BY <1>4, <2>1, <2>2 DEF ResolveReview, RestPhase, Final
    <2>3. CASE action # "retry"
      BY <1>4, <2>1, <2>3 DEF ResolveReview, RestPhase, Final
    <2> QED
      BY <2>2, <2>3
  <1>6. PhaseOf(g, s)' = p
    BY <1>1, <1>2, <1>5, PhaseAtRest, PhaseNow
  <1>7. ASSUME NEW h \in Goals, NEW t \in Steps, <<h, t>> # <<g, s>>
        PROVE  PhaseOf(h, t)' = PhaseOf(h, t)
    BY <1>1, <1>5, <1>7, PhaseNow
  <1>8. E!Becomes(g, s, p)
    BY <1>6, <1>7, PhaseBecomes
  <1> QED
    BY <1>1, <1>3, <1>8 DEF E!OperatorResolves

(* Everything else leaves the contract's variables as they are. *)
LEMMA OthersRefined ==
    ASSUME EffectInvs, [Next]_vars, NEW w \in Workers,
           \/ Load(w) \/ MaxStepsExceeded(w) \/ Verify(w) \/ TransitionFenced(w)
           \/ ReuseEffect(w) \/ AskAgent(w) \/ UnknownTool(w) \/ Probe(w)
           \/ Authorize(w) \/ Release(w) \/ LeaseLost(w)
           \/ \E g \in Goals : Claim(w, g)
           \/ (Error(w) \/ Crash(w)) /\ wk[w].pc \notin {"tool", "result"}
    PROVE  UNCHANGED E!effectVars
  <1> USE DEF EffectInvs
  <1>1. eff' = eff /\ runs' = runs
    BY DEF Load, MaxStepsExceeded, Verify, TransitionFenced, ReuseEffect, AskAgent,
       UnknownTool, Probe, Authorize, Release, LeaseLost, Claim, Error, Crash
  <1>2. wk[w].pc # "commitStep" \/ LeaseLost(w) \/ Error(w) \/ Crash(w)
    BY DEF Load, MaxStepsExceeded, Verify, TransitionFenced, FencedMoves, ReuseEffect,
       AskAgent, UnknownTool, Probe, Authorize, Release, Claim, At
  <1>3. wk[w].pc \notin {"tool", "result"}
    BY DEF Load, MaxStepsExceeded, Verify, TransitionFenced, FencedMoves, ReuseEffect,
       AskAgent, UnknownTool, Probe, Authorize, Release, LeaseLost, Claim, At
  <1>4. wk'[w].pc \notin {"tool", "result"}
    <2>1. ASSUME NEW p, Goto(w, p), p \notin {"tool", "result"}
          PROVE  wk'[w].pc \notin {"tool", "result"}
      BY <2>1, GotoLocals
    <2>2. CASE Load(w)
      <3>1. wk'[w].pc = LoadPc(w, wk[w].goal)
        BY <2>2 DEF Load, Typed, TypeOK
      <3> QED
        BY <3>1 DEF LoadPc
    <2>3. ASSUME NEW p \in {"intent", "approvalIntent", "probed"}, NEW k, NEW o,
                 wk' = [wk EXCEPT ![w] = Locals(wk[w], p, wk[w].step, k, o)]
          PROVE  wk'[w].pc \notin {"tool", "result"}
      BY <2>3 DEF Locals, Typed, TypeOK
    <2>4. CASE ReuseEffect(w) \/ AskAgent(w) \/ Probe(w)
      BY <2>1, <2>3, <2>4 DEF ReuseEffect, AskAgent, Probe
    <2>5. CASE Release(w) \/ Crash(w) \/ \E g \in Goals : Claim(w, g)
      BY <2>5 DEF Release, Crash, Claim, Claimed, IdleWorker, Typed, TypeOK
    <2> QED
      BY <2>1, <2>2, <2>4, <2>5 DEF MaxStepsExceeded, Verify, VerifyPcs,
         TransitionFenced, UnknownTool, Authorize, LeaseLost, Error
  <1>5. Acts(w)
    BY DEF Acts, Work
  <1>6. \A v \in Workers \ {w} : wk'[v] = wk[v]
    BY <1>5, OnlyActor
  <1>7. \A g \in Goals, s \in Steps : PhaseOf(g, s)' = PhaseOf(g, s)
    BY <1>1, <1>3, <1>4, <1>6, QuietPhases
  <1>8. \A g \in Goals : goal'[g].cursor = goal[g].cursor
    <2>1. CASE LeaseLost(w) \/ Error(w) \/ Crash(w)
      BY <2>1 DEF LeaseLost, Error, Crash
    <2>2. CASE wk[w].pc # "commitStep"
      <3>1. ~ CommitStep(w)
        BY <2>2 DEF CommitStep, At
      <3> QED
        BY <1>6, <3>1, CursorSame
    <2> QED
      BY <1>2, <2>1, <2>2
  <1> QED
    BY <1>1, <1>7, <1>8, EffectStutter

LEMMA EffectRefined ==
    ASSUME EffectInvs, [Next]_vars
    PROVE  [E!EffectNext]_E!effectVars
  <1>1. ASSUME wk' = wk, eff' = eff, runs' = runs
        PROVE  UNCHANGED E!effectVars
    <2>1. \A g \in Goals, s \in Steps : PhaseOf(g, s)' = PhaseOf(g, s)
      BY <1>1, QuietPhases
    <2>2. \A g \in Goals : goal'[g].cursor = goal[g].cursor
      BY <1>1, CursorSame DEF EffectInvs
    <2> QED
      BY <1>1, <2>1, <2>2, EffectStutter
  <1>2. ASSUME NEW g \in Goals, Signal(g) \/ LeaseExpires(g)
        PROVE  UNCHANGED E!effectVars
    BY <1>1, <1>2 DEF Signal, Create, Approve, Pause, Cancel, Transition, LeaseExpires
  <1>3. ASSUME NEW c \in Clients, (\E g \in Goals : ResumeRead(c, g)) \/ ResumeApply(c)
        PROVE  UNCHANGED E!effectVars
    BY <1>1, <1>3 DEF ResumeRead, ResumeApply, Transition
  <1>4. ASSUME NEW w \in Workers, Heartbeat(w)
        PROVE  UNCHANGED E!effectVars
    BY <1>1, <1>4 DEF Heartbeat
  <1>5. CASE UNCHANGED vars
    BY <1>1, <1>5 DEF vars
  <1>6. ASSUME NEW w \in Workers, Work(w)
        PROVE  E!EffectNext \/ UNCHANGED E!effectVars
    BY <1>6, IntentRefined, ReviewRefined, AttemptRefined, ToolRefined, ResultRefined,
       CommitStepRefined, OthersRefined DEF Work, E!EffectNext
  <1>7. ASSUME NEW w \in Workers,
               Error(w) \/ Crash(w) \/ \E g \in Goals : Claim(w, g)
        PROVE  E!EffectNext \/ UNCHANGED E!effectVars
    BY <1>7, LossRefined, OthersRefined DEF E!EffectNext
  <1>8. ASSUME NEW g \in Goals, NEW s \in Steps,
               NEW action \in {"retry", "committed", "failed"}, ResolveReview(g, s, action)
        PROVE  E!EffectNext
    BY <1>8, ResolveRefined DEF E!EffectNext
  <1> QED
    BY <1>2, <1>3, <1>4, <1>5, <1>6, <1>7, <1>8 DEF Next

LEMMA EffectAtFirst == Init => E!EffectInit
  <1> SUFFICES ASSUME Init
               PROVE  E!EffectInit
    OBVIOUS
  <1>1. \A g \in Goals, s \in Steps : PhaseOf(g, s) = "new"
    BY DEF Init, PhaseOf, InTool, At, NoEffect, IdleWorker
  <1>2. \A g \in Goals : goal[g].cursor = 0
    BY DEF Init, Inserted
  <1> QED
    BY <1>1, <1>2 DEF E!EffectInit, Init

(* README.md:5, executor.Run, Reconcile, ResolveReview: while no live worker  *)
(* loses its lease the executor implements EffectContract, through any        *)
(* crashes, errors, cancels and resolves: a result is recorded as the tool    *)
(* gave it, and only a step without effect, or one that an operator gave      *)
(* back, runs again.                                                          *)
THEOREM ContractWhileLeased == Spec /\ [][NoLeaseLoss]_vars => EffectsKept
  <1>1. EffectInvs /\ [Next]_vars => [E!EffectNext]_E!effectVars
    BY EffectRefined
  <1>2. Spec /\ [][NoLeaseLoss]_vars => []EffectInvs
    BY DoubtInvariant, HistoryInvariant, PTL DEF EffectInvs
  <1> QED
    BY <1>1, <1>2, EffectAtFirst, PTL DEF Spec, EffectsKept, E!EffectSpec
=============================================================================
