--------------------------- MODULE RuntimeProofs ---------------------------
(* Safety of Runtime for every set of goals, workers and calls and every      *)
(* bound: type correctness, leases and fencing.                               *)
EXTENDS Runtime, TLAPS

(* A worker has a goal exactly while it is not idle; past the first read of   *)
(* worker.step it has a step and a call; before phase (c) it has an outcome.  *)
WorkerOK(r) ==
    /\ r.pc = "idle" <=> r.goal = None
    /\ r.pc \in StepPcs \ {"step"} => r.step \in Steps /\ r.call \in Calls
    /\ r.pc \in {"result", "probed"} => r.out \in {"committed", "failed"}

LocalOK == \A w \in Workers : WorkerOK(wk[w])

(* A row of the effects table has a key. *)
KeysOK ==
    \A g \in Goals, s \in Steps :
        eff[g][s].status # "absent" => eff[g][s].key \in Calls

Typed == TypeOK /\ LocalOK /\ KeysOK

----------------------------------------------------------------------------
LEMMA InitTyped == Init => Typed
  BY ConstantsAssumption, SMTT(30)
  DEF Init, Typed, TypeOK, LocalOK, KeysOK, WorkerOK, Inserted, NoEffect, IdleWorker,
      GoalRow, EffectRow, WorkerState, EffectStates, Pcs, FencedMoves, StepPcs,
      FaultKinds, Steps

(* The row a legal transition writes is a row of the goals table. *)
LEMMA MovedType ==
    ASSUME NEW r \in GoalRow, NEW to, CanTransition(r.state, to)
    PROVE  Moved(r, to) \in GoalRow
  <1>1. to \in GoalStates
    BY DEF CanTransition, GoalStates
  <1>2. to = "paused" => r.state \in ActiveStates
    BY DEF CanTransition, ActiveStates
  <1> QED
    BY <1>1, <1>2 DEF GoalRow, Moved, DropsLease, Terminal

(* A worker's next state under Goto is well-formed. *)
LEMMA AtPcType ==
    ASSUME NEW r \in WorkerState, WorkerOK(r), r.pc # "idle",
           NEW p \in Pcs \ {"idle"},
           p \in StepPcs => r.pc \in StepPcs \ {"step"},
           p \in {"result", "probed"} => r.out \in {"committed", "failed"}
    PROVE  AtPc(r, p) \in WorkerState /\ WorkerOK(AtPc(r, p))
  <1>1. AtPc(r, p) \in WorkerState
    BY ConstantsAssumption DEF AtPc, Locals, WorkerState
  <1>2. WorkerOK(AtPc(r, p))
    BY ConstantsAssumption DEF AtPc, Locals, WorkerState, WorkerOK, StepPcs
  <1> QED
    BY <1>1, <1>2

LEMMA GotoType ==
    ASSUME wk \in [Workers -> WorkerState], LocalOK, NEW w \in Workers,
           wk[w].pc # "idle", NEW p \in Pcs \ {"idle"}, Goto(w, p),
           p \in StepPcs => wk[w].pc \in StepPcs \ {"step"},
           p \in {"result", "probed"} => wk[w].out \in {"committed", "failed"}
    PROVE  /\ wk' \in [Workers -> WorkerState]
           /\ LocalOK'
  <1>1. AtPc(wk[w], p) \in WorkerState /\ WorkerOK(AtPc(wk[w], p))
    BY AtPcType DEF LocalOK
  <1> QED
    BY <1>1 DEF Goto, LocalOK

(* So does replacing one row of the effects table. *)
LEMMA SetEffectType ==
    ASSUME eff \in [Goals -> [Steps -> EffectRow]], KeysOK,
           NEW g \in Goals, NEW s \in Steps, NEW row \in EffectRow,
           row.status # "absent" => row.key \in Calls, SetEffect(g, s, row)
    PROVE  /\ eff' \in [Goals -> [Steps -> EffectRow]]
           /\ KeysOK'
  BY DEF SetEffect, KeysOK

LEMMA SettledType ==
    ASSUME NEW row \in EffectRow, NEW to \in EffectStates
    PROVE  Settled(row, to) \in EffectRow /\ Attempted(row) \in EffectRow
  BY DEF Settled, Attempted, EffectRow, EffectStates

(* The goals table stays typed when a row is moved along a legal edge. *)
LEMMA MoveType ==
    ASSUME goal \in [Goals -> GoalRow], NEW g \in Goals, NEW to,
           CanTransition(goal[g].state, to),
           goal' = [goal EXCEPT ![g] = Moved(goal[g], to)]
    PROVE  goal' \in [Goals -> GoalRow]
  BY MovedType

LEMMA SpendType ==
    ASSUME used \in [FaultKinds -> Nat], NEW k \in FaultKinds, Spend(k)
    PROVE  used' \in [FaultKinds -> Nat]
  BY DEF Spend

LEMMA CountType ==
    ASSUME NEW f \in [Goals -> [Steps -> Nat]], NEW g \in Goals,
           NEW s \in Steps, NEW n \in Nat, NEW h,
           h = [f EXCEPT ![g][s] = n]
    PROVE  h \in [Goals -> [Steps -> Nat]]
  OBVIOUS

(* What an operator does keeps the types. *)
LEMMA TypedSignal ==
    ASSUME Typed, NEW g \in Goals, Signal(g)
    PROVE  Typed'
  <1> USE DEF Typed, TypeOK
  <1>1. CASE Create(g)
    <2>1. goal' \in [Goals -> GoalRow]
      BY <1>1, ConstantsAssumption DEF Create, Inserted, GoalRow, GoalStates
    <2> QED
      BY <1>1, <2>1 DEF Create, history, LocalOK, KeysOK
  <1>2. CASE Approve(g)
    <2>1. goal' \in [Goals -> GoalRow]
      BY <1>2, MoveType DEF Approve, Transition
    <2>2. used' \in [FaultKinds -> Nat]
      BY <1>2, SpendType DEF Approve, FaultKinds
    <2> QED
      BY <1>2, <2>1, <2>2 DEF Approve, Transition, LocalOK, KeysOK
  <1>3. CASE Pause(g)
    <2>1. goal' \in [Goals -> GoalRow]
      BY <1>3, MoveType DEF Pause, Transition
    <2>2. used' \in [FaultKinds -> Nat]
      BY <1>3, SpendType DEF Pause, FaultKinds
    <2> QED
      BY <1>3, <2>1, <2>2 DEF Pause, Transition, LocalOK, KeysOK
  <1>4. CASE Cancel(g)
    <2>1. goal' \in [Goals -> GoalRow]
      BY <1>4, MoveType DEF Cancel, Transition
    <2> QED
      BY <1>4, <2>1 DEF Cancel, Transition, LocalOK, KeysOK
  <1> QED
    BY <1>1, <1>2, <1>3, <1>4 DEF Signal

LEMMA TypedResume ==
    ASSUME Typed, NEW c \in Clients,
           (\E g \in Goals : ResumeRead(c, g)) \/ ResumeApply(c)
    PROVE  Typed'
  <1> USE DEF Typed, TypeOK
  <1>1. ASSUME NEW g \in Goals, ResumeRead(c, g)
        PROVE  Typed'
    <2>1. used' \in [FaultKinds -> Nat]
      BY <1>1, SpendType DEF ResumeRead, FaultKinds
    <2>2. goal[g].pausedFrom \in ActiveStates
      BY <1>1 DEF ResumeRead, GoalRow
    <2>3. pending' \in [Clients -> [goal: Goals, to: ActiveStates] \cup {None}]
      BY <1>1, <2>2 DEF ResumeRead, ResumeTarget
    <2> QED
      BY <1>1, <2>1, <2>3 DEF ResumeRead, history, LocalOK, KeysOK
  <1>2. CASE ResumeApply(c)
    <2>1. pending[c] \in [goal: Goals, to: ActiveStates]
      BY <1>2 DEF ResumeApply
    <2>2. pending' \in [Clients -> [goal: Goals, to: ActiveStates] \cup {None}]
      BY <1>2 DEF ResumeApply
    <2>3. goal' \in [Goals -> GoalRow]
      BY <1>2, <2>1, MoveType DEF ResumeApply, Transition
    <2> QED
      BY <1>2, <2>2, <2>3 DEF ResumeApply, Transition, LocalOK, KeysOK
  <1> QED
    BY <1>1, <1>2

LEMMA TypedResolve ==
    ASSUME Typed, NEW g \in Goals, NEW s \in Steps,
           NEW action \in {"retry", "committed", "failed"},
           ResolveReview(g, s, action)
    PROVE  Typed'
  <1> USE DEF Typed, TypeOK
  <1>1. used' \in [FaultKinds -> Nat]
    BY SpendType DEF ResolveReview, FaultKinds
  <1>2. eff[g][s].key \in Calls
    BY DEF ResolveReview, KeysOK
  <1>3. eff' \in [Goals -> [Steps -> EffectRow]] /\ KeysOK'
    <2>1. CASE action = "retry"
      <3> DEFINE row == [status |-> "intent", attempts |-> 0,
                         key |-> eff[g][s].key]
      <3>1. row \in EffectRow /\ row.key \in Calls
        BY <1>2 DEF EffectRow, EffectStates
      <3>2. SetEffect(g, s, row)
        BY <2>1 DEF ResolveReview
      <3> QED
        BY <3>1, <3>2, SetEffectType
    <2>2. CASE action # "retry"
      <3> DEFINE row == [status |-> action, attempts |-> eff[g][s].attempts,
                         key |-> eff[g][s].key]
      <3>1. row \in EffectRow /\ row.key \in Calls
        BY <1>2, <2>2 DEF EffectRow, EffectStates
      <3>2. SetEffect(g, s, row)
        BY <2>2 DEF ResolveReview
      <3> QED
        BY <3>1, <3>2, SetEffectType
    <2> QED
      BY <2>1, <2>2
  <1>4. retried' \in [Goals -> [Steps -> Nat]]
    <2>1. \/ retried' = [retried EXCEPT ![g][s] = retried[g][s] + 1]
          \/ retried' = retried
      BY DEF ResolveReview
    <2>2. retried[g][s] + 1 \in Nat
      OBVIOUS
    <2> QED
      BY <2>1, <2>2, CountType
  <1> QED
    BY <1>1, <1>3, <1>4 DEF ResolveReview, LocalOK

(* Installing a well-formed state for a worker keeps the workers typed. *)
LEMMA PutType ==
    ASSUME wk \in [Workers -> WorkerState], LocalOK, NEW w \in Workers,
           NEW r \in WorkerState, WorkerOK(r), wk' = [wk EXCEPT ![w] = r]
    PROVE  wk' \in [Workers -> WorkerState] /\ LocalOK'
  BY DEF LocalOK

LEMMA LocalsType ==
    ASSUME NEW r \in WorkerState, WorkerOK(r), r.pc # "idle",
           NEW p \in StepPcs \ {"step"}, NEW s \in Steps, NEW k \in Calls,
           NEW o \in {"committed", "failed", None},
           p \in {"result", "probed"} => o \in {"committed", "failed"}
    PROVE  Locals(r, p, s, k, o) \in WorkerState /\ WorkerOK(Locals(r, p, s, k, o))
  <1>1. s \in 0 .. NSteps /\ p \in Pcs /\ p # "idle"
    BY ConstantsAssumption DEF Steps, Pcs, StepPcs
  <1>2. Locals(r, p, s, k, o) \in WorkerState
    BY <1>1 DEF Locals, WorkerState
  <1>3. WorkerOK(Locals(r, p, s, k, o))
    BY <1>1 DEF Locals, WorkerOK, WorkerState
  <1> QED
    BY <1>2, <1>3

LEMMA IdleType == IdleWorker \in WorkerState /\ WorkerOK(IdleWorker)
  <1>1. IdleWorker \in WorkerState
    BY ConstantsAssumption DEF IdleWorker, WorkerState, Pcs
  <1>2. WorkerOK(IdleWorker)
    BY DEF IdleWorker, WorkerOK, StepPcs
  <1> QED
    BY <1>1, <1>2

LEMMA LeasedType ==
    ASSUME NEW r \in GoalRow, NEW o \in Ids \cup {None}, NEW e \in Nat,
           NEW x \in {"null", "future", "past"}
    PROVE  Leased(r, o, e, x) \in GoalRow
  BY DEF Leased, GoalRow

(* Leases and failures keep the types. *)
LEMMA TypedLease ==
    ASSUME Typed, NEW w \in Workers,
           \/ \E g \in Goals : Claim(w, g)
           \/ Release(w) \/ Heartbeat(w) \/ LeaseLost(w) \/ Error(w) \/ Crash(w)
    PROVE  Typed'
  <1> USE DEF Typed, TypeOK
  <1>1. ASSUME NEW g \in Goals, Claim(w, g)
        PROVE  Typed'
    <2> DEFINE e == goal[g].epoch + 1
    <2>1. e \in Nat /\ WorkerId[w] \in Ids
      BY ConstantsAssumption DEF GoalRow
    <2>2. Leased(goal[g], WorkerId[w], e, "future") \in GoalRow
      BY <2>1, LeasedType
    <2>3. goal' \in [Goals -> GoalRow]
      BY <1>1, <2>2 DEF Claim
    <2>4. Claimed(g, e) \in WorkerState /\ WorkerOK(Claimed(g, e))
      BY <2>1, ConstantsAssumption DEF Claimed, WorkerState, WorkerOK, Pcs, StepPcs
    <2>5. wk' \in [Workers -> WorkerState] /\ LocalOK'
      BY <1>1, <2>4, PutType DEF Claim
    <2> QED
      BY <1>1, <2>3, <2>5 DEF Claim, history, KeysOK
  <1>2. CASE Release(w)
    <2>1. wk' \in [Workers -> WorkerState] /\ LocalOK'
      BY <1>2, IdleType, PutType DEF Release
    <2>2. goal' \in [Goals -> GoalRow]
      <3>1. CASE Holds(w)
        <4>1. wk[w].goal \in Goals
          BY <3>1 DEF Holds
        <4>2. Leased(goal[wk[w].goal], None, goal[wk[w].goal].epoch, "null") \in GoalRow
          BY <4>1, LeasedType DEF GoalRow
        <4> QED
          BY <1>2, <3>1, <4>1, <4>2 DEF Release
      <3>2. CASE ~ Holds(w)
        BY <1>2, <3>2 DEF Release
      <3> QED
        BY <3>1, <3>2
    <2> QED
      BY <1>2, <2>1, <2>2 DEF Release, history, KeysOK
  <1>3. CASE Heartbeat(w)
    <2>1. wk[w].goal \in Goals
      BY <1>3 DEF Heartbeat, Holds
    <2>2. Leased(goal[wk[w].goal], goal[wk[w].goal].owner,
                 goal[wk[w].goal].epoch, "future") \in GoalRow
      BY <2>1, LeasedType DEF GoalRow
    <2>3. goal' \in [Goals -> GoalRow]
      BY <1>3, <2>1, <2>2 DEF Heartbeat
    <2> QED
      BY <1>3, <2>3 DEF Heartbeat, history, KeysOK, LocalOK
  <1>4. CASE LeaseLost(w)
    <2>1. wk' \in [Workers -> WorkerState] /\ LocalOK'
      BY <1>4, GotoType DEF LeaseLost, Pcs, StepPcs
    <2> QED
      BY <1>4, <2>1 DEF LeaseLost, history, KeysOK
  <1>5. CASE Error(w)
    <2>1. wk' \in [Workers -> WorkerState] /\ LocalOK'
      BY <1>5, GotoType DEF Error, Pcs, StepPcs
    <2>2. used' \in [FaultKinds -> Nat]
      BY <1>5, SpendType DEF Error, FaultKinds
    <2> QED
      BY <1>5, <2>1, <2>2 DEF Error, history, KeysOK
  <1>6. CASE Crash(w)
    <2>1. wk' \in [Workers -> WorkerState] /\ LocalOK'
      BY <1>6, IdleType, PutType DEF Crash
    <2>2. used' \in [FaultKinds -> Nat]
      BY <1>6, SpendType DEF Crash, FaultKinds
    <2> QED
      BY <1>6, <2>1, <2>2 DEF Crash, history, KeysOK
  <1> QED
    BY <1>1, <1>2, <1>3, <1>4, <1>5, <1>6

LEMMA TypedExpiry ==
    ASSUME Typed, NEW g \in Goals, LeaseExpires(g)
    PROVE  Typed'
  <1> USE DEF Typed, TypeOK
  <1>1. used' \in [FaultKinds -> Nat]
    BY SpendType DEF LeaseExpires, FaultKinds
  <1>2. Leased(goal[g], goal[g].owner, goal[g].epoch, "past") \in GoalRow
    BY LeasedType DEF GoalRow
  <1>3. goal' \in [Goals -> GoalRow]
    BY <1>2 DEF LeaseExpires
  <1> QED
    BY <1>1, <1>3 DEF LeaseExpires, history, KeysOK, LocalOK

(* A worker past the first read of worker.step names a row of the table. *)
LEMMA StepLocals ==
    ASSUME Typed, NEW w \in Workers, wk[w].pc \in StepPcs \ {"step"}
    PROVE  /\ wk[w].goal \in Goals
           /\ wk[w].step \in Steps
           /\ wk[w].call \in Calls
           /\ Row(w) \in EffectRow
           /\ Row(w).status # "absent" => Row(w).key \in Calls
  <1>1. wk[w] \in WorkerState /\ WorkerOK(wk[w])
    BY DEF Typed, TypeOK, LocalOK
  <1>2. wk[w].goal \in Goals /\ wk[w].step \in Steps /\ wk[w].call \in Calls
    BY <1>1 DEF WorkerState, WorkerOK, StepPcs
  <1> QED
    BY <1>2 DEF Typed, TypeOK, KeysOK, Row

(* Phases of drive that touch no effect. *)
LEMMA TypedDrive ==
    ASSUME Typed, NEW w \in Workers,
           Load(w) \/ MaxStepsExceeded(w) \/ Verify(w) \/ TransitionFenced(w)
    PROVE  Typed'
  <1> USE DEF Typed, TypeOK
  <1>1. CASE Load(w)
    <2> DEFINE g == wk[w].goal
               p == LoadPc(w, g)
               r == [pc |-> p, goal |-> g, epoch |-> wk[w].epoch,
                     step |-> IF p = "step" THEN goal[g].cursor ELSE 0,
                     call |-> None, out |-> None, iter |-> wk[w].iter + 1]
    <2>1. g \in Goals
      BY <1>1 DEF Load, Holds
    <2>2. p \in {"cancelGoal", "failGoal", "begin", "step", "verify", "release"}
      BY DEF LoadPc
    <2>3. wk[w].epoch \in Nat /\ wk[w].iter + 1 \in 0 .. MaxSteps
      BY <1>1, ConstantsAssumption DEF Load, WorkerState
    <2>4. goal[g].cursor \in 0 .. NSteps /\ 0 \in 0 .. NSteps
      BY <2>1, ConstantsAssumption DEF GoalRow
    <2>5. r \in WorkerState
      <3>1. p \in Pcs
        BY <2>2 DEF Pcs, FencedMoves, StepPcs
      <3> HIDE DEF p
      <3> QED
        BY <2>1, <2>3, <2>4, <3>1 DEF WorkerState
    <2>6. WorkerOK(r)
      <3> HIDE DEF p
      <3> QED
        BY <2>1, <2>2, ConstantsAssumption DEF WorkerOK, StepPcs
    <2>7. wk' = [wk EXCEPT ![w] = r]
      BY <1>1 DEF Load
    <2>8. wk' \in [Workers -> WorkerState] /\ LocalOK'
      BY <2>5, <2>6, <2>7, PutType
    <2> QED
      BY <1>1, <2>8 DEF Load, history, KeysOK
  <1>2. CASE MaxStepsExceeded(w)
    <2>1. wk' \in [Workers -> WorkerState] /\ LocalOK'
      BY <1>2, GotoType DEF MaxStepsExceeded, At, Pcs, StepPcs
    <2> QED
      BY <1>2, <2>1 DEF MaxStepsExceeded, history, KeysOK
  <1>3. CASE Verify(w)
    <2>1. wk' \in [Workers -> WorkerState] /\ LocalOK'
      BY <1>3, GotoType DEF Verify, VerifyPcs, At, Pcs, StepPcs, FencedMoves
    <2> QED
      BY <1>3, <2>1 DEF Verify, history, KeysOK
  <1>4. CASE TransitionFenced(w)
    <2>1. wk[w].goal \in Goals /\ wk[w].epoch \in Nat
      BY <1>4 DEF TransitionFenced, Holds, WorkerState
    <2>2. PICK p \in {"load", "release"} : Goto(w, p)
      BY <1>4 DEF TransitionFenced
    <2>3. wk' \in [Workers -> WorkerState] /\ LocalOK'
      BY <1>4, <2>2, GotoType DEF TransitionFenced, Pcs, StepPcs, FencedMoves
    <2>4. goal' \in [Goals -> GoalRow]
      BY <1>4, <2>1, MoveType DEF TransitionFenced
    <2>5. writer' \in [Goals -> Nat]
      BY <1>4, <2>1 DEF TransitionFenced, FencedWrite
    <2> QED
      BY <1>4, <2>3, <2>4, <2>5 DEF TransitionFenced, KeysOK
  <1> QED
    BY <1>1, <1>2, <1>3, <1>4

(* worker.step up to the executor. *)
LEMMA TypedPlan ==
    ASSUME Typed, NEW w \in Workers,
           ReuseEffect(w) \/ AskAgent(w) \/ UnknownTool(w) \/ Authorize(w)
    PROVE  Typed'
  <1> USE DEF Typed, TypeOK
  <1>1. wk[w] \in WorkerState /\ WorkerOK(wk[w])
    BY DEF LocalOK
  <1>2. CASE ReuseEffect(w)
    <2>1. wk[w].pc = "step" /\ wk[w].step \in Steps /\ Row(w).status # "absent"
      BY <1>2 DEF ReuseEffect, HasEffect, At
    <2>2. wk[w].goal \in Goals
      BY <1>1, <2>1 DEF WorkerState, WorkerOK
    <2>3. Jsonb[Row(w).key] \in Calls
      BY <2>1, <2>2, ConstantsAssumption DEF Row, KeysOK
    <2>4. wk' \in [Workers -> WorkerState] /\ LocalOK'
      BY <1>1, <1>2, <2>1, <2>3, LocalsType, PutType DEF ReuseEffect, StepPcs
    <2> QED
      BY <1>2, <2>4 DEF ReuseEffect, history, KeysOK
  <1>3. CASE AskAgent(w)
    <2>1. wk[w].pc = "step"
      BY <1>3 DEF AskAgent, At
    <2>2. wk' \in [Workers -> WorkerState] /\ LocalOK'
      <3>1. ASSUME NEW p \in {"failGoal", "finish"}, Goto(w, p)
            PROVE  wk' \in [Workers -> WorkerState] /\ LocalOK'
        BY <2>1, <3>1, GotoType DEF Pcs, FencedMoves, StepPcs
      <3>2. ASSUME wk[w].step \in Steps, NEW p \in {"intent", "approvalIntent"},
                   NEW k \in Calls,
                   wk' = [wk EXCEPT ![w] = Locals(wk[w], p, wk[w].step, k, None)]
            PROVE  wk' \in [Workers -> WorkerState] /\ LocalOK'
        BY <1>1, <2>1, <3>2, LocalsType, PutType DEF StepPcs
      <3> QED
        BY <1>3, <3>1, <3>2 DEF AskAgent
    <2> QED
      BY <1>3, <2>2 DEF AskAgent, history, KeysOK
  <1>4. CASE UnknownTool(w)
    <2>1. wk' \in [Workers -> WorkerState] /\ LocalOK'
      BY <1>4, GotoType DEF UnknownTool, At, Pcs, StepPcs
    <2> QED
      BY <1>4, <2>1 DEF UnknownTool, history, KeysOK
  <1>5. CASE Authorize(w)
    <2>1. wk' \in [Workers -> WorkerState] /\ LocalOK'
      BY <1>5, GotoType DEF Authorize, At, Pcs, StepPcs, FencedMoves
    <2> QED
      BY <1>5, <2>1 DEF Authorize, history, KeysOK
  <1> QED
    BY <1>2, <1>3, <1>4, <1>5

(* Where settle and settleFinal send a worker. *)
LEMMA SettlePcType ==
    ASSUME NEW row
    PROVE  SettlePc(row) \in {"commitStep", "failGoal", "pauseGoal", "authorize",
                              "probe", "markReview"}
  BY DEF SettlePc

LEMMA FinalPcType ==
    ASSUME NEW status
    PROVE  FinalPc(status) \in {"commitStep", "failGoal", "pauseGoal"}
  BY DEF FinalPc

(* The two transactions that create an effect row. *)
LEMMA TypedIntent ==
    ASSUME Typed, NEW w \in Workers, CommitIntent(w) \/ RequestApproval(w)
    PROVE  Typed'
  <1> USE DEF Typed, TypeOK
  <1>1. wk[w].pc \in {"intent", "approvalIntent"} /\ Holds(w)
    BY DEF CommitIntent, RequestApproval, At
  <1>2. /\ wk[w].goal \in Goals /\ wk[w].step \in Steps /\ wk[w].call \in Calls
        /\ wk[w].epoch \in Nat
    BY <1>1, StepLocals DEF StepPcs, WorkerState
  <1> DEFINE row == [status |-> "intent", attempts |-> 0, key |-> wk[w].call]
  <1>3. row \in EffectRow /\ row.key \in Calls
    BY <1>2 DEF EffectRow, EffectStates
  <1>4. eff' \in [Goals -> [Steps -> EffectRow]] /\ KeysOK'
    <2>1. CASE eff' = eff
      BY <2>1 DEF KeysOK
    <2>2. CASE SetEffect(wk[w].goal, wk[w].step, row)
      BY <1>2, <1>3, <2>2, SetEffectType
    <2> QED
      BY <2>1, <2>2 DEF CommitIntent, RequestApproval, SetRow
  <1>5. writer' \in [Goals -> Nat]
    BY <1>2 DEF CommitIntent, RequestApproval, FencedWrite
  <1>6. flagged' \subseteq Goals \X Steps
    BY <1>2 DEF CommitIntent, RequestApproval
  <1>7. wk' \in [Workers -> WorkerState] /\ LocalOK'
    <2>1. PICK p \in {"authorize", "release", "commitStep", "failGoal",
                      "pauseGoal", "probe", "markReview", "flagReview"} : Goto(w, p)
      BY SettlePcType DEF CommitIntent, RequestApproval
    <2> QED
      BY <1>1, <2>1, GotoType DEF Pcs, StepPcs, FencedMoves
  <1> QED
    BY <1>4, <1>5, <1>6, <1>7 DEF CommitIntent, RequestApproval

(* The writes to an existing row that no lease fences. *)
LEMMA TypedUnfenced ==
    ASSUME Typed, NEW w \in Workers,
           MarkNeedsReview(w) \/ MarkAttempt(w) \/ CommitResult(w)
    PROVE  Typed'
  <1> USE DEF Typed, TypeOK
  <1>1. wk[w].pc \in {"flagReview", "markReview", "attempt", "result", "probed"}
    BY DEF MarkNeedsReview, MarkAttempt, CommitResult, At
  <1>2. /\ wk[w].goal \in Goals /\ wk[w].step \in Steps
        /\ Row(w) \in EffectRow
        /\ Row(w).status # "absent" => Row(w).key \in Calls
    BY <1>1, StepLocals DEF StepPcs
  <1>3. CASE MarkNeedsReview(w)
    <2>1. Settled(Row(w), "needs_review") \in EffectRow
      BY <1>2, SettledType DEF EffectStates
    <2>2. eff' \in [Goals -> [Steps -> EffectRow]] /\ KeysOK'
      BY <1>2, <1>3, <2>1, SetEffectType DEF MarkNeedsReview, SetRow, Settled
    <2>3. wk' \in [Workers -> WorkerState] /\ LocalOK'
      BY <1>3, GotoType DEF MarkNeedsReview, Pcs, StepPcs, FencedMoves
    <2> QED
      BY <1>3, <2>2, <2>3 DEF MarkNeedsReview, history
  <1>4. CASE MarkAttempt(w)
    <2>1. Attempted(Row(w)) \in EffectRow
      BY <1>2, SettledType DEF EffectStates
    <2>2. eff' \in [Goals -> [Steps -> EffectRow]] /\ KeysOK'
      BY <1>2, <1>4, <2>1, SetEffectType DEF MarkAttempt, SetRow, Attempted
    <2>3. wk' \in [Workers -> WorkerState] /\ LocalOK'
      BY <1>4, GotoType DEF MarkAttempt, At, Pcs, StepPcs
    <2> QED
      BY <1>4, <2>2, <2>3 DEF MarkAttempt, history
  <1>5. CASE CommitResult(w)
    <2>1. wk[w].out \in {"committed", "failed"}
      BY <1>5 DEF CommitResult, LocalOK, WorkerOK
    <2>2. Settled(Row(w), wk[w].out) \in EffectRow
      BY <1>2, <2>1, SettledType DEF EffectStates
    <2>3. eff' \in [Goals -> [Steps -> EffectRow]] /\ KeysOK'
      BY <1>2, <1>5, <2>1, <2>2, SetEffectType DEF CommitResult, SetRow, Settled
    <2>4. PICK p \in {"commitStep", "failGoal", "pauseGoal"} : Goto(w, p)
      BY <1>5, FinalPcType DEF CommitResult
    <2>5. wk' \in [Workers -> WorkerState] /\ LocalOK'
      BY <1>5, <2>4, GotoType DEF CommitResult, Pcs, StepPcs, FencedMoves
    <2> QED
      BY <1>5, <2>3, <2>5 DEF CommitResult, history
  <1> QED
    BY <1>3, <1>4, <1>5

(* The tool, its probe, and the step's record. *)
LEMMA TypedTool ==
    ASSUME Typed, NEW w \in Workers, Probe(w) \/ ToolExecute(w) \/ CommitStep(w)
    PROVE  Typed'
  <1> USE DEF Typed, TypeOK
  <1>1. wk[w].pc \in {"probe", "tool", "commitStep"}
    BY DEF Probe, ToolExecute, CommitStep, At
  <1>2. wk[w].goal \in Goals /\ wk[w].step \in Steps /\ wk[w].call \in Calls
    BY <1>1, StepLocals DEF StepPcs
  <1>3. wk[w] \in WorkerState /\ WorkerOK(wk[w])
    BY DEF LocalOK
  <1>4. CASE Probe(w)
    <2>1. wk' \in [Workers -> WorkerState] /\ LocalOK'
      <3>1. ASSUME NEW p \in {"markReview", "authorize"}, Goto(w, p)
            PROVE  wk' \in [Workers -> WorkerState] /\ LocalOK'
        BY <1>1, <3>1, GotoType DEF Pcs, StepPcs
      <3>2. ASSUME wk' = [wk EXCEPT ![w] = Locals(wk[w], "probed", wk[w].step,
                                                  wk[w].call, "committed")]
            PROVE  wk' \in [Workers -> WorkerState] /\ LocalOK'
        BY <1>1, <1>2, <1>3, <3>2, LocalsType, PutType DEF StepPcs
      <3> QED
        BY <1>4, <3>1, <3>2 DEF Probe
    <2> QED
      BY <1>4, <2>1 DEF Probe, history, KeysOK
  <1>5. CASE ToolExecute(w)
    <2>1. PICK out \in {"committed", "failed"}, acted \in {0, 1} :
             /\ runs' = [runs EXCEPT ![wk[w].goal][wk[w].step] =
                            runs[wk[w].goal][wk[w].step] + acted]
             /\ wk' = [wk EXCEPT ![w] = Locals(wk[w], "result", wk[w].step,
                                               wk[w].call, out)]
      BY <1>5 DEF ToolExecute
    <2>2. wk' \in [Workers -> WorkerState] /\ LocalOK'
      BY <1>1, <1>2, <1>3, <2>1, LocalsType, PutType DEF StepPcs
    <2>3. runs[wk[w].goal][wk[w].step] + acted \in Nat
      BY <1>2
    <2>4. runs' \in [Goals -> [Steps -> Nat]]
      BY <1>2, <2>1, <2>3, CountType
    <2> QED
      BY <1>5, <2>2, <2>4 DEF ToolExecute, history, KeysOK
  <1>6. CASE CommitStep(w)
    <2>1. wk[w].epoch \in Nat
      BY <1>3 DEF WorkerState
    <2>2. PICK p \in {"load", "release"} : Goto(w, p)
      BY <1>6 DEF CommitStep
    <2>3. wk' \in [Workers -> WorkerState] /\ LocalOK'
      BY <1>1, <2>2, GotoType DEF Pcs, StepPcs
    <2>4. CASE UNCHANGED <<goal, recorded, writer>>
      BY <1>6, <2>3, <2>4 DEF CommitStep, KeysOK
    <2>5. CASE /\ goal[wk[w].goal].cursor = wk[w].step
               /\ recorded' = [recorded EXCEPT ![wk[w].goal] = @ \cup {wk[w].step}]
               /\ goal' = [goal EXCEPT ![wk[w].goal] = Advanced(goal[wk[w].goal])]
               /\ writer' = [writer EXCEPT ![wk[w].goal] = wk[w].epoch]
      <3>1. goal[wk[w].goal].cursor + 1 \in 0 .. NSteps
        BY <1>2, <2>5, ConstantsAssumption DEF Steps
      <3>2. Advanced(goal[wk[w].goal]) \in GoalRow
        BY <1>2, <3>1 DEF Advanced, GoalRow
      <3>3. goal' \in [Goals -> GoalRow]
        BY <1>2, <2>5, <3>2
      <3>4. recorded' \in [Goals -> SUBSET Steps] /\ writer' \in [Goals -> Nat]
        BY <1>2, <2>1, <2>5
      <3> QED
        BY <1>6, <2>3, <3>3, <3>4 DEF CommitStep, KeysOK
    <2> QED
      BY <1>6, <2>4, <2>5 DEF CommitStep, FencedWrite
  <1> QED
    BY <1>4, <1>5, <1>6

(* Every step keeps the types. *)
LEMMA TypedStep == Typed /\ [Next]_vars => Typed'
  <1> SUFFICES ASSUME Typed, [Next]_vars
               PROVE  Typed'
    OBVIOUS
  <1>1. ASSUME NEW g \in Goals, Signal(g) \/ LeaseExpires(g)
        PROVE  Typed'
    BY <1>1, TypedSignal, TypedExpiry
  <1>2. ASSUME NEW c \in Clients,
               (\E g \in Goals : ResumeRead(c, g)) \/ ResumeApply(c)
        PROVE  Typed'
    BY <1>2, TypedResume
  <1>3. ASSUME NEW g \in Goals, NEW s \in Steps,
               NEW action \in {"retry", "committed", "failed"},
               ResolveReview(g, s, action)
        PROVE  Typed'
    BY <1>3, TypedResolve
  <1>4. ASSUME NEW w \in Workers, Work(w)
        PROVE  Typed'
    BY <1>4, TypedDrive, TypedPlan, TypedIntent, TypedUnfenced, TypedTool,
       TypedLease DEF Work
  <1>5. ASSUME NEW w \in Workers,
               \/ \E g \in Goals : Claim(w, g)
               \/ Heartbeat(w) \/ Error(w) \/ Crash(w)
        PROVE  Typed'
    BY <1>5, TypedLease
  <1>6. CASE UNCHANGED vars
    BY <1>6 DEF vars, Typed, TypeOK, LocalOK, KeysOK
  <1> QED
    BY <1>1, <1>2, <1>3, <1>4, <1>5, <1>6 DEF Next

(* Every variable keeps its type, for every value of the constants; with it,  *)
(* a worker inside worker.step always names an existing goal, step and call.  *)
THEOREM TypeCorrect == Spec => []TypeOK
  <1>1. Spec => []Typed
    BY InitTyped, TypedStep, PTL DEF Spec
  <1>2. Typed => TypeOK
    BY DEF Typed
  <1> QED
    BY <1>1, <1>2, PTL

----------------------------------------------------------------------------
(* Leases and fencing.  Each lemma <X>Change says in how many ways a step     *)
(* can change one table; the invariants are then proved over these few ways   *)
(* instead of over every action.                                              *)

(* A leased row is runnable, an unleased one has no expiry, and a goal that   *)
(* was never submitted has nothing.                                           *)
LeaseInv ==
    /\ LeaseOnlyRunnable
    /\ \A g \in Goals :
          /\ goal[g].owner = None => goal[g].expires = "null"
          /\ goal[g].state = "absent" => goal[g] = Inserted("absent")

(* No worker is ahead of the goal's epoch, no two share one, and neither is   *)
(* the last fenced write.                                                     *)
EpochInv ==
    /\ \A w \in Workers :
          wk[w].goal \in Goals => wk[w].epoch <= goal[wk[w].goal].epoch
    /\ \A v, w \in Workers :
          wk[v].goal \in Goals /\ wk[v].goal = wk[w].goal
              /\ wk[v].epoch = wk[w].epoch => v = w
    /\ \A g \in Goals : writer[g] <= goal[g].epoch

----------------------------------------------------------------------------
(* The ways a step changes the goals table. *)
Inserts(g) == /\ goal[g].state = "absent"
              /\ goal' = [goal EXCEPT ![g] = Inserted("proposed")]
Moves(g, to) == /\ CanTransition(goal[g].state, to)
                /\ goal' = [goal EXCEPT ![g] = Moved(goal[g], to)]
Releases(g) == /\ goal[g].owner # None
               /\ goal' = [goal EXCEPT ![g] = Leased(goal[g], None,
                                                     goal[g].epoch, "null")]
Retimes(g, x) == /\ goal[g].expires # "null"
                 /\ goal' = [goal EXCEPT ![g] = Leased(goal[g], goal[g].owner,
                                                       goal[g].epoch, x)]
Advances(w) == /\ CommitStep(w)
               /\ Holds(w)
               /\ goal' = [goal EXCEPT ![wk[w].goal] = Advanced(goal[wk[w].goal])]

GoalStep ==
    \/ goal' = goal
    \/ \E g \in Goals : Inserts(g)
    \/ \E g \in Goals : \E to \in GoalStates : Moves(g, to)
    \/ \E w \in Workers, g \in Goals : Claim(w, g)
    \/ \E g \in Goals : Releases(g)
    \/ \E g \in Goals : \E x \in {"future", "past"} : Retimes(g, x)
    \/ \E w \in Workers : Advances(w)

LEMMA MoveState ==
    ASSUME NEW from, NEW to, CanTransition(from, to)
    PROVE  to \in GoalStates
  BY DEF CanTransition, GoalStates

LEMMA GoalChange == Typed /\ [Next]_vars => GoalStep
  <1> SUFFICES ASSUME Typed, [Next]_vars
               PROVE  GoalStep
    OBVIOUS
  <1> USE DEF GoalStep
  <1>1. ASSUME NEW g \in Goals, Signal(g)
        PROVE  GoalStep
    BY <1>1, MoveState DEF Signal, Create, Approve, Pause, Cancel, Transition,
       Inserts, Moves
  <1>2. ASSUME NEW g \in Goals, LeaseExpires(g)
        PROVE  GoalStep
    BY <1>2 DEF LeaseExpires, Retimes
  <1>3. ASSUME NEW c \in Clients, NEW g \in Goals, ResumeRead(c, g)
        PROVE  GoalStep
    BY <1>3 DEF ResumeRead
  <1>4. ASSUME NEW c \in Clients, ResumeApply(c)
        PROVE  GoalStep
    <2>1. pending[c].goal \in Goals
      BY <1>4 DEF ResumeApply, Typed, TypeOK
    <2> QED
      BY <1>4, <2>1, MoveState DEF ResumeApply, Transition, Moves
  <1>5. ASSUME NEW g \in Goals, NEW s \in Steps,
               NEW action \in {"retry", "committed", "failed"},
               ResolveReview(g, s, action)
        PROVE  GoalStep
    BY <1>5 DEF ResolveReview
  <1>6. ASSUME NEW w \in Workers, TransitionFenced(w)
        PROVE  GoalStep
    BY <1>6, MoveState DEF TransitionFenced, Holds, Moves
  <1>7. ASSUME NEW w \in Workers, Release(w)
        PROVE  GoalStep
    <2>1. CASE Holds(w)
      <3>1. wk[w].goal \in Goals /\ goal[wk[w].goal].owner # None
        BY <2>1, ConstantsAssumption DEF Holds
      <3> QED
        BY <1>7, <2>1, <3>1 DEF Release, Releases
    <2>2. CASE ~ Holds(w)
      BY <1>7, <2>2 DEF Release
    <2> QED
      BY <2>1, <2>2
  <1>8. ASSUME NEW w \in Workers, Heartbeat(w)
        PROVE  GoalStep
    BY <1>8 DEF Heartbeat, Holds, Retimes
  <1>9. ASSUME NEW w \in Workers, CommitStep(w)
        PROVE  GoalStep
    BY <1>9 DEF CommitStep, Advances
  <1>10. ASSUME NEW w \in Workers, Work(w)
         PROVE  GoalStep
    BY <1>6, <1>7, <1>9, <1>10
    DEF Work, Load, MaxStepsExceeded, Verify, ReuseEffect, AskAgent, UnknownTool,
        CommitIntent, RequestApproval, MarkNeedsReview, Probe, Authorize,
        MarkAttempt, ToolExecute, CommitResult, LeaseLost
  <1>11. ASSUME NEW w \in Workers, Error(w) \/ Crash(w)
         PROVE  GoalStep
    BY <1>11 DEF Error, Crash
  <1>12. CASE UNCHANGED vars
    BY <1>12 DEF vars
  <1> QED
    BY <1>1, <1>2, <1>3, <1>4, <1>5, <1>8, <1>10, <1>11, <1>12 DEF Next

(* What a step does to any one row. *)
LEMMA RowChange ==
    ASSUME Typed, GoalStep, NEW g \in Goals
    PROVE  \/ goal'[g] = goal[g]
           \/ goal[g].state = "absent" /\ goal'[g] = Inserted("proposed")
           \/ \E to \in GoalStates : /\ CanTransition(goal[g].state, to)
                                     /\ goal'[g] = Moved(goal[g], to)
           \/ \E w \in Workers : Claim(w, g)
           \/ /\ goal[g].owner # None
              /\ goal'[g] = Leased(goal[g], None, goal[g].epoch, "null")
           \/ \E x \in {"future", "past"} :
                 /\ goal[g].expires # "null"
                 /\ goal'[g] = Leased(goal[g], goal[g].owner, goal[g].epoch, x)
           \/ \E w \in Workers : /\ wk[w].goal = g /\ CommitStep(w) /\ Holds(w)
                                 /\ goal'[g] = Advanced(goal[g])
  BY DEF GoalStep, Inserts, Moves, Releases, Retimes, Advances, Claim, Holds,
         Typed, TypeOK

----------------------------------------------------------------------------
LeaseRow(r) ==
    /\ r.owner # None => r.state \in RunnableStates
    /\ r.owner = None => r.expires = "null"
    /\ r.state = "absent" => r = Inserted("absent")

LEMMA InitLease == Init => LeaseInv
  BY DEF Init, LeaseInv, LeaseOnlyRunnable, Inserted

LEMMA LeaseStep == Typed /\ LeaseInv /\ [Next]_vars => LeaseInv'
  <1> SUFFICES ASSUME Typed, LeaseInv, [Next]_vars, NEW g \in Goals
               PROVE  LeaseRow(goal'[g])
    BY DEF LeaseInv, LeaseOnlyRunnable, LeaseRow
  <1>1. LeaseRow(goal[g]) /\ goal[g] \in GoalRow
    BY DEF LeaseInv, LeaseOnlyRunnable, LeaseRow, Typed, TypeOK
  <1>2. ASSUME NEW to \in GoalStates, CanTransition(goal[g].state, to),
               goal'[g] = Moved(goal[g], to)
        PROVE  LeaseRow(goal'[g])
    BY <1>1, <1>2 DEF LeaseRow, Moved, CanTransition, DropsLease, Terminal,
       TerminalStates, RunnableStates
  <1>3. ASSUME NEW w \in Workers, Claim(w, g)
        PROVE  LeaseRow(goal'[g])
    <2>1. goal'[g] = Leased(goal[g], WorkerId[w], goal[g].epoch + 1, "future")
      BY <1>3 DEF Claim, Typed, TypeOK
    <2>2. goal[g].state \in RunnableStates /\ WorkerId[w] # None
      BY <1>3, ConstantsAssumption DEF Claim, Claimable
    <2> QED
      BY <2>1, <2>2 DEF LeaseRow, Leased, RunnableStates
  <1>4. CASE goal'[g] = goal[g] \/ goal'[g] = Inserted("proposed")
    BY <1>1, <1>4 DEF LeaseRow, Inserted
  <1>5. CASE /\ goal[g].owner # None
             /\ goal'[g] = Leased(goal[g], None, goal[g].epoch, "null")
    BY <1>1, <1>5 DEF LeaseRow, Leased, RunnableStates
  <1>6. ASSUME NEW x, goal[g].expires # "null",
               goal'[g] = Leased(goal[g], goal[g].owner, goal[g].epoch, x)
        PROVE  LeaseRow(goal'[g])
    BY <1>1, <1>6 DEF LeaseRow, Leased, RunnableStates
  <1>7. ASSUME NEW w \in Workers, wk[w].goal = g, Holds(w),
               goal'[g] = Advanced(goal[g])
        PROVE  LeaseRow(goal'[g])
    BY <1>1, <1>7, ConstantsAssumption DEF LeaseRow, Advanced, Holds, RunnableStates
  <1>8. GoalStep
    BY GoalChange
  <1> QED
    BY <1>2, <1>3, <1>4, <1>5, <1>6, <1>7, <1>8, RowChange

(* store.Claim, Release, Transition: only a runnable goal is ever leased. *)
THEOREM LeaseSafety == Spec => []LeaseOnlyRunnable
  <1>1. Spec => [](Typed /\ LeaseInv)
    BY InitTyped, TypedStep, InitLease, LeaseStep, PTL DEF Spec
  <1>2. LeaseInv => LeaseOnlyRunnable
    BY DEF LeaseInv
  <1> QED
    BY <1>1, <1>2, PTL

----------------------------------------------------------------------------
(* What a step does to the epoch of any one row. *)
LEMMA EpochChange ==
    ASSUME Typed, LeaseInv, GoalStep, NEW g \in Goals
    PROVE  \/ goal'[g].epoch = goal[g].epoch
           \/ \E w \in Workers : /\ Claim(w, g)
                                 /\ goal'[g].epoch = goal[g].epoch + 1
  <1>1. goal[g].state = "absent" => goal[g].epoch = 0
    BY DEF LeaseInv, Inserted
  <1>2. ASSUME NEW w \in Workers, Claim(w, g)
        PROVE  goal'[g].epoch = goal[g].epoch + 1
    BY <1>2 DEF Claim, Leased, Typed, TypeOK
  <1>3. ASSUME NEW to, goal'[g] = Moved(goal[g], to)
        PROVE  goal'[g].epoch = goal[g].epoch
    BY <1>3 DEF Moved
  <1>4. ASSUME NEW o, NEW x, goal'[g] = Leased(goal[g], o, goal[g].epoch, x)
        PROVE  goal'[g].epoch = goal[g].epoch
    BY <1>4 DEF Leased
  <1>5. CASE goal[g].state = "absent" /\ goal'[g] = Inserted("proposed")
    BY <1>1, <1>5 DEF Inserted
  <1>6. CASE goal'[g] = Advanced(goal[g])
    BY <1>6 DEF Advanced
  <1>7. CASE goal'[g] = goal[g]
    BY <1>7
  <1> QED
    BY <1>2, <1>3, <1>4, <1>5, <1>6, <1>7, RowChange

(* The ways a step changes the lease a worker believes it has. *)
LeaseKept(w) == wk'[w].goal = wk[w].goal /\ wk'[w].epoch = wk[w].epoch

LEMMA GotoKeeps ==
    ASSUME Typed, NEW v \in Workers, NEW p, Goto(v, p), NEW w \in Workers
    PROVE  LeaseKept(w)
  BY DEF Goto, AtPc, Locals, LeaseKept, Typed, TypeOK

LEMMA LocalsKeeps ==
    ASSUME Typed, NEW v \in Workers, NEW p, NEW s, NEW k, NEW o,
           wk' = [wk EXCEPT ![v] = Locals(wk[v], p, s, k, o)], NEW w \in Workers
    PROVE  LeaseKept(w)
  BY DEF Locals, LeaseKept, Typed, TypeOK

LEMMA WorkerChange ==
    ASSUME Typed, [Next]_vars, NEW w \in Workers
    PROVE  LeaseKept(w) \/ wk'[w].goal = None \/ \E g \in Goals : Claim(w, g)
  <1>1. ASSUME NEW g \in Goals, Signal(g) \/ LeaseExpires(g)
        PROVE  LeaseKept(w)
    BY <1>1 DEF Signal, Create, Approve, Pause, Cancel, Transition, LeaseExpires,
       LeaseKept
  <1>2. ASSUME NEW c \in Clients, (\E g \in Goals : ResumeRead(c, g)) \/ ResumeApply(c)
        PROVE  LeaseKept(w)
    BY <1>2 DEF ResumeRead, ResumeApply, Transition, LeaseKept
  <1>3. ASSUME NEW g \in Goals, NEW s \in Steps,
               NEW action \in {"retry", "committed", "failed"},
               ResolveReview(g, s, action)
        PROVE  LeaseKept(w)
    BY <1>3 DEF ResolveReview, LeaseKept
  <1>4. ASSUME NEW v \in Workers,
               MaxStepsExceeded(v) \/ Verify(v) \/ TransitionFenced(v)
               \/ UnknownTool(v) \/ CommitIntent(v) \/ RequestApproval(v)
               \/ MarkNeedsReview(v) \/ Authorize(v) \/ MarkAttempt(v)
               \/ CommitResult(v) \/ CommitStep(v) \/ LeaseLost(v) \/ Error(v)
        PROVE  LeaseKept(w)
    BY <1>4, GotoKeeps DEF MaxStepsExceeded, Verify, TransitionFenced, UnknownTool,
       CommitIntent, RequestApproval, MarkNeedsReview, Authorize, MarkAttempt,
       CommitResult, CommitStep, LeaseLost, Error
  <1>5. ASSUME NEW v \in Workers,
               ReuseEffect(v) \/ AskAgent(v) \/ Probe(v) \/ ToolExecute(v)
        PROVE  LeaseKept(w)
    <2>1. \/ \E p \in Pcs : Goto(v, p)
          \/ \E p \in Pcs, k \in Calls, o \in {"committed", "failed", None} :
                wk' = [wk EXCEPT ![v] = Locals(wk[v], p, wk[v].step, k, o)]
      <3>1. CASE ReuseEffect(v)
        <4>1. Jsonb[Row(v).key] \in Calls
          <5>1. wk[v].goal \in Goals /\ wk[v].step \in Steps
            BY <3>1 DEF ReuseEffect, HasEffect, At, Typed, TypeOK, LocalOK,
               WorkerOK, WorkerState
          <5> QED
            BY <3>1, <5>1, ConstantsAssumption
            DEF ReuseEffect, HasEffect, Row, Typed, KeysOK
        <4> QED
          BY <3>1, <4>1 DEF ReuseEffect, Pcs, StepPcs
      <3>2. CASE AskAgent(v)
        BY <3>2 DEF AskAgent, Pcs, StepPcs, FencedMoves
      <3>3. CASE Probe(v)
        <4>1. wk[v].call \in Calls
          BY <3>3, StepLocals DEF Probe, At, StepPcs
        <4> QED
          BY <3>3, <4>1 DEF Probe, Pcs, StepPcs
      <3>4. CASE ToolExecute(v)
        <4>1. wk[v].call \in Calls
          BY <3>4, StepLocals DEF ToolExecute, At, StepPcs
        <4> QED
          BY <3>4, <4>1 DEF ToolExecute, Pcs, StepPcs
      <3> QED
        BY <1>5, <3>1, <3>2, <3>3, <3>4
    <2> QED
      BY <2>1, GotoKeeps, LocalsKeeps
  <1>6. ASSUME NEW v \in Workers, Load(v)
        PROVE  LeaseKept(w)
    BY <1>6 DEF Load, LeaseKept, Typed, TypeOK
  <1>7. ASSUME NEW v \in Workers, Release(v) \/ Crash(v)
        PROVE  LeaseKept(w) \/ wk'[w].goal = None
    BY <1>7 DEF Release, Crash, IdleWorker, LeaseKept, Typed, TypeOK
  <1>8. ASSUME NEW v \in Workers, NEW g \in Goals, Claim(v, g)
        PROVE  LeaseKept(w) \/ Claim(w, g)
    BY <1>8 DEF Claim, LeaseKept, Typed, TypeOK
  <1>9. ASSUME NEW v \in Workers, Heartbeat(v)
        PROVE  LeaseKept(w)
    BY <1>9 DEF Heartbeat, LeaseKept
  <1>10. CASE UNCHANGED vars
    BY <1>10 DEF vars, LeaseKept
  <1> QED
    BY <1>1, <1>2, <1>3, <1>4, <1>5, <1>6, <1>7, <1>8, <1>9, <1>10 DEF Next, Work

(* A step leaves `writer` alone or is a fenced write by the lease's holder. *)
LEMMA WriterChange ==
    ASSUME Typed, [Next]_vars
    PROVE  \/ writer' = writer
           \/ \E w \in Workers :
                 /\ Holds(w)
                 /\ writer' = [writer EXCEPT ![wk[w].goal] = wk[w].epoch]
  <1>1. ASSUME NEW g \in Goals, Signal(g) \/ LeaseExpires(g)
        PROVE  writer' = writer
    BY <1>1 DEF Signal, Create, Approve, Pause, Cancel, Transition, LeaseExpires,
       history
  <1>2. ASSUME NEW c \in Clients, (\E g \in Goals : ResumeRead(c, g)) \/ ResumeApply(c)
        PROVE  writer' = writer
    BY <1>2 DEF ResumeRead, ResumeApply, Transition, history
  <1>3. ASSUME NEW g \in Goals, NEW s \in Steps,
               NEW action \in {"retry", "committed", "failed"},
               ResolveReview(g, s, action)
        PROVE  writer' = writer
    BY <1>3 DEF ResolveReview
  <1>4. ASSUME NEW w \in Workers,
               \/ \E g \in Goals : Claim(w, g)
               \/ Heartbeat(w) \/ Error(w) \/ Crash(w) \/ Load(w)
               \/ MaxStepsExceeded(w) \/ Verify(w) \/ ReuseEffect(w) \/ AskAgent(w)
               \/ UnknownTool(w) \/ MarkNeedsReview(w) \/ Probe(w) \/ Authorize(w)
               \/ MarkAttempt(w) \/ ToolExecute(w) \/ CommitResult(w) \/ Release(w)
               \/ LeaseLost(w)
        PROVE  writer' = writer
    BY <1>4 DEF Claim, Heartbeat, Error, Crash, Load, MaxStepsExceeded, Verify,
       ReuseEffect, AskAgent, UnknownTool, MarkNeedsReview, Probe, Authorize,
       MarkAttempt, ToolExecute, CommitResult, Release, LeaseLost, history
  <1>5. ASSUME NEW w \in Workers,
               TransitionFenced(w) \/ CommitIntent(w) \/ RequestApproval(w)
               \/ CommitStep(w)
        PROVE  \/ writer' = writer
               \/ /\ Holds(w)
                  /\ writer' = [writer EXCEPT ![wk[w].goal] = wk[w].epoch]
    BY <1>5 DEF TransitionFenced, CommitIntent, RequestApproval, CommitStep,
       FencedWrite
  <1>6. CASE UNCHANGED vars
    BY <1>6 DEF vars
  <1> QED
    BY <1>1, <1>2, <1>3, <1>4, <1>5, <1>6 DEF Next, Work

LEMMA InitEpoch == Init => EpochInv
  BY ConstantsAssumption DEF Init, EpochInv, IdleWorker, Inserted

LEMMA EpochStep == Typed /\ LeaseInv /\ EpochInv /\ [Next]_vars => EpochInv'
  <1> SUFFICES ASSUME Typed, LeaseInv, EpochInv, [Next]_vars
               PROVE  EpochInv'
    OBVIOUS
  <1>1. GoalStep
    BY GoalChange
  <1>2. \A g \in Goals : goal[g].epoch \in Nat /\ goal'[g].epoch \in Nat
    BY TypedStep DEF Typed, TypeOK, GoalRow
  <1>3. \A g \in Goals : goal[g].epoch <= goal'[g].epoch
    BY <1>1, <1>2, EpochChange
  <1>4. \A w \in Workers : wk[w].epoch \in Nat /\ wk[w].goal \in Goals \cup {None}
    BY DEF Typed, TypeOK, WorkerState
  <1>5. ASSUME NEW w \in Workers, NEW g \in Goals, Claim(w, g)
        PROVE  /\ wk'[w].goal = g /\ wk'[w].epoch = goal[g].epoch + 1
               /\ goal'[g].epoch = goal[g].epoch + 1
               /\ \A v \in Workers \ {w} : wk'[v] = wk[v]
    BY <1>5 DEF Claim, Claimed, Leased, Typed, TypeOK
  <1>6. ASSUME NEW w \in Workers, wk'[w].goal \in Goals
        PROVE  wk'[w].epoch <= goal'[wk'[w].goal].epoch
    <2>1. CASE LeaseKept(w)
      BY <1>2, <1>3, <1>4, <1>6, <2>1 DEF EpochInv, LeaseKept
    <2>2. CASE \E g \in Goals : Claim(w, g)
      BY <1>2, <1>5, <2>2
    <2> QED
      BY <1>6, <2>1, <2>2, WorkerChange, ConstantsAssumption
  <1>7. ASSUME NEW v \in Workers, NEW w \in Workers, wk'[v].goal \in Goals,
               wk'[v].goal = wk'[w].goal, wk'[v].epoch = wk'[w].epoch
        PROVE  v = w
    <2>1. CASE LeaseKept(v) /\ LeaseKept(w)
      BY <1>7, <2>1 DEF EpochInv, LeaseKept
    <2>2. ASSUME NEW g \in Goals, NEW x \in Workers, NEW y \in Workers, x # y,
                 wk'[x].goal = wk'[y].goal, wk'[x].epoch = wk'[y].epoch,
                 Claim(x, g)
          PROVE  FALSE
      <3>1. wk[y].goal = g /\ wk[y].epoch = goal[g].epoch + 1
        BY <1>5, <2>2
      <3>2. wk[y].epoch <= goal[g].epoch
        BY <3>1 DEF EpochInv
      <3> QED
        BY <1>2, <3>1, <3>2
    <2>3. ASSUME NEW g \in Goals, Claim(v, g) \/ Claim(w, g)
          PROVE  v = w
      BY <1>7, <2>2, <2>3
    <2> QED
      BY <1>7, <2>1, <2>3, WorkerChange, ConstantsAssumption
  <1>8. ASSUME NEW g \in Goals
        PROVE  writer'[g] <= goal'[g].epoch
    <2>1. writer[g] \in Nat /\ writer[g] <= goal[g].epoch
      BY DEF EpochInv, Typed, TypeOK
    <2>2. CASE writer' = writer
      BY <1>2, <1>3, <2>1, <2>2
    <2>3. ASSUME NEW w \in Workers, Holds(w),
                 writer' = [writer EXCEPT ![wk[w].goal] = wk[w].epoch]
          PROVE  writer'[g] <= goal'[g].epoch
      BY <1>2, <1>3, <2>1, <2>3 DEF Holds, Typed, TypeOK
    <2> QED
      BY <2>2, <2>3, WriterChange
  <1> QED
    BY <1>6, <1>7, <1>8 DEF EpochInv

LEMMA EpochInvariant == Spec => [](Typed /\ LeaseInv /\ EpochInv)
  BY InitTyped, TypedStep, InitLease, LeaseStep, InitEpoch, EpochStep, PTL DEF Spec

(* store.checkLease: at most one worker passes the fence of a goal, whatever  *)
(* owner names the worker processes were given.                               *)
THEOREM Fencing == Spec => []FenceExclusive
  <1>1. Typed /\ EpochInv => FenceExclusive
    BY DEF EpochInv, FenceExclusive, Holds
  <1> QED
    BY <1>1, EpochInvariant, PTL

(* Fenced writes to a goal happen in the order of the lease epochs. *)
THEOREM WritesInEpochOrder == Spec => EpochOrder
  <1>1. Typed /\ EpochInv /\ [Next]_vars
           => [\A g \in Goals : writer'[g] >= writer[g]]_vars
    <2> SUFFICES ASSUME Typed, EpochInv, [Next]_vars, NEW g \in Goals
                 PROVE  writer'[g] >= writer[g]
      OBVIOUS
    <2>1. writer[g] \in Nat /\ writer[g] <= goal[g].epoch /\ goal[g].epoch \in Nat
      BY DEF EpochInv, Typed, TypeOK, GoalRow
    <2>2. ASSUME NEW w \in Workers, Holds(w),
                 writer' = [writer EXCEPT ![wk[w].goal] = wk[w].epoch]
          PROVE  writer'[g] >= writer[g]
      BY <2>1, <2>2 DEF Holds, Typed, TypeOK
    <2> QED
      BY <2>1, <2>2, WriterChange
  <1> QED
    BY <1>1, EpochInvariant, PTL DEF Spec, EpochOrder
=============================================================================
