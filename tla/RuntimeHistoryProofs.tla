----------------------- MODULE RuntimeHistoryProofs ------------------------
(* What the effects and steps tables say stays true: recorded outcomes are    *)
(* final, a goal's history has no hole and holds committed effects only, and  *)
(* nothing runs that no operator approved.  A recovered step keeps its key if *)
(* JSONB does; and if operators signal one at a time, resumes return where    *)
(* the pause was and a goal that is done has nothing open.                    *)
EXTENDS RuntimeProofs

(* An effect a worker is about to record as a step is committed. *)
HistoryInv ==
    /\ StepsCommitted
    /\ \A w \in Workers : At(w, "commitStep") => Row(w).status = "committed"

(* The steps of worker w itself. *)
Acts(w) ==
    Work(w) \/ Error(w) \/ Crash(w) \/ \E g \in Goals : Claim(w, g)

----------------------------------------------------------------------------
(* Replacing one row of the effects table. *)
LEMMA SetEffectRow ==
    ASSUME Typed, NEW h \in Goals, NEW t \in Steps, NEW row, SetEffect(h, t, row),
           NEW g \in Goals, NEW s \in Steps
    PROVE  \/ eff'[g][s] = eff[g][s] /\ <<g, s>> # <<h, t>>
           \/ eff'[g][s] = row /\ g = h /\ s = t
  BY DEF SetEffect, Typed, TypeOK

(* The ways a step changes one row of the effects table. *)
Created(g, s) == /\ eff[g][s].status = "absent"
                 /\ eff'[g][s].status = "intent"
                 /\ eff'[g][s].attempts = 0
                 /\ retried' = retried /\ runs' = runs
Settles1(g, s) == /\ \E to \in {"needs_review", "committed", "failed"} :
                        eff'[g][s] = Settled(eff[g][s], to)
                  /\ \E w \in Workers : /\ MarkNeedsReview(w) \/ CommitResult(w)
                                        /\ wk[w].goal = g /\ wk[w].step = s
                  /\ retried' = retried /\ runs' = runs
Attempts1(g, s) == /\ eff'[g][s] = Attempted(eff[g][s])
                   /\ \E w \in Workers : /\ MarkAttempt(w)
                                         /\ wk[w].goal = g /\ wk[w].step = s
                   /\ retried' = retried /\ runs' = runs
Resolves(g, s) == /\ eff[g][s].status = "needs_review"
                  /\ eff'[g][s].key = eff[g][s].key
                  /\ runs' = runs
                  /\ \/ /\ eff'[g][s].status = "intent"
                        /\ eff'[g][s].attempts = 0
                        /\ retried' = [retried EXCEPT ![g][s] = retried[g][s] + 1]
                     \/ /\ eff'[g][s].status \in {"committed", "failed"}
                        /\ eff'[g][s].attempts = eff[g][s].attempts
                        /\ retried' = retried

EffectStep(g, s) ==
    \/ eff'[g][s] = eff[g][s]
    \/ Created(g, s) \/ Settles1(g, s) \/ Attempts1(g, s) \/ Resolves(g, s)

LEMMA EffectChange ==
    ASSUME Typed, [Next]_vars, NEW g \in Goals, NEW s \in Steps
    PROVE  EffectStep(g, s)
  <1> USE DEF EffectStep
  <1>1. ASSUME NEW h \in Goals, Signal(h) \/ LeaseExpires(h)
        PROVE  EffectStep(g, s)
    BY <1>1 DEF Signal, Create, Approve, Pause, Cancel, Transition, LeaseExpires
  <1>2. ASSUME NEW c \in Clients, (\E h \in Goals : ResumeRead(c, h)) \/ ResumeApply(c)
        PROVE  EffectStep(g, s)
    BY <1>2 DEF ResumeRead, ResumeApply, Transition
  <1>3. ASSUME NEW h \in Goals, NEW t \in Steps,
               NEW action \in {"retry", "committed", "failed"},
               ResolveReview(h, t, action)
        PROVE  EffectStep(g, s)
    <2>1. CASE action = "retry"
      <3>1. SetEffect(h, t, [status |-> "intent", attempts |-> 0,
                             key |-> eff[h][t].key])
        BY <1>3, <2>1 DEF ResolveReview
      <3>2. retried' = [retried EXCEPT ![h][t] = retried[h][t] + 1] /\ runs' = runs
        BY <1>3, <2>1 DEF ResolveReview
      <3> DEFINE row == [status |-> "intent", attempts |-> 0, key |-> eff[h][t].key]
      <3>3. \/ eff'[g][s] = eff[g][s]
            \/ eff'[g][s] = row /\ g = h /\ s = t
        BY <3>1, SetEffectRow
      <3>4. CASE eff'[g][s] = row /\ g = h /\ s = t
        <4>1. /\ eff'[g][s].status = "intent" /\ eff'[g][s].attempts = 0
              /\ eff'[g][s].key = eff[g][s].key
          BY <3>4
        <4>2. eff[g][s].status = "needs_review"
          BY <1>3, <3>4 DEF ResolveReview
        <4>3. retried' = [retried EXCEPT ![g][s] = retried[g][s] + 1]
          BY <3>2, <3>4
        <4> QED
          BY <3>2, <4>1, <4>2, <4>3 DEF Resolves
      <3> QED
        BY <3>3, <3>4
    <2>2. CASE action # "retry"
      <3>1. SetEffect(h, t, [status |-> action, attempts |-> eff[h][t].attempts,
                             key |-> eff[h][t].key])
        BY <1>3, <2>2 DEF ResolveReview
      <3>2. retried' = retried /\ runs' = runs
        BY <1>3, <2>2 DEF ResolveReview
      <3> QED
        BY <1>3, <2>2, <3>1, <3>2, SetEffectRow DEF ResolveReview, Resolves
    <2> QED
      BY <2>1, <2>2
  <1>4. ASSUME NEW w \in Workers,
               \/ \E h \in Goals : Claim(w, h)
               \/ Heartbeat(w) \/ Error(w) \/ Crash(w) \/ Load(w)
               \/ MaxStepsExceeded(w) \/ Verify(w) \/ TransitionFenced(w)
               \/ ReuseEffect(w) \/ AskAgent(w) \/ UnknownTool(w) \/ Probe(w)
               \/ Authorize(w) \/ ToolExecute(w) \/ CommitStep(w) \/ Release(w)
               \/ LeaseLost(w)
        PROVE  EffectStep(g, s)
    BY <1>4 DEF Claim, Heartbeat, Error, Crash, Load, MaxStepsExceeded, Verify,
       TransitionFenced, ReuseEffect, AskAgent, UnknownTool, Probe, Authorize,
       ToolExecute, CommitStep, Release, LeaseLost
  <1>5. ASSUME NEW w \in Workers, CommitIntent(w) \/ RequestApproval(w)
        PROVE  EffectStep(g, s)
    <2>1. wk[w].goal \in Goals /\ wk[w].step \in Steps
      BY <1>5, StepLocals DEF CommitIntent, RequestApproval, At, StepPcs
    <2>2. CASE eff' = eff
      BY <2>2
    <2>3. CASE /\ Row(w).status = "absent"
               /\ SetEffect(wk[w].goal, wk[w].step,
                     [status |-> "intent", attempts |-> 0, key |-> wk[w].call])
               /\ retried' = retried /\ runs' = runs
      BY <2>1, <2>3, SetEffectRow DEF Created, Row
    <2> QED
      BY <1>5, <2>2, <2>3 DEF CommitIntent, RequestApproval, SetRow
  <1>6. ASSUME NEW w \in Workers, MarkNeedsReview(w) \/ CommitResult(w)
        PROVE  EffectStep(g, s)
    <2>1. wk[w].goal \in Goals /\ wk[w].step \in Steps
      BY <1>6, StepLocals DEF MarkNeedsReview, CommitResult, StepPcs
    <2>2. PICK to \in {"needs_review", "committed", "failed"} :
             SetEffect(wk[w].goal, wk[w].step, Settled(Row(w), to))
      BY <1>6 DEF MarkNeedsReview, CommitResult, SetRow, Typed, LocalOK, WorkerOK
    <2>3. retried' = retried /\ runs' = runs
      BY <1>6 DEF MarkNeedsReview, CommitResult, history
    <2> QED
      BY <1>6, <2>1, <2>2, <2>3, SetEffectRow DEF Settles1, Row
  <1>7. ASSUME NEW w \in Workers, MarkAttempt(w)
        PROVE  EffectStep(g, s)
    <2>1. wk[w].goal \in Goals /\ wk[w].step \in Steps
      BY <1>7, StepLocals DEF MarkAttempt, At, StepPcs
    <2>2. /\ SetEffect(wk[w].goal, wk[w].step, Attempted(Row(w)))
          /\ retried' = retried /\ runs' = runs
      BY <1>7 DEF MarkAttempt, SetRow, history
    <2> QED
      BY <1>7, <2>1, <2>2, SetEffectRow DEF Attempts1, Row
  <1>8. CASE UNCHANGED vars
    BY <1>8 DEF vars
  <1> QED
    BY <1>1, <1>2, <1>3, <1>4, <1>5, <1>6, <1>7, <1>8 DEF Next, Work

(* A step without an effect has not been attempted. *)
AbsentInv ==
    \A g \in Goals, s \in Steps :
        eff[g][s].status = "absent" => eff[g][s].attempts = 0

LEMMA AbsentStep == Typed /\ AbsentInv /\ [Next]_vars => AbsentInv'
  <1> SUFFICES ASSUME Typed, AbsentInv, [Next]_vars, NEW g \in Goals, NEW s \in Steps,
                      eff'[g][s].status = "absent"
               PROVE  eff'[g][s].attempts = 0
    BY DEF AbsentInv
  <1>1. eff[g][s].status = "absent" => eff[g][s].attempts = 0
    BY DEF AbsentInv
  <1>2. eff[g][s] \in EffectRow
    BY DEF Typed, TypeOK
  <1>3. CASE Settles1(g, s) \/ Attempts1(g, s)
    BY <1>1, <1>2, <1>3 DEF Settles1, Attempts1, Settled, Attempted, EffectRow
  <1>4. CASE eff'[g][s] = eff[g][s] \/ Created(g, s) \/ Resolves(g, s)
    BY <1>1, <1>4 DEF Created, Resolves
  <1> QED
    BY <1>3, <1>4, EffectChange DEF EffectStep

LEMMA AbsentInvariant == Spec => [](Typed /\ AbsentInv)
  <1>1. Init => AbsentInv
    BY DEF Init, AbsentInv, NoEffect
  <1> QED
    BY <1>1, InitTyped, TypedStep, AbsentStep, PTL DEF Spec

(* What a step does to a row, in the terms EffectFinal and the history need. *)
LEMMA OutcomeKept ==
    ASSUME Typed, AbsentInv, [Next]_vars, NEW g \in Goals, NEW s \in Steps
    PROVE  /\ eff[g][s].status \in {"committed", "failed"}
                 => eff'[g][s] = eff[g][s]
           /\ eff[g][s].status # "absent" => eff'[g][s].key = eff[g][s].key
           /\ eff'[g][s].attempts < eff[g][s].attempts
                 => retried'[g][s] > retried[g][s]
  <1>1. eff[g][s] \in EffectRow /\ retried[g][s] \in Nat /\ eff[g][s].attempts \in Nat
    BY DEF Typed, TypeOK, EffectRow
  <1>2. CASE eff'[g][s] = eff[g][s]
    BY <1>1, <1>2
  <1>3. CASE Created(g, s)
    BY <1>3 DEF Created, AbsentInv
  <1>4. CASE Settles1(g, s)
    BY <1>1, <1>4 DEF Settles1, Settled, EffectRow
  <1>5. CASE Attempts1(g, s)
    BY <1>1, <1>5 DEF Attempts1, Attempted, EffectRow
  <1>6. CASE Resolves(g, s)
    BY <1>1, <1>6 DEF Resolves, Typed, TypeOK
  <1> QED
    BY <1>2, <1>3, <1>4, <1>5, <1>6, EffectChange DEF EffectStep

(* store.CommitResult, ResolveReview: a recorded outcome is final, a row      *)
(* keeps its key and only an operator's retry resets its attempts.            *)
THEOREM OutcomesFinal == Spec => EffectFinal
  <1> DEFINE Kept == \A g \in Goals, s \in Steps :
          /\ eff[g][s].status \in {"committed", "failed"}
                => eff'[g][s] = eff[g][s]
          /\ eff[g][s].status # "absent" => eff'[g][s].key = eff[g][s].key
          /\ eff'[g][s].attempts < eff[g][s].attempts
                => retried'[g][s] > retried[g][s]
  <1>1. Typed /\ AbsentInv /\ [Next]_vars => [Kept]_vars
    BY OutcomeKept
  <1> QED
    BY <1>1, AbsentInvariant, PTL DEF Spec, EffectFinal

----------------------------------------------------------------------------
(* A worker's locals change only by a step of its own. *)
LEMMA WorkerFrame ==
    ASSUME Typed, [Next]_vars, NEW w \in Workers
    PROVE  wk'[w] = wk[w] \/ Acts(w)
  <1> USE DEF Typed, TypeOK
  <1>1. ASSUME NEW g \in Goals, Signal(g) \/ LeaseExpires(g)
        PROVE  wk' = wk
    BY <1>1 DEF Signal, Create, Approve, Pause, Cancel, Transition, LeaseExpires
  <1>2. ASSUME NEW c \in Clients, (\E g \in Goals : ResumeRead(c, g)) \/ ResumeApply(c)
        PROVE  wk' = wk
    BY <1>2 DEF ResumeRead, ResumeApply, Transition
  <1>3. ASSUME NEW g \in Goals, NEW s \in Steps,
               NEW action \in {"retry", "committed", "failed"},
               ResolveReview(g, s, action)
        PROVE  wk' = wk
    BY <1>3 DEF ResolveReview
  <1>4. ASSUME NEW v \in Workers, v # w,
               Work(v) \/ Error(v) \/ Crash(v) \/ \E g \in Goals : Claim(v, g)
        PROVE  wk'[w] = wk[w]
    BY <1>4 DEF Work, Error, Crash, Claim, Load, MaxStepsExceeded, Verify,
       TransitionFenced, ReuseEffect, AskAgent, UnknownTool, CommitIntent,
       RequestApproval, MarkNeedsReview, Probe, Authorize, MarkAttempt,
       ToolExecute, CommitResult, CommitStep, Release, LeaseLost, Goto
  <1>5. ASSUME NEW v \in Workers, Heartbeat(v)
        PROVE  wk' = wk
    BY <1>5 DEF Heartbeat
  <1>6. CASE UNCHANGED vars
    BY <1>6 DEF vars
  <1> QED
    BY <1>1, <1>2, <1>3, <1>4, <1>5, <1>6 DEF Next, Acts

(* What Goto does to the worker itself. *)
LEMMA GotoLocals ==
    ASSUME Typed, NEW w \in Workers, NEW p, Goto(w, p)
    PROVE  /\ wk'[w].pc = p
           /\ LeaseKept(w)
           /\ p \in StepPcs => /\ wk'[w].step = wk[w].step
                               /\ wk'[w].call = wk[w].call
                               /\ wk'[w].out = wk[w].out
  BY DEF Goto, AtPc, Locals, LeaseKept, Typed, TypeOK

(* A worker comes to record a step only when the step's effect is committed. *)
LEMMA CommitStepEntry ==
    ASSUME Typed, [Next]_vars, NEW w \in Workers, wk'[w].pc = "commitStep"
    PROVE  \/ wk'[w] = wk[w]
           \/ /\ wk[w].goal \in Goals /\ wk[w].step \in Steps
              /\ wk'[w].goal = wk[w].goal /\ wk'[w].step = wk[w].step
              /\ eff'[wk[w].goal][wk[w].step].status = "committed"
  <1>1. ASSUME NEW p, Goto(w, p)
        PROVE  p = "commitStep" /\ LeaseKept(w) /\ wk'[w].step = wk[w].step
    BY <1>1, GotoLocals DEF StepPcs
  <1>2. CASE CommitIntent(w)
    <2>1. wk[w].goal \in Goals /\ wk[w].step \in Steps
      BY <1>2, StepLocals DEF CommitIntent, At, StepPcs
    <2>2. /\ Row(w).status # "absent" /\ eff' = eff
          /\ Goto(w, IF Row(w).key = wk[w].call THEN SettlePc(Row(w)) ELSE "release")
      BY <1>1, <1>2 DEF CommitIntent
    <2>3. SettlePc(Row(w)) = "commitStep"
      BY <1>1, <2>2
    <2>4. Row(w).status = "committed"
      BY <2>3 DEF SettlePc
    <2> QED
      BY <1>1, <2>1, <2>2, <2>4 DEF Row, LeaseKept
  <1>3. CASE CommitResult(w)
    <2>1. /\ wk[w].goal \in Goals /\ wk[w].step \in Steps
          /\ Row(w) \in EffectRow
      BY <1>3, StepLocals DEF CommitResult, StepPcs
    <2> DEFINE row == Settled(Row(w), wk[w].out)
    <2>2. Goto(w, FinalPc(row.status)) /\ SetEffect(wk[w].goal, wk[w].step, row)
      BY <1>3 DEF CommitResult, SetRow
    <2>3. row.status = "committed"
      <3>1. FinalPc(row.status) = "commitStep"
        BY <1>1, <2>2
      <3> QED
        BY <3>1 DEF FinalPc
    <2>4. eff'[wk[w].goal][wk[w].step] = row
      BY <2>1, <2>2 DEF SetEffect, Typed, TypeOK
    <2> QED
      BY <1>1, <2>1, <2>2, <2>3, <2>4 DEF LeaseKept
  <1>4. CASE Work(w) /\ ~ CommitIntent(w) /\ ~ CommitResult(w)
    <2>1. CASE Load(w)
      <3>1. wk'[w].pc = LoadPc(w, wk[w].goal)
        BY <2>1 DEF Load, Typed, TypeOK
      <3> QED
        BY <3>1 DEF LoadPc
    <2>2. CASE ReuseEffect(w) \/ AskAgent(w) \/ Probe(w) \/ ToolExecute(w)
      BY <1>1, <2>2 DEF ReuseEffect, AskAgent, Probe, ToolExecute, Locals, Typed, TypeOK
    <2>3. CASE Release(w)
      BY <2>3 DEF Release, IdleWorker, Typed, TypeOK
    <2> QED
      BY <1>1, <1>4, <2>1, <2>2, <2>3 DEF Work, MaxStepsExceeded, Verify, VerifyPcs,
         TransitionFenced, UnknownTool, RequestApproval, MarkNeedsReview, Authorize,
         MarkAttempt, CommitStep, LeaseLost
  <1>5. CASE Error(w)
    BY <1>1, <1>5 DEF Error
  <1>6. CASE Crash(w) \/ \E g \in Goals : Claim(w, g)
    BY <1>6 DEF Crash, Claim, Claimed, IdleWorker, Typed, TypeOK
  <1> QED
    BY <1>2, <1>3, <1>4, <1>5, <1>6, WorkerFrame DEF Acts

(* A goal's history grows by the step at its cursor, or stays. *)
Recording(w, g) ==
    /\ CommitStep(w)
    /\ wk[w].goal = g /\ At(w, "commitStep") /\ Holds(w)
    /\ wk[w].step = goal[g].cursor
    /\ recorded'[g] = recorded[g] \cup {wk[w].step}
    /\ goal'[g].cursor = goal[g].cursor + 1
    /\ eff' = eff

LEMMA RecordedChange ==
    ASSUME Typed, LeaseInv, [Next]_vars, NEW g \in Goals
    PROVE  \/ recorded'[g] = recorded[g] /\ goal'[g].cursor = goal[g].cursor
           \/ \E w \in Workers : Recording(w, g)
  <1>1. ASSUME NEW w \in Workers, CommitStep(w)
        PROVE  \/ recorded'[g] = recorded[g] /\ goal'[g].cursor = goal[g].cursor
               \/ Recording(w, g)
    BY <1>1 DEF CommitStep, Recording, Holds, Advanced, Typed, TypeOK
  <1>2. CASE ~ \E w \in Workers : CommitStep(w)
    <2>1. recorded' = recorded
      <3>1. ASSUME NEW w \in Workers, Work(w) \/ Heartbeat(w) \/ Error(w) \/ Crash(w)
                                      \/ \E h \in Goals : Claim(w, h)
            PROVE  recorded' = recorded
        BY <1>2, <3>1 DEF Work, Heartbeat, Error, Crash, Claim, Load, MaxStepsExceeded,
           Verify, TransitionFenced, ReuseEffect, AskAgent, UnknownTool, CommitIntent,
           RequestApproval, MarkNeedsReview, Probe, Authorize, MarkAttempt,
           ToolExecute, CommitResult, Release, LeaseLost
      <3>2. ASSUME NEW h \in Goals, Signal(h) \/ LeaseExpires(h)
            PROVE  recorded' = recorded
        BY <3>2 DEF Signal, Create, Approve, Pause, Cancel, Transition, LeaseExpires
      <3>3. ASSUME NEW c \in Clients,
                   (\E h \in Goals : ResumeRead(c, h)) \/ ResumeApply(c)
            PROVE  recorded' = recorded
        BY <3>3 DEF ResumeRead, ResumeApply, Transition
      <3>4. ASSUME NEW h \in Goals, NEW s \in Steps,
                   NEW action \in {"retry", "committed", "failed"},
                   ResolveReview(h, s, action)
            PROVE  recorded' = recorded
        BY <3>4 DEF ResolveReview
      <3>5. CASE UNCHANGED vars
        BY <3>5 DEF vars
      <3> QED
        BY <3>1, <3>2, <3>3, <3>4, <3>5 DEF Next
    <2>2. goal'[g].cursor = goal[g].cursor
      <3>1. GoalStep
        BY GoalChange
      <3>2. ASSUME goal[g].state = "absent", goal'[g] = Inserted("proposed")
            PROVE  goal'[g].cursor = goal[g].cursor
        BY <3>2 DEF LeaseInv, Inserted
      <3>3. ASSUME NEW to, goal'[g] = Moved(goal[g], to)
            PROVE  goal'[g].cursor = goal[g].cursor
        BY <3>3 DEF Moved
      <3>4. ASSUME NEW o, NEW e, NEW x, goal'[g] = Leased(goal[g], o, e, x)
            PROVE  goal'[g].cursor = goal[g].cursor
        BY <3>4 DEF Leased
      <3>5. ASSUME NEW w \in Workers, Claim(w, g)
            PROVE  goal'[g].cursor = goal[g].cursor
        BY <3>5 DEF Claim, Leased, Typed, TypeOK
      <3> QED
        BY <1>2, <3>1, <3>2, <3>3, <3>4, <3>5, RowChange
    <2> QED
      BY <2>1, <2>2
  <1> QED
    BY <1>1, <1>2

LEMMA InitHistory == Init => HistoryInv
  BY DEF Init, HistoryInv, StepsCommitted, Inserted, IdleWorker, At

LEMMA HistoryStep ==
    Typed /\ AbsentInv /\ LeaseInv /\ HistoryInv /\ [Next]_vars => HistoryInv'
  <1> SUFFICES ASSUME Typed, AbsentInv, LeaseInv, HistoryInv, [Next]_vars
               PROVE  HistoryInv'
    OBVIOUS
  <1>1. ASSUME NEW g \in Goals, NEW s \in Steps, eff[g][s].status = "committed"
        PROVE  eff'[g][s].status = "committed"
    BY <1>1, OutcomeKept
  <1>2. ASSUME NEW g \in Goals
        PROVE  /\ recorded'[g] = 0 .. goal'[g].cursor - 1
               /\ \A s \in recorded'[g] : eff'[g][s].status = "committed"
    <2>1. /\ recorded[g] = 0 .. goal[g].cursor - 1
          /\ recorded[g] \subseteq Steps
          /\ \A s \in recorded[g] : eff[g][s].status = "committed"
          /\ goal[g].cursor \in Nat
      BY ConstantsAssumption DEF HistoryInv, StepsCommitted, Typed, TypeOK, GoalRow
    <2>2. CASE recorded'[g] = recorded[g] /\ goal'[g].cursor = goal[g].cursor
      BY <1>1, <2>1, <2>2
    <2>3. ASSUME NEW w \in Workers, Recording(w, g)
          PROVE  /\ recorded'[g] = 0 .. goal'[g].cursor - 1
                 /\ \A s \in recorded'[g] : eff'[g][s].status = "committed"
      <3>1. eff[g][wk[w].step].status = "committed"
        BY <2>3 DEF HistoryInv, Recording, Row
      <3> QED
        BY <2>1, <2>3, <3>1 DEF Recording
    <2> QED
      BY <2>2, <2>3, RecordedChange
  <1>3. ASSUME NEW w \in Workers, wk'[w].pc = "commitStep"
        PROVE  eff'[wk'[w].goal][wk'[w].step].status = "committed"
    <2>1. CASE wk'[w] = wk[w]
      <3>1. wk[w].goal \in Goals /\ wk[w].step \in Steps
        BY <1>3, <2>1, StepLocals DEF StepPcs
      <3>2. eff[wk[w].goal][wk[w].step].status = "committed"
        BY <1>3, <2>1 DEF HistoryInv, At, Row
      <3> QED
        BY <1>1, <2>1, <3>1, <3>2
    <2> QED
      BY <1>3, <2>1, CommitStepEntry
  <1> QED
    BY <1>2, <1>3 DEF HistoryInv, StepsCommitted, At, Row

LEMMA HistoryInvariant == Spec => [](Typed /\ LeaseInv /\ AbsentInv /\ HistoryInv)
  BY AbsentInvariant, EpochInvariant, InitHistory, HistoryStep, PTL DEF Spec

(* store.CommitStep: a goal's history has no hole and holds committed effects *)
(* only, for any number of goals, workers, crashes, stalls and retries.       *)
THEOREM HistorySound == Spec => []StepsCommitted
  <1>1. HistoryInv => StepsCommitted
    BY DEF HistoryInv
  <1> QED
    BY <1>1, HistoryInvariant, PTL

----------------------------------------------------------------------------
(* fsm.legal, store.Transition, store.Claim: a goal that ended stays as it    *)
(* is, and so does its history.                                               *)
THEOREM EndedGoalsFinal == Spec => TerminalFinal
  <1> DEFINE Final == \A g \in Goals :
                 Terminal(goal[g].state) => /\ goal'[g] = goal[g]
                                            /\ recorded'[g] = recorded[g]
  <1>1. Typed /\ LeaseInv /\ [Next]_vars => [Final]_vars
    <2> SUFFICES ASSUME Typed, LeaseInv, [Next]_vars, NEW g \in Goals,
                        Terminal(goal[g].state)
                 PROVE  goal'[g] = goal[g] /\ recorded'[g] = recorded[g]
      OBVIOUS
    <2>1. /\ goal[g].state \in TerminalStates
          /\ goal[g].owner = None /\ goal[g].expires = "null"
      BY DEF LeaseInv, LeaseOnlyRunnable, Terminal, TerminalStates, RunnableStates
    <2>2. \A w \in Workers : wk[w].goal = g => ~ Holds(w)
      BY <2>1, ConstantsAssumption DEF Holds
    <2>3. recorded'[g] = recorded[g]
      BY <2>2, RecordedChange DEF Recording
    <2>4. ~ \E w \in Workers : Claim(w, g)
      BY <2>1 DEF Claim, Claimable, RunnableStates, TerminalStates
    <2>5. ~ \E to \in GoalStates : CanTransition(goal[g].state, to)
      BY <2>1 DEF CanTransition, TerminalStates
    <2>6. goal[g].state # "absent"
      BY <2>1 DEF TerminalStates
    <2>7. goal'[g] = goal[g]
      BY <2>1, <2>2, <2>4, <2>5, <2>6, GoalChange, RowChange
    <2> QED
      BY <2>3, <2>7
  <1> QED
    BY <1>1, EpochInvariant, PTL DEF Spec, TerminalFinal

----------------------------------------------------------------------------
(* Whatever can make a goal run is preceded by an approval: its state, the    *)
(* state it was paused from, a resume in flight, and the workers at it.       *)
ApprovalInv ==
    /\ OperatorApproved
    /\ \A g \in Goals : goal[g].pausedFrom \in RunnableStates => g \in approved
    /\ \A c \in Clients :
          pending[c] # None /\ pending[c].to \in RunnableStates
              => pending[c].goal \in approved
    /\ \A w \in Workers : wk[w].goal \in Goals => wk[w].goal \in approved

(* How a step changes what state a goal is in or returns to. *)
StateStep(g) ==
    \/ /\ goal'[g].state = goal[g].state
       /\ goal'[g].pausedFrom = goal[g].pausedFrom
    \/ goal'[g] = Inserted("proposed")
    \/ \E to \in {"paused", "cancelled"} : goal'[g] = Moved(goal[g], to)
    \/ g \in approved'
    \/ \E c \in Clients : /\ pending[c] # None /\ pending[c].goal = g
                          /\ goal'[g] = Moved(goal[g], pending[c].to)

LEMMA ApprovedGrows == Typed /\ [Next]_vars => approved \subseteq approved'
  <1> SUFFICES ASSUME Typed, [Next]_vars
               PROVE  approved \subseteq approved'
    OBVIOUS
  <1>1. ASSUME NEW g \in Goals, Signal(g) \/ LeaseExpires(g)
        PROVE  approved \subseteq approved'
    BY <1>1 DEF Signal, Create, Approve, Pause, Cancel, LeaseExpires, history
  <1>2. ASSUME NEW c \in Clients, (\E g \in Goals : ResumeRead(c, g)) \/ ResumeApply(c)
        PROVE  approved \subseteq approved'
    BY <1>2 DEF ResumeRead, ResumeApply, history
  <1>3. ASSUME NEW g \in Goals, NEW s \in Steps,
               NEW action \in {"retry", "committed", "failed"},
               ResolveReview(g, s, action)
        PROVE  approved \subseteq approved'
    BY <1>3 DEF ResolveReview
  <1>4. ASSUME NEW w \in Workers, Work(w) \/ Heartbeat(w) \/ Error(w) \/ Crash(w)
                                  \/ \E g \in Goals : Claim(w, g)
        PROVE  approved \subseteq approved'
    BY <1>4 DEF Work, Heartbeat, Error, Crash, Claim, Load, MaxStepsExceeded,
       Verify, TransitionFenced, ReuseEffect, AskAgent, UnknownTool, CommitIntent,
       RequestApproval, MarkNeedsReview, Probe, Authorize, MarkAttempt,
       ToolExecute, CommitResult, CommitStep, Release, LeaseLost, history
  <1>5. CASE UNCHANGED vars
    BY <1>5 DEF vars
  <1> QED
    BY <1>1, <1>2, <1>3, <1>4, <1>5 DEF Next

LEMMA StateChange ==
    ASSUME Typed, ApprovalInv, [Next]_vars, NEW g \in Goals
    PROVE  StateStep(g)
  <1> USE DEF StateStep, Typed, TypeOK
  <1>1. ASSUME NEW h \in Goals, Signal(h) \/ LeaseExpires(h)
        PROVE  StateStep(g)
    <2>1. CASE Create(h)
      BY <2>1 DEF Create
    <2>2. CASE Approve(h)
      BY <2>2 DEF Approve, Transition
    <2>3. CASE Pause(h) \/ Cancel(h)
      BY <2>3 DEF Pause, Cancel, Transition
    <2>4. CASE LeaseExpires(h)
      BY <2>4 DEF LeaseExpires, Leased
    <2> QED
      BY <1>1, <2>1, <2>2, <2>3, <2>4 DEF Signal
  <1>2. ASSUME NEW c \in Clients, (\E h \in Goals : ResumeRead(c, h)) \/ ResumeApply(c)
        PROVE  StateStep(g)
    BY <1>2 DEF ResumeRead, ResumeApply, Transition
  <1>3. ASSUME NEW h \in Goals, NEW s \in Steps,
               NEW action \in {"retry", "committed", "failed"},
               ResolveReview(h, s, action)
        PROVE  StateStep(g)
    BY <1>3 DEF ResolveReview
  <1>4. ASSUME NEW w \in Workers, NEW h \in Goals, Claim(w, h)
        PROVE  StateStep(g)
    BY <1>4 DEF Claim, Leased
  <1>5. ASSUME NEW w \in Workers, Heartbeat(w) \/ Release(w)
        PROVE  StateStep(g)
    <2>1. CASE goal' = goal
      BY <2>1
    <2>2. ASSUME NEW h \in Goals, NEW o, NEW e, NEW x,
                 goal' = [goal EXCEPT ![h] = Leased(goal[h], o, e, x)]
          PROVE  StateStep(g)
      BY <2>2 DEF Leased
    <2>3. CASE Heartbeat(w)
      BY <2>2, <2>3 DEF Heartbeat, Holds
    <2>4. CASE Release(w) /\ Holds(w)
      BY <2>2, <2>4 DEF Release, Holds
    <2> QED
      BY <1>5, <2>1, <2>3, <2>4 DEF Release
  <1>6. ASSUME NEW w \in Workers, TransitionFenced(w) \/ CommitStep(w)
        PROVE  StateStep(g)
    <2>1. wk[w].goal \in Goals /\ wk[w].goal \in approved'
      BY <1>6, ApprovedGrows DEF TransitionFenced, CommitStep, Holds, ApprovalInv
    <2> QED
      BY <1>6, <2>1 DEF TransitionFenced, CommitStep
  <1>7. ASSUME NEW w \in Workers, Work(w) \/ Error(w) \/ Crash(w)
        PROVE  StateStep(g)
    BY <1>5, <1>6, <1>7 DEF Work, Error, Crash, Load, MaxStepsExceeded, Verify,
       ReuseEffect, AskAgent, UnknownTool, CommitIntent, RequestApproval,
       MarkNeedsReview, Probe, Authorize, MarkAttempt, ToolExecute, CommitResult,
       LeaseLost
  <1>8. CASE UNCHANGED vars
    BY <1>8 DEF vars
  <1> QED
    BY <1>1, <1>2, <1>3, <1>4, <1>5, <1>7, <1>8 DEF Next

(* A tool takes effect only in the hands of a worker at the goal. *)
LEMMA RunsChange ==
    ASSUME Typed, [Next]_vars, NEW g \in Goals, NEW s \in Steps
    PROVE  \/ runs'[g][s] = runs[g][s]
           \/ \E w \in Workers : /\ ToolExecute(w)
                                 /\ wk[w].goal = g /\ wk[w].step = s
                                 /\ runs'[g][s] = runs[g][s] + 1
  <1>1. ASSUME NEW h \in Goals, Signal(h) \/ LeaseExpires(h)
        PROVE  runs' = runs
    BY <1>1 DEF Signal, Create, Approve, Pause, Cancel, Transition, LeaseExpires
  <1>2. ASSUME NEW c \in Clients, (\E h \in Goals : ResumeRead(c, h)) \/ ResumeApply(c)
        PROVE  runs' = runs
    BY <1>2 DEF ResumeRead, ResumeApply, Transition
  <1>3. ASSUME NEW h \in Goals, NEW t \in Steps,
               NEW action \in {"retry", "committed", "failed"},
               ResolveReview(h, t, action)
        PROVE  runs' = runs
    BY <1>3 DEF ResolveReview
  <1>4. ASSUME NEW w \in Workers, ~ ToolExecute(w),
               Work(w) \/ Heartbeat(w) \/ Error(w) \/ Crash(w)
               \/ \E h \in Goals : Claim(w, h)
        PROVE  runs' = runs
    BY <1>4 DEF Work, Heartbeat, Error, Crash, Claim, Load, MaxStepsExceeded,
       Verify, TransitionFenced, ReuseEffect, AskAgent, UnknownTool, CommitIntent,
       RequestApproval, MarkNeedsReview, Probe, Authorize, MarkAttempt,
       CommitResult, CommitStep, Release, LeaseLost
  <1>5. ASSUME NEW w \in Workers, ToolExecute(w)
        PROVE  \/ runs'[g][s] = runs[g][s]
               \/ /\ wk[w].goal = g /\ wk[w].step = s
                  /\ runs'[g][s] = runs[g][s] + 1
    <2>1. wk[w].goal \in Goals /\ wk[w].step \in Steps
      BY <1>5, StepLocals DEF ToolExecute, At, StepPcs
    <2>2. PICK acted \in {0, 1} :
             runs' = [runs EXCEPT ![wk[w].goal][wk[w].step] = @ + acted]
      BY <1>5 DEF ToolExecute
    <2>3. runs \in [Goals -> [Steps -> Nat]]
      BY DEF Typed, TypeOK
    <2> QED
      BY <2>1, <2>2, <2>3
  <1>6. CASE UNCHANGED vars
    BY <1>6 DEF vars
  <1> QED
    BY <1>1, <1>2, <1>3, <1>4, <1>5, <1>6 DEF Next

(* A resume in flight carries the state its goal was paused from. *)
LEMMA PendingChange ==
    ASSUME Typed, [Next]_vars, NEW c \in Clients
    PROVE  \/ pending'[c] = pending[c]
           \/ pending'[c] = None
           \/ \E g \in Goals : /\ ResumeRead(c, g)
                               /\ pending'[c] = [goal |-> g, to |-> goal[g].pausedFrom]
  <1>1. ASSUME NEW h \in Goals, Signal(h) \/ LeaseExpires(h)
        PROVE  pending' = pending
    BY <1>1 DEF Signal, Create, Approve, Pause, Cancel, LeaseExpires
  <1>2. ASSUME NEW d \in Clients, ResumeApply(d)
        PROVE  pending'[c] = pending[c] \/ pending'[c] = None
    BY <1>2 DEF ResumeApply, Typed, TypeOK
  <1>3. ASSUME NEW d \in Clients, NEW h \in Goals, ResumeRead(d, h)
        PROVE  \/ pending'[c] = pending[c]
               \/ /\ c = d
                  /\ pending'[c] = [goal |-> h, to |-> goal[h].pausedFrom]
    BY <1>3 DEF ResumeRead, ResumeTarget, Typed, TypeOK
  <1>4. ASSUME NEW h \in Goals, NEW t \in Steps,
               NEW action \in {"retry", "committed", "failed"},
               ResolveReview(h, t, action)
        PROVE  pending' = pending
    BY <1>4 DEF ResolveReview
  <1>5. ASSUME NEW w \in Workers,
               Work(w) \/ Heartbeat(w) \/ Error(w) \/ Crash(w)
               \/ \E h \in Goals : Claim(w, h)
        PROVE  pending' = pending
    BY <1>5 DEF Work, Heartbeat, Error, Crash, Claim, Load, MaxStepsExceeded,
       Verify, TransitionFenced, ReuseEffect, AskAgent, UnknownTool, CommitIntent,
       RequestApproval, MarkNeedsReview, Probe, Authorize, MarkAttempt,
       ToolExecute, CommitResult, CommitStep, Release, LeaseLost
  <1>6. CASE UNCHANGED vars
    BY <1>6 DEF vars
  <1> QED
    BY <1>1, <1>2, <1>3, <1>4, <1>5, <1>6 DEF Next

LEMMA InitApproval == Init => ApprovalInv
  BY ConstantsAssumption
  DEF Init, ApprovalInv, OperatorApproved, Inserted, IdleWorker, RunnableStates,
      GoalStates

LEMMA ApprovalStep == Typed /\ ApprovalInv /\ [Next]_vars => ApprovalInv'
  <1> SUFFICES ASSUME Typed, ApprovalInv, [Next]_vars
               PROVE  ApprovalInv'
    OBVIOUS
  <1>1. approved \subseteq approved'
    BY ApprovedGrows
  <1>2. None \notin RunnableStates
    BY ConstantsAssumption DEF RunnableStates, GoalStates
  <1>3. ASSUME NEW g \in Goals
        PROVE  /\ goal'[g].state \in RunnableStates => g \in approved'
               /\ goal'[g].pausedFrom \in RunnableStates => g \in approved'
    <2>1. /\ goal[g].state \in RunnableStates => g \in approved
          /\ goal[g].pausedFrom \in RunnableStates => g \in approved
      BY DEF ApprovalInv, OperatorApproved
    <2>2. ASSUME NEW to, goal'[g] = Moved(goal[g], to),
                 to \in RunnableStates => g \in approved
          PROVE  /\ goal'[g].state \in RunnableStates => g \in approved'
                 /\ goal'[g].pausedFrom \in RunnableStates => g \in approved'
      BY <1>1, <1>2, <2>1, <2>2 DEF Moved
    <2>3. CASE goal'[g] = Inserted("proposed")
      BY <1>2, <2>3 DEF Inserted, RunnableStates
    <2>4. CASE /\ goal'[g].state = goal[g].state
               /\ goal'[g].pausedFrom = goal[g].pausedFrom
      BY <1>1, <2>1, <2>4
    <2>5. ASSUME NEW to \in {"paused", "cancelled"}, goal'[g] = Moved(goal[g], to)
          PROVE  /\ goal'[g].state \in RunnableStates => g \in approved'
                 /\ goal'[g].pausedFrom \in RunnableStates => g \in approved'
      BY <2>2, <2>5 DEF RunnableStates
    <2>6. ASSUME NEW c \in Clients, pending[c] # None, pending[c].goal = g,
                 goal'[g] = Moved(goal[g], pending[c].to)
          PROVE  /\ goal'[g].state \in RunnableStates => g \in approved'
                 /\ goal'[g].pausedFrom \in RunnableStates => g \in approved'
      BY <2>2, <2>6 DEF ApprovalInv
    <2> QED
      BY <2>3, <2>4, <2>5, <2>6, StateChange DEF StateStep
  <1>4. ASSUME NEW g \in Goals, NEW s \in Steps, runs'[g][s] > 0
        PROVE  g \in approved'
    <2>1. CASE runs'[g][s] = runs[g][s]
      BY <1>1, <1>4, <2>1 DEF ApprovalInv, OperatorApproved
    <2>2. ASSUME NEW w \in Workers, wk[w].goal = g
          PROVE  g \in approved'
      BY <1>1, <2>2 DEF ApprovalInv
    <2> QED
      BY <2>1, <2>2, RunsChange
  <1>5. ASSUME NEW c \in Clients, pending'[c] # None, pending'[c].to \in RunnableStates
        PROVE  pending'[c].goal \in approved'
    <2>1. CASE pending'[c] = pending[c]
      BY <1>1, <1>5, <2>1 DEF ApprovalInv
    <2>2. ASSUME NEW g \in Goals,
                 pending'[c] = [goal |-> g, to |-> goal[g].pausedFrom]
          PROVE  pending'[c].goal \in approved'
      BY <1>1, <1>5, <2>2 DEF ApprovalInv
    <2> QED
      BY <1>5, <2>1, <2>2, PendingChange
  <1>6. ASSUME NEW w \in Workers, wk'[w].goal \in Goals
        PROVE  wk'[w].goal \in approved'
    <2>1. CASE LeaseKept(w)
      BY <1>1, <1>6, <2>1 DEF ApprovalInv, LeaseKept
    <2>2. ASSUME NEW g \in Goals, Claim(w, g)
          PROVE  wk'[w].goal \in approved'
      <3>1. wk'[w].goal = g /\ goal[g].state \in RunnableStates
        BY <2>2 DEF Claim, Claimed, Claimable, Typed, TypeOK
      <3> QED
        BY <1>1, <3>1 DEF ApprovalInv, OperatorApproved
    <2> QED
      BY <1>6, <2>1, <2>2, WorkerChange, ConstantsAssumption
  <1> QED
    BY <1>3, <1>4, <1>5, <1>6 DEF ApprovalInv, OperatorApproved

(* api.signal, store.Resume: nothing runs that no operator approved, whatever *)
(* signals reach the goal and however many resumes are in flight.             *)
THEOREM ApprovedFirst == Spec => []OperatorApproved
  <1>1. Spec => [](Typed /\ ApprovalInv)
    BY InitTyped, TypedStep, InitApproval, ApprovalStep, PTL DEF Spec
  <1>2. ApprovalInv => OperatorApproved
    BY DEF ApprovalInv
  <1> QED
    BY <1>1, <1>2, PTL

----------------------------------------------------------------------------
(* Who changes the state of a goal.                                           *)

(* Nothing but a lease or the cursor changes. *)
SameState(g) == goal'[g].state = goal[g].state /\ goal'[g].pausedFrom = goal[g].pausedFrom

MovesTo(g, to) == CanTransition(goal[g].state, to) /\ goal'[g] = Moved(goal[g], to)

OperatorMoves(g) ==
    /\ Quiet /\ pending' = pending
    /\ \E to \in {"approved", "paused", "cancelled"} : MovesTo(g, to)

ResumeMoves(c, g) ==
    /\ pending[c] # None /\ pending'[c] = None /\ pending[c].goal = g
    /\ MovesTo(g, pending[c].to)

WorkerMoves(w, g) ==
    /\ TransitionFenced(w) /\ Holds(w) /\ wk[w].goal = g
    /\ MovesTo(g, MoveTarget(wk[w].pc))

LEMMA StateMover ==
    ASSUME Typed, [Next]_vars, NEW g \in Goals
    PROVE  \/ SameState(g)
           \/ goal[g].state = "absent" /\ goal'[g] = Inserted("proposed")
           \/ OperatorMoves(g)
           \/ \E c \in Clients : ResumeMoves(c, g)
           \/ \E w \in Workers : WorkerMoves(w, g)
  <1> USE DEF SameState
  <1>2. ASSUME NEW h \in Goals, NEW to, CanTransition(goal[h].state, to),
               goal' = [goal EXCEPT ![h] = Moved(goal[h], to)]
        PROVE  MovesTo(h, to) /\ (g # h => SameState(g))
    BY <1>2 DEF MovesTo, Typed, TypeOK
  <1>3. ASSUME NEW h \in Goals, NEW o, NEW e, NEW x,
               goal' = [goal EXCEPT ![h] = Leased(goal[h], o, e, x)]
        PROVE  SameState(g)
    BY <1>3 DEF Leased, Typed, TypeOK
  <1>4. ASSUME NEW h \in Goals, Signal(h)
        PROVE  \/ SameState(g)
               \/ goal[g].state = "absent" /\ goal'[g] = Inserted("proposed")
               \/ OperatorMoves(g)
    <2>1. CASE Create(h)
      BY <2>1 DEF Create, Typed, TypeOK
    <2>2. CASE Approve(h)
      BY <1>2, <2>2 DEF Approve, Transition, OperatorMoves
    <2>3. CASE Pause(h)
      BY <1>2, <2>3 DEF Pause, Transition, OperatorMoves
    <2>4. CASE Cancel(h)
      BY <1>2, <2>4 DEF Cancel, Transition, OperatorMoves
    <2> QED
      BY <1>4, <2>1, <2>2, <2>3, <2>4 DEF Signal
  <1>5. ASSUME NEW c \in Clients, ResumeApply(c)
        PROVE  SameState(g) \/ ResumeMoves(c, g)
    <2>1. pending[c] # None /\ pending'[c] = None /\ pending[c].goal \in Goals
      BY <1>5 DEF ResumeApply, Typed, TypeOK
    <2> QED
      BY <1>2, <1>5, <2>1 DEF ResumeApply, Transition, ResumeMoves
  <1>6. ASSUME NEW w \in Workers, TransitionFenced(w)
        PROVE  SameState(g) \/ WorkerMoves(w, g)
    <2>1. Holds(w) /\ wk[w].goal \in Goals
      BY <1>6 DEF TransitionFenced, Holds
    <2> QED
      BY <1>2, <1>6, <2>1 DEF TransitionFenced, WorkerMoves
  <1>7. ASSUME NEW w \in Workers, CommitStep(w)
        PROVE  SameState(g)
    BY <1>7 DEF CommitStep, Holds, Advanced, Typed, TypeOK
  <1>8. ASSUME NEW w \in Workers, Heartbeat(w) \/ Release(w) \/ \E h \in Goals : Claim(w, h)
        PROVE  SameState(g)
    BY <1>3, <1>8 DEF Heartbeat, Release, Claim, Holds
  <1>9. ASSUME NEW h \in Goals, LeaseExpires(h)
        PROVE  SameState(g)
    BY <1>3, <1>9 DEF LeaseExpires
  <1>10. CASE goal' = goal
    BY <1>10
  <1> QED
    BY <1>4, <1>5, <1>6, <1>7, <1>8, <1>9, <1>10 DEF Next, Work, ResumeRead,
       ResolveReview, Error, Crash, Load, MaxStepsExceeded, Verify,
       ReuseEffect, AskAgent, UnknownTool, CommitIntent, RequestApproval,
       MarkNeedsReview, Probe, Authorize, MarkAttempt, ToolExecute, CommitResult,
       LeaseLost, vars

(* A lease a worker has after a step that it kept, it had before. *)
LEMMA HeldBefore ==
    ASSUME Typed, LeaseInv, EpochInv, [Next]_vars, NEW w \in Workers,
           LeaseKept(w), Holds(w)'
    PROVE  Holds(w)
  <1> DEFINE g == wk[w].goal
  <1>1. g \in Goals /\ goal'[g].owner = WorkerId[w] /\ goal'[g].epoch = wk[w].epoch
    BY DEF Holds, LeaseKept
  <1>2. WorkerId[w] # None
    BY ConstantsAssumption
  <1>3. GoalStep
    BY GoalChange
  <1>4. goal[g].epoch \in Nat /\ wk[w].epoch <= goal[g].epoch /\ wk[w].epoch \in Nat
    BY <1>1 DEF EpochInv, Typed, TypeOK, GoalRow, WorkerState
  <1>5. ~ \E v \in Workers : Claim(v, g)
    <2>1. ASSUME NEW v \in Workers, Claim(v, g)
          PROVE  goal'[g].epoch = goal[g].epoch + 1
      BY <1>1, <2>1 DEF Claim, Leased, Typed, TypeOK
    <2> QED
      BY <1>1, <1>4, <2>1
  <1>6. goal'[g].epoch = goal[g].epoch
    BY <1>1, <1>3, <1>5, EpochChange
  <1>7. goal'[g].owner = goal[g].owner
    <2>1. goal'[g] # Inserted("proposed")
      BY <1>1, <1>2 DEF Inserted
    <2>2. ASSUME NEW to, goal'[g] = Moved(goal[g], to)
          PROVE  goal'[g].owner = goal[g].owner
      BY <1>1, <1>2, <2>2 DEF Moved
    <2>3. \A x : goal'[g] # Leased(goal[g], None, goal[g].epoch, x)
      BY <1>1, <1>2 DEF Leased
    <2>4. ASSUME NEW x, goal'[g] = Leased(goal[g], goal[g].owner, goal[g].epoch, x)
          PROVE  goal'[g].owner = goal[g].owner
      BY <2>4 DEF Leased
    <2>5. CASE goal'[g] = Advanced(goal[g])
      BY <2>5 DEF Advanced
    <2> QED
      BY <1>1, <1>3, <1>5, <2>1, <2>2, <2>3, <2>4, <2>5, RowChange
  <1> QED
    BY <1>1, <1>6, <1>7 DEF Holds

----------------------------------------------------------------------------
(* Recovery presents the recorded key, where JSONB gives back what it got.    *)

(* The row a holder of the lease creates, and that it leaves the intent.      *)
LEMMA RowCreator ==
    ASSUME Typed, [Next]_vars, NEW g \in Goals, NEW s \in Steps,
           eff[g][s].status = "absent", eff'[g][s].status # "absent"
    PROVE  \E w \in Workers : /\ CommitIntent(w) \/ RequestApproval(w)
                              /\ Holds(w) /\ wk[w].goal = g /\ wk[w].step = s
                              /\ wk'[w].pc \in {"authorize", "flagReview"}
  <1>1. eff[g][s] \in EffectRow
    BY DEF Typed, TypeOK
  <1>2. ~ Settles1(g, s) /\ ~ Attempts1(g, s) /\ ~ Resolves(g, s) /\ eff' # eff
    BY <1>1 DEF Settles1, Attempts1, Resolves, Settled, Attempted, EffectRow
  <1>3. ASSUME NEW w \in Workers, CommitIntent(w) \/ RequestApproval(w)
        PROVE  /\ Holds(w) /\ wk[w].goal = g /\ wk[w].step = s
               /\ wk'[w].pc \in {"authorize", "flagReview"}
    <2>1. Holds(w) /\ wk[w].goal \in Goals /\ wk[w].step \in Steps
      BY <1>3, StepLocals DEF CommitIntent, RequestApproval, At, StepPcs
    <2>2. PICK row : SetEffect(wk[w].goal, wk[w].step, row)
      BY <1>2, <1>3 DEF CommitIntent, RequestApproval, SetRow
    <2>3. wk[w].goal = g /\ wk[w].step = s
      BY <2>1, <2>2, SetEffectRow
    <2>4. Goto(w, "authorize") \/ Goto(w, "flagReview")
      BY <1>2, <1>3 DEF CommitIntent, RequestApproval
    <2> QED
      BY <2>1, <2>3, <2>4, GotoLocals
  <1>4. ASSUME NEW w \in Workers, MarkNeedsReview(w) \/ CommitResult(w) \/ MarkAttempt(w)
        PROVE  FALSE
    <2>1. wk[w].goal \in Goals /\ wk[w].step \in Steps
      BY <1>4, StepLocals DEF MarkNeedsReview, CommitResult, MarkAttempt, At, StepPcs
    <2>2. PICK row : SetEffect(wk[w].goal, wk[w].step, row) /\ row.status = Row(w).status
      <3>1. CASE Row(w).status = "absent"
        BY <1>4, <3>1 DEF MarkNeedsReview, CommitResult, MarkAttempt, SetRow, Settled, Attempted
      <3>2. CASE Row(w).status # "absent"
        <4>1. PICK row : SetEffect(wk[w].goal, wk[w].step, row)
          BY <1>4 DEF MarkNeedsReview, CommitResult, MarkAttempt, SetRow
        <4>2. ~ (wk[w].goal = g /\ wk[w].step = s)
          BY <3>2 DEF Row
        <4>3. eff'[g][s] = eff[g][s]
          BY <2>1, <4>1, <4>2, SetEffectRow
        <4> QED
          BY <4>3
      <3> QED
        BY <3>1, <3>2
    <2> QED
      BY <2>1, <2>2, SetEffectRow DEF Row
  <1>5. ASSUME NEW h \in Goals, NEW t \in Steps,
               NEW action \in {"retry", "committed", "failed"},
               ResolveReview(h, t, action)
        PROVE  FALSE
    <2>1. PICK row : SetEffect(h, t, row)
      BY <1>5 DEF ResolveReview
    <2>2. ~ (h = g /\ t = s)
      BY <1>5 DEF ResolveReview
    <2> QED
      BY <2>1, <2>2, SetEffectRow
  <1>6. \/ \E w \in Workers : CommitIntent(w) \/ RequestApproval(w)
        \/ \E w \in Workers : MarkNeedsReview(w) \/ CommitResult(w) \/ MarkAttempt(w)
        \/ \E h \in Goals, t \in Steps, action \in {"retry", "committed", "failed"} :
              ResolveReview(h, t, action)
    BY <1>2 DEF Next, Signal, Create, Approve, Pause, Cancel, Transition, LeaseExpires,
       ResumeRead, ResumeApply, Claim, Heartbeat, Error, Crash, Work, Load,
       MaxStepsExceeded, Verify, TransitionFenced, ReuseEffect, AskAgent, UnknownTool,
       Probe, Authorize, ToolExecute, CommitStep, Release, LeaseLost, vars
  <1> QED
    BY <1>3, <1>4, <1>5, <1>6

(* How a worker comes to commit an intent. *)
LEMMA IntentEntry ==
    ASSUME Typed, [Next]_vars, NEW w \in Workers, wk'[w].pc = "intent"
    PROVE  \/ wk'[w] = wk[w]
           \/ /\ LeaseKept(w) /\ wk'[w].step = wk[w].step /\ eff' = eff
              /\ wk[w].goal \in Goals /\ wk[w].step \in Steps
              /\ Row(w).status # "absent" => wk'[w].call = Jsonb[Row(w).key]
  <1>1. ASSUME NEW p, Goto(w, p)
        PROVE  p = "intent"
    BY <1>1, GotoLocals
  <1>2. CASE ReuseEffect(w) \/ AskAgent(w)
    <2>1. wk[w].goal \in Goals
      BY <1>2 DEF ReuseEffect, AskAgent, At, Typed, TypeOK, LocalOK, WorkerOK, WorkerState
    <2>2. wk[w].step \in Steps
      BY <1>1, <1>2 DEF ReuseEffect, AskAgent, HasEffect
    <2>3. LeaseKept(w)
      BY <1>1, <1>2, LocalsKeeps DEF ReuseEffect, AskAgent
    <2>4. CASE ReuseEffect(w)
      BY <2>1, <2>2, <2>3, <2>4 DEF ReuseEffect, Locals, Typed, TypeOK
    <2>5. CASE AskAgent(w)
      BY <1>1, <2>1, <2>2, <2>3, <2>5 DEF AskAgent, HasEffect, Locals, Typed, TypeOK
    <2> QED
      BY <1>2, <2>4, <2>5
  <1>3. CASE Work(w) /\ ~ ReuseEffect(w) /\ ~ AskAgent(w)
    <2>1. CASE Load(w)
      <3>1. wk'[w].pc = LoadPc(w, wk[w].goal)
        BY <2>1 DEF Load, Typed, TypeOK
      <3> QED
        BY <3>1 DEF LoadPc
    <2>2. CASE Release(w)
      BY <2>2 DEF Release, IdleWorker, Typed, TypeOK
    <2>3. CASE Probe(w) \/ ToolExecute(w)
      BY <1>1, <2>3 DEF Probe, ToolExecute, Locals, Typed, TypeOK
    <2>4. CASE CommitIntent(w) \/ CommitResult(w)
      BY <1>1, <2>4 DEF CommitIntent, CommitResult, SettlePc, FinalPc
    <2> QED
      BY <1>1, <1>3, <2>1, <2>2, <2>3, <2>4 DEF Work, MaxStepsExceeded, Verify, VerifyPcs,
         TransitionFenced, UnknownTool, RequestApproval, MarkNeedsReview, Authorize,
         MarkAttempt, CommitStep, LeaseLost
  <1>4. CASE Error(w)
    BY <1>1, <1>4 DEF Error
  <1>5. CASE Crash(w) \/ \E g \in Goals : Claim(w, g)
    BY <1>5 DEF Crash, Claim, Claimed, IdleWorker, Typed, TypeOK
  <1> QED
    BY <1>2, <1>3, <1>4, <1>5, WorkerFrame DEF Acts

LEMMA SameKeyStep ==
    ASSUME Typed, LeaseInv, EpochInv, AbsentInv, [Next]_vars, RecoverySameKey,
           \A k \in Calls : Jsonb[k] = k
    PROVE  RecoverySameKey'
  <1> SUFFICES ASSUME NEW w \in Workers, At(w, "intent")', Holds(w)',
                      Row(w)'.status # "absent"
               PROVE  wk'[w].call = Row(w)'.key
    BY DEF RecoverySameKey
  <1> DEFINE g == wk[w].goal
             s == wk[w].step
  <1>1. CASE wk'[w] = wk[w]
    <2>1. g \in Goals /\ s \in Steps /\ At(w, "intent")
      BY <1>1, StepLocals DEF At, StepPcs
    <2>2. Holds(w)
      BY <1>1, HeldBefore DEF LeaseKept
    <2>3. Row(w)' = eff'[g][s] /\ Row(w) = eff[g][s]
      BY <1>1 DEF Row
    <2>4. CASE Row(w).status # "absent"
      BY <1>1, <2>1, <2>2, <2>3, <2>4, OutcomeKept DEF RecoverySameKey
    <2>5. CASE Row(w).status = "absent"
      <3>1. PICK v \in Workers : /\ Holds(v) /\ wk[v].goal = g
                                 /\ wk'[v].pc \in {"authorize", "flagReview"}
        BY <2>1, <2>3, <2>5, RowCreator
      <3>2. v = w
        BY <2>1, <2>2, <3>1 DEF Holds, EpochInv
      <3> QED
        BY <3>1, <3>2 DEF At
    <2> QED
      BY <2>4, <2>5
  <1>2. CASE /\ LeaseKept(w) /\ wk'[w].step = s /\ eff' = eff
             /\ g \in Goals /\ s \in Steps
             /\ Row(w).status # "absent" => wk'[w].call = Jsonb[Row(w).key]
    <2>1. Row(w)' = Row(w)
      BY <1>2 DEF Row, LeaseKept
    <2>2. Row(w).key \in Calls
      BY <1>2, <2>1 DEF Row, Typed, KeysOK
    <2> QED
      BY <1>2, <2>1, <2>2
  <1> QED
    BY <1>1, <1>2, IntentEntry DEF At

(* worker.step, store.EffectByStep: where a call reads back from JSONB as it  *)
(* was written, a worker that finds a recorded effect presents its key, even  *)
(* if other workers come and go and an agent would now plan otherwise.        *)
THEOREM SameKeyWhenExact ==
    (\A k \in Calls : Jsonb[k] = k) /\ Spec => []RecoverySameKey
  <1> SUFFICES ASSUME \A k \in Calls : Jsonb[k] = k
               PROVE  Spec => []RecoverySameKey
    OBVIOUS
  <1>1. Init => RecoverySameKey
    BY DEF Init, RecoverySameKey, IdleWorker, At
  <1>2. Typed /\ LeaseInv /\ EpochInv /\ AbsentInv /\ RecoverySameKey /\ [Next]_vars
           => RecoverySameKey'
    BY SameKeyStep
  <1> QED
    BY <1>1, <1>2, EpochInvariant, AbsentInvariant, PTL DEF Spec

----------------------------------------------------------------------------
(* One operator at a time: resumes return, and a goal that is done left       *)
(* nothing in doubt.                                                          *)

(* The resume in flight is the only one, and its goal waits for it. *)
SerialInv ==
    \A c \in Clients :
        pending[c] # None =>
            /\ goal[pending[c].goal].state = "paused"
            /\ goal[pending[c].goal].pausedFrom = pending[c].to
            /\ \A d \in Clients : pending[d] # None => d = c

(* Nothing of the goal is in doubt, refused or waiting for an operator. *)
NothingOpen(g) == \A s \in Steps : eff[g][s].status \in {"absent", "committed"}

(* What the holder of a lease may rely on: the state it loaded, the cursor it *)
(* is at, and, once its agent has finished, that nothing is open.             *)
DriveOK(w) ==
    /\ wk[w].pc \in {"begin", "cancelGoal"} => goal[wk[w].goal].state = "approved"
    /\ wk[w].pc \in StepPcs \cup {"finish", "pauseGoal"}
          => goal[wk[w].goal].state = "executing"
    /\ wk[w].pc \in {"verify", "doneGoal"} => goal[wk[w].goal].state = "verifying"
    /\ wk[w].pc \in StepPcs => wk[w].step = goal[wk[w].goal].cursor
    /\ wk[w].pc = "finish" => NothingOpen(wk[w].goal)

DriveInv == \A w \in Workers : Holds(w) => DriveOK(w)

(* No step past the cursor has an effect. *)
AheadInv ==
    \A g \in Goals, s \in Steps :
        s > goal[g].cursor => eff[g][s].status = "absent"

(* The agent has said that it is finished. *)
Finished(r) ==
    \/ r.state \in {"verifying", "done"}
    \/ r.state = "paused" /\ r.pausedFrom = "verifying"

FinishedInv == \A g \in Goals : Finished(goal[g]) => NothingOpen(g)

(* A paused goal has no holder, and no resume is in flight in the quiet. *)
LEMMA PausedUnheld ==
    ASSUME LeaseInv, NEW w \in Workers, Holds(w)
    PROVE  goal[wk[w].goal].state \in RunnableStates
  BY ConstantsAssumption DEF Holds, LeaseInv, LeaseOnlyRunnable

LEMMA SerialStep ==
    ASSUME SerialOps, Typed, LeaseInv, SerialInv, [Next]_vars
    PROVE  SerialInv'
  <1>1. ASSUME NEW c \in Clients, NEW g \in Goals, ResumeRead(c, g),
               NEW d \in Clients, d # c
        PROVE  pending'[d] = None
    BY <1>1 DEF ResumeRead, Quiet, Typed, TypeOK
  <1>2. ASSUME NEW c \in Clients, pending'[c] # None
        PROVE  /\ goal'[pending'[c].goal].state = "paused"
               /\ goal'[pending'[c].goal].pausedFrom = pending'[c].to
               /\ \A d \in Clients : pending'[d] # None => d = c
    <2>1. ASSUME NEW g \in Goals, ResumeRead(c, g),
                 pending'[c] = [goal |-> g, to |-> goal[g].pausedFrom]
          PROVE  /\ goal'[pending'[c].goal].state = "paused"
                 /\ goal'[pending'[c].goal].pausedFrom = pending'[c].to
                 /\ \A d \in Clients : pending'[d] # None => d = c
      <3>1. pending'[c].goal = g /\ pending'[c].to = goal[g].pausedFrom
        BY <2>1
      <3>2. goal' = goal /\ goal[g].state = "paused"
        BY <2>1 DEF ResumeRead
      <3>3. \A d \in Clients : pending'[d] # None => d = c
        BY <1>1, <2>1
      <3> QED
        BY <3>1, <3>2, <3>3
    <2>2. CASE pending'[c] = pending[c]
      <3> DEFINE g == pending[c].goal
      <3>1. /\ pending[c] # None /\ g \in Goals
            /\ goal[g].state = "paused" /\ goal[g].pausedFrom = pending[c].to
            /\ \A d \in Clients : pending[d] # None => d = c
        BY <1>2, <2>2 DEF SerialInv, Typed, TypeOK
      <3>2. ~ Quiet
        BY <3>1 DEF Quiet
      <3>3. \A d \in Clients : pending'[d] # None => d = c
        BY <3>1, <3>2, PendingChange DEF ResumeRead
      <3>4. ASSUME NEW d \in Clients, ResumeMoves(d, g)
            PROVE  FALSE
        BY <1>2, <3>1, <3>4 DEF ResumeMoves
      <3>5. ASSUME NEW w \in Workers, WorkerMoves(w, g)
            PROVE  FALSE
        BY <3>1, <3>5, PausedUnheld DEF WorkerMoves, RunnableStates
      <3>6. SameState(g)
        BY <3>1, <3>2, <3>4, <3>5, StateMover DEF OperatorMoves
      <3> QED
        BY <2>2, <3>1, <3>3, <3>6 DEF SameState
    <2> QED
      BY <1>2, <2>1, <2>2, PendingChange
  <1> QED
    BY <1>2 DEF SerialInv

(* Nobody else changes the state or the cursor of a goal whose lease is held. *)
LEMMA HeldRow ==
    ASSUME Typed, LeaseInv, EpochInv, SerialInv, [Next]_vars, NEW w \in Workers,
           LeaseKept(w), Holds(w)', ~ TransitionFenced(w), ~ CommitStep(w)
    PROVE  /\ Holds(w)
           /\ goal'[wk[w].goal].state = goal[wk[w].goal].state
           /\ goal'[wk[w].goal].cursor = goal[wk[w].goal].cursor
  <1> DEFINE g == wk[w].goal
  <1>1. Holds(w) /\ g \in Goals
    BY HeldBefore DEF Holds
  <1>2. goal[g].state \in RunnableStates
    BY <1>1, PausedUnheld
  <1>3. goal'[g].owner # None
    BY ConstantsAssumption DEF Holds, LeaseKept
  <1>4. ASSUME NEW v \in Workers, Holds(v), wk[v].goal = g
        PROVE  v = w
    BY <1>1, <1>4 DEF Holds, EpochInv
  <1>5. ~ OperatorMoves(g)
    <2>1. ~ MovesTo(g, "approved")
      BY <1>2 DEF MovesTo, CanTransition, RunnableStates
    <2>2. ASSUME NEW to \in {"paused", "cancelled"}, MovesTo(g, to)
          PROVE  FALSE
      BY <1>3, <2>2 DEF MovesTo, Moved, DropsLease, Terminal, TerminalStates
    <2> QED
      BY <2>1, <2>2 DEF OperatorMoves
  <1>6. ASSUME NEW c \in Clients, ResumeMoves(c, g)
        PROVE  FALSE
    BY <1>2, <1>6 DEF ResumeMoves, SerialInv, RunnableStates
  <1>7. ASSUME NEW v \in Workers, WorkerMoves(v, g)
        PROVE  FALSE
    BY <1>4, <1>7 DEF WorkerMoves
  <1>8. SameState(g)
    BY <1>1, <1>2, <1>5, <1>6, <1>7, StateMover DEF RunnableStates
  <1>9. goal'[g].cursor = goal[g].cursor
    BY <1>1, <1>4, RecordedChange DEF Recording
  <1> QED
    BY <1>1, <1>8, <1>9 DEF SameState

(* What is not open stays so, unless a worker of the goal makes an intent. *)
LEMMA StaysClosed ==
    ASSUME Typed, AbsentInv, [Next]_vars, NEW g \in Goals, NothingOpen(g),
           ~ NothingOpen(g)'
    PROVE  \E w \in Workers : /\ CommitIntent(w) \/ RequestApproval(w)
                              /\ Holds(w) /\ wk[w].goal = g
                              /\ wk'[w].pc \in {"authorize", "flagReview"}
  <1>1. PICK s \in Steps : eff'[g][s].status \notin {"absent", "committed"}
    BY DEF NothingOpen
  <1>2. eff[g][s].status \in {"absent", "committed"}
    BY DEF NothingOpen
  <1>3. eff[g][s].status # "committed"
    BY <1>1, OutcomeKept
  <1> QED
    BY <1>1, <1>2, <1>3, RowCreator

LEMMA AheadStep ==
    ASSUME Typed, LeaseInv, DriveInv, AheadInv, [Next]_vars
    PROVE  AheadInv'
  <1> SUFFICES ASSUME NEW g \in Goals, NEW s \in Steps, s > goal'[g].cursor,
                      eff'[g][s].status # "absent"
               PROVE  FALSE
    BY DEF AheadInv
  <1>1. goal[g].cursor \in Int /\ s \in Int
    BY ConstantsAssumption DEF Typed, TypeOK, GoalRow, Steps
  <1>2. s > goal[g].cursor
    BY <1>1, RecordedChange DEF Recording
  <1>3. eff[g][s].status = "absent"
    BY <1>2 DEF AheadInv
  <1>4. PICK w \in Workers : /\ CommitIntent(w) \/ RequestApproval(w)
                             /\ Holds(w) /\ wk[w].goal = g /\ wk[w].step = s
    BY <1>3, RowCreator
  <1>5. wk[w].pc \in StepPcs
    BY <1>4 DEF CommitIntent, RequestApproval, At, StepPcs
  <1>6. s = goal[g].cursor
    BY <1>4, <1>5 DEF DriveInv, DriveOK
  <1> QED
    BY <1>1, <1>2, <1>6

(* Along the phases of one step a holder keeps what it relies on. *)
LEMMA DriveAlong ==
    ASSUME NEW w \in Workers, DriveOK(w), wk[w].pc \in StepPcs, goal' = goal,
           LeaseKept(w), wk'[w].pc \in StepPcs => wk'[w].step = wk[w].step,
           wk'[w].pc \in StepPcs \cup {"pauseGoal", "failGoal", "release"}
    PROVE  DriveOK(w)'
  BY DEF DriveOK, LeaseKept, StepPcs

LEMMA DriveActs ==
    ASSUME Typed, LeaseInv, EpochInv, HistoryInv, SerialInv, DriveInv, AheadInv,
           [Next]_vars, NEW w \in Workers, Acts(w), Holds(w)'
    PROVE  DriveOK(w)'
  <1> DEFINE g == wk[w].goal
  <1>1. ASSUME NEW p, Goto(w, p), p \in {"load", "release", "failGoal"}
        PROVE  DriveOK(w)'
    BY <1>1, GotoLocals DEF DriveOK, StepPcs
  <1>2. CASE \E h \in Goals : Claim(w, h)
    BY <1>2 DEF Claim, Claimed, DriveOK, StepPcs, Typed, TypeOK
  <1>3. CASE Crash(w) \/ Release(w)
    BY <1>3, ConstantsAssumption DEF Crash, Release, IdleWorker, Holds, Typed, TypeOK
  <1>4. CASE Error(w) \/ LeaseLost(w) \/ MaxStepsExceeded(w) \/ UnknownTool(w)
             \/ TransitionFenced(w) \/ CommitStep(w)
    BY <1>1, <1>4 DEF Error, LeaseLost, MaxStepsExceeded, UnknownTool,
       TransitionFenced, CommitStep
  <1>5. CASE Load(w)
    <2>1. /\ wk'[w].pc = LoadPc(w, g) /\ wk'[w].goal = g
          /\ wk'[w].pc = "step" => wk'[w].step = goal[g].cursor
          /\ goal' = goal
      BY <1>5 DEF Load, Typed, TypeOK
    <2> QED
      BY <2>1 DEF DriveOK, LoadPc, StepPcs
  <1>6. ASSUME ~ TransitionFenced(w), ~ CommitStep(w), LeaseKept(w)
        PROVE  g \in Goals /\ DriveOK(w)
    BY <1>6, HeldRow DEF DriveInv, Holds
  <1>7. CASE Verify(w)
    <2>1. PICK p \in {"doneGoal", "failGoal"} : Goto(w, p)
      BY <1>7 DEF Verify, VerifyPcs
    <2>2. LeaseKept(w) /\ wk'[w].pc = p
      BY <2>1, GotoLocals
    <2>3. goal[g].state = "verifying"
      BY <1>6, <1>7, <2>2 DEF DriveOK, Verify, At, TransitionFenced, FencedMoves, CommitStep
    <2> QED
      BY <1>7, <2>2, <2>3 DEF DriveOK, LeaseKept, StepPcs, Verify
  <1>8. CASE AskAgent(w) /\ wk'[w].pc = "finish"
    <2>1. Goto(w, "finish") /\ goal' = goal /\ eff' = eff
      BY <1>1, <1>8, GotoLocals DEF AskAgent, Locals, Typed, TypeOK
    <2>2. LeaseKept(w)
      BY <2>1, GotoLocals
    <2>3. g \in Goals /\ DriveOK(w)
      BY <1>6, <1>8, <2>2 DEF AskAgent, At, TransitionFenced, FencedMoves, CommitStep
    <2>4. wk[w].step = goal[g].cursor /\ goal[g].state = "executing"
      BY <1>8, <2>3 DEF DriveOK, AskAgent, At, StepPcs
    <2>5. NothingOpen(g)
      <3> SUFFICES ASSUME NEW s \in Steps
                   PROVE  eff[g][s].status \in {"absent", "committed"}
        BY DEF NothingOpen
      <3>1. s \in Nat /\ goal[g].cursor \in Nat
        BY <2>3, ConstantsAssumption DEF Steps, Typed, TypeOK, GoalRow
      <3>2. CASE s > goal[g].cursor
        BY <2>3, <3>2 DEF AheadInv
      <3>3. CASE s = goal[g].cursor
        BY <1>8, <2>4, <3>3 DEF AskAgent, HasEffect, Row
      <3>4. CASE s < goal[g].cursor
        <4>1. s \in recorded[g]
          BY <2>3, <3>1, <3>4 DEF HistoryInv, StepsCommitted
        <4> QED
          BY <2>3, <4>1 DEF HistoryInv, StepsCommitted
      <3> QED
        BY <3>1, <3>2, <3>3, <3>4
    <2>6. wk'[w].goal = g
      BY <2>2 DEF LeaseKept
    <2>7. NothingOpen(wk[w].goal)'
      BY <2>1, <2>5, <2>6 DEF NothingOpen
    <2> QED
      BY <1>8, <2>1, <2>4, <2>6, <2>7 DEF DriveOK, StepPcs
  <1>9. CASE \/ ReuseEffect(w) \/ CommitIntent(w) \/ RequestApproval(w)
             \/ MarkNeedsReview(w) \/ Probe(w) \/ Authorize(w) \/ MarkAttempt(w)
             \/ ToolExecute(w) \/ CommitResult(w)
             \/ AskAgent(w) /\ wk'[w].pc # "finish"
    <2>1. wk[w].pc \in StepPcs /\ goal' = goal /\ wk[w].pc # "commitStep"
      BY <1>9 DEF ReuseEffect, CommitIntent, RequestApproval, MarkNeedsReview, Probe,
         Authorize, MarkAttempt, ToolExecute, CommitResult, AskAgent, At, StepPcs
    <2>2. \/ \E p \in StepPcs \cup {"pauseGoal", "failGoal", "release"} : Goto(w, p)
          \/ \E p \in StepPcs : \E k, o :
                wk' = [wk EXCEPT ![w] = Locals(wk[w], p, wk[w].step, k, o)]
      <3>1. CASE ReuseEffect(w) \/ Probe(w) \/ ToolExecute(w)
        BY <3>1 DEF ReuseEffect, Probe, ToolExecute, StepPcs
      <3>2. CASE AskAgent(w) /\ wk'[w].pc # "finish"
        BY <3>2, GotoLocals DEF AskAgent, StepPcs
      <3>3. CASE CommitIntent(w)
        BY <3>3 DEF CommitIntent, SettlePc, StepPcs
      <3>4. CASE CommitResult(w)
        BY <3>4 DEF CommitResult, FinalPc, StepPcs
      <3>5. CASE RequestApproval(w) \/ MarkNeedsReview(w) \/ Authorize(w) \/ MarkAttempt(w)
        BY <3>5 DEF RequestApproval, MarkNeedsReview, Authorize, MarkAttempt, StepPcs
      <3> QED
        BY <1>9, <3>1, <3>2, <3>3, <3>4, <3>5
    <2>3. /\ LeaseKept(w)
          /\ wk'[w].pc \in StepPcs => wk'[w].step = wk[w].step
          /\ wk'[w].pc \in StepPcs \cup {"pauseGoal", "failGoal", "release"}
      <3>1. ASSUME NEW p \in StepPcs, NEW k, NEW o,
                   wk' = [wk EXCEPT ![w] = Locals(wk[w], p, wk[w].step, k, o)]
            PROVE  LeaseKept(w) /\ wk'[w].pc = p /\ wk'[w].step = wk[w].step
        BY <3>1 DEF LeaseKept, Locals, Typed, TypeOK
      <3> QED
        BY <2>2, <3>1, GotoLocals
    <2>4. DriveOK(w)
      BY <1>6, <2>1, <2>3 DEF TransitionFenced, FencedMoves, CommitStep, At, StepPcs
    <2> QED
      BY <2>1, <2>3, <2>4, DriveAlong
  <1> QED
    BY <1>2, <1>3, <1>4, <1>5, <1>7, <1>8, <1>9 DEF Acts, Work

LEMMA DriveStep ==
    ASSUME Typed, LeaseInv, EpochInv, AbsentInv, HistoryInv, SerialInv, DriveInv,
           AheadInv, [Next]_vars
    PROVE  DriveInv'
  <1> SUFFICES ASSUME NEW w \in Workers, Holds(w)'
               PROVE  DriveOK(w)'
    BY DEF DriveInv
  <1>1. CASE wk'[w] = wk[w]
    <2> DEFINE g == wk[w].goal
    <2>1. ~ TransitionFenced(w) /\ ~ CommitStep(w)
      <3>1. ASSUME NEW p \in {"load", "release"}, Goto(w, p)
            PROVE  wk[w].pc = p
        BY <1>1, <3>1, GotoLocals
      <3> QED
        BY <3>1 DEF TransitionFenced, CommitStep, FencedMoves, At
    <2>2. LeaseKept(w)
      BY <1>1 DEF LeaseKept
    <2>3. /\ Holds(w) /\ g \in Goals /\ DriveOK(w)
          /\ goal'[g].state = goal[g].state /\ goal'[g].cursor = goal[g].cursor
      BY <2>1, <2>2, HeldRow DEF DriveInv, Holds
    <2>4. ASSUME wk[w].pc = "finish"
          PROVE  NothingOpen(wk[w].goal)'
      <3> PICK h \in Goals : h = g
        BY <2>3
      <3>1. NothingOpen(h)
        BY <2>3, <2>4 DEF DriveOK
      <3>2. ASSUME NEW v \in Workers, Holds(v), wk[v].goal = h,
                   wk'[v].pc \in {"authorize", "flagReview"}
            PROVE  FALSE
        <4>1. v = w
          BY <2>3, <3>2 DEF Holds, EpochInv
        <4> QED
          BY <1>1, <2>4, <3>2, <4>1
      <3>3. NothingOpen(h)'
        BY <3>1, <3>2, StaysClosed
      <3> QED
        BY <1>1, <3>3 DEF NothingOpen
    <2> QED
      BY <1>1, <2>3, <2>4 DEF DriveOK
  <1> QED
    BY <1>1, DriveActs, WorkerFrame

LEMMA FinishedStep ==
    ASSUME Typed, LeaseInv, AbsentInv, SerialInv, DriveInv, FinishedInv, [Next]_vars
    PROVE  FinishedInv'
  <1> SUFFICES ASSUME NEW g \in Goals, Finished(goal'[g])
               PROVE  NothingOpen(g)'
    BY DEF FinishedInv
  <1>1. CASE Finished(goal[g])
    <2>1. NothingOpen(g)
      BY <1>1 DEF FinishedInv
    <2>2. ASSUME NEW w \in Workers, CommitIntent(w) \/ RequestApproval(w),
                 Holds(w), wk[w].goal = g
          PROVE  FALSE
      <3>1. wk[w].pc \in StepPcs
        BY <2>2 DEF CommitIntent, RequestApproval, At, StepPcs
      <3> QED
        BY <1>1, <2>2, <3>1 DEF DriveInv, DriveOK, Finished
    <2> QED
      BY <2>1, <2>2, StaysClosed
  <1>2. CASE ~ Finished(goal[g])
    <2>1. ~ SameState(g) /\ goal'[g] # Inserted("proposed")
      BY <1>2 DEF SameState, Finished, Inserted
    <2>2. ~ OperatorMoves(g)
      BY <1>2 DEF OperatorMoves, MovesTo, Moved, Finished
    <2>3. ASSUME NEW c \in Clients, ResumeMoves(c, g)
          PROVE  FALSE
      <3>1. goal[g].state = "paused" /\ goal[g].pausedFrom = pending[c].to
        BY <2>3 DEF ResumeMoves, SerialInv
      <3>2. goal'[g].state = pending[c].to /\ pending[c].to \in ActiveStates
        BY <2>3 DEF ResumeMoves, MovesTo, Moved, Typed, TypeOK
      <3> QED
        BY <1>2, <3>1, <3>2 DEF Finished, ActiveStates
    <2>4. PICK w \in Workers : WorkerMoves(w, g)
      BY <2>1, <2>2, <2>3, StateMover
    <2>5. wk[w].pc = "finish"
      <3>1. /\ goal'[g] = Moved(goal[g], MoveTarget(wk[w].pc))
            /\ CanTransition(goal[g].state, MoveTarget(wk[w].pc))
            /\ wk[w].pc \in FencedMoves
        BY <2>4 DEF WorkerMoves, MovesTo, TransitionFenced
      <3>2. goal[g].state # "verifying"
        BY <1>2 DEF Finished
      <3>3. MoveTarget(wk[w].pc) # "done"
        BY <3>1, <3>2 DEF CanTransition
      <3>4. MoveTarget(wk[w].pc) # "paused"
        BY <3>1, <3>2 DEF Moved, Finished
      <3>5. MoveTarget(wk[w].pc) = "verifying"
        BY <3>1, <3>3, <3>4 DEF Moved, Finished
      <3> QED
        BY <3>1, <3>5 DEF MoveTarget, FencedMoves
    <2>6. NothingOpen(g) /\ eff' = eff
      BY <2>4, <2>5 DEF WorkerMoves, TransitionFenced, DriveInv, DriveOK
    <2> QED
      BY <2>6 DEF NothingOpen
  <1> QED
    BY <1>1, <1>2

SerialRuntimeInv ==
    /\ Typed /\ LeaseInv /\ EpochInv /\ AbsentInv /\ HistoryInv
    /\ SerialInv /\ DriveInv /\ AheadInv /\ FinishedInv

LEMMA SerialInvariant == SerialOps /\ Spec => []SerialRuntimeInv
  <1> SUFFICES ASSUME SerialOps
               PROVE  Spec => []SerialRuntimeInv
    OBVIOUS
  <1>1. Init => SerialInv /\ AheadInv /\ FinishedInv
    BY DEF Init, SerialInv, AheadInv, FinishedInv, NothingOpen, Finished, Inserted,
       NoEffect
  <1>2. Init => DriveInv
    BY ConstantsAssumption DEF Init, DriveInv, Holds, IdleWorker
  <1>3. Typed /\ LeaseInv /\ EpochInv /\ AbsentInv /\ HistoryInv /\ SerialInv
           /\ DriveInv /\ AheadInv /\ FinishedInv /\ [Next]_vars
           => SerialInv' /\ DriveInv' /\ AheadInv' /\ FinishedInv'
    BY SerialStep, DriveStep, AheadStep, FinishedStep
  <1> QED
    BY <1>1, <1>2, <1>3, EpochInvariant, HistoryInvariant, PTL
    DEF Spec, SerialRuntimeInv

(* worker.drive: while operators signal one at a time, a goal that is done    *)
(* has no effect in doubt, refused or under review, whatever workers crash,   *)
(* stall or lose their lease on the way.                                      *)
THEOREM DoneLeavesNothing == SerialOps /\ Spec => []DoneSettled
  <1>1. SerialRuntimeInv => DoneSettled
    BY DEF SerialRuntimeInv, FinishedInv, Finished, NothingOpen, DoneSettled
  <1> QED
    BY <1>1, SerialInvariant, PTL

(* store.Resume: while operators signal one at a time, a paused goal returns  *)
(* to where it was paused, and only its agent's finish ends the execution.    *)
THEOREM ResumesReturn == SerialOps /\ Spec => ResumeReturns
  <1> DEFINE Returns == \A g \in Goals :
          /\ goal[g].state = "paused" /\ goal'[g].state # "paused"
                => goal'[g].state \in {goal[g].pausedFrom, "approved", "cancelled"}
          /\ goal[g].state = "verifying" => goal'[g].state # "executing"
          /\ goal[g].state = "executing" /\ goal'[g].state = "verifying"
                => \E w \in Workers : At(w, "finish") /\ Holds(w)
  <1>1. SerialRuntimeInv /\ [Next]_vars => [Returns]_vars
    <2> SUFFICES ASSUME SerialRuntimeInv, [Next]_vars, NEW g \in Goals,
                        goal'[g].state # goal[g].state
                 PROVE  /\ goal[g].state = "paused" /\ goal'[g].state # "paused"
                              => goal'[g].state \in {goal[g].pausedFrom, "approved", "cancelled"}
                        /\ goal[g].state = "verifying" => goal'[g].state # "executing"
                        /\ goal[g].state = "executing" /\ goal'[g].state = "verifying"
                              => \E w \in Workers : At(w, "finish") /\ Holds(w)
      BY Zenon
    <2> USE DEF SerialRuntimeInv
    <2>1. ASSUME NEW to, MovesTo(g, to)
          PROVE  goal'[g].state = to
      BY <2>1 DEF MovesTo, Moved
    <2>2. CASE goal[g].state = "absent"
      BY <2>2
    <2>3. CASE OperatorMoves(g)
      BY <2>1, <2>3 DEF OperatorMoves
    <2>4. ASSUME NEW c \in Clients, ResumeMoves(c, g)
          PROVE  goal[g].state = "paused" /\ goal'[g].state = goal[g].pausedFrom
      BY <2>1, <2>4 DEF ResumeMoves, SerialInv
    <2>5. ASSUME NEW w \in Workers, WorkerMoves(w, g)
          PROVE  /\ goal[g].state # "paused"
                 /\ goal[g].state = "verifying" => goal'[g].state # "executing"
                 /\ goal'[g].state = "verifying" => At(w, "finish") /\ Holds(w)
      <3>1. /\ wk[w].pc \in FencedMoves /\ Holds(w) /\ wk[w].goal = g
            /\ goal'[g].state = MoveTarget(wk[w].pc)
        BY <2>1, <2>5 DEF WorkerMoves, TransitionFenced
      <3>2. goal[g].state # "paused"
        BY <3>1, PausedUnheld DEF RunnableStates
      <3>3. wk[w].pc = "begin" => goal[g].state = "approved"
        BY <3>1 DEF DriveInv, DriveOK
      <3> QED
        BY <3>1, <3>2, <3>3 DEF MoveTarget, FencedMoves, At
    <2> QED
      BY <2>2, <2>3, <2>4, <2>5, StateMover DEF SameState
  <1> QED
    BY <1>1, SerialInvariant, PTL DEF Spec, ResumeReturns
=============================================================================
