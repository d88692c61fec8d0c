------------------------------- MODULE Engine -------------------------------
(* The two implementations of the Engine interface: Fake, which holds the     *)
(* step's mutex over a whole ScheduleStep (internal/engine/fake.go), and      *)
(* Postgres, which holds the row lock only while it claims and runs fn and    *)
(* probe outside any transaction (internal/engine/postgres.go).  A key        *)
(* belongs to one of them: the keys of Locked to Fake, the others to          *)
(* Postgres.  Callers reach them through Runtime.RunEffect.                   *)
EXTENDS Naturals, FiniteSets

CONSTANTS Keys,          \* idempotency keys
          Locked,        \* the keys kept by Fake; the others are Postgres rows
          Callers,       \* goroutines or processes that call RunEffect
          Clients,       \* Clients[k]: the callers that use key k
          Probing,       \* the callers that pass a probe
          Vals,          \* results of fn
          None,          \* no caller, no result
          MaxCalls,      \* bound: calls of RunEffect
          MaxRetries     \* bound: operator retries of a key

ASSUME EngineAssumption ==
    /\ Locked \subseteq Keys
    /\ Clients \in [Keys -> SUBSET Callers]
    /\ \A k \in Keys : IsFiniteSet(Clients[k])
    /\ Probing \subseteq Callers
    /\ None \notin Callers /\ None \notin Vals
    /\ MaxCalls \in Nat /\ MaxRetries \in Nat

VARIABLES row,      \* row[k]: the step's row: status, result, attempts
          mu,       \* mu[k]: the caller that holds Fake's step mutex, or None
          call,     \* call[c]: where caller c is in its call
          calls,    \* calls of RunEffect so far, for the bound
          work,     \* work[k]: the result fn's work left behind, or None
          done,     \* done[k]: how many times fn did the work
          excused,  \* excused[k]: operator retries and probe errors so far
          told      \* told[k]: the outcomes callers were given

vars == <<row, mu, call, calls, work, done, excused, told>>

Statuses == {"", "intent", "committed", "failed", "needs_review"}
Settled == {"committed", "failed"}

Outcome(status, val) == [status |-> status, val |-> val]
Outcomes == {Outcome("committed", v) : v \in Vals} \cup {Outcome("failed", None)}

Pcs == {"claim", "insert", "read", "review", "probe", "attempt", "fn",
        "commit", "adopt"}
At(pc, k, out) == [pc |-> pc, key |-> k, out |-> out]
Idle == At("idle", None, None)
Busy == [pc : Pcs, key : Keys, out : Outcomes \cup {None}]

AtPc(c, pc) == call[c].pc = pc
OnKey(c, k) == ~AtPc(c, "idle") /\ call[c].key = k

Goto(c, pc) == call' = [call EXCEPT ![c] = At(pc, call[c].key, None)]
GotoWith(c, pc, o) == call' = [call EXCEPT ![c] = At(pc, call[c].key, o)]

(* ScheduleStep returns; Fake's deferred s.mu.Unlock runs. *)
Return(c) ==
    /\ call' = [call EXCEPT ![c] = Idle]
    /\ mu' = IF call[c].key \in Locked THEN [mu EXCEPT ![call[c].key] = None]
                                       ELSE mu

(* ... with an outcome of the step. *)
ReturnOutcome(c, o) ==
    /\ Return(c)
    /\ told' = [told EXCEPT ![call[c].key] = @ \cup {o}]

NewRow == [status |-> "", result |-> None, attempts |-> 0]

Init ==
    /\ row = [k \in Keys |-> NewRow]
    /\ mu = [k \in Keys |-> None]
    /\ call = [c \in Callers |-> Idle]
    /\ calls = 0
    /\ work = [k \in Keys |-> None]
    /\ done = [k \in Keys |-> 0]
    /\ excused = [k \in Keys |-> 0]
    /\ told = [k \in Keys |-> {}]

-----------------------------------------------------------------------------
(* Runtime.RunEffect: Warrant is asked first; a denial returns before         *)
(* ScheduleStep and leaves the key alone.  Ledger receipts are best effort.   *)
RunEffect(c, k) ==
    /\ AtPc(c, "idle") /\ c \in Clients[k] /\ calls < MaxCalls
    /\ calls' = calls + 1
    /\ \E allow \in BOOLEAN :
          call' = [call EXCEPT ![c] = IF allow THEN At("claim", k, None) ELSE Idle]
    /\ UNCHANGED <<row, mu, work, done, excused, told>>

(* Mutant of Reconciles: an attempt that crashed is taken for a fresh step. *)
NeverReconciles(r) == FALSE

(* An intent whose attempts were bumped is in doubt. *)
Reconciles(r) == r.status = "intent" /\ r.attempts > 0

(* Mutant of ClaimPc: a row found 'intent' is returned like a settled one. *)
ClaimPcReads(c, k) ==
    IF row[k].status # "" THEN "read"
    ELSE IF k \in Locked THEN "attempt" ELSE "insert"

(* What ScheduleStep does next, decided under the row lock or the mutex. *)
ClaimPc(c, k) ==
    CASE row[k].status = "" -> IF k \in Locked THEN "attempt" ELSE "insert"
      [] row[k].status \in Settled -> "read"
      [] Reconciles(row[k]) -> IF c \in Probing THEN "probe" ELSE "review"
      [] OTHER -> "attempt"

(* Mutant of Enter: Fake's mutex is not taken. *)
EnterUnlocked(c, k) == UNCHANGED mu

(* Fake locks the step for the whole call; Postgres's SELECT ... FOR UPDATE   *)
(* lasts as long as this step and finds nothing to lock when there is no row. *)
Enter(c, k) ==
    IF k \in Locked THEN mu[k] = None /\ mu' = [mu EXCEPT ![k] = c]
                    ELSE UNCHANGED mu

Claim(c) ==
    /\ AtPc(c, "claim")
    /\ row[call[c].key].status # "needs_review"
    /\ Enter(c, call[c].key)
    /\ Goto(c, ClaimPc(c, call[c].key))
    /\ UNCHANGED <<row, calls, work, done, excused, told>>

(* The step waits for an operator: ErrNeedsReview. *)
ClaimReview(c) ==
    /\ AtPc(c, "claim")
    /\ row[call[c].key].status = "needs_review"
    /\ mu[call[c].key] = None
    /\ Return(c)
    /\ UNCHANGED <<row, calls, work, done, excused, told>>

(* Postgres inserts the row it did not find; if another caller has inserted   *)
(* it since, the unique key refuses and ScheduleStep returns that error.      *)
Insert(c) ==
    /\ AtPc(c, "insert")
    /\ LET k == call[c].key IN
       IF row[k].status = ""
       THEN /\ row' = [row EXCEPT ![k].status = "intent"]
            /\ Goto(c, "attempt")
            /\ UNCHANGED mu
       ELSE Return(c) /\ UNCHANGED row
    /\ UNCHANGED <<calls, work, done, excused, told>>

(* A settled step: the recorded outcome is read and returned. *)
Read(c) ==
    /\ AtPc(c, "read")
    /\ LET r == row[call[c].key] IN ReturnOutcome(c, Outcome(r.status, r.result))
    /\ UNCHANGED <<row, calls, work, done, excused>>

(* In doubt and no probe: the step goes to an operator, if it is still        *)
(* 'intent'; the caller gets ErrNeedsReview either way.                       *)
MarkNeedsReview(c) ==
    /\ AtPc(c, "review")
    /\ row' = [row EXCEPT ![call[c].key].status =
                  IF @ = "intent" THEN "needs_review" ELSE @]
    /\ Return(c)
    /\ UNCHANGED <<calls, work, done, excused, told>>

(* In doubt and a probe: it finds the work, or not, or cannot tell. *)
ProbeHit(c) ==
    /\ AtPc(c, "probe") /\ work[call[c].key] # None
    /\ GotoWith(c, "adopt", Outcome("committed", work[call[c].key]))
    /\ UNCHANGED <<row, mu, calls, work, done, excused, told>>

ProbeMiss(c) ==
    /\ AtPc(c, "probe") /\ work[call[c].key] = None
    /\ Goto(c, "attempt")
    /\ UNCHANGED <<row, mu, calls, work, done, excused, told>>

ProbeError(c) ==
    /\ AtPc(c, "probe")
    /\ Goto(c, "attempt")
    /\ excused' = [excused EXCEPT ![call[c].key] = @ + 1]
    /\ UNCHANGED <<row, mu, calls, work, done, told>>

(* The attempt is counted before fn is called.  Postgres's UPDATE leaves the  *)
(* status alone, whatever it has become; Fake sets it.                        *)
Attempted(r) ==
    [status |-> IF r.status = "" THEN "intent" ELSE r.status,
     result |-> r.result, attempts |-> r.attempts + 1]

Attempt(c) ==
    /\ AtPc(c, "attempt")
    /\ row' = [row EXCEPT ![call[c].key] = Attempted(@)]
    /\ Goto(c, "fn")
    /\ UNCHANGED <<mu, calls, work, done, excused, told>>

(* fn's outcomes: it works, it reports an error, or the process dies in it    *)
(* (ErrSimulatedCrash) with the work done or not.                             *)
Works(k, v) ==
    /\ work' = [work EXCEPT ![k] = v]
    /\ done' = [done EXCEPT ![k] = @ + 1]

FnSucceeds(c) ==
    /\ AtPc(c, "fn")
    /\ \E v \in Vals : /\ Works(call[c].key, v)
                       /\ GotoWith(c, "commit", Outcome("committed", v))
    /\ UNCHANGED <<row, mu, calls, excused, told>>

FnFails(c) ==
    /\ AtPc(c, "fn")
    /\ GotoWith(c, "commit", Outcome("failed", None))
    /\ UNCHANGED <<row, mu, calls, work, done, excused, told>>

FnCrashes(c) ==
    /\ AtPc(c, "fn")
    /\ Return(c)
    /\ (\E v \in Vals : Works(call[c].key, v)) \/ UNCHANGED <<work, done>>
    /\ UNCHANGED <<row, calls, excused, told>>

(* Mutant of Recorded: the last outcome wins. *)
RecordedLast(r, o) == [r EXCEPT !.status = o.status, !.result = o.val]

(* commit writes only over 'intent'. *)
Recorded(r, o) ==
    IF r.status = "intent"
    THEN [r EXCEPT !.status = o.status, !.result = o.val] ELSE r

(* The outcome of fn, or of the probe, is recorded; the caller returns its    *)
(* own outcome whether or not the row took it.                                *)
Commit(c) ==
    /\ AtPc(c, "commit") \/ AtPc(c, "adopt")
    /\ row' = [row EXCEPT ![call[c].key] = Recorded(@, call[c].out)]
    /\ ReturnOutcome(c, call[c].out)
    /\ UNCHANGED <<calls, work, done, excused>>

(* A Postgres caller's process dies, or a statement of its call fails: the    *)
(* call ends with no outcome.                                                 *)
Abort(c) ==
    /\ ~AtPc(c, "idle") /\ ~AtPc(c, "fn") /\ call[c].key \notin Locked
    /\ Return(c)
    /\ UNCHANGED <<row, calls, work, done, excused, told>>

(* Resolve waits for Fake's mutex and only finds a row in needs_review. *)
Resolvable(k) == row[k].status = "needs_review" /\ mu[k] = None

ResolveRetry(k) ==
    /\ Resolvable(k) /\ excused[k] < MaxRetries
    /\ row' = [row EXCEPT ![k] =
                  [status |-> "intent", result |-> None, attempts |-> 0]]
    /\ excused' = [excused EXCEPT ![k] = @ + 1]
    /\ UNCHANGED <<mu, call, calls, work, done, told>>

ResolveOutcome(k) ==
    /\ Resolvable(k)
    /\ \E o \in Outcomes :
          row' = [row EXCEPT ![k].status = o.status, ![k].result = o.val]
    /\ UNCHANGED <<mu, call, calls, work, done, excused, told>>

-----------------------------------------------------------------------------
CallerNext(c) ==
    \/ \E k \in Keys : RunEffect(c, k)
    \/ Claim(c) \/ ClaimReview(c) \/ Insert(c) \/ Read(c) \/ MarkNeedsReview(c)
    \/ ProbeHit(c) \/ ProbeMiss(c) \/ ProbeError(c)
    \/ Attempt(c) \/ FnSucceeds(c) \/ FnFails(c) \/ FnCrashes(c)
    \/ Commit(c) \/ Abort(c)

Next ==
    \/ \E c \in Callers : CallerNext(c)
    \/ \E k \in Keys : ResolveRetry(k) \/ ResolveOutcome(k)

Spec == Init /\ [][Next]_vars

-----------------------------------------------------------------------------
(* The rows, the calls and the histories have their shape. *)
TypeOK ==
    /\ row \in [Keys -> [status : Statuses, result : Vals \cup {None},
                         attempts : Nat]]
    /\ mu \in [Keys -> Callers \cup {None}]
    /\ call \in [Callers -> Busy \cup {Idle}]
    /\ calls \in Nat
    /\ work \in [Keys -> Vals \cup {None}]
    /\ done \in [Keys -> Nat]
    /\ excused \in [Keys -> Nat]
    /\ told \in [Keys -> SUBSET Outcomes]

InFn(c, k) == OnKey(c, k) /\ AtPc(c, "fn")

(* "Only one attempt of a step's StepFunc may ever be in flight for a key at  *)
(* a time", concurrent calls with the same key included (engine.go:64-67).    *)
OneInFlight ==
    \A k \in Keys : \A c, d \in Callers : InFn(c, k) /\ InFn(d, k) => c = d

(* The keys whose calls do not overlap: Fake's, and those of one caller. *)
Serial == {k \in Keys : k \in Locked \/ Cardinality(Clients[k]) <= 1}

(* The work of a serial step is done once, and once more at most for every    *)
(* operator retry and every probe that could not answer: a crash in fn alone  *)
(* never repeats it (ScheduleStep's reconcile branch).                        *)
WorkOnce == \A k \in Serial : done[k] <= 1 + excused[k]

(* A recorded outcome never changes, whichever calls, probes and operators    *)
(* are still at work on the key (commit's and Resolve's WHERE clauses).       *)
OutcomeFinal ==
    [][\A k \in Keys : row[k].status \in Settled =>
          row'[k].status = row[k].status /\ row'[k].result = row[k].result]_vars

-----------------------------------------------------------------------------
(* Refinement of StepContract by the serial keys. *)
InFlight(c, k) == OnKey(c, k) /\ (AtPc(c, "fn") \/ AtPc(c, "commit"))

RunnerOf(k) ==
    IF \E c \in Callers : InFlight(c, k)
    THEN CHOOSE c \in Callers : InFlight(c, k) ELSE None

PhaseOf(k) ==
    CASE row[k].status \in Settled -> Outcome(row[k].status, row[k].result)
      [] row[k].status = "needs_review" -> Outcome("review", None)
      [] row[k].status \in {"", "intent"} ->
            IF RunnerOf(k) # None THEN Outcome("running", None)
            ELSE IF Reconciles(row[k]) THEN Outcome("doubt", None)
            ELSE Outcome("new", None)

C == INSTANCE StepContract WITH
        Keys <- Serial,
        phase <- [k \in Serial |-> PhaseOf(k)],
        runner <- [k \in Serial |-> RunnerOf(k)],
        told <- [k \in Serial |-> told[k]]

(* The calls of a serial key keep the Engine interface's contract: one fn in  *)
(* flight, a doubt settled by a probe or an operator only, and every caller   *)
(* told the recorded outcome (engine.go:62-89).                               *)
Contract == C!ContractSpec
=============================================================================
