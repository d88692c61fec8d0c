---------------------------- MODULE EngineProofs ----------------------------
(* Proofs about the Engine interface.  Steps (Engine), for every set of keys, *)
(* callers and results: the types, that a recorded outcome is final under any *)
(* concurrency, that Fake's mutex keeps one fn in flight, that the work of a  *)
(* serial key is done once, and that serial keys implement StepContract.      *)
(* Timers and signals (Waits), for any number of callers, signals, failures   *)
(* and clocks: timers ring on time, a signal is given once, first in first    *)
(* out.                                                                       *)
EXTENDS Engine, Waits, FiniteSetTheorems, WellFoundedInduction, TLAPS

(* A settled row holds an outcome that callers can be told. *)
RowsSettled ==
    \A k \in Keys : row[k].status \in Settled =>
        Outcome(row[k].status, row[k].result) \in Outcomes

(* A caller about to read finds a settled row; one about to record has an     *)
(* outcome.                                                                   *)
CallsReady ==
    \A c \in Callers :
        /\ AtPc(c, "read") => row[call[c].key].status \in Settled
        /\ AtPc(c, "commit") \/ AtPc(c, "adopt") => call[c].out \in Outcomes

(* Past the claim, a caller of a Fake key holds its mutex. *)
MutexHeld ==
    \A c \in Callers : \A k \in Locked :
        OnKey(c, k) /\ ~AtPc(c, "claim") => mu[k] = c

EngInv == TypeOK /\ RowsSettled /\ CallsReady /\ MutexHeld

-----------------------------------------------------------------------------
(* A step that records nothing new leaves a settled row settled the same way. *)
LEMMA Finality ==
    ASSUME EngInv, Next, NEW k \in Keys, row[k].status \in Settled
    PROVE  row'[k].status = row[k].status /\ row'[k].result = row[k].result
<1> USE EngineAssumption DEF EngInv, TypeOK, Settled
<1>1. ASSUME NEW c \in Callers, CallerNext(c)
      PROVE  row'[k].status = row[k].status /\ row'[k].result = row[k].result
  <2>1. CASE \E j \in Keys : RunEffect(c, j)
    BY <2>1 DEF RunEffect
  <2>2. CASE Insert(c)
    BY <2>2 DEF Insert, Goto, Return, AtPc
  <2>3. CASE MarkNeedsReview(c)
    BY <2>3 DEF MarkNeedsReview, AtPc
  <2>4. CASE Attempt(c)
    BY <2>4 DEF Attempt, Attempted, AtPc
  <2>5. CASE Commit(c)
    BY <2>5 DEF Commit, Recorded, AtPc
  <2>6. CASE \/ Claim(c) \/ ClaimReview(c) \/ Read(c) \/ ProbeHit(c)
             \/ ProbeMiss(c) \/ ProbeError(c) \/ FnSucceeds(c) \/ FnFails(c)
             \/ FnCrashes(c) \/ Abort(c)
    BY <2>6 DEF Claim, ClaimReview, Read, ProbeHit, ProbeMiss, ProbeError,
                FnSucceeds, FnFails, FnCrashes, Abort
  <2> QED BY <1>1, <2>1, <2>2, <2>3, <2>4, <2>5, <2>6 DEF CallerNext
<1>2. ASSUME NEW j \in Keys, ResolveRetry(j) \/ ResolveOutcome(j)
      PROVE  row'[k].status = row[k].status /\ row'[k].result = row[k].result
  BY <1>2 DEF ResolveRetry, ResolveOutcome, Resolvable
<1> QED BY <1>1, <1>2 DEF Next

-----------------------------------------------------------------------------
(* What an outcome is made of. *)
LEMMA OutcomeParts ==
    ASSUME NEW o \in Outcomes
    PROVE  /\ o.status \in Settled /\ o.val \in Vals \cup {None}
           /\ o = Outcome(o.status, o.val)
<1>1. CASE o = Outcome("failed", None)
  BY <1>1 DEF Outcome, Settled
<1>2. CASE \E v \in Vals : o = Outcome("committed", v)
  BY <1>2 DEF Outcome, Settled
<1> QED BY <1>1, <1>2 DEF Outcomes

(* A caller in a call is on a key. *)
LEMMA OnAKey ==
    ASSUME TypeOK, NEW c \in Callers, ~AtPc(c, "idle")
    PROVE  /\ call[c] = At(call[c].pc, call[c].key, call[c].out)
           /\ call[c].pc \in Pcs
           /\ call[c].key \in Keys
           /\ call[c].out \in Outcomes \cup {None}
BY DEF TypeOK, AtPc, Busy, Idle, At

(* The invariant holds at first. *)
LEMMA InitInv == Init => EngInv
<1> SUFFICES ASSUME Init PROVE EngInv
  OBVIOUS
<1> USE EngineAssumption DEF Init
<1>1. TypeOK
  BY DEF TypeOK, NewRow, Statuses, Busy
<1>2. RowsSettled /\ CallsReady /\ MutexHeld
  BY DEF RowsSettled, CallsReady, MutexHeld, NewRow, Settled, OnKey, AtPc, Idle, At
<1> QED BY <1>1, <1>2 DEF EngInv

(* A step keeps the types of the rows. *)
LEMMA RowsTyped ==
    ASSUME EngInv, Next
    PROVE  row' \in [Keys -> [status : Statuses, result : Vals \cup {None},
                              attempts : Nat]]
<1> USE EngineAssumption DEF EngInv
<1>0. row \in [Keys -> [status : Statuses, result : Vals \cup {None},
                        attempts : Nat]]
  BY DEF TypeOK
<1>1. ASSUME NEW c \in Callers, CallerNext(c), row' # row
      PROVE  row' \in [Keys -> [status : Statuses, result : Vals \cup {None},
                                attempts : Nat]]
  <2>1. CASE Insert(c)
    <3>1. call[c].key \in Keys
      BY <2>1, OnAKey DEF Insert, AtPc
    <3>2. row' = [row EXCEPT ![call[c].key] = [@ EXCEPT !.status = "intent"]]
      BY <1>1, <2>1 DEF Insert
    <3>3. \A r \in [status : Statuses, result : Vals \cup {None}, attempts : Nat] :
             [r EXCEPT !.status = "intent"] \in
                [status : Statuses, result : Vals \cup {None}, attempts : Nat]
      BY DEF Statuses
    <3> QED BY <1>0, <3>1, <3>2, <3>3
  <2>2. CASE MarkNeedsReview(c)
    <3>1. call[c].key \in Keys
      BY <2>2, OnAKey DEF MarkNeedsReview, AtPc
    <3> QED BY <1>0, <2>2, <3>1 DEF MarkNeedsReview, Statuses
  <2>3. CASE Attempt(c)
    <3>1. call[c].key \in Keys
      BY <2>3, OnAKey DEF Attempt, AtPc
    <3>2. Attempted(row[call[c].key]) \in
             [status : Statuses, result : Vals \cup {None}, attempts : Nat]
      <4> DEFINE r == row[call[c].key]
      <4>1. r \in [status : Statuses, result : Vals \cup {None}, attempts : Nat]
        BY <1>0, <3>1
      <4>2. (IF r.status = "" THEN "intent" ELSE r.status) \in Statuses
        BY <4>1 DEF Statuses
      <4>3. r.result \in Vals \cup {None} /\ r.attempts + 1 \in Nat
        BY <4>1
      <4> QED BY <4>2, <4>3 DEF Attempted
    <3> QED BY <1>0, <2>3, <3>1, <3>2 DEF Attempt
  <2>4. CASE Commit(c)
    <3>1. call[c].key \in Keys
      BY <2>4, OnAKey DEF Commit, AtPc
    <3>2. call[c].out \in Outcomes
      BY <2>4 DEF Commit, CallsReady
    <3>3. call[c].out.status \in Statuses /\ call[c].out.val \in Vals \cup {None}
      BY <3>2, OutcomeParts DEF Settled, Statuses
    <3> QED BY <1>0, <2>4, <3>1, <3>3 DEF Commit, Recorded
  <2> QED BY <1>1, <2>1, <2>2, <2>3, <2>4
          DEF CallerNext, RunEffect, Claim, ClaimReview, Read, ProbeHit,
              ProbeMiss, ProbeError, FnSucceeds, FnFails, FnCrashes, Abort
<1>2. ASSUME NEW k \in Keys, ResolveRetry(k) \/ ResolveOutcome(k)
      PROVE  row' \in [Keys -> [status : Statuses, result : Vals \cup {None},
                                attempts : Nat]]
  <2>1. CASE ResolveRetry(k)
    BY <1>0, <2>1 DEF ResolveRetry, Statuses
  <2>2. CASE ResolveOutcome(k)
    <3>1. PICK o \in Outcomes :
              row' = [row EXCEPT ![k].status = o.status, ![k].result = o.val]
      BY <2>2 DEF ResolveOutcome
    <3>2. o.status \in Statuses /\ o.val \in Vals \cup {None}
      BY OutcomeParts DEF Settled, Statuses
    <3> QED BY <1>0, <3>1, <3>2
  <2> QED BY <1>2, <2>1, <2>2
<1> QED BY <1>0, <1>1, <1>2 DEF Next

(* A step keeps the types of the calls. *)
LEMMA CallsTyped ==
    ASSUME EngInv, Next
    PROVE  call' \in [Callers -> Busy \cup {Idle}]
<1> USE EngineAssumption DEF EngInv
<1>0. call \in [Callers -> Busy \cup {Idle}]
  BY DEF TypeOK
<1>1. ASSUME NEW c \in Callers, NEW k \in Keys, RunEffect(c, k)
      PROVE  call' \in [Callers -> Busy \cup {Idle}]
  <2>1. At("claim", k, None) \in Busy
    BY DEF At, Busy, Pcs
  <2> QED BY <1>0, <1>1, <2>1 DEF RunEffect
<1>2. ASSUME NEW c \in Callers, NEW pc \in Pcs, NEW o \in Outcomes \cup {None},
             ~AtPc(c, "idle"), call' = [call EXCEPT ![c] = At(pc, call[c].key, o)]
      PROVE  call' \in [Callers -> Busy \cup {Idle}]
  <2>1. At(pc, call[c].key, o) \in Busy
    BY <1>2, OnAKey DEF At, Busy
  <2> QED BY <1>0, <1>2, <2>1
<1>3. ASSUME NEW c \in Callers, Claim(c) \/ ProbeMiss(c) \/ ProbeError(c) \/ Attempt(c)
      PROVE  call' \in [Callers -> Busy \cup {Idle}]
  <2>1. \E pc \in Pcs : Goto(c, pc)
    BY <1>3 DEF Claim, ClaimPc, ProbeMiss, ProbeError, Attempt, Pcs
  <2>2. ~AtPc(c, "idle")
    BY <1>3 DEF Claim, ProbeMiss, ProbeError, Attempt, AtPc
  <2> QED BY <1>2, <2>1, <2>2 DEF Goto
<1>4. ASSUME NEW c \in Callers, ProbeHit(c) \/ FnSucceeds(c) \/ FnFails(c)
      PROVE  call' \in [Callers -> Busy \cup {Idle}]
  <2>1. ~AtPc(c, "idle")
    BY <1>4 DEF ProbeHit, FnSucceeds, FnFails, AtPc
  <2>2. call[c].key \in Keys /\ work \in [Keys -> Vals \cup {None}]
    BY <2>1, OnAKey DEF TypeOK
  <2>3. \E pc \in Pcs : \E o \in Outcomes : GotoWith(c, pc, o)
    BY <1>4, <2>2 DEF ProbeHit, FnSucceeds, FnFails, Outcomes, Pcs
  <2> QED BY <1>2, <2>1, <2>3 DEF GotoWith
<1>5. ASSUME NEW c \in Callers, Return(c)
      PROVE  call' \in [Callers -> Busy \cup {Idle}]
  BY <1>0, <1>5 DEF Return
<1>6. ASSUME NEW c \in Callers, Insert(c)
      PROVE  call' \in [Callers -> Busy \cup {Idle}]
  <2>1. Goto(c, "attempt") \/ Return(c)
    BY <1>6 DEF Insert
  <2>2. ~AtPc(c, "idle") /\ "attempt" \in Pcs
    BY <1>6 DEF Insert, AtPc, Pcs
  <2> QED BY <1>2, <1>5, <2>1, <2>2 DEF Goto
<1>7. ASSUME NEW c \in Callers, CallerNext(c)
      PROVE  call' \in [Callers -> Busy \cup {Idle}]
  BY <1>1, <1>3, <1>4, <1>5, <1>6, <1>7
     DEF CallerNext, ClaimReview, Read, MarkNeedsReview, FnCrashes, Commit,
         Abort, ReturnOutcome
<1>8. ASSUME NEW k \in Keys, ResolveRetry(k) \/ ResolveOutcome(k)
      PROVE  call' \in [Callers -> Busy \cup {Idle}]
  BY <1>0, <1>8 DEF ResolveRetry, ResolveOutcome
<1> QED BY <1>7, <1>8 DEF Next

(* A step keeps every type. *)
LEMMA StepTypeOK ==
    ASSUME EngInv, Next
    PROVE  TypeOK'
<1> USE EngineAssumption DEF EngInv
<1>1. mu' \in [Keys -> Callers \cup {None}]
  <2>0. mu \in [Keys -> Callers \cup {None}]
    BY DEF TypeOK
  <2>1. ASSUME NEW c \in Callers, Return(c) PROVE mu' \in [Keys -> Callers \cup {None}]
    BY <2>0, <2>1 DEF Return
  <2>2. ASSUME NEW c \in Callers, Claim(c) PROVE mu' \in [Keys -> Callers \cup {None}]
    BY <2>0, <2>2 DEF Claim, Enter
  <2> QED BY <2>0, <2>1, <2>2
          DEF Next, CallerNext, RunEffect, ClaimReview, Insert, Read,
              MarkNeedsReview, ProbeHit, ProbeMiss, ProbeError, Attempt,
              FnSucceeds, FnFails, FnCrashes, Commit, Abort, ReturnOutcome,
              ResolveRetry, ResolveOutcome
<1>2. calls' \in Nat /\ excused' \in [Keys -> Nat]
  <2>0. calls \in Nat /\ excused \in [Keys -> Nat]
    BY DEF TypeOK
  <2>1. ASSUME NEW c \in Callers, NEW k \in Keys, RunEffect(c, k)
        PROVE  calls' \in Nat /\ excused' \in [Keys -> Nat]
    BY <2>0, <2>1 DEF RunEffect
  <2>2. ASSUME NEW c \in Callers, ProbeError(c)
        PROVE  calls' \in Nat /\ excused' \in [Keys -> Nat]
    <3>1. call[c].key \in Keys
      BY <2>2, OnAKey DEF ProbeError, AtPc
    <3> QED BY <2>0, <2>2, <3>1 DEF ProbeError
  <2>3. ASSUME NEW k \in Keys, ResolveRetry(k)
        PROVE  calls' \in Nat /\ excused' \in [Keys -> Nat]
    BY <2>0, <2>3 DEF ResolveRetry
  <2> QED BY <2>0, <2>1, <2>2, <2>3
          DEF Next, CallerNext, Claim, ClaimReview, Insert, Read,
              MarkNeedsReview, ProbeHit, ProbeMiss, Attempt, FnSucceeds,
              FnFails, FnCrashes, Commit, Abort, ResolveOutcome
<1>3. work' \in [Keys -> Vals \cup {None}] /\ done' \in [Keys -> Nat]
  <2>0. work \in [Keys -> Vals \cup {None}] /\ done \in [Keys -> Nat]
    BY DEF TypeOK
  <2>1. ASSUME NEW k \in Keys, NEW v \in Vals, Works(k, v)
        PROVE  work' \in [Keys -> Vals \cup {None}] /\ done' \in [Keys -> Nat]
    BY <2>0, <2>1 DEF Works
  <2>2. ASSUME NEW c \in Callers, FnSucceeds(c) \/ FnCrashes(c)
        PROVE  work' \in [Keys -> Vals \cup {None}] /\ done' \in [Keys -> Nat]
    <3>1. call[c].key \in Keys
      BY <2>2, OnAKey DEF FnSucceeds, FnCrashes, AtPc
    <3> QED BY <2>0, <2>1, <2>2, <3>1 DEF FnSucceeds, FnCrashes
  <2> QED BY <2>0, <2>2
          DEF Next, CallerNext, RunEffect, Claim, ClaimReview, Insert, Read,
              MarkNeedsReview, ProbeHit, ProbeMiss, ProbeError, Attempt,
              FnFails, Commit, Abort, ResolveRetry, ResolveOutcome
<1>4. told' \in [Keys -> SUBSET Outcomes]
  <2>0. told \in [Keys -> SUBSET Outcomes]
    BY DEF TypeOK
  <2>1. ASSUME NEW c \in Callers, NEW o \in Outcomes, ReturnOutcome(c, o)
        PROVE  told' \in [Keys -> SUBSET Outcomes]
    BY <2>0, <2>1 DEF ReturnOutcome
  <2>2. ASSUME NEW c \in Callers, Read(c) PROVE told' \in [Keys -> SUBSET Outcomes]
    <3>1. call[c].key \in Keys /\ row[call[c].key].status \in Settled
      BY <2>2, OnAKey DEF Read, AtPc, CallsReady
    <3>2. Outcome(row[call[c].key].status, row[call[c].key].result) \in Outcomes
      BY <3>1 DEF RowsSettled
    <3> QED BY <2>1, <2>2, <3>2 DEF Read
  <2>3. ASSUME NEW c \in Callers, Commit(c) PROVE told' \in [Keys -> SUBSET Outcomes]
    <3>1. call[c].out \in Outcomes
      BY <2>3 DEF Commit, CallsReady
    <3> QED BY <2>1, <2>3, <3>1 DEF Commit
  <2> QED BY <2>0, <2>2, <2>3
          DEF Next, CallerNext, RunEffect, Claim, ClaimReview, Insert,
              MarkNeedsReview, ProbeHit, ProbeMiss, ProbeError, Attempt,
              FnSucceeds, FnFails, FnCrashes, Abort, ResolveRetry, ResolveOutcome
<1> QED BY <1>1, <1>2, <1>3, <1>4, RowsTyped, CallsTyped DEF TypeOK

(* A step settles rows with outcomes. *)
LEMMA StepRowsSettled ==
    ASSUME EngInv, Next
    PROVE  RowsSettled'
<1> USE EngineAssumption DEF EngInv
<1> SUFFICES ASSUME NEW k \in Keys, row'[k].status \in Settled
             PROVE  Outcome(row'[k].status, row'[k].result) \in Outcomes
  BY DEF RowsSettled
<1>1. CASE row[k].status \in Settled
  BY <1>1, Finality DEF RowsSettled
<1>2. CASE row[k].status \notin Settled
  <2>1. ASSUME NEW c \in Callers, CallerNext(c)
        PROVE  Outcome(row'[k].status, row'[k].result) \in Outcomes
    <3>1. CASE Commit(c)
      <4>1. call[c].out \in Outcomes /\ call[c].key \in Keys
        BY <3>1, OnAKey DEF Commit, CallsReady, AtPc
      <4>2. row'[k].status = call[c].out.status /\ row'[k].result = call[c].out.val
        BY <1>2, <3>1, <4>1 DEF Commit, Recorded, TypeOK
      <4> QED BY <4>1, <4>2, OutcomeParts
    <3>2. CASE Insert(c) \/ MarkNeedsReview(c) \/ Attempt(c)
      <4>1. call[c].key \in Keys
        BY <3>2, OnAKey DEF Insert, MarkNeedsReview, Attempt, AtPc
      <4>2. CASE Insert(c)
        <5>1. row' = row \/ row' = [row EXCEPT ![call[c].key].status = "intent"]
          BY <4>2 DEF Insert
        <5>2. row'[k].status \notin Settled
          BY <1>2, <4>1, <5>1 DEF TypeOK, Settled
        <5> QED BY <5>2
      <4>3. CASE MarkNeedsReview(c)
        BY <1>2, <4>1, <4>3 DEF MarkNeedsReview, TypeOK, Settled
      <4>4. CASE Attempt(c)
        BY <1>2, <4>1, <4>4 DEF Attempt, Attempted, TypeOK, Settled
      <4> QED BY <3>2, <4>2, <4>3, <4>4
    <3>3. CASE ~(Commit(c) \/ Insert(c) \/ MarkNeedsReview(c) \/ Attempt(c))
      BY <1>2, <2>1, <3>3
         DEF CallerNext, RunEffect, Claim, ClaimReview, Read, ProbeHit,
             ProbeMiss, ProbeError, FnSucceeds, FnFails, FnCrashes, Abort
    <3> QED BY <3>1, <3>2, <3>3
  <2>2. ASSUME NEW j \in Keys, ResolveRetry(j)
        PROVE  FALSE
    BY <1>2, <2>2 DEF ResolveRetry, TypeOK, Settled
  <2>3. ASSUME NEW j \in Keys, ResolveOutcome(j)
        PROVE  Outcome(row'[k].status, row'[k].result) \in Outcomes
    <3>1. PICK o \in Outcomes :
              row' = [row EXCEPT ![j].status = o.status, ![j].result = o.val]
      BY <2>3 DEF ResolveOutcome
    <3>2. row'[k].status = o.status /\ row'[k].result = o.val
      BY <1>2, <3>1 DEF TypeOK
    <3> QED BY <3>2, OutcomeParts
  <2> QED BY <2>1, <2>2, <2>3 DEF Next
<1> QED BY <1>1, <1>2

(* A step leaves every caller's call as the row and the mutex allow. *)
LEMMA StepCallsReady ==
    ASSUME EngInv, Next
    PROVE  CallsReady'
<1> USE EngineAssumption DEF EngInv
<1> SUFFICES ASSUME NEW d \in Callers
             PROVE  /\ call'[d].pc = "read" => row'[call'[d].key].status \in Settled
                    /\ call'[d].pc \in {"commit", "adopt"} => call'[d].out \in Outcomes
  BY DEF CallsReady, AtPc
<1>0. call \in [Callers -> Busy \cup {Idle}] /\ row \in [Keys -> [status : Statuses,
           result : Vals \cup {None}, attempts : Nat]] /\ work \in [Keys -> Vals \cup {None}]
  BY DEF TypeOK
<1>1. CASE call'[d] = call[d]
  <2>1. call[d].pc = "read" => call[d].key \in Keys /\ row[call[d].key].status \in Settled
    BY OnAKey DEF CallsReady, AtPc
  <2> QED BY <1>1, <2>1, Finality DEF CallsReady, AtPc
<1>2. ASSUME call'[d] # call[d], NEW c \in Callers, CallerNext(c)
      PROVE  /\ call'[d].pc = "read" => row'[call'[d].key].status \in Settled
             /\ call'[d].pc \in {"commit", "adopt"} => call'[d].out \in Outcomes
  <2>1. CASE \E k \in Keys : RunEffect(c, k)
    BY <1>0, <1>2, <2>1 DEF RunEffect, At, Idle
  <2>2. CASE Return(c)
    BY <1>0, <1>2, <2>2 DEF Return, At, Idle
  <2>3. CASE Claim(c)
    <3>1. c = d /\ call'[d] = At(ClaimPc(c, call[c].key), call[c].key, None)
      BY <1>0, <1>2, <2>3 DEF Claim, Goto
    <3>2. row' = row /\ ClaimPc(c, call[c].key) \notin {"commit", "adopt"}
      BY <2>3 DEF Claim, ClaimPc
    <3>3. ClaimPc(c, call[c].key) = "read" => row[call[c].key].status \in Settled
      BY DEF ClaimPc
    <3> QED BY <3>1, <3>2, <3>3 DEF At
  <2>4. CASE Insert(c) \/ ProbeMiss(c) \/ ProbeError(c) \/ Attempt(c)
    <3>1. Goto(c, "attempt") \/ Goto(c, "fn") \/ Return(c)
      BY <2>4 DEF Insert, ProbeMiss, ProbeError, Attempt
    <3> QED BY <1>0, <1>2, <2>2, <3>1 DEF Goto, At
  <2>5. CASE ProbeHit(c) \/ FnSucceeds(c) \/ FnFails(c)
    <3>1. call[c].key \in Keys
      BY <2>5, OnAKey DEF ProbeHit, FnSucceeds, FnFails, AtPc
    <3>2. PICK pc \in {"adopt", "commit"}, o \in Outcomes : GotoWith(c, pc, o)
      BY <1>0, <2>5, <3>1 DEF ProbeHit, FnSucceeds, FnFails, Outcomes
    <3> QED BY <1>0, <1>2, <3>2 DEF GotoWith, At
  <2> QED BY <1>2, <2>1, <2>2, <2>3, <2>4, <2>5
          DEF CallerNext, ClaimReview, Read, MarkNeedsReview, FnCrashes,
              Commit, Abort, ReturnOutcome
<1>3. ASSUME NEW k \in Keys, ResolveRetry(k) \/ ResolveOutcome(k)
      PROVE  call' = call
  BY <1>3 DEF ResolveRetry, ResolveOutcome
<1> QED BY <1>1, <1>2, <1>3 DEF Next

(* A step keeps Fake's mutex with the caller that works under it. *)
LEMMA StepMutexHeld ==
    ASSUME EngInv, Next
    PROVE  MutexHeld'
<1> USE EngineAssumption DEF EngInv
<1> SUFFICES ASSUME NEW d \in Callers, NEW k \in Locked, call'[d].pc # "idle",
                    call'[d].key = k, call'[d].pc # "claim"
             PROVE  mu'[k] = d
  BY DEF MutexHeld, OnKey, AtPc
<1>0. call \in [Callers -> Busy \cup {Idle}] /\ mu \in [Keys -> Callers \cup {None}]
  BY DEF TypeOK
<1>a. call[d].pc # "idle" /\ call[d].key = k /\ call[d].pc # "claim" => mu[k] = d
  BY DEF MutexHeld, OnKey, AtPc
<1>1. ASSUME NEW c \in Callers, Return(c), ~AtPc(c, "idle"),
             AtPc(c, "claim") => mu[call[c].key] = None
      PROVE  mu'[k] = d
  <2>1. d # c /\ call'[d] = call[d]
    BY <1>0, <1>1 DEF Return, Idle, At
  <2>2. mu[k] = d
    BY <1>a, <2>1
  <2>3. CASE call[c].key = k
    BY <1>1, <2>1, <2>2, <2>3 DEF MutexHeld, OnKey, AtPc
  <2>4. CASE call[c].key # k
    BY <1>0, <1>1, <2>2, <2>4 DEF Return
  <2> QED BY <2>3, <2>4
<1>2. ASSUME NEW c \in Callers, CallerNext(c)
      PROVE  mu'[k] = d
  <2>1. CASE \E j \in Keys : RunEffect(c, j)
    BY <1>0, <1>a, <2>1 DEF RunEffect, At, Idle
  <2>2. CASE Claim(c)
    BY <1>0, <1>a, <2>2 DEF Claim, Enter, Goto, At, AtPc
  <2>3. CASE ProbeHit(c) \/ ProbeMiss(c) \/ ProbeError(c) \/ Attempt(c)
             \/ FnSucceeds(c) \/ FnFails(c)
    BY <1>0, <1>a, <2>3 DEF ProbeHit, ProbeMiss, ProbeError, Attempt,
                FnSucceeds, FnFails, Goto, GotoWith, At, AtPc
  <2>4. CASE Insert(c)
    <3>1. CASE Return(c)
      BY <1>1, <2>4, <3>1 DEF Insert, AtPc
    <3>2. CASE ~Return(c)
      <4>1. Goto(c, "attempt") /\ mu' = mu /\ call[c].pc = "insert"
        BY <2>4, <3>2 DEF Insert, AtPc
      <4> QED BY <1>0, <1>a, <4>1 DEF Goto, At
    <3> QED BY <3>1, <3>2
  <2>5. CASE ClaimReview(c) \/ Read(c) \/ MarkNeedsReview(c) \/ FnCrashes(c)
             \/ Commit(c)
    BY <1>1, <2>5 DEF ClaimReview, Read, MarkNeedsReview, FnCrashes, Commit,
                ReturnOutcome, AtPc
  <2>6. CASE Abort(c)
    BY <1>0, <1>a, <2>6 DEF Abort, Return, Idle, At
  <2> QED BY <1>2, <2>1, <2>2, <2>3, <2>4, <2>5, <2>6 DEF CallerNext
<1>3. ASSUME NEW j \in Keys, ResolveRetry(j) \/ ResolveOutcome(j)
      PROVE  mu'[k] = d
  BY <1>a, <1>3 DEF ResolveRetry, ResolveOutcome
<1> QED BY <1>2, <1>3 DEF Next

-----------------------------------------------------------------------------
(* A step that changes nothing keeps the invariant. *)
LEMMA Stutter ==
    ASSUME EngInv, UNCHANGED vars
    PROVE  EngInv'
BY DEF EngInv, TypeOK, RowsSettled, CallsReady, MutexHeld, OnKey, AtPc, vars

(* The inductive invariant. *)
THEOREM EngineInvariant == Spec => []EngInv
<1>1. EngInv /\ [Next]_vars => EngInv'
  BY StepTypeOK, StepRowsSettled, StepCallsReady, StepMutexHeld, Stutter DEF EngInv
<1> QED BY <1>1, InitInv, PTL DEF Spec

(* Every reachable state of either engine is well typed; in particular no     *)
(* caller is ever told anything but an outcome (ScheduleStep's returns).      *)
THEOREM EngineTypes == Spec => []TypeOK
<1>1. EngInv => TypeOK
  BY DEF EngInv
<1> QED BY <1>1, EngineInvariant, PTL

(* A recorded outcome never changes, for any number of callers, crashes and   *)
(* operators: commit and Resolve write where their WHERE clause allows.       *)
THEOREM OutcomesStay == Spec => OutcomeFinal
<1>1. EngInv /\ [Next]_vars =>
         [\A k \in Keys : row[k].status \in Settled =>
             row'[k].status = row[k].status /\ row'[k].result = row[k].result]_vars
  BY Finality
<1> QED BY <1>1, EngineInvariant, PTL DEF Spec, OutcomeFinal

(* Fake keeps the promise of engine.go:64-67: when every key is Fake's, one   *)
(* fn is in flight for a key whatever the number of callers.                  *)
THEOREM FakeOneInFlight == Locked = Keys /\ Spec => []OneInFlight
<1> SUFFICES ASSUME Locked = Keys PROVE Spec => []OneInFlight
  OBVIOUS
<1>1. EngInv => OneInFlight
  BY DEF EngInv, MutexHeld, OneInFlight, InFn, OnKey, AtPc
<1> QED BY <1>1, EngineInvariant, PTL

-----------------------------------------------------------------------------
(* Serial keys. *)

(* A caller calls with its own keys. *)
ClientsOnly == \A c \in Callers : ~AtPc(c, "idle") => c \in Clients[call[c].key]

(* Past the claim. *)
Past(c, k) == OnKey(c, k) /\ ~AtPc(c, "claim")

(* What a caller that is past the claim knows of a serial key: the row is as  *)
(* its claim left it, and before fn there is an excuse for each time the work *)
(* was done.                                                                  *)
Stage(c, k) ==
    /\ AtPc(c, "insert") => row[k].status = ""
    /\ AtPc(c, "attempt") => /\ row[k].status \in {"", "intent"}
                             /\ done[k] <= excused[k]
                             /\ Reconciles(row[k]) => c \in Probing
    /\ AtPc(c, "fn") => done[k] <= excused[k]
    /\ call[c].pc \in {"fn", "commit", "probe", "review", "adopt"} => Reconciles(row[k])
    /\ AtPc(c, "adopt") => call[c].out.status = "committed"
    /\ AtPc(c, "probe") => c \in Probing

(* The work of a key, against its excuses. *)
Counts(k) ==
    /\ done[k] <= 1 + excused[k]
    /\ work[k] = None => done[k] = 0
    /\ row[k].status = "" => row[k].attempts = 0
    /\ row[k].status = "" \/ (row[k].status = "intent" /\ ~Reconciles(row[k])) =>
          done[k] <= excused[k]

SerialInv ==
    \A k \in Serial : Counts(k) /\ \A c \in Callers : OnKey(c, k) => Stage(c, k)

SerialEngInv == EngInv /\ ClientsOnly /\ SerialInv

(* Two members of a set of at most one are one. *)
LEMMA AtMostOne ==
    ASSUME NEW S, IsFiniteSet(S), Cardinality(S) <= 1, NEW x \in S, NEW y \in S
    PROVE  x = y
<1> SUFFICES ASSUME x # y PROVE FALSE
  OBVIOUS
<1>1. IsFiniteSet({x}) /\ Cardinality({x}) = 1
  BY FS_Singleton
<1>2. Cardinality({x} \cup {y}) = 2
  <2>1. y \notin {x}
    OBVIOUS
  <2>2. Cardinality({x} \cup {y}) = Cardinality({x}) + 1
    BY <1>1, <2>1, FS_AddElement
  <2> QED BY <1>1, <2>2
<1>3. {x} \cup {y} \in SUBSET S
  OBVIOUS
<1>4. Cardinality({x} \cup {y}) <= Cardinality(S) /\ Cardinality(S) \in Nat
  BY <1>3, FS_Subset, FS_CardinalityType
<1> QED BY <1>2, <1>4

(* One caller at most is past the claim of a serial key. *)
LEMMA Alone ==
    ASSUME EngInv, ClientsOnly, NEW k \in Serial, NEW c \in Callers, NEW d \in Callers,
           Past(c, k), Past(d, k)
    PROVE  c = d
<1> USE EngineAssumption
<1>1. CASE k \in Locked
  BY <1>1 DEF EngInv, MutexHeld, Past
<1>2. CASE Cardinality(Clients[k]) <= 1
  <2>1. c \in Clients[k] /\ d \in Clients[k]
    BY DEF ClientsOnly, Past, OnKey
  <2>2. k \in Keys /\ IsFiniteSet(Clients[k])
    BY DEF Serial
  <2> QED BY <1>2, <2>1, <2>2, AtMostOne
<1> QED BY <1>1, <1>2 DEF Serial

(* A caller's step leaves the other callers' calls alone. *)
LEMMA OthersCalls ==
    ASSUME TypeOK, NEW c \in Callers, CallerNext(c), NEW d \in Callers, d # c
    PROVE  call'[d] = call[d]
<1>0. call \in [Callers -> Busy \cup {Idle}]
  BY DEF TypeOK
<1> QED BY <1>0 DEF CallerNext, RunEffect, Claim, ClaimReview, Insert, Read,
              MarkNeedsReview, ProbeHit, ProbeMiss, ProbeError, Attempt, FnSucceeds,
              FnFails, FnCrashes, Commit, Abort, ReturnOutcome, Return, Goto, GotoWith

(* A caller in a call stays on its key until it returns. *)
LEMMA KeyKept ==
    ASSUME TypeOK, NEW c \in Callers, CallerNext(c), ~AtPc(c, "idle")
    PROVE  call'[c] = Idle \/ call'[c].key = call[c].key
<1>0. call \in [Callers -> Busy \cup {Idle}]
  BY DEF TypeOK
<1>1. ~\E k \in Keys : RunEffect(c, k)
  BY DEF RunEffect
<1>2. \/ Return(c)
      \/ \E pc \in Pcs : Goto(c, pc) \/ \E o \in Outcomes \cup {None} : GotoWith(c, pc, o)
      \/ ProbeHit(c)
  BY <1>1 DEF CallerNext, Claim, ClaimPc, ClaimReview, Insert, Read, MarkNeedsReview,
              ProbeMiss, ProbeError, Attempt, FnSucceeds, FnFails, FnCrashes,
              Commit, Abort, ReturnOutcome, Outcomes, Pcs
<1>3. CASE Return(c)
  BY <1>0, <1>3 DEF Return
<1>4. CASE ProbeHit(c)
  BY <1>0, <1>4 DEF ProbeHit, GotoWith, At
<1> QED BY <1>0, <1>2, <1>3, <1>4 DEF Goto, GotoWith, At

(* A caller's step leaves the other keys alone. *)
LEMMA OtherKeys ==
    ASSUME TypeOK, NEW c \in Callers, CallerNext(c), NEW k \in Keys, ~OnKey(c, k)
    PROVE  /\ row'[k] = row[k] /\ work'[k] = work[k] /\ done'[k] = done[k]
           /\ excused'[k] = excused[k] /\ told'[k] = told[k]
<1>1. CASE AtPc(c, "idle")
  BY <1>1 DEF CallerNext, RunEffect, Claim, ClaimReview, Insert, Read,
            MarkNeedsReview, ProbeHit, ProbeMiss, ProbeError, Attempt, FnSucceeds,
            FnFails, FnCrashes, Commit, Abort, AtPc
<1>2. CASE call[c].key # k
  BY <1>2 DEF CallerNext, RunEffect, Claim, ClaimReview, Insert, Read,
            MarkNeedsReview, ProbeHit, ProbeMiss, ProbeError, Attempt, FnSucceeds,
            FnFails, FnCrashes, Commit, Abort, ReturnOutcome, Works, TypeOK
<1> QED BY <1>1, <1>2 DEF OnKey

LEMMA StepClientsOnly ==
    ASSUME EngInv, ClientsOnly, Next
    PROVE  ClientsOnly'
<1> SUFFICES ASSUME NEW d \in Callers, call'[d].pc # "idle"
             PROVE  d \in Clients[call'[d].key]
  BY DEF ClientsOnly, AtPc
<1>0. call \in [Callers -> Busy \cup {Idle}]
  BY DEF EngInv, TypeOK
<1>1. call[d].pc # "idle" => d \in Clients[call[d].key]
  BY DEF ClientsOnly, AtPc
<1>2. ASSUME NEW c \in Callers, CallerNext(c)
      PROVE  d \in Clients[call'[d].key]
  <2>1. CASE c # d
    BY <1>1, <1>2, <2>1, OthersCalls DEF EngInv
  <2>2. CASE c = d /\ AtPc(c, "idle")
    <3>1. PICK k \in Keys : RunEffect(c, k)
      BY <1>2, <2>2 DEF CallerNext, Claim, ClaimReview, Insert, Read,
            MarkNeedsReview, ProbeHit, ProbeMiss, ProbeError, Attempt, FnSucceeds,
            FnFails, FnCrashes, Commit, Abort, AtPc
    <3> QED BY <1>0, <2>2, <3>1 DEF RunEffect, At, Idle
  <2>3. CASE c = d /\ ~AtPc(c, "idle")
    BY <1>1, <1>2, <2>3, KeyKept DEF EngInv, AtPc, Idle, At
  <2> QED BY <2>1, <2>2, <2>3
<1>3. ASSUME NEW k \in Keys, ResolveRetry(k) \/ ResolveOutcome(k)
      PROVE  call' = call
  BY <1>3 DEF ResolveRetry, ResolveOutcome
<1> QED BY <1>1, <1>2, <1>3 DEF Next

(* The caller that steps on a serial key is at its stage afterwards, and the  *)
(* key's work is still counted.                                               *)
LEMMA SerialOwnStep ==
    ASSUME SerialEngInv, NEW k \in Serial, NEW c \in Callers, CallerNext(c), OnKey(c, k)
    PROVE  Counts(k)' /\ (OnKey(c, k)' => Stage(c, k)')
<1> USE DEF AtPc
<1>0. /\ TypeOK /\ k \in Keys /\ call[c].key = k /\ call[c].pc # "idle"
      /\ row \in [Keys -> [status : Statuses, result : Vals \cup {None}, attempts : Nat]]
      /\ call \in [Callers -> Busy \cup {Idle}] /\ work \in [Keys -> Vals \cup {None}]
      /\ done \in [Keys -> Nat] /\ excused \in [Keys -> Nat]
  BY DEF SerialEngInv, EngInv, TypeOK, OnKey, Serial
<1>t. row[k].attempts \in Nat /\ done[k] \in Nat /\ excused[k] \in Nat
  BY <1>0
<1>1. Counts(k) /\ Stage(c, k)
  BY DEF SerialEngInv, SerialInv
<1>2. ASSUME Return(c)
      PROVE  ~OnKey(c, k)'
  BY <1>0, <1>2 DEF Return, OnKey, Idle, At
<1>3. ASSUME row'[k] = row[k], work'[k] = work[k], done'[k] = done[k],
             excused'[k] = excused[k]
      PROVE  Counts(k)'
  <2>1. Reconciles(row[k])' <=> Reconciles(row[k])
    BY <1>3 DEF Reconciles
  <2> QED BY <1>1, <1>3, <2>1 DEF Counts
<1>4. CASE ClaimReview(c) \/ Read(c) \/ Abort(c)
  BY <1>2, <1>3, <1>4 DEF ClaimReview, Read, Abort, ReturnOutcome
<1>5. CASE Claim(c)
  <2>1. /\ row' = row /\ work' = work /\ done' = done /\ excused' = excused
        /\ call'[c] = At(ClaimPc(c, k), k, None) /\ row[k].status # "needs_review"
    BY <1>0, <1>5 DEF Claim, Goto
  <2>2. call'[c].pc = ClaimPc(c, k)
    BY <2>1 DEF At
  <2>3. row[k].status \in Statuses
    BY <1>0
  <2>4. /\ ClaimPc(c, k) = "insert" => row[k].status = ""
        /\ ClaimPc(c, k) = "attempt" =>
              \/ row[k].status = ""
              \/ row[k].status = "intent" /\ ~Reconciles(row[k])
        /\ ClaimPc(c, k) \in {"insert", "attempt", "read", "probe", "review"}
        /\ ClaimPc(c, k) \in {"probe", "review"} => Reconciles(row[k])
        /\ ClaimPc(c, k) = "probe" => c \in Probing
    BY <2>1, <2>3 DEF ClaimPc, Statuses, Settled, Reconciles
  <2>5. row[k].status = "" => ~Reconciles(row[k])
    BY DEF Reconciles
  <2>6. Stage(c, k)'
    BY <1>1, <2>1, <2>2, <2>4, <2>5 DEF Stage, Counts, Reconciles
  <2> QED BY <1>3, <2>1, <2>6
<1>6. CASE Insert(c)
  <2>1. row[k].status = "" /\ done[k] <= excused[k]
    BY <1>1, <1>6 DEF Insert, Stage, Counts
  <2>2. /\ row' = [row EXCEPT ![k].status = "intent"] /\ Goto(c, "attempt")
        /\ work' = work /\ done' = done /\ excused' = excused
    BY <1>0, <1>6, <2>1 DEF Insert
  <2>3. row'[k].status = "intent" /\ row'[k].attempts = row[k].attempts
    BY <1>0, <2>2
  <2>4. call'[c].pc = "attempt"
    BY <1>0, <2>2 DEF Goto, At
  <2>5. row[k].attempts = 0
    BY <2>1, <1>1 DEF Stage, Counts
  <2>6. ~Reconciles(row'[k])
    BY <2>3, <2>5 DEF Reconciles
  <2>7. Counts(k)'
    BY <1>1, <2>1, <2>2, <2>3 DEF Counts
  <2>8. Stage(c, k)'
    BY <2>1, <2>2, <2>3, <2>4, <2>6 DEF Stage
  <2> QED BY <2>7, <2>8
<1>7. CASE MarkNeedsReview(c)
  <2>1. row[k].status = "intent"
    BY <1>1, <1>7 DEF MarkNeedsReview, Stage, Reconciles
  <2>2. row'[k].status = "needs_review"
    BY <1>0, <1>7, <2>1 DEF MarkNeedsReview
  <2> QED BY <1>1, <1>2, <1>7, <2>2 DEF MarkNeedsReview, Counts, Reconciles
<1>8. CASE ProbeHit(c)
  <2>1. call'[c] = At("adopt", k, Outcome("committed", work[k]))
    BY <1>0, <1>8 DEF ProbeHit, GotoWith
  <2>2. call'[c].pc = "adopt" /\ call'[c].out.status = "committed"
    BY <2>1 DEF At, Outcome
  <2>3. Reconciles(row[k]) /\ row' = row
    BY <1>1, <1>8 DEF ProbeHit, Stage
  <2>4. Stage(c, k)'
    BY <2>2, <2>3 DEF Stage, Reconciles
  <2> QED BY <1>3, <1>8, <2>4 DEF ProbeHit
<1>9. CASE ProbeMiss(c) \/ ProbeError(c)
  <2>1. call'[c].pc = "attempt" /\ row' = row /\ done' = done /\ work' = work
    BY <1>0, <1>9 DEF ProbeMiss, ProbeError, Goto, At
  <2>2. Reconciles(row[k]) /\ row[k].status = "intent"
    BY <1>1, <1>9 DEF ProbeMiss, ProbeError, Stage, Reconciles
  <2>3. c \in Probing
    BY <1>1, <1>9 DEF ProbeMiss, ProbeError, Stage
  <2>4. excused'[k] \in Nat /\ excused[k] <= excused'[k] /\ done[k] <= excused'[k]
    <3>1. CASE ProbeMiss(c)
      <4>1. excused' = excused /\ work[k] = None
        BY <1>0, <3>1 DEF ProbeMiss
      <4>2. done[k] = 0
        BY <1>1, <4>1 DEF Counts
      <4> QED BY <1>t, <4>1, <4>2
    <3>2. CASE ProbeError(c)
      <4>1. excused'[k] = excused[k] + 1
        BY <1>0, <3>2 DEF ProbeError
      <4>2. done[k] <= 1 + excused[k]
        BY <1>1 DEF Counts
      <4> QED BY <1>t, <4>1, <4>2
    <3> QED BY <1>9, <3>1, <3>2
  <2>5. Stage(c, k)'
    BY <2>1, <2>2, <2>3, <2>4 DEF Stage
  <2>6. done[k] <= 1 + excused'[k]
    BY <1>0, <2>4
  <2>7. Counts(k)'
    BY <1>1, <2>1, <2>4, <2>6 DEF Counts
  <2> QED BY <2>5, <2>7
<1>10. CASE Attempt(c)
  <2>1. /\ row'[k] = Attempted(row[k]) /\ call'[c].pc = "fn"
        /\ done' = done /\ work' = work /\ excused' = excused
    BY <1>0, <1>10 DEF Attempt, Goto, At
  <2>2. row[k].status \in {"", "intent"} /\ done[k] <= excused[k]
    BY <1>1, <1>10 DEF Attempt, Stage
  <2>3. row'[k].status = "intent" /\ row'[k].attempts > 0
    <3>1. /\ Attempted(row[k]).status = IF row[k].status = "" THEN "intent" ELSE row[k].status
          /\ Attempted(row[k]).attempts = row[k].attempts + 1
      BY DEF Attempted
    <3>2. row'[k].status = "intent"
      BY <2>1, <2>2, <3>1
    <3>3. row'[k].attempts = row[k].attempts + 1
      BY <2>1, <3>1
    <3> QED BY <1>t, <3>2, <3>3
  <2> QED BY <1>1, <2>1, <2>2, <2>3 DEF Counts, Stage, Reconciles
<1>11. CASE FnSucceeds(c) \/ FnFails(c) \/ FnCrashes(c)
  <2>1. Reconciles(row[k]) /\ done[k] <= excused[k] /\ row' = row /\ excused' = excused
    BY <1>1, <1>11 DEF FnSucceeds, FnFails, FnCrashes, Stage
  <2>2. \/ done' = done /\ work' = work
        \/ \E v \in Vals : Works(k, v)
    BY <1>0, <1>11 DEF FnSucceeds, FnFails, FnCrashes
  <2>3. done'[k] <= 1 + excused'[k] /\ (work'[k] = None => done'[k] = 0)
    <3>1. CASE done' = done /\ work' = work
      BY <1>0, <1>1, <2>1, <3>1 DEF Counts
    <3>2. ASSUME NEW v \in Vals, Works(k, v)
          PROVE  done'[k] <= 1 + excused'[k] /\ work'[k] # None
      <4>1. done'[k] = done[k] + 1 /\ work'[k] = v
        BY <1>0, <3>2 DEF Works
      <4>1a. v # None
        BY EngineAssumption
      <4>2. done'[k] <= 1 + excused[k]
        BY <1>0, <2>1, <4>1
      <4> QED BY <2>1, <4>1, <4>1a, <4>2
    <3> QED BY <2>2, <3>1, <3>2
  <2>4. Counts(k)'
    BY <2>1, <2>3 DEF Counts, Reconciles
  <2>5. call'[c].pc \in {"commit", "idle"}
    BY <1>0, <1>11 DEF FnSucceeds, FnFails, FnCrashes, GotoWith, Return, Idle, At
  <2> QED BY <2>1, <2>4, <2>5 DEF Stage, OnKey
<1>12. CASE Commit(c)
  <2>1. row'[k] = Recorded(row[k], call[c].out) /\ Reconciles(row[k])
        /\ UNCHANGED <<work, done, excused>>
    BY <1>0, <1>1, <1>12 DEF Commit, Stage
  <2>2. call[c].out \in Outcomes
    BY <1>12 DEF Commit, SerialEngInv, EngInv, CallsReady
  <2>3. row'[k].status \in Settled
    <3>1. row'[k].status = call[c].out.status
      BY <1>0, <2>1 DEF Recorded, Reconciles
    <3> QED BY <2>2, <3>1, OutcomeParts
  <2> QED BY <1>1, <1>2, <1>12, <2>1, <2>3 DEF Commit, ReturnOutcome, Counts, Settled
<1> QED BY <1>0, <1>4, <1>5, <1>6, <1>7, <1>8, <1>9, <1>10, <1>11, <1>12
        DEF CallerNext, RunEffect

(* A step keeps the serial keys' callers at their stages and their work       *)
(* counted: whoever steps on a key past the claim is alone there.             *)
LEMMA StepSerialInv ==
    ASSUME SerialEngInv, Next
    PROVE  SerialInv'
<1>0. /\ TypeOK /\ EngInv /\ ClientsOnly
      /\ \A k \in Serial : k \in Keys
      /\ row \in [Keys -> [status : Statuses, result : Vals \cup {None}, attempts : Nat]]
      /\ done \in [Keys -> Nat] /\ excused \in [Keys -> Nat]
  BY DEF SerialEngInv, EngInv, TypeOK, Serial
<1> SUFFICES ASSUME NEW k \in Serial
             PROVE  Counts(k)' /\ \A d \in Callers : OnKey(d, k)' => Stage(d, k)'
  BY DEF SerialInv, Serial
<1>1. Counts(k) /\ \A d \in Callers : OnKey(d, k) => Stage(d, k)
  BY DEF SerialEngInv, SerialInv
<1>2. ASSUME NEW d \in Callers, call'[d] = call[d], row'[k] = row[k],
             done'[k] = done[k], excused'[k] = excused[k], OnKey(d, k)'
      PROVE  Stage(d, k)'
  <2>1. OnKey(d, k) /\ Stage(d, k)
    BY <1>1, <1>2 DEF OnKey, AtPc
  <2> QED BY <1>2, <2>1 DEF Stage, AtPc, Reconciles
<1>3. ASSUME NEW d \in Callers, call'[d].pc \in {"claim", "idle"}
      PROVE  Stage(d, k)'
  BY <1>3 DEF Stage, AtPc
<1>4. ASSUME NEW c \in Callers, CallerNext(c), ~OnKey(c, k)
      PROVE  Counts(k)' /\ \A d \in Callers : OnKey(d, k)' => Stage(d, k)'
  <2>1. /\ row'[k] = row[k] /\ work'[k] = work[k] /\ done'[k] = done[k]
        /\ excused'[k] = excused[k]
    BY <1>0, <1>4, OtherKeys
  <2>2. Counts(k)'
    <3>1. Reconciles(row[k])' <=> Reconciles(row[k])
      BY <2>1 DEF Reconciles
    <3> QED BY <1>1, <2>1, <3>1 DEF Counts
  <2>3. ASSUME NEW d \in Callers, OnKey(d, k)'
        PROVE  Stage(d, k)'
    <3>1. CASE d # c
      BY <1>0, <1>2, <1>4, <2>1, <2>3, <3>1, OthersCalls
    <3>2. CASE d = c /\ ~AtPc(c, "idle")
      BY <1>0, <1>4, <2>3, <3>2, KeyKept DEF OnKey, AtPc, Idle, At
    <3>3. CASE d = c /\ AtPc(c, "idle")
      <4>1. PICK j \in Keys : RunEffect(c, j)
        BY <1>4, <3>3 DEF CallerNext, Claim, ClaimReview, Insert, Read,
            MarkNeedsReview, ProbeHit, ProbeMiss, ProbeError, Attempt, FnSucceeds,
            FnFails, FnCrashes, Commit, Abort, AtPc
      <4>2. call'[c].pc \in {"claim", "idle"}
        BY <1>0, <4>1 DEF RunEffect, TypeOK, At, Idle
      <4> QED BY <1>3, <3>3, <4>2
    <3> QED BY <3>1, <3>2, <3>3
  <2> QED BY <2>2, <2>3
<1>5. ASSUME NEW c \in Callers, CallerNext(c), OnKey(c, k)
      PROVE  Counts(k)' /\ \A d \in Callers : OnKey(d, k)' => Stage(d, k)'
  <2>1. Counts(k)' /\ (OnKey(c, k)' => Stage(c, k)')
    BY <1>5, SerialOwnStep
  <2>2. ASSUME NEW d \in Callers, d # c, OnKey(d, k)'
        PROVE  Stage(d, k)'
    <3>1. call'[d] = call[d] /\ OnKey(d, k)
      BY <1>0, <1>5, <2>2, OthersCalls DEF OnKey, AtPc
    <3>2. CASE AtPc(d, "claim")
      BY <1>3, <3>1, <3>2 DEF AtPc
    <3>3. CASE AtPc(c, "claim")
      <4>1. row' = row /\ done' = done /\ excused' = excused
        BY <1>5, <3>3 DEF CallerNext, RunEffect, Claim, ClaimReview, Insert, Read,
            MarkNeedsReview, ProbeHit, ProbeMiss, ProbeError, Attempt, FnSucceeds,
            FnFails, FnCrashes, Commit, Abort, AtPc
      <4> QED BY <1>2, <2>2, <3>1, <4>1
    <3>4. CASE ~AtPc(d, "claim") /\ ~AtPc(c, "claim")
      BY <1>0, <1>5, <2>2, <3>1, <3>4, Alone DEF Past
    <3> QED BY <3>2, <3>3, <3>4
  <2> QED BY <2>1, <2>2
<1>6. ASSUME NEW j \in Keys, ResolveRetry(j) \/ ResolveOutcome(j)
      PROVE  Counts(k)' /\ \A d \in Callers : OnKey(d, k)' => Stage(d, k)'
  <2>0. call' = call /\ work' = work /\ done' = done
    BY <1>6 DEF ResolveRetry, ResolveOutcome
  <2>1. CASE j # k
    <3>1. row'[k] = row[k] /\ excused'[k] = excused[k]
      BY <1>0, <1>6, <2>1 DEF ResolveRetry, ResolveOutcome
    <3>2. Counts(k)'
      <4>1. Reconciles(row[k])' <=> Reconciles(row[k])
        BY <3>1 DEF Reconciles
      <4> QED BY <1>1, <2>0, <3>1, <4>1 DEF Counts
    <3> QED BY <1>2, <2>0, <3>1, <3>2
  <2>2. CASE j = k
    <3>1. row[k].status = "needs_review"
      BY <1>6, <2>2 DEF ResolveRetry, ResolveOutcome, Resolvable
    <3>2. ASSUME NEW d \in Callers, OnKey(d, k)'
          PROVE  Stage(d, k)'
      <4>1. OnKey(d, k) /\ Stage(d, k)
        BY <1>1, <2>0, <3>2 DEF OnKey, AtPc
      <4>2. call[d].pc \notin {"insert", "attempt", "fn", "commit", "probe", "review",
                               "adopt"}
        BY <3>1, <4>1 DEF Stage, AtPc, Reconciles
      <4> QED BY <2>0, <4>2 DEF Stage, AtPc
    <3>3. done[k] \in Nat /\ excused[k] \in Nat /\ done[k] <= 1 + excused[k]
          /\ (work[k] = None => done[k] = 0)
      BY <1>0, <1>1 DEF Counts
    <3>4. CASE ResolveRetry(j)
      <4>1. excused'[k] = excused[k] + 1 /\ row'[k].status = "intent"
        BY <1>0, <2>2, <3>4 DEF ResolveRetry
      <4>2. done[k] <= excused'[k] /\ done[k] <= 1 + excused'[k]
        BY <3>3, <4>1
      <4>3. Counts(k)'
        BY <2>0, <3>3, <4>1, <4>2 DEF Counts
      <4> QED BY <3>2, <4>3
    <3>5. CASE ResolveOutcome(j)
      <4>1. PICK o \in Outcomes :
                row' = [row EXCEPT ![k].status = o.status, ![k].result = o.val]
        BY <2>2, <3>5 DEF ResolveOutcome
      <4>2. row'[k].status = o.status /\ excused' = excused
        BY <1>0, <3>5, <4>1 DEF ResolveOutcome
      <4>3. row'[k].status \in Settled
        BY <4>2, OutcomeParts
      <4>4. Counts(k)'
        BY <1>1, <2>0, <4>2, <4>3 DEF Counts, Settled
      <4> QED BY <3>2, <4>4
    <3> QED BY <1>6, <3>4, <3>5
  <2> QED BY <2>1, <2>2
<1> QED BY <1>4, <1>5, <1>6 DEF Next

LEMMA SerialInit == Init => SerialEngInv
<1> SUFFICES ASSUME Init PROVE SerialEngInv
  OBVIOUS
<1>1. ClientsOnly
  BY DEF Init, ClientsOnly, AtPc, Idle, At
<1>2. \A c \in Callers : \A k \in Serial : ~OnKey(c, k)
  BY DEF Init, OnKey, AtPc, Idle, At
<1>3. \A k \in Serial : Counts(k)
  <2> SUFFICES ASSUME NEW k \in Serial PROVE Counts(k)
    OBVIOUS
  <2>1. k \in Keys
    BY DEF Serial
  <2>2. done[k] = 0 /\ excused[k] = 0 /\ row[k].attempts = 0
    BY <2>1 DEF Init, NewRow
  <2> QED BY <2>2 DEF Counts
<1> QED BY <1>1, <1>2, <1>3, InitInv DEF SerialEngInv, SerialInv

LEMMA SerialStutter ==
    ASSUME SerialEngInv, UNCHANGED vars
    PROVE  SerialEngInv'
<1>1. UNCHANGED <<row, mu, call, calls, work, done, excused, told>>
  BY DEF vars
<1>2. ClientsOnly'
  BY <1>1 DEF SerialEngInv, ClientsOnly, AtPc
<1>3. SerialInv'
  BY <1>1 DEF SerialEngInv, SerialInv, Counts, Stage, OnKey, AtPc, Reconciles, Serial
<1> QED BY <1>2, <1>3, Stutter DEF SerialEngInv

(* The inductive invariant of the serial keys, on top of EngInv. *)
THEOREM SerialInvariant == Spec => []SerialEngInv
<1>1. SerialEngInv /\ [Next]_vars => SerialEngInv'
  <2> SUFFICES ASSUME SerialEngInv, [Next]_vars PROVE SerialEngInv'
    OBVIOUS
  <2>1. CASE Next
    <3>1. EngInv'
      BY <2>1, StepTypeOK, StepRowsSettled, StepCallsReady, StepMutexHeld
         DEF SerialEngInv, EngInv
    <3> QED BY <2>1, <3>1, StepClientsOnly, StepSerialInv DEF SerialEngInv
  <2>2. CASE UNCHANGED vars
    BY <2>2, SerialStutter
  <2> QED BY <2>1, <2>2
<1> QED BY <1>1, SerialInit, PTL DEF Spec

(* ScheduleStep's reconcile branch: for any number of callers, crashes and    *)
(* probes, the work of a serial step is done once, and once more at most for  *)
(* each operator retry and each probe that could not answer.                  *)
THEOREM SerialWorkOnce == Spec => []WorkOnce
<1>1. SerialEngInv => WorkOnce
  BY DEF SerialEngInv, SerialInv, Counts, WorkOnce
<1> QED BY <1>1, SerialInvariant, PTL

-----------------------------------------------------------------------------
(* Refinement of StepContract by the serial keys. *)

(* The contract's phases, in Engine's terms. *)
LEMMA ContractTerms ==
    /\ C!New = Outcome("new", None) /\ C!Running = Outcome("running", None)
    /\ C!Doubt = Outcome("doubt", None) /\ C!InReview = Outcome("review", None)
    /\ C!Outcomes = Outcomes
    /\ \A o \in Outcomes : o.status = "committed" => o \in C!Committed
<1>1. /\ C!New = Outcome("new", None) /\ C!Running = Outcome("running", None)
      /\ C!Doubt = Outcome("doubt", None) /\ C!InReview = Outcome("review", None)
  BY DEF C!New, C!Running, C!Doubt, C!InReview, C!Open, Outcome
<1>2. C!Committed = {Outcome("committed", v) : v \in Vals}
  <2>1. ASSUME NEW o \in C!Committed
        PROVE  o \in {Outcome("committed", v) : v \in Vals}
    <3>1. o.val \in Vals /\ o = Outcome("committed", o.val)
      BY DEF C!Committed, Outcome
    <3> QED BY <3>1
  <2>2. ASSUME NEW v \in Vals
        PROVE  Outcome("committed", v) \in C!Committed
    BY DEF C!Committed, Outcome
  <2> QED BY <2>1, <2>2
<1>3. C!Outcomes = Outcomes
  BY <1>2 DEF C!Outcomes, C!Open, Outcomes, Outcome
<1>4. \A o \in Outcomes : o.status = "committed" => o \in C!Committed
  BY <1>2 DEF Outcomes, Outcome
<1> QED BY <1>1, <1>3, <1>4

(* Whose fn is in flight, before a step and after it. *)
LEMMA RunnerIs ==
    ASSUME NEW k, NEW c \in Callers, InFlight(c, k),
           \A d \in Callers : InFlight(d, k) => d = c
    PROVE  RunnerOf(k) = c
BY DEF RunnerOf

LEMMA RunnerIsNext ==
    ASSUME NEW k, NEW c \in Callers, InFlight(c, k)',
           \A d \in Callers : InFlight(d, k)' => d = c
    PROVE  RunnerOf(k)' = c
BY DEF RunnerOf

LEMMA NoRunner ==
    ASSUME NEW k
    PROVE  /\ (\A d \in Callers : ~InFlight(d, k)) => RunnerOf(k) = None
           /\ (\A d \in Callers : ~InFlight(d, k)') => RunnerOf(k)' = None
BY DEF RunnerOf

(* One caller at most is in flight, and it finds the row in doubt. *)
LEMMA FlightAlone ==
    ASSUME SerialEngInv, NEW k \in Serial, NEW c \in Callers, InFlight(c, k)
    PROVE  /\ \A d \in Callers : Past(d, k) => d = c
           /\ Reconciles(row[k]) /\ RunnerOf(k) = c /\ c # None
<1>1. Past(c, k)
  BY DEF InFlight, Past, AtPc
<1>2. \A d \in Callers : Past(d, k) => d = c
  BY <1>1, Alone DEF SerialEngInv
<1>3. \A d \in Callers : InFlight(d, k) => d = c
  BY <1>2 DEF InFlight, Past, AtPc
<1>4. Reconciles(row[k])
  BY DEF SerialEngInv, SerialInv, Stage, InFlight, AtPc
<1> QED BY <1>2, <1>3, <1>4, RunnerIs, EngineAssumption

(* A key whose row and flights a step leaves alone keeps its phase. *)
LEMMA SameKey ==
    ASSUME SerialEngInv, NEW k \in Serial, row'[k] = row[k],
           \A d \in Callers : InFlight(d, k)' <=> InFlight(d, k)
    PROVE  PhaseOf(k)' = PhaseOf(k) /\ RunnerOf(k)' = RunnerOf(k)
<1>1. RunnerOf(k)' = RunnerOf(k)
  <2>1. CASE \E c \in Callers : InFlight(c, k)
    <3>1. PICK c \in Callers : InFlight(c, k)
      BY <2>1
    <3>2. RunnerOf(k) = c /\ \A d \in Callers : InFlight(d, k) => d = c
      BY <3>1, FlightAlone DEF InFlight, Past, AtPc
    <3>3. RunnerOf(k)' = c
      BY <3>1, <3>2, RunnerIsNext
    <3> QED BY <3>2, <3>3
  <2>2. CASE ~\E c \in Callers : InFlight(c, k)
    BY <2>2, NoRunner
  <2> QED BY <2>1, <2>2
<1>2. Reconciles(row[k])' <=> Reconciles(row[k])
  BY DEF Reconciles
<1> QED BY <1>1, <1>2 DEF PhaseOf

(* A step on one key keeps the phases of the others. *)
LEMMA OtherPhases ==
    ASSUME SerialEngInv, NEW c \in Callers, CallerNext(c), NEW k \in Serial, ~OnKey(c, k)
    PROVE  PhaseOf(k)' = PhaseOf(k) /\ RunnerOf(k)' = RunnerOf(k) /\ told'[k] = told[k]
<1>0. TypeOK /\ k \in Keys
  BY DEF SerialEngInv, EngInv, Serial
<1>1. row'[k] = row[k] /\ told'[k] = told[k]
  BY <1>0, OtherKeys
<1>2. ASSUME NEW d \in Callers
      PROVE  InFlight(d, k)' <=> InFlight(d, k)
  <2>1. CASE d # c
    BY <1>0, <2>1, OthersCalls DEF InFlight, OnKey, AtPc
  <2>2. CASE d = c /\ ~AtPc(c, "idle")
    BY <1>0, <2>2, KeyKept DEF InFlight, OnKey, AtPc, Idle, At
  <2>3. CASE d = c /\ AtPc(c, "idle")
    <3>1. PICK j \in Keys : RunEffect(c, j)
      BY <2>3 DEF CallerNext, Claim, ClaimReview, Insert, Read,
          MarkNeedsReview, ProbeHit, ProbeMiss, ProbeError, Attempt, FnSucceeds,
          FnFails, FnCrashes, Commit, Abort, AtPc
    <3>2. call'[c].pc \in {"claim", "idle"}
      BY <1>0, <3>1 DEF RunEffect, TypeOK, At, Idle
    <3> QED BY <2>3, <3>2 DEF InFlight, AtPc
  <2> QED BY <2>1, <2>2, <2>3
<1> QED BY <1>1, <1>2, SameKey

(* Where a step leaves a key. *)
Becomes(k, ph, ru, to) == PhaseOf(k)' = ph /\ RunnerOf(k)' = ru /\ told'[k] = to

(* The step of StepContract that a caller's step on a serial key is. *)
ContractStep(c, k) ==
    \/ Becomes(k, PhaseOf(k), RunnerOf(k), told[k])
    \/ /\ RunnerOf(k) = None
       /\ PhaseOf(k) = C!New \/ (PhaseOf(k) = C!Doubt /\ c \in Probing)
       /\ Becomes(k, C!Running, c, told[k])
    \/ /\ PhaseOf(k) = C!Running /\ RunnerOf(k) = c
       /\ \/ \E o \in Outcomes : Becomes(k, o, None, told[k] \cup {o})
          \/ Becomes(k, C!Doubt, None, told[k])
    \/ /\ PhaseOf(k) = C!Doubt
       /\ \/ \E o \in C!Committed : Becomes(k, o, RunnerOf(k), told[k] \cup {o})
          \/ Becomes(k, C!InReview, RunnerOf(k), told[k])
    \/ /\ PhaseOf(k) \in Outcomes
       /\ Becomes(k, PhaseOf(k), RunnerOf(k), told[k] \cup {PhaseOf(k)})

LEMMA OwnPhase ==
    ASSUME SerialEngInv, NEW k \in Serial, NEW c \in Callers, CallerNext(c), OnKey(c, k)
    PROVE  ContractStep(c, k)
<1> USE DEF AtPc
<1>0. /\ TypeOK /\ k \in Keys /\ call[c].key = k /\ call[c].pc # "idle"
      /\ row \in [Keys -> [status : Statuses, result : Vals \cup {None}, attempts : Nat]]
      /\ call \in [Callers -> Busy \cup {Idle}] /\ told \in [Keys -> SUBSET Outcomes]
      /\ c # None
  BY EngineAssumption DEF SerialEngInv, EngInv, TypeOK, OnKey, Serial
<1>1. Stage(c, k) /\ Counts(k)
  BY DEF SerialEngInv, SerialInv
<1>2. ASSUME NEW d \in Callers, d # c
      PROVE  InFlight(d, k)' <=> InFlight(d, k)
  BY <1>0, <1>2, OthersCalls DEF InFlight, OnKey
<1>3. ASSUME row'[k] = row[k], told'[k] = told[k], InFlight(c, k)' <=> InFlight(c, k)
      PROVE  Becomes(k, PhaseOf(k), RunnerOf(k), told[k])
  <2>1. \A d \in Callers : InFlight(d, k)' <=> InFlight(d, k)
    BY <1>2, <1>3
  <2> QED BY <1>3, <2>1, SameKey DEF Becomes
<1>4. ASSUME call[c].pc # "claim", NEW d \in Callers, d # c
      PROVE  ~InFlight(d, k) /\ ~InFlight(d, k)'
  <2>1. Past(c, k) /\ (InFlight(d, k) => Past(d, k))
    BY <1>4 DEF Past, InFlight
  <2> QED BY <1>2, <1>4, <2>1, Alone DEF SerialEngInv
<1>5. ASSUME call[c].pc \in {"fn", "commit"}
      PROVE  /\ RunnerOf(k) = c /\ PhaseOf(k) = C!Running
             /\ row[k].status = "intent" /\ Reconciles(row[k])
  <2>1. InFlight(c, k)
    BY <1>5 DEF InFlight
  <2>2. RunnerOf(k) = c /\ Reconciles(row[k])
    BY <2>1, FlightAlone
  <2>3. row[k].status = "intent"
    BY <2>2 DEF Reconciles
  <2> QED BY <1>0, <2>2, <2>3, ContractTerms DEF PhaseOf, Settled
<1>6. ASSUME call[c].pc \notin {"claim", "fn", "commit"}
      PROVE  RunnerOf(k) = None
  <2>1. \A d \in Callers : ~InFlight(d, k)
    BY <1>4, <1>6 DEF InFlight
  <2> QED BY <2>1, NoRunner
<1>7. ASSUME call[c].pc # "claim", call'[c].pc \notin {"fn", "commit"}
      PROVE  RunnerOf(k)' = None
  <2>1. \A d \in Callers : ~InFlight(d, k)'
    BY <1>4, <1>7 DEF InFlight
  <2> QED BY <2>1, NoRunner
<1>8. ASSUME call'[c].pc = "idle", row'[k] = row[k], told'[k] = told[k]
      PROVE  ContractStep(c, k)
  <2>1. CASE call[c].pc \in {"fn", "commit"}
    <3>1. RunnerOf(k)' = None
      BY <1>7, <1>8, <2>1
    <3>2. row'[k].status = "intent" /\ Reconciles(row[k])'
      BY <1>5, <1>8, <2>1 DEF Reconciles
    <3>3. PhaseOf(k)' = C!Doubt
      BY <3>1, <3>2, ContractTerms DEF PhaseOf, Settled
    <3> QED BY <1>5, <1>8, <2>1, <3>1, <3>3 DEF ContractStep, Becomes
  <2>2. CASE call[c].pc \notin {"fn", "commit"}
    BY <1>3, <1>8, <2>2 DEF InFlight, ContractStep
  <2> QED BY <2>1, <2>2
<1>9. ASSUME Return(c)
      PROVE  call'[c].pc = "idle"
  BY <1>0, <1>9 DEF Return, Idle, At
<1>10. CASE ClaimReview(c) \/ Abort(c) \/ FnCrashes(c)
  BY <1>8, <1>9, <1>10 DEF ClaimReview, Abort, FnCrashes
<1>11. CASE Claim(c) \/ ProbeHit(c) \/ ProbeMiss(c) \/ ProbeError(c)
  <2>1. call[c].pc \in {"claim", "probe"} /\ row' = row /\ told' = told
    BY <1>11 DEF Claim, ProbeHit, ProbeMiss, ProbeError
  <2>2. call'[c].pc \notin {"fn", "commit"}
    <3>1. CASE Claim(c)
      <4>1. call'[c].pc = ClaimPc(c, k)
        BY <1>0, <3>1 DEF Claim, Goto, At
      <4> QED BY <4>1 DEF ClaimPc
    <3>2. CASE ProbeHit(c)
      BY <1>0, <3>2 DEF ProbeHit, GotoWith, At
    <3>3. CASE ProbeMiss(c) \/ ProbeError(c)
      BY <1>0, <3>3 DEF ProbeMiss, ProbeError, Goto, At
    <3> QED BY <1>11, <3>1, <3>2, <3>3
  <2> QED BY <1>3, <2>1, <2>2 DEF InFlight, ContractStep
<1>12. CASE FnSucceeds(c) \/ FnFails(c)
  <2>1. call[c].pc = "fn" /\ call'[c].pc = "commit" /\ row' = row /\ told' = told
    BY <1>0, <1>12 DEF FnSucceeds, FnFails, GotoWith, At
  <2>2. call'[c].key = k
    BY <1>0, <1>12 DEF FnSucceeds, FnFails, GotoWith, At
  <2> QED BY <1>0, <1>3, <2>1, <2>2 DEF InFlight, OnKey, ContractStep
<1>13. CASE Insert(c)
  <2>1. row[k].status = "" /\ row[k].attempts = 0
    BY <1>1, <1>13 DEF Insert, Stage, Counts
  <2>2. /\ row' = [row EXCEPT ![k].status = "intent"] /\ Goto(c, "attempt")
        /\ told' = told /\ call[c].pc = "insert"
    BY <1>0, <1>13, <2>1 DEF Insert
  <2>3. row'[k].status = "intent" /\ row'[k].attempts = 0
    BY <1>0, <2>1, <2>2
  <2>4. RunnerOf(k) = None /\ RunnerOf(k)' = None
    BY <1>0, <1>6, <1>7, <2>2 DEF Goto, At
  <2>5. ~Reconciles(row[k]) /\ ~Reconciles(row'[k])
    <3>1. ~(row[k].attempts > 0) /\ ~(row'[k].attempts > 0)
      <4>1. ~(0 > 0)
        OBVIOUS
      <4> QED BY <2>1, <2>3, <4>1
    <3> QED BY <3>1 DEF Reconciles
  <2>6. PhaseOf(k) = Outcome("new", None) /\ PhaseOf(k)' = Outcome("new", None)
    BY <2>1, <2>3, <2>4, <2>5 DEF PhaseOf, Settled
  <2> QED BY <2>2, <2>4, <2>6 DEF ContractStep, Becomes
<1>14. CASE Read(c)
  <2>1. row[k].status \in Settled /\ row' = row
    BY <1>0, <1>14 DEF Read, SerialEngInv, EngInv, CallsReady
  <2>2. PhaseOf(k) = Outcome(row[k].status, row[k].result)
    BY <2>1 DEF PhaseOf, Settled
  <2>3. PhaseOf(k) \in Outcomes
    BY <1>0, <2>1, <2>2 DEF SerialEngInv, EngInv, RowsSettled
  <2>4. told'[k] = told[k] \cup {PhaseOf(k)} /\ call'[c].pc = "idle" /\ call[c].pc = "read"
    BY <1>0, <1>9, <1>14, <2>2 DEF Read, ReturnOutcome
  <2>5. PhaseOf(k)' = PhaseOf(k) /\ RunnerOf(k)' = RunnerOf(k)
    <3>1. \A d \in Callers : InFlight(d, k)' <=> InFlight(d, k)
      BY <1>2, <2>4 DEF InFlight
    <3> QED BY <2>1, <3>1, SameKey
  <2> QED BY <2>3, <2>4, <2>5 DEF ContractStep, Becomes
<1>15. CASE MarkNeedsReview(c)
  <2>1. row[k].status = "intent" /\ Reconciles(row[k]) /\ call[c].pc = "review"
    BY <1>1, <1>15 DEF MarkNeedsReview, Stage, Reconciles
  <2>2. row'[k].status = "needs_review" /\ told' = told /\ call'[c].pc = "idle"
    BY <1>0, <1>9, <1>15, <2>1 DEF MarkNeedsReview
  <2>3. RunnerOf(k) = None /\ RunnerOf(k)' = None
    BY <1>6, <1>7, <2>1, <2>2
  <2>4. PhaseOf(k) = C!Doubt
    BY <2>1, <2>3, ContractTerms DEF PhaseOf, Settled
  <2>5. PhaseOf(k)' = C!InReview
    BY <2>2, ContractTerms DEF PhaseOf, Settled
  <2> QED BY <2>2, <2>3, <2>4, <2>5 DEF ContractStep, Becomes
<1>16. CASE Attempt(c)
  <2>1. /\ call[c].pc = "attempt" /\ row'[k] = Attempted(row[k]) /\ call'[c].pc = "fn"
        /\ call'[c].key = k /\ told' = told
    BY <1>0, <1>16 DEF Attempt, Goto, At
  <2>2. row[k].status \in {"", "intent"} /\ (Reconciles(row[k]) => c \in Probing)
    BY <1>1, <2>1 DEF Stage
  <2>3. Attempted(row[k]).status = IF row[k].status = "" THEN "intent" ELSE row[k].status
    BY DEF Attempted
  <2>4. row'[k].status = "intent"
    BY <2>1, <2>2, <2>3
  <2>5. RunnerOf(k) = None
    BY <1>6, <2>1
  <2>6. PhaseOf(k) = C!New \/ (PhaseOf(k) = C!Doubt /\ c \in Probing)
    BY <2>2, <2>5, ContractTerms DEF PhaseOf, Settled
  <2>7. RunnerOf(k)' = c
    <3>1. InFlight(c, k)'
      BY <2>1 DEF InFlight, OnKey
    <3>2. \A d \in Callers : InFlight(d, k)' => d = c
      BY <1>4, <2>1
    <3> QED BY <3>1, <3>2, RunnerIsNext
  <2>8. PhaseOf(k)' = C!Running
    BY <1>0, <2>4, <2>7, ContractTerms DEF PhaseOf, Settled
  <2> QED BY <2>1, <2>5, <2>6, <2>7, <2>8 DEF ContractStep, Becomes
<1>17. CASE Commit(c)
  <2> DEFINE o == call[c].out
  <2>1. /\ row'[k] = Recorded(row[k], o) /\ told'[k] = told[k] \cup {o}
        /\ call'[c].pc = "idle" /\ call[c].pc \in {"commit", "adopt"}
    BY <1>0, <1>9, <1>17 DEF Commit, ReturnOutcome
  <2>2. o \in Outcomes
    BY <1>17 DEF Commit, SerialEngInv, EngInv, CallsReady
  <2>3. o.status \in Settled /\ o = Outcome(o.status, o.val)
    BY <2>2, OutcomeParts
  <2>4. row[k].status = "intent" /\ Reconciles(row[k])
    BY <1>1, <2>1 DEF Stage, Reconciles
  <2>5. row'[k].status = o.status /\ row'[k].result = o.val
    BY <1>0, <2>1, <2>4 DEF Recorded
  <2>6. PhaseOf(k)' = o
    BY <2>3, <2>5 DEF PhaseOf, Settled
  <2>7. RunnerOf(k)' = None
    BY <1>7, <2>1
  <2>8. CASE call[c].pc = "commit"
    <3>1. PhaseOf(k) = C!Running /\ RunnerOf(k) = c
      BY <1>5, <2>8
    <3> QED BY <2>1, <2>2, <2>6, <2>7, <3>1 DEF ContractStep, Becomes
  <2>9. CASE call[c].pc = "adopt"
    <3>1. RunnerOf(k) = None
      BY <1>6, <2>9
    <3>2. PhaseOf(k) = C!Doubt
      BY <2>4, <3>1, ContractTerms DEF PhaseOf, Settled
    <3>3. o \in C!Committed
      BY <1>1, <2>2, <2>9, ContractTerms DEF Stage
    <3> QED BY <2>1, <2>6, <2>7, <3>1, <3>2, <3>3 DEF ContractStep, Becomes
  <2> QED BY <2>1, <2>8, <2>9
<1> QED BY <1>0, <1>10, <1>11, <1>12, <1>13, <1>14, <1>15, <1>16, <1>17
        DEF CallerNext, RunEffect

(* What an operator does to a serial key is the contract's resolve: nobody is *)
(* in flight on a key that is in review.                                      *)
LEMMA ResolvePhase ==
    ASSUME SerialEngInv, NEW k \in Serial, ResolveRetry(k) \/ ResolveOutcome(k)
    PROVE  /\ PhaseOf(k) = C!InReview
           /\ \E p \in Outcomes \cup {C!New} : Becomes(k, p, RunnerOf(k), told[k])
<1>0. /\ k \in Keys
      /\ row \in [Keys -> [status : Statuses, result : Vals \cup {None}, attempts : Nat]]
  BY DEF SerialEngInv, EngInv, TypeOK, Serial
<1>1. row[k].status = "needs_review" /\ call' = call /\ told' = told
  BY DEF ResolveRetry, ResolveOutcome, Resolvable
<1>2. \A d \in Callers : ~InFlight(d, k) /\ ~InFlight(d, k)'
  <2>1. ~Reconciles(row[k])
    BY <1>1 DEF Reconciles
  <2>2. \A d \in Callers : ~InFlight(d, k)
    BY <2>1, FlightAlone
  <2> QED BY <1>1, <2>2 DEF InFlight, OnKey, AtPc
<1>3. RunnerOf(k) = None /\ RunnerOf(k)' = None
  BY <1>2, NoRunner
<1>4. PhaseOf(k) = C!InReview
  BY <1>1, ContractTerms DEF PhaseOf, Settled
<1>5. CASE ResolveRetry(k)
  <2>1. row'[k].status = "intent" /\ row'[k].attempts = 0
    BY <1>0, <1>5 DEF ResolveRetry
  <2>2. ~Reconciles(row'[k])
    <3>1. ~(row'[k].attempts > 0)
      BY <2>1
    <3> QED BY <3>1 DEF Reconciles
  <2>3. PhaseOf(k)' = C!New
    BY <1>3, <2>1, <2>2, ContractTerms DEF PhaseOf, Settled
  <2> QED BY <1>1, <1>3, <1>4, <2>3 DEF Becomes
<1>6. CASE ResolveOutcome(k)
  <2>1. PICK o \in Outcomes : row' = [row EXCEPT ![k].status = o.status, ![k].result = o.val]
    BY <1>6 DEF ResolveOutcome
  <2>2. row'[k].status = o.status /\ row'[k].result = o.val
    BY <1>0, <2>1
  <2>3. o.status \in Settled /\ o = Outcome(o.status, o.val)
    BY OutcomeParts
  <2>4. PhaseOf(k)' = o
    BY <2>2, <2>3 DEF PhaseOf, Settled
  <2> QED BY <1>1, <1>3, <1>4, <2>4 DEF Becomes
<1> QED BY <1>5, <1>6

(* A caller's or an operator's step is a step of the contract, or none. *)
LEMMA ContractRefined ==
    ASSUME SerialEngInv, [Next]_vars
    PROVE  [C!ContractNext]_C!contractVars
<1> DEFINE ph == [k \in Serial |-> PhaseOf(k)]
           ru == [k \in Serial |-> RunnerOf(k)]
           to == [k \in Serial |-> told[k]]
<1>1. ASSUME \A k \in Serial : Becomes(k, PhaseOf(k), RunnerOf(k), told[k])
      PROVE  UNCHANGED C!contractVars
  <2>1. ph' = ph /\ ru' = ru /\ to' = to
    BY <1>1 DEF Becomes, Serial
  <2> QED BY <2>1 DEF C!contractVars
<1>2. ASSUME NEW k \in Serial, NEW p, NEW r, NEW t, Becomes(k, p, r, t),
             \A j \in Serial \ {k} : Becomes(j, PhaseOf(j), RunnerOf(j), told[j])
      PROVE  /\ ph' = [ph EXCEPT ![k] = p] /\ ru' = [ru EXCEPT ![k] = r]
             /\ to' = [to EXCEPT ![k] = t]
             /\ ph[k] = PhaseOf(k) /\ ru[k] = RunnerOf(k) /\ to[k] = told[k]
             /\ r = RunnerOf(k) => ru' = ru
             /\ t = told[k] => to' = to
             /\ p = PhaseOf(k) => ph' = ph
  BY <1>2 DEF Becomes, Serial
<1>3. ASSUME NEW c \in Callers, CallerNext(c)
      PROVE  [C!ContractNext]_C!contractVars
  <2>1. \A j \in Serial : ~OnKey(c, j) => Becomes(j, PhaseOf(j), RunnerOf(j), told[j])
    BY <1>3, OtherPhases DEF Becomes
  <2>2. CASE \A k \in Serial : ~OnKey(c, k)
    BY <1>1, <2>1, <2>2
  <2>3. CASE \E k \in Serial : OnKey(c, k)
    <3>1. PICK k \in Serial : OnKey(c, k)
      BY <2>3
    <3>2. \A j \in Serial \ {k} : Becomes(j, PhaseOf(j), RunnerOf(j), told[j])
      BY <2>1, <3>1 DEF OnKey
    <3>3. ContractStep(c, k)
      BY <1>3, <3>1, OwnPhase
    <3>4. CASE Becomes(k, PhaseOf(k), RunnerOf(k), told[k])
      <4>1. \A j \in Serial : Becomes(j, PhaseOf(j), RunnerOf(j), told[j])
        BY <3>2, <3>4
      <4> QED BY <1>1, <4>1
    <3>5. CASE /\ RunnerOf(k) = None
               /\ PhaseOf(k) = C!New \/ (PhaseOf(k) = C!Doubt /\ c \in Probing)
               /\ Becomes(k, C!Running, c, told[k])
      <4>a. /\ ph' = [ph EXCEPT ![k] = C!Running] /\ ru' = [ru EXCEPT ![k] = c] /\ to' = to
            /\ ph[k] = PhaseOf(k) /\ ru[k] = RunnerOf(k) /\ to[k] = told[k]
        BY <3>2, <3>5 DEF Becomes, Serial
      <4>1. C!Start(c, k)
        BY <3>5, <4>a DEF C!Start
      <4> QED BY <4>1 DEF C!ContractNext
    <3>6. CASE /\ PhaseOf(k) = C!Running /\ RunnerOf(k) = c
               /\ \E o \in Outcomes : Becomes(k, o, None, told[k] \cup {o})
      <4>1. PICK o \in Outcomes : Becomes(k, o, None, told[k] \cup {o})
        BY <3>6
      <4>a. /\ ph' = [ph EXCEPT ![k] = o] /\ ru' = [ru EXCEPT ![k] = None] /\ to' = [to EXCEPT ![k] = to[k] \cup {o}]
            /\ ph[k] = PhaseOf(k) /\ ru[k] = RunnerOf(k) /\ to[k] = told[k]
        BY <3>2, <4>1 DEF Becomes, Serial
      <4>2. C!Finish(c, k)
        BY <3>6, <4>a, ContractTerms DEF C!Finish
      <4> QED BY <4>2 DEF C!ContractNext
    <3>7. CASE /\ PhaseOf(k) = C!Running /\ RunnerOf(k) = c
               /\ Becomes(k, C!Doubt, None, told[k])
      <4>a. /\ ph' = [ph EXCEPT ![k] = C!Doubt] /\ ru' = [ru EXCEPT ![k] = None] /\ to' = to
            /\ ph[k] = PhaseOf(k) /\ ru[k] = RunnerOf(k) /\ to[k] = told[k]
        BY <3>2, <3>7 DEF Becomes, Serial
      <4>1. C!Lose(c, k)
        BY <3>7, <4>a DEF C!Lose
      <4> QED BY <4>1 DEF C!ContractNext
    <3>8. CASE /\ PhaseOf(k) = C!Doubt
               /\ \E o \in C!Committed : Becomes(k, o, RunnerOf(k), told[k] \cup {o})
      <4>1. PICK o \in C!Committed : Becomes(k, o, RunnerOf(k), told[k] \cup {o})
        BY <3>8
      <4>a. /\ ph' = [ph EXCEPT ![k] = o] /\ ru' = ru /\ to' = [to EXCEPT ![k] = to[k] \cup {o}]
            /\ ph[k] = PhaseOf(k) /\ ru[k] = RunnerOf(k) /\ to[k] = told[k]
        BY <3>2, <4>1 DEF Becomes, Serial
      <4>2. C!Adopt(k)
        BY <3>8, <4>a DEF C!Adopt
      <4> QED BY <4>2 DEF C!ContractNext
    <3>9. CASE PhaseOf(k) = C!Doubt /\ Becomes(k, C!InReview, RunnerOf(k), told[k])
      <4>1. C!Review(k)
        BY <1>2, <3>2, <3>9 DEF C!Review
      <4> QED BY <4>1 DEF C!ContractNext
    <3>10. CASE /\ PhaseOf(k) \in Outcomes
                /\ Becomes(k, PhaseOf(k), RunnerOf(k), told[k] \cup {PhaseOf(k)})
      <4>a. /\ ph' = ph /\ ru' = ru /\ to' = [to EXCEPT ![k] = to[k] \cup {ph[k]}]
            /\ ph[k] = PhaseOf(k) /\ ru[k] = RunnerOf(k) /\ to[k] = told[k]
        BY <3>2, <3>10 DEF Becomes, Serial
      <4>1. C!Tell(k)
        BY <3>10, <4>a, ContractTerms DEF C!Tell
      <4> QED BY <4>1 DEF C!ContractNext
    <3> QED BY <3>3, <3>4, <3>5, <3>6, <3>7, <3>8, <3>9, <3>10 DEF ContractStep
  <2> QED BY <2>2, <2>3
<1>4. ASSUME NEW k \in Keys, ResolveRetry(k) \/ ResolveOutcome(k)
      PROVE  [C!ContractNext]_C!contractVars
  <2>1. ASSUME NEW j \in Serial, j # k
        PROVE  Becomes(j, PhaseOf(j), RunnerOf(j), told[j])
    <3>1. row'[j] = row[j] /\ call' = call /\ told' = told
      BY <1>4, <2>1 DEF ResolveRetry, ResolveOutcome, SerialEngInv, EngInv, TypeOK, Serial
    <3>2. \A d \in Callers : InFlight(d, j)' <=> InFlight(d, j)
      BY <3>1 DEF InFlight, OnKey, AtPc
    <3> QED BY <3>1, <3>2, SameKey DEF Becomes
  <2>2. CASE k \notin Serial
    BY <1>1, <2>1, <2>2
  <2>3. CASE k \in Serial
    <3>1. PICK p \in Outcomes \cup {C!New} : Becomes(k, p, RunnerOf(k), told[k])
      BY <1>4, <2>3, ResolvePhase
    <3>2. PhaseOf(k) = C!InReview
      BY <1>4, <2>3, ResolvePhase
    <3>3. \A j \in Serial \ {k} : Becomes(j, PhaseOf(j), RunnerOf(j), told[j])
      BY <2>1
    <3>4. C!OperatorResolve(k)
      BY <1>2, <2>3, <3>1, <3>2, <3>3, ContractTerms DEF C!OperatorResolve
    <3> QED BY <2>3, <3>4 DEF C!ContractNext
  <2> QED BY <2>2, <2>3
<1>5. CASE UNCHANGED vars
  <2>1. UNCHANGED <<row, call, told>>
    BY <1>5 DEF vars
  <2>2. \A k \in Serial : \A d \in Callers : InFlight(d, k)' <=> InFlight(d, k)
    BY <2>1 DEF InFlight, OnKey, AtPc
  <2>3. \A k \in Serial : Becomes(k, PhaseOf(k), RunnerOf(k), told[k])
    BY <2>1, <2>2, SameKey DEF Becomes
  <2> QED BY <1>1, <2>3
<1> QED BY <1>3, <1>4, <1>5 DEF Next

LEMMA ContractAtFirst == Init => C!ContractInit
<1> SUFFICES ASSUME Init PROVE C!ContractInit
  OBVIOUS
<1>1. \A k \in Serial : \A d \in Callers : ~InFlight(d, k)
  BY DEF Init, InFlight, OnKey, AtPc, Idle, At
<1>2. \A k \in Serial : RunnerOf(k) = None
  BY <1>1, NoRunner
<1>3. \A k \in Serial : k \in Keys
  BY DEF Serial
<1>4. \A k \in Serial : PhaseOf(k) = C!New /\ told[k] = {}
  BY <1>2, <1>3, ContractTerms DEF Init, NewRow, PhaseOf, Settled, Reconciles
<1> QED BY <1>2, <1>4 DEF C!ContractInit

(* engine.go:62-89: with any callers, crashes, probes and operators, the      *)
(* calls of a serial key of either engine implement the interface's contract. *)
THEOREM SerialContract == Spec => Contract
<1>1. SerialEngInv /\ [Next]_vars => [C!ContractNext]_C!contractVars
  BY ContractRefined
<1> QED BY <1>1, SerialInvariant, ContractAtFirst, PTL DEF Spec, Contract, C!ContractSpec

-----------------------------------------------------------------------------
(* Timers. *)

WaitPlaces == [pc : {"idle", "timer", "rung", "await", "delete", "answer", "sleep"},
               on : Topics \cup Timers \cup {NoWait}, n : Int]

TimerTypes ==
    /\ time \in Nat
    /\ deadline \in [Timers -> Int] /\ due \in [Timers -> Int]
    /\ wait \in [Waiters -> WaitPlaces]

(* The recorded deadline is the first call's, and a call that waits for it    *)
(* waits for one that is recorded.                                            *)
TimerInv ==
    /\ TimerTypes
    /\ deadline = due
    /\ \A w \in Waiters : wait[w].pc \in {"timer", "rung"} =>
          wait[w].on \in Timers /\ due[wait[w].on] # -1
    /\ TimerOnTime

LEMMA TimerStep ==
    ASSUME TimerInv, NEW w \in Waiters, NEW k \in Timers, NEW d \in Durations, Timer(w, k, d)
    PROVE  TimerInv'
<1> USE WaitsAssumption
<1>0. /\ time \in Nat /\ deadline = due /\ due \in [Timers -> Int]
      /\ wait \in [Waiters -> WaitPlaces]
  BY DEF TimerInv, TimerTypes
<1> DEFINE D == Deadline(k, d)
           R == Remaining(w, k, d)
<1>1. d \in Nat /\ Skew(w, k) \in Int
  BY DEF Skew
<1>2. D \in Int /\ D # -1
  BY <1>0, <1>1 DEF Deadline
<1>3. R = D - time - Skew(w, k)
  BY DEF Remaining, Skew
<1>4. time' = time /\ deadline' = [deadline EXCEPT ![k] = D] /\ due' = deadline'
  <2>1. due' = IF due[k] = -1 THEN [due EXCEPT ![k] = time + d] ELSE due
    BY DEF Timer
  <2>2. deadline' = [deadline EXCEPT ![k] = D]
    BY DEF Timer
  <2>3. CASE due[k] = -1
    BY <1>0, <2>1, <2>2, <2>3 DEF Deadline, Timer
  <2>4. CASE due[k] # -1
    BY <1>0, <2>1, <2>2, <2>4 DEF Deadline, Timer
  <2> QED BY <2>3, <2>4
<1>5. due' \in [Timers -> Int] /\ due'[k] = D
  BY <1>0, <1>2, <1>4
<1>6. PICK n \in Int : /\ wait' = [wait EXCEPT ![w] = Place(IF R <= 0 THEN "rung" ELSE "timer", k, n)]
                       /\ n = IF R <= 0 THEN time ELSE time + R
  <2>1. R \in Int
    BY <1>0, <1>1, <1>2, <1>3
  <2> HIDE DEF D, R
  <2>2. (IF R <= 0 THEN time ELSE time + R) \in Int
    BY <1>0, <2>1
  <2>3. wait' = [wait EXCEPT ![w] = IF R <= 0 THEN Place("rung", k, time)
                                    ELSE Place("timer", k, time + R)]
    BY DEF Timer, Become, R
  <2> QED BY <2>2, <2>3
<1>7. /\ wait'[w].pc = IF R <= 0 THEN "rung" ELSE "timer"
      /\ wait'[w].on = k /\ wait'[w].n = n
      /\ \A v \in Waiters \ {w} : wait'[v] = wait[v]
  BY <1>0, <1>6 DEF Place
<1>8. wait' \in [Waiters -> WaitPlaces]
  BY <1>0, <1>6 DEF Place, WaitPlaces
<1>9. /\ wait'[w].pc = "rung" => n + Skew(w, k) >= D
      /\ wait'[w].pc = "timer" => n + Skew(w, k) = D
  <2>1. CASE R <= 0
    <3>1. n = time
      BY <1>6, <2>1
    <3>2. D - time - Skew(w, k) <= 0
      BY <1>3, <2>1
    <3> HIDE DEF D, R
    <3>3. n + Skew(w, k) >= D
      BY <1>0, <1>1, <1>2, <3>1, <3>2
    <3> QED BY <1>7, <2>1, <3>3
  <2>2. CASE ~(R <= 0)
    <3>1. n = time + (D - time - Skew(w, k))
      BY <1>3, <1>6, <2>2
    <3> HIDE DEF D, R
    <3>2. n + Skew(w, k) = D
      BY <1>0, <1>1, <1>2, <3>1
    <3> QED BY <1>7, <2>2, <3>2
  <2> QED BY <2>1, <2>2
<1>10. ASSUME NEW v \in Waiters, wait'[v].pc \in {"timer", "rung"}
       PROVE  /\ wait'[v].on \in Timers /\ due'[wait'[v].on] # -1
              /\ wait'[v].pc = "rung" => wait'[v].n + Skew(v, wait'[v].on) >= due'[wait'[v].on]
              /\ wait'[v].pc = "timer" => wait'[v].n + Skew(v, wait'[v].on) = due'[wait'[v].on]
  <2>1. CASE v = w
    BY <1>2, <1>5, <1>7, <1>9, <2>1
  <2>2. CASE v # w
    <3>1. wait'[v] = wait[v]
      BY <1>7, <2>2
    <3>2. wait[v].on \in Timers /\ due[wait[v].on] # -1
      BY <1>10, <3>1 DEF TimerInv
    <3>3. due'[wait[v].on] = due[wait[v].on]
      <4>1. due[k] # -1 => D = due[k]
        BY <1>0 DEF Deadline
      <4> HIDE DEF D
      <4> QED BY <1>0, <1>4, <3>2, <4>1
    <3>4. /\ wait[v].pc = "rung" => wait[v].n + Skew(v, wait[v].on) >= due[wait[v].on]
          /\ wait[v].pc = "timer" => wait[v].n + Skew(v, wait[v].on) = due[wait[v].on]
      BY DEF TimerInv, TimerOnTime
    <3> QED BY <3>1, <3>2, <3>3, <3>4
  <2> QED BY <2>1, <2>2
<1>11. TimerTypes'
  BY <1>0, <1>4, <1>5, <1>8 DEF TimerTypes
<1>12. TimerOnTime'
  BY <1>10 DEF TimerOnTime, Skew
<1> QED BY <1>4, <1>10, <1>11, <1>12 DEF TimerInv

(* ORDER BY id LIMIT 1: the oldest of some rows is one of them. *)
LEMMA OldestIs ==
    ASSUME NEW t, Takeable(t) # {}
    PROVE  /\ OldestOf(t) \in Queued(t) /\ OldestOf(t) \in Signals /\ OldestOf(t) \in Nat
           /\ \A r \in Queued(t) : OldestOf(t) <= r
<1> DEFINE S == Takeable(t)
<1>1. S \subseteq Signals /\ S = Queued(t)
  BY DEF Takeable, Queued
<1>2. Signals \subseteq Nat
  BY WaitsAssumption DEF Signals
<1> HIDE DEF S
<1>3. PICK s \in S : \A r \in S : ~(<<r, s>> \in OpToRel(<, Nat))
  BY <1>1, <1>2, NatLessThanWellFounded, WFMin DEF S
<1>4. \A r \in S : ~(r < s)
  BY <1>1, <1>2, <1>3 DEF OpToRel
<1>5. \A r \in S : s <= r
  BY <1>1, <1>2, <1>4
<1>6. OldestOf(t) = CHOOSE x \in S : \A r \in S : x <= r
  BY DEF OldestOf, Least, S
<1>7. OldestOf(t) \in S /\ \A r \in S : OldestOf(t) <= r
  BY <1>5, <1>6
<1> QED BY <1>1, <1>2, <1>7

(* The steps of a wait that have nothing to do with timers. *)
SignalPlaces == [pc : {"idle", "await", "delete", "answer", "sleep"},
                 on : Topics \cup Timers \cup {NoWait}, n : Int]

LEMMA WaitMoves ==
    ASSUME TimerTypes, NEW w \in Waiters,
           \/ \E t \in Topics : AwaitSignal(w, t)
           \/ Rung(w) \/ DeleteLocks(w) \/ DeleteCommits(w) \/ Given(w)
           \/ FindsNothing(w) \/ PollsAgain(w) \/ Receive(w)
           \/ AwaitFails(w) \/ ContextEnds(w)
    PROVE  /\ \E r \in SignalPlaces : wait' = [wait EXCEPT ![w] = r]
           /\ UNCHANGED <<time, deadline, due>>
<1>0. wait \in [Waiters -> WaitPlaces]
  BY DEF TimerTypes
<1>1. /\ wait[w].on \in Topics \cup Timers \cup {NoWait} /\ wait[w].n \in Int
  BY <1>0 DEF WaitPlaces
<1>2. /\ Nowhere \in SignalPlaces
      /\ \A t \in Topics : Place("await", t, 0) \in SignalPlaces
      /\ \A pc \in {"await", "sleep"} : Place(pc, wait[w].on, 0) \in SignalPlaces
      /\ Place("answer", wait[w].on, wait[w].n) \in SignalPlaces
      /\ \A s \in Nat : Place("delete", wait[w].on, s) \in SignalPlaces
  BY <1>1 DEF Nowhere, Place, SignalPlaces
<1>3. CASE DeleteLocks(w)
  <2>1. OldestOf(wait[w].on) \in Nat
    BY <1>3, OldestIs DEF DeleteLocks
  <2> QED BY <1>2, <1>3, <2>1 DEF DeleteLocks, Become
<1>4. CASE ~DeleteLocks(w)
  BY <1>2, <1>4 DEF AwaitSignal, Rung, DeleteCommits, Given, FindsNothing, PollsAgain,
                    Receive, AwaitFails, ContextEnds, Become
<1> QED BY <1>3, <1>4

LEMMA TimerInvStep ==
    ASSUME TimerInv, [WaitsNext]_waitVars
    PROVE  TimerInv'
<1>0. /\ time \in Nat /\ deadline = due /\ due \in [Timers -> Int] /\ TimerTypes
      /\ wait \in [Waiters -> WaitPlaces]
  BY DEF TimerInv, TimerTypes
<1>1. CASE UNCHANGED <<deadline, due, wait>> /\ time' \in Nat
  <2>1. TimerTypes'
    BY <1>1 DEF TimerInv, TimerTypes
  <2> QED BY <1>1, <2>1 DEF TimerInv, TimerOnTime, Skew
<1>2. ASSUME NEW w \in Waiters, NEW r \in WaitPlaces, wait' = [wait EXCEPT ![w] = r],
             UNCHANGED <<time, deadline, due>>,
             r.pc \in {"timer", "rung"} =>
                /\ r.on \in Timers /\ due[r.on] # -1
                /\ r.pc = "rung" => r.n + Skew(w, r.on) >= due[r.on]
                /\ r.pc = "timer" => r.n + Skew(w, r.on) = due[r.on]
      PROVE  TimerInv'
  <2>1. TimerTypes'
    BY <1>0, <1>2 DEF TimerTypes
  <2>2. wait'[w] = r /\ \A v \in Waiters \ {w} : wait'[v] = wait[v]
    BY <1>0, <1>2
  <2>3. ASSUME NEW v \in Waiters, wait'[v].pc \in {"timer", "rung"}
        PROVE  /\ wait'[v].on \in Timers /\ due[wait'[v].on] # -1
               /\ wait'[v].pc = "rung" => wait'[v].n + Skew(v, wait'[v].on) >= due[wait'[v].on]
               /\ wait'[v].pc = "timer" => wait'[v].n + Skew(v, wait'[v].on) = due[wait'[v].on]
    <3>1. CASE v = w
      BY <1>2, <2>2, <2>3, <3>1
    <3>2. CASE v # w
      BY <2>2, <2>3, <3>2 DEF TimerInv, TimerOnTime
    <3> QED BY <3>1, <3>2
  <2>4. TimerOnTime'
    BY <1>2, <2>3 DEF TimerOnTime, Skew
  <2> QED BY <1>0, <1>2, <2>1, <2>3, <2>4 DEF TimerInv
<1>3. CASE Tick
  <2>1. UNCHANGED <<deadline, due, wait>> /\ time' \in Nat
    BY <1>0, <1>3 DEF Tick
  <2> QED BY <1>1, <2>1
<1>4. CASE \/ \E t \in Topics : SignalStarts(t) \/ Send(t)
           \/ \E s \in Signals : SignalEnds(s)
           \/ UNCHANGED waitVars
  <2>1. UNCHANGED <<time, deadline, due, wait>>
    BY <1>4 DEF SignalStarts, Send, SignalEnds, waitVars
  <2> QED BY <1>0, <1>1, <2>1
<1>5. ASSUME NEW w \in Waiters, Ring(w)
      PROVE  TimerInv'
  <2>0. wait[w].n \in Int /\ wait[w].on \in Timers /\ wait[w].pc = "timer"
        /\ due[wait[w].on] # -1 /\ wait[w].n + Skew(w, wait[w].on) = due[wait[w].on]
        /\ time >= wait[w].n
    BY <1>0, <1>5 DEF Ring, TimerInv, TimerOnTime, WaitPlaces
  <2>1. Skew(w, wait[w].on) \in Int
    BY WaitsAssumption DEF Skew
  <2>2. time + Skew(w, wait[w].on) >= due[wait[w].on]
    BY <1>0, <2>0, <2>1
  <2> DEFINE r == Place("rung", wait[w].on, time)
  <2>3. r.pc = "rung" /\ r.on = wait[w].on /\ r.n = time /\ r \in WaitPlaces
    BY <1>0, <2>0 DEF Place, WaitPlaces
  <2>4. wait' = [wait EXCEPT ![w] = r] /\ UNCHANGED <<time, deadline, due>>
    BY <1>5 DEF Ring, Become
  <2> HIDE DEF r
  <2> QED BY <1>2, <2>0, <2>2, <2>3, <2>4
<1>6. ASSUME NEW w \in Waiters,
           \/ \E t \in Topics : AwaitSignal(w, t)
           \/ Rung(w) \/ DeleteLocks(w) \/ DeleteCommits(w) \/ Given(w)
           \/ FindsNothing(w) \/ PollsAgain(w) \/ Receive(w)
           \/ AwaitFails(w) \/ ContextEnds(w)
      PROVE  TimerInv'
  <2>1. PICK r \in SignalPlaces : wait' = [wait EXCEPT ![w] = r]
    BY <1>0, <1>6, WaitMoves
  <2>2. r \in WaitPlaces /\ r.pc \notin {"timer", "rung"}
    BY DEF SignalPlaces, WaitPlaces
  <2>3. UNCHANGED <<time, deadline, due>>
    BY <1>0, <1>6, WaitMoves
  <2> QED BY <1>2, <2>1, <2>2, <2>3
<1> QED BY <1>3, <1>4, <1>5, <1>6, TimerStep DEF WaitsNext, Goes

LEMMA TimerInvInit == WaitsInit => TimerInv
BY WaitsAssumption DEF WaitsInit, TimerInv, TimerTypes, TimerOnTime, Nowhere, Place, WaitPlaces

(* engine.go:91-94, postgres.go:237-260, fake.go: whatever calls, durations   *)
(* and clocks, a timer rings when the first call's duration has elapsed by    *)
(* the caller's clock, and a call that takes it up waits for just that.       *)
THEOREM TimersOnTime == WaitsSpec => []TimerOnTime
<1>1. TimerInv /\ [WaitsNext]_waitVars => TimerInv'
  BY TimerInvStep
<1>2. TimerInv => TimerOnTime
  BY DEF TimerInv
<1> QED BY <1>1, <1>2, TimerInvInit, PTL DEF WaitsSpec

-----------------------------------------------------------------------------
(* Signals. *)

SigStates == [at : {"none", "open", "undone", "queued", "locked", "deleted", "lost"},
              topic : Topics \cup {NoWait}, before : SUBSET Signals]

SignalTypes ==
    /\ signal \in [Signals -> SigStates] /\ sent \in Nat
    /\ got \in [Signals -> Nat] /\ skipped \subseteq Signals

(* Ids are drawn in order. *)
Unsent == \A s \in Signals : s > sent => signal[s].at = "none"

(* What was there before a signal has a smaller id, and is not unsent again. *)
Earlier ==
    \A s \in Signals : \A r \in signal[s].before :
        /\ r < s /\ signal[r].topic = signal[s].topic
        /\ signal[r].at \in {"queued", "locked", "deleted", "lost"}

RowsLocked == \A s \in Signals : signal[s].at = "locked" => signal[s].topic \notin Channels

(* A row is locked after the rows before it, as it is taken. *)
LockedInOrder ==
    \A s \in Signals : signal[s].at \in {"locked", "deleted", "lost"} =>
        \A r \in signal[s].before : signal[r].at \in Taken \/ r \in skipped

(* The call whose DELETE has locked a row, or has committed and not answered  *)
(* yet, is the only one at it, and nobody was given that signal.              *)
SignalHolders ==
    \A w \in Waiters :
        /\ wait[w].pc = "delete" => wait[w].n \in Signals /\ signal[wait[w].n].at = "locked"
        /\ wait[w].pc = "answer" =>
              /\ wait[w].n \in Signals /\ signal[wait[w].n].at = "deleted"
              /\ got[wait[w].n] = 0
        /\ \A v \in Waiters :
              /\ wait[w].pc \in {"delete", "answer"} /\ wait[v].pc \in {"delete", "answer"}
              /\ wait[w].n = wait[v].n
              => v = w

(* Only a signal that is gone from its queue was given. *)
GivenGone ==
    \A s \in Signals : got[s] <= 1 /\ (got[s] # 0 => signal[s].at = "deleted")

OrderInv == SignalTypes /\ Unsent /\ Earlier /\ RowsLocked /\ LockedInOrder

(* A row's way. *)
RowWays == {<<"open", "queued">>, <<"open", "undone">>, <<"queued", "locked">>,
            <<"queued", "deleted">>, <<"locked", "deleted">>, <<"locked", "queued">>,
            <<"deleted", "lost">>}

(* A row that goes its way, after the ones before it when it is taken, leaves *)
(* the queue in order.                                                        *)
LEMMA RowMoves ==
    ASSUME OrderInv, NEW s \in Signals, NEW a, Move(s, a), sent' = sent,
           skipped \subseteq skipped', skipped' \subseteq Signals, got' \in [Signals -> Nat],
           <<signal[s].at, a>> \in RowWays,
           a = "locked" => signal[s].topic \notin Channels,
           signal[s].at = "queued" =>
              \A r \in signal[s].before : signal[r].at \in Taken \/ r \in skipped'
    PROVE  OrderInv'
<1>0. signal \in [Signals -> SigStates] /\ sent \in Nat
  BY DEF OrderInv, SignalTypes
<1>w. \/ signal[s].at = "open" /\ a \in {"queued", "undone"}
      \/ signal[s].at = "queued" /\ a \in {"locked", "deleted"}
      \/ signal[s].at = "locked" /\ a \in {"deleted", "queued"}
      \/ signal[s].at = "deleted" /\ a = "lost"
  BY DEF RowWays
<1>1. signal' = [signal EXCEPT ![s].at = a]
  BY DEF Move
<1>2. /\ signal'[s].at = a /\ signal'[s].topic = signal[s].topic
      /\ signal'[s].before = signal[s].before
      /\ \A r \in Signals \ {s} : signal'[r] = signal[r]
      /\ signal' \in [Signals -> SigStates]
  <2>1. signal[s] \in SigStates
    BY <1>0
  <2>2. a \in {"undone", "queued", "locked", "deleted", "lost"}
    BY <1>w
  <2>3. [signal[s] EXCEPT !.at = a] \in SigStates
    BY <2>1, <2>2 DEF SigStates
  <2> QED BY <1>0, <1>1, <2>1, <2>3 DEF SigStates
<1>3. SignalTypes'
  BY <1>0, <1>2 DEF SignalTypes
<1>4. Unsent'
  BY <1>2, <1>w DEF OrderInv, Unsent
<1>5. RowsLocked'
  BY <1>2, <1>w DEF OrderInv, RowsLocked
<1>6. \A r \in Signals : signal'[r].topic = signal[r].topic /\ signal'[r].before = signal[r].before
  BY <1>2
<1>7. /\ \A r \in Signals : signal[r].at \in Taken => signal'[r].at \in Taken
      /\ \A r \in Signals : signal[r].at \in {"queued", "locked", "deleted", "lost"} =>
            signal'[r].at \in {"queued", "locked", "deleted", "lost"}
  BY <1>2, <1>w DEF Taken
<1>8. \A x \in Signals : \A r \in signal[x].before : r \in Signals
  BY <1>0 DEF SigStates
<1>9. Earlier'
  BY <1>6, <1>7, <1>8 DEF OrderInv, Earlier
<1>10. LockedInOrder'
  <2> SUFFICES ASSUME NEW x \in Signals, signal'[x].at \in {"locked", "deleted", "lost"},
                      NEW r \in signal[x].before
               PROVE  signal'[r].at \in Taken \/ r \in skipped'
    BY <1>6 DEF LockedInOrder
  <2>1. \/ signal[x].at \in {"locked", "deleted", "lost"}
        \/ (x = s /\ signal[s].at = "queued")
    <3>1. CASE x = s
      BY <1>2, <1>w, <3>1
    <3>2. CASE x # s
      BY <1>2, <3>2
    <3> QED BY <3>1, <3>2
  <2>2. signal[r].at \in Taken \/ r \in skipped'
    BY <2>1 DEF OrderInv, LockedInOrder
  <2> QED BY <1>7, <1>8, <2>2
<1> QED BY <1>3, <1>4, <1>5, <1>9, <1>10 DEF OrderInv

(* A signal that is sent comes after what is there. *)
LEMMA RowArrives ==
    ASSUME OrderInv, NEW t \in Topics, NEW a \in {"open", "queued"}, NEW B,
           B \subseteq Queued(t) \cup Held(t), sent < MaxSignals, sent' = sent + 1,
           signal' = [signal EXCEPT ![sent + 1] = Sig(a, t, B)],
           UNCHANGED <<got, skipped>>
    PROVE  OrderInv'
<1> DEFINE n == sent + 1
<1>0. signal \in [Signals -> SigStates] /\ sent \in Nat
  BY DEF OrderInv, SignalTypes
<1>1. n \in Signals /\ n \in Nat /\ n > sent /\ \A s \in Signals : s \in Nat
  BY <1>0, WaitsAssumption DEF Signals
<1>2. signal[n].at = "none"
  BY <1>1 DEF OrderInv, Unsent
<1>3. B \subseteq Signals /\ \A r \in B : signal[r].topic = t
                                       /\ signal[r].at \in {"queued", "locked"}
  BY DEF Queued, Held
<1>4. \A r \in B : r <= sent
  BY <1>0, <1>1, <1>3 DEF OrderInv, Unsent
<1>5. Sig(a, t, B) \in SigStates
  BY <1>3 DEF Sig, SigStates
<1>6. /\ signal'[n].at = a /\ signal'[n].topic = t /\ signal'[n].before = B
      /\ \A r \in Signals \ {n} : signal'[r] = signal[r]
      /\ signal' \in [Signals -> SigStates]
  BY <1>0, <1>1, <1>5 DEF Sig
<1>7. SignalTypes'
  BY <1>0, <1>6 DEF OrderInv, SignalTypes
<1>8. Unsent'
  <2> SUFFICES ASSUME NEW s \in Signals, s > sent + 1 PROVE signal'[s].at = "none"
    BY DEF Unsent
  <2>1. s # n /\ s > sent
    BY <1>0, <1>1
  <2> QED BY <1>6, <2>1 DEF OrderInv, Unsent
<1>9. RowsLocked'
  BY <1>6 DEF OrderInv, RowsLocked
<1>10. \A x \in Signals : \A r \in signal[x].before : r \in Signals /\ r # n
  BY <1>0, <1>2 DEF OrderInv, Earlier, SigStates
<1>11. \A r \in B : r \in Signals /\ r # n /\ r < n
  BY <1>0, <1>1, <1>3, <1>4
<1> HIDE DEF n
<1>12. Earlier'
  <2> SUFFICES ASSUME NEW x \in Signals, NEW r \in signal'[x].before
               PROVE  /\ r < x /\ signal'[r].topic = signal'[x].topic
                      /\ signal'[r].at \in {"queued", "locked", "deleted", "lost"}
    BY DEF Earlier
  <2>1. CASE x = n
    BY <1>3, <1>6, <1>11, <2>1
  <2>2. CASE x # n
    BY <1>6, <1>10, <2>2 DEF OrderInv, Earlier
  <2> QED BY <2>1, <2>2
<1>13. LockedInOrder'
  <2> SUFFICES ASSUME NEW x \in Signals, signal'[x].at \in {"locked", "deleted", "lost"},
                      NEW r \in signal'[x].before
               PROVE  signal'[r].at \in Taken \/ r \in skipped'
    BY DEF LockedInOrder
  <2>1. x # n
    BY <1>6
  <2> QED BY <1>6, <1>10, <2>1 DEF OrderInv, LockedInOrder
<1> QED BY <1>7, <1>8, <1>9, <1>12, <1>13 DEF OrderInv

(* What is before the oldest row in the queue is taken, or locked. *)
LEMMA OldestFirst ==
    ASSUME OrderInv, NEW t, Takeable(t) # {}
    PROVE  \A r \in signal[OldestOf(t)].before :
              signal[r].at \in Taken \/ (r \in Held(t) /\ r < OldestOf(t))
<1> DEFINE s == OldestOf(t)
<1>1. s \in Queued(t) /\ s \in Signals /\ s \in Nat /\ \A r \in Queued(t) : s <= r
  BY OldestIs
<1>2. signal[s].topic = t
  BY <1>1 DEF Queued
<1> HIDE DEF s
<1>3. ASSUME NEW r \in signal[s].before
      PROVE  signal[r].at \in Taken \/ (r \in Held(t) /\ r < s)
  <2>1. /\ r \in Signals /\ r < s /\ signal[r].topic = t
        /\ signal[r].at \in {"queued", "locked", "deleted", "lost"}
    BY <1>1, <1>2 DEF OrderInv, Earlier, SignalTypes, SigStates
  <2>2. r \in Nat
    BY <2>1, WaitsAssumption DEF Signals
  <2>3. r \notin Queued(t)
    BY <1>1, <2>1, <2>2
  <2> QED BY <2>1, <2>3 DEF Queued, Held, Taken
<1> QED BY <1>3 DEF s

(* Every step leaves the queues in order. *)
LEMMA OrderStep ==
    ASSUME OrderInv, TimerTypes, SignalHolders, [WaitsNext]_waitVars
    PROVE  OrderInv'
<1>0. SignalTypes /\ got \in [Signals -> Nat] /\ skipped \subseteq Signals
  BY DEF OrderInv, SignalTypes
<1>1. CASE UNCHANGED <<sent, signal, skipped>> /\ got' \in [Signals -> Nat]
  BY <1>1 DEF OrderInv, SignalTypes, Unsent, Earlier, RowsLocked, LockedInOrder
<1>2. ASSUME NEW t \in Topics, SignalStarts(t) \/ Send(t)
      PROVE  OrderInv'
  <2>1. CASE SignalStarts(t)
    BY <2>1, RowArrives DEF SignalStarts
  <2>2. CASE Send(t)
    BY <2>2, RowArrives DEF Send
  <2> QED BY <1>2, <2>1, <2>2
<1>3. ASSUME NEW s \in Signals, SignalEnds(s)
      PROVE  OrderInv'
  <2>1. PICK a \in {"queued", "undone"} : Move(s, a)
    BY <1>3 DEF SignalEnds
  <2>2. signal[s].at = "open" /\ UNCHANGED <<sent, got, skipped>>
    BY <1>3 DEF SignalEnds
  <2>3. <<signal[s].at, a>> \in RowWays
    BY <2>2 DEF RowWays
  <2> QED BY <1>0, <2>1, <2>2, <2>3, RowMoves
<1>4. ASSUME NEW w \in Waiters, DeleteLocks(w)
      PROVE  OrderInv'
  <2> DEFINE t == wait[w].on
             s == OldestOf(wait[w].on)
  <2>1. /\ Takeable(t) # {} /\ t \notin Channels /\ Move(s, "locked")
        /\ skipped' = skipped \cup {r \in Held(t) : r < s} /\ UNCHANGED <<sent, got>>
    BY <1>4 DEF DeleteLocks
  <2>2. s \in Signals /\ signal[s].at = "queued" /\ signal[s].topic = t
    BY <2>1, OldestIs DEF Queued
  <2>3. \A r \in signal[s].before : signal[r].at \in Taken \/ r \in skipped'
    BY <2>1, OldestFirst
  <2>4. skipped' \subseteq Signals /\ skipped \subseteq skipped'
    BY <1>0, <2>1 DEF Held
  <2>5. <<signal[s].at, "locked">> \in RowWays
    BY <2>2 DEF RowWays
  <2> HIDE DEF s, t
  <2> QED BY <1>0, <2>1, <2>2, <2>3, <2>4, <2>5, RowMoves
<1>5. ASSUME NEW w \in Waiters, Receive(w)
      PROVE  OrderInv'
  <2> DEFINE t == wait[w].on
             s == OldestOf(wait[w].on)
  <2>1. /\ Takeable(t) # {} /\ t \in Channels /\ Move(s, "deleted")
        /\ got' = [got EXCEPT ![s] = @ + 1] /\ UNCHANGED <<sent, skipped>>
    BY <1>5 DEF Receive
  <2>2. s \in Signals /\ signal[s].at = "queued"
    BY <2>1, OldestIs DEF Queued
  <2>3. Held(t) = {}
    BY <2>1 DEF Held, OrderInv, RowsLocked
  <2>4. \A r \in signal[s].before : signal[r].at \in Taken
    BY <2>1, <2>3, OldestFirst
  <2>5. got' \in [Signals -> Nat]
    BY <1>0, <2>1, <2>2
  <2>6. <<signal[s].at, "deleted">> \in RowWays
    BY <2>2 DEF RowWays
  <2> HIDE DEF s, t
  <2> QED BY <1>0, <2>1, <2>2, <2>4, <2>5, <2>6, RowMoves
<1>6. ASSUME NEW w \in Waiters, DeleteCommits(w)
      PROVE  OrderInv'
  <2>1. /\ Move(wait[w].n, "deleted") /\ UNCHANGED <<sent, got, skipped>>
        /\ wait[w].n \in Signals /\ signal[wait[w].n].at = "locked"
    BY <1>6 DEF DeleteCommits, SignalHolders
  <2>2. <<signal[wait[w].n].at, "deleted">> \in RowWays
    BY <2>1 DEF RowWays
  <2> QED BY <1>0, <2>1, <2>2, RowMoves
<1>7. ASSUME NEW w \in Waiters, AwaitFails(w)
      PROVE  OrderInv'
  <2>0. UNCHANGED <<sent, got, skipped>>
    BY <1>7 DEF AwaitFails
  <2>1. CASE wait[w].pc = "delete"
    <3>1. Move(wait[w].n, "queued")
      BY <1>7, <2>1 DEF AwaitFails, Undo
    <3>2. wait[w].n \in Signals /\ signal[wait[w].n].at = "locked"
      BY <2>1 DEF SignalHolders
    <3>3. <<signal[wait[w].n].at, "queued">> \in RowWays
      BY <3>2 DEF RowWays
    <3> QED BY <1>0, <2>0, <3>1, <3>2, <3>3, RowMoves
  <2>2. CASE wait[w].pc = "answer"
    <3>1. Move(wait[w].n, "lost")
      BY <1>7, <2>2 DEF AwaitFails
    <3>2. wait[w].n \in Signals /\ signal[wait[w].n].at = "deleted"
      BY <2>2 DEF SignalHolders
    <3>3. <<signal[wait[w].n].at, "lost">> \in RowWays
      BY <3>2 DEF RowWays
    <3> QED BY <1>0, <2>0, <3>1, <3>2, <3>3, RowMoves
  <2>3. CASE wait[w].pc = "await"
    <3>1. signal' = signal
      BY <1>7, <2>3 DEF AwaitFails
    <3> QED BY <1>0, <1>1, <2>0, <3>1
  <2> QED BY <1>7, <2>1, <2>2, <2>3 DEF AwaitFails
<1>8. ASSUME NEW w \in Waiters, Given(w)
      PROVE  OrderInv'
  <2>1. wait[w].n \in Signals
    BY <1>8 DEF Given, SignalHolders
  <2>2. UNCHANGED <<sent, signal, skipped>> /\ got' \in [Signals -> Nat]
    BY <1>0, <1>8, <2>1 DEF Given
  <2> QED BY <1>1, <2>2
<1>9. CASE \/ Tick \/ UNCHANGED waitVars
           \/ \E w \in Waiters :
                 \/ \E k \in Timers, d \in Durations : Timer(w, k, d)
                 \/ \E t \in Topics : AwaitSignal(w, t)
                 \/ Ring(w) \/ Rung(w) \/ FindsNothing(w) \/ PollsAgain(w) \/ ContextEnds(w)
  <2>1. UNCHANGED <<sent, signal, skipped, got>>
    BY <1>9 DEF Tick, waitVars, Timer, AwaitSignal, Ring, Rung, FindsNothing, PollsAgain,
                ContextEnds
  <2> QED BY <1>0, <1>1, <2>1
<1> QED BY <1>2, <1>3, <1>4, <1>5, <1>6, <1>7, <1>8, <1>9 DEF WaitsNext, Goes

(* A call that moves, and leaves the rows of the others alone, leaves one     *)
(* holder to a row.                                                           *)
LEMMA HoldersFrame ==
    ASSUME SignalHolders, TimerTypes, NEW w \in Waiters, NEW r,
           wait' = [wait EXCEPT ![w] = r],
           \A v \in Waiters \ {w} : wait[v].pc \in {"delete", "answer"} =>
              /\ signal'[wait[v].n].at = signal[wait[v].n].at
              /\ got'[wait[v].n] = got[wait[v].n],
           r.pc \in {"delete", "answer"} =>
              /\ r.n \in Signals
              /\ r.pc = "delete" => signal'[r.n].at = "locked"
              /\ r.pc = "answer" => signal'[r.n].at = "deleted" /\ got'[r.n] = 0
              /\ \A v \in Waiters \ {w} : wait[v].pc \in {"delete", "answer"} =>
                    wait[v].n # r.n
    PROVE  SignalHolders'
<1>1. wait'[w] = r /\ \A v \in Waiters \ {w} : wait'[v] = wait[v]
  BY DEF TimerTypes
<1>2. ASSUME NEW v \in Waiters
      PROVE  /\ wait'[v].pc = "delete" =>
                    wait'[v].n \in Signals /\ signal'[wait'[v].n].at = "locked"
             /\ wait'[v].pc = "answer" =>
                    /\ wait'[v].n \in Signals /\ signal'[wait'[v].n].at = "deleted"
                    /\ got'[wait'[v].n] = 0
  <2>1. CASE v = w
    BY <1>1, <2>1
  <2>2. CASE v # w
    BY <1>1, <2>2 DEF SignalHolders
  <2> QED BY <2>1, <2>2
<1>3. ASSUME NEW v \in Waiters, NEW u \in Waiters, wait'[v].pc \in {"delete", "answer"},
             wait'[u].pc \in {"delete", "answer"}, wait'[v].n = wait'[u].n
      PROVE  u = v
  <2>1. CASE u # w /\ v # w
    BY <1>1, <1>3, <2>1 DEF SignalHolders
  <2>2. CASE u = w /\ v # w
    BY <1>1, <1>3, <2>2
  <2>3. CASE u # w /\ v = w
    BY <1>1, <1>3, <2>3
  <2> QED BY <2>1, <2>2, <2>3
<1> QED BY <1>2, <1>3 DEF SignalHolders

(* Every step keeps one holder to a row and gives no signal twice. *)
LEMMA HoldersStep ==
    ASSUME OrderInv, TimerTypes, SignalHolders, GivenGone, [WaitsNext]_waitVars
    PROVE  SignalHolders' /\ GivenGone'
<1>0. /\ signal \in [Signals -> SigStates] /\ sent \in Nat /\ got \in [Signals -> Nat]
      /\ wait \in [Waiters -> WaitPlaces]
  BY DEF OrderInv, SignalTypes, TimerTypes
<1>1. ASSUME NEW w \in Waiters, NEW s \in Signals, NEW a, Move(s, a)
      PROVE  signal'[s].at = a /\ \A r \in Signals \ {s} : signal'[r] = signal[r]
  BY <1>0, <1>1 DEF Move, SigStates
<1>2. CASE UNCHANGED <<signal, got, wait>>
  BY <1>2 DEF SignalHolders, GivenGone
<1>3. ASSUME NEW s \in Signals, signal[s].at \in {"none", "open"}, UNCHANGED <<got, wait>>,
             \A r \in Signals \ {s} : signal'[r] = signal[r]
      PROVE  SignalHolders' /\ GivenGone'
  BY <1>3 DEF SignalHolders, GivenGone
<1>4. ASSUME NEW t \in Topics, SignalStarts(t) \/ Send(t)
      PROVE  SignalHolders' /\ GivenGone'
  <2>1. sent + 1 \in Signals /\ sent + 1 > sent
    BY <1>0, <1>4, WaitsAssumption DEF SignalStarts, Send, Signals
  <2>2. signal[sent + 1].at = "none"
    BY <2>1 DEF OrderInv, Unsent
  <2>3. UNCHANGED <<got, wait>> /\ \A r \in Signals \ {sent + 1} : signal'[r] = signal[r]
    BY <1>0, <1>4, <2>1 DEF SignalStarts, Send
  <2> QED BY <1>3, <2>1, <2>2, <2>3
<1>5. ASSUME NEW s \in Signals, SignalEnds(s)
      PROVE  SignalHolders' /\ GivenGone'
  <2>1. UNCHANGED <<got, wait>> /\ \A r \in Signals \ {s} : signal'[r] = signal[r]
    BY <1>0, <1>5 DEF SignalEnds, Move
  <2>2. signal[s].at = "open"
    BY <1>5 DEF SignalEnds
  <2> QED BY <1>3, <2>1, <2>2
<1>6. ASSUME NEW w \in Waiters, NEW r, r.pc \notin {"delete", "answer"},
             wait' = [wait EXCEPT ![w] = r], UNCHANGED <<signal, got>>
      PROVE  SignalHolders' /\ GivenGone'
  <2>1. SignalHolders'
    BY <1>6, HoldersFrame
  <2> QED BY <1>6, <2>1 DEF GivenGone
<1>7. ASSUME NEW w \in Waiters, NEW k \in Timers, NEW d \in Durations, Timer(w, k, d)
      PROVE  SignalHolders' /\ GivenGone'
  <2>1. \A n : Place("rung", k, n).pc = "rung" /\ Place("timer", k, n).pc = "timer"
    BY DEF Place
  <2> QED BY <1>6, <1>7, <2>1 DEF Timer, Become
<1>8. ASSUME NEW w \in Waiters, NEW t \in Topics, AwaitSignal(w, t)
      PROVE  SignalHolders' /\ GivenGone'
  <2>1. Place("await", t, 0).pc = "await"
    BY DEF Place
  <2> QED BY <1>6, <1>8, <2>1 DEF AwaitSignal, Become
<1>9. ASSUME NEW w \in Waiters, Ring(w) \/ Rung(w) \/ FindsNothing(w) \/ PollsAgain(w)
                                    \/ ContextEnds(w)
      PROVE  SignalHolders' /\ GivenGone'
  <2>1. /\ Place("rung", wait[w].on, time).pc = "rung" /\ Nowhere.pc = "idle"
        /\ Place("sleep", wait[w].on, 0).pc = "sleep"
        /\ Place("await", wait[w].on, 0).pc = "await"
    BY DEF Place, Nowhere
  <2> QED BY <1>6, <1>9, <2>1 DEF Ring, Rung, FindsNothing, PollsAgain, ContextEnds, Become
<1>10. ASSUME NEW w \in Waiters, DeleteLocks(w)
       PROVE  SignalHolders' /\ GivenGone'
  <2> DEFINE s == OldestOf(wait[w].on)
             r == Place("delete", wait[w].on, s)
  <2>1. Takeable(wait[w].on) # {} /\ Move(s, "locked") /\ wait' = [wait EXCEPT ![w] = r]
        /\ got' = got
    BY <1>10 DEF DeleteLocks, Become
  <2>2. s \in Signals /\ signal[s].at = "queued"
    BY <2>1, OldestIs DEF Queued
  <2>3. r.pc = "delete" /\ r.n = s
    BY DEF Place
  <2> HIDE DEF s, r
  <2>4. signal'[s].at = "locked" /\ \A x \in Signals \ {s} : signal'[x] = signal[x]
    BY <1>1, <2>1, <2>2
  <2>5. \A v \in Waiters : wait[v].pc \in {"delete", "answer"} =>
           wait[v].n \in Signals /\ wait[v].n # s
    BY <2>2 DEF SignalHolders
  <2>6. SignalHolders'
    BY <2>1, <2>2, <2>3, <2>4, <2>5, HoldersFrame
  <2>7. GivenGone'
    BY <2>1, <2>2, <2>4 DEF GivenGone
  <2> QED BY <2>6, <2>7
<1>11. ASSUME NEW w \in Waiters, DeleteCommits(w)
       PROVE  SignalHolders' /\ GivenGone'
  <2> DEFINE s == wait[w].n
             r == Place("answer", wait[w].on, s)
  <2>1. Move(s, "deleted") /\ wait' = [wait EXCEPT ![w] = r] /\ got' = got
        /\ wait[w].pc = "delete"
    BY <1>11 DEF DeleteCommits, Become
  <2>2. s \in Signals /\ signal[s].at = "locked"
    BY <2>1 DEF SignalHolders
  <2>3. r.pc = "answer" /\ r.n = s
    BY DEF Place
  <2>4. got[s] = 0
    BY <2>2 DEF GivenGone
  <2>5. \A v \in Waiters \ {w} : wait[v].pc \in {"delete", "answer"} =>
           wait[v].n \in Signals /\ wait[v].n # s
    BY <2>1 DEF SignalHolders
  <2> HIDE DEF s, r
  <2>6. signal'[s].at = "deleted" /\ \A x \in Signals \ {s} : signal'[x] = signal[x]
    BY <1>1, <2>1, <2>2
  <2>7. SignalHolders'
    BY <2>1, <2>2, <2>3, <2>4, <2>5, <2>6, HoldersFrame
  <2>8. GivenGone'
    BY <2>1, <2>4, <2>6 DEF GivenGone
  <2> QED BY <2>7, <2>8
<1>12. ASSUME NEW w \in Waiters, Given(w)
       PROVE  SignalHolders' /\ GivenGone'
  <2> DEFINE s == wait[w].n
  <2>1. /\ wait[w].pc = "answer" /\ got' = [got EXCEPT ![s] = @ + 1]
        /\ wait' = [wait EXCEPT ![w] = Nowhere] /\ signal' = signal
    BY <1>12 DEF Given, Become
  <2>2. s \in Signals /\ signal[s].at = "deleted" /\ got[s] = 0
    BY <2>1 DEF SignalHolders
  <2>3. \A v \in Waiters \ {w} : wait[v].pc \in {"delete", "answer"} =>
           wait[v].n \in Signals /\ wait[v].n # s
    BY <2>1 DEF SignalHolders
  <2> HIDE DEF s
  <2>4. got'[s] = 1 /\ \A x \in Signals \ {s} : got'[x] = got[x]
    BY <1>0, <2>1, <2>2
  <2>5. Nowhere.pc = "idle"
    BY DEF Nowhere, Place
  <2>6. SignalHolders'
    BY <2>1, <2>3, <2>4, <2>5, HoldersFrame
  <2>7. GivenGone'
    BY <2>1, <2>2, <2>4 DEF GivenGone
  <2> QED BY <2>6, <2>7
<1>13. ASSUME NEW w \in Waiters, AwaitFails(w)
       PROVE  SignalHolders' /\ GivenGone'
  <2>0. /\ got' = got /\ wait' = [wait EXCEPT ![w] = Nowhere] /\ Nowhere.pc = "idle"
        /\ wait[w].pc \in {"await", "delete", "answer"}
    BY <1>13 DEF AwaitFails, Become, Nowhere, Place
  <2>1. CASE wait[w].pc = "await"
    <3>1. signal' = signal
      BY <1>13, <2>1 DEF AwaitFails
    <3> QED BY <1>6, <2>0, <3>1
  <2>2. CASE wait[w].pc \in {"delete", "answer"}
    <3> DEFINE s == wait[w].n
    <3>1. PICK a \in {"queued", "lost"} : Move(s, a)
      BY <1>13, <2>2 DEF AwaitFails, Undo
    <3>2. s \in Signals /\ got[s] = 0
      BY <2>2 DEF SignalHolders, GivenGone
    <3>3. \A v \in Waiters \ {w} : wait[v].pc \in {"delete", "answer"} =>
             wait[v].n \in Signals /\ wait[v].n # s
      BY <2>2 DEF SignalHolders
    <3> HIDE DEF s
    <3>4. \A x \in Signals \ {s} : signal'[x] = signal[x]
      BY <1>1, <3>1, <3>2
    <3>5. SignalHolders'
      BY <2>0, <3>3, <3>4, HoldersFrame
    <3>6. GivenGone'
      BY <2>0, <3>2, <3>4 DEF GivenGone
    <3> QED BY <3>5, <3>6
  <2> QED BY <2>0, <2>1, <2>2
<1>14. ASSUME NEW w \in Waiters, Receive(w)
       PROVE  SignalHolders' /\ GivenGone'
  <2> DEFINE s == OldestOf(wait[w].on)
  <2>1. /\ Takeable(wait[w].on) # {} /\ Move(s, "deleted")
        /\ got' = [got EXCEPT ![s] = @ + 1] /\ wait' = [wait EXCEPT ![w] = Nowhere]
    BY <1>14 DEF Receive, Become
  <2>2. s \in Signals /\ signal[s].at = "queued" /\ got[s] = 0
    BY <2>1, OldestIs DEF Queued, GivenGone
  <2> HIDE DEF s
  <2>3. \A v \in Waiters : wait[v].pc \in {"delete", "answer"} =>
           wait[v].n \in Signals /\ wait[v].n # s
    BY <2>2 DEF SignalHolders
  <2>4. signal'[s].at = "deleted" /\ \A x \in Signals \ {s} : signal'[x] = signal[x]
    BY <1>1, <2>1, <2>2
  <2>5. got'[s] = 1 /\ \A x \in Signals \ {s} : got'[x] = got[x]
    BY <1>0, <2>1, <2>2
  <2>6. Nowhere.pc = "idle"
    BY DEF Nowhere, Place
  <2>7. SignalHolders'
    BY <2>1, <2>3, <2>4, <2>5, <2>6, HoldersFrame
  <2>8. GivenGone'
    BY <2>4, <2>5 DEF GivenGone
  <2> QED BY <2>7, <2>8
<1>15. CASE Tick \/ UNCHANGED waitVars
  BY <1>2, <1>15 DEF Tick, waitVars
<1> QED BY <1>4, <1>5, <1>7, <1>8, <1>9, <1>10, <1>11, <1>12, <1>13, <1>14, <1>15
        DEF WaitsNext, Goes

-----------------------------------------------------------------------------
WaitsInv == TimerInv /\ OrderInv /\ SignalHolders /\ GivenGone

LEMMA WaitsInvInit == WaitsInit => WaitsInv
<1> SUFFICES ASSUME WaitsInit PROVE WaitsInv
  OBVIOUS
<1>1. OrderInv
  BY DEF WaitsInit, OrderInv, SignalTypes, SigStates, Sig, Unsent, Earlier, RowsLocked,
         LockedInOrder
<1>2. SignalHolders /\ GivenGone
  BY DEF WaitsInit, SignalHolders, GivenGone, Nowhere, Place
<1> QED BY <1>1, <1>2, TimerInvInit DEF WaitsInv

(* The inductive invariant of the waits. *)
THEOREM WaitsInvariant == WaitsSpec => []WaitsInv
<1>1. WaitsInv /\ [WaitsNext]_waitVars => WaitsInv'
  BY TimerInvStep, OrderStep, HoldersStep DEF WaitsInv, TimerInv
<1> QED BY <1>1, WaitsInvInit, PTL DEF WaitsSpec

(* engine.go:96-98: a signal is given to one call at most, for any number of  *)
(* calls that wait for it, of either engine, and any of them that fail.       *)
THEOREM SignalGivenOnce == WaitsSpec => []SignalOnce
<1>1. WaitsInv => SignalOnce
  BY DEF WaitsInv, GivenGone, SignalOnce
<1> QED BY <1>1, WaitsInvariant, PTL

(* engine.go:97: a signal is taken after those that were there when it was    *)
(* sent, but for one that another call had locked at that moment.             *)
THEOREM SignalsInOrder == WaitsSpec => []SignalFifo
<1>1. WaitsInv => SignalFifo
  BY DEF WaitsInv, OrderInv, LockedInOrder, SignalFifo, Taken
<1> QED BY <1>1, WaitsInvariant, PTL
=============================================================================
