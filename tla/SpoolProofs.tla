---------------------------- MODULE SpoolProofs -----------------------------
(* Proofs about Spool, for every number of processes, records, crashes and    *)
(* filesystem failures: the types, that no acknowledged record is lost, and   *)
(* the order in which records reach Ledger.                                   *)
EXTENDS Spool, TLAPS

(* A claim is about to be removed only for a record Ledger has accepted. *)
SentLanded == \A p \in Procs : flush[p].pc = "sent" => flush[p].cur \in landed

SpoolInv == TypeOK /\ SentLanded /\ AckedKept

LoopStates == [pc : {"down", "recover", "wait", "next"},
               todo : SUBSET Recs, cur : {None}]
BusyStates == [pc : {"claimed", "sent", "back"},
               todo : SUBSET Recs, cur : Recs]

(* What one step does to the delivery loops. *)
LEMMA FlushTyped ==
    ASSUME TypeOK, Next
    PROVE  flush' \in [Procs -> LoopStates \cup BusyStates]
<1>0. flush \in [Procs -> LoopStates \cup BusyStates]
  BY DEF TypeOK, LoopStates, BusyStates
<1>1. ASSUME NEW p \in Procs, NEW pc \in {"down", "recover", "wait", "next"},
             NEW todo \in SUBSET Recs, flush' = [flush EXCEPT ![p] = Loop(pc, todo)]
      PROVE  flush' \in [Procs -> LoopStates \cup BusyStates]
  BY <1>0, <1>1 DEF Loop, LoopStates
<1>2. ASSUME NEW p \in Procs, NEW pc \in {"sent", "back"}, flush[p].pc = "claimed",
             flush' = [flush EXCEPT ![p].pc = pc]
      PROVE  flush' \in [Procs -> LoopStates \cup BusyStates]
  <2>1. flush[p] \in BusyStates
    BY <1>0, <1>2 DEF LoopStates
  <2>2. [flush[p] EXCEPT !.pc = pc] \in BusyStates
    BY <2>1 DEF BusyStates
  <2> QED BY <1>0, <1>2, <2>2
<1>3. ASSUME NEW p \in Procs
      PROVE  flush[p].todo \in SUBSET Recs
  BY <1>0 DEF LoopStates, BusyStates
<1>4. ASSUME NEW p \in Procs, EndPass(p)
      PROVE  flush' \in [Procs -> LoopStates \cup BusyStates]
  <2>1. {} \in SUBSET Recs
    OBVIOUS
  <2> QED BY <1>1, <1>4, <2>1 DEF EndPass
<1>5. ASSUME NEW p \in Procs, Start(p)
      PROVE  flush' \in [Procs -> LoopStates \cup BusyStates]
  <2>1. Orphans \in SUBSET Recs
    BY DEF Orphans
  <2> QED BY <1>1, <1>5, <2>1 DEF Start
<1>6. ASSUME NEW p \in Procs, NEW r \in Recs, RecoverOrphan(p, r) \/ SkipFile(p, r)
      PROVE  flush' \in [Procs -> LoopStates \cup BusyStates]
  <2>1. flush[p].todo \ {r} \in SUBSET Recs
    BY <1>3
  <2> QED BY <1>1, <1>6, <2>1 DEF RecoverOrphan, SkipFile
<1>7. ASSUME NEW p \in Procs, StartLoop(p) \/ Scan(p)
      PROVE  flush' \in [Procs -> LoopStates \cup BusyStates]
  BY <1>1, <1>7 DEF StartLoop, Scan
<1>8. ASSUME NEW p \in Procs, NEW r \in Recs, ClaimFile(p, r)
      PROVE  flush' \in [Procs -> LoopStates \cup BusyStates]
  <2>1. On("claimed", flush[p].todo, r) \in BusyStates
    BY <1>3 DEF On, BusyStates
  <2> QED BY <1>0, <1>4, <1>8, <2>1 DEF ClaimFile
<1>9. ASSUME NEW p \in Procs, Deliver(p) \/ DeliverAnswerLost(p) \/ DeliverFails(p)
      PROVE  flush' \in [Procs -> LoopStates \cup BusyStates]
  BY <1>2, <1>9 DEF Deliver, DeliverAnswerLost, DeliverFails, AfterSend
<1>10. ASSUME NEW p \in Procs, RemoveClaim(p)
       PROVE  flush' \in [Procs -> LoopStates \cup BusyStates]
  <2>1. flush[p].todo \ {flush[p].cur} \in SUBSET Recs
    BY <1>3
  <2> QED BY <1>1, <1>4, <1>10, <2>1 DEF RemoveClaim
<1>11. ASSUME NEW p \in Procs, PassDone(p) \/ PutBack(p) \/ RemoveMisses(p)
       PROVE  flush' \in [Procs -> LoopStates \cup BusyStates]
  BY <1>4, <1>11 DEF PassDone, PutBack, AfterFailure, RemoveMisses
<1>12. ASSUME NEW p \in Procs, Crash(p)
       PROVE  flush' \in [Procs -> LoopStates \cup BusyStates]
  <2>1. {} \in SUBSET Recs
    OBVIOUS
  <2> QED BY <1>1, <1>12, <2>1 DEF Crash, Down
<1>13. ASSUME NEW r \in Recs, RecordNext(r)
       PROVE  flush' = flush
  BY <1>13 DEF RecordNext, WriteTmp, Publish, RecordFails
<1> QED
  BY <1>0, <1>5, <1>6, <1>7, <1>8, <1>9, <1>10, <1>11, <1>12, <1>13
     DEF Next, LoopStep

Files == {"none", "tmp", "pending", "sending", "gone"}

(* A loop that is busy with a file knows which. *)
LEMMA Holding ==
    ASSUME TypeOK, NEW p \in Procs, flush[p].pc \in {"claimed", "sent", "back"}
    PROVE  flush[p].cur \in Recs
BY DEF TypeOK

(* A step of Record keeps the types. *)
LEMMA RecordTyped ==
    ASSUME TypeOK, NEW r \in Recs, RecordNext(r)
    PROVE  TypeOK'
<1> USE SpoolAssumption DEF TypeOK
<1>1. ASSUME NEW p \in Procs, WriteTmp(p, r)
      PROVE  TypeOK'
  <2>1. acked \in SUBSET Recs
    BY DEF acked
  <2> QED BY <1>1, <2>1 DEF WriteTmp, faults
<1>2. CASE Publish(r)
  BY <1>2 DEF Publish, faults
<1>3. CASE RecordFails(r)
  BY <1>3 DEF RecordFails, IOError
<1> QED BY <1>1, <1>2, <1>3 DEF RecordNext

(* A step of a delivery loop keeps the types of the files, of the records     *)
(* that landed or are stranded, and of the histories.                         *)
LEMMA LoopTyped ==
    ASSUME TypeOK, NEW p \in Procs, LoopStep(p) \/ Deliver(p) \/ Crash(p)
    PROVE  TypeOK'
<1> USE SpoolAssumption
<1>0. flush' \in [Procs -> LoopStates \cup BusyStates]
  BY FlushTyped DEF Next
<1>1. file' \in [Recs -> Files]
  <2>0. file \in [Recs -> Files]
    BY DEF TypeOK, Files
  <2>1. ASSUME NEW r \in Recs, RecoverOrphan(p, r) \/ ClaimFile(p, r)
        PROVE  file' \in [Recs -> Files]
    BY <2>0, <2>1 DEF RecoverOrphan, ClaimFile, Files
  <2>2. CASE PutBack(p) \/ RemoveClaim(p)
    BY <2>0, <2>2 DEF PutBack, RemoveClaim, Files
  <2> QED BY <2>0, <2>1, <2>2
          DEF LoopStep, Start, StartLoop, Scan, PassDone, SkipFile, Deliver,
              DeliverAnswerLost, DeliverFails, RemoveMisses, Crash
<1>2. /\ writer' \in [Recs -> {"idle", "written", "done", "failed"}]
      /\ host' \in [Recs -> Procs \cup {None}]
  <2>0. /\ writer \in [Recs -> {"idle", "written", "done", "failed"}]
        /\ host \in [Recs -> Procs \cup {None}]
    BY DEF TypeOK
  <2>1. CASE Crash(p)
    BY <2>0, <2>1 DEF Crash
  <2> QED BY <2>0, <2>1
          DEF LoopStep, Start, RecoverOrphan, StartLoop, Scan, PassDone,
              ClaimFile, SkipFile, Deliver, DeliverAnswerLost, DeliverFails,
              PutBack, RemoveClaim, RemoveMisses, recording
<1>3. landed' \subseteq Recs /\ stranded' \subseteq Recs
  <2>0. landed \subseteq Recs /\ stranded \subseteq Recs
    BY DEF TypeOK
  <2>1. CASE Deliver(p) \/ DeliverAnswerLost(p)
    BY <2>0, <2>1, Holding DEF Deliver, DeliverAnswerLost
  <2>2. CASE PutBack(p)
    BY <2>0, <2>2, Holding DEF PutBack
  <2>3. ASSUME NEW r \in Recs, RecoverOrphan(p, r)
        PROVE  landed' \subseteq Recs /\ stranded' \subseteq Recs
    BY <2>0, <2>3 DEF RecoverOrphan
  <2> QED BY <2>0, <2>1, <2>2, <2>3
          DEF LoopStep, Start, StartLoop, Scan, PassDone, ClaimFile, SkipFile,
              DeliverFails, RemoveClaim, RemoveMisses, Crash
<1>4. takers' \in [Recs -> SUBSET Procs] /\ before' \in [Recs -> SUBSET Recs]
  <2>0. takers \in [Recs -> SUBSET Procs] /\ before \in [Recs -> SUBSET Recs]
    BY DEF TypeOK
  <2>1. ASSUME NEW r \in Recs, ClaimFile(p, r)
        PROVE  takers' \in [Recs -> SUBSET Procs] /\ before' \in [Recs -> SUBSET Recs]
    BY <2>0, <2>1 DEF ClaimFile, recording
  <2> QED BY <2>0, <2>1
          DEF LoopStep, Start, RecoverOrphan, StartLoop, Scan, PassDone,
              SkipFile, Deliver, DeliverAnswerLost, DeliverFails, PutBack,
              RemoveClaim, RemoveMisses, Crash, recording
<1>5. crashes' \in Nat /\ ioErrors' \in Nat
  <2>0. crashes \in Nat /\ ioErrors \in Nat
    BY DEF TypeOK
  <2>1. CASE IOError \/ Crash(p) \/ UNCHANGED faults
    BY <2>0, <2>1 DEF IOError, Crash, faults
  <2> QED BY <2>1
          DEF LoopStep, Start, RecoverOrphan, StartLoop, Scan, PassDone,
              ClaimFile, SkipFile, Deliver, DeliverAnswerLost, DeliverFails,
              PutBack, RemoveClaim, RemoveMisses
<1> QED BY <1>0, <1>1, <1>2, <1>3, <1>4, <1>5
        DEF TypeOK, LoopStates, BusyStates, Files

-----------------------------------------------------------------------------
(* A claim is removed only after Ledger accepted the record. *)
LEMMA StepSentLanded ==
    ASSUME SpoolInv, Next
    PROVE  SentLanded'
<1> SUFFICES ASSUME NEW q \in Procs, flush'[q].pc = "sent"
             PROVE  flush'[q].cur \in landed'
  BY DEF SentLanded
<1>0. flush \in [Procs -> LoopStates \cup BusyStates]
  BY DEF SpoolInv, TypeOK, LoopStates, BusyStates
<1>1. landed \subseteq landed'
  BY DEF Next, RecordNext, LoopStep, WriteTmp, Publish, RecordFails, Start,
         RecoverOrphan, StartLoop, Scan, PassDone, ClaimFile, SkipFile, Deliver,
         DeliverAnswerLost, DeliverFails, PutBack, RemoveClaim, RemoveMisses, Crash
<1>2. CASE flush'[q] = flush[q]
  BY <1>1, <1>2 DEF SpoolInv, SentLanded
<1>3. ASSUME flush'[q] # flush[q], NEW p \in Procs,
             LoopStep(p) \/ Deliver(p) \/ Crash(p)
      PROVE  flush'[q].cur \in landed'
  <2>1. CASE Deliver(p)
    <3>1. flush' = [flush EXCEPT ![p] = [@ EXCEPT !.pc = "sent"]]
      BY <2>1 DEF Deliver, AfterSend
    <3>2. \A s \in LoopStates \cup BusyStates : [s EXCEPT !.pc = "sent"].cur = s.cur
      BY DEF LoopStates, BusyStates
    <3>3. p = q /\ flush'[q].cur = flush[q].cur
      BY <1>0, <1>3, <3>1, <3>2
    <3> QED BY <2>1, <3>3 DEF Deliver
  <2>2. CASE DeliverAnswerLost(p) \/ DeliverFails(p)
    BY <1>0, <1>3, <2>2 DEF DeliverAnswerLost, DeliverFails, AfterSend, LoopStates,
                            BusyStates
  <2>3. CASE ~(Deliver(p) \/ DeliverAnswerLost(p) \/ DeliverFails(p))
    <3>1. ASSUME NEW pc \in {"down", "recover", "wait", "next"}, NEW todo,
                 flush' = [flush EXCEPT ![p] = Loop(pc, todo)]
          PROVE  FALSE
      BY <1>0, <1>3, <3>1 DEF Loop
    <3>2. ASSUME NEW r \in Recs, ClaimFile(p, r)
          PROVE  FALSE
      BY <1>0, <1>3, <3>1, <3>2 DEF ClaimFile, On, EndPass
    <3>3. ~(PassDone(p) \/ PutBack(p) \/ RemoveClaim(p) \/ RemoveMisses(p))
      BY <3>1 DEF PassDone, PutBack, RemoveClaim, RemoveMisses, EndPass, AfterFailure
    <3>4. ~(Start(p) \/ StartLoop(p) \/ Scan(p) \/ Crash(p))
      BY <3>1 DEF Start, StartLoop, Scan, Crash, Down
    <3>5. \A r \in Recs : ~(RecoverOrphan(p, r) \/ SkipFile(p, r))
      BY <3>1 DEF RecoverOrphan, SkipFile
    <3> QED BY <1>3, <2>3, <3>2, <3>3, <3>4, <3>5 DEF LoopStep
  <2> QED BY <2>1, <2>2, <2>3
<1>4. ASSUME NEW r \in Recs, RecordNext(r)
      PROVE  flush' = flush
  BY <1>4 DEF RecordNext, WriteTmp, Publish, RecordFails
<1> QED BY <1>2, <1>3, <1>4 DEF Next

(* An acknowledged record keeps its file until Ledger has it. *)
LEMMA StepAckedKept ==
    ASSUME SpoolInv, Next
    PROVE  AckedKept'
<1> SUFFICES ASSUME NEW r \in Recs, writer'[r] = "done"
             PROVE  r \in landed' \/ file'[r] \in {"pending", "sending"}
  BY DEF AckedKept, acked
<1>0. file \in [Recs -> Files] /\ writer \in [Recs -> {"idle", "written", "done", "failed"}]
  BY DEF SpoolInv, TypeOK, Files
<1>a. writer[r] = "done" => r \in landed \/ file[r] \in {"pending", "sending"}
  BY DEF SpoolInv, AckedKept, acked
<1>1. ASSUME NEW q \in Recs, RecordNext(q)
      PROVE  r \in landed' \/ file'[r] \in {"pending", "sending"}
  BY <1>0, <1>1, <1>a DEF RecordNext, WriteTmp, Publish, RecordFails
<1>2. ASSUME NEW p \in Procs, LoopStep(p) \/ Deliver(p) \/ Crash(p)
      PROVE  r \in landed' \/ file'[r] \in {"pending", "sending"}
  <2>1. writer[r] = "done"
    BY <1>0, <1>2
       DEF LoopStep, Start, RecoverOrphan, StartLoop, Scan, PassDone,
           ClaimFile, SkipFile, Deliver, DeliverAnswerLost, DeliverFails,
           PutBack, RemoveClaim, RemoveMisses, Crash, recording
  <2>2. ASSUME NEW q \in Recs, RecoverOrphan(p, q) \/ ClaimFile(p, q)
        PROVE  r \in landed' \/ file'[r] \in {"pending", "sending"}
    BY <1>0, <1>a, <2>1, <2>2 DEF RecoverOrphan, ClaimFile
  <2>3. CASE PutBack(p)
    BY <1>0, <1>a, <2>1, <2>3 DEF PutBack
  <2>4. CASE RemoveClaim(p)
    BY <1>0, <1>a, <2>1, <2>4 DEF RemoveClaim, SpoolInv, SentLanded
  <2>5. CASE Deliver(p) \/ DeliverAnswerLost(p)
    BY <1>a, <2>1, <2>5 DEF Deliver, DeliverAnswerLost
  <2> QED BY <1>2, <1>a, <2>1, <2>2, <2>3, <2>4, <2>5
          DEF LoopStep, Start, StartLoop, Scan, PassDone, SkipFile,
              DeliverFails, RemoveMisses, Crash
<1> QED BY <1>1, <1>2 DEF Next

-----------------------------------------------------------------------------
(* The inductive invariant. *)
THEOREM SpoolInvariant == Spec => []SpoolInv
<1>1. Init => SpoolInv
  BY SpoolAssumption
     DEF Init, SpoolInv, TypeOK, SentLanded, AckedKept, acked, Down, Loop
<1>2. SpoolInv /\ [Next]_vars => SpoolInv'
  <2>1. ASSUME SpoolInv, Next PROVE SpoolInv'
    <3>1. TypeOK'
      BY <2>1, RecordTyped, LoopTyped DEF SpoolInv, Next
    <3> QED BY <2>1, <3>1, StepSentLanded, StepAckedKept DEF SpoolInv
  <2>2. ASSUME SpoolInv, UNCHANGED vars PROVE SpoolInv'
    BY <2>2 DEF SpoolInv, TypeOK, SentLanded, AckedKept, acked, vars
  <2> QED BY <2>1, <2>2
<1> QED BY <1>1, <1>2, PTL DEF Spec

(* Every reachable state of the spool has its shape; a loop holds a claim     *)
(* exactly while it delivers one (deliverOne).                                *)
THEOREM SpoolTypes == Spec => []TypeOK
<1>1. SpoolInv => TypeOK
  BY DEF SpoolInv
<1> QED BY <1>1, SpoolInvariant, PTL

(* No record whose Record call returned is ever lost, for any number of       *)
(* processes on the directory, crashes and failing calls (spool.go:18-20).    *)
THEOREM NothingLost == Spec => []AckedKept
<1>1. SpoolInv => AckedKept
  BY DEF SpoolInv
<1> QED BY <1>1, SpoolInvariant, PTL

-----------------------------------------------------------------------------
(* The order of delivery.                                                     *)

(* Records are named in order, only an unfinished call has a process, a file  *)
(* with a claim was claimed by somebody, and what was acknowledged when a     *)
(* record was named is older than the record.                                 *)
Naming ==
    /\ \A r \in Recs : \A q \in 1..(r - 1) : writer[r] # "idle" => writer[q] # "idle"
    /\ \A r \in Recs : host[r] # None => writer[r] = "written"
    /\ \A r \in Recs : file[r] \in {"pending", "sending"} => writer[r] = "done"
    /\ \A r \in Recs : file[r] = "sending" => takers[r] # {}
    /\ \A r \in Recs : \A q \in before[r] : q < r /\ writer[q] = "done"

InPass == {"next", "claimed", "sent", "back"}
Busy == {"claimed", "sent", "back"}

(* The claim of q is one p knows of, or will find when it starts. *)
InHand(p, q) ==
    \/ flush[p].pc \in Busy /\ flush[p].cur = q
    \/ flush[p].pc = "down"
    \/ flush[p].pc = "recover" /\ q \in flush[p].todo

(* The reasons for which a record may be passed over by p. *)
Excused(p, q) == q \in landed \cup stranded \/ takers[q] \ {p} # {}

(* A claim that p alone ever made does not slip its mind. *)
ClaimsKept ==
    \A p \in Procs, q \in Recs :
        file[q] = "sending" => InHand(p, q) \/ Excused(p, q)

(* A pass has before it all that is older than what it has before it, and is  *)
(* busy with the oldest.                                                      *)
PassOK(p) ==
    /\ flush[p].pc \in Busy => Oldest(flush[p].cur, flush[p].todo)
    /\ flush[p].pc \in InPass =>
          \A r \in flush[p].todo :
             /\ writer[r] = "done"
             /\ \A q \in before[r] : q \in flush[p].todo \/ Excused(p, q)

PassOrder == \A p \in Procs : PassOK(p)

OrderInv == SpoolInv /\ Naming /\ ClaimsKept /\ PassOrder

LEMMA StepNaming ==
    ASSUME SpoolInv, Naming, Next
    PROVE  Naming'
<1> USE SpoolAssumption
<1>0. /\ file \in [Recs -> Files]
      /\ writer \in [Recs -> {"idle", "written", "done", "failed"}]
      /\ host \in [Recs -> Procs \cup {None}]
      /\ takers \in [Recs -> SUBSET Procs]
      /\ before \in [Recs -> SUBSET Recs]
  BY DEF SpoolInv, TypeOK, Files
<1>1. ASSUME NEW p \in Procs, NEW s \in Recs, WriteTmp(p, s)
      PROVE  Naming'
  <2>1. \A r \in Recs : /\ writer'[r] = IF r = s THEN "written" ELSE writer[r]
                        /\ host'[r] = IF r = s THEN p ELSE host[r]
                        /\ file'[r] = IF r = s THEN "tmp" ELSE file[r]
                        /\ before'[r] = IF r = s THEN acked ELSE before[r]
    BY <1>0, <1>1 DEF WriteTmp
  <2>2. writer[s] = "idle" /\ (\A q \in 1..(s - 1) : writer[q] # "idle") /\ takers' = takers
    BY <1>1 DEF WriteTmp
  <2>3. ASSUME NEW q \in acked
        PROVE  q \in Recs /\ q < s /\ writer'[q] = "done"
    <3>1. q \in Recs /\ writer[q] = "done" /\ q # s
      BY <2>2, <2>3 DEF acked
    <3>2. ~(s < q)
      BY <2>2, <3>1 DEF Naming, Recs
    <3> QED BY <2>1, <3>1, <3>2 DEF Recs
  <2>4. ASSUME NEW r \in Recs, NEW q \in 1..(r - 1), writer'[r] # "idle"
        PROVE  writer'[q] # "idle"
    <3>1. q \in Recs
      BY DEF Recs
    <3>2. CASE r = s
      BY <2>1, <2>2, <3>1, <3>2
    <3>3. CASE r # s
      BY <2>1, <2>4, <3>1, <3>3 DEF Naming
    <3> QED BY <3>2, <3>3
  <2>5. ASSUME NEW r \in Recs, NEW q \in before'[r]
        PROVE  q < r /\ writer'[q] = "done"
    <3>1. CASE r = s
      BY <2>1, <2>3, <2>5, <3>1
    <3>2. CASE r # s
      <4>1. q \in before[r] /\ q \in Recs
        BY <1>0, <2>1, <2>5, <3>2
      <4>2. q < r /\ writer[q] = "done"
        BY <4>1 DEF Naming
      <4> QED BY <2>1, <2>2, <4>1, <4>2
    <3> QED BY <3>1, <3>2
  <2>6. \A r \in Recs : /\ host'[r] # None => writer'[r] = "written"
                        /\ file'[r] \in {"pending", "sending"} => writer'[r] = "done"
                        /\ file'[r] = "sending" => takers'[r] # {}
    BY <2>1, <2>2 DEF Naming
  <2> QED BY <2>4, <2>5, <2>6 DEF Naming
<1>2. ASSUME NEW s \in Recs, Publish(s) \/ RecordFails(s)
      PROVE  Naming'
  <2>1. PICK w \in {"done", "failed"}, f \in {"pending", "none"} :
           /\ f = "pending" => w = "done"
           /\ writer' = [writer EXCEPT ![s] = w]
           /\ file' = [file EXCEPT ![s] = f]
    BY <1>2 DEF Publish, RecordFails
  <2>2. writer[s] = "written" /\ host' = [host EXCEPT ![s] = None]
        /\ before' = before /\ takers' = takers
    BY <1>2 DEF Publish, RecordFails
  <2>3. \A r \in Recs : /\ writer'[r] = IF r = s THEN w ELSE writer[r]
                        /\ host'[r] = IF r = s THEN None ELSE host[r]
                        /\ file'[r] = IF r = s THEN f ELSE file[r]
    BY <1>0, <2>1, <2>2
  <2>4. ASSUME NEW r \in Recs, NEW q \in 1..(r - 1), writer'[r] # "idle"
        PROVE  writer'[q] # "idle"
    <3>1. q \in Recs
      BY DEF Recs
    <3> QED BY <2>2, <2>3, <2>4, <3>1 DEF Naming
  <2>5. ASSUME NEW r \in Recs, NEW q \in before'[r]
        PROVE  q < r /\ writer'[q] = "done"
    <3>1. q \in Recs /\ q < r /\ writer[q] = "done"
      BY <1>0, <2>2, <2>5 DEF Naming
    <3> QED BY <2>2, <2>3, <3>1
  <2>6. \A r \in Recs : /\ host'[r] # None => writer'[r] = "written"
                        /\ file'[r] \in {"pending", "sending"} => writer'[r] = "done"
                        /\ file'[r] = "sending" => takers'[r] # {}
    BY <2>1, <2>2, <2>3 DEF Naming
  <2> QED BY <2>4, <2>5, <2>6 DEF Naming
<1>3. ASSUME NEW p \in Procs, Crash(p)
      PROVE  Naming'
  <2>1. /\ \A r \in Recs : /\ writer'[r] = IF host[r] = p THEN "failed" ELSE writer[r]
                           /\ host'[r] = IF host[r] = p THEN None ELSE host[r]
        /\ file' = file /\ takers' = takers /\ before' = before
    BY <1>3 DEF Crash
  <2>2. \A r \in Recs : host[r] = p => writer[r] = "written"
    BY DEF Naming
  <2>3. ASSUME NEW r \in Recs, NEW q \in 1..(r - 1), writer'[r] # "idle"
        PROVE  writer'[q] # "idle"
    <3>1. q \in Recs
      BY DEF Recs
    <3> QED BY <2>1, <2>2, <2>3, <3>1 DEF Naming
  <2>4. ASSUME NEW r \in Recs, NEW q \in before'[r]
        PROVE  q < r /\ writer'[q] = "done"
    <3>1. q \in Recs /\ q < r /\ writer[q] = "done"
      BY <1>0, <2>1, <2>4 DEF Naming
    <3> QED BY <2>1, <2>2, <3>1
  <2>5. \A r \in Recs : /\ host'[r] # None => writer'[r] = "written"
                        /\ file'[r] \in {"pending", "sending"} => writer'[r] = "done"
                        /\ file'[r] = "sending" => takers'[r] # {}
    BY <2>1, <2>2 DEF Naming
  <2> QED BY <2>3, <2>4, <2>5 DEF Naming
<1>4. ASSUME NEW p \in Procs, LoopStep(p) \/ Deliver(p)
      PROVE  Naming'
  <2>1. writer' = writer /\ host' = host /\ before' = before
    BY <1>4 DEF LoopStep, Start, RecoverOrphan, StartLoop, Scan, PassDone, ClaimFile,
       SkipFile, Deliver, DeliverAnswerLost, DeliverFails, PutBack, RemoveClaim,
       RemoveMisses, recording
  <2>2. \A r \in Recs :
           /\ file'[r] \in {"pending", "sending"} => file[r] \in {"pending", "sending"}
           /\ file'[r] = "sending" => takers'[r] # {}
    <3>1. ASSUME NEW s \in Recs, ClaimFile(p, s)
          PROVE  \A r \in Recs :
                    /\ file'[r] \in {"pending", "sending"} => file[r] \in {"pending", "sending"}
                    /\ file'[r] = "sending" => takers'[r] # {}
      BY <1>0, <3>1 DEF ClaimFile, Naming
    <3>2. ASSUME NEW s \in Recs, RecoverOrphan(p, s)
          PROVE  \A r \in Recs :
                    /\ file'[r] \in {"pending", "sending"} => file[r] \in {"pending", "sending"}
                    /\ file'[r] = "sending" => takers'[r] # {}
      BY <1>0, <3>2 DEF RecoverOrphan, Naming
    <3>3. CASE PutBack(p) \/ RemoveClaim(p)
      BY <1>0, <3>3 DEF PutBack, RemoveClaim, Naming
    <3>4. CASE file' = file /\ takers' = takers
      BY <3>4 DEF Naming
    <3> QED BY <1>4, <3>1, <3>2, <3>3, <3>4
            DEF LoopStep, Start, StartLoop, Scan, PassDone, SkipFile, Deliver,
                DeliverAnswerLost, DeliverFails, RemoveMisses
  <2> QED BY <2>1, <2>2 DEF Naming
<1> QED BY <1>1, <1>2, <1>3, <1>4 DEF Next, RecordNext

(* Excuses last: what has landed, is stranded or was taken stays so; and a    *)
(* record keeps its acknowledgement and its place behind those before it.     *)
LEMMA ExcusesLast ==
    ASSUME SpoolInv, Naming, Next
    PROVE  /\ \A p \in Procs, q \in Recs : Excused(p, q) => Excused(p, q)'
           /\ \A r \in Recs : writer[r] = "done" =>
                 writer'[r] = "done" /\ before'[r] = before[r]
<1>0. /\ takers \in [Recs -> SUBSET Procs]
      /\ writer \in [Recs -> {"idle", "written", "done", "failed"}]
      /\ before \in [Recs -> SUBSET Recs]
  BY DEF SpoolInv, TypeOK
<1>1. landed \subseteq landed' /\ stranded \subseteq stranded'
  BY DEF Next, RecordNext, LoopStep, WriteTmp, Publish, RecordFails, Start,
         RecoverOrphan, StartLoop, Scan, PassDone, ClaimFile, SkipFile, Deliver,
         DeliverAnswerLost, DeliverFails, PutBack, RemoveClaim, RemoveMisses, Crash
<1>a. \A q \in Recs : takers[q] \subseteq takers'[q]
  <2>1. ASSUME NEW p \in Procs, NEW r \in Recs, ClaimFile(p, r)
        PROVE  \A q \in Recs : takers[q] \subseteq takers'[q]
    BY <1>0, <2>1 DEF ClaimFile
  <2>2. CASE takers' = takers
    BY <2>2
  <2> QED BY <2>1, <2>2
      DEF Next, RecordNext, LoopStep, WriteTmp, Publish, RecordFails, Start,
          RecoverOrphan, StartLoop, Scan, PassDone, SkipFile, Deliver,
          DeliverAnswerLost, DeliverFails, PutBack, RemoveClaim, RemoveMisses, Crash
<1>2. ASSUME NEW r \in Recs, writer[r] = "done"
      PROVE  writer'[r] = "done" /\ before'[r] = before[r]
  <2>1. ASSUME NEW s \in Recs, RecordNext(s)
        PROVE  writer'[r] = "done" /\ before'[r] = before[r]
    BY <1>0, <1>2, <2>1 DEF RecordNext, WriteTmp, Publish, RecordFails
  <2>2. ASSUME NEW p \in Procs, Crash(p)
        PROVE  writer'[r] = "done" /\ before'[r] = before[r]
    <3>1. host[r] # p
      BY <1>2, SpoolAssumption DEF Naming
    <3> QED BY <1>2, <2>2, <3>1 DEF Crash
  <2>3. ASSUME NEW p \in Procs, LoopStep(p) \/ Deliver(p)
        PROVE  writer' = writer /\ before' = before
    BY <2>3 DEF LoopStep, Start, RecoverOrphan, StartLoop, Scan, PassDone, ClaimFile,
       SkipFile, Deliver, DeliverAnswerLost, DeliverFails, PutBack, RemoveClaim,
       RemoveMisses, recording
  <2> QED BY <1>2, <2>1, <2>2, <2>3 DEF Next
<1>3. ASSUME NEW p \in Procs, NEW q \in Recs, Excused(p, q)
      PROVE  Excused(p, q)'
  BY <1>1, <1>a, <1>3 DEF Excused
<1> QED BY <1>2, <1>3

(* A loop changes by its own steps only. *)
LEMMA LoopFrame ==
    ASSUME TypeOK, Next, NEW p \in Procs
    PROVE  flush'[p] = flush[p] \/ LoopStep(p) \/ Deliver(p) \/ Crash(p)
<1>1. ASSUME NEW q \in Procs, q # p, LoopStep(q) \/ Deliver(q) \/ Crash(q)
      PROVE  flush'[p] = flush[p]
  BY <1>1 DEF TypeOK, LoopStep, Start, RecoverOrphan, StartLoop, Scan, PassDone,
     ClaimFile, SkipFile, Deliver, DeliverAnswerLost, DeliverFails, PutBack,
     AfterFailure, RemoveClaim, RemoveMisses, Crash, EndPass
<1>2. ASSUME NEW r \in Recs, RecordNext(r)
      PROVE  flush' = flush
  BY <1>2 DEF RecordNext, WriteTmp, Publish, RecordFails
<1> QED BY <1>1, <1>2 DEF Next

(* Where a delivery leaves its loop. *)
LEMMA DeliveryStep ==
    ASSUME TypeOK, NEW p \in Procs, Deliver(p) \/ DeliverAnswerLost(p) \/ DeliverFails(p)
    PROVE  /\ flush[p].pc = "claimed" /\ flush'[p].pc \in {"sent", "back"}
           /\ flush'[p].todo = flush[p].todo /\ flush'[p].cur = flush[p].cur
<1>1. flush[p].pc = "claimed"
  BY DEF Deliver, DeliverAnswerLost, DeliverFails
<1>2. flush[p] \in BusyStates
  BY <1>1 DEF TypeOK, BusyStates
<1>3. PICK pc \in {"sent", "back"} : flush' = [flush EXCEPT ![p] = [flush[p] EXCEPT !.pc = pc]]
  BY DEF Deliver, DeliverAnswerLost, DeliverFails, AfterSend
<1>4. flush'[p] = [flush[p] EXCEPT !.pc = pc]
  BY <1>3 DEF TypeOK
<1> QED BY <1>1, <1>2, <1>4 DEF BusyStates

LEMMA StepClaimsKept ==
    ASSUME SpoolInv, Naming, ClaimsKept, Next
    PROVE  ClaimsKept'
<1> SUFFICES ASSUME NEW p \in Procs, NEW q \in Recs, file'[q] = "sending",
                    ~ Excused(p, q)'
             PROVE  InHand(p, q)'
  BY DEF ClaimsKept
<1>0. /\ file \in [Recs -> Files] /\ takers \in [Recs -> SUBSET Procs]
      /\ flush \in [Procs -> LoopStates \cup BusyStates]
  BY DEF SpoolInv, TypeOK, Files, LoopStates, BusyStates
<1>1. ~ Excused(p, q)
  BY ExcusesLast
<1>2. CASE file[q] # "sending"
  <2>1. PICK s \in Procs : ClaimFile(s, q)
    <3>1. ASSUME NEW s \in Procs, NEW r \in Recs, RecoverOrphan(s, r)
          PROVE  FALSE
      BY <1>0, <1>2, <3>1 DEF RecoverOrphan
    <3>2. ASSUME NEW s \in Procs, PutBack(s) \/ RemoveClaim(s)
          PROVE  FALSE
      BY <1>0, <1>2, <3>2 DEF PutBack, RemoveClaim
    <3>3. ASSUME NEW r \in Recs, RecordNext(r)
          PROVE  FALSE
      BY <1>0, <1>2, <3>3 DEF RecordNext, WriteTmp, Publish, RecordFails
    <3>4. ASSUME NEW s \in Procs, NEW r \in Recs, ClaimFile(s, r)
          PROVE  r = q
      BY <1>0, <1>2, <3>4 DEF ClaimFile
    <3>5. file' # file
      BY <1>2
    <3> QED BY <3>1, <3>2, <3>3, <3>4, <3>5
            DEF Next, LoopStep, Start, StartLoop, Scan, PassDone, SkipFile, Deliver,
                DeliverAnswerLost, DeliverFails, RemoveMisses, Crash
  <2>2. /\ flush' = [flush EXCEPT ![s] = On("claimed", flush[s].todo, q)]
        /\ s \in takers'[q]
    BY <1>0, <1>2, <2>1 DEF ClaimFile
  <2>3. s = p
    BY <2>2 DEF Excused
  <2> QED BY <1>0, <2>2, <2>3 DEF On, InHand, Busy
<1>3. CASE file[q] = "sending"
  <2>1. InHand(p, q)
    BY <1>1, <1>3 DEF ClaimsKept
  <2>2. CASE flush'[p] = flush[p]
    BY <2>1, <2>2 DEF InHand
  <2>3. CASE Crash(p)
    BY <1>0, <2>3 DEF Crash, Down, Loop, InHand
  <2>4. CASE Start(p)
    BY <1>0, <1>3, <2>4 DEF Start, Orphans, Loop, InHand
  <2>5. ASSUME NEW r \in Recs, RecoverOrphan(p, r)
        PROVE  InHand(p, q)'
    <3>1. r # q
      BY <1>0, <1>3, <2>5 DEF RecoverOrphan, Excused
    <3>2. flush'[p] = Loop("recover", flush[p].todo \ {r})
      BY <1>0, <2>5 DEF RecoverOrphan
    <3>3. q \in flush[p].todo
      BY <2>1, <2>5 DEF RecoverOrphan, InHand, Busy
    <3> QED BY <3>1, <3>2, <3>3 DEF Loop, InHand
  <2>6. CASE Deliver(p) \/ DeliverAnswerLost(p) \/ DeliverFails(p)
    BY <2>1, <2>6, DeliveryStep DEF InHand, Busy, SpoolInv
  <2>7. CASE PutBack(p)
    <3>1. flush[p].cur = q
      BY <2>1, <2>7 DEF PutBack, InHand, Busy
    <3> QED BY <1>0, <1>3, <2>7, <3>1 DEF PutBack, Excused
  <2>8. CASE RemoveClaim(p) \/ RemoveMisses(p)
    <3>1. flush[p].cur = q /\ flush[p].pc = "sent"
      BY <2>1, <2>8 DEF RemoveClaim, RemoveMisses, InHand, Busy
    <3>2. q \in landed
      BY <3>1 DEF SpoolInv, SentLanded
    <3> QED BY <1>1, <3>2 DEF Excused
  <2>9. CASE StartLoop(p) \/ Scan(p) \/ PassDone(p)
             \/ \E r \in Recs : ClaimFile(p, r) \/ SkipFile(p, r)
    BY <2>1, <2>9 DEF StartLoop, Scan, PassDone, ClaimFile, SkipFile, InHand, Busy
  <2>10. CASE LoopStep(p)
    BY <2>4, <2>5, <2>6, <2>7, <2>8, <2>9, <2>10 DEF LoopStep
  <2> QED BY <2>2, <2>3, <2>6, <2>10, LoopFrame DEF SpoolInv
<1> QED BY <1>2, <1>3

LEMMA StepPassOrder ==
    ASSUME OrderInv, Next
    PROVE  PassOrder'
<1> USE DEF OrderInv
<1>0. /\ file \in [Recs -> Files]
      /\ flush \in [Procs -> LoopStates \cup BusyStates]
      /\ before \in [Recs -> SUBSET Recs]
      /\ \A p \in Procs : flush[p].todo \subseteq Recs
  BY DEF SpoolInv, TypeOK, Files, LoopStates, BusyStates
(* What a pass has before it, kept but for records that are excused. *)
<1>1. ASSUME NEW p \in Procs, flush[p].pc \in InPass,
             NEW T \in SUBSET flush[p].todo,
             \A q \in flush[p].todo \ T : writer[q] = "done" => Excused(p, q)'
      PROVE  \A r \in T : /\ writer'[r] = "done"
                          /\ \A q \in before'[r] : q \in T \/ Excused(p, q)'
  <2> SUFFICES ASSUME NEW r \in T
               PROVE  /\ writer'[r] = "done"
                      /\ \A q \in before'[r] : q \in T \/ Excused(p, q)'
    OBVIOUS
  <2>1. r \in Recs /\ r \in flush[p].todo /\ writer[r] = "done"
    BY <1>0, <1>1 DEF PassOrder, PassOK
  <2>2. writer'[r] = "done" /\ before'[r] = before[r]
    BY <2>1, ExcusesLast
  <2>3. ASSUME NEW q \in before[r]
        PROVE  q \in T \/ Excused(p, q)'
    <3>1. q \in Recs /\ writer[q] = "done"
      BY <1>0, <2>1, <2>3 DEF Naming
    <3>2. q \in flush[p].todo \/ Excused(p, q)
      BY <1>1, <2>1, <2>3 DEF PassOrder, PassOK
    <3> QED BY <1>1, <3>1, <3>2, ExcusesLast
  <2> QED BY <2>2, <2>3
<1>2. ASSUME NEW p \in Procs, NEW pc \in {"down", "recover", "wait"}, NEW T,
             flush' = [flush EXCEPT ![p] = Loop(pc, T)]
      PROVE  PassOK(p)'
  BY <1>0, <1>2 DEF Loop, InPass, Busy, PassOK
<1>3. ASSUME NEW p \in Procs, EndPass(p)
      PROVE  PassOK(p)'
  BY <1>2, <1>3 DEF EndPass
<1>4. ASSUME NEW p \in Procs, NEW r \in flush[p].todo, flush[p].pc \in InPass,
             flush' = [flush EXCEPT ![p] = Loop("next", flush[p].todo \ {r})],
             writer[r] = "done" => Excused(p, r)'
      PROVE  PassOK(p)'
  <2>1. flush'[p].pc = "next" /\ flush'[p].todo = flush[p].todo \ {r}
    BY <1>0, <1>4 DEF Loop
  <2> DEFINE T == flush[p].todo \ {r}
  <2>2. T \in SUBSET flush[p].todo
    OBVIOUS
  <2>3. \A q \in flush[p].todo \ T : writer[q] = "done" => Excused(p, q)'
    BY <1>4
  <2>4. \A s \in T : /\ writer'[s] = "done"
                     /\ \A q \in before'[s] : q \in T \/ Excused(p, q)'
    BY <1>1, <1>4, <2>2, <2>3
  <2> QED BY <2>1, <2>4 DEF PassOK, Busy
<1>5. ASSUME NEW p \in Procs, flush'[p].todo = flush[p].todo, flush[p].pc \in InPass,
             flush'[p].pc \in Busy => Oldest(flush'[p].cur, flush[p].todo)
      PROVE  PassOK(p)'
  <2>1. \A s \in flush[p].todo : /\ writer'[s] = "done"
                                /\ \A q \in before'[s] : q \in flush[p].todo \/ Excused(p, q)'
    BY <1>1, <1>5
  <2> QED BY <1>5, <2>1 DEF PassOK
<1>6. ASSUME NEW p \in Procs
      PROVE  PassOK(p)'
  <2>1. CASE flush'[p] = flush[p]
    <3>1. CASE flush[p].pc \in InPass
      BY <1>5, <2>1, <3>1 DEF PassOrder, PassOK
    <3>2. CASE flush[p].pc \notin InPass
      BY <2>1, <3>2 DEF PassOK, InPass, Busy
    <3> QED BY <3>1, <3>2
  <2>2. CASE Crash(p) \/ Start(p) \/ StartLoop(p)
    BY <1>2, <2>2 DEF Crash, Down, Start, StartLoop
  <2>3. ASSUME NEW r \in Recs, RecoverOrphan(p, r)
        PROVE  PassOK(p)'
    BY <1>2, <2>3 DEF RecoverOrphan
  <2>4. CASE PassDone(p) \/ PutBack(p) \/ RemoveMisses(p)
    BY <1>3, <2>4 DEF PassDone, PutBack, AfterFailure, RemoveMisses
  <2>5. CASE Scan(p)
    <3> DEFINE T == {r \in Recs : file[r] = "pending"}
    <3>1. /\ flush'[p].pc = "next" /\ flush'[p].todo = T /\ flush[p].pc = "wait"
          /\ file' = file
      BY <1>0, <2>5 DEF Scan, Loop
    <3>2. ASSUME NEW r \in T, NEW q \in before[r]
          PROVE  q \in T \/ Excused(p, q)
      <4>1. q \in Recs /\ writer[q] = "done"
        BY <1>0, <3>2 DEF Naming
      <4>2. q \in landed \/ file[q] \in {"pending", "sending"}
        BY <4>1 DEF SpoolInv, AckedKept, acked
      <4>3. ASSUME file[q] = "sending"
            PROVE  Excused(p, q)
        BY <3>1, <4>1, <4>3 DEF ClaimsKept, InHand, Busy
      <4> QED BY <4>1, <4>2, <4>3 DEF Excused
    <3>3. ASSUME NEW r \in T
          PROVE  /\ writer'[r] = "done"
                 /\ \A q \in before'[r] : q \in T \/ Excused(p, q)'
      <4>1. r \in Recs /\ writer[r] = "done"
        BY <3>3 DEF Naming
      <4>2. writer'[r] = "done" /\ before'[r] = before[r] /\ before[r] \subseteq Recs
        BY <1>0, <4>1, ExcusesLast
      <4> QED BY <3>2, <4>2, ExcusesLast
    <3> QED BY <3>1, <3>3 DEF PassOK, Busy
  <2>6. ASSUME NEW r \in Recs, ClaimFile(p, r)
        PROVE  PassOK(p)'
    <3>1. CASE EndPass(p)
      BY <1>3, <3>1
    <3>2. CASE flush' = [flush EXCEPT ![p] = On("claimed", flush[p].todo, r)]
      <4>1. /\ flush'[p].todo = flush[p].todo /\ flush'[p].cur = r
            /\ Oldest(r, flush[p].todo) /\ flush[p].pc \in InPass
        BY <1>0, <2>6, <3>2 DEF ClaimFile, On, InPass
      <4> QED BY <1>5, <4>1
    <3> QED BY <2>6, <3>1, <3>2 DEF ClaimFile
  <2>7. ASSUME NEW r \in Recs, SkipFile(p, r)
        PROVE  PassOK(p)'
    <3>1. /\ flush[p].pc = "next" /\ r \in flush[p].todo /\ file[r] # "pending"
          /\ flush' = [flush EXCEPT ![p] = Loop("next", flush[p].todo \ {r})]
      BY <2>7 DEF SkipFile, Oldest
    <3>2. ASSUME writer[r] = "done"
          PROVE  Excused(p, r)
      <4>1. r \in landed \/ file[r] = "sending"
        BY <3>1, <3>2 DEF SpoolInv, AckedKept, acked
      <4>2. ~ InHand(p, r)
        BY <3>1 DEF InHand, Busy
      <4> QED BY <4>1, <4>2 DEF ClaimsKept, Excused
    <3>3. writer[r] = "done" => Excused(p, r)'
      BY <3>2, ExcusesLast
    <3> QED BY <1>4, <3>1, <3>3 DEF InPass
  <2>8. CASE Deliver(p) \/ DeliverAnswerLost(p) \/ DeliverFails(p)
    <3>1. /\ flush[p].pc = "claimed" /\ flush'[p].todo = flush[p].todo
          /\ flush'[p].cur = flush[p].cur
      BY <2>8, DeliveryStep DEF SpoolInv
    <3>2. Oldest(flush[p].cur, flush[p].todo)
      BY <3>1 DEF PassOrder, PassOK, Busy
    <3> QED BY <1>5, <3>1, <3>2 DEF InPass
  <2>9. CASE RemoveClaim(p)
    <3>1. CASE EndPass(p)
      BY <1>3, <3>1
    <3>2. CASE flush' = [flush EXCEPT ![p] = Loop("next", flush[p].todo \ {flush[p].cur})]
      <4>1. flush[p].pc = "sent"
        BY <2>9 DEF RemoveClaim
      <4>2. flush[p].cur \in flush[p].todo /\ flush[p].cur \in landed /\ flush[p].cur \in Recs
        BY <1>0, <4>1 DEF PassOrder, PassOK, Busy, Oldest, SpoolInv, SentLanded
      <4> PICK r \in Recs : r = flush[p].cur
        BY <4>2
      <4>3. Excused(p, r)
        BY <4>2 DEF Excused
      <4>4. Excused(p, r)'
        BY <4>3, ExcusesLast
      <4> QED BY <1>4, <3>2, <4>1, <4>2, <4>4 DEF InPass
    <3> QED BY <2>9, <3>1, <3>2 DEF RemoveClaim
  <2> QED BY <2>1, <2>2, <2>3, <2>4, <2>5, <2>6, <2>7, <2>8, <2>9, LoopFrame
          DEF LoopStep, SpoolInv
<1> QED BY <1>6 DEF PassOrder

(* The inductive invariant behind the order of delivery. *)
THEOREM OrderInvariant == Spec => []OrderInv
<1>1. Init => Naming /\ ClaimsKept /\ PassOrder
  BY DEF Init, Naming, ClaimsKept, PassOrder, PassOK, Down, Loop, InPass, Busy
<1>2. SpoolInv /\ Naming /\ ClaimsKept /\ PassOrder /\ [Next]_vars
         => Naming' /\ ClaimsKept' /\ PassOrder'
  <2>1. ASSUME OrderInv, Next PROVE Naming' /\ ClaimsKept' /\ PassOrder'
    BY <2>1, StepNaming, StepClaimsKept, StepPassOrder DEF OrderInv
  <2>2. ASSUME Naming, ClaimsKept, PassOrder, UNCHANGED vars
        PROVE  Naming' /\ ClaimsKept' /\ PassOrder'
    BY <2>2 DEF Naming, ClaimsKept, PassOrder, PassOK, InHand, Excused, vars
  <2> QED BY <2>1, <2>2 DEF OrderInv
<1> QED BY <1>1, <1>2, SpoolInvariant, PTL DEF Spec, OrderInv

(* A record reaches Ledger after all that was acknowledged before it was      *)
(* made, unless a failed rename or another process took the older one out of  *)
(* turn (spool.go:180).                                                       *)
THEOREM DeliveredInOrder == Spec => OrderKept
<1> DEFINE Ordered == \A p \in Procs : Lands(p) =>
              \A q \in before[flush[p].cur] :
                 q \in landed \cup stranded \/ takers[q] \ {p} # {}
<1>1. OrderInv => Ordered
  <2> SUFFICES ASSUME OrderInv, NEW p \in Procs, Lands(p),
                      NEW q \in before[flush[p].cur]
               PROVE  q \in landed \cup stranded \/ takers[q] \ {p} # {}
    OBVIOUS
  <2> DEFINE r == flush[p].cur
  <2>1. flush[p].pc \in Busy /\ flush[p].pc \in InPass
    BY DEF Lands, Busy, InPass
  <2>2. /\ r \in flush[p].todo
        /\ \A s \in flush[p].todo : r <= s
        /\ q \in flush[p].todo \/ Excused(p, q)
    BY <2>1 DEF OrderInv, PassOrder, PassOK, Oldest
  <2>3. r \in Recs /\ q \in Recs /\ q < r
    BY <2>1, Holding DEF OrderInv, Naming, SpoolInv, TypeOK, Busy
  <2>4. q \notin flush[p].todo
    BY <2>2, <2>3 DEF Recs
  <2> QED BY <2>2, <2>4 DEF Excused
<1>2. OrderInv => [Ordered]_vars
  BY <1>1
<1> QED BY <1>2, OrderInvariant, PTL DEF OrderKept
=============================================================================
