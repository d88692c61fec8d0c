------------------------------- MODULE Spool --------------------------------
(* The Ledger spool (internal/ledger/spool.go): a record is a file that moves *)
(* from a hidden temporary name to pending, to pending + ".sending" while it  *)
(* is being delivered, and away.  Processes may share the directory; a        *)
(* process dies and starts again; the local filesystem and Ledger fail.       *)
EXTENDS Naturals

CONSTANTS Procs,       \* processes with a spool on the directory
          MaxRecs,     \* bound: calls of Record
          None,        \* no record
          MaxCrashes,  \* bound: crashes of processes
          MaxIOErrors  \* bound: failures of a local filesystem call

ASSUME SpoolAssumption ==
    /\ MaxRecs \in Nat /\ None \notin 1..MaxRecs /\ None \notin Procs
    /\ MaxCrashes \in Nat /\ MaxIOErrors \in Nat

(* A record is known by the place of its file name in the sort order, which   *)
(* is the order in which the names are drawn.                                 *)
Recs == 1..MaxRecs

VARIABLES file,      \* file[r]: the name r's file has, or "none" or "gone"
          writer,    \* writer[r]: where the Record call of r is
          host,      \* host[r]: the process of an unfinished call, or None
          flush,     \* flush[p]: where process p's delivery loop is
          landed,    \* the records Ledger has accepted
          stranded,  \* records whose claim some rename failed to take back
          takers,    \* takers[r]: the processes that have claimed r's file
          before,    \* before[r]: the records acknowledged when r was named
          crashes, ioErrors

vars == <<file, writer, host, flush, landed, stranded, takers,
          before, crashes, ioErrors>>
faults == <<crashes, ioErrors>>
recording == <<writer, host, before>>

acked == {r \in Recs : writer[r] = "done"}

(* The delivery loop: stopped, recovering orphans, between passes, in a pass  *)
(* with the names still to do, or busy with one file.                         *)
Loop(pc, todo) == [pc |-> pc, todo |-> todo, cur |-> None]
On(pc, todo, r) == [pc |-> pc, todo |-> todo, cur |-> r]
Down == Loop("down", {})

Init ==
    /\ file = [r \in Recs |-> "none"]
    /\ writer = [r \in Recs |-> "idle"]
    /\ host = [r \in Recs |-> None]
    /\ flush = [p \in Procs |-> Down]
    /\ landed = {}
    /\ stranded = {}
    /\ takers = [r \in Recs |-> {}]
    /\ before = [r \in Recs |-> {}]
    /\ crashes = 0
    /\ ioErrors = 0

IOError == ioErrors < MaxIOErrors /\ ioErrors' = ioErrors + 1 /\ UNCHANGED crashes

Oldest(r, names) == r \in names /\ \A q \in names : r <= q

-----------------------------------------------------------------------------
(* Record: the file name is drawn, the hidden temporary file written and      *)
(* synced; nobody looks at it until it is renamed to its final name, and then *)
(* the caller is told.  Record works before Start and after the loop stopped. *)
WriteTmp(p, r) ==
    /\ writer[r] = "idle" /\ \A q \in 1..(r - 1) : writer[q] # "idle"
    /\ file' = [file EXCEPT ![r] = "tmp"]
    /\ writer' = [writer EXCEPT ![r] = "written"]
    /\ host' = [host EXCEPT ![r] = p]
    /\ before' = [before EXCEPT ![r] = acked]
    /\ UNCHANGED <<flush, landed, stranded, takers, faults>>

Publish(r) ==
    /\ writer[r] = "written"
    /\ file' = [file EXCEPT ![r] = "pending"]
    /\ writer' = [writer EXCEPT ![r] = "done"]
    /\ host' = [host EXCEPT ![r] = None]
    /\ UNCHANGED <<before, flush, landed, stranded, takers, faults>>

(* The sync, the close or the rename fails: the temporary file is removed     *)
(* and the caller gets the error.                                             *)
RecordFails(r) ==
    /\ writer[r] = "written"
    /\ IOError
    /\ file' = [file EXCEPT ![r] = "none"]
    /\ writer' = [writer EXCEPT ![r] = "failed"]
    /\ host' = [host EXCEPT ![r] = None]
    /\ UNCHANGED <<before, flush, landed, stranded, takers>>

-----------------------------------------------------------------------------
(* Mutant of Orphans: a leftover claim is not looked for. *)
NoOrphans == {}

(* The leftover claims that recoverOrphans finds, whoever made them. *)
Orphans == {r \in Recs : file[r] = "sending"}

(* Start lists the directory and renames the claims back one by one. *)
Start(p) ==
    /\ flush[p].pc = "down"
    /\ flush' = [flush EXCEPT ![p] = Loop("recover", Orphans)]
    /\ UNCHANGED <<file, recording, landed, stranded, takers, faults>>

RecoverOrphan(p, r) ==
    /\ flush[p].pc = "recover" /\ r \in flush[p].todo
    /\ flush' = [flush EXCEPT ![p] = Loop("recover", flush[p].todo \ {r})]
    /\ \/ /\ file' = [file EXCEPT ![r] = IF @ = "sending" THEN "pending" ELSE @]
          /\ UNCHANGED <<stranded, faults>>
       \/ IOError /\ stranded' = stranded \cup {r} /\ UNCHANGED file
    /\ UNCHANGED <<recording, landed, takers>>

(* The loop starts once the claims are dealt with. *)
StartLoop(p) ==
    /\ flush[p].pc = "recover" /\ flush[p].todo = {}
    /\ flush' = [flush EXCEPT ![p] = Loop("wait", {})]
    /\ UNCHANGED <<file, recording, landed, stranded, takers, faults>>

(* FlushOnce lists the pending files; a temporary or a claimed one is not one *)
(* of them.                                                                   *)
Scan(p) ==
    /\ flush[p].pc = "wait"
    /\ flush' = [flush EXCEPT ![p] =
                    Loop("next", {r \in Recs : file[r] = "pending"})]
    /\ UNCHANGED <<file, recording, landed, stranded, takers, faults>>

(* The pass is over: every file was done, or one was not and the rest wait.   *)
EndPass(p) == flush' = [flush EXCEPT ![p] = Loop("wait", {})]

PassDone(p) ==
    /\ flush[p].pc = "next" /\ flush[p].todo = {}
    /\ EndPass(p)
    /\ UNCHANGED <<file, recording, landed, stranded, takers, faults>>

(* deliverOne claims the oldest file.  One that is no longer there was taken  *)
(* by another process and counts as done.                                     *)
ClaimFile(p, r) ==
    /\ flush[p].pc = "next" /\ Oldest(r, flush[p].todo) /\ file[r] = "pending"
    /\ \/ /\ file' = [file EXCEPT ![r] = "sending"]
          /\ flush' = [flush EXCEPT ![p] = On("claimed", flush[p].todo, r)]
          /\ takers' = [takers EXCEPT ![r] = @ \cup {p}]
          /\ UNCHANGED faults
       \/ IOError /\ EndPass(p) /\ UNCHANGED <<file, takers>>
    /\ UNCHANGED <<recording, landed, stranded>>

SkipFile(p, r) ==
    /\ flush[p].pc = "next" /\ Oldest(r, flush[p].todo) /\ file[r] # "pending"
    /\ flush' = [flush EXCEPT ![p] = Loop("next", flush[p].todo \ {r})]
    /\ UNCHANGED <<file, recording, landed, stranded, takers, faults>>

(* Mutant of AfterSend: an error of Ledger is not looked at. *)
AfterSendBlind(err) == "sent"

AfterSend(err) == IF err THEN "back" ELSE "sent"

(* Next.Record: Ledger accepts the record and its answer arrives. *)
Deliver(p) ==
    /\ flush[p].pc = "claimed"
    /\ landed' = landed \cup {flush[p].cur}
    /\ flush' = [flush EXCEPT ![p].pc = AfterSend(FALSE)]
    /\ UNCHANGED <<file, recording, stranded, takers, faults>>

(* It accepts it and the answer is lost (timeout, cancelled context). *)
DeliverAnswerLost(p) ==
    /\ flush[p].pc = "claimed"
    /\ landed' = landed \cup {flush[p].cur}
    /\ flush' = [flush EXCEPT ![p].pc = AfterSend(TRUE)]
    /\ UNCHANGED <<file, recording, stranded, takers, faults>>

(* Ledger is down or refuses, or the claimed file cannot be read. *)
DeliverFails(p) ==
    /\ flush[p].pc = "claimed"
    /\ flush' = [flush EXCEPT ![p].pc = AfterSend(TRUE)]
    /\ UNCHANGED <<file, recording, landed, stranded, takers, faults>>

(* Mutant of AfterFailure: the pass goes on behind a record that failed. *)
AfterFailureGoOn(p) ==
    flush' = [flush EXCEPT ![p] = Loop("next", flush[p].todo \ {flush[p].cur})]

(* Mutant of AfterFailure: the claim is not forgotten. *)
AfterFailureHolding(p) == flush' = [flush EXCEPT ![p].pc = "wait"]

(* FlushOnce breaks off at a record that is not landing, to keep the order. *)
AfterFailure(p) == EndPass(p)

(* The claim is renamed back; the error of that rename is ignored. *)
PutBack(p) ==
    /\ flush[p].pc = "back"
    /\ AfterFailure(p)
    /\ \/ /\ file' = [file EXCEPT ![flush[p].cur] =
                         IF @ = "sending" THEN "pending" ELSE @]
          /\ UNCHANGED <<stranded, faults>>
       \/ IOError /\ stranded' = stranded \cup {flush[p].cur} /\ UNCHANGED file
    /\ UNCHANGED <<recording, landed, takers>>

(* The claim is removed and the pass goes on. *)
RemoveClaim(p) ==
    /\ flush[p].pc = "sent" /\ file[flush[p].cur] = "sending"
    /\ \/ /\ file' = [file EXCEPT ![flush[p].cur] = "gone"]
          /\ flush' = [flush EXCEPT ![p] =
                          Loop("next", flush[p].todo \ {flush[p].cur})]
          /\ UNCHANGED faults
       \/ IOError /\ EndPass(p) /\ UNCHANGED file
    /\ UNCHANGED <<recording, landed, stranded, takers>>

(* Another process has renamed the claim back meanwhile: Remove fails. *)
RemoveMisses(p) ==
    /\ flush[p].pc = "sent" /\ file[flush[p].cur] # "sending"
    /\ EndPass(p)
    /\ UNCHANGED <<file, recording, landed, stranded, takers, faults>>

(* The process dies, or stops: its loop and its Record calls are lost, the    *)
(* files stay.                                                                *)
Crash(p) ==
    /\ crashes < MaxCrashes
    /\ crashes' = crashes + 1
    /\ flush' = [flush EXCEPT ![p] = Down]
    /\ writer' = [r \in Recs |->
                     IF host[r] = p THEN "failed" ELSE writer[r]]
    /\ host' = [r \in Recs |-> IF host[r] = p THEN None ELSE host[r]]
    /\ UNCHANGED <<file, before, landed, stranded, takers, ioErrors>>

-----------------------------------------------------------------------------
RecordNext(r) ==
    \/ \E p \in Procs : WriteTmp(p, r)
    \/ Publish(r) \/ RecordFails(r)

LoopStep(p) ==
    \/ Start(p) \/ (\E r \in Recs : RecoverOrphan(p, r)) \/ StartLoop(p)
    \/ Scan(p) \/ PassDone(p)
    \/ (\E r \in Recs : ClaimFile(p, r) \/ SkipFile(p, r))
    \/ DeliverAnswerLost(p) \/ DeliverFails(p)
    \/ PutBack(p) \/ RemoveClaim(p) \/ RemoveMisses(p)

Next ==
    \/ \E r \in Recs : RecordNext(r)
    \/ \E p \in Procs : LoopStep(p) \/ Deliver(p) \/ Crash(p)

(* A stopped process is started again, a running loop keeps going, and Ledger *)
(* accepts, and answers, if it is asked again and again.                      *)
Fairness ==
    \A p \in Procs : WF_vars(LoopStep(p)) /\ SF_vars(Deliver(p))

Spec == Init /\ [][Next]_vars /\ Fairness

-----------------------------------------------------------------------------
(* The state has its shape; a loop holds a claim exactly while it is busy     *)
(* with one.                                                                  *)
TypeOK ==
    /\ file \in [Recs -> {"none", "tmp", "pending", "sending", "gone"}]
    /\ writer \in [Recs -> {"idle", "written", "done", "failed"}]
    /\ host \in [Recs -> Procs \cup {None}]
    /\ flush \in [Procs -> [pc : {"down", "recover", "wait", "next"},
                            todo : SUBSET Recs, cur : {None}]
                      \cup [pc : {"claimed", "sent", "back"},
                            todo : SUBSET Recs, cur : Recs]]
    /\ landed \subseteq Recs /\ stranded \subseteq Recs
    /\ takers \in [Recs -> SUBSET Procs]
    /\ before \in [Recs -> SUBSET Recs]
    /\ crashes \in Nat /\ ioErrors \in Nat

(* "A crash right after Record never loses it" (spool.go:18-20): a record     *)
(* whose Record call returned is at Ledger or still has a file that a later   *)
(* start or pass picks up, whatever crashes, failed calls and other processes *)
(* come between.                                                              *)
AckedKept ==
    \A r \in acked : r \in landed \/ file[r] \in {"pending", "sending"}

Lands(p) == flush[p].pc = "claimed" /\ flush[p].cur \in landed' \ landed

(* "Don't skip ahead of a record that isn't landing yet" (spool.go:180): a    *)
(* record that a process delivers reaches Ledger after every record whose     *)
(* Record call had returned before it was made.  Excepted are a record that a *)
(* failed rename has stranded, and one that another process has claimed: the  *)
(* claim of a second process on the directory takes a record out of turn.     *)
OrderKept ==
    [][\A p \in Procs : Lands(p) =>
          \A q \in before[flush[p].cur] :
             q \in landed \cup stranded \/ takers[q] \ {p} # {}]_vars

(* Every acknowledged record reaches Ledger, or is stranded by a failed       *)
(* rename in a process that goes on running.                                  *)
AckedDelivered == \A r \in Recs : (r \in acked) ~> (r \in landed \cup stranded)
=============================================================================
