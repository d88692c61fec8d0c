------------------------------- MODULE Daemon -------------------------------
(* harbourd processes (cmd/harbourd): the license gate on the number of       *)
(* workers, start-up, workers and API that settle effects and record them     *)
(* (Receipts), and shutdown on a signal.  `harbourd keys show` is a process   *)
(* that only loads the receipt key.                                           *)
EXTENDS Receipts, License

CONSTANTS WorkerCounts,    \* values of -workers
          Sources,         \* values of the license environment
          FreeWorkerCap,   \* freeWorkerCap
          MaxStarts,       \* bound: processes started
          MaxCrashes,      \* bound: processes killed
          Days             \* the days on which processes are started

ASSUME DaemonAssumption ==
    /\ WorkerCounts \subseteq Nat
    /\ FreeWorkerCap \in Nat
    /\ Days \subseteq Nat
    /\ MaxStarts \in Nat /\ MaxCrashes \in Nat
    /\ \A s \in Sources : s.kind = "token" => s.token.expires \in Int

VARIABLES proc,      \* proc[p]: where main is
          workers,   \* workers[p]: worker goroutines that have not ended
          stopping,  \* the processes that got SIGINT or SIGTERM
          starts,    \* processes started so far, for the bound
          crashes    \* processes killed so far, for the bound

daemonVars == <<proc, workers, stopping, starts, crashes>>
vars == <<receiptVars, daemonVars>>

(* main's place and the -workers it has still to start.  `licensed` is a      *)
(* history: it needed a license when it started, and had one.                 *)
Main(pc, n, licensed) == [pc |-> pc, n |-> n, licensed |-> licensed]
Off == Main("off", 0, FALSE)

MainAt(p, pc) == proc[p].pc = pc
Goto(p, pc) == proc' = [proc EXCEPT ![p] = Main(pc, 0, proc[p].licensed)]

Init ==
    /\ ReceiptsInit
    /\ proc = [p \in Procs |-> Off]
    /\ workers = [p \in Procs |-> 0]
    /\ stopping = {}
    /\ starts = 0 /\ crashes = 0

-----------------------------------------------------------------------------
Startable(p) ==
    /\ proc[p].pc \in {"off", "refused"}
    /\ starts < MaxStarts /\ starts' = starts + 1

(* More workers than the free ones need license.Require. *)
Admitted(n, source, day) ==
    \/ n <= FreeWorkerCap
    \/ HasFeature(source, Load(source, day), FeatureMultiWorker)

(* main, up to its first call; without a license it needs it exits.  The day  *)
(* is looked at here and never again.                                         *)
Start(p, n, source, day) ==
    /\ Startable(p)
    /\ proc' = [proc EXCEPT ![p] =
                   Main(IF Admitted(n, source, day) THEN "open" ELSE "refused", n,
                        n > FreeWorkerCap /\ Licensed(source, day))]
    /\ UNCHANGED <<receiptVars, workers, stopping, crashes>>

(* `harbourd keys show`. *)
StartShow(p) ==
    /\ Startable(p)
    /\ proc' = [proc EXCEPT ![p] = Main("show", 0, FALSE)]
    /\ UNCHANGED <<receiptVars, workers, stopping, crashes>>

ShowKey(p) ==
    /\ MainAt(p, "show")
    /\ Show(p)
    /\ proc' = [proc EXCEPT ![p] = Off]
    /\ UNCHANGED <<workers, stopping, starts, crashes>>

(* store.Open, the workers are started, and ListenAndServe.  If the address   *)
(* is taken the error is logged and main waits for the workers without an     *)
(* API; if the store does not open, or the signal came first, main exits.     *)
Open(p) ==
    /\ MainAt(p, "open")
    /\ \/ /\ \E pc \in {"serve", "wait"} : Goto(p, pc)
          /\ workers' = [workers EXCEPT ![p] = proc[p].n]
          /\ UNCHANGED stopping
       \/ /\ proc' = [proc EXCEPT ![p] = Off]
          /\ stopping' = stopping \ {p}
          /\ UNCHANGED workers
    /\ UNCHANGED <<receiptVars, starts, crashes>>

Sigterm(p) ==
    /\ proc[p].pc \in {"open", "serve", "wait"}
    /\ stopping' = stopping \cup {p}
    /\ UNCHANGED <<receiptVars, proc, workers, starts, crashes>>

(* srv.Shutdown: ListenAndServe returns at once, while requests that have     *)
(* been accepted go on.                                                       *)
Shutdown(p) ==
    /\ p \in stopping /\ MainAt(p, "serve")
    /\ Goto(p, "drain")
    /\ UNCHANGED <<receiptVars, workers, stopping, starts, crashes>>

(* Mutant of LoopEnds: the context is not looked at between two drives. *)
LoopEndsNever(p) == FALSE

(* Worker.Loop ends when its context has, once the drive it is in is over;    *)
(* a drive that has settled an effect records it first.                       *)
LoopEnds(p) == p \in stopping /\ Cardinality(Owed(p, "worker")) < workers[p]

WorkerEnds(p) ==
    /\ workers[p] > 0 /\ LoopEnds(p)
    /\ workers' = [workers EXCEPT ![p] = @ - 1]
    /\ UNCHANGED <<receiptVars, proc, stopping, starts, crashes>>

(* main is past ListenAndServe. *)
Waiting(p) == proc[p].pc \in {"drain", "wait"}

(* Mutant of Waited: main does not wait for the workers. *)
WaitedNot(p) == Waiting(p)

(* wg.Wait. *)
Waited(p) == Waiting(p) /\ workers[p] = 0

Gone(p) ==
    /\ proc' = [proc EXCEPT ![p] = Off]
    /\ workers' = [workers EXCEPT ![p] = 0]
    /\ stopping' = stopping \ {p}

(* main returns, and the process with it, whatever its requests are at. *)
Exit(p) ==
    /\ Waited(p)
    /\ Die(p, "exit")
    /\ Gone(p)
    /\ UNCHANGED <<starts, crashes>>

Crash(p) ==
    /\ proc[p].pc \notin {"off", "refused"}
    /\ crashes < MaxCrashes /\ crashes' = crashes + 1
    /\ Die(p, "crash")
    /\ Gone(p)
    /\ UNCHANGED starts

(* A worker that is not between an effect and its record settles another;     *)
(* so does an operator's request that the API has accepted.                   *)
SettleEffect(p, e) ==
    /\ \/ Cardinality(Owed(p, "worker")) < workers[p] /\ Settle(p, e, "worker")
       \/ proc[p].pc \in {"serve", "drain"} /\ Settle(p, e, "api")
    /\ UNCHANGED daemonVars

(* DefaultSigner is called by the first record, and by `keys show`. *)
LoadSigner(p) ==
    /\ Owes(p) \/ MainAt(p, "show")
    /\ LoadStep(p)
    /\ UNCHANGED daemonVars

LoadFails(p) == KeyFileFails(p) /\ UNCHANGED daemonVars

RecordEffect(p, e) == Record(p, e) /\ UNCHANGED daemonVars
RecordLost(p, e) == RecordFails(p, e) /\ UNCHANGED daemonVars

-----------------------------------------------------------------------------
(* What a process does by itself. *)
Proceed(p) ==
    \/ ShowKey(p) \/ Open(p) \/ Shutdown(p) \/ WorkerEnds(p) \/ Exit(p) \/ LoadSigner(p)
    \/ \E e \in Effects : RecordEffect(p, e)

Next ==
    \E p \in Procs :
        \/ \E n \in WorkerCounts, s \in Sources, d \in Days : Start(p, n, s, d)
        \/ StartShow(p) \/ Sigterm(p) \/ Crash(p) \/ LoadFails(p) \/ Proceed(p)
        \/ \E e \in Effects : SettleEffect(p, e) \/ RecordLost(p, e)

Spec == Init /\ [][Next]_vars

(* Goroutines run.  Nothing is owed by operators and faults. *)
FairSpec == Spec /\ \A p \in Procs : WF_vars(Proceed(p))

-----------------------------------------------------------------------------
(* Every variable stays in its set; a process that is not there has no        *)
(* workers and no key.                                                        *)
TypeOK ==
    /\ ReceiptsTypeOK
    /\ proc \in [Procs -> [pc : {"off", "refused", "show", "open", "serve", "drain",
                                 "wait"},
                           n : WorkerCounts \cup {0}, licensed : BOOLEAN]]
    /\ workers \in [Procs -> Nat]
    /\ stopping \subseteq Procs
    /\ starts \in Nat /\ crashes \in Nat
    /\ \A p \in Procs : proc[p].pc \in {"off", "refused"} =>
          workers[p] = 0 /\ signer[p] = Unloaded /\ ~Owes(p)

(* main.go:58-66, README.md:224-233: a process with more workers than the     *)
(* free ones was licensed when it started, and a start is refused only for    *)
(* want of a license that its -workers needs.  The answer is not asked for    *)
(* again: a license may end while the process runs.                           *)
LicenseGate ==
    \A p \in Procs :
        /\ workers[p] > FreeWorkerCap => proc[p].licensed
        /\ MainAt(p, "refused") => proc[p].n > FreeWorkerCap /\ ~proc[p].licensed

(* main.go:84-104: a process that stops on a signal has first recorded every  *)
(* effect its workers settled.  (The API's requests are not waited for, and a *)
(* crash or a failing call can lose a record of either; a result that a probe *)
(* found is read back under a context that the signal ends, so that call may  *)
(* fail for the signal itself, executor.go:202.)                              *)
WorkerTrailKept ==
    \A e \in Effects :
        trail[e].at = "lost" /\ trail[e].why = "exit" => trail[e].via = "api"

(* main.go:68, 94-104: a process that is told to stop stops, wherever its     *)
(* workers, its API and the loading of its key are.                           *)
Stops == \A p \in Procs : p \in stopping ~> MainAt(p, "off")
=============================================================================
