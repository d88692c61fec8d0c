------------------------------ MODULE Receipts ------------------------------
(* The trail of signed receipts.  Settling an effect owes Ledger a record of  *)
(* its outcome, signed with the process's receipt key (store.record).  A      *)
(* process loads its key when it first needs it: from the environment, from   *)
(* the key file, which it creates if there is none, or, if all else fails, a  *)
(* key of its own that dies with it (internal/receipt/keyfile.go).  The       *)
(* processes share the key file.                                              *)
EXTENDS Naturals, FiniteSets

CONSTANTS Procs,       \* harbourd processes
          Effects,     \* settlements of effects, by a result or an operator
          None,        \* nobody, nothing
          MaxFaults    \* bound: filesystem and database calls that fail

ASSUME ReceiptsAssumption ==
    /\ MaxFaults \in Nat
    /\ None \notin Procs \cup {"env", "file", "own", "worker", "api"}

VARIABLES file,     \* the key file: absent, not a key, or a seed
          drawn,    \* seeds drawn for the file so far; a seed is its number
          signer,   \* signer[p]: DefaultSigner of process p
          trail,    \* trail[e]: what became of the record of effect e
          shown,    \* the keys from the file that `harbourd keys show` printed
          faults    \* calls that failed so far, for the bound

receiptVars == <<file, drawn, signer, trail, shown, faults>>

File(kind, seed) == [kind |-> kind, seed |-> seed]

(* Where a process is in LoadOrCreateSigner, with the seed it has for the     *)
(* file or from it.  sync.Once makes one goroutine run it; the others wait.   *)
Loading(pc, seed) == [pc |-> pc, seed |-> seed, origin |-> None]
Loaded(seed, origin) == [pc |-> "loaded", seed |-> seed, origin |-> origin]
Unloaded == Loading("unloaded", 0)

(* A record: owed by a process, for a worker or an API request, recorded      *)
(* under a key, or lost.                                                      *)
Trail(at, by, via, seed, origin, why) ==
    [at |-> at, by |-> by, via |-> via, seed |-> seed, origin |-> origin,
     why |-> why]
Unsettled == Trail("open", None, None, 0, None, None)

Owed(p, via) == {e \in Effects : trail[e].at = "owed" /\ trail[e].by = p
                                                     /\ trail[e].via = via}
Owes(p) == Owed(p, "worker") \cup Owed(p, "api") # {}

ReceiptsInit ==
    /\ file \in {File("absent", 0), File("corrupt", 0)}
    /\ drawn = 0
    /\ signer = [p \in Procs |-> Unloaded]
    /\ trail = [e \in Effects |-> Unsettled]
    /\ shown = {}
    /\ faults = 0

-----------------------------------------------------------------------------
(* CommitResult and ResolveReview: the first to settle an effect commits and  *)
(* then owes the record.                                                      *)
Settle(p, e, via) ==
    /\ trail[e].at = "open"
    /\ trail' = [trail EXCEPT ![e] = Trail("owed", p, via, 0, None, None)]
    /\ UNCHANGED <<file, drawn, signer, shown, faults>>

SetSigner(p, s) == signer' = [signer EXCEPT ![p] = s]

(* A key for this process only, which no other process has. *)
Ephemeral(p) == SetSigner(p, Loaded(0, "own")) /\ UNCHANGED <<file, drawn>>

(* The inline seed, or the key file, or neither has a place. *)
LoadOrCreateSigner(p) ==
    /\ signer[p].pc = "unloaded"
    /\ \/ SetSigner(p, Loaded(0, "env")) /\ UNCHANGED <<file, drawn>>
       \/ SetSigner(p, Loading("read", 0)) /\ UNCHANGED <<file, drawn>>
       \/ Ephemeral(p)
    /\ UNCHANGED <<trail, shown, faults>>

(* readSeedFile: a file that holds no key is an error, and only an absent     *)
(* file may be created.                                                       *)
ReadSeedFile(p) ==
    /\ signer[p].pc = "read"
    /\ \/ /\ file.kind = "absent"
          /\ SetSigner(p, Loading("make", 0)) /\ UNCHANGED <<file, drawn>>
       \/ /\ file.kind = "corrupt" /\ Ephemeral(p)
       \/ /\ file.kind = "seed"
          /\ SetSigner(p, Loaded(file.seed, "file")) /\ UNCHANGED <<file, drawn>>
    /\ UNCHANGED <<trail, shown, faults>>

(* A new seed in a temporary file of its own, written and synced. *)
WriteTemp(p) ==
    /\ signer[p].pc = "make"
    /\ SetSigner(p, Loading("link", drawn + 1))
    /\ drawn' = drawn + 1
    /\ UNCHANGED <<file, trail, shown, faults>>

(* Mutant of OnExist: the process that lost the race keeps its own seed. *)
OnExistKeepsOwn(p) == Loaded(signer[p].seed, "file")

(* Another process created the file first: its key is read. *)
OnExist(p) == Loading("reread", 0)

(* os.Link publishes the temporary file unless the name exists. *)
Link(p) ==
    /\ signer[p].pc = "link"
    /\ \/ /\ file.kind = "absent"
          /\ file' = File("seed", signer[p].seed)
          /\ SetSigner(p, Loaded(signer[p].seed, "file"))
       \/ /\ file.kind # "absent"
          /\ SetSigner(p, OnExist(p)) /\ UNCHANGED file
    /\ UNCHANGED <<drawn, trail, shown, faults>>

Reread(p) ==
    /\ signer[p].pc = "reread"
    /\ \/ /\ file.kind = "seed"
          /\ SetSigner(p, Loaded(file.seed, "file")) /\ UNCHANGED <<file, drawn>>
       \/ /\ file.kind # "seed" /\ Ephemeral(p)
    /\ UNCHANGED <<trail, shown, faults>>

(* A call on the key file fails with another error. *)
KeyFileFails(p) ==
    /\ signer[p].pc \in {"read", "make", "link", "reread"}
    /\ faults < MaxFaults /\ faults' = faults + 1
    /\ Ephemeral(p)
    /\ UNCHANGED <<trail, shown>>

(* The envelope is signed and the record handed to the spool, which keeps it. *)
Record(p, e) ==
    /\ trail[e].at = "owed" /\ trail[e].by = p
    /\ signer[p].pc = "loaded"
    /\ trail' = [trail EXCEPT ![e] = Trail("recorded", None, trail[e].via,
                     signer[p].seed, signer[p].origin, None)]
    /\ UNCHANGED <<file, drawn, signer, shown, faults>>

(* Reading the goal, or the spool's write, fails: nobody is told. *)
RecordFails(p, e) ==
    /\ trail[e].at = "owed" /\ trail[e].by = p
    /\ faults < MaxFaults /\ faults' = faults + 1
    /\ trail' = [trail EXCEPT ![e] =
                    Trail("lost", None, trail[e].via, 0, None, "fault")]
    /\ UNCHANGED <<file, drawn, signer, shown>>

(* `harbourd keys show` prints the key for Ledger to enrol. *)
Show(p) ==
    /\ signer[p].pc = "loaded"
    /\ shown' = IF signer[p].origin = "file" THEN shown \cup {signer[p].seed}
                                            ELSE shown
    /\ SetSigner(p, Unloaded)
    /\ UNCHANGED <<file, drawn, trail, faults>>

(* Mutant of Die: records a process owed are left to it. *)
DieOwing(p, why) ==
    /\ SetSigner(p, Unloaded)
    /\ UNCHANGED <<file, drawn, trail, shown, faults>>

(* The process is gone, and the records it still owed with it. *)
Die(p, why) ==
    /\ SetSigner(p, Unloaded)
    /\ trail' = [e \in Effects |->
                    IF trail[e].at = "owed" /\ trail[e].by = p
                    THEN Trail("lost", None, trail[e].via, 0, None, why)
                    ELSE trail[e]]
    /\ UNCHANGED <<file, drawn, shown, faults>>

(* What a process does to load its key. *)
LoadStep(p) ==
    LoadOrCreateSigner(p) \/ ReadSeedFile(p) \/ WriteTemp(p) \/ Link(p) \/ Reread(p)

-----------------------------------------------------------------------------
(* Every variable stays in its set. *)
ReceiptsTypeOK ==
    /\ file \in [kind : {"absent", "corrupt", "seed"}, seed : Nat]
    /\ drawn \in Nat
    /\ signer \in [Procs -> [pc : {"unloaded", "read", "make", "link", "reread",
                                  "loaded"},
                             seed : Nat, origin : {None, "env", "file", "own"}]]
    /\ trail \in [Effects -> [at : {"open", "owed", "recorded", "lost"},
                              by : Procs \cup {None},
                              via : {None, "worker", "api"}, seed : Nat,
                              origin : {None, "env", "file", "own"},
                              why : {None, "crash", "exit", "fault"}]]
    /\ shown \subseteq Nat
    /\ faults \in Nat

(* The keys that came from the key file: of live processes, of receipts, and  *)
(* printed for enrolment.                                                     *)
FileKeys ==
    {signer[p].seed : p \in {q \in Procs : signer[q].origin = "file"}}
        \cup {trail[e].seed : e \in {d \in Effects : trail[d].origin = "file"}}
        \cup shown

(* keyfile.go:36-37, 98, 106-107: the file gives all processes, now and       *)
(* later, one key.  Processes that start at once agree, a crash anywhere      *)
(* leaves no second key, and every receipt signed from the file verifies      *)
(* against whichever key `keys show` printed.                                 *)
OneFileKey == \A k \in FileKeys : file = File("seed", k)
=============================================================================
