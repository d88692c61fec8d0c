---------------------------- MODULE DaemonProofs ----------------------------
(* Proofs about Daemon, for any number of processes, effects, crashes, key    *)
(* file failures and licenses: the types, one key from the key file, the      *)
(* license gate, and that a process which stops on a signal has recorded what *)
(* its workers settled.                                                       *)
EXTENDS Daemon, FiniteSetTheorems, TLAPS

Origins == {None, "env", "file", "own"}
SignerStates == [pc : {"unloaded", "read", "make", "link", "reread", "loaded"},
                 seed : Nat, origin : Origins]
TrailStates == [at : {"open", "owed", "recorded", "lost"}, by : Procs \cup {None},
                via : {None, "worker", "api"}, seed : Nat, origin : Origins,
                why : {None, "crash", "exit", "fault"}]

(* Until main has opened the store nothing is settled; until then, `keys      *)
(* show` apart, nobody asks for the key.                                      *)
NotYet ==
    \A p \in Procs :
        /\ proc[p].pc \in {"off", "refused", "open"} => signer[p] = Unloaded
        /\ proc[p].pc \in {"off", "refused", "open", "show"} =>
              workers[p] = 0 /\ ~Owes(p)

(* An owed record is some worker's or some request's, and a process has no    *)
(* more records owed by workers than it has workers.                          *)
OwedByWorkers ==
    /\ \A e \in Effects : trail[e].at = "owed" => trail[e].via \in {"worker", "api"}
    /\ \A p \in Procs : /\ IsFiniteSet(Owed(p, "worker"))
                        /\ Cardinality(Owed(p, "worker")) <= workers[p]

(* main has been let past the gate with the workers it has still to start. *)
Passed ==
    \A p \in Procs :
        MainAt(p, "open") /\ proc[p].n > FreeWorkerCap => proc[p].licensed

DaemonInv ==
    /\ TypeOK /\ NotYet /\ OwedByWorkers
    /\ OneFileKey /\ Passed /\ LicenseGate /\ WorkerTrailKept

-----------------------------------------------------------------------------
(* What HasFeature answers, through Verify, resolve and HasFeature of the     *)
(* license, is what the license is defined to open.                           *)
THEOREM FeatureMeansLicensed ==
    ASSUME NEW s \in Sources, NEW d \in Days
    PROVE  HasFeature(s, Load(s, d), FeatureMultiWorker) <=> Licensed(s, d)
<1> USE LicenseAssumption, DaemonAssumption
<1>1. CASE s.kind = "token" /\ Verify(s.token)
  <2>1. s.token.expires \in Int /\ d \in Int /\ Grace \in Int
    BY <1>1
  <2>2. Load(s, d) = Resolve(s.token, d)
    BY <1>1 DEF Load
  <2>3. Resolve(s.token, d) \in {"valid", "grace"}
           <=> s.token.expires = 0 \/ d <= s.token.expires + Grace
    BY <2>1 DEF Resolve
  <2>4. Grants(s.token, FeatureMultiWorker)
    BY <1>1 DEF Grants, Verify
  <2> QED BY <1>1, <2>1, <2>2, <2>3, <2>4 DEF HasFeature, Licensed, Verify
<1>2. CASE ~(s.kind = "token" /\ Verify(s.token))
  BY <1>2 DEF HasFeature, Load, Licensed, Verify
<1> QED BY <1>1, <1>2

-----------------------------------------------------------------------------
(* The places of LoadOrCreateSigner are typed. *)
LEMMA SignerTyped ==
    /\ \A pc \in {"unloaded", "read", "make", "link", "reread"} : \A n \in Nat :
          Loading(pc, n) \in SignerStates
    /\ \A n \in Nat : \A o \in Origins : Loaded(n, o) \in SignerStates
    /\ Unloaded \in SignerStates
BY DEF Loading, Loaded, Unloaded, SignerStates, Origins

LEMMA TrailTyped ==
    ASSUME NEW at \in {"open", "owed", "recorded", "lost"}, NEW by \in Procs \cup {None},
           NEW via \in {None, "worker", "api"}, NEW n \in Nat, NEW o \in Origins,
           NEW why \in {None, "crash", "exit", "fault"}
    PROVE  Trail(at, by, via, n, o, why) \in TrailStates
BY DEF Trail, TrailStates

LEMMA InitInv == Init => DaemonInv
<1> SUFFICES ASSUME Init PROVE DaemonInv
  OBVIOUS
<1> USE ReceiptsAssumption, DaemonAssumption
    DEF Init, ReceiptsInit, Off, Main, Unloaded, Loading, Unsettled, Trail
<1>1. ReceiptsTypeOK
  BY DEF ReceiptsTypeOK, File
<1>2. \A p \in Procs, v \in {"worker", "api"} : Owed(p, v) = {}
  BY DEF Owed
<1>3. TypeOK
  BY <1>1, <1>2 DEF TypeOK, Owes
<1>4. NotYet /\ Passed /\ LicenseGate /\ WorkerTrailKept
  BY <1>2 DEF NotYet, Passed, LicenseGate, WorkerTrailKept, MainAt, Owes
<1>5. OwedByWorkers
  <2>1. IsFiniteSet({}) /\ Cardinality({}) = 0
    BY FS_EmptySet
  <2>2. \A p \in Procs : Owed(p, "worker") = {} /\ workers[p] = 0
    BY <1>2
  <2>3. \A e \in Effects : trail[e].at # "owed"
    OBVIOUS
  <2>4. ASSUME NEW p \in Procs
        PROVE  /\ IsFiniteSet(Owed(p, "worker"))
               /\ Cardinality(Owed(p, "worker")) <= workers[p]
    <3>1. Owed(p, "worker") = {} /\ workers[p] = 0
      BY <2>2
    <3> HIDE DEF Init, ReceiptsInit
    <3> QED BY <2>1, <3>1
  <2> QED BY <2>3, <2>4 DEF OwedByWorkers
<1>6. OneFileKey
  BY DEF OneFileKey, FileKeys
<1> QED BY <1>3, <1>4, <1>5, <1>6 DEF DaemonInv

-----------------------------------------------------------------------------
(* A step keeps the types of the key file, the signers and the trail. *)
LEMMA StepReceiptsTyped ==
    ASSUME TypeOK, Next
    PROVE  ReceiptsTypeOK'
<1>0. /\ file \in [kind : {"absent", "corrupt", "seed"}, seed : Nat]
      /\ drawn \in Nat /\ signer \in [Procs -> SignerStates]
      /\ trail \in [Effects -> TrailStates] /\ shown \subseteq Nat /\ faults \in Nat
  BY DEF TypeOK, ReceiptsTypeOK, SignerStates, TrailStates, Origins
<1> SUFFICES /\ file' \in [kind : {"absent", "corrupt", "seed"}, seed : Nat]
             /\ drawn' \in Nat /\ signer' \in [Procs -> SignerStates]
             /\ trail' \in [Effects -> TrailStates] /\ shown' \subseteq Nat
             /\ faults' \in Nat
  BY DEF ReceiptsTypeOK, SignerStates, TrailStates, Origins
<1>1. ASSUME NEW p \in Procs, LoadStep(p)
      PROVE  /\ file' \in [kind : {"absent", "corrupt", "seed"}, seed : Nat]
             /\ drawn' \in Nat /\ signer' \in [Procs -> SignerStates]
  <2>1. /\ signer[p].seed \in Nat /\ file.seed \in Nat
        /\ {None, "env", "file", "own"} = Origins
    BY <1>0 DEF SignerStates, Origins
  <2>2. ASSUME NEW sg \in SignerStates, SetSigner(p, sg)
        PROVE  signer' \in [Procs -> SignerStates]
    BY <1>0, <2>2 DEF SetSigner
  <2>3. CASE LoadOrCreateSigner(p)
    BY <1>0, <2>1, <2>2, <2>3, SignerTyped DEF LoadOrCreateSigner, Ephemeral
  <2>4. CASE ReadSeedFile(p)
    BY <1>0, <2>1, <2>2, <2>4, SignerTyped DEF ReadSeedFile, Ephemeral
  <2>5. CASE WriteTemp(p)
    <3>1. drawn + 1 \in Nat
      BY <1>0
    <3> QED BY <1>0, <2>2, <2>5, <3>1, SignerTyped DEF WriteTemp
  <2>6. CASE Link(p)
    <3>1. File("seed", signer[p].seed) \in [kind : {"absent", "corrupt", "seed"}, seed : Nat]
      BY <2>1 DEF File
    <3> QED BY <1>0, <2>1, <2>2, <2>6, <3>1, SignerTyped DEF Link, OnExist
  <2>7. CASE Reread(p)
    BY <1>0, <2>1, <2>2, <2>7, SignerTyped DEF Reread, Ephemeral
  <2> QED BY <1>1, <2>3, <2>4, <2>5, <2>6, <2>7 DEF LoadStep
<1>2. ASSUME NEW p \in Procs, LoadSigner(p)
      PROVE  UNCHANGED <<trail, shown, faults>>
  BY <1>2 DEF LoadSigner, LoadStep, LoadOrCreateSigner, ReadSeedFile, WriteTemp,
              Link, Reread
<1>3. ASSUME NEW p \in Procs, NEW why \in {"crash", "exit"}, Die(p, why)
      PROVE  /\ trail' \in [Effects -> TrailStates]
             /\ signer' \in [Procs -> SignerStates]
             /\ UNCHANGED <<file, drawn, shown, faults>>
  <2>1. ASSUME NEW e \in Effects
        PROVE  Trail("lost", None, trail[e].via, 0, None, why) \in TrailStates
    <3>1. trail[e].via \in {None, "worker", "api"}
      BY <1>0 DEF TrailStates
    <3> QED BY <3>1, TrailTyped DEF Origins
  <2>2. trail' = [e \in Effects |->
                    IF trail[e].at = "owed" /\ trail[e].by = p
                    THEN Trail("lost", None, trail[e].via, 0, None, why)
                    ELSE trail[e]]
    BY <1>3 DEF Die
  <2>3. trail' \in [Effects -> TrailStates]
    BY <1>0, <2>1, <2>2
  <2> QED BY <1>0, <1>3, <2>3, SignerTyped DEF Die, SetSigner
<1>4. ASSUME NEW p \in Procs, KeyFileFails(p)
      PROVE  /\ signer' \in [Procs -> SignerStates] /\ faults' \in Nat
             /\ UNCHANGED <<file, drawn, trail, shown>>
  <2>1. Loaded(0, "own") \in SignerStates
    BY SignerTyped DEF Origins
  <2> QED BY <1>0, <1>4, <2>1 DEF KeyFileFails, Ephemeral, SetSigner
<1>5. ASSUME NEW p \in Procs, NEW e \in Effects, Record(p, e) \/ RecordFails(p, e)
      PROVE  /\ trail' \in [Effects -> TrailStates] /\ faults' \in Nat
             /\ UNCHANGED <<file, drawn, signer, shown>>
  <2>1. /\ trail[e].via \in {None, "worker", "api"}
        /\ signer[p].seed \in Nat /\ signer[p].origin \in Origins /\ None \in Origins
    BY <1>0 DEF TrailStates, SignerStates, Origins
  <2>2. /\ Trail("recorded", None, trail[e].via, signer[p].seed, signer[p].origin, None)
              \in TrailStates
        /\ Trail("lost", None, trail[e].via, 0, None, "fault") \in TrailStates
    BY <2>1, TrailTyped
  <2>3. CASE Record(p, e)
    BY <1>0, <2>2, <2>3 DEF Record
  <2>4. CASE RecordFails(p, e)
    BY <1>0, <2>2, <2>4 DEF RecordFails
  <2> QED BY <1>5, <2>3, <2>4
<1>6. ASSUME NEW p \in Procs, NEW e \in Effects, NEW v \in {"worker", "api"},
             Settle(p, e, v)
      PROVE  /\ trail' \in [Effects -> TrailStates]
             /\ UNCHANGED <<file, drawn, signer, shown, faults>>
  <2>1. Trail("owed", p, v, 0, None, None) \in TrailStates
    BY TrailTyped DEF Origins
  <2> QED BY <1>0, <1>6, <2>1 DEF Settle
<1>7. ASSUME NEW p \in Procs, Show(p)
      PROVE  /\ signer' \in [Procs -> SignerStates] /\ shown' \subseteq Nat
             /\ UNCHANGED <<file, drawn, trail, faults>>
  <2>1. signer[p].seed \in Nat
    BY <1>0 DEF SignerStates
  <2> QED BY <1>0, <1>7, <2>1, SignerTyped DEF Show, SetSigner
<1>8. ASSUME NEW p \in Procs,
             \/ \E n \in WorkerCounts, s \in Sources, d \in Days : Start(p, n, s, d)
             \/ StartShow(p) \/ Sigterm(p) \/ Open(p) \/ Shutdown(p) \/ WorkerEnds(p)
      PROVE  UNCHANGED <<file, drawn, signer, trail, shown, faults>>
  BY <1>8 DEF Start, StartShow, Sigterm, Open, Shutdown, WorkerEnds, receiptVars
<1>9. ASSUME NEW p \in Procs, LoadSigner(p)
      PROVE  LoadStep(p)
  BY <1>9 DEF LoadSigner
<1> QED
  BY <1>0, <1>1, <1>2, <1>3, <1>4, <1>5, <1>6, <1>7, <1>8, <1>9
     DEF Next, Proceed, ShowKey, Exit, Crash, SettleEffect, LoadFails,
         RecordEffect, RecordLost

-----------------------------------------------------------------------------
(* The steps of process p that move its main or change its workers. *)
MainStep(p) ==
    \/ \E n \in WorkerCounts, s \in Sources, d \in Days : Start(p, n, s, d)
    \/ StartShow(p) \/ ShowKey(p) \/ Open(p) \/ Shutdown(p) \/ WorkerEnds(p)
    \/ Exit(p) \/ Crash(p)

LEMMA ProcFrame ==
    ASSUME TypeOK, Next, NEW q \in Procs
    PROVE  MainStep(q) \/ (proc'[q] = proc[q] /\ workers'[q] = workers[q])
<1>0. proc \in [Procs -> [pc : {"off", "refused", "show", "open", "serve", "drain",
                                "wait"},
                          n : WorkerCounts \cup {0}, licensed : BOOLEAN]]
      /\ workers \in [Procs -> Nat]
  BY DEF TypeOK
<1>1. ASSUME NEW p \in Procs, MainStep(p), p # q
      PROVE  proc'[q] = proc[q] /\ workers'[q] = workers[q]
  <2>1. CASE \E n \in WorkerCounts, s \in Sources, d \in Days : Start(p, n, s, d)
    BY <1>0, <1>1, <2>1 DEF Start
  <2>2. CASE StartShow(p) \/ ShowKey(p)
    BY <1>0, <1>1, <2>2 DEF StartShow, ShowKey
  <2>3. CASE Open(p)
    BY <1>0, <1>1, <2>3 DEF Open, Goto
  <2>4. CASE Shutdown(p) \/ WorkerEnds(p)
    BY <1>0, <1>1, <2>4 DEF Shutdown, WorkerEnds, Goto
  <2>5. CASE Exit(p) \/ Crash(p)
    BY <1>0, <1>1, <2>5 DEF Exit, Crash, Gone
  <2> QED BY <1>1, <2>1, <2>2, <2>3, <2>4, <2>5 DEF MainStep
<1>2. ASSUME NEW p \in Procs,
             \/ Sigterm(p) \/ LoadFails(p) \/ LoadSigner(p)
             \/ \E e \in Effects : SettleEffect(p, e) \/ RecordLost(p, e)
                                      \/ RecordEffect(p, e)
      PROVE  proc' = proc /\ workers' = workers
  BY <1>2 DEF Sigterm, LoadFails, LoadSigner, SettleEffect, RecordLost,
              RecordEffect, daemonVars
<1> QED BY <1>1, <1>2 DEF Next, Proceed, MainStep

(* What a step does to the records a process owes: some are paid or lost, or  *)
(* one more is owed, which takes a free worker or an accepted request.        *)
LEMMA OwedChange ==
    ASSUME TypeOK, Next, NEW q \in Procs, NEW v \in {"worker", "api"}
    PROVE  \/ Owed(q, v)' \subseteq Owed(q, v)
           \/ /\ \E e \in Effects : Owed(q, v)' = Owed(q, v) \cup {e}
              /\ proc' = proc /\ workers' = workers
              /\ v = "worker" => Cardinality(Owed(q, v)) < workers[q]
              /\ v = "api" => proc[q].pc \in {"serve", "drain"}
<1>0. trail \in [Effects -> TrailStates]
  BY DEF TypeOK, ReceiptsTypeOK, TrailStates, Origins
<1>1. ASSUME NEW p \in Procs, NEW why, Die(p, why)
      PROVE  Owed(q, v)' \subseteq Owed(q, v)
  BY <1>0, <1>1 DEF Die, Owed, Trail
<1>2. ASSUME NEW p \in Procs, NEW e \in Effects, Record(p, e) \/ RecordFails(p, e)
      PROVE  Owed(q, v)' \subseteq Owed(q, v)
  <2>1. CASE Record(p, e)
    BY <1>0, <2>1 DEF Record, Owed, Trail
  <2>2. CASE RecordFails(p, e)
    BY <1>0, <2>2 DEF RecordFails, Owed, Trail
  <2> QED BY <1>2, <2>1, <2>2
<1>3. ASSUME NEW p \in Procs, NEW e \in Effects, NEW u \in {"worker", "api"},
             Settle(p, e, u)
      PROVE  /\ q = p /\ v = u => Owed(q, v)' = Owed(q, v) \cup {e}
             /\ ~(q = p /\ v = u) => Owed(q, v)' \subseteq Owed(q, v)
  <2>1. trail'[e] = Trail("owed", p, u, 0, None, None)
        /\ \A d \in Effects \ {e} : trail'[d] = trail[d]
    BY <1>0, <1>3 DEF Settle
  <2>2. trail'[e].at = "owed" /\ trail'[e].by = p /\ trail'[e].via = u
    BY <2>1 DEF Trail
  <2> QED BY <2>1, <2>2 DEF Owed
<1>4. ASSUME NEW p \in Procs, NEW e \in Effects, SettleEffect(p, e)
      PROVE  \/ Owed(q, v)' \subseteq Owed(q, v)
             \/ /\ \E d \in Effects : Owed(q, v)' = Owed(q, v) \cup {d}
                /\ proc' = proc /\ workers' = workers
                /\ v = "worker" => Cardinality(Owed(q, v)) < workers[q]
                /\ v = "api" => proc[q].pc \in {"serve", "drain"}
  <2>1. proc' = proc /\ workers' = workers
    BY <1>4 DEF SettleEffect, daemonVars
  <2>2. CASE Cardinality(Owed(p, "worker")) < workers[p] /\ Settle(p, e, "worker")
    <3>1. CASE q = p /\ v = "worker"
      BY <1>3, <2>1, <2>2, <3>1
    <3>2. CASE ~(q = p /\ v = "worker")
      BY <1>3, <2>2, <3>2
    <3> QED BY <3>1, <3>2
  <2>3. CASE proc[p].pc \in {"serve", "drain"} /\ Settle(p, e, "api")
    <3>1. CASE q = p /\ v = "api"
      BY <1>3, <2>1, <2>3, <3>1
    <3>2. CASE ~(q = p /\ v = "api")
      BY <1>3, <2>3, <3>2
    <3> QED BY <3>1, <3>2
  <2> QED BY <1>4, <2>2, <2>3 DEF SettleEffect
<1>5. ASSUME trail' = trail
      PROVE  Owed(q, v)' \subseteq Owed(q, v)
  BY <1>5 DEF Owed
<1>6. ASSUME NEW p \in Procs,
             \/ \E n \in WorkerCounts, s \in Sources, d \in Days : Start(p, n, s, d)
             \/ StartShow(p) \/ Sigterm(p) \/ LoadFails(p) \/ ShowKey(p) \/ Open(p)
             \/ Shutdown(p) \/ WorkerEnds(p) \/ LoadSigner(p)
      PROVE  trail' = trail
  BY <1>6 DEF Start, StartShow, Sigterm, LoadFails, KeyFileFails, ShowKey, Show, Open,
              Shutdown, WorkerEnds, LoadSigner, LoadStep, LoadOrCreateSigner,
              ReadSeedFile, WriteTemp, Link, Reread, receiptVars
<1>7. ASSUME NEW p \in Procs, Exit(p) \/ Crash(p)
      PROVE  Owed(q, v)' \subseteq Owed(q, v)
  BY <1>1, <1>7 DEF Exit, Crash
<1>8. ASSUME NEW p \in Procs, NEW e \in Effects, RecordEffect(p, e) \/ RecordLost(p, e)
      PROVE  Owed(q, v)' \subseteq Owed(q, v)
  BY <1>2, <1>8 DEF RecordEffect, RecordLost
<1> QED BY <1>4, <1>5, <1>6, <1>7, <1>8 DEF Next, Proceed

(* A process that is gone owes nothing. *)
LEMMA GoneOwesNothing ==
    ASSUME TypeOK, NEW p \in Procs, Exit(p) \/ Crash(p)
    PROVE  /\ proc'[p] = Off /\ workers'[p] = 0 /\ signer'[p] = Unloaded
           /\ Owed(p, "worker")' = {} /\ Owed(p, "api")' = {}
<1>1. PICK why : Die(p, why) /\ Gone(p)
  BY DEF Exit, Crash
<1>2. Owed(p, "worker")' = {} /\ Owed(p, "api")' = {}
  BY <1>1 DEF Die, Owed, Trail
<1>3. signer'[p] = Unloaded
  BY <1>1 DEF Die, SetSigner, TypeOK, ReceiptsTypeOK
<1>4. proc'[p] = Off /\ workers'[p] = 0
  BY <1>1 DEF Gone, TypeOK
<1> QED BY <1>2, <1>3, <1>4

-----------------------------------------------------------------------------
(* Who changes a signer: the process that loads its key, ends or shows it. *)
LEMMA SignerChange ==
    ASSUME TypeOK, Next, NEW q \in Procs
    PROVE  \/ signer'[q] = signer[q]
           \/ signer'[q] = Unloaded
           \/ LoadSigner(q) \/ LoadFails(q)
<1>0. signer \in [Procs -> SignerStates]
  BY DEF TypeOK, ReceiptsTypeOK, SignerStates, Origins
<1>1. ASSUME NEW p \in Procs, LoadSigner(p) \/ LoadFails(p), p # q
      PROVE  signer'[q] = signer[q]
  BY <1>0, <1>1 DEF LoadSigner, LoadStep, LoadOrCreateSigner, ReadSeedFile, WriteTemp,
                    Link, OnExist, Reread, LoadFails, KeyFileFails, Ephemeral, SetSigner
<1>2. ASSUME NEW p \in Procs, ShowKey(p) \/ Exit(p) \/ Crash(p)
      PROVE  signer'[q] = signer[q] \/ signer'[q] = Unloaded
  BY <1>0, <1>2 DEF ShowKey, Show, Exit, Crash, Die, SetSigner
<1>3. ASSUME NEW p \in Procs,
             \/ \E n \in WorkerCounts, s \in Sources, d \in Days : Start(p, n, s, d)
             \/ StartShow(p) \/ Sigterm(p) \/ Open(p) \/ Shutdown(p) \/ WorkerEnds(p)
             \/ \E e \in Effects : SettleEffect(p, e) \/ RecordLost(p, e)
                                      \/ RecordEffect(p, e)
      PROVE  signer' = signer
  BY <1>3 DEF Start, StartShow, Sigterm, Open, Shutdown, WorkerEnds, SettleEffect,
              Settle, RecordLost, RecordFails, RecordEffect, Record, receiptVars
<1> QED BY <1>1, <1>2, <1>3 DEF Next, Proceed

(* A step keeps main and its workers where the gate and the key allow. *)
LEMMA StepNotYet ==
    ASSUME TypeOK, NotYet, Next
    PROVE  NotYet'
<1> SUFFICES ASSUME NEW q \in Procs
             PROVE  /\ proc'[q].pc \in {"off", "refused", "open"} => signer'[q] = Unloaded
                    /\ proc'[q].pc \in {"off", "refused", "open", "show"} =>
                          workers'[q] = 0 /\ ~Owes(q)'
  BY DEF NotYet
<1> DEFINE early == proc[q].pc \in {"off", "refused", "open"}
           quiet == proc[q].pc \in {"off", "refused", "open", "show"}
<1>0. /\ proc \in [Procs -> [pc : {"off", "refused", "show", "open", "serve", "drain",
                                   "wait"},
                             n : WorkerCounts \cup {0}, licensed : BOOLEAN]]
      /\ workers \in [Procs -> Nat] /\ signer \in [Procs -> SignerStates]
  BY DEF TypeOK, ReceiptsTypeOK, SignerStates, Origins
<1>1. /\ early => signer[q] = Unloaded
      /\ quiet => workers[q] = 0 /\ ~Owes(q)
  BY DEF NotYet
<1>2. early => signer'[q] = Unloaded
  <2>1. ASSUME early, LoadSigner(q)
        PROVE  FALSE
    BY <1>1, <2>1 DEF LoadSigner, MainAt
  <2>2. ASSUME early, LoadFails(q)
        PROVE  FALSE
    BY <1>1, <2>2 DEF LoadFails, KeyFileFails, Unloaded, Loading
  <2> QED BY <1>1, <2>1, <2>2, SignerChange
<1>3. ASSUME quiet
      PROVE  ~Owes(q)'
  <2>1. Owed(q, "worker") = {} /\ Owed(q, "api") = {} /\ workers[q] = 0
    BY <1>1, <1>3 DEF Owes
  <2>2. ~(Cardinality(Owed(q, "worker")) < workers[q])
    <3>1. Cardinality({}) = 0
      BY FS_EmptySet
    <3> QED BY <2>1, <3>1
  <2>3. Owed(q, "worker")' \subseteq Owed(q, "worker")
    BY <2>2, OwedChange
  <2>4. Owed(q, "api")' \subseteq Owed(q, "api")
    BY <1>3, OwedChange
  <2> QED BY <2>1, <2>3, <2>4 DEF Owes
<1>4. CASE proc'[q] = proc[q] /\ workers'[q] = workers[q]
  BY <1>1, <1>2, <1>3, <1>4
<1>5. ASSUME NEW n \in WorkerCounts, NEW s \in Sources, NEW d \in Days, Start(q, n, s, d)
      PROVE  early /\ quiet /\ workers' = workers
  BY <1>5 DEF Start, Startable
<1>6. CASE StartShow(q)
  <2>1. early /\ quiet /\ workers' = workers
    BY <1>6 DEF StartShow, Startable
  <2> QED BY <1>1, <1>2, <1>3, <2>1
<1>7. CASE ShowKey(q)
  <2>1. quiet /\ workers' = workers /\ signer'[q] = Unloaded
    BY <1>0, <1>7 DEF ShowKey, Show, SetSigner, MainAt
  <2> QED BY <1>1, <1>3, <2>1
<1>8. CASE Open(q)
  <2>1. early /\ quiet
    BY <1>8 DEF Open, MainAt
  <2>2. \/ proc'[q].pc \in {"serve", "wait"}
        \/ workers' = workers
    BY <1>0, <1>8 DEF Open, Goto, Main
  <2> QED BY <1>1, <1>2, <1>3, <2>1, <2>2
<1>9. CASE Shutdown(q)
  BY <1>0, <1>9 DEF Shutdown, Goto, Main
<1>10. CASE WorkerEnds(q)
  <2>1. ~quiet /\ proc' = proc
    BY <1>1, <1>10 DEF WorkerEnds
  <2> QED BY <2>1
<1>11. CASE Exit(q) \/ Crash(q)
  BY <1>11, GoneOwesNothing DEF Owes
<1> QED BY <1>1, <1>2, <1>3, <1>4, <1>5, <1>6, <1>7, <1>8, <1>9, <1>10, <1>11, ProcFrame
        DEF MainStep

(* A step keeps every type. *)
LEMMA StepTypeOK ==
    ASSUME TypeOK, NotYet, Next
    PROVE  TypeOK'
<1> DEFINE Mains == [pc : {"off", "refused", "show", "open", "serve", "drain", "wait"},
                     n : WorkerCounts \cup {0}, licensed : BOOLEAN]
<1>0. /\ proc \in [Procs -> Mains] /\ workers \in [Procs -> Nat]
      /\ stopping \subseteq Procs /\ starts \in Nat /\ crashes \in Nat
  BY DEF TypeOK
<1>1. ASSUME NEW p \in Procs, NEW m \in Mains, proc' = [proc EXCEPT ![p] = m]
      PROVE  proc' \in [Procs -> Mains]
  BY <1>0, <1>1
<1>2. Off \in Mains /\ Main("show", 0, FALSE) \in Mains
  BY DEF Off, Main
<1>3. ASSUME NEW p \in Procs, NEW pc \in {"serve", "drain", "wait"}, Goto(p, pc)
      PROVE  proc' \in [Procs -> Mains]
  <2>1. Main(pc, 0, proc[p].licensed) \in Mains
    BY <1>0 DEF Main
  <2> QED BY <1>1, <1>3, <2>1 DEF Goto
<1>4. ASSUME NEW p \in Procs, NEW n \in WorkerCounts, NEW s \in Sources, NEW d \in Days,
             Start(p, n, s, d)
      PROVE  proc' \in [Procs -> Mains] /\ starts' \in Nat
             /\ UNCHANGED <<workers, stopping, crashes>>
  <2>1. \A pc \in {"open", "refused"}, b \in BOOLEAN : Main(pc, n, b) \in Mains
    BY DEF Main
  <2>2. Licensed(s, d) \in BOOLEAN
    BY DEF Licensed
  <2>3. PICK pc \in {"open", "refused"} :
           proc' = [proc EXCEPT ![p] = Main(pc, n, n > FreeWorkerCap /\ Licensed(s, d))]
    BY <1>4 DEF Start
  <2>4. (n > FreeWorkerCap /\ Licensed(s, d)) \in BOOLEAN
    OBVIOUS
  <2>5. proc' \in [Procs -> Mains]
    BY <1>1, <2>1, <2>3, <2>4
  <2> QED BY <1>0, <1>4, <2>5 DEF Start, Startable
<1>5. ASSUME NEW p \in Procs, StartShow(p)
      PROVE  proc' \in [Procs -> Mains] /\ starts' \in Nat
             /\ UNCHANGED <<workers, stopping, crashes>>
  <2>1. proc' \in [Procs -> Mains]
    BY <1>1, <1>2, <1>5 DEF StartShow
  <2>2. starts' \in Nat
    BY <1>0, <1>5 DEF StartShow, Startable
  <2> QED BY <1>5, <2>1, <2>2 DEF StartShow
<1>6. ASSUME NEW p \in Procs, ShowKey(p)
      PROVE  proc' \in [Procs -> Mains] /\ UNCHANGED <<workers, stopping, starts, crashes>>
  BY <1>1, <1>2, <1>6 DEF ShowKey
<1>7. ASSUME NEW p \in Procs, Open(p)
      PROVE  /\ proc' \in [Procs -> Mains] /\ workers' \in [Procs -> Nat]
             /\ stopping' \subseteq Procs /\ UNCHANGED <<starts, crashes>>
  <2>1. proc[p].n \in Nat
    <3>1. proc[p].n \in WorkerCounts \cup {0}
      BY <1>0
    <3>2. \A n \in WorkerCounts \cup {0} : n \in Nat
      BY DaemonAssumption
    <3> QED BY <3>1, <3>2
  <2>2. CASE \E pc \in {"serve", "wait"} : Goto(p, pc)
    BY <1>0, <1>2, <1>1, <1>3, <1>7, <2>1, <2>2 DEF Open
  <2>3. CASE ~\E pc \in {"serve", "wait"} : Goto(p, pc)
    BY <1>0, <1>1, <1>2, <1>7, <2>3 DEF Open
  <2> QED BY <2>2, <2>3
<1>8. ASSUME NEW p \in Procs, Shutdown(p) \/ Sigterm(p) \/ WorkerEnds(p)
      PROVE  /\ proc' \in [Procs -> Mains] /\ workers' \in [Procs -> Nat]
             /\ stopping' \subseteq Procs /\ UNCHANGED <<starts, crashes>>
  <2>1. CASE Shutdown(p)
    BY <1>0, <1>3, <2>1 DEF Shutdown
  <2>2. CASE Sigterm(p)
    BY <1>0, <2>2 DEF Sigterm
  <2>3. CASE WorkerEnds(p)
    BY <1>0, <2>3 DEF WorkerEnds
  <2> QED BY <1>8, <2>1, <2>2, <2>3
<1>9. ASSUME NEW p \in Procs, Exit(p) \/ Crash(p)
      PROVE  /\ proc' \in [Procs -> Mains] /\ workers' \in [Procs -> Nat]
             /\ stopping' \subseteq Procs /\ starts' \in Nat /\ crashes' \in Nat
  BY <1>0, <1>1, <1>2, <1>9 DEF Exit, Crash, Gone
<1>10. ASSUME NEW p \in Procs,
              \/ LoadFails(p) \/ LoadSigner(p)
              \/ \E e \in Effects : SettleEffect(p, e) \/ RecordLost(p, e)
                                       \/ RecordEffect(p, e)
       PROVE  UNCHANGED <<proc, workers, stopping, starts, crashes>>
  BY <1>10 DEF LoadFails, LoadSigner, SettleEffect, RecordLost, RecordEffect, daemonVars
<1>11. /\ proc' \in [Procs -> Mains] /\ workers' \in [Procs -> Nat]
       /\ stopping' \subseteq Procs /\ starts' \in Nat /\ crashes' \in Nat
  <2>1. PICK p \in Procs :
           \/ \E n \in WorkerCounts, s \in Sources, d \in Days : Start(p, n, s, d)
           \/ StartShow(p) \/ Sigterm(p) \/ Crash(p) \/ LoadFails(p) \/ Proceed(p)
           \/ \E e \in Effects : SettleEffect(p, e) \/ RecordLost(p, e)
    BY DEF Next
  <2> QED BY <1>0, <1>4, <1>5, <1>6, <1>7, <1>8, <1>9, <1>10, <2>1 DEF Proceed
<1> QED BY <1>11, StepReceiptsTyped, StepNotYet DEF TypeOK, NotYet

-----------------------------------------------------------------------------
LEMMA EmptyFits ==
    ASSUME NEW S, NEW w \in Nat, S = {}
    PROVE  IsFiniteSet(S) /\ Cardinality(S) <= w
<1>1. IsFiniteSet({}) /\ Cardinality({}) = 0
  BY FS_EmptySet
<1>2. Cardinality(S) = 0
  BY <1>1
<1> QED BY <1>1, <1>2

LEMMA OneMoreFits ==
    ASSUME NEW S, NEW T, NEW e, NEW w \in Nat,
           IsFiniteSet(S), Cardinality(S) < w, T = S \cup {e}
    PROVE  IsFiniteSet(T) /\ Cardinality(T) <= w
<1>1. Cardinality(S) \in Nat
  BY FS_CardinalityType
<1>2. /\ IsFiniteSet(S \cup {e})
      /\ Cardinality(S \cup {e}) = Cardinality(S)
            \/ Cardinality(S \cup {e}) = Cardinality(S) + 1
  BY FS_AddElement
<1>3. Cardinality(T) = Cardinality(S) \/ Cardinality(T) = Cardinality(S) + 1
  BY <1>2
<1>4. Cardinality(T) <= w
  BY <1>1, <1>3
<1> QED BY <1>2, <1>4

(* A step leaves a process enough workers for the records they owe. *)
LEMMA StepOwedByWorkers ==
    ASSUME DaemonInv, Next
    PROVE  OwedByWorkers'
<1> USE DEF DaemonInv
<1>0. trail \in [Effects -> TrailStates] /\ workers \in [Procs -> Nat]
  BY DEF TypeOK, ReceiptsTypeOK, TrailStates, Origins
<1>1. ASSUME NEW e \in Effects, trail'[e].at = "owed"
      PROVE  trail'[e].via \in {"worker", "api"}
  <2>0. trail[e].at = "owed" => trail[e].via \in {"worker", "api"}
    BY DEF OwedByWorkers
  <2>1. ASSUME NEW p \in Procs, NEW why, Die(p, why)
        PROVE  trail'[e] = trail[e]
    BY <1>1, <2>1 DEF Die, Trail
  <2>2. ASSUME NEW p \in Procs, NEW d \in Effects, Record(p, d) \/ RecordFails(p, d)
        PROVE  trail'[e] = trail[e]
    BY <1>0, <1>1, <2>2 DEF Record, RecordFails, Trail
  <2>3. ASSUME NEW p \in Procs, NEW d \in Effects, NEW v \in {"worker", "api"},
               Settle(p, d, v)
        PROVE  trail'[e] = trail[e] \/ trail'[e].via = v
    BY <1>0, <2>3 DEF Settle, Trail
  <2>4. CASE trail' = trail
    BY <1>1, <2>0, <2>4
  <2> QED
    BY <1>1, <2>0, <2>1, <2>2, <2>3, <2>4
       DEF Next, Proceed, Start, StartShow, Sigterm, LoadFails, KeyFileFails, ShowKey,
           Show, Open, Shutdown, WorkerEnds, LoadSigner, LoadStep, LoadOrCreateSigner,
           ReadSeedFile, WriteTemp, Link, Reread, receiptVars, Exit, Crash,
           SettleEffect, RecordEffect, RecordLost
<1>2. ASSUME NEW p \in Procs
      PROVE  /\ IsFiniteSet(Owed(p, "worker")')
             /\ Cardinality(Owed(p, "worker")') <= workers'[p]
  <2> DEFINE O == Owed(p, "worker")
             N == Owed(p, "worker")'
  <2>0. IsFiniteSet(O) /\ Cardinality(O) \in Nat /\ Cardinality(O) <= workers[p]
    BY FS_CardinalityType DEF OwedByWorkers
  <2>1. workers'[p] \in Nat
    BY StepTypeOK DEF TypeOK
  <2>2. CASE N \subseteq O
    <3>1. IsFiniteSet(N) /\ Cardinality(N) <= Cardinality(O) /\ Cardinality(N) \in Nat
      BY <2>0, <2>2, FS_Subset, FS_CardinalityType
    <3>2. CASE workers'[p] = workers[p]
      BY <1>0, <2>0, <3>1, <3>2
    <3>3. CASE WorkerEnds(p)
      <4>1. Cardinality(O) < workers[p] /\ workers'[p] = workers[p] - 1
        BY <1>0, <3>3 DEF WorkerEnds, LoopEnds
      <4> QED BY <1>0, <2>0, <3>1, <4>1
    <3>4. CASE Exit(p) \/ Crash(p)
      <4>1. N = {} /\ workers'[p] = 0
        BY <3>4, GoneOwesNothing
      <4> QED BY <2>1, <4>1, EmptyFits
    <3>5. CASE Open(p)
      <4>1. O = {}
        BY <3>5 DEF Open, MainAt, NotYet, Owes
      <4>2. N = {}
        BY <2>2, <4>1
      <4> QED BY <2>1, <4>2, EmptyFits
    <3> QED
      BY <3>2, <3>3, <3>4, <3>5, ProcFrame
         DEF MainStep, Start, StartShow, ShowKey, Shutdown
  <2>3. CASE /\ \E e \in Effects : N = O \cup {e}
             /\ workers' = workers /\ Cardinality(O) < workers[p]
    <3>1. PICK e \in Effects : N = O \cup {e}
      BY <2>3
    <3>2. workers'[p] = workers[p] /\ workers[p] \in Nat
      BY <1>0, <2>3
    <3>3. IsFiniteSet(N) /\ Cardinality(N) <= workers[p]
      BY <2>0, <2>3, <3>1, <3>2, OneMoreFits
    <3> QED BY <3>2, <3>3
  <2> QED BY <2>2, <2>3, OwedChange
<1> QED BY <1>1, <1>2 DEF OwedByWorkers

(* A step brings no second key from the key file. *)
LEMMA StepOneFileKey ==
    ASSUME DaemonInv, Next
    PROVE  OneFileKey'
<1> USE ReceiptsAssumption DEF DaemonInv
<1>0. /\ file \in [kind : {"absent", "corrupt", "seed"}, seed : Nat]
      /\ signer \in [Procs -> SignerStates] /\ trail \in [Effects -> TrailStates]
  BY DEF TypeOK, ReceiptsTypeOK, SignerStates, TrailStates, Origins
<1>a. /\ \A p \in Procs : signer[p].origin = "file" => file = File("seed", signer[p].seed)
      /\ \A e \in Effects : trail[e].origin = "file" => file = File("seed", trail[e].seed)
      /\ \A k \in shown : file = File("seed", k)
  BY DEF OneFileKey, FileKeys
<1> SUFFICES
      /\ \A p \in Procs : signer'[p].origin = "file" => file' = File("seed", signer'[p].seed)
      /\ \A e \in Effects : trail'[e].origin = "file" => file' = File("seed", trail'[e].seed)
      /\ \A k \in shown' : file' = File("seed", k)
  BY DEF OneFileKey, FileKeys
<1>1. CASE UNCHANGED <<file, signer, trail, shown>>
  BY <1>1, <1>a
<1>2. ASSUME NEW p \in Procs, NEW sg, SetSigner(p, sg), UNCHANGED <<file, trail, shown>>,
             sg.origin = "file" => file = File("seed", sg.seed)
      PROVE  OneFileKey'
  <2>1. \A q \in Procs : signer'[q] = IF q = p THEN sg ELSE signer[q]
    BY <1>0, <1>2 DEF SetSigner
  <2>2. \A q \in Procs :
           signer'[q].origin = "file" => file' = File("seed", signer'[q].seed)
    BY <1>2, <1>a, <2>1
  <2> QED BY <1>2, <1>a, <2>2 DEF OneFileKey, FileKeys
<1>b. OneFileKey' =>
      /\ \A p \in Procs : signer'[p].origin = "file" => file' = File("seed", signer'[p].seed)
      /\ \A e \in Effects : trail'[e].origin = "file" => file' = File("seed", trail'[e].seed)
      /\ \A k \in shown' : file' = File("seed", k)
  BY DEF OneFileKey, FileKeys
<1>c. /\ \A pc, n : Loading(pc, n).origin # "file"
      /\ \A n : Loaded(n, "env").origin # "file" /\ Loaded(n, "own").origin # "file"
      /\ Unloaded.origin # "file"
  BY DEF Loading, Loaded, Unloaded
<1>d. file.kind = "seed" => file = File("seed", file.seed)
  BY <1>0 DEF File
<1>3. ASSUME NEW p \in Procs, LoadSigner(p)
      PROVE  OneFileKey'
  <2>1. CASE LoadOrCreateSigner(p)
    BY <1>2, <1>c, <2>1 DEF LoadOrCreateSigner, Ephemeral
  <2>2. CASE ReadSeedFile(p) \/ Reread(p)
    <3>1. Loaded(file.seed, "file").seed = file.seed
      BY DEF Loaded
    <3> QED BY <1>2, <1>c, <1>d, <2>2, <3>1 DEF ReadSeedFile, Reread, Ephemeral
  <2>3. CASE WriteTemp(p)
    BY <1>2, <1>c, <2>3 DEF WriteTemp
  <2>4. CASE Link(p) /\ file.kind # "absent"
    BY <1>2, <1>c, <2>4 DEF Link, OnExist
  <2>5. CASE Link(p) /\ file.kind = "absent"
    <3>1. /\ \A q \in Procs : signer[q].origin # "file"
          /\ \A e \in Effects : trail[e].origin # "file" /\ shown = {}
      BY <1>a, <2>5 DEF File
    <3>1a. shown = {}
      BY <1>a, <2>5 DEF File
    <3>2. /\ file' = File("seed", signer[p].seed)
          /\ signer' = [signer EXCEPT ![p] = Loaded(signer[p].seed, "file")]
          /\ UNCHANGED <<trail, shown>>
      BY <2>5 DEF Link, SetSigner
    <3>3. \A q \in Procs :
             signer'[q].origin = "file" => file' = File("seed", signer'[q].seed)
      BY <1>0, <3>1, <3>2 DEF Loaded
    <3> QED BY <3>1, <3>1a, <3>2, <3>3 DEF OneFileKey, FileKeys
  <2> QED BY <1>3, <2>1, <2>2, <2>3, <2>4, <2>5 DEF LoadSigner, LoadStep
<1>4. ASSUME NEW p \in Procs, LoadFails(p)
      PROVE  OneFileKey'
  BY <1>2, <1>4, <1>c DEF LoadFails, KeyFileFails, Ephemeral
<1>5. ASSUME NEW p \in Procs, ShowKey(p)
      PROVE  OneFileKey'
  <2>1. /\ \A q \in Procs : signer'[q] = IF q = p THEN Unloaded ELSE signer[q]
        /\ UNCHANGED <<file, trail>>
        /\ shown' = IF signer[p].origin = "file" THEN shown \cup {signer[p].seed}
                                                 ELSE shown
    BY <1>0, <1>5 DEF ShowKey, Show, SetSigner
  <2>2. \A k \in shown' : file' = File("seed", k)
    BY <1>a, <2>1
  <2>3. \A q \in Procs :
           signer'[q].origin = "file" => file' = File("seed", signer'[q].seed)
    BY <1>a, <1>c, <2>1
  <2> QED BY <1>a, <2>1, <2>2, <2>3 DEF OneFileKey, FileKeys
<1>6. ASSUME NEW p \in Procs, NEW why, Die(p, why)
      PROVE  OneFileKey'
  <2>1. /\ \A q \in Procs : signer'[q] = IF q = p THEN Unloaded ELSE signer[q]
        /\ UNCHANGED <<file, shown>>
    BY <1>0, <1>6 DEF Die, SetSigner
  <2>2. \A e \in Effects : trail'[e] = trail[e] \/ trail'[e].origin = None
    BY <1>6 DEF Die, Trail
  <2>3. \A e \in Effects :
           trail'[e].origin = "file" => file' = File("seed", trail'[e].seed)
    BY <1>a, <2>1, <2>2
  <2>4. \A q \in Procs :
           signer'[q].origin = "file" => file' = File("seed", signer'[q].seed)
    BY <1>a, <1>c, <2>1
  <2> QED BY <1>a, <2>1, <2>3, <2>4 DEF OneFileKey, FileKeys
<1>7. ASSUME NEW p \in Procs, NEW e \in Effects,
             SettleEffect(p, e) \/ RecordEffect(p, e) \/ RecordLost(p, e)
      PROVE  OneFileKey'
  <2>1. UNCHANGED <<file, signer, shown>>
    BY <1>7 DEF SettleEffect, Settle, RecordEffect, Record, RecordLost, RecordFails
  <2>2. \A d \in Effects :
           \/ trail'[d] = trail[d] \/ trail'[d].origin = None
           \/ trail'[d].origin = signer[p].origin /\ trail'[d].seed = signer[p].seed
    BY <1>0, <1>7
       DEF SettleEffect, Settle, RecordEffect, Record, RecordLost, RecordFails, Trail
  <2>3. \A d \in Effects :
           trail'[d].origin = "file" => file' = File("seed", trail'[d].seed)
    BY <1>a, <2>1, <2>2
  <2> QED BY <1>a, <2>1, <2>3 DEF OneFileKey, FileKeys
<1>8. ASSUME NEW p \in Procs,
             \/ \E n \in WorkerCounts, s \in Sources, d \in Days : Start(p, n, s, d)
             \/ StartShow(p) \/ Sigterm(p) \/ Open(p) \/ Shutdown(p) \/ WorkerEnds(p)
      PROVE  UNCHANGED <<file, signer, trail, shown>>
  BY <1>8 DEF Start, StartShow, Sigterm, Open, Shutdown, WorkerEnds, receiptVars
<1> QED BY <1>1, <1>3, <1>4, <1>5, <1>6, <1>7, <1>8, <1>b DEF Next, Proceed, Exit, Crash

-----------------------------------------------------------------------------
(* A step lets nobody past the gate with workers that want a license, and     *)
(* refuses nobody who has it.                                                 *)
LEMMA StepGate ==
    ASSUME DaemonInv, Next
    PROVE  Passed' /\ LicenseGate'
<1> USE DaemonAssumption DEF DaemonInv
<1>0. /\ proc \in [Procs -> [pc : {"off", "refused", "show", "open", "serve", "drain",
                                   "wait"},
                             n : WorkerCounts \cup {0}, licensed : BOOLEAN]]
      /\ workers \in [Procs -> Nat]
  BY DEF TypeOK
<1> SUFFICES ASSUME NEW q \in Procs
             PROVE  /\ proc'[q].pc = "open" /\ proc'[q].n > FreeWorkerCap
                          => proc'[q].licensed
                    /\ workers'[q] > FreeWorkerCap => proc'[q].licensed
                    /\ proc'[q].pc = "refused" =>
                          proc'[q].n > FreeWorkerCap /\ ~proc'[q].licensed
  BY DEF Passed, LicenseGate, MainAt
<1>1. /\ proc[q].pc = "open" /\ proc[q].n > FreeWorkerCap => proc[q].licensed
      /\ workers[q] > FreeWorkerCap => proc[q].licensed
      /\ proc[q].pc = "refused" => proc[q].n > FreeWorkerCap /\ ~proc[q].licensed
  BY DEF Passed, LicenseGate, MainAt
<1>2. ASSUME workers'[q] = 0 \/ workers'[q] <= FreeWorkerCap
      PROVE  ~(workers'[q] > FreeWorkerCap)
  <2>1. workers'[q] \in Nat
    BY StepTypeOK DEF TypeOK
  <2> QED BY <1>2, <2>1
<1>3. CASE proc'[q] = proc[q] /\ workers'[q] = workers[q]
  BY <1>1, <1>3
<1>4. ASSUME NEW n \in WorkerCounts, NEW s \in Sources, NEW d \in Days, Start(q, n, s, d)
      PROVE  /\ proc'[q].pc \in {"open", "refused"} /\ workers'[q] = 0
             /\ proc'[q].pc = "open" /\ proc'[q].n > FreeWorkerCap => proc'[q].licensed
             /\ proc'[q].pc = "refused" =>
                   proc'[q].n > FreeWorkerCap /\ ~proc'[q].licensed
  <2>1. proc'[q] = Main(IF Admitted(n, s, d) THEN "open" ELSE "refused", n,
                        n > FreeWorkerCap /\ Licensed(s, d))
    BY <1>0, <1>4 DEF Start
  <2>2. /\ proc'[q].pc = (IF Admitted(n, s, d) THEN "open" ELSE "refused")
        /\ proc'[q].n = n
        /\ proc'[q].licensed = (n > FreeWorkerCap /\ Licensed(s, d))
    BY <2>1 DEF Main
  <2>3. Admitted(n, s, d) <=> n <= FreeWorkerCap \/ Licensed(s, d)
    BY FeatureMeansLicensed DEF Admitted
  <2>4. n \in Nat /\ FreeWorkerCap \in Nat
    OBVIOUS
  <2>5. workers'[q] = 0
    BY <1>4 DEF Start, Startable, NotYet
  <2>6. n > FreeWorkerCap <=> ~(n <= FreeWorkerCap)
    BY <2>4
  <2> QED BY <2>2, <2>3, <2>5, <2>6
<1>5. CASE StartShow(q)
  <2>1. proc'[q].pc = "show" /\ workers'[q] = 0
    BY <1>0, <1>5 DEF StartShow, Startable, NotYet, Main
  <2> QED BY <1>2, <2>1
<1>6. CASE ShowKey(q)
  <2>1. proc'[q].pc = "off" /\ workers'[q] = 0
    BY <1>0, <1>6 DEF ShowKey, NotYet, Off, Main, MainAt
  <2> QED BY <1>2, <2>1
<1>7. CASE Open(q)
  <2>1. proc[q].pc = "open" /\ workers[q] = 0
    BY <1>7 DEF Open, MainAt, NotYet
  <2>2. \/ /\ proc'[q].pc \in {"serve", "wait"} /\ proc'[q].licensed = proc[q].licensed
           /\ workers'[q] = proc[q].n
        \/ proc'[q].pc = "off" /\ workers'[q] = workers[q]
    BY <1>0, <1>7 DEF Open, Goto, Main, Off
  <2> QED BY <1>1, <1>2, <2>1, <2>2
<1>8. CASE Shutdown(q)
  <2>1. /\ proc'[q].pc = "drain" /\ proc'[q].licensed = proc[q].licensed
        /\ workers'[q] = workers[q]
    BY <1>0, <1>8 DEF Shutdown, Goto, Main
  <2> QED BY <1>1, <2>1
<1>9. CASE WorkerEnds(q)
  <2>1. proc' = proc /\ workers'[q] = workers[q] - 1 /\ workers[q] \in Nat
    BY <1>0, <1>9 DEF WorkerEnds
  <2>2. workers'[q] > FreeWorkerCap => workers[q] > FreeWorkerCap
    BY <2>1
  <2> QED BY <1>1, <2>1, <2>2
<1>10. CASE Exit(q) \/ Crash(q)
  <2>1. proc'[q].pc = "off" /\ workers'[q] = 0
    BY <1>10, GoneOwesNothing DEF Off, Main
  <2> QED BY <1>2, <2>1
<1> QED BY <1>2, <1>3, <1>4, <1>5, <1>6, <1>7, <1>8, <1>9, <1>10, ProcFrame DEF MainStep

(* A process that returns from main has no worker, and so owes no record that *)
(* a worker owes.                                                             *)
LEMMA StepWorkerTrail ==
    ASSUME DaemonInv, Next
    PROVE  WorkerTrailKept'
<1> USE ReceiptsAssumption DEF DaemonInv
<1> SUFFICES ASSUME NEW e \in Effects, trail'[e].at = "lost", trail'[e].why = "exit"
             PROVE  trail'[e].via = "api"
  BY DEF WorkerTrailKept
<1>0. trail \in [Effects -> TrailStates] /\ workers \in [Procs -> Nat]
  BY DEF TypeOK, ReceiptsTypeOK, TrailStates, Origins
<1>1. CASE trail'[e] = trail[e]
  BY <1>1 DEF WorkerTrailKept
<1>2. ASSUME NEW p \in Procs, Exit(p)
      PROVE  trail'[e].via = "api"
  <2>1. CASE trail[e].at = "owed" /\ trail[e].by = p
    <3>1. workers[p] = 0
      BY <1>2 DEF Exit, Waited
    <3>2. Owed(p, "worker") = {}
      <4> DEFINE O == Owed(p, "worker")
      <4>1. IsFiniteSet(O) /\ Cardinality(O) <= 0
        BY <3>1 DEF OwedByWorkers
      <4> HIDE DEF O
      <4>2. Cardinality(O) \in Nat
        BY <4>1, FS_CardinalityType
      <4>3. Cardinality(O) = 0
        BY <4>1, <4>2
      <4>4. O = {}
        BY <4>1, <4>3, FS_EmptySet
      <4> QED BY <4>4 DEF O
    <3>3. trail[e].via = "api"
      BY <2>1, <3>2 DEF Owed, OwedByWorkers
    <3>4. trail'[e].via = trail[e].via
      BY <1>2, <2>1 DEF Exit, Die, Trail
    <3> QED BY <3>3, <3>4
  <2>2. CASE ~(trail[e].at = "owed" /\ trail[e].by = p)
    <3>1. trail'[e] = trail[e]
      BY <1>2, <2>2 DEF Exit, Die
    <3> QED BY <1>1, <3>1
  <2> QED BY <2>1, <2>2
<1>3. ASSUME NEW p \in Procs, Crash(p)
      PROVE  trail'[e] = trail[e]
  BY <1>3 DEF Crash, Die, Trail
<1>4. ASSUME NEW p \in Procs, NEW d \in Effects,
             SettleEffect(p, d) \/ RecordEffect(p, d) \/ RecordLost(p, d)
      PROVE  trail'[e] = trail[e]
  BY <1>0, <1>4
     DEF SettleEffect, Settle, RecordEffect, Record, RecordLost, RecordFails, Trail
<1>5. ASSUME NEW p \in Procs,
             \/ \E n \in WorkerCounts, s \in Sources, d \in Days : Start(p, n, s, d)
             \/ StartShow(p) \/ Sigterm(p) \/ LoadFails(p) \/ ShowKey(p) \/ Open(p)
             \/ Shutdown(p) \/ WorkerEnds(p) \/ LoadSigner(p)
      PROVE  trail' = trail
  BY <1>5 DEF Start, StartShow, Sigterm, LoadFails, KeyFileFails, ShowKey, Show, Open,
              Shutdown, WorkerEnds, LoadSigner, LoadStep, LoadOrCreateSigner,
              ReadSeedFile, WriteTemp, Link, Reread, receiptVars
<1> QED BY <1>1, <1>2, <1>3, <1>4, <1>5 DEF Next, Proceed

(* A step that changes nothing keeps the invariant. *)
LEMMA StutterInv ==
    ASSUME DaemonInv, UNCHANGED vars
    PROVE  DaemonInv'
<1>1. /\ UNCHANGED <<file, drawn, signer, trail, shown, faults>>
      /\ UNCHANGED <<proc, workers, stopping, starts, crashes>>
  BY DEF vars, receiptVars, daemonVars
<1>2. \A p \in Procs : /\ Owed(p, "worker")' = Owed(p, "worker")
                       /\ Owed(p, "api")' = Owed(p, "api")
  BY <1>1 DEF Owed
<1>3. \A p \in Procs : Owes(p)' <=> Owes(p)
  BY <1>2 DEF Owes
<1>4. ReceiptsTypeOK'
  BY <1>1 DEF DaemonInv, TypeOK, ReceiptsTypeOK
<1>5. TypeOK' /\ NotYet'
  BY <1>1, <1>3, <1>4 DEF DaemonInv, TypeOK, NotYet
<1>6. OwedByWorkers'
  BY <1>1, <1>2 DEF DaemonInv, OwedByWorkers
<1>7. OneFileKey'
  BY <1>1 DEF DaemonInv, OneFileKey, FileKeys
<1>8. Passed' /\ LicenseGate' /\ WorkerTrailKept'
  BY <1>1 DEF DaemonInv, Passed, LicenseGate, WorkerTrailKept, MainAt
<1> QED BY <1>5, <1>6, <1>7, <1>8 DEF DaemonInv

-----------------------------------------------------------------------------
(* The inductive invariant: the types and the four properties below, with     *)
(* what main's place says about the key, the workers and the records owed.    *)
THEOREM DaemonInvariant == Spec => []DaemonInv
<1>1. DaemonInv /\ [Next]_vars => DaemonInv'
  <2> SUFFICES ASSUME DaemonInv, [Next]_vars PROVE DaemonInv'
    OBVIOUS
  <2>1. CASE Next
    <3>1. TypeOK' /\ NotYet'
      BY <2>1, StepTypeOK, StepNotYet DEF DaemonInv
    <3> QED BY <2>1, <3>1, StepOwedByWorkers, StepOneFileKey, StepGate, StepWorkerTrail
            DEF DaemonInv
  <2>2. CASE UNCHANGED vars
    BY <2>2, StutterInv
  <2> QED BY <2>1, <2>2
<1> QED BY <1>1, InitInv, PTL DEF Spec

(* cmd/harbourd, internal/receipt: every variable stays in its set, and a     *)
(* process that is not there has no workers, no key and owes no record.       *)
THEOREM DaemonTypes == Spec => []TypeOK
<1>1. DaemonInv => TypeOK
  BY DEF DaemonInv
<1> QED BY <1>1, DaemonInvariant, PTL

(* keyfile.go: however many processes create, read and lose the key file at   *)
(* once, crash between any two of its calls or see one fail, every key that   *)
(* came from it, in use, on a receipt or printed for enrolment, is the key it *)
(* holds.                                                                     *)
THEOREM OneKeyFromFile == Spec => []OneFileKey
<1>1. DaemonInv => OneFileKey
  BY DEF DaemonInv
<1> QED BY <1>1, DaemonInvariant, PTL

(* main.go:58-66: with any licenses, days and -workers, a process has more    *)
(* workers than the free ones only if its license was good when it started,   *)
(* and is refused only for want of one.                                       *)
THEOREM GateHolds == Spec => []LicenseGate
<1>1. DaemonInv => LicenseGate
  BY DEF DaemonInv
<1> QED BY <1>1, DaemonInvariant, PTL

(* main.go:84-104: what a process loses by ending on a signal was settled by  *)
(* an API request, never by a worker, for any number of workers, effects and  *)
(* processes.                                                                 *)
THEOREM TrailOnSignal == Spec => []WorkerTrailKept
<1>1. DaemonInv => WorkerTrailKept
  BY DEF DaemonInv
<1> QED BY <1>1, DaemonInvariant, PTL
=============================================================================
