------------------------------- MODULE Forest -------------------------------
(* The goals table as a forest: idempotent submission (Store.Create) and      *)
(* changes of a goal's parent (Store.Reparent), by concurrent API requests.   *)
(* Create looks an id up, inserts, and reads again when the insert meets a    *)
(* unique key; Reparent checks for a cycle before, and not within, the        *)
(* transaction that writes.  Ids and names are looked up by the same string,  *)
(* so the sets may overlap.                                                   *)
EXTENDS Naturals

CONSTANTS Ids,        \* ids of goals
          Generated,  \* the ids newID may draw; callers do not choose them
          Names,      \* names of goals
          Bodies,     \* agent and input of a goal, up to jsonEqual
          Submissions,  \* the submissions callers make
          Requests,   \* request handlers
          None,       \* no id, no parent, no row
          MaxCalls    \* bound: requests

ASSUME ForestAssumption ==
    /\ Generated \subseteq Ids
    /\ None \notin Ids
    /\ MaxCalls \in Nat

(* A submission, without its approve flag. *)
Specs == [id : (Ids \ Generated) \cup {None}, name : Names, body : Bodies,
          parent : Ids \cup {None}]

ASSUME SubmissionsAssumption == Submissions \subseteq Specs

VARIABLES row,       \* row[i]: name, body, parent and state of goal i, or Absent
          req,       \* req[r]: where request r is
          calls,     \* requests so far, for the bound
          accepted,  \* submissions answered with a goal
          moved,     \* goals whose parent a Reparent has written
          raced      \* a Reparent wrote after another one since its check

vars == <<row, req, calls, accepted, moved, raced>>

Absent == [name |-> None, body |-> None, parent |-> None, state |-> "absent"]
Exists(i) == row[i].state # "absent"
ParentOf(i) == row[i].parent

Idle(pc) == [pc |-> pc]
Creating(pc, c, approve) == [pc |-> pc, c |-> c, approve |-> approve]
Approving(c, i) == [pc |-> "approve", c |-> c, goal |-> i]

(* Mutant of Moving: the goal and its new parent are swapped. *)
MovingSwapped(pc, i, p, stale) ==
    [pc |-> pc, goal |-> p, parent |-> i, stale |-> stale]

(* A Reparent of goal i under p; stale: another one wrote since its check. *)
Moving(pc, i, p, stale) == [pc |-> pc, goal |-> i, parent |-> p, stale |-> stale]

Free(r) == req[r].pc \in {"idle", "done", "refused", "failed"}
Become(r, s) == req' = [req EXCEPT ![r] = s]

Init ==
    /\ row = [i \in Ids |-> Absent]
    /\ req = [r \in Requests |-> Idle("idle")]
    /\ calls = 0
    /\ accepted = {}
    /\ moved = {}
    /\ raced = FALSE

-----------------------------------------------------------------------------
(* sameSpec: the existing goal is the one submitted, its parent included. *)
SameSpec(i, c) ==
    row[i].name = c.name /\ row[i].body = c.body /\ row[i].parent = c.parent

(* The caller is given goal i. *)
Accept(r, c, i) ==
    /\ Become(r, Idle("done"))
    /\ accepted' = accepted \cup {[c |-> c, goal |-> i]}

(* ErrConflict, or another error: the caller is given no goal. *)
Refuse(r) == Become(r, Idle("refused")) /\ UNCHANGED accepted
Fail(r) == Become(r, Idle("failed")) /\ UNCHANGED accepted

(* A submission with valid fields; without an id there is nothing to look up. *)
Submit(r) ==
    /\ Free(r) /\ calls < MaxCalls
    /\ calls' = calls + 1
    /\ \E c \in Submissions, approve \in BOOLEAN :
          Become(r, Creating(IF c.id = None THEN "insert" ELSE "lookup", c, approve))
    /\ UNCHANGED <<row, accepted, moved, raced>>

(* The goal with the caller's id, if there is one. *)
Lookup(r) ==
    /\ req[r].pc = "lookup"
    /\ LET c == req[r].c IN
       \/ Exists(c.id) /\ SameSpec(c.id, c) /\ Accept(r, c, c.id)
       \/ Exists(c.id) /\ ~SameSpec(c.id, c) /\ Refuse(r)
       \/ /\ ~Exists(c.id)
          /\ Become(r, [req[r] EXCEPT !.pc = "insert"])
          /\ UNCHANGED accepted
    /\ UNCHANGED <<row, calls, moved, raced>>

(* newID's 64 random bits do not meet an id in use. *)
NewIds(c) == IF c.id # None THEN {c.id} ELSE {i \in Generated : ~Exists(i)}

(* The primary key, or the unique name, is taken. *)
Taken(i, c) == Exists(i) \/ \E j \in Ids : Exists(j) /\ row[j].name = c.name

(* parent_id REFERENCES goals(id): checked after the row is in the table, so  *)
(* that a goal may be its own parent.                                         *)
ParentKnown(i, c) == c.parent \in {None, i} \cup {j \in Ids : Exists(j)}

Insert(r) ==
    /\ req[r].pc = "insert"
    /\ LET c == req[r].c IN
       \E i \in NewIds(c) :
          /\ ~Taken(i, c) /\ ParentKnown(i, c)
          /\ row' = [row EXCEPT ![i] = [name |-> c.name, body |-> c.body,
                                        parent |-> c.parent, state |-> "proposed"]]
          /\ IF req[r].approve
             THEN Become(r, Approving(c, i)) /\ UNCHANGED accepted
             ELSE Accept(r, c, i)
    /\ UNCHANGED <<calls, moved, raced>>

(* The insert meets a unique key (23505): with an id the goal is read again,  *)
(* without one the name is in use.  Another error is returned as it is.       *)
InsertRefused(r) ==
    /\ req[r].pc = "insert"
    /\ LET c == req[r].c IN
       \E i \in NewIds(c) :
          \/ /\ Taken(i, c) /\ c.id # None
             /\ Become(r, [req[r] EXCEPT !.pc = "reread"])
             /\ UNCHANGED accepted
          \/ Taken(i, c) /\ c.id = None /\ Refuse(r)
          \/ ~Taken(i, c) /\ ~ParentKnown(i, c) /\ Fail(r)
    /\ UNCHANGED <<row, calls, moved, raced>>

(* Get: by id or by name.  When both match one of them is returned. *)
Found(str) == {i \in Ids : Exists(i) /\ (i = str \/ row[i].name = str)}

(* Mutant of Adopts: the goal found is returned whatever its spec. *)
AdoptsAny(i, c) == TRUE

(* Mutant of Adopts: a lost race is reported as a conflict. *)
AdoptsNone(i, c) == FALSE

(* The goal that won the race is the one submitted. *)
Adopts(i, c) == SameSpec(i, c)

Reread(r) ==
    /\ req[r].pc = "reread"
    /\ LET c == req[r].c IN
       \/ \E i \in Found(c.id) : Adopts(i, c) /\ Accept(r, c, i)
       \/ \E i \in Found(c.id) : ~Adopts(i, c) /\ Refuse(r)
       \/ Found(c.id) = {} /\ Refuse(r)
    /\ UNCHANGED <<row, calls, moved, raced>>

(* approve: a second transaction; an operator may have moved the goal on, or  *)
(* cancelled it, before.                                                      *)
ApproveAtSubmit(r) ==
    /\ req[r].pc = "approve"
    /\ \/ /\ row[req[r].goal].state = "proposed"
          /\ row' = [row EXCEPT ![req[r].goal].state = "approved"]
          /\ Accept(r, req[r].c, req[r].goal)
       \/ row[req[r].goal].state # "proposed" /\ Fail(r) /\ UNCHANGED row
    /\ UNCHANGED <<calls, moved, raced>>

(* The signals that Runtime models, as far as a submission sees them. *)
OperatorMoves(i) ==
    /\ row[i].state = "proposed"
    /\ row' = [row EXCEPT ![i].state = "approved"]
    /\ UNCHANGED <<req, calls, accepted, moved, raced>>

-----------------------------------------------------------------------------
(* Reparent looks the goal and its new parent up; "" is no parent, and needs  *)
(* no check.                                                                  *)
ReparentGet(r) ==
    /\ Free(r) /\ calls < MaxCalls
    /\ calls' = calls + 1
    /\ \E str \in Ids \cup Names : \E i \in Found(str) :
          \/ Become(r, Moving("write", i, None, FALSE))
          \/ \E pstr \in Ids \cup Names : \E p \in Found(pstr) :
                Become(r, Moving("check", i, p, FALSE))
    /\ UNCHANGED <<row, accepted, moved, raced>>

(* The recursive query: the least set that has p and the parents of its       *)
(* members.                                                                   *)
ClosedUp(S) == \A i \in S : ParentOf(i) = None \/ ParentOf(i) \in S
Up(p) == {i \in Ids : \A S \in SUBSET Ids : p \in S /\ ClosedUp(S) => i \in S}

(* Mutant of Cyclic: only the new parent itself is looked at. *)
CyclicDirect(i, p) == i = p

Cyclic(i, p) == i \in Up(p)

ReparentCheck(r) ==
    /\ req[r].pc = "check"
    /\ IF Cyclic(req[r].goal, req[r].parent)
       THEN Become(r, Idle("failed"))
       ELSE Become(r, [req[r] EXCEPT !.pc = "write"])
    /\ UNCHANGED <<row, calls, accepted, moved, raced>>

(* The write does not look again.  It makes the checks of others stale. *)
ReparentWrite(r) ==
    /\ req[r].pc = "write"
    /\ row' = [row EXCEPT ![req[r].goal].parent = req[r].parent]
    /\ moved' = moved \cup {req[r].goal}
    /\ raced' = (raced \/ (req[r].stale /\ req[r].parent # None))
    /\ req' = [q \in Requests |->
                  IF q = r THEN Idle("done")
                  ELSE IF req[q].pc = "write"
                  THEN Moving("write", req[q].goal, req[q].parent, TRUE)
                  ELSE req[q]]
    /\ UNCHANGED <<calls, accepted>>

(* A statement fails, the caller goes away or the process dies. *)
Abandon(r) ==
    /\ ~Free(r)
    /\ Become(r, Idle("failed"))
    /\ UNCHANGED <<row, calls, accepted, moved, raced>>

-----------------------------------------------------------------------------
RequestNext(r) ==
    \/ Submit(r) \/ Lookup(r) \/ Insert(r) \/ InsertRefused(r) \/ Reread(r)
    \/ ApproveAtSubmit(r)
    \/ ReparentGet(r) \/ ReparentCheck(r) \/ ReparentWrite(r)
    \/ Abandon(r)

Next ==
    \/ \E r \in Requests : RequestNext(r)
    \/ \E i \in Ids : OperatorMoves(i)

Spec == Init /\ [][Next]_vars

-----------------------------------------------------------------------------
Rows == [name : Names, body : Bodies, parent : Ids \cup {None},
         state : {"proposed", "approved"}]

(* Where a request is: not in a call, in Create, in Create's approval, in      *)
(* Reparent.                                                                  *)
AtRest == [pc : {"idle", "done", "refused", "failed"}]
InCreate == [pc : {"lookup", "insert", "reread"}, c : Submissions, approve : BOOLEAN]
InApproval == [pc : {"approve"}, c : Submissions, goal : Ids]
InReparent == [pc : {"check", "write"}, goal : Ids, parent : Ids \cup {None},
               stale : BOOLEAN]

(* The table and the requests have their shape. *)
TypeOK ==
    /\ row \in [Ids -> Rows \cup {Absent}]
    /\ req \in [Requests -> AtRest \cup InCreate \cup InApproval \cup InReparent]
    /\ calls \in Nat
    /\ accepted \subseteq [c : Submissions, goal : Ids]
    /\ moved \subseteq Ids
    /\ raced \in BOOLEAN

(* "If set, submit is idempotent" (store.go:165-168): two submissions with    *)
(* one id and one spec that are given a goal are given the same one, and it   *)
(* has the name they asked for, however their lookups and inserts interleave. *)
SubmitIdempotent ==
    \A x, y \in accepted :
        /\ x.c.id # None /\ x.c = y.c => x.goal = y.goal
        /\ row[x.goal].name = x.c.name /\ row[x.goal].body = x.c.body

Refuses(r) == req[r].pc # "refused" /\ req'[r].pc = "refused"

(* "Resubmitting the same id with an identical spec returns the existing      *)
(* goal" (store.go:165-167): a conflict is reported for a submission that was *)
(* accepted before only when a Reparent changed the goal's parent since, or   *)
(* when another goal has the id for its name and Get returns that one.        *)
ResubmitAccepted ==
    [][\A r \in Requests : Refuses(r) =>
          \A x \in accepted : x.c = req[r].c /\ x.goal = x.c.id =>
             x.goal \in moved \/ Found(x.goal) # {x.goal}]_vars

(* "Rejecting cycles" (store.go:391): no set of goals hangs below itself,     *)
(* but for goals submitted as their own parent, unless two Reparents raced.   *)
TreeSound ==
    raced \/ \A S \in SUBSET Ids : S # {} =>
                \E i \in S : ParentOf(i) \notin S \/ ParentOf(i) = i
=============================================================================
