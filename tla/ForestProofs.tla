---------------------------- MODULE ForestProofs ----------------------------
(* Proofs about Forest: types, idempotent submission, accepted resubmissions  *)
(* and no cycle, for any number of goals, names and concurrent requests.      *)
EXTENDS Forest, TLAPS

(* The foreign key and the unique name hold of the table. *)
TableSound ==
    /\ \A i \in Ids : ParentOf(i) # None => Exists(i) /\ ParentOf(i) \in Ids
                                            /\ Exists(ParentOf(i))
    /\ \A i, j \in Ids : Exists(i) /\ Exists(j) /\ row[i].name = row[j].name => i = j

(* Goal i is what submission c asked for, but for a parent it was given since. *)
Gives(c, i) ==
    /\ Exists(i) /\ row[i].name = c.name /\ row[i].body = c.body
    /\ row[i].parent = c.parent \/ i \in moved

(* A set of goals has p and what is above p, and not i. *)
Apart(i, p) == \E S \in SUBSET Ids : p \in S /\ ClosedUp(S) /\ i \notin S

(* A request knows goals that exist; a check that is not stale still holds. *)
RequestSound(q) ==
    /\ req[q].pc = "lookup" => req[q].c.id # None
    /\ req[q].pc = "approve" => Gives(req[q].c, req[q].goal)
    /\ req[q].pc \in {"check", "write"} =>
          /\ Exists(req[q].goal)
          /\ req[q].parent # None => Exists(req[q].parent)
          /\ req[q].pc = "check" => req[q].parent # None
          /\ req[q].pc = "write" /\ ~req[q].stale /\ req[q].parent # None =>
                Apart(req[q].goal, req[q].parent)

AcceptedSound == \A x \in accepted : Gives(x.c, x.goal)

ForestInv ==
    /\ TypeOK /\ TableSound
    /\ \A q \in Requests : RequestSound(q)
    /\ AcceptedSound /\ TreeSound

-----------------------------------------------------------------------------
NewRow(c) == [name |-> c.name, body |-> c.body, parent |-> c.parent,
              state |-> "proposed"]

(* The ways one step changes the table: a goal is inserted, approved, or has   *)
(* its parent changed by a request.                                           *)
Inserts(i, c) ==
    /\ ~Taken(i, c) /\ ParentKnown(i, c)
    /\ row' = [row EXCEPT ![i] = NewRow(c)]
    /\ UNCHANGED <<moved, raced>>

Approves(i) ==
    /\ Exists(i)
    /\ row' = [row EXCEPT ![i].state = "approved"]
    /\ UNCHANGED <<moved, raced>>

(* One step changes the table in one of these ways, or not at all. *)
LEMMA TableChange ==
    ASSUME TypeOK, [Next]_vars
    PROVE  \/ UNCHANGED <<row, moved, raced>>
           \/ \E i \in Ids, c \in Submissions : Inserts(i, c)
           \/ \E i \in Ids : Approves(i)
           \/ \E r \in Requests : ReparentWrite(r)
<1>1. CASE UNCHANGED vars
  BY <1>1 DEF vars
<1>2. ASSUME NEW r \in Requests,
             Submit(r) \/ Lookup(r) \/ InsertRefused(r) \/ Reread(r)
             \/ ReparentGet(r) \/ ReparentCheck(r) \/ Abandon(r)
      PROVE  UNCHANGED <<row, moved, raced>>
  BY <1>2 DEF Submit, Lookup, InsertRefused, Reread, ReparentGet, ReparentCheck, Abandon
<1>3. ASSUME NEW r \in Requests, Insert(r)
      PROVE  \E i \in Ids, c \in Submissions : Inserts(i, c)
  <2>1. req[r] \in InCreate
    BY <1>3 DEF Insert, TypeOK, AtRest, InCreate, InApproval, InReparent
  <2>2. req[r].c \in Submissions
    BY <2>1 DEF InCreate
  <2>3. PICK i \in NewIds(req[r].c) : Inserts(i, req[r].c)
    BY <1>3 DEF Insert, Inserts, NewRow
  <2>4. i \in Ids
    BY <2>2, <2>3, ForestAssumption, SubmissionsAssumption DEF NewIds, Specs
  <2> QED BY <2>2, <2>3, <2>4
<1>4. ASSUME NEW r \in Requests, ApproveAtSubmit(r)
      PROVE  UNCHANGED <<row, moved, raced>> \/ \E i \in Ids : Approves(i)
  <2>1. req[r] \in InApproval
    BY <1>4 DEF ApproveAtSubmit, TypeOK, AtRest, InCreate, InApproval, InReparent
  <2>2. req[r].goal \in Ids
    BY <2>1 DEF InApproval
  <2> QED BY <1>4, <2>2 DEF ApproveAtSubmit, Approves, Exists
<1>5. ASSUME NEW i \in Ids, OperatorMoves(i)
      PROVE  Approves(i)
  BY <1>5 DEF OperatorMoves, Approves, Exists
<1> QED BY <1>1, <1>2, <1>3, <1>4, <1>5 DEF Next, RequestNext

(* What the table of the next state has at goal j, for each way. *)
LEMMA RowAfter ==
    ASSUME TypeOK, NEW i \in Ids, NEW j \in Ids
    PROVE  /\ \A c : Inserts(i, c) => row'[j] = IF j = i THEN NewRow(c) ELSE row[j]
           /\ Approves(i) =>
                 row'[j] = IF j = i THEN [name |-> row[i].name, body |-> row[i].body,
                                          parent |-> row[i].parent, state |-> "approved"]
                           ELSE row[j]
<1>1. row \in [Ids -> Rows \cup {Absent}]
  BY DEF TypeOK
<1>2. ASSUME Approves(i), j = i
      PROVE  row'[j] = [name |-> row[i].name, body |-> row[i].body,
                        parent |-> row[i].parent, state |-> "approved"]
  <2>1. row[i] \in Rows
    BY <1>1, <1>2 DEF Approves, Exists, Absent
  <2>2. row'[i] = [row[i] EXCEPT !.state = "approved"]
    BY <1>1, <1>2 DEF Approves
  <2> QED BY <1>2, <2>1, <2>2 DEF Rows
<1>3. ASSUME Approves(i), j # i
      PROVE  row'[j] = row[j]
  BY <1>1, <1>3 DEF Approves
<1>4. ASSUME NEW c, Inserts(i, c)
      PROVE  row'[j] = IF j = i THEN NewRow(c) ELSE row[j]
  BY <1>1, <1>4 DEF Inserts
<1> QED BY <1>2, <1>3, <1>4

(* What Reparent's write leaves. *)
LEMMA RowAfterWrite ==
    ASSUME TypeOK, NEW r \in Requests, RequestSound(r), ReparentWrite(r), NEW j \in Ids
    PROVE  /\ req[r] \in InReparent /\ req[r].goal \in Ids
           /\ req[r].parent \in Ids \cup {None}
           /\ j # req[r].goal => row'[j] = row[j]
           /\ j = req[r].goal =>
                 row'[j] = [name |-> row[j].name, body |-> row[j].body,
                            parent |-> req[r].parent, state |-> row[j].state]
<1>1. row \in [Ids -> Rows \cup {Absent}]
  BY DEF TypeOK
<1>2. req[r] \in InReparent
  BY DEF ReparentWrite, TypeOK, AtRest, InCreate, InApproval, InReparent
<1>3. req[r].goal \in Ids /\ req[r].parent \in Ids \cup {None}
  BY <1>2 DEF InReparent
<1>4. j # req[r].goal => row'[j] = row[j]
  BY <1>1, <1>3 DEF ReparentWrite
<1>5. ASSUME j = req[r].goal
      PROVE  row'[j] = [name |-> row[j].name, body |-> row[j].body,
                        parent |-> req[r].parent, state |-> row[j].state]
  <2>1. row'[j] = [row[j] EXCEPT !.parent = req[r].parent]
    BY <1>1, <1>3, <1>5 DEF ReparentWrite
  <2>2. row[j] \in Rows
    BY <1>1, <1>5 DEF RequestSound, ReparentWrite, Exists, Absent
  <2> QED BY <2>1, <2>2 DEF Rows
<1> QED BY <1>2, <1>3, <1>4, <1>5

(* A goal that exists keeps its name and its body, and its parent unless it    *)
(* was moved.                                                                 *)
LEMMA GoalsKept ==
    ASSUME TypeOK, \A q \in Requests : RequestSound(q), [Next]_vars
    PROVE  /\ \A i \in Ids : Exists(i) => Exists(i)'
           /\ \A i \in Ids, c \in Submissions : Gives(c, i) => Gives(c, i)'
<1> DEFINE Kept(i) == /\ row'[i].state # "absent" /\ row'[i].name = row[i].name
                      /\ row'[i].body = row[i].body
                      /\ row'[i].parent = row[i].parent \/ i \in moved'
<1>0. SUFFICES ASSUME NEW i \in Ids, Exists(i) PROVE Kept(i) /\ moved \subseteq moved'
  BY DEF Exists, Gives
<1>00. row[i] \in Rows
  BY <1>0 DEF TypeOK, Exists, Absent
<1>1. CASE UNCHANGED <<row, moved, raced>>
  BY <1>0, <1>1 DEF Exists
<1>2. ASSUME NEW j \in Ids, NEW c \in Submissions, Inserts(j, c)
      PROVE  Kept(i) /\ moved \subseteq moved'
  <2>1. j # i
    BY <1>0, <1>2 DEF Inserts, Taken
  <2>2. row'[i] = row[i]
    BY <1>2, <2>1, RowAfter
  <2> QED BY <1>0, <1>2, <2>2 DEF Exists, Inserts
<1>3. ASSUME NEW j \in Ids, Approves(j)
      PROVE  Kept(i) /\ moved \subseteq moved'
  <2>1. row'[i] = row[i] \/ row'[i] = [name |-> row[i].name, body |-> row[i].body,
                                       parent |-> row[i].parent, state |-> "approved"]
    <3>1. CASE i = j
      BY <1>3, <3>1, RowAfter
    <3>2. CASE i # j
      BY <1>3, <3>2, RowAfter
    <3> QED BY <3>1, <3>2
  <2> QED BY <1>0, <1>3, <2>1 DEF Exists, Approves
<1>4. ASSUME NEW r \in Requests, ReparentWrite(r)
      PROVE  Kept(i) /\ moved \subseteq moved'
  <2>1. moved' = moved \cup {req[r].goal}
    BY <1>4 DEF ReparentWrite
  <2>2. CASE i = req[r].goal
    <3>1. row'[i] = [name |-> row[i].name, body |-> row[i].body,
                     parent |-> req[r].parent, state |-> row[i].state]
      BY <1>4, <2>2, RowAfterWrite
    <3>2. i \in moved'
      BY <2>1, <2>2
    <3> QED BY <1>0, <2>1, <3>1, <3>2 DEF Exists
  <2>3. CASE i # req[r].goal
    BY <1>0, <1>4, <2>1, <2>3, RowAfterWrite DEF Exists
  <2> QED BY <2>2, <2>3
<1> QED BY <1>1, <1>2, <1>3, <1>4, TableChange

(* The foreign key and the unique name stay. *)
LEMMA StepTableSound ==
    ASSUME TypeOK, TableSound, \A q \in Requests : RequestSound(q), [Next]_vars
    PROVE  TableSound'
<1> USE DEF ParentOf, Exists
<1>1. CASE UNCHANGED <<row, moved, raced>>
  BY <1>1 DEF TableSound
<1>2. ASSUME NEW i \in Ids, NEW c \in Submissions, Inserts(i, c)
      PROVE  TableSound'
  <2>1. \A j \in Ids : row'[j] = IF j = i THEN NewRow(c) ELSE row[j]
    BY <1>2, RowAfter
  <2>2. c.parent \in Ids \cup {None}
    BY SubmissionsAssumption DEF Specs
  <2>3. ~Taken(i, c) /\ ParentKnown(i, c)
    BY <1>2 DEF Inserts
  <2>4. ASSUME NEW j \in Ids, row'[j].parent # None
        PROVE  /\ row'[j].state # "absent" /\ row'[j].parent \in Ids
               /\ row'[row'[j].parent].state # "absent"
    BY <2>1, <2>2, <2>3, <2>4 DEF NewRow, ParentKnown, TableSound, Taken
  <2>5. ASSUME NEW j \in Ids, NEW k \in Ids, row'[j].state # "absent",
               row'[k].state # "absent", row'[j].name = row'[k].name
        PROVE  j = k
    BY <2>1, <2>3, <2>5 DEF NewRow, TableSound, Taken
  <2> QED BY <2>4, <2>5 DEF TableSound
<1>3. ASSUME NEW i \in Ids, Approves(i)
      PROVE  TableSound'
  <2>1. \A j \in Ids : /\ row'[j].name = row[j].name /\ row'[j].parent = row[j].parent
                       /\ row'[j].state # "absent" <=> row[j].state # "absent"
    <3> SUFFICES ASSUME NEW j \in Ids
                 PROVE  /\ row'[j].name = row[j].name /\ row'[j].parent = row[j].parent
                        /\ row'[j].state # "absent" <=> row[j].state # "absent"
      OBVIOUS
    <3>1. CASE i = j
      BY <1>3, <3>1, RowAfter DEF Approves
    <3>2. CASE i # j
      BY <1>3, <3>2, RowAfter
    <3> QED BY <3>1, <3>2
  <2> QED BY <2>1 DEF TableSound
<1>4. ASSUME NEW r \in Requests, ReparentWrite(r)
      PROVE  TableSound'
  <2>1. /\ row[req[r].goal].state # "absent"
        /\ req[r].parent # None => row[req[r].parent].state # "absent"
    BY <1>4 DEF ReparentWrite, RequestSound
  <2>2. ASSUME NEW j \in Ids
        PROVE  /\ row'[j].name = row[j].name /\ row'[j].state = row[j].state
               /\ req[r].parent \in Ids \cup {None}
               /\ row'[j].parent = IF j = req[r].goal THEN req[r].parent ELSE row[j].parent
    <3>1. CASE j = req[r].goal
      <4>1. row'[j] = [name |-> row[j].name, body |-> row[j].body,
                       parent |-> req[r].parent, state |-> row[j].state]
        BY <1>4, <3>1, RowAfterWrite
      <4>2. req[r].parent \in Ids \cup {None}
        BY <1>4, RowAfterWrite
      <4> QED BY <3>1, <4>1, <4>2
    <3>2. CASE j # req[r].goal
      BY <1>4, <3>2, RowAfterWrite
    <3> QED BY <3>1, <3>2
  <2> QED BY <2>1, <2>2 DEF TableSound
<1> QED BY <1>1, <1>2, <1>3, <1>4, TableChange

-----------------------------------------------------------------------------
(* Where a request can be after a step of its own that is not Reparent's write. *)
NextPlace(r, v) ==
    \/ v \in AtRest
    \/ v \in InCreate /\ (v.pc = "lookup" => v.c.id # None)
    \/ \E c \in Submissions, i \in Ids : v = Approving(c, i) /\ Gives(c, i)'
    \/ \E i \in Ids : Exists(i) /\ v = Moving("write", i, None, FALSE)
    \/ \E i, p \in Ids : Exists(i) /\ Exists(p) /\ v = Moving("check", i, p, FALSE)
    \/ /\ req[r].pc = "check" /\ req[r] \in InReparent
       /\ ~Cyclic(req[r].goal, req[r].parent)
       /\ v = Moving("write", req[r].goal, req[r].parent, req[r].stale)

(* Submission c is answered with goal i. *)
Answers(c, i) ==
    accepted' = accepted \cup {[c |-> c, goal |-> i]} /\ Gives(c, i)'

(* A step of request r leads to one of these places, and it answers at most    *)
(* with a goal that is what was asked for.                                    *)
LEMMA RequestStep ==
    ASSUME TypeOK, \A q \in Requests : RequestSound(q), [Next]_vars,
           NEW r \in Requests, RequestNext(r), ~ReparentWrite(r)
    PROVE  /\ \E v : Become(r, v) /\ NextPlace(r, v)
           /\ \/ accepted' = accepted
              \/ \E c \in Submissions, i \in Ids : Answers(c, i)
<1>0. req[r] \in AtRest \cup InCreate \cup InApproval \cup InReparent
  BY DEF TypeOK
<1>1. \A pc \in {"idle", "done", "refused", "failed"} : Idle(pc) \in AtRest
  BY DEF Idle, AtRest
<1>2. ASSUME req[r].pc \in {"lookup", "insert", "reread"}
      PROVE  req[r] \in InCreate /\ req[r].c \in Submissions
             /\ req[r].c.id \in Ids \cup {None}
  <2>1. req[r] \in InCreate
    BY <1>0, <1>2 DEF AtRest, InApproval, InReparent
  <2>2. req[r].c \in Submissions
    BY <2>1 DEF InCreate
  <2> QED BY <2>1, <2>2, SubmissionsAssumption DEF Specs
<1>3. CASE Submit(r)
  <2>1. PICK c \in Submissions, approve \in BOOLEAN :
           Become(r, Creating(IF c.id = None THEN "insert" ELSE "lookup", c, approve))
    BY <1>3 DEF Submit
  <2> DEFINE v == Creating(IF c.id = None THEN "insert" ELSE "lookup", c, approve)
  <2>2. v \in InCreate /\ (v.pc = "lookup" => v.c.id # None)
    BY DEF Creating, InCreate
  <2>3. NextPlace(r, v)
    BY <2>2 DEF NextPlace
  <2> QED BY <1>3, <2>1, <2>3 DEF Submit
<1>4. CASE Lookup(r)
  <2>0. req[r].pc = "lookup" /\ UNCHANGED <<row, moved>>
    BY <1>4 DEF Lookup
  <2>1. req[r] \in InCreate
    BY <1>2, <2>0
  <2>2. PICK c \in Submissions : c = req[r].c
    BY <1>2, <2>0
  <2>3. c.id \in Ids
    BY <1>2, <2>0, <2>2 DEF RequestSound
  <2>4. CASE Exists(c.id) /\ SameSpec(c.id, c) /\ Accept(r, c, c.id)
    <3>1. Gives(c, c.id)'
      BY <2>0, <2>4 DEF Gives, SameSpec, Exists
    <3>2. Answers(c, c.id) /\ Become(r, Idle("done")) /\ NextPlace(r, Idle("done"))
      BY <1>1, <2>4, <3>1 DEF Accept, Answers, NextPlace
    <3> QED BY <2>3, <3>2
  <2>5. CASE Refuse(r)
    BY <1>1, <2>5 DEF Refuse, NextPlace
  <2>6. CASE Become(r, [req[r] EXCEPT !.pc = "insert"]) /\ UNCHANGED accepted
    <3>1. [req[r] EXCEPT !.pc = "insert"] \in InCreate
          /\ [req[r] EXCEPT !.pc = "insert"].pc = "insert"
      BY <2>1 DEF InCreate
    <3> QED BY <2>6, <3>1 DEF NextPlace
  <2> QED BY <1>4, <2>2, <2>4, <2>5, <2>6 DEF Lookup
<1>5. CASE Insert(r)
  <2>0. req[r].pc = "insert" /\ UNCHANGED moved
    BY <1>5 DEF Insert
  <2>1. PICK c \in Submissions : c = req[r].c
    BY <1>2, <2>0
  <2>2. PICK i \in NewIds(c) :
           /\ row' = [row EXCEPT ![i] = NewRow(c)]
           /\ IF req[r].approve THEN Become(r, Approving(c, i)) /\ UNCHANGED accepted
                               ELSE Accept(r, c, i)
    BY <1>5, <2>1 DEF Insert, NewRow
  <2>3. i \in Ids
    BY <2>1, <2>2, ForestAssumption, SubmissionsAssumption DEF NewIds, Specs
  <2>4. row'[i] = NewRow(c)
    BY <2>2, <2>3 DEF TypeOK
  <2>5. Gives(c, i)'
    BY <2>4 DEF Gives, Exists, NewRow
  <2>6. NextPlace(r, Approving(c, i)) /\ NextPlace(r, Idle("done"))
    BY <1>1, <2>3, <2>5 DEF NextPlace
  <2> QED BY <2>2, <2>3, <2>5, <2>6 DEF Accept, Answers
<1>6. CASE InsertRefused(r)
  <2>0. req[r].pc = "insert"
    BY <1>6 DEF InsertRefused
  <2>1. req[r] \in InCreate
    BY <1>2, <2>0
  <2>2. [req[r] EXCEPT !.pc = "reread"] \in InCreate
        /\ [req[r] EXCEPT !.pc = "reread"].pc = "reread"
    BY <2>1 DEF InCreate
  <2>3. NextPlace(r, [req[r] EXCEPT !.pc = "reread"])
    BY <2>2 DEF NextPlace
  <2>4. NextPlace(r, Idle("refused")) /\ NextPlace(r, Idle("failed"))
    BY <1>1 DEF NextPlace
  <2>5. \/ Become(r, [req[r] EXCEPT !.pc = "reread"]) /\ UNCHANGED accepted
        \/ Refuse(r) \/ Fail(r)
    BY <1>6 DEF InsertRefused
  <2> QED BY <2>3, <2>4, <2>5 DEF Refuse, Fail
<1>7. CASE Reread(r)
  <2>0. req[r].pc = "reread" /\ UNCHANGED <<row, moved>>
    BY <1>7 DEF Reread
  <2>1. PICK c \in Submissions : c = req[r].c
    BY <1>2, <2>0
  <2>2. NextPlace(r, Idle("refused")) /\ NextPlace(r, Idle("done"))
    BY <1>1 DEF NextPlace
  <2>3. ASSUME NEW i \in Found(c.id), Adopts(i, c), Accept(r, c, i)
        PROVE  i \in Ids /\ Answers(c, i) /\ Become(r, Idle("done"))
    BY <2>0, <2>3 DEF Found, Adopts, SameSpec, Accept, Answers, Gives, Exists
  <2> QED BY <1>7, <2>1, <2>2, <2>3 DEF Reread, Refuse
<1>8. CASE ApproveAtSubmit(r)
  <2>0. req[r].pc = "approve" /\ req[r] \in InApproval
    BY <1>0, <1>8 DEF ApproveAtSubmit, AtRest, InCreate, InReparent
  <2>1. PICK c \in Submissions, i \in Ids : c = req[r].c /\ i = req[r].goal
    BY <2>0 DEF InApproval
  <2>2. NextPlace(r, Idle("failed")) /\ NextPlace(r, Idle("done"))
    BY <1>1 DEF NextPlace
  <2>3. Gives(c, i)'
    <3>1. Gives(c, i)
      BY <2>0, <2>1 DEF RequestSound
    <3> QED BY <3>1, GoalsKept
  <2>4. Accept(r, c, i) \/ Fail(r)
    BY <1>8, <2>1 DEF ApproveAtSubmit
  <2> QED BY <2>2, <2>3, <2>4 DEF Accept, Answers, Fail
<1>9. CASE ReparentGet(r)
  <2>1. \A str : \A i \in Found(str) : i \in Ids /\ Exists(i)
    BY DEF Found
  <2>2. PICK i \in Ids : Exists(i) /\
           \/ Become(r, Moving("write", i, None, FALSE))
           \/ \E p \in Ids : Exists(p) /\ Become(r, Moving("check", i, p, FALSE))
    BY <1>9, <2>1 DEF ReparentGet
  <2>3. NextPlace(r, Moving("write", i, None, FALSE))
    BY <2>2 DEF NextPlace
  <2>4. ASSUME NEW p \in Ids, Exists(p)
        PROVE  NextPlace(r, Moving("check", i, p, FALSE))
    BY <2>2, <2>4 DEF NextPlace
  <2>5. UNCHANGED accepted
    BY <1>9 DEF ReparentGet
  <2> QED BY <2>2, <2>3, <2>4, <2>5
<1>10. CASE ReparentCheck(r)
  <2>1. req[r].pc = "check" /\ req[r] \in InReparent
    BY <1>0, <1>10 DEF ReparentCheck, AtRest, InCreate, InApproval
  <2>2. [req[r] EXCEPT !.pc = "write"]
           = Moving("write", req[r].goal, req[r].parent, req[r].stale)
    BY <2>1 DEF InReparent, Moving
  <2>3. ~Cyclic(req[r].goal, req[r].parent) =>
           NextPlace(r, [req[r] EXCEPT !.pc = "write"])
    BY <2>1, <2>2 DEF NextPlace
  <2>4. NextPlace(r, Idle("failed"))
    BY <1>1 DEF NextPlace
  <2> QED BY <1>10, <2>3, <2>4 DEF ReparentCheck
<1>11. CASE Abandon(r)
  BY <1>1, <1>11 DEF Abandon, NextPlace
<1> QED BY <1>3, <1>4, <1>5, <1>6, <1>7, <1>8, <1>9, <1>10, <1>11 DEF RequestNext

-----------------------------------------------------------------------------
(* A write that is not its own leaves a request where it is, or makes its      *)
(* check stale.                                                               *)
LEMMA OthersAfterWrite ==
    ASSUME TypeOK, NEW r \in Requests, ReparentWrite(r), NEW q \in Requests
    PROVE  /\ q = r => req'[q] = Idle("done")
           /\ q # r /\ req[q].pc # "write" => req'[q] = req[q]
           /\ q # r /\ req[q].pc = "write" =>
                 /\ req[q] \in InReparent
                 /\ req'[q] = Moving("write", req[q].goal, req[q].parent, TRUE)
<1>1. req'[q] = IF q = r THEN Idle("done")
                ELSE IF req[q].pc = "write"
                     THEN Moving("write", req[q].goal, req[q].parent, TRUE)
                ELSE req[q]
  BY DEF ReparentWrite
<1>2. req[q].pc = "write" => req[q] \in InReparent
  BY DEF TypeOK, AtRest, InCreate, InApproval, InReparent
<1>3. CASE q = r
  BY <1>1, <1>3
<1>4. CASE q # r /\ req[q].pc # "write"
  BY <1>1, <1>4
<1>5. CASE q # r /\ req[q].pc = "write"
  BY <1>1, <1>2, <1>5
<1> QED BY <1>3, <1>4, <1>5

(* A request's place has its type. *)
LEMMA PlaceTyped ==
    ASSUME NEW r \in Requests, NEW v, NextPlace(r, v)
    PROVE  v \in AtRest \cup InCreate \cup InApproval \cup InReparent
<1>1. CASE v \in AtRest \/ v \in InCreate
  BY <1>1
<1>2. ASSUME NEW c \in Submissions, NEW i \in Ids
      PROVE  Approving(c, i) \in InApproval
  BY DEF Approving, InApproval
<1>3. ASSUME NEW pc \in {"check", "write"}, NEW i \in Ids, NEW p \in Ids \cup {None},
             NEW stale \in BOOLEAN
      PROVE  Moving(pc, i, p, stale) \in InReparent
  BY DEF Moving, InReparent
<1>4. CASE req[r] \in InReparent /\ v = Moving("write", req[r].goal, req[r].parent, req[r].stale)
  <2>1. req[r].goal \in Ids /\ req[r].parent \in Ids \cup {None} /\ req[r].stale \in BOOLEAN
    BY <1>4 DEF InReparent
  <2> QED BY <1>3, <1>4, <2>1
<1>5. CASE \E i \in Ids : v = Moving("write", i, None, FALSE)
  BY <1>3, <1>5
<1>6. CASE \E i, p \in Ids : v = Moving("check", i, p, FALSE)
  BY <1>3, <1>6
<1>7. CASE \E c \in Submissions, i \in Ids : v = Approving(c, i)
  BY <1>2, <1>7
<1> QED BY <1>1, <1>4, <1>5, <1>6, <1>7 DEF NextPlace

(* Every step keeps the types. *)
LEMMA StepTypeOK ==
    ASSUME TypeOK, \A q \in Requests : RequestSound(q), [Next]_vars
    PROVE  TypeOK'
<1> DEFINE Places == AtRest \cup InCreate \cup InApproval \cup InReparent
<1>1. row' \in [Ids -> Rows \cup {Absent}] /\ moved' \subseteq Ids /\ raced' \in BOOLEAN
  <2>0. row \in [Ids -> Rows \cup {Absent}] /\ moved \subseteq Ids /\ raced \in BOOLEAN
    BY DEF TypeOK
  <2>1. CASE UNCHANGED <<row, moved, raced>>
    BY <2>0, <2>1
  <2>2. ASSUME NEW i \in Ids, NEW c \in Submissions, Inserts(i, c)
        PROVE  row' \in [Ids -> Rows \cup {Absent}] /\ UNCHANGED <<moved, raced>>
    <3>1. NewRow(c) \in Rows
      BY SubmissionsAssumption DEF NewRow, Rows, Specs
    <3> QED BY <2>0, <2>2, <3>1 DEF Inserts
  <2>3. ASSUME NEW i \in Ids, Approves(i)
        PROVE  row' \in [Ids -> Rows \cup {Absent}] /\ UNCHANGED <<moved, raced>>
    <3>1. row[i] \in Rows
      BY <2>0, <2>3 DEF Approves, Exists, Absent
    <3>2. [row[i] EXCEPT !.state = "approved"] \in Rows
      BY <3>1 DEF Rows
    <3> QED BY <2>0, <2>3, <3>2 DEF Approves
  <2>4. ASSUME NEW r \in Requests, ReparentWrite(r)
        PROVE  /\ row' \in [Ids -> Rows \cup {Absent}] /\ moved' \subseteq Ids
               /\ raced' \in BOOLEAN
    <3>1. req[r] \in InReparent
      BY <2>4 DEF ReparentWrite, TypeOK, AtRest, InCreate, InApproval, InReparent
    <3>2. req[r].goal \in Ids /\ req[r].parent \in Ids \cup {None} /\ req[r].stale \in BOOLEAN
      BY <3>1 DEF InReparent
    <3>3. row[req[r].goal] \in Rows
      BY <2>0, <2>4, <3>2 DEF RequestSound, ReparentWrite, Exists, Absent
    <3>4. [row[req[r].goal] EXCEPT !.parent = req[r].parent] \in Rows
      BY <3>2, <3>3 DEF Rows
    <3>5. row' \in [Ids -> Rows \cup {Absent}]
      BY <2>0, <2>4, <3>4 DEF ReparentWrite
    <3>6. moved' \subseteq Ids
      BY <2>0, <2>4, <3>2 DEF ReparentWrite
    <3>7. raced' \in BOOLEAN
      BY <2>0, <2>4 DEF ReparentWrite
    <3> QED BY <3>5, <3>6, <3>7
  <2> QED BY <2>0, <2>1, <2>2, <2>3, <2>4, TableChange
<1>2. calls' \in Nat
  <2>1. calls' = calls \/ calls' = calls + 1
    <3>1. ASSUME NEW r \in Requests, Submit(r) \/ ReparentGet(r)
          PROVE  calls' = calls + 1
      BY <3>1 DEF Submit, ReparentGet
    <3>2. ASSUME NEW r \in Requests,
                 Lookup(r) \/ Insert(r) \/ InsertRefused(r) \/ Reread(r)
                 \/ ApproveAtSubmit(r) \/ ReparentCheck(r) \/ ReparentWrite(r) \/ Abandon(r)
          PROVE  calls' = calls
      BY <3>2 DEF Lookup, Insert, InsertRefused, Reread, ApproveAtSubmit, ReparentCheck,
                  ReparentWrite, Abandon
    <3>3. (\E i \in Ids : OperatorMoves(i)) \/ UNCHANGED vars => calls' = calls
      BY DEF OperatorMoves, vars
    <3> QED BY <3>1, <3>2, <3>3 DEF Next, RequestNext
  <2> QED BY <2>1 DEF TypeOK
<1>3. req' \in [Requests -> Places]
  <2>0. req \in [Requests -> Places]
    BY DEF TypeOK
  <2>1. CASE UNCHANGED req
    BY <2>0, <2>1
  <2>2. ASSUME NEW r \in Requests, ReparentWrite(r)
        PROVE  req' \in [Requests -> Places]
    <3>1. ASSUME NEW q \in Requests
          PROVE  req'[q] \in Places
      <4>1. Idle("done") \in AtRest
        BY DEF Idle, AtRest
      <4>2. req[q] \in InReparent => Moving("write", req[q].goal, req[q].parent, TRUE) \in InReparent
        BY DEF InReparent, Moving
      <4> QED BY <2>0, <2>2, <4>1, <4>2, OthersAfterWrite
    <3>2. req' = [q \in Requests |-> req'[q]]
      BY <2>2 DEF ReparentWrite
    <3> QED BY <3>1, <3>2
  <2>3. ASSUME NEW r \in Requests, NEW v, Become(r, v), NextPlace(r, v)
        PROVE  req' \in [Requests -> Places]
    <3>1. v \in Places
      BY <2>3, PlaceTyped
    <3> QED BY <2>0, <2>3, <3>1 DEF Become
  <2>4. ASSUME NEW i \in Ids, OperatorMoves(i)
        PROVE  UNCHANGED req
    BY <2>4 DEF OperatorMoves
  <2> QED BY <2>1, <2>2, <2>3, <2>4, RequestStep DEF Next, vars
<1>4. accepted' \subseteq [c : Submissions, goal : Ids]
  <2>0. accepted \subseteq [c : Submissions, goal : Ids]
    BY DEF TypeOK
  <2>1. ASSUME NEW c \in Submissions, NEW i \in Ids, Answers(c, i)
        PROVE  accepted' \subseteq [c : Submissions, goal : Ids]
    BY <2>0, <2>1 DEF Answers
  <2>2. UNCHANGED vars \/ (\E i \in Ids : OperatorMoves(i)) \/ (\E r \in Requests : ReparentWrite(r))
           => UNCHANGED accepted
    BY DEF vars, OperatorMoves, ReparentWrite
  <2> QED BY <2>0, <2>1, <2>2, RequestStep DEF Next
<1> QED BY <1>1, <1>2, <1>3, <1>4 DEF TypeOK

-----------------------------------------------------------------------------
(* What is above a goal does not change by inserts and approvals. *)
LEMMA ApartKept ==
    ASSUME TypeOK, TableSound, [Next]_vars, ~(\E r \in Requests : ReparentWrite(r)),
           NEW i \in Ids, NEW p \in Ids, Exists(p), Apart(i, p)
    PROVE  Apart(i, p)'
<1>0. PICK S \in SUBSET Ids : p \in S /\ ClosedUp(S) /\ i \notin S
  BY DEF Apart
<1>1. CASE UNCHANGED <<row, moved, raced>>
  BY <1>0, <1>1 DEF Apart, ClosedUp, ParentOf
<1>2. ASSUME NEW j \in Ids, NEW c \in Submissions, Inserts(j, c)
      PROVE  Apart(i, p)'
  <2>1. j # p /\ ~Exists(j)
    BY <1>2 DEF Inserts, Taken
  <2>2. \A k \in S \ {j} : row'[k] = row[k]
    BY <1>2, RowAfter
  <2>3. \A k \in S \ {j} : row[k].parent # None => row[k].parent \in S \ {j}
    BY <1>0, <2>1 DEF ClosedUp, ParentOf, TableSound
  <2>4. ClosedUp(S \ {j})'
    BY <2>2, <2>3 DEF ClosedUp, ParentOf
  <2> QED BY <1>0, <2>1, <2>4 DEF Apart
<1>3. ASSUME NEW j \in Ids, Approves(j)
      PROVE  Apart(i, p)'
  <2>1. ASSUME NEW k \in Ids
        PROVE  row'[k].parent = row[k].parent
    <3>1. CASE k = j
      <4>1. row'[j] = [name |-> row[j].name, body |-> row[j].body,
                       parent |-> row[j].parent, state |-> "approved"]
        BY <1>3, RowAfter
      <4> QED BY <3>1, <4>1
    <3>2. CASE k # j
      BY <1>3, <3>2, RowAfter
    <3> QED BY <3>1, <3>2
  <2>2. ClosedUp(S)'
    BY <1>0, <2>1 DEF ClosedUp, ParentOf
  <2> QED BY <1>0, <2>2 DEF Apart
<1> QED BY <1>1, <1>2, <1>3, TableChange

(* Every step keeps what a request knows. *)
LEMMA StepRequestSound ==
    ASSUME TypeOK, TableSound, \A q \in Requests : RequestSound(q), [Next]_vars,
           NEW q \in Requests
    PROVE  RequestSound(q)'
<1>0. req \in [Requests -> AtRest \cup InCreate \cup InApproval \cup InReparent]
  BY DEF TypeOK
<1>1. ASSUME req'[q] = req[q], ~(\E r \in Requests : ReparentWrite(r))
      PROVE  RequestSound(q)'
  <2>1. CASE req[q].pc = "approve"
    <3>1. req[q] \in InApproval
      BY <1>0, <2>1 DEF AtRest, InCreate, InReparent
    <3>2. PICK c \in Submissions, i \in Ids : c = req[q].c /\ i = req[q].goal
      BY <3>1 DEF InApproval
    <3>3. Gives(c, i)
      BY <2>1, <3>2 DEF RequestSound
    <3>4. Gives(c, i)'
      BY <3>3, GoalsKept
    <3> QED BY <1>1, <2>1, <3>2, <3>4 DEF RequestSound
  <2>2. CASE req[q].pc \in {"check", "write"}
    <3>1. req[q] \in InReparent
      BY <1>0, <2>2 DEF AtRest, InCreate, InApproval
    <3>2. PICK i \in Ids, p \in Ids \cup {None}, st \in BOOLEAN :
             i = req[q].goal /\ p = req[q].parent /\ st = req[q].stale
      BY <3>1 DEF InReparent
    <3>3. Exists(i) /\ (p # None => Exists(p)) /\ (req[q].pc = "check" => p # None)
      BY <2>2, <3>2 DEF RequestSound
    <3>4. Exists(i)' /\ (p # None => Exists(p)')
      BY <3>3, GoalsKept
    <3>5. req[q].pc = "write" /\ ~st /\ p # None => Apart(i, p)'
      BY <1>1, <3>2, <3>3, ApartKept DEF RequestSound
    <3> QED BY <1>1, <2>2, <3>2, <3>3, <3>4, <3>5 DEF RequestSound
  <2>3. CASE req[q].pc \notin {"approve", "check", "write"}
    BY <1>1, <2>3 DEF RequestSound
  <2> QED BY <2>1, <2>2, <2>3
<1>2. ASSUME NEW r \in Requests, ReparentWrite(r)
      PROVE  RequestSound(q)'
  <2>1. CASE q = r
    <3>1. req'[q] = Idle("done")
      BY <1>2, <2>1, OthersAfterWrite
    <3> QED BY <3>1 DEF Idle, RequestSound
  <2>2. CASE q # r /\ req[q].pc = "write"
    <3>1. PICK i \in Ids, p \in Ids \cup {None} : i = req[q].goal /\ p = req[q].parent
      BY <1>2, <2>2, OthersAfterWrite DEF InReparent
    <3>2. req'[q] = Moving("write", i, p, TRUE)
      BY <1>2, <2>2, <3>1, OthersAfterWrite
    <3>3. Exists(i) /\ (p # None => Exists(p))
      BY <2>2, <3>1 DEF RequestSound
    <3>4. Exists(i)' /\ (p # None => Exists(p)')
      BY <3>3, GoalsKept
    <3> QED BY <3>2, <3>4 DEF RequestSound, Moving
  <2>3. CASE q # r /\ req[q].pc = "approve"
    <3>1. req[q] \in InApproval
      BY <1>0, <2>3 DEF AtRest, InCreate, InReparent
    <3>2. PICK c \in Submissions, i \in Ids : c = req[q].c /\ i = req[q].goal
      BY <3>1 DEF InApproval
    <3>3. Gives(c, i)
      BY <2>3, <3>2 DEF RequestSound
    <3>4. Gives(c, i)' /\ req'[q] = req[q]
      BY <1>2, <2>3, <3>3, GoalsKept, OthersAfterWrite
    <3> QED BY <2>3, <3>2, <3>4 DEF RequestSound
  <2>4. CASE q # r /\ req[q].pc = "check"
    <3>1. req[q] \in InReparent
      BY <1>0, <2>4 DEF AtRest, InCreate, InApproval
    <3>2. PICK i \in Ids, p \in Ids \cup {None} : i = req[q].goal /\ p = req[q].parent
      BY <3>1 DEF InReparent
    <3>3. Exists(i) /\ p # None /\ Exists(p)
      BY <2>4, <3>2 DEF RequestSound
    <3>4. Exists(i)' /\ Exists(p)' /\ req'[q] = req[q]
      BY <1>2, <2>4, <3>3, GoalsKept, OthersAfterWrite
    <3> QED BY <2>4, <3>2, <3>3, <3>4 DEF RequestSound
  <2>5. CASE q # r /\ req[q].pc \notin {"approve", "check", "write"}
    <3>1. req'[q] = req[q]
      BY <1>2, <2>5, OthersAfterWrite
    <3> QED BY <2>5, <3>1 DEF RequestSound
  <2> QED BY <2>1, <2>2, <2>3, <2>4, <2>5
<1>3. ASSUME NEW v, NextPlace(q, v), req'[q] = v
      PROVE  RequestSound(q)'
  <2>1. CASE v \in AtRest \/ (v \in InCreate /\ (v.pc = "lookup" => v.c.id # None))
    BY <1>3, <2>1 DEF AtRest, InCreate, RequestSound
  <2>2. ASSUME NEW c \in Submissions, NEW i \in Ids, v = Approving(c, i), Gives(c, i)'
        PROVE  RequestSound(q)'
    BY <1>3, <2>2 DEF Approving, RequestSound
  <2>3. ASSUME NEW i \in Ids, Exists(i), v = Moving("write", i, None, FALSE)
        PROVE  RequestSound(q)'
    <3>1. Exists(i)'
      BY <2>3, GoalsKept
    <3> QED BY <1>3, <2>3, <3>1 DEF Moving, RequestSound
  <2>4. ASSUME NEW i \in Ids, NEW p \in Ids, Exists(i), Exists(p),
               v = Moving("check", i, p, FALSE)
        PROVE  RequestSound(q)'
    <3>1. Exists(i)' /\ Exists(p)'
      BY <2>4, GoalsKept
    <3> QED BY <1>3, <2>4, <3>1, ForestAssumption DEF Moving, RequestSound
  <2>5. ASSUME req[q].pc = "check", req[q] \in InReparent,
               ~Cyclic(req[q].goal, req[q].parent), ~(\E r \in Requests : ReparentWrite(r)),
               v = Moving("write", req[q].goal, req[q].parent, req[q].stale)
        PROVE  RequestSound(q)'
    <3>1. PICK i \in Ids, p \in Ids \cup {None}, st \in BOOLEAN :
             i = req[q].goal /\ p = req[q].parent /\ st = req[q].stale
      BY <2>5 DEF InReparent
    <3>2. Exists(i) /\ p # None /\ Exists(p)
      BY <2>5, <3>1 DEF RequestSound
    <3>3. Apart(i, p)
      BY <2>5, <3>1 DEF Cyclic, Up, Apart
    <3>4. Exists(i)' /\ Exists(p)' /\ Apart(i, p)'
      BY <2>5, <3>2, <3>3, GoalsKept, ApartKept
    <3>5. req'[q] = Moving("write", i, p, st)
      BY <1>3, <2>5, <3>1
    <3> QED BY <3>4, <3>5 DEF Moving, RequestSound
  <2> QED BY <1>2, <1>3, <2>1, <2>2, <2>3, <2>4, <2>5 DEF NextPlace
<1>4. ASSUME NEW r \in Requests, NEW v, Become(r, v), NextPlace(r, v),
             ~(\E w \in Requests : ReparentWrite(w))
      PROVE  RequestSound(q)'
  <2>1. CASE q = r
    BY <1>0, <1>3, <1>4, <2>1 DEF Become
  <2>2. CASE q # r
    BY <1>0, <1>1, <1>4, <2>2 DEF Become
  <2> QED BY <2>1, <2>2
<1>5. CASE (\E i \in Ids : OperatorMoves(i)) \/ UNCHANGED vars
  <2>1. req' = req
    BY <1>5 DEF OperatorMoves, vars
  <2> QED BY <1>1, <1>2, <2>1
<1> QED BY <1>2, <1>4, <1>5, RequestStep DEF Next

(* Every step keeps what callers were given. *)
LEMMA StepAcceptedSound ==
    ASSUME TypeOK, \A q \in Requests : RequestSound(q), AcceptedSound, [Next]_vars
    PROVE  AcceptedSound'
<1>1. ASSUME NEW x \in accepted
      PROVE  Gives(x.c, x.goal)'
  <2>1. x.c \in Submissions /\ x.goal \in Ids
    BY DEF TypeOK
  <2>2. Gives(x.c, x.goal)
    BY DEF AcceptedSound
  <2> QED BY <2>1, <2>2, GoalsKept
<1>2. CASE accepted' = accepted
  BY <1>1, <1>2 DEF AcceptedSound
<1>3. ASSUME NEW c \in Submissions, NEW i \in Ids, Answers(c, i)
      PROVE  AcceptedSound'
  BY <1>1, <1>3 DEF Answers, AcceptedSound
<1>4. UNCHANGED vars \/ (\E i \in Ids : OperatorMoves(i)) \/ (\E r \in Requests : ReparentWrite(r))
         => UNCHANGED accepted
  BY DEF vars, OperatorMoves, ReparentWrite
<1> QED BY <1>2, <1>3, <1>4, RequestStep DEF Next

-----------------------------------------------------------------------------
(* No step closes a cycle.  A new goal has nobody below it.  A goal that is    *)
(* moved under p after a check that still holds is not in the set S of what    *)
(* is above p: of a set T that has both, the part in S hung on something       *)
(* outside of it, and S has every parent but those outside of T.              *)
LEMMA StepTreeSound ==
    ASSUME TypeOK, TableSound, \A q \in Requests : RequestSound(q), TreeSound, [Next]_vars
    PROVE  TreeSound'
<1> USE DEF ParentOf
<1>1. CASE UNCHANGED <<row, moved, raced>>
  BY <1>1 DEF TreeSound
<1>2. ASSUME NEW j \in Ids, NEW c \in Submissions, Inserts(j, c)
      PROVE  TreeSound'
  <2>0. raced' = raced
    BY <1>2 DEF Inserts
  <2>1. SUFFICES ASSUME ~raced, NEW T \in SUBSET Ids, T # {}
                 PROVE  \E i \in T : row'[i].parent \notin T \/ row'[i].parent = i
    BY <2>0 DEF TreeSound
  <2>2. \A k \in Ids : row'[k] = IF k = j THEN NewRow(c) ELSE row[k]
    BY <1>2, RowAfter
  <2>3. \A k \in Ids : row[k].parent # j
    BY <1>2, ForestAssumption DEF Inserts, Taken, TableSound
  <2>4. CASE T \ {j} = {}
    <3>1. T = {j}
      BY <2>1, <2>4
    <3> QED BY <3>1
  <2>5. CASE T \ {j} # {}
    <3>1. PICK i \in T \ {j} : row[i].parent \notin T \ {j} \/ row[i].parent = i
      BY <2>1, <2>5 DEF TreeSound
    <3>2. row'[i] = row[i] /\ row[i].parent # j
      BY <2>2, <2>3, <3>1
    <3> QED BY <3>1, <3>2
  <2> QED BY <2>4, <2>5
<1>3. ASSUME NEW j \in Ids, Approves(j)
      PROVE  TreeSound'
  <2>1. ASSUME NEW k \in Ids
        PROVE  row'[k].parent = row[k].parent
    <3>1. CASE k = j
      <4>1. row'[j] = [name |-> row[j].name, body |-> row[j].body,
                       parent |-> row[j].parent, state |-> "approved"]
        BY <1>3, RowAfter
      <4> QED BY <3>1, <4>1
    <3>2. CASE k # j
      BY <1>3, <3>2, RowAfter
    <3> QED BY <3>1, <3>2
  <2>2. raced' = raced
    BY <1>3 DEF Approves
  <2>3. SUFFICES ASSUME ~raced, NEW T \in SUBSET Ids, T # {}
                 PROVE  \E i \in T : row'[i].parent \notin T \/ row'[i].parent = i
    BY <2>2 DEF TreeSound
  <2>4. PICK i \in T : row[i].parent \notin T \/ row[i].parent = i
    BY <2>3 DEF TreeSound
  <2> QED BY <2>1, <2>4
<1>4. ASSUME NEW r \in Requests, ReparentWrite(r)
      PROVE  TreeSound'
  <2>0. PICK g \in Ids, p \in Ids \cup {None}, st \in BOOLEAN :
           g = req[r].goal /\ p = req[r].parent /\ st = req[r].stale
    <3>1. req[r] \in InReparent
      BY <1>4 DEF ReparentWrite, TypeOK, AtRest, InCreate, InApproval, InReparent
    <3> QED BY <3>1 DEF InReparent
  <2>1. raced' = (raced \/ (st /\ p # None))
    BY <1>4, <2>0 DEF ReparentWrite
  <2>2. SUFFICES ASSUME ~raced, ~(st /\ p # None), NEW T \in SUBSET Ids, T # {}
                 PROVE  \E i \in T : row'[i].parent \notin T \/ row'[i].parent = i
    BY <2>1 DEF TreeSound
  <2>3. \A k \in Ids : k # g => row'[k] = row[k]
    BY <1>4, <2>0, RowAfterWrite
  <2>4. row'[g].parent = p
    <3>1. row'[g] = [name |-> row[g].name, body |-> row[g].body,
                     parent |-> p, state |-> row[g].state]
      BY <1>4, <2>0, RowAfterWrite
    <3> QED BY <3>1
  <2>5. CASE g \notin T
    <3>1. PICK i \in T : row[i].parent \notin T \/ row[i].parent = i
      BY <2>2 DEF TreeSound
    <3>2. row'[i] = row[i]
      BY <2>3, <2>5
    <3> QED BY <3>1, <3>2
  <2>6. CASE g \in T /\ p \notin T
    BY <2>4, <2>6
  <2>7. CASE g \in T /\ p \in T
    <3>1. p # None
      BY <2>2, <2>7, ForestAssumption
    <3>2. Apart(g, p)
      BY <1>4, <2>0, <2>2, <3>1 DEF ReparentWrite, RequestSound
    <3>3. PICK S \in SUBSET Ids : p \in S /\ ClosedUp(S) /\ g \notin S
      BY <3>2 DEF Apart
    <3>4. PICK i \in T \cap S : row[i].parent \notin T \cap S \/ row[i].parent = i
      <4>1. T \cap S # {} /\ T \cap S \in SUBSET Ids
        BY <2>7, <3>3
      <4> QED BY <2>2, <4>1 DEF TreeSound
    <3>5. row[i].parent = None \/ row[i].parent \in S
      BY <3>3, <3>4 DEF ClosedUp
    <3>6. row'[i] = row[i]
      BY <2>3, <3>3, <3>4
    <3>7. None \notin T
      BY ForestAssumption
    <3> QED BY <3>4, <3>5, <3>6, <3>7
  <2> QED BY <2>5, <2>6, <2>7
<1> QED BY <1>1, <1>2, <1>3, <1>4, TableChange

-----------------------------------------------------------------------------
(* The inductive invariant. *)
THEOREM ForestInvariant == Spec => []ForestInv
<1>1. Init => ForestInv
  <2> SUFFICES ASSUME Init PROVE ForestInv
    OBVIOUS
  <2>1. \A i \in Ids : row[i] = Absent
    BY DEF Init
  <2>2. \A q \in Requests : req[q] = Idle("idle")
    BY DEF Init
  <2>3. TypeOK
    BY DEF Init, TypeOK, Idle, AtRest
  <2>4. TableSound
    BY <2>1 DEF TableSound, ParentOf, Exists, Absent
  <2>5. \A q \in Requests : RequestSound(q)
    BY <2>2 DEF RequestSound, Idle
  <2>6. AcceptedSound
    BY DEF Init, AcceptedSound
  <2>7. TreeSound
    BY <2>1, ForestAssumption DEF TreeSound, ParentOf, Absent
  <2> QED BY <2>3, <2>4, <2>5, <2>6, <2>7 DEF ForestInv
<1>2. ForestInv /\ [Next]_vars => ForestInv'
  <2> SUFFICES ASSUME ForestInv, [Next]_vars PROVE ForestInv'
    OBVIOUS
  <2>1. /\ TypeOK /\ TableSound /\ AcceptedSound /\ TreeSound
        /\ \A q \in Requests : RequestSound(q)
    BY DEF ForestInv
  <2>2. TypeOK' /\ TableSound'
    BY <2>1, StepTypeOK, StepTableSound
  <2>3. \A q \in Requests : RequestSound(q)'
    BY <2>1, StepRequestSound
  <2>4. AcceptedSound' /\ TreeSound'
    BY <2>1, StepAcceptedSound, StepTreeSound
  <2> QED BY <2>2, <2>3, <2>4 DEF ForestInv
<1> QED BY <1>1, <1>2, PTL DEF Spec

(* The table and the requests keep their shape. *)
THEOREM ForestTypes == Spec => []TypeOK
<1>1. ForestInv => TypeOK
  BY DEF ForestInv
<1> QED BY <1>1, ForestInvariant, PTL

(* Create is idempotent: equal submissions with an id that are given a goal    *)
(* are given the same one, and it is the one they describe.                   *)
THEOREM CreateIdempotent == Spec => []SubmitIdempotent
<1>1. ForestInv => SubmitIdempotent
  <2> SUFFICES ASSUME ForestInv, NEW x \in accepted, NEW y \in accepted
               PROVE  /\ x.c.id # None /\ x.c = y.c => x.goal = y.goal
                      /\ row[x.goal].name = x.c.name /\ row[x.goal].body = x.c.body
    BY DEF SubmitIdempotent
  <2>1. x.goal \in Ids /\ y.goal \in Ids
    BY DEF ForestInv, TypeOK
  <2>2. Gives(x.c, x.goal) /\ Gives(y.c, y.goal)
    BY DEF ForestInv, AcceptedSound
  <2> QED BY <2>1, <2>2 DEF ForestInv, TableSound, Gives
<1> QED BY <1>1, ForestInvariant, PTL

(* Reparent closes no cycle unless it raced another Reparent, for any number   *)
(* of goals, submissions and requests.                                        *)
THEOREM NoCycle == Spec => []TreeSound
<1>1. ForestInv => TreeSound
  BY DEF ForestInv
<1> QED BY <1>1, ForestInvariant, PTL

(* Create refuses a submission it accepted before only after the goal was      *)
(* moved, or when the id is also another goal's name.                         *)
THEOREM ResubmissionsAccepted == Spec => ResubmitAccepted
<1> DEFINE Fair == \A r \in Requests : Refuses(r) =>
              \A x \in accepted : x.c = req[r].c /\ x.goal = x.c.id =>
                 x.goal \in moved \/ Found(x.goal) # {x.goal}
<1>1. ForestInv /\ [Next]_vars => [Fair]_vars
  <2> SUFFICES ASSUME ForestInv, Next, NEW r \in Requests, Refuses(r), NEW x \in accepted,
                      x.c = req[r].c, x.goal = x.c.id, x.goal \notin moved
               PROVE  Found(x.goal) # {x.goal}
    OBVIOUS
  <2>0. x.goal \in Ids /\ Gives(x.c, x.goal)
    BY DEF ForestInv, TypeOK, AcceptedSound
  <2>1. SameSpec(x.goal, x.c) /\ Exists(x.goal)
    BY <2>0 DEF Gives, SameSpec
  <2>2. x.c.id # None
    BY <2>0, ForestAssumption
  <2>3. Lookup(r) \/ InsertRefused(r) \/ Reread(r)
    <3>1. req \in [Requests -> AtRest \cup InCreate \cup InApproval \cup InReparent]
      BY DEF ForestInv, TypeOK
    <3>2. req'[r].pc = "refused" /\ req[r].pc # "refused"
      BY DEF Refuses
    <3>3. ASSUME NEW q \in Requests, q # r, RequestNext(q), ~ReparentWrite(q)
          PROVE  FALSE
      <4>1. PICK v : Become(q, v)
        BY <3>3, RequestStep DEF ForestInv
      <4> QED BY <3>1, <3>2, <3>3, <4>1 DEF Become
    <3>4. ASSUME NEW q \in Requests, ReparentWrite(q)
          PROVE  FALSE
      <4>1. \/ req'[r] = Idle("done") \/ req'[r] = req[r]
            \/ req'[r] = Moving("write", req[r].goal, req[r].parent, TRUE)
        BY <3>4, OthersAfterWrite DEF ForestInv
      <4> QED BY <3>2, <4>1 DEF Idle, Moving
    <3>5. ASSUME NEW i \in Ids, OperatorMoves(i)
          PROVE  FALSE
      BY <3>2, <3>5 DEF OperatorMoves
    <3>6. RequestNext(r)
      BY <3>3, <3>4, <3>5 DEF Next
    <3>7. ~Submit(r)
      BY <3>1, <3>2 DEF Submit, Become, Creating
    <3>8. ~Insert(r)
      BY <3>1, <3>2 DEF Insert, Become, Approving, Accept, Idle
    <3>9. ~ApproveAtSubmit(r)
      BY <3>1, <3>2 DEF ApproveAtSubmit, Become, Accept, Fail, Idle
    <3>10. ~ReparentGet(r)
      BY <3>1, <3>2 DEF ReparentGet, Become, Moving
    <3>11. ~ReparentCheck(r)
      <4> SUFFICES ASSUME ReparentCheck(r) PROVE FALSE
        OBVIOUS
      <4>1. req[r] \in InReparent
        BY <3>1 DEF ReparentCheck, AtRest, InCreate, InApproval
      <4>2. [req[r] EXCEPT !.pc = "write"].pc = "write"
        BY <4>1 DEF InReparent
      <4>3. req'[r] = Idle("failed") \/ req'[r] = [req[r] EXCEPT !.pc = "write"]
        BY <3>1 DEF ReparentCheck, Become
      <4>4. Idle("failed").pc = "failed"
        BY DEF Idle
      <4>5. req'[r].pc = "failed" \/ req'[r].pc = "write"
        BY <4>2, <4>3, <4>4
      <4> QED BY <3>2, <4>5
    <3>12. ~Abandon(r)
      BY <3>1, <3>2 DEF Abandon, Become, Idle
    <3> QED BY <3>4, <3>6, <3>7, <3>8, <3>9, <3>10, <3>11, <3>12 DEF RequestNext
  <2>4. /\ Become(r, Idle("done")) => req'[r] = Idle("done")
        /\ Become(r, Idle("failed")) => req'[r] = Idle("failed")
        /\ Become(r, [req[r] EXCEPT !.pc = "reread"]) =>
              req'[r] = [req[r] EXCEPT !.pc = "reread"]
    BY DEF ForestInv, TypeOK, Become
  <2>5. req'[r] # Idle("done") /\ req'[r] # Idle("failed")
    BY DEF Refuses, Idle
  <2>6. CASE Lookup(r)
    <3>1. Accept(r, x.c, x.goal)
      BY <2>1, <2>6 DEF Lookup
    <3> QED BY <2>4, <2>5, <3>1 DEF Accept
  <2>7. CASE InsertRefused(r)
    <3>1. req[r] \in InCreate
      BY <2>7 DEF InsertRefused, ForestInv, TypeOK, AtRest, InApproval, InReparent
    <3>2. [req[r] EXCEPT !.pc = "reread"].pc = "reread"
      BY <3>1 DEF InCreate
    <3>3. Become(r, [req[r] EXCEPT !.pc = "reread"]) \/ Fail(r)
      BY <2>2, <2>7 DEF InsertRefused
    <3> QED BY <2>4, <2>5, <3>2, <3>3 DEF Fail, Refuses
  <2>8. CASE Reread(r)
    <3> SUFFICES ASSUME Found(x.goal) = {x.goal} PROVE FALSE
      OBVIOUS
    <3>1. Adopts(x.goal, x.c)
      BY <2>1 DEF Adopts
    <3>2. Accept(r, x.c, x.goal)
      BY <2>8, <3>1 DEF Reread
    <3> QED BY <2>4, <2>5, <3>2 DEF Accept
  <2> QED BY <2>3, <2>6, <2>7, <2>8
<1> QED BY <1>1, ForestInvariant, PTL DEF Spec, ResubmitAccepted
=============================================================================
