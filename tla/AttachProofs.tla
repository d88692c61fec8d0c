---------------------------- MODULE AttachProofs ----------------------------
(* Proofs about Attach: types, streams without holes, complete ends and the   *)
(* order of what a client receives, for any number of events, clients and     *)
(* events in a page.                                                          *)
EXTENDS Attach, FiniteSetTheorems, WellFoundedInduction, TLAPS

(* A non-empty set of numbers has a least one. *)
LEMMA LeastSeq ==
    ASSUME NEW S \in SUBSET Seqs, S # {}
    PROVE  \E s \in S : \A t \in S : s <= t
<1>1. S \subseteq Nat
  BY AttachAssumption DEF Seqs
<1>2. PICK s \in S : \A t \in S : ~(<<t, s>> \in OpToRel(<, Nat))
  BY <1>1, NatLessThanWellFounded, WFMin
<1>3. \A t \in S : ~(t < s)
  BY <1>1, <1>2 DEF OpToRel
<1> QED BY <1>1, <1>3

(* What Page returns: the events up to one of them, and something unless there *)
(* is nothing.                                                                *)
LEMMA PageIsPrefix ==
    ASSUME NEW new \in SUBSET Seqs
    PROVE  /\ Page(new) \subseteq new
           /\ \A s \in Page(new) : \A t \in new : t < s => t \in Page(new)
           /\ new # {} => Page(new) # {}
<1>0. new \subseteq Nat /\ IsFiniteSet(new)
  <2>1. 1 \in Int /\ MaxSeq \in Int /\ Seqs = 1..MaxSeq
    BY AttachAssumption DEF Seqs
  <2>2. IsFiniteSet(Seqs)
    BY <2>1, FS_Interval
  <2>3. IsFiniteSet(new)
    BY <2>2, FS_Subset
  <2> QED BY <2>1, <2>3
<1>1. Page(new) \subseteq new
  BY DEF Page
<1>2. ASSUME NEW s \in Page(new), NEW t \in new, t < s
      PROVE  t \in Page(new)
  <2> DEFINE below(u) == {v \in new : v <= u}
  <2>0. s \in Nat /\ t \in Nat
    BY <1>0, <1>1
  <2>0a. \A v \in Nat : v <= t => v <= s
    BY <1>2, <2>0
  <2>1. below(t) \subseteq below(s)
    BY <1>0, <2>0a
  <2>1a. below(s) \in SUBSET new
    OBVIOUS
  <2>1b. IsFiniteSet(below(s))
    BY <1>0, <2>1a, FS_Subset
  <2>2. Cardinality(below(t)) <= Cardinality(below(s))
    BY <2>1, <2>1b, FS_Subset
  <2>3. Cardinality(below(t)) \in Nat /\ Cardinality(below(s)) \in Nat
    BY <2>1, <2>1b, FS_Subset, FS_CardinalityType
  <2>4. Cardinality(below(s)) <= Limit
    BY DEF Page
  <2>5. Cardinality(below(t)) <= Limit
    BY <2>2, <2>3, <2>4, AttachAssumption
  <2> QED BY <2>5 DEF Page
<1>3. ASSUME new # {}
      PROVE  Page(new) # {}
  <2>1. PICK s \in new : \A t \in new : s <= t
    BY <1>3, LeastSeq
  <2>1a. s \in Nat /\ \A t \in new : t \in Nat
    BY <1>0
  <2>1b. \A t \in new : t <= s <=> t = s
    BY <2>1, <2>1a
  <2>2. {t \in new : t <= s} = {s}
    BY <2>1b
  <2>3. Cardinality({s}) = 1
    BY FS_Singleton
  <2> QED BY <2>2, <2>3, AttachAssumption DEF Page
<1> QED BY <1>1, <1>2, <1>3

-----------------------------------------------------------------------------
Conns == [pc : {"off", "read", "send", "ended"}, after : 0..MaxSeq,
          todo : SUBSET Seqs, empty : BOOLEAN]

(* A handler is behind nothing its client received. *)
Positions ==
    \A c \in Clients : /\ conn[c].pc # "off" => conn[c].after = last[c]
                       /\ \A s \in got[c] : s <= last[c]

(* The rest of a page is visible and next in line. *)
NextInLine ==
    \A c \in Clients :
        /\ conn[c].pc # "send" => conn[c].todo = {}
        /\ \A t \in conn[c].todo :
              /\ t \in Visible /\ conn[c].after < t
              /\ \A s \in Visible : conn[c].after < s /\ s < t =>
                    s \in conn[c].todo \/ s \in late

(* After a query that found nothing, all it could see is sent. *)
Covered ==
    \A c \in Clients :
        /\ seen[c] \subseteq Visible
        /\ conn[c].pc = "ended" => conn[c].empty
        /\ conn[c].pc \in {"send", "ended"} /\ conn[c].empty =>
              conn[c].todo = {} /\ \A s \in seen[c] : s <= conn[c].after

(* A client received what is visible, its last event included. *)
Received ==
    \A c \in Clients : /\ got[c] \subseteq Visible
                       /\ last[c] # 0 => last[c] \in got[c]

AttachInv == TypeOK /\ Positions /\ NextInLine /\ NoGap /\ Received /\ Covered

(* What one step does to the handler, the position and the log of a client:   *)
(* nothing, a new connection, a query, an event sent, the end, another poll,  *)
(* or a connection given up.                                                  *)
Same(c) == UNCHANGED <<conn[c], last[c], got[c], seen[c]>>

Connects(c) ==
    /\ conn[c].pc = "off" /\ conn'[c] = Reading(last[c])
    /\ UNCHANGED <<last[c], got[c], seen[c], log>>

PageOf(c) == Page({s \in Visible : s > conn[c].after})

Queries(c) ==
    /\ conn[c].pc = "read"
    /\ conn'[c] = [pc |-> "send", after |-> conn[c].after,
                   todo |-> PageOf(c), empty |-> PageOf(c) = {}]
    /\ seen'[c] = Visible
    /\ UNCHANGED <<last[c], got[c], log>>

Sends(c, s) ==
    /\ conn[c].pc = "send"
    /\ s \in conn[c].todo /\ \A t \in conn[c].todo : s <= t
    /\ conn'[c] = [pc |-> "send", after |-> s,
                   todo |-> conn[c].todo \ {s}, empty |-> conn[c].empty]
    /\ last'[c] = s /\ got'[c] = got[c] \cup {s}
    /\ UNCHANGED <<seen[c], log>>

Finishes(c) ==
    /\ conn[c].pc = "send" /\ conn[c].todo = {} /\ conn[c].empty
    /\ conn'[c] = [pc |-> "ended", after |-> conn[c].after, todo |-> {}, empty |-> TRUE]
    /\ UNCHANGED <<last[c], got[c], seen[c], log>>

Repolls(c) ==
    /\ conn[c].pc = "send" /\ conn'[c] = Reading(conn[c].after)
    /\ UNCHANGED <<last[c], got[c], seen[c], log>>

Leaves(c) ==
    /\ conn'[c] = Off
    /\ UNCHANGED <<last[c], got[c], seen[c], log>>

(* One step does one of these to a client. *)
LEMMA ClientStep ==
    ASSUME TypeOK, [Next]_vars, NEW c \in Clients
    PROVE  \/ Same(c) \/ Connects(c) \/ Queries(c)
           \/ \E s \in conn[c].todo : Sends(c, s)
           \/ Finishes(c) \/ Repolls(c) \/ Leaves(c)
<1>0. conn \in [Clients -> Conns] /\ conn[c] \in Conns
  BY DEF TypeOK, Conns
<1>00. last \in [Clients -> 0..MaxSeq] /\ got \in [Clients -> SUBSET Seqs]
       /\ seen \in [Clients -> SUBSET Seqs]
  BY DEF TypeOK
<1>1. CASE UNCHANGED vars
  BY <1>1 DEF vars, Same
<1>2. CASE LogNext
  BY <1>2 DEF LogNext, AddEvent, CommitTx, RollbackTx, streams, Same
<1>3. ASSUME NEW d \in Clients, ClientNext(d), c # d
      PROVE  Same(c)
  BY <1>0, <1>00, <1>3 DEF Same, ClientNext, Connect, Serve, ReadEvents, SendEvent, EndStream, PollAgain,
                     StateUnread, Disconnect
<1>4. CASE Connect(c)
  BY <1>0, <1>4 DEF Connect, ResumeAt, Connects
<1>5. CASE ReadEvents(c)
  BY <1>0, <1>00, <1>5 DEF ReadEvents, Queries, PageOf
<1>6. ASSUME NEW s \in Seqs, SendEvent(c, s)
      PROVE  s \in conn[c].todo /\ Sends(c, s)
  BY <1>0, <1>00, <1>6 DEF SendEvent, Advance, Conns, Sends
<1>7. CASE EndStream(c)
  BY <1>0, <1>7 DEF EndStream, Over, Conns, Finishes
<1>8. CASE PollAgain(c)
  BY <1>0, <1>8 DEF PollAgain, Repolls
<1>9. CASE StateUnread(c)
  BY <1>0, <1>9 DEF StateUnread, Repolls
<1>10. CASE Disconnect(c)
  BY <1>0, <1>10 DEF Disconnect, Leaves
<1> QED BY <1>1, <1>2, <1>3, <1>4, <1>5, <1>6, <1>7, <1>8, <1>9, <1>10
        DEF Next, ClientNext, Serve

(* What one step does to the log: nothing, or one event that was not visible  *)
(* becomes visible, and is late if it has a higher one before it.             *)
LEMMA LogStep ==
    ASSUME TypeOK, [Next]_vars
    PROVE  \/ Visible' = Visible /\ late' = late
           \/ \E s \in Seqs \ Visible :
                 /\ Visible' = Visible \cup {s}
                 /\ late' = IF \E t \in Visible : t > s THEN late \cup {s} ELSE late
                 /\ UNCHANGED streams
<1>0. tx \in [Seqs -> {"none", "open", "visible", "undone"}]
  BY DEF TypeOK
<1>1. CASE UNCHANGED <<tx, late>>
  BY <1>1 DEF Visible
<1>2. ASSUME NEW s \in Seqs, NEW k, AddEvent(s, k)
      PROVE  Visible' = Visible /\ late' = late
  BY <1>0, <1>2 DEF AddEvent, Visible, Draws
<1>3. ASSUME NEW s \in Seqs, CommitTx(s)
      PROVE  /\ s \in Seqs \ Visible /\ Visible' = Visible \cup {s}
             /\ late' = IF \E t \in Visible : t > s THEN late \cup {s} ELSE late
             /\ UNCHANGED streams
  BY <1>0, <1>3 DEF CommitTx, Visible, Open
<1>4. ASSUME NEW s \in Seqs, RollbackTx(s)
      PROVE  Visible' = Visible /\ late' = late
  BY <1>0, <1>4 DEF RollbackTx, Visible, Open
<1>5. ASSUME NEW c \in Clients, ClientNext(c)
      PROVE  UNCHANGED <<tx, late>>
  BY <1>5 DEF ClientNext, Connect, Serve, ReadEvents, SendEvent, EndStream,
              PollAgain, StateUnread, Disconnect, log
<1> QED BY <1>1, <1>2, <1>3, <1>4, <1>5 DEF Next, LogNext, vars
-----------------------------------------------------------------------------
(* Every step keeps the types. *)
LEMMA StepTypeOK ==
    ASSUME TypeOK, [Next]_vars
    PROVE  TypeOK'
<1>0. conn \in [Clients -> Conns]
  BY DEF TypeOK, Conns
<1>00. MaxSeq \in Nat /\ Seqs \subseteq 0..MaxSeq /\ 0 \in 0..MaxSeq
  BY AttachAssumption DEF Seqs
<1>1. CASE UNCHANGED vars
  BY <1>1 DEF TypeOK, vars
<1>2. ASSUME NEW s \in Seqs, NEW k \in {"free", "row", "end"}, AddEvent(s, k)
      PROVE  TypeOK'
  BY <1>2 DEF TypeOK, AddEvent, streams
<1>3. ASSUME NEW s \in Seqs, CommitTx(s) \/ RollbackTx(s)
      PROVE  TypeOK'
  BY <1>3 DEF TypeOK, CommitTx, RollbackTx, streams
<1>4. ASSUME NEW c \in Clients, ClientNext(c)
      PROVE  TypeOK'
  <2>0. conn[c] \in Conns /\ last[c] \in 0..MaxSeq
    BY <1>0 DEF TypeOK
  <2>1. UNCHANGED log
    BY <1>4 DEF ClientNext, Connect, Serve, ReadEvents, SendEvent, EndStream,
                PollAgain, StateUnread, Disconnect
  <2>2. \A d \in Clients : conn'[d] \in Conns
    <3> SUFFICES ASSUME NEW d \in Clients PROVE conn'[d] \in Conns
      OBVIOUS
    <3>1. conn[d] \in Conns /\ last[d] \in 0..MaxSeq
      BY <1>0 DEF TypeOK
    <3>2. Reading(last[d]) \in Conns /\ Reading(conn[d].after) \in Conns /\ Off \in Conns
      BY <1>00, <3>1 DEF Reading, Off, Conns
    <3>3. CASE Queries(d)
      <4>1. PageOf(d) \in SUBSET Seqs
        BY DEF Page, PageOf, Visible
      <4>2. (PageOf(d) = {}) \in BOOLEAN
        OBVIOUS
      <4> QED BY <3>1, <3>3, <4>1, <4>2 DEF Conns, Queries
    <3>4. ASSUME NEW s \in conn[d].todo, Sends(d, s)
          PROVE  conn'[d] \in Conns
      <4>1. conn'[d] = [pc |-> "send", after |-> s, todo |-> conn[d].todo \ {s},
                        empty |-> conn[d].empty]
        BY <3>4 DEF Sends
      <4>2. conn[d].todo \in SUBSET Seqs /\ conn[d].empty \in BOOLEAN
        BY <3>1 DEF Conns
      <4>3. conn[d].todo \ {s} \in SUBSET Seqs /\ s \in 0..MaxSeq
        BY <1>00, <3>4, <4>2
      <4> QED BY <4>1, <4>2, <4>3 DEF Conns
    <3>5. CASE Finishes(d)
      BY <3>1, <3>5 DEF Conns, Finishes
    <3>6. CASE Same(d) \/ Connects(d) \/ Repolls(d) \/ Leaves(d)
      BY <3>1, <3>2, <3>6 DEF Same, Connects, Repolls, Leaves
    <3> QED BY <3>3, <3>4, <3>5, <3>6, ClientStep
  <2>3. DOMAIN conn' = Clients /\ conn' = [d \in Clients |-> conn'[d]]
    BY <1>0, <1>4 DEF ClientNext, Connect, Serve, ReadEvents, SendEvent, EndStream, PollAgain,
                      StateUnread, Disconnect
  <2>4. conn' \in [Clients -> Conns]
    BY <2>2, <2>3
  <2>5. /\ last' \in [Clients -> 0..MaxSeq] /\ got' \in [Clients -> SUBSET Seqs]
        /\ seen' \in [Clients -> SUBSET Seqs]
    <3>1. CASE ReadEvents(c)
      BY <3>1 DEF TypeOK, ReadEvents, Visible
    <3>2. ASSUME NEW s \in Seqs, SendEvent(c, s)
          PROVE  /\ last' \in [Clients -> 0..MaxSeq]
                 /\ got' \in [Clients -> SUBSET Seqs]
                 /\ seen' = seen
      <4>1. /\ last' = [last EXCEPT ![c] = s] /\ seen' = seen
            /\ got' = [got EXCEPT ![c] = @ \cup {s}]
        BY <3>2 DEF SendEvent
      <4> QED BY <1>00, <4>1 DEF TypeOK
    <3>3. CASE Connect(c) \/ EndStream(c) \/ PollAgain(c) \/ StateUnread(c) \/ Disconnect(c)
      <4>1. UNCHANGED <<last, got, seen>>
        BY <3>3 DEF Connect, EndStream, PollAgain, StateUnread, Disconnect
      <4> QED BY <4>1 DEF TypeOK
    <3> QED BY <1>4, <3>1, <3>2, <3>3 DEF ClientNext, Serve, TypeOK
  <2> QED BY <2>1, <2>4, <2>5 DEF TypeOK, Conns, log
<1> QED BY <1>1, <1>2, <1>3, <1>4 DEF Next, LogNext

(* Every step keeps a client's part of the invariant: its position, ... *)
LEMMA StepPositions ==
    ASSUME AttachInv, [Next]_vars
    PROVE  Positions'
<1> SUFFICES ASSUME NEW c \in Clients
             PROVE  /\ conn'[c].pc # "off" => conn'[c].after = last'[c]
                    /\ \A s \in got'[c] : s <= last'[c]
  BY DEF Positions
<1>0. /\ TypeOK /\ conn[c] \in Conns /\ last[c] \in Nat /\ got[c] \subseteq Nat
  BY AttachAssumption DEF AttachInv, TypeOK, Conns, Seqs
<1>1. /\ conn[c].pc # "off" => conn[c].after = last[c]
      /\ \A s \in got[c] : s <= last[c]
  BY DEF AttachInv, Positions
<1>2. ASSUME NEW s \in conn[c].todo, Sends(c, s)
      PROVE  conn'[c].after = last'[c] /\ \A t \in got'[c] : t <= last'[c]
  <2>1. last[c] < s
    BY <1>1, <1>2 DEF AttachInv, NextInLine, Sends
  <2>2. s \in Nat
    BY <1>0, AttachAssumption DEF Conns, Seqs
  <2>3. \A t \in got[c] : t <= s
    BY <1>0, <1>1, <2>1, <2>2
  <2> QED BY <1>2, <2>2, <2>3 DEF Sends
<1>3. CASE Same(c)
  BY <1>1, <1>3 DEF Same
<1>4. CASE Connects(c)
  BY <1>1, <1>4 DEF Connects, Reading
<1>5. CASE Queries(c)
  BY <1>1, <1>5 DEF Queries
<1>6. CASE Finishes(c)
  BY <1>1, <1>6 DEF Finishes
<1>7. CASE Repolls(c)
  BY <1>1, <1>7 DEF Repolls, Reading
<1>8. CASE Leaves(c)
  BY <1>1, <1>8 DEF Leaves, Off
<1> QED BY <1>0, <1>2, <1>3, <1>4, <1>5, <1>6, <1>7, <1>8, ClientStep

(* ... the rest of its page, ... *)
InLine(c) ==
    /\ conn[c].pc # "send" => conn[c].todo = {}
    /\ \A t \in conn[c].todo :
          /\ t \in Visible /\ conn[c].after < t
          /\ \A s \in Visible : conn[c].after < s /\ s < t =>
                s \in conn[c].todo \/ s \in late

(* ... the rest of its page, ... *)
LEMMA StepNextInLine ==
    ASSUME AttachInv, [Next]_vars
    PROVE  NextInLine'
<1> SUFFICES ASSUME NEW c \in Clients PROVE InLine(c)'
  BY DEF NextInLine, InLine
<1>0. /\ TypeOK /\ conn[c] \in Conns
      /\ Visible \subseteq Nat /\ Visible \subseteq Seqs /\ Seqs \subseteq Nat
  BY AttachAssumption DEF AttachInv, TypeOK, Conns, Seqs, Visible
<1>1. InLine(c) /\ conn[c].after \in Nat
  BY <1>0, AttachAssumption DEF AttachInv, NextInLine, InLine, Conns
<1>2. CASE Same(c)
  BY <1>0, <1>1, <1>2, LogStep DEF Same, InLine
<1>3. ASSUME UNCHANGED log
      PROVE  Visible' = Visible /\ late' = late
  BY <1>3 DEF log, Visible
<1>4. CASE Queries(c)
  <2> DEFINE new == {s \in Visible : s > conn[c].after}
  <2>1. new \in SUBSET Seqs
    BY <1>0
  <2>2. /\ PageOf(c) \subseteq new
        /\ \A t \in PageOf(c) : \A s \in new : s < t => s \in PageOf(c)
    BY <2>1, PageIsPrefix DEF PageOf
  <2>3. /\ conn'[c].todo = PageOf(c) /\ conn'[c].after = conn[c].after
        /\ conn'[c].pc = "send"
    BY <1>4 DEF Queries
  <2>4. Visible' = Visible
    BY <1>3, <1>4 DEF Queries
  <2>5. \A s \in Visible : conn[c].after < s <=> s \in new
    BY <1>0, <1>1
  <2>6. new \subseteq Visible
    OBVIOUS
  <2> HIDE DEF new
  <2> QED BY <2>2, <2>3, <2>4, <2>5, <2>6 DEF InLine
<1>5. ASSUME NEW s \in conn[c].todo, Sends(c, s)
      PROVE  InLine(c)'
  <2>1. conn'[c].todo = conn[c].todo \ {s} /\ conn'[c].after = s /\ conn'[c].pc = "send"
    BY <1>5 DEF Sends
  <2>2. s \in Visible /\ conn[c].after < s
    BY <1>1 DEF InLine
  <2>3. s \in Nat
    BY <1>0, <2>2
  <2>4. \A t \in conn[c].todo : t \in Visible /\ s <= t
    BY <1>1, <1>5 DEF InLine, Sends
  <2>5. ASSUME NEW t \in conn[c].todo \ {s}
        PROVE  s < t
    <3>1. t \in Nat /\ s <= t /\ t # s
      BY <1>0, <2>4
    <3> QED BY <2>3, <3>1
  <2>6. \A u \in Visible : s < u => conn[c].after < u /\ u # s
    BY <1>0, <1>1, <2>2, <2>3
  <2>7. Visible' = Visible /\ late' = late
    BY <1>3, <1>5 DEF Sends
  <2> QED BY <1>1, <2>1, <2>4, <2>5, <2>6, <2>7 DEF InLine
<1>6. CASE Connects(c) \/ Finishes(c) \/ Repolls(c) \/ Leaves(c)
  <2>1. conn'[c].pc # "send" /\ conn'[c].todo = {}
    BY <1>6 DEF Connects, Finishes, Repolls, Leaves, Reading, Off
  <2> QED BY <2>1 DEF InLine
<1> QED BY <1>0, <1>2, <1>4, <1>5, <1>6, ClientStep

(* ... what it received, ... *)
LEMMA StepNoGap ==
    ASSUME AttachInv, [Next]_vars
    PROVE  NoGap'
<1> SUFFICES ASSUME NEW c \in Clients, NEW s \in Visible', s <= last'[c]
             PROVE  s \in got'[c] \/ s \in late'
  BY DEF NoGap
<1>0. /\ TypeOK /\ conn[c] \in Conns /\ last[c] \in Nat
      /\ Visible \subseteq Seqs /\ Seqs \subseteq Nat
  BY AttachAssumption DEF AttachInv, TypeOK, Conns, Seqs, Visible
<1>1. \A u \in Visible : u <= last[c] => u \in got[c] \/ u \in late
  BY DEF AttachInv, NoGap
<1>2. CASE Same(c)
  <2>1. CASE Visible' = Visible /\ late' = late
    BY <1>1, <1>2, <2>1 DEF Same
  <2>2. ASSUME NEW u \in Seqs \ Visible, Visible' = Visible \cup {u},
               late' = IF \E t \in Visible : t > u THEN late \cup {u} ELSE late
        PROVE  s \in got'[c] \/ s \in late'
    <3>1. CASE s # u
      BY <1>1, <1>2, <2>2, <3>1 DEF Same
    <3>2. CASE s = u
      <4>1. last[c] \in got[c] /\ got[c] \subseteq Visible
        BY <1>0, <1>2, <2>2, <3>2 DEF AttachInv, Received, Same, Seqs
      <4>2. last[c] > u
        BY <1>0, <1>2, <2>2, <3>2, <4>1 DEF Same
      <4> QED BY <2>2, <3>2, <4>1, <4>2
    <3> QED BY <3>1, <3>2
  <2> QED BY <1>0, <2>1, <2>2, LogStep
<1>3. ASSUME NEW u \in conn[c].todo, Sends(c, u)
      PROVE  s \in got'[c] \/ s \in late'
  <2>1. /\ got'[c] = got[c] \cup {u} /\ last'[c] = u /\ Visible' = Visible
        /\ late' = late
    BY <1>3 DEF Sends, log, Visible
  <2>2. u \in Visible /\ conn[c].after = last[c] /\ last[c] < u
    BY <1>3 DEF AttachInv, NextInLine, Positions, Sends
  <2>3. \A t \in conn[c].todo : t \in Visible /\ u <= t
    BY <1>3 DEF AttachInv, NextInLine, Sends
  <2>4. CASE s <= last[c]
    BY <1>1, <2>1, <2>4
  <2>5. CASE last[c] < s /\ s < u
    <3>1. s \in conn[c].todo \/ s \in late
      BY <2>1, <2>2, <2>5 DEF AttachInv, NextInLine
    <3>2. s \notin conn[c].todo
      BY <1>0, <2>1, <2>2, <2>3, <2>5
    <3> QED BY <2>1, <3>1, <3>2
  <2>6. s \in Nat /\ u \in Nat
    BY <1>0, <2>1, <2>2
  <2>7. s = u \/ s <= last[c] \/ (last[c] < s /\ s < u)
    BY <1>0, <2>1, <2>6
  <2> QED BY <2>1, <2>4, <2>5, <2>7
<1>4. CASE UNCHANGED <<last[c], got[c], log>>
  BY <1>1, <1>4 DEF log, Visible
<1>5. CASE Connects(c) \/ Queries(c) \/ Finishes(c) \/ Repolls(c) \/ Leaves(c)
  BY <1>4, <1>5 DEF Connects, Queries, Finishes, Repolls, Leaves
<1> QED BY <1>0, <1>2, <1>3, <1>5, ClientStep

(* ... what it knows to be received at all, ... *)
LEMMA StepReceived ==
    ASSUME AttachInv, [Next]_vars
    PROVE  Received'
<1> SUFFICES ASSUME NEW c \in Clients
             PROVE  got'[c] \subseteq Visible' /\ (last'[c] # 0 => last'[c] \in got'[c])
  BY DEF Received
<1>0. TypeOK
  BY DEF AttachInv
<1>1. got[c] \subseteq Visible /\ (last[c] # 0 => last[c] \in got[c])
  BY DEF AttachInv, Received
<1>2. Visible \subseteq Visible'
  BY <1>0, LogStep
<1>3. CASE UNCHANGED <<last[c], got[c]>>
  BY <1>1, <1>2, <1>3
<1>4. ASSUME NEW s \in conn[c].todo, Sends(c, s)
      PROVE  got'[c] \subseteq Visible' /\ (last'[c] # 0 => last'[c] \in got'[c])
  <2>1. s \in Visible
    BY DEF AttachInv, NextInLine
  <2> QED BY <1>1, <1>2, <1>4, <2>1 DEF Sends
<1>5. CASE Same(c) \/ Connects(c) \/ Queries(c) \/ Finishes(c) \/ Repolls(c) \/ Leaves(c)
  BY <1>3, <1>5 DEF Same, Connects, Queries, Finishes, Repolls, Leaves
<1> QED BY <1>0, <1>4, <1>5, ClientStep

(* ... and what its last query covered. *)
CoveredBy(c) ==
    /\ seen[c] \subseteq Visible
    /\ conn[c].pc = "ended" => conn[c].empty
    /\ conn[c].pc \in {"send", "ended"} /\ conn[c].empty =>
          conn[c].todo = {} /\ \A s \in seen[c] : s <= conn[c].after

(* ... and what its last query covered. *)
LEMMA StepCovered ==
    ASSUME AttachInv, [Next]_vars
    PROVE  Covered'
<1> SUFFICES ASSUME NEW c \in Clients PROVE CoveredBy(c)'
  BY DEF Covered, CoveredBy
<1>0. /\ TypeOK /\ conn[c] \in Conns /\ conn[c].after \in Nat
      /\ Visible \subseteq Seqs /\ Seqs \subseteq Nat
  BY AttachAssumption DEF AttachInv, TypeOK, Conns, Seqs, Visible
<1>1. CoveredBy(c)
  BY DEF AttachInv, Covered, CoveredBy
<1>2. Visible \subseteq Visible'
  BY <1>0, LogStep
<1>3. CASE Same(c)
  BY <1>1, <1>2, <1>3 DEF Same, CoveredBy
<1>4. CASE Queries(c)
  <2> DEFINE new == {s \in Visible : s > conn[c].after}
  <2>1. new \in SUBSET Seqs
    BY <1>0
  <2>2. new # {} => PageOf(c) # {}
    BY <2>1, PageIsPrefix DEF PageOf
  <2>3. /\ conn'[c].todo = PageOf(c) /\ conn'[c].after = conn[c].after
        /\ conn'[c].pc = "send" /\ conn'[c].empty = (PageOf(c) = {})
        /\ seen'[c] = Visible
    BY <1>4 DEF Queries
  <2>4. ASSUME PageOf(c) = {}, NEW s \in Visible
        PROVE  s <= conn[c].after
    BY <1>0, <2>2, <2>4
  <2> HIDE DEF new
  <2> QED BY <1>2, <2>3, <2>4 DEF CoveredBy
<1>5. ASSUME NEW s \in conn[c].todo, Sends(c, s)
      PROVE  CoveredBy(c)'
  <2>1. ~conn[c].empty /\ conn'[c].pc = "send" /\ conn'[c].empty = conn[c].empty
        /\ seen'[c] = seen[c]
    BY <1>1, <1>5 DEF CoveredBy, Sends
  <2> QED BY <1>1, <1>2, <2>1 DEF CoveredBy
<1>6. CASE Finishes(c)
  BY <1>1, <1>2, <1>6 DEF Finishes, CoveredBy
<1>7. CASE Connects(c) \/ Repolls(c) \/ Leaves(c)
  <2>1. conn'[c].pc \in {"off", "read"} /\ seen'[c] = seen[c]
    BY <1>7 DEF Connects, Repolls, Leaves, Reading, Off
  <2> QED BY <1>1, <1>2, <2>1 DEF CoveredBy
<1> QED BY <1>0, <1>3, <1>4, <1>5, <1>6, <1>7, ClientStep

-----------------------------------------------------------------------------
(* The inductive invariant. *)
THEOREM AttachInvariant == Spec => []AttachInv
<1>1. Init => AttachInv
  <2> SUFFICES ASSUME Init PROVE AttachInv
    OBVIOUS
  <2>1. Visible = {}
    BY DEF Init, Visible
  <2>2. TypeOK
    BY AttachAssumption DEF Init, TypeOK, Off
  <2> QED BY <2>1, <2>2 DEF Init, AttachInv, Positions, NextInLine, NoGap, Received,
                            Covered, Off
<1>2. AttachInv /\ [Next]_vars => AttachInv'
  <2> SUFFICES ASSUME AttachInv, [Next]_vars PROVE AttachInv'
    OBVIOUS
  <2>1. TypeOK'
    BY StepTypeOK DEF AttachInv
  <2> QED BY <2>1, StepPositions, StepNextInLine, StepNoGap, StepReceived, StepCovered
          DEF AttachInv
<1> QED BY <1>1, <1>2, PTL DEF Spec

(* The log, the handlers and the clients keep their shape. *)
THEOREM AttachTypes == Spec => []TypeOK
<1>1. AttachInv => TypeOK
  BY DEF AttachInv
<1> QED BY <1>1, AttachInvariant, PTL

(* A stream has no hole but for late events, for any page size, any number of *)
(* reconnections and any order of commits.                                    *)
THEOREM StreamsWithoutGap == Spec => []NoGap
<1>1. AttachInv => NoGap
  BY DEF AttachInv
<1> QED BY <1>1, AttachInvariant, PTL

(* A stream that ended has sent all that its last query could see. *)
THEOREM EndsComplete == Spec => []EndedComplete
<1>1. AttachInv => EndedComplete
  <2> SUFFICES ASSUME AttachInv, NEW c \in Clients, conn[c].pc = "ended",
                      NEW s \in seen[c]
               PROVE  s \in got[c] \/ s \in late
    BY DEF EndedComplete
  <2>1. s \in Visible /\ s <= conn[c].after
    BY DEF AttachInv, Covered
  <2>2. conn[c].after = last[c]
    BY DEF AttachInv, Positions
  <2> QED BY <2>1, <2>2 DEF AttachInv, NoGap
<1> QED BY <1>1, AttachInvariant, PTL

(* A client receives events in order and none twice. *)
THEOREM ReceivedInOrder == Spec => InOrder
<1>1. AttachInv /\ [Next]_vars =>
        \A c \in Clients : \A s \in Seqs :
            last'[c] = s /\ got'[c] # got[c] => \A t \in got[c] : t < s
  <2> SUFFICES ASSUME AttachInv, [Next]_vars, NEW c \in Clients, got'[c] # got[c],
                      NEW t \in got[c]
               PROVE  t < last'[c]
    OBVIOUS
  <2>0. TypeOK /\ t \in Nat /\ last[c] \in Nat
    BY AttachAssumption DEF AttachInv, TypeOK, Seqs
  <2>1. PICK u \in conn[c].todo : Sends(c, u)
    BY <2>0, ClientStep DEF Same, Connects, Queries, Finishes, Repolls, Leaves
  <2>2. last'[c] = u /\ last[c] < u /\ t <= last[c] /\ u \in Visible
    BY <2>1 DEF Sends, AttachInv, NextInLine, Positions
  <2>3. u \in Nat
    BY <2>2, AttachAssumption DEF Visible, Seqs
  <2> QED BY <2>0, <2>2, <2>3
<1> QED BY <1>1, AttachInvariant, PTL DEF Spec, InOrder
=============================================================================
