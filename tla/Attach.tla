------------------------------- MODULE Attach -------------------------------
(* The event log of a goal and the streams attached to it: Store.addEvent and *)
(* Store.Events, Server.attach.  An event's number is drawn when its row is   *)
(* inserted and the row is seen when its transaction commits, so that numbers *)
(* may become visible out of order.                                           *)
EXTENDS Naturals, FiniteSets

CONSTANTS Clients,  \* the clients that attach
          MaxSeq,   \* bound: event numbers drawn for the goal
          Limit     \* how many events one query returns (500 in the code)

ASSUME AttachAssumption == MaxSeq \in Nat /\ Limit \in Nat \ {0}

Seqs == 1..MaxSeq

VARIABLES kind,   \* kind[s]: what the transaction that drew s is
          tx,     \* tx[s]: none, open, visible (committed) or undone
          conn,   \* conn[c]: where the handler of client c's request is
          last,   \* last[c]: the number of the last event c received, or 0
          got,    \* got[c]: the events c has received
          late,   \* events that became visible after one with a higher number
          seen    \* seen[c]: the events visible at the handler's last query

vars == <<kind, tx, conn, last, got, late, seen>>
log == <<kind, tx, late>>
streams == <<conn, last, got, seen>>

Visible == {s \in Seqs : tx[s] = "visible"}
Open(s) == tx[s] = "open"

(* The goal's state is written in the transaction of its last transition's    *)
(* event.                                                                     *)
Terminal == \E s \in Visible : kind[s] = "end"

Off == [pc |-> "off", after |-> 0, todo |-> {}, empty |-> FALSE]
Reading(after) == [pc |-> "read", after |-> after, todo |-> {}, empty |-> FALSE]

Init ==
    /\ kind = [s \in Seqs |-> "none"]
    /\ tx = [s \in Seqs |-> "none"]
    /\ conn = [c \in Clients |-> Off]
    /\ last = [c \in Clients |-> 0]
    /\ got = [c \in Clients |-> {}]
    /\ late = {}
    /\ seen = [c \in Clients |-> {}]

-----------------------------------------------------------------------------
(* The sequence of events.seq gives the next number, whatever becomes of the  *)
(* transaction.                                                               *)
Draws(s) == tx[s] = "none" /\ \A t \in 1..(s - 1) : tx[t] # "none"

(* Transitions, steps, intents, claims and reparents hold the goal's row for  *)
(* the whole transaction ("row", and "end" for the last transition); results, *)
(* reviews and messages do not ("free").  A terminal goal makes no transition.*)
Admitted(k) ==
    /\ k # "free" => \A t \in Seqs : Open(t) => kind[t] = "free"
    /\ k = "end" => ~Terminal

AddEvent(s, k) ==
    /\ Draws(s) /\ Admitted(k)
    /\ kind' = [kind EXCEPT ![s] = k]
    /\ tx' = [tx EXCEPT ![s] = "open"]
    /\ UNCHANGED <<late, streams>>

CommitTx(s) ==
    /\ Open(s)
    /\ tx' = [tx EXCEPT ![s] = "visible"]
    /\ late' = IF \E t \in Visible : t > s THEN late \cup {s} ELSE late
    /\ UNCHANGED <<kind, streams>>

RollbackTx(s) ==
    /\ Open(s)
    /\ tx' = [tx EXCEPT ![s] = "undone"]
    /\ UNCHANGED <<kind, late, streams>>

-----------------------------------------------------------------------------
(* Mutant of ResumeAt: Last-Event-ID is not looked at. *)
ResumeAtStart(c) == 0

(* A client that comes back names the last event it received. *)
ResumeAt(c) == last[c]

(* attach: the goal is read and sent as a snapshot, and the loop begins. *)
Connect(c) ==
    /\ conn[c].pc = "off"
    /\ conn' = [conn EXCEPT ![c] = Reading(ResumeAt(c))]
    /\ UNCHANGED <<log, last, got, seen>>

(* Mutant of Page: the newest events come first. *)
PageNewest(new) == {s \in new : Cardinality({t \in new : t >= s}) <= Limit}

(* ORDER BY seq LIMIT 500 *)
Page(new) == {s \in new : Cardinality({t \in new : t <= s}) <= Limit}

(* Events: the visible events after the last one sent. *)
ReadEvents(c) ==
    /\ conn[c].pc = "read"
    /\ LET page == Page({s \in Visible : s > conn[c].after}) IN
       conn' = [conn EXCEPT ![c] = [pc |-> "send", after |-> conn[c].after,
                                    todo |-> page, empty |-> page = {}]]
    /\ seen' = [seen EXCEPT ![c] = Visible]
    /\ UNCHANGED <<log, last, got>>

(* Mutants of Advance: after stays where it is, or goes one too far. *)
AdvanceNot(after, s) == after
AdvanceBeyond(after, s) == s + 1

Advance(after, s) == s

(* send: the events of the page, in order. *)
SendEvent(c, s) ==
    /\ conn[c].pc = "send"
    /\ s \in conn[c].todo /\ \A t \in conn[c].todo : s <= t
    /\ conn' = [conn EXCEPT ![c].todo = @ \ {s}, ![c].after = Advance(@, s)]
    /\ last' = [last EXCEPT ![c] = s]
    /\ got' = [got EXCEPT ![c] = @ \cup {s}]
    /\ UNCHANGED <<log, seen>>

(* Mutant of Over: the last page is taken for the last event. *)
OverSoon(c) == Terminal

(* The goal is read again: the stream is over when it is terminal and the     *)
(* query before found nothing.                                                *)
Over(c) == Terminal /\ conn[c].empty

EndStream(c) ==
    /\ conn[c].pc = "send" /\ conn[c].todo = {} /\ Over(c)
    /\ conn' = [conn EXCEPT ![c].pc = "ended"]
    /\ UNCHANGED <<log, last, got, seen>>

(* Otherwise, after the poll interval, the events are read again. *)
PollAgain(c) ==
    /\ conn[c].pc = "send" /\ conn[c].todo = {} /\ ~Over(c)
    /\ conn' = [conn EXCEPT ![c] = Reading(conn[c].after)]
    /\ UNCHANGED <<log, last, got, seen>>

(* The state cannot be read: the error is dropped and the loop goes on. *)
StateUnread(c) ==
    /\ conn[c].pc = "send" /\ conn[c].todo = {}
    /\ conn' = [conn EXCEPT ![c] = Reading(conn[c].after)]
    /\ UNCHANGED <<log, last, got, seen>>

(* The client goes away, the events cannot be read or the process dies. *)
Disconnect(c) ==
    /\ conn[c].pc \in {"read", "send"}
    /\ conn' = [conn EXCEPT ![c] = Off]
    /\ UNCHANGED <<log, last, got, seen>>

-----------------------------------------------------------------------------
LogNext ==
    \E s \in Seqs :
        \/ \E k \in {"free", "row", "end"} : AddEvent(s, k)
        \/ CommitTx(s) \/ RollbackTx(s)

Serve(c) ==
    \/ ReadEvents(c) \/ (\E s \in Seqs : SendEvent(c, s))
    \/ EndStream(c) \/ PollAgain(c)

ClientNext(c) == Connect(c) \/ Serve(c) \/ StateUnread(c) \/ Disconnect(c)

Next == LogNext \/ \E c \in Clients : ClientNext(c)

(* A handler keeps polling, and its reads of the state do not all fail;       *)
(* clients and transactions owe nothing.                                      *)
Fairness == \A c \in Clients : WF_vars(Serve(c)) /\ SF_vars(EndStream(c))

Spec == Init /\ [][Next]_vars /\ Fairness

-----------------------------------------------------------------------------
(* The log and the streams have their shape. *)
TypeOK ==
    /\ kind \in [Seqs -> {"none", "free", "row", "end"}]
    /\ tx \in [Seqs -> {"none", "open", "visible", "undone"}]
    /\ conn \in [Clients -> [pc : {"off", "read", "send", "ended"},
                             after : 0..MaxSeq, todo : SUBSET Seqs,
                             empty : BOOLEAN]]
    /\ last \in [Clients -> 0..MaxSeq]
    /\ got \in [Clients -> SUBSET Seqs]
    /\ late \subseteq Seqs
    /\ seen \in [Clients -> SUBSET Seqs]

(* A stream has no hole: below the last event a client received it has every  *)
(* visible one, across pages, polls and connections, but for events whose     *)
(* transaction committed after one with a higher number (attach's "every new  *)
(* event", api.go:221).                                                       *)
NoGap ==
    \A c \in Clients : \A s \in Visible :
        s <= last[c] => s \in got[c] \/ s \in late

(* A stream that ended has sent every event its last query could see, and no  *)
(* terminal goal's stream ends with a page outstanding.  Late events are      *)
(* excepted; so is what became visible between that query and the read of the *)
(* state, which may be the last transition itself (api.go:257-266).           *)
EndedComplete ==
    \A c \in Clients : conn[c].pc = "ended" =>
        \A s \in seen[c] : s \in got[c] \/ s \in late

(* A client receives events in the order of their numbers and none twice,     *)
(* also when it reconnects with Last-Event-ID.                                *)
InOrder ==
    [][\A c \in Clients : \A s \in Seqs :
          last'[c] = s /\ got'[c] # got[c] => \A t \in got[c] : t < s]_vars

(* The stream of a goal that is terminal ends, unless the client goes away.   *)
StreamEnds ==
    \A c \in Clients :
        (Terminal /\ conn[c].pc \in {"read", "send"})
            ~> (conn[c].pc \in {"ended", "off"})
=============================================================================
