------------------------------- MODULE Waits -------------------------------
(* Durable waiting through the Engine interface: Timer, Signal and            *)
(* AwaitSignal, of Postgres (rows of engine_timers and engine_signals) and of *)
(* Fake (a map of deadlines, a buffered channel for each key and name).       *)
EXTENDS Integers, FiniteSets

CONSTANTS Waiters,      \* goroutines or processes that call
          Topics,       \* a key with a signal name
          Channels,     \* the topics of Fake; the others are Postgres rows
          Timers,       \* timer keys
          FakeTimers,   \* the timers of Fake; the others are Postgres rows
          Ahead,        \* Ahead[w]: w's clock less the database's
          NoWait,       \* waiting for nothing
          ChanCap,      \* signals a channel holds
          Durations,    \* durations asked for
          MaxSignals,   \* bound: signals sent
          MaxTime,      \* bound: the last instant
          MaxFailed     \* bound: statements that fail or whose answer is lost

ASSUME WaitsAssumption ==
    /\ Channels \subseteq Topics /\ FakeTimers \subseteq Timers
    /\ Ahead \in [Waiters -> Int]
    /\ NoWait \notin Topics \cup Timers
    /\ Durations \subseteq Nat
    /\ ChanCap \in Nat /\ MaxSignals \in Nat /\ MaxTime \in Nat /\ MaxFailed \in Nat

VARIABLES time,      \* the database's clock
          deadline,  \* deadline[k]: the timer's row or map entry, -1 if none
          due,       \* history: when the first call's duration has elapsed, or -1
          sent,      \* signals sent: they are numbered from 1, as ids are drawn
          signal,    \* signal[s]: its topic, where it is, what was queued before it
          wait,      \* wait[w]: what waiter w is at
          got,       \* history: got[s]: how many calls were given signal s
          skipped,   \* history: signals that were locked when a later one was taken
          failed     \* statements failed so far, for the bound

waitVars == <<time, deadline, due, sent, signal, wait, got, skipped, failed>>

Signals == 1 .. MaxSignals
Sig(at, topic, before) == [at |-> at, topic |-> topic, before |-> before]
Place(pc, on, n) == [pc |-> pc, on |-> on, n |-> n]
Nowhere == Place("idle", NoWait, 0)

Queued(t) == {s \in Signals : signal[s].at = "queued" /\ signal[s].topic = t}
Held(t) == {s \in Signals : signal[s].at = "locked" /\ signal[s].topic = t}
Least(S) == CHOOSE s \in S : \A r \in S : s <= r

Move(s, at) == signal' = [signal EXCEPT ![s].at = at]
Become(w, r) == wait' = [wait EXCEPT ![w] = r]
Fail == failed < MaxFailed /\ failed' = failed + 1

WaitsInit ==
    /\ time = 0
    /\ deadline = [k \in Timers |-> -1]
    /\ due = [k \in Timers |-> -1]
    /\ sent = 0
    /\ signal = [s \in Signals |-> Sig("none", NoWait, {})]
    /\ wait = [w \in Waiters |-> Nowhere]
    /\ got = [s \in Signals |-> 0]
    /\ skipped = {}
    /\ failed = 0

-----------------------------------------------------------------------------
(* Timers. *)

Tick ==
    /\ time < MaxTime /\ time' = time + 1
    /\ UNCHANGED <<deadline, due, sent, signal, wait, got, skipped, failed>>

(* Mutant of Deadline: every call starts the clock again. *)
DeadlineAnew(k, d) == time + d

(* INSERT ... ON CONFLICT, or the map entry: the first call's deadline stays. *)
Deadline(k, d) == IF deadline[k] = -1 THEN time + d ELSE deadline[k]

(* What time.Until leaves to wait for: the row's deadline is the database's   *)
(* and is compared with the process's clock; Fake's is the process's own.     *)
Remaining(w, k, d) ==
    Deadline(k, d) - time - (IF k \in FakeTimers THEN 0 ELSE Ahead[w])

Timer(w, k, d) ==
    /\ wait[w] = Nowhere
    /\ deadline' = [deadline EXCEPT ![k] = Deadline(k, d)]
    /\ due' = IF due[k] = -1 THEN [due EXCEPT ![k] = time + d] ELSE due
    /\ Become(w, IF Remaining(w, k, d) <= 0 THEN Place("rung", k, time)
                 ELSE Place("timer", k, time + Remaining(w, k, d)))
    /\ UNCHANGED <<time, sent, signal, got, skipped, failed>>

(* The process's timer goes off. *)
Ring(w) ==
    /\ wait[w].pc = "timer" /\ time >= wait[w].n
    /\ Become(w, Place("rung", wait[w].on, time))
    /\ UNCHANGED <<time, deadline, due, sent, signal, got, skipped, failed>>

(* Timer has returned. *)
Rung(w) ==
    /\ wait[w].pc = "rung"
    /\ Become(w, Nowhere)
    /\ UNCHANGED <<time, deadline, due, sent, signal, got, skipped, failed>>

-----------------------------------------------------------------------------
(* Signals. *)

(* The id is drawn before the row is visible. *)
SignalStarts(t) ==
    /\ t \notin Channels /\ sent < MaxSignals
    /\ sent' = sent + 1
    /\ signal' = [signal EXCEPT ![sent + 1] =
                     Sig("open", t, Queued(t) \cup Held(t))]
    /\ UNCHANGED <<time, deadline, due, wait, got, skipped, failed>>

SignalEnds(s) ==
    /\ signal[s].at = "open"
    /\ \/ Move(s, "queued") /\ UNCHANGED failed
       \/ Move(s, "undone") /\ Fail
    /\ UNCHANGED <<time, deadline, due, sent, wait, got, skipped>>

(* A send on the channel; it blocks, whatever becomes of its context, while   *)
(* the channel is full.                                                       *)
Send(t) ==
    /\ t \in Channels /\ sent < MaxSignals
    /\ Cardinality(Queued(t)) < ChanCap
    /\ sent' = sent + 1
    /\ signal' = [signal EXCEPT ![sent + 1] = Sig("queued", t, Queued(t))]
    /\ UNCHANGED <<time, deadline, due, wait, got, skipped, failed>>

AwaitSignal(w, t) ==
    /\ wait[w] = Nowhere
    /\ Become(w, Place("await", t, 0))
    /\ UNCHANGED <<time, deadline, due, sent, signal, got, skipped, failed>>

(* Mutant of Takeable: rows another call has locked are not skipped. *)
TakeableLocked(t) == Queued(t) \cup Held(t)

(* FOR UPDATE SKIP LOCKED. *)
Takeable(t) == Queued(t)

(* Mutant of OldestOf: the newest row first. *)
NewestOf(t) == CHOOSE s \in Takeable(t) : \A r \in Takeable(t) : r <= s

(* ORDER BY id LIMIT 1, and the head of the channel. *)
OldestOf(t) == Least(Takeable(t))

(* The DELETE finds its row and locks it; it commits; its answer arrives. *)
DeleteLocks(w) ==
    /\ wait[w].pc = "await" /\ wait[w].on \notin Channels
    /\ Takeable(wait[w].on) # {}
    /\ LET s == OldestOf(wait[w].on) IN
       /\ Move(s, "locked")
       /\ Become(w, Place("delete", wait[w].on, s))
       /\ skipped' = skipped \cup {r \in Held(wait[w].on) : r < s}
    /\ UNCHANGED <<time, deadline, due, sent, got, failed>>

DeleteCommits(w) ==
    /\ wait[w].pc = "delete"
    /\ Move(wait[w].n, "deleted")
    /\ Become(w, Place("answer", wait[w].on, wait[w].n))
    /\ UNCHANGED <<time, deadline, due, sent, got, skipped, failed>>

Given(w) ==
    /\ wait[w].pc = "answer"
    /\ got' = [got EXCEPT ![wait[w].n] = @ + 1]
    /\ Become(w, Nowhere)
    /\ UNCHANGED <<time, deadline, due, sent, signal, skipped, failed>>

(* Mutant of Undo: the row of a statement that failed is gone. *)
UndoGone == "deleted"

(* A statement that fails gives its row back. *)
Undo == "queued"

(* The statement fails, or the process dies in it, and the call with it; once *)
(* the DELETE has committed the signal goes with them.                        *)
AwaitFails(w) ==
    /\ wait[w].pc \in {"await", "delete", "answer"} /\ wait[w].on \notin Channels
    /\ Fail
    /\ CASE wait[w].pc = "delete" -> Move(wait[w].n, Undo)
         [] wait[w].pc = "answer" -> Move(wait[w].n, "lost")
         [] OTHER -> UNCHANGED signal
    /\ Become(w, Nowhere)
    /\ UNCHANGED <<time, deadline, due, sent, got, skipped>>

(* No row: sleep, then poll again unless the context has ended. *)
FindsNothing(w) ==
    /\ wait[w].pc = "await" /\ wait[w].on \notin Channels
    /\ Takeable(wait[w].on) = {}
    /\ Become(w, Place("sleep", wait[w].on, 0))
    /\ UNCHANGED <<time, deadline, due, sent, signal, got, skipped, failed>>

PollsAgain(w) ==
    /\ wait[w].pc = "sleep"
    /\ Become(w, Place("await", wait[w].on, 0))
    /\ UNCHANGED <<time, deadline, due, sent, signal, got, skipped, failed>>

(* Fake's select takes from the channel. *)
Receive(w) ==
    /\ wait[w].pc = "await" /\ wait[w].on \in Channels
    /\ Takeable(wait[w].on) # {}
    /\ LET s == OldestOf(wait[w].on) IN
       /\ Move(s, "deleted")
       /\ got' = [got EXCEPT ![s] = @ + 1]
    /\ Become(w, Nowhere)
    /\ UNCHANGED <<time, deadline, due, sent, skipped, failed>>

(* The context ends, in the selects. *)
ContextEnds(w) ==
    /\ \/ wait[w].pc \in {"timer", "sleep"}
       \/ wait[w].pc = "await" /\ wait[w].on \in Channels
    /\ Become(w, Nowhere)
    /\ UNCHANGED <<time, deadline, due, sent, signal, got, skipped, failed>>

-----------------------------------------------------------------------------
Goes(w) ==
    \/ Ring(w) \/ Rung(w) \/ DeleteLocks(w) \/ DeleteCommits(w) \/ Given(w)
    \/ FindsNothing(w) \/ PollsAgain(w) \/ Receive(w)

WaitsNext ==
    \/ Tick
    \/ \E t \in Topics : SignalStarts(t) \/ Send(t)
    \/ \E s \in Signals : SignalEnds(s)
    \/ \E w \in Waiters :
          \/ \E k \in Timers, d \in Durations : Timer(w, k, d)
          \/ \E t \in Topics : AwaitSignal(w, t)
          \/ Goes(w) \/ AwaitFails(w) \/ ContextEnds(w)

WaitsSpec == WaitsInit /\ [][WaitsNext]_waitVars

(* A call that can go on goes on; callers, failures and contexts owe nothing. *)
WaitsFair == \A w \in Waiters : WF_waitVars(Goes(w))

-----------------------------------------------------------------------------
Taken == {"deleted", "lost"}
Skew(w, k) == IF k \in FakeTimers THEN 0 ELSE Ahead[w]

(* engine.go:91-94: whichever calls, restarts and durations follow, a timer   *)
(* rings when the first call's duration has elapsed: not before, and a call   *)
(* that takes it up again does not wait for longer.  (By the caller's clock:  *)
(* postgres.go:246 compares the database's deadline with it.)                 *)
TimerOnTime ==
    \A w \in Waiters :
        LET k == wait[w].on IN
        /\ wait[w].pc = "rung" => wait[w].n + Skew(w, k) >= due[k]
        /\ wait[w].pc = "timer" => wait[w].n + Skew(w, k) = due[k]

(* engine.go:96-98: a signal is given to one call at most, however many wait  *)
(* for it and whichever of them fail.                                         *)
SignalOnce == \A s \in Signals : got[s] <= 1

(* engine.go:97: first in, first out.  A signal is taken only after those     *)
(* that were there when it was sent, but for one that another call had        *)
(* locked at that moment and then gave back (SKIP LOCKED).                    *)
SignalFifo ==
    \A s \in Signals :
        signal[s].at \in Taken =>
            \A r \in signal[s].before : signal[r].at \in Taken \/ r \in skipped

Awaits(t) == \E w \in Waiters : wait[w].pc = "await" /\ wait[w].on = t

(* engine.go:96-98: a signal's row is given to a call at last if there is     *)
(* always another call that looks for it, failed statements and contexts that *)
(* end between two polls notwithstanding, unless the answer of the DELETE     *)
(* that took it never arrived.  (Of Fake's select nothing can be said: it may *)
(* pick the context that has ended every time.)                               *)
SignalTaken ==
    \A s \in Signals, t \in Topics \ Channels :
        []<>Awaits(t) =>
            (s \in Queued(t) ~> (got[s] = 1 \/ signal[s].at = "lost"))
=============================================================================
