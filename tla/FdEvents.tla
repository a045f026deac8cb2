------------------------------ MODULE FdEvents -------------------------------
(***************************************************************************)
(* The fd contexts of src/hiper/base/iomanager.cc: which event of which fd *)
(* is registered, who is scheduled when it fires, what epoll was told, and *)
(* pending_event_count_.  Any thread may call addEvent, delEvent,          *)
(* cancelEvent and cancelAll; idle threads handle what epoll_wait reported *)
(* to them a while ago.                                                    *)
(*                                                                         *)
(* An operation holds FdContext::mutex throughout.  The changes that only  *)
(* code under that mutex can see are one step; pending_event_count_ and    *)
(* the scheduler's queue are seen by everyone, so the rest of an operation *)
(* is kept in todo[fd], a list of trigger and count steps taken one by     *)
(* one, and the mutex is free when the list is empty.                      *)
(***************************************************************************)
EXTENDS Integers, Sequences, FiniteSets, SequencesExt

CONSTANTS
  Fds,
  IdleThreads,
  Uses,         \* ways a program uses the manager (bound): the fds and events it
                \* adds, what else it calls, the idle threads it has
  Hangups,      \* whether epoll reports EPOLLERR or EPOLLHUP
  Asserts,      \* whether HIPER_ASSERT aborts (no NDEBUG)
  TableSize,    \* contextResize(32) in the constructor
  MaxAdds       \* how many events are added in all (bound)

AllEvents == {"READ", "WRITE"}

ASSUME FdEventsAssumption ==
  /\ Fds \subseteq Nat /\ IsFiniteSet(Fds)
  /\ Uses \subseteq [fds: SUBSET Fds, events: SUBSET AllEvents,
                     ops: SUBSET {"delEvent", "cancelEvent", "cancelAll"},
                     threads: SUBSET IdleThreads]
  /\ Hangups \in BOOLEAN /\ Asserts \in BOOLEAN
  /\ TableSize \in Nat /\ MaxAdds \in Nat

VARIABLES
  use,          \* the way this program uses the manager; never changes
  reg,          \* FdContext::events
  sched,        \* the events of an fd whose EventContext::scheduler is set
  waiter,       \* EventContext::fiber or ::cb, as the number of its addEvent
  interest,     \* the events epoll watches; none if the fd is not in its set
  pending,      \* pending_event_count_, a negative number standing for 2^64 - n
  todo,         \* what the operation that holds an fd's mutex has still to do
  got,          \* reports an idle thread has from epoll_wait and has not handled
  fate,         \* of each waiter: waiting, scheduled or deleted
  fault         \* first failed assertion or undefined behaviour, else "none"

ctxVars == <<reg, sched, waiter, interest, fate>>
vars == <<use, ctxVars, pending, todo, got, fault>>

NoWaiter == 0
Waiters  == 1..MaxAdds
Bits     == AllEvents \cup {"HUP"}         \* EPOLLIN, EPOLLOUT, EPOLLERR | EPOLLHUP
Trigger(e) == [op |-> "trigger", event |-> e]
Count(e)   == [op |-> "count", event |-> e]

Init ==
  /\ use \in Uses
  /\ reg = [fd \in Fds |-> {}]
  /\ sched = [fd \in Fds |-> {}]
  /\ waiter = [fd \in Fds |-> [e \in AllEvents |-> NoWaiter]]
  /\ interest = [fd \in Fds |-> {}]
  /\ pending = 0
  /\ todo = [fd \in Fds |-> <<>>]
  /\ got = [i \in IdleThreads |-> [fd \in Fds |-> {}]]
  /\ fate = [n \in {} |-> "waiting"]
  /\ fault = "none"

Locks(fd) == fault = "none" /\ todo[fd] = <<>>
Registers(fd, events) == reg' = [reg EXCEPT ![fd] = events]
Watches(fd, events)   == interest' = [interest EXCEPT ![fd] = events]

-----------------------------------------------------------------------------
\* Mutants: addEvent() that watches the new event only, and without the test
\* that the event is not registered yet.
AddEventWatchesOne(fd, e) ==
  LET n == Cardinality(DOMAIN fate) + 1 IN
  /\ Locks(fd)
  /\ e \notin reg[fd]
  /\ n <= MaxAdds
  /\ Watches(fd, {e})
  /\ pending' = pending + 1
  /\ Registers(fd, reg[fd] \cup {e})
  /\ sched' = [sched EXCEPT ![fd] = @ \cup {e}]
  /\ waiter' = [waiter EXCEPT ![fd][e] = n]
  /\ fate' = Append(fate, "waiting")
  /\ UNCHANGED <<use, todo, got, fault>>
AddEventTwice(fd, e) ==
  LET n == Cardinality(DOMAIN fate) + 1 IN
  /\ Locks(fd)
  /\ n <= MaxAdds
  /\ Watches(fd, reg[fd] \cup {e})
  /\ pending' = pending + 1
  /\ Registers(fd, reg[fd] \cup {e})
  /\ sched' = [sched EXCEPT ![fd] = @ \cup {e}]
  /\ waiter' = [waiter EXCEPT ![fd][e] = n]
  /\ fate' = Append(fate, "waiting")
  /\ UNCHANGED <<use, todo, got, fault>>

\* addEvent(): users never add an event that is registered already, which the
\* first assertion forbids.  An fd beyond the table only makes it longer.
AddEvent(fd, e) ==
  LET n == Cardinality(DOMAIN fate) + 1 IN
  /\ Locks(fd)
  /\ e \notin reg[fd]
  /\ n <= MaxAdds
  /\ IF fd >= TableSize
     THEN fault' = "null context" /\ UNCHANGED <<ctxVars, pending>>
     ELSE /\ Watches(fd, reg[fd] \cup {e})
          /\ pending' = pending + 1
          /\ Registers(fd, reg[fd] \cup {e})
          /\ IF Asserts /\ (e \in sched[fd] \/ waiter[fd][e] # NoWaiter)
             THEN fault' = "addEvent: context in use" /\ UNCHANGED <<sched, waiter, fate>>
             ELSE /\ sched' = [sched EXCEPT ![fd] = @ \cup {e}]
                  /\ waiter' = [waiter EXCEPT ![fd][e] = n]
                  /\ fate' = Append(fate, "waiting")
                  /\ UNCHANGED fault
  /\ UNCHANGED <<use, todo, got>>

\* Mutants: delEvent() without the test that the event is registered, without
\* --pending_event_count_, and without resetContext().
DelEventUnchecked(fd, e) ==
  /\ "delEvent" \in use.ops
  /\ Locks(fd)
  /\ Watches(fd, reg[fd] \ {e})
  /\ pending' = pending - 1
  /\ Registers(fd, reg[fd] \ {e})
  /\ sched' = [sched EXCEPT ![fd] = @ \ {e}]
  /\ waiter' = [waiter EXCEPT ![fd][e] = NoWaiter]
  /\ UNCHANGED <<use, fate, todo, got, fault>>
DelEventUncounted(fd, e) ==
  /\ "delEvent" \in use.ops
  /\ Locks(fd)
  /\ e \in reg[fd]
  /\ Watches(fd, reg[fd] \ {e})
  /\ Registers(fd, reg[fd] \ {e})
  /\ sched' = [sched EXCEPT ![fd] = @ \ {e}]
  /\ waiter' = [waiter EXCEPT ![fd][e] = NoWaiter]
  /\ fate' = [fate EXCEPT ![waiter[fd][e]] = "deleted"]
  /\ UNCHANGED <<use, pending, todo, got, fault>>
DelEventKeepsContext(fd, e) ==
  /\ "delEvent" \in use.ops
  /\ Locks(fd)
  /\ e \in reg[fd]
  /\ Watches(fd, reg[fd] \ {e})
  /\ pending' = pending - 1
  /\ Registers(fd, reg[fd] \ {e})
  /\ fate' = [fate EXCEPT ![waiter[fd][e]] = "deleted"]
  /\ UNCHANGED <<use, sched, waiter, todo, got, fault>>

\* delEvent(): forget the waiter.
DelEvent(fd, e) ==
  /\ "delEvent" \in use.ops
  /\ Locks(fd)
  /\ e \in reg[fd]
  /\ Watches(fd, reg[fd] \ {e})
  /\ pending' = pending - 1
  /\ Registers(fd, reg[fd] \ {e})
  /\ sched' = [sched EXCEPT ![fd] = @ \ {e}]
  /\ waiter' = [waiter EXCEPT ![fd][e] = NoWaiter]
  /\ fate' = [fate EXCEPT ![waiter[fd][e]] = "deleted"]
  /\ UNCHANGED <<use, todo, got, fault>>

\* cancelEvent(): stop watching, --pending_event_count_, trigger.
CancelEvent(fd, e) ==
  /\ "cancelEvent" \in use.ops
  /\ Locks(fd)
  /\ e \in reg[fd]
  /\ Watches(fd, reg[fd] \ {e})
  /\ todo' = [todo EXCEPT ![fd] = <<Count(e), Trigger(e)>>]
  /\ UNCHANGED <<use, reg, sched, waiter, fate, pending, got, fault>>

\* READ before WRITE, each triggered and then counted.
TriggerEach(events) ==
  (IF "READ" \in events THEN <<Trigger("READ"), Count("READ")>> ELSE <<>>)
    \o (IF "WRITE" \in events THEN <<Trigger("WRITE"), Count("WRITE")>> ELSE <<>>)

\* cancelAll()
CancelAll(fd) ==
  /\ "cancelAll" \in use.ops
  /\ Locks(fd)
  /\ reg[fd] # {}
  /\ Watches(fd, {})
  /\ todo' = [todo EXCEPT ![fd] = TriggerEach(reg[fd])]
  /\ UNCHANGED <<use, reg, sched, waiter, fate, pending, got, fault>>

-----------------------------------------------------------------------------
(* idle(): epoll_wait and the loop over what it reported.                   *)

\* Any new edge on a watched event may be reported, to any idle thread; an
\* error or a hangup is reported whenever the fd is watched at all.
Reportable(fd) ==
  interest[fd] \cup (IF Hangups /\ interest[fd] # {} THEN {"HUP"} ELSE {})

EpollWait(i) ==
  /\ fault = "none"
  /\ \A fd \in Fds : got[i][fd] = {}
  /\ \E report \in [Fds -> SUBSET Bits] :
       /\ \A fd \in Fds : report[fd] \subseteq Reportable(fd)
       /\ \E fd \in Fds : report[fd] # {}
       /\ got' = [got EXCEPT ![i] = report]
  /\ UNCHANGED <<use, ctxVars, pending, todo, fault>>

\* real_events: a hangup counts as both.
RealEvents(bits) == IF "HUP" \in bits THEN AllEvents ELSE bits

\* Mutant: no test that anything reported is still registered.
HandleEventUnchecked(i, fd) ==
  LET real == RealEvents(got[i][fd]) IN
  /\ Locks(fd)
  /\ got[i][fd] # {}
  /\ got' = [got EXCEPT ![i][fd] = {}]
  /\ Watches(fd, reg[fd] \ real)
  /\ todo' = [todo EXCEPT ![fd] = TriggerEach(real)]
  /\ UNCHANGED <<use, reg, sched, waiter, fate, pending, fault>>

HandleEvent(i, fd) ==
  LET real == RealEvents(got[i][fd]) IN
  /\ Locks(fd)
  /\ got[i][fd] # {}
  /\ got' = [got EXCEPT ![i][fd] = {}]
  /\ IF reg[fd] \cap real = {}
     THEN UNCHANGED <<interest, todo>>
     ELSE /\ Watches(fd, reg[fd] \ real)
          /\ todo' = [todo EXCEPT ![fd] = TriggerEach(real)]
  /\ UNCHANGED <<use, reg, sched, waiter, fate, pending, fault>>

-----------------------------------------------------------------------------
(* The steps under the mutex that others can see.                           *)

NextIs(fd, op) == fault = "none" /\ todo[fd] # <<>> /\ Head(todo[fd]).op = op

\* Mutant: triggerEvent() that leaves the event registered and the waiter in.
TriggerEventAgain(fd) ==
  /\ NextIs(fd, "trigger")
  /\ LET e == Head(todo[fd]).event IN
     fate' = IF waiter[fd][e] = NoWaiter THEN fate
             ELSE [fate EXCEPT ![waiter[fd][e]] = "scheduled"]
  /\ todo' = [todo EXCEPT ![fd] = Tail(@)]
  /\ UNCHANGED <<use, reg, sched, waiter, interest, pending, got, fault>>

\* triggerEvent(): assert the event is registered, clear it, hand the waiter
\* to its scheduler.  Swapping the fiber or the callback out leaves an empty
\* context except for the scheduler; an empty one schedules nothing.
TriggerEvent(fd) ==
  /\ NextIs(fd, "trigger")
  /\ LET e == Head(todo[fd]).event IN
     /\ fault' = CASE Asserts /\ e \notin reg[fd] -> "triggerEvent: not registered"
                   [] ~(Asserts /\ e \notin reg[fd]) /\ e \notin sched[fd] -> "null scheduler"
                   [] OTHER -> "none"
     /\ Registers(fd, reg[fd] \ {e})
     /\ waiter' = [waiter EXCEPT ![fd][e] = NoWaiter]
     /\ fate' = IF waiter[fd][e] = NoWaiter THEN fate
                ELSE [fate EXCEPT ![waiter[fd][e]] = "scheduled"]
  /\ todo' = [todo EXCEPT ![fd] = Tail(@)]
  /\ UNCHANGED <<use, sched, interest, pending, got>>

CountDown(fd) ==
  /\ NextIs(fd, "count")
  /\ pending' = pending - 1
  /\ todo' = [todo EXCEPT ![fd] = Tail(@)]
  /\ UNCHANGED <<use, ctxVars, got, fault>>

-----------------------------------------------------------------------------
\* Nothing is left to add, or the process was aborted.
Over ==
  /\ fault = "none" => Cardinality(DOMAIN fate) = MaxAdds
  /\ UNCHANGED vars

Next ==
  \/ \E fd \in use.fds, e \in use.events : AddEvent(fd, e) \/ DelEvent(fd, e) \/ CancelEvent(fd, e)
  \/ \E fd \in Fds : CancelAll(fd) \/ TriggerEvent(fd) \/ CountDown(fd)
  \/ \E i \in use.threads : EpollWait(i) \/ \E fd \in Fds : HandleEvent(i, fd)
  \/ Over

Spec == Init /\ [][Next]_vars

-----------------------------------------------------------------------------
(* Properties.                                                              *)

\* Every variable has a value of its C++ type; in particular
\* pending_event_count_, a size_t, never goes below zero.
TypeOK ==
  /\ use \in Uses
  /\ reg \in [Fds -> SUBSET AllEvents] /\ interest \in [Fds -> SUBSET AllEvents]
  /\ sched \in [Fds -> SUBSET AllEvents]
  /\ waiter \in [Fds -> [AllEvents -> Waiters \cup {NoWaiter}]]
  /\ pending \in Nat
  /\ \A fd \in Fds : Len(todo[fd]) <= 4
  /\ got \in [IdleThreads -> [Fds -> SUBSET Bits]]
  /\ fate \in Seq({"waiting", "scheduled", "deleted"}) /\ Len(fate) <= MaxAdds

\* No assertion of iomanager.cc fails and no null pointer is used (lines 87,
\* 92-95, 155, 183).
NoFault == fault = "none"

\* A waiter is in the context of a registered event until it is scheduled or
\* deleted: no addEvent overwrites one and none is left in a context that
\* nothing will trigger (addEvent, delEvent, triggerEvent).
WaiterIsRegistered ==
  \A n \in DOMAIN fate :
    fate[n] = "waiting" <=>
      \E fd \in Fds, e \in AllEvents : waiter[fd][e] = n /\ e \in reg[fd]

\* epoll watches every registered event, or the waiter would sleep for ever
\* (the masks given to epoll_ctl, iomanager.cc:166-170, 217-223, 262-268, 447-452).
WatchedIffRegistered ==
  \A fd \in Fds : todo[fd] = <<>> => interest[fd] = reg[fd]

\* pending_event_count_ counts the registered events that no operation is about to
\* trigger, and those whose countdown is still to be made (iomanager.cc:179, 233,
\* 278, 318, 323, 464, 469).
Owed ==
  {p \in Fds \X AllEvents :
     \/ p[2] \in reg[p[1]] /\ ~Contains(todo[p[1]], Trigger(p[2]))
     \/ Contains(todo[p[1]], Count(p[2]))}
PendingIsExact == pending = Cardinality(Owed)

\* A waiter is scheduled at most once and never after it was deleted.
FateIsFinal ==
  [][\A n \in DOMAIN fate : fate[n] # "waiting" => fate'[n] = fate[n]]_fate

=============================================================================
