----------------------------- MODULE TimerManager -----------------------------
(***************************************************************************)
(* The timers of src/hiper/base/timer.{h,cc}, and the idle threads of      *)
(* iomanager.cc that sleep until the first of them is due.                 *)
(*                                                                         *)
(* timers_ is a set of pointers ordered by the expiration_ stored in the   *)
(* Timer; here it is a set of keys <<expiration, timer>>, so that a timer  *)
(* whose expiration_ changes while it is in the set shows.  Each critical  *)
(* section of mtx_ is a step; the clock is read before it in addTimer()    *)
(* and listExpiredCb().  Timers are numbered in the order of their         *)
(* addresses, which breaks ties.                                           *)
(*                                                                         *)
(* An idle thread's timeout is a point in time: the little time between    *)
(* getNextTimer() and epoll_wait is neglected, what other threads do in    *)
(* between is not.  The locals clock and deadline are set back to 0 when    *)
(* they are dead, to have fewer states.                                    *)
(***************************************************************************)
EXTENDS Integers, FiniteSets

CONSTANTS
  Timers,
  Recurring,    \* those with is_recurring_
  Users,        \* threads that add, cancel and change timers
  IdleThreads,
  Delays,       \* the values of ms (bound)
  MaxTimeout,   \* MAX_TIMEOUT of IOManager::idle()
  Horizon,      \* no timer is added or changed later (bound)
  MaxTime       \* the clock stops here (bound)

ASSUME TimerManagerAssumption ==
  /\ Timers \subseteq Nat /\ IsFiniteSet(Timers)
  /\ Recurring \subseteq Timers
  /\ Delays \subseteq Nat
  /\ MaxTimeout \in Nat /\ Horizon \in Nat /\ MaxTime \in Nat
  /\ IdleThreads # {}

VARIABLES
  now,          \* GetElapsedMS()
  keys,         \* timers_
  ms,           \* Timer::ms_
  expiration,   \* Timer::expiration_
  hasCb,        \* the timers whose cb_ is not null
  known,        \* timers whose pointer addTimer() has returned
  cancelled,    \* timers whose cancel() has returned true
  taken,        \* how often the callback of a timer was handed to the scheduler
  tickled,      \* tickled_
  pipe,         \* whether epoll has to report the tickle pipe
  upc, making,  \* where a user is in addTimer() or reset(), and of which timer
  pc,           \* where an idle thread is: "out" of idle() or in it
  clock,        \* the now of its listExpiredCb()
  deadline,     \* when its epoll_wait times out
  reported      \* whether its epoll_wait reported the pipe

timerVars == <<keys, ms, expiration, hasCb, known, cancelled, taken>>
userVars  == <<upc, making>>
idleVars  == <<pc, clock, deadline, reported>>
vars == <<now, timerVars, tickled, pipe, userVars, idleVars>>

NoTimer == -1

Init ==
  /\ now = 0
  /\ keys = {}
  /\ ms = [t \in Timers |-> 0]
  /\ expiration = [t \in Timers |-> 0]
  /\ hasCb = {} /\ known = {} /\ cancelled = {}
  /\ taken = [t \in Timers |-> 0]
  /\ tickled = FALSE
  /\ pipe = FALSE
  /\ upc = [u \in Users |-> "free"]
  /\ making = [u \in Users |-> NoTimer]
  /\ pc = [i \in IdleThreads |-> "out"]
  /\ clock = [i \in IdleThreads |-> 0]
  /\ deadline = [i \in IdleThreads |-> 0]
  /\ reported = [i \in IdleThreads |-> FALSE]

KeyOf(t) == <<expiration[t], t>>
\* Timer::Comparator
Before(a, b) == a[1] < b[1] \/ (a[1] = b[1] /\ a[2] < b[2])
First(S) == CHOOSE k \in S : \A other \in S \ {k} : Before(k, other)

-----------------------------------------------------------------------------
(* Users.                                                                   *)

\* addTimer(ms, cb, recurring): the Timer takes its expiration from the clock
\* before the lock is taken.
NewTimer(u) ==
  /\ upc[u] = "free"
  /\ now <= Horizon
  /\ \E t \in Timers \ (known \cup {making[v] : v \in Users}), d \in Delays :
       /\ making' = [making EXCEPT ![u] = t]
       /\ ms' = [ms EXCEPT ![t] = d]
       /\ expiration' = [expiration EXCEPT ![t] = now + d]
       /\ hasCb' = hasCb \cup {t}
  /\ upc' = [upc EXCEPT ![u] = "insert"]
  /\ UNCHANGED <<now, keys, known, cancelled, taken, tickled, pipe, idleVars>>

\* addTimer(timer, lock): the notification of a new first timer is left out while
\* an earlier one has not been answered by getNextTimer().
AddTimer(u, others, key) ==
  LET at_front == First(others \cup {key}) = key /\ ~tickled IN
  /\ keys' = others \cup {key}
  /\ tickled' = (tickled \/ at_front)
  /\ upc' = [upc EXCEPT ![u] = IF at_front THEN "tickle" ELSE "free"]

InsertTimer(u) ==
  /\ upc[u] = "insert"
  /\ AddTimer(u, keys, KeyOf(making[u]))
  /\ known' = known \cup {making[u]}
  /\ making' = [making EXCEPT ![u] = NoTimer]
  /\ UNCHANGED <<now, ms, expiration, hasCb, cancelled, taken, pipe, idleVars>>

\* onTimerInsertedAtFront(), after the unlock: tickle() writes to the pipe if
\* some thread is idle.
Notify(u) ==
  /\ upc[u] = "tickle"
  /\ upc' = [upc EXCEPT ![u] = "free"]
  /\ pipe' = (pipe \/ \E i \in IdleThreads : pc[i] # "out")
  /\ UNCHANGED <<now, timerVars, tickled, making, idleVars>>

\* Mutant: cancel() of a timer that stays in timers_.
CancelKeepsKey(u, t) ==
  /\ upc[u] = "free" /\ t \in known
  /\ t \in hasCb
  /\ hasCb' = hasCb \ {t}
  /\ cancelled' = IF KeyOf(t) \in keys THEN cancelled \cup {t} ELSE cancelled
  /\ UNCHANGED <<now, keys, ms, expiration, known, taken, tickled, pipe, userVars, idleVars>>

\* Timer::cancel(); it changes nothing when the callback is gone.
Cancel(u, t) ==
  /\ upc[u] = "free" /\ t \in known
  /\ t \in hasCb
  /\ hasCb' = hasCb \ {t}
  /\ keys' = keys \ {KeyOf(t)}
  /\ cancelled' = IF KeyOf(t) \in keys THEN cancelled \cup {t} ELSE cancelled
  /\ UNCHANGED <<now, ms, expiration, known, taken, tickled, pipe, userVars, idleVars>>

\* Mutant: refresh() that moves the timer without taking it out first.
RefreshInPlace(u, t) ==
  /\ upc[u] = "free" /\ t \in known
  /\ now <= Horizon
  /\ t \in hasCb /\ KeyOf(t) \in keys
  /\ expiration' = [expiration EXCEPT ![t] = now + ms[t]]
  /\ UNCHANGED <<now, keys, ms, hasCb, known, cancelled, taken, tickled, pipe,
                 userVars, idleVars>>

\* Timer::refresh(): no notification, the timer only moves back.
Refresh(u, t) ==
  /\ upc[u] = "free" /\ t \in known
  /\ now <= Horizon
  /\ t \in hasCb /\ KeyOf(t) \in keys
  /\ expiration' = [expiration EXCEPT ![t] = now + ms[t]]
  /\ keys' = (keys \ {KeyOf(t)}) \cup {<<now + ms[t], t>>}
  /\ UNCHANGED <<now, ms, hasCb, known, cancelled, taken, tickled, pipe,
                 userVars, idleVars>>

\* Timer::reset(ms, from_now).  Its first test reads ms_ without the lock, so what
\* it compares with may be gone by the time the lock is taken: it does not
\* keep an equal ms from getting here.
Reset(u, t) ==
  /\ upc[u] = "free" /\ t \in known
  /\ now <= Horizon
  /\ t \in hasCb /\ KeyOf(t) \in keys
  /\ \E d \in Delays, start \in {now, expiration[t] - ms[t]} :
       /\ ms' = [ms EXCEPT ![t] = d]
       /\ expiration' = [expiration EXCEPT ![t] = start + d]
       /\ AddTimer(u, keys \ {KeyOf(t)}, <<start + d, t>>)
  /\ UNCHANGED <<now, hasCb, known, cancelled, taken, pipe, making, idleVars>>

-----------------------------------------------------------------------------
(* Idle threads.                                                            *)

\* A thread that has nothing to run calls idle(), again and again.
GoIdle(i) ==
  /\ pc[i] = "out"
  /\ pc' = [pc EXCEPT ![i] = "next"]
  /\ UNCHANGED <<now, timerVars, tickled, pipe, userVars, clock, deadline, reported>>

SmallerOf(a, b) == IF a < b THEN a ELSE b

\* Mutant: ~0ull, for no timer at all, is cast to int as it is.
NextTimeoutCast ==
  IF keys = {} THEN -1
  ELSE IF now >= First(keys)[1] THEN 0
  ELSE SmallerOf(First(keys)[1] - now, MaxTimeout)

\* How long getNextTimer() lets the thread sleep.
NextTimeout ==
  IF keys = {} THEN MaxTimeout
  ELSE IF now >= First(keys)[1] THEN 0
  ELSE SmallerOf(First(keys)[1] - now, MaxTimeout)

\* Mutant: getNextTimer() leaves tickled_ as it is.
GetNextKeepsTickled(i) ==
  /\ pc[i] = "next"
  /\ deadline' = [deadline EXCEPT ![i] = now + NextTimeout]
  /\ pc' = [pc EXCEPT ![i] = "wait"]
  /\ UNCHANGED <<now, timerVars, tickled, pipe, userVars, clock, reported>>

GetNextTimer(i) ==
  /\ pc[i] = "next"
  /\ tickled' = FALSE
  /\ deadline' = [deadline EXCEPT ![i] = now + NextTimeout]
  /\ pc' = [pc EXCEPT ![i] = "wait"]
  /\ UNCHANGED <<now, timerVars, pipe, userVars, clock, reported>>

Wakes(i) ==
  /\ pc[i] = "wait"
  /\ reported' = [reported EXCEPT ![i] = pipe]
  /\ pipe' = FALSE
  /\ deadline' = [deadline EXCEPT ![i] = 0]
  /\ pc' = [pc EXCEPT ![i] = "clock"]
  /\ UNCHANGED <<now, timerVars, tickled, userVars, clock>>

\* epoll_wait returns because of the pipe or its timeout, or because of an fd.
EpollWait(i)    == (pipe \/ deadline[i] <= now) /\ Wakes(i)
OtherEvent(i)   == ~(pipe \/ deadline[i] <= now) /\ Wakes(i)

\* listExpiredCb() reads the clock, then takes the lock.
ReadClock(i) ==
  /\ pc[i] = "clock"
  /\ clock' = [clock EXCEPT ![i] = now]
  /\ pc' = [pc EXCEPT ![i] = "list"]
  /\ UNCHANGED <<now, timerVars, tickled, pipe, userVars, deadline, reported>>

Expired(i) == {t \in Timers : \E k \in keys : k[2] = t /\ k[1] <= clock[i]}

\* Mutant: the callback of a timer that does not recur is not dropped and the
\* timer goes back as well.
ListExpiredKeeps(i) ==
  LET expired == Expired(i) IN
  /\ pc[i] = "list"
  /\ expiration' = [t \in Timers |->
                      IF t \in expired THEN clock[i] + ms[t] ELSE expiration[t]]
  /\ keys' = {k \in keys : k[2] \notin expired} \cup {<<clock[i] + ms[t], t>> : t \in expired}
  /\ taken' = [t \in Timers |->
                 IF t \in expired THEN SmallerOf(taken[t] + 1, 2) ELSE taken[t]]
  /\ pc' = [pc EXCEPT ![i] = "drain"]
  /\ clock' = [clock EXCEPT ![i] = 0]
  /\ UNCHANGED <<now, ms, hasCb, known, cancelled, tickled, pipe, userVars,
                 deadline, reported>>

\* Everything up to clock[i] is taken out; recurring timers go back.  That a
\* callback was taken more than twice is not counted.
ListExpired(i) ==
  LET expired == Expired(i)
      again   == expired \cap Recurring
  IN
  /\ pc[i] = "list"
  /\ expiration' = [t \in Timers |->
                      IF t \in again THEN clock[i] + ms[t] ELSE expiration[t]]
  /\ keys' = {k \in keys : k[2] \notin expired} \cup {<<clock[i] + ms[t], t>> : t \in again}
  /\ hasCb' = hasCb \ (expired \ Recurring)
  /\ taken' = [t \in Timers |->
                 IF t \in expired THEN SmallerOf(taken[t] + 1, 2) ELSE taken[t]]
  /\ pc' = [pc EXCEPT ![i] = "drain"]
  /\ clock' = [clock EXCEPT ![i] = 0]
  /\ UNCHANGED <<now, ms, known, cancelled, tickled, pipe, userVars, deadline,
                 reported>>

\* The loop over the events empties the pipe if it was reported; then the
\* thread leaves idle() to run what it scheduled.
LeaveIdle(i) ==
  /\ pc[i] = "drain"
  /\ pipe' = (pipe /\ ~reported[i])
  /\ reported' = [reported EXCEPT ![i] = FALSE]
  /\ pc' = [pc EXCEPT ![i] = "out"]
  /\ UNCHANGED <<now, timerVars, tickled, userVars, clock, deadline>>

-----------------------------------------------------------------------------
Tick ==
  /\ now < MaxTime
  /\ now' = now + 1
  /\ UNCHANGED <<timerVars, tickled, pipe, userVars, idleVars>>

IdleStep(i) ==
  GoIdle(i) \/ GetNextTimer(i) \/ EpollWait(i) \/ ReadClock(i) \/ ListExpired(i) \/ LeaveIdle(i)

Next ==
  \/ \E u \in Users :
       \/ NewTimer(u) \/ InsertTimer(u) \/ Notify(u)
       \/ \E t \in Timers : Cancel(u, t) \/ Refresh(u, t) \/ Reset(u, t)
  \/ \E i \in IdleThreads : IdleStep(i) \/ OtherEvent(i)
  \/ Tick

\* Time passes, threads go on, and a thread that left idle() comes back to it.
Fairness ==
  /\ WF_vars(Tick)
  /\ \A u \in Users : WF_vars(InsertTimer(u) \/ Notify(u))
  /\ \A i \in IdleThreads : WF_vars(IdleStep(i))

Spec == Init /\ [][Next]_vars
LiveSpec == Spec /\ Fairness

-----------------------------------------------------------------------------
(* Properties.                                                              *)

\* Every variable has a value of its C++ type.
TypeOK ==
  /\ now \in 0..MaxTime
  /\ \A k \in keys : k[1] \in Nat /\ k[2] \in Timers
  /\ ms \in [Timers -> Delays \cup {0}] /\ expiration \in [Timers -> Nat]
  /\ hasCb \subseteq Timers /\ known \subseteq Timers /\ cancelled \subseteq known
  /\ taken \in [Timers -> 0..2]
  /\ tickled \in BOOLEAN /\ pipe \in BOOLEAN
  /\ upc \in [Users -> {"free", "insert", "tickle"}]
  /\ making \in [Users -> Timers \cup {NoTimer}]
  /\ pc \in [IdleThreads -> {"out", "next", "wait", "clock", "list", "drain"}]
  /\ clock \in [IdleThreads -> 0..MaxTime] /\ deadline \in [IdleThreads -> Nat]
  /\ reported \in [IdleThreads -> BOOLEAN]

\* timers_ holds each timer that has a callback exactly once, at the place its
\* expiration_ says, and no other: cancel(), refresh(), reset() and
\* listExpiredCb() keep the order of the std::set they search in (timer.cc:25-98,
\* 187-231).
SetIsOrdered == keys = {KeyOf(t) : t \in known \cap hasCb}

\* The callback of a timer that does not recur is handed out at most once, not
\* at all if cancel() returned true, and until one of the two it is waiting:
\* cancel() and listExpiredCb() of any threads agree on who was first.
OneOutcome ==
  \A t \in known \ Recurring :
    taken[t] + Cardinality({t} \cap cancelled) + Cardinality({t} \cap hasCb) = 1

\* When all threads sleep and no notification is under way, one of them wakes
\* in time for the first timer (at once if that is late already), or before
\* MAX_TIMEOUT has passed, although notifications are left out while tickled_ is set
\* (timer.cc:113, 167-184, iomanager.cc:381-390).
SleepsInTime ==
  /\ keys # {} /\ ~pipe
  /\ \A i \in IdleThreads : pc[i] = "wait"
  /\ \A u \in Users : upc[u] # "tickle"
  => \E i \in IdleThreads :
       \/ deadline[i] <= now
       \/ deadline[i] <= SmallerOf(First(keys)[1], now + MaxTimeout)

\* A timer that is due does not stay so: its callback is handed out, unless it is
\* cancelled or moved first, whichever threads sleep and whoever was notified
\* (timer.cc:113-121, 187-231, iomanager.cc:381-403).
IsDue(t) == \E k \in keys : k[2] = t /\ k[1] <= now
DueIsTaken == \A t \in Timers : IsDue(t) ~> ~IsDue(t)

=============================================================================
