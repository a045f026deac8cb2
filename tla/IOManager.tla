------------------------------ MODULE IOManager ------------------------------
(***************************************************************************)
(* src/hiper/base/iomanager.{h,cc}: the scheduler whose idle threads sleep *)
(* in epoll_wait until a registered event, a timer or a tickle wakes them. *)
(* It is Scheduler with tickle(), stopping() and idle() overridden, so     *)
(* this module takes the steps of Scheduler that the subclass inherits and *)
(* replaces the others.                                                    *)
(*                                                                         *)
(* A task waits for one event of one fd (addEvent, as in do_io) or for one *)
(* timer (as in the sleep hooks); FdEvents and TimerManager model the fd   *)
(* contexts and the timers themselves.  Time is abstract: a timer may      *)
(* elapse at any moment, and epoll_wait, which is given 5 s at most, may   *)
(* return without an event at any moment.                                  *)
(***************************************************************************)
EXTENDS Scheduler

CONSTANT
  WaitKinds     \* what tasks wait for: "event", "timer" (bound)

ASSUME IOManagerAssumption == WaitKinds \subseteq {"event", "timer"}

VARIABLES
  pending,      \* pending_event_count_
  events,       \* tasks whose fd event is registered
  ready,        \* those epoll has to report; edge triggered, so reported once
  timers,       \* tasks with a timer in timers_
  elapsed,      \* those whose expiration time has come
  tickled,      \* whether the tickle pipe has bytes epoll has not reported
  got,          \* what each idle thread has to handle from its epoll_wait: tasks
                \* whose fd had an event, and Pipe
  due           \* tasks whose expired timer's callback it has to schedule

ioVars == <<pending, events, ready, timers, elapsed, tickled, got, due>>
allVars == <<vars, ioVars>>

Pipe == "tickle_fds_[0]"
Report == ready \cup (IF tickled THEN {Pipe} ELSE {})

IOInit ==
  /\ Init
  /\ pending = 0
  /\ events = {} /\ ready = {}
  /\ timers = {} /\ elapsed = {}
  /\ tickled = FALSE
  /\ got = [w \in Workers |-> {}]
  /\ due = [w \in Workers |-> {}]

Runs(w) == Run(w) /\ UNCHANGED ioVars

-----------------------------------------------------------------------------
(* A task registers what it waits for and yields with state_ still EXEC.    *)

ParkOn(w) ==
  /\ At(w, "exec")
  /\ UseYield(w)
  /\ armed' = armed \cup {Holding(w)}
  /\ Goto(w, "parking")

\* addEvent(fd, event) with no callback: this fiber is the one to schedule.
AddEvent(w) ==
  /\ "event" \in WaitKinds
  /\ ParkOn(w)
  /\ pending' = pending + 1
  /\ events' = events \cup {Holding(w)}
  /\ UNCHANGED <<queue, active, idle, state, on, submitted, ft, idleTerm, owesTickle,
                 clientVars, fault, ready, timers, elapsed, tickled, got, due>>

\* addTimer(): a timer inserted at the front also tickles.
AddTimer(w) ==
  /\ "timer" \in WaitKinds
  /\ ParkOn(w)
  /\ timers' = timers \cup {Holding(w)}
  /\ owesTickle' \in {owesTickle, owesTickle \cup {w}}
  /\ UNCHANGED <<queue, active, idle, state, on, submitted, ft, idleTerm, clientVars,
                 fault, pending, events, ready, elapsed, tickled, got, due>>

\* The kernel sees an edge on the fd; the clock passes a timer's expiration.
FdReady(t) ==
  /\ Running /\ t \in events \ ready
  /\ ready' = ready \cup {t}
  /\ UNCHANGED <<vars, pending, events, timers, elapsed, tickled, got, due>>

TimeElapses(t) ==
  /\ Running /\ t \in timers \ elapsed
  /\ elapsed' = elapsed \cup {t}
  /\ UNCHANGED <<vars, pending, events, ready, timers, tickled, got, due>>

-----------------------------------------------------------------------------
(* tickle(): nothing unless some thread is idle, else a byte in the pipe.   *)

IOTickle(thr) ==
  /\ Running /\ thr \in owesTickle
  /\ owesTickle' = owesTickle \ {thr}
  /\ tickled' = (tickled \/ idle > 0)
  /\ UNCHANGED <<queue, active, idle, taskVars, pc, ft, idleTerm, clientVars, fault,
                 pending, events, ready, timers, elapsed, got, due>>

-----------------------------------------------------------------------------
(* idle(): stopping(timeout) reads the timers, pending_event_count_ and the *)
(* scheduler's fields one after the other.                                  *)

IdleStep(w, from, to) ==
  /\ At(w, from)
  /\ Goto(w, to)
  /\ UNCHANGED <<active, idle, state, on, yields, submitted, ft, clientVars, fault>>

SeeTimers(w) ==
  /\ IdleStep(w, "idle", IF timers = {} THEN "pending?" ELSE "wait")
  /\ UNCHANGED <<queue, armed, idleTerm, owesTickle, ioVars>>

\* Mutant: stopping() without pending_event_count_.
SkipPending(w) ==
  /\ IdleStep(w, "pending?", "drained?")
  /\ UNCHANGED <<queue, armed, idleTerm, owesTickle, ioVars>>

SeePending(w) ==
  /\ IdleStep(w, "pending?", IF pending = 0 THEN "drained?" ELSE "wait")
  /\ UNCHANGED <<queue, armed, idleTerm, owesTickle, ioVars>>

SeeDrained(w) ==
  /\ IdleStep(w, "drained?", IF Drained THEN "idleRet" ELSE "wait")
  /\ idleTerm' = IF Drained THEN idleTerm \cup {w} ELSE idleTerm
  /\ UNCHANGED <<queue, armed, owesTickle, ioVars>>

\* Mutant: no MAX_TIMEOUT.
EpollWaitForever(w) ==
  /\ Report # {} \/ elapsed # {}
  /\ IdleStep(w, "wait", "expire")
  /\ got' = [got EXCEPT ![w] = Report]
  /\ ready' = {}
  /\ tickled' = FALSE
  /\ UNCHANGED <<queue, armed, idleTerm, owesTickle, pending, events, timers, elapsed, due>>

\* epoll_wait returns everything there is to report, or nothing after its
\* timeout.
EpollWait(w) ==
  /\ IdleStep(w, "wait", "expire")
  /\ got' = [got EXCEPT ![w] = Report]
  /\ ready' = {}
  /\ tickled' = FALSE
  /\ UNCHANGED <<queue, armed, idleTerm, owesTickle, pending, events, timers, elapsed, due>>

\* Mutant: the expired timers stay in timers_.
ListKeepingExpired(w) ==
  /\ IdleStep(w, "expire", IF elapsed = {} THEN "events" ELSE "push")
  /\ due' = [due EXCEPT ![w] = elapsed]
  /\ elapsed' = {}
  /\ UNCHANGED <<queue, armed, idleTerm, owesTickle, pending, events, ready, timers,
                 tickled, got>>

\* listExpiredCb() under the timers' lock, then schedule(begin, end) under
\* mutex_.
ListExpired(w) ==
  /\ IdleStep(w, "expire", IF elapsed = {} THEN "events" ELSE "push")
  /\ due' = [due EXCEPT ![w] = elapsed]
  /\ timers' = timers \ elapsed
  /\ elapsed' = {}
  /\ UNCHANGED <<queue, armed, idleTerm, owesTickle, pending, events, ready, tickled, got>>

ScheduleExpired(w) ==
  /\ IdleStep(w, "push", "events")
  /\ \E batch \in SetToSeqs(due[w]) :
       queue' = queue \o [i \in DOMAIN batch |->
                            [task |-> batch[i], kind |-> "wake", thread |-> AnyThread]]
  /\ owesTickle' = IF queue = <<>> THEN owesTickle \cup {w} ELSE owesTickle
  /\ armed' = armed \ due[w]
  /\ due' = [due EXCEPT ![w] = {}]
  /\ UNCHANGED <<idleTerm, pending, events, ready, timers, elapsed, tickled, got>>

\* Mutants: --pending_event_count_ for a skipped event too, and no test that
\* the event is still registered.
HandleEventCountSkipped(w) ==
  /\ IdleStep(w, "events", "events")
  /\ \E t \in got[w] \ {Pipe} :
       /\ got' = [got EXCEPT ![w] = @ \ {t}]
       /\ pending' = pending - 1
       /\ IF t \in events
          THEN /\ events' = events \ {t}
               /\ ready' = ready \ {t}
               /\ armed' = armed \ {t}
               /\ Schedule(w, t, "fiber", AnyThread)
          ELSE UNCHANGED <<events, ready, armed, queue, owesTickle>>
  /\ UNCHANGED <<idleTerm, timers, elapsed, tickled, due>>
HandleEventUnchecked(w) ==
  /\ IdleStep(w, "events", "events")
  /\ \E t \in got[w] \ {Pipe} :
       /\ got' = [got EXCEPT ![w] = @ \ {t}]
       /\ pending' = pending - 1
       /\ events' = events \ {t}
       /\ ready' = ready \ {t}
       /\ armed' = armed \ {t}
       /\ Schedule(w, t, "fiber", AnyThread)
  /\ UNCHANGED <<idleTerm, timers, elapsed, tickled, due>>

\* One round of the loop over the reported events: a context in which nothing
\* is registered any more is skipped, else triggerEvent() and --pending.
HandleEvent(w) ==
  /\ IdleStep(w, "events", "events")
  /\ \E t \in got[w] \ {Pipe} :
       /\ got' = [got EXCEPT ![w] = @ \ {t}]
       /\ IF t \in events
          THEN /\ events' = events \ {t}
               /\ ready' = ready \ {t}
               /\ armed' = armed \ {t}
               /\ pending' = pending - 1
               /\ Schedule(w, t, "fiber", AnyThread)
          ELSE UNCHANGED <<events, ready, armed, pending, queue, owesTickle>>
  /\ UNCHANGED <<idleTerm, timers, elapsed, tickled, due>>

\* The pipe is emptied, of bytes written since epoll_wait returned too.
DrainPipe(w) ==
  /\ IdleStep(w, "events", "events")
  /\ Pipe \in got[w]
  /\ got' = [got EXCEPT ![w] = @ \ {Pipe}]
  /\ tickled' = FALSE
  /\ UNCHANGED <<queue, armed, idleTerm, owesTickle, pending, events, ready, timers,
                 elapsed, due>>

YieldIdle(w) ==
  /\ got[w] = {}
  /\ IdleStep(w, "events", "idleRet")
  /\ UNCHANGED <<queue, armed, idleTerm, owesTickle, ioVars>>

IOIdle(w) ==
  \/ SeeTimers(w) \/ SeePending(w) \/ SeeDrained(w) \/ EpollWait(w)
  \/ ListExpired(w) \/ ScheduleExpired(w) \/ HandleEvent(w) \/ DrainPipe(w)
  \/ YieldIdle(w)

-----------------------------------------------------------------------------
(* The constructor starts the threads and the destructor stops them.        *)

IODrained == timers = {} /\ pending = 0 /\ Drained

Owner ==
  \/ Start
  \/ MainAt("started") /\ Submit
  \/ StopBegin(timers = {} /\ pending = 0 /\ queue = <<>> /\ active = 0)
  \/ StopTickle
  \/ StopRunCaller(IODrained)
  \/ StopJoin

IONext ==
  \/ \E w \in Workers : Runs(w) \/ AddEvent(w) \/ AddTimer(w) \/ IOIdle(w)
  \/ \E thr \in Threads : IOTickle(thr)
  \/ \E t \in Tasks : FdReady(t) \/ TimeElapses(t)
  \/ Owner /\ UNCHANGED ioVars
  \/ Over /\ UNCHANGED ioVars

IOSpec == IOInit /\ [][IONext]_allVars

\* As in Scheduler; moreover time passes, and the peers of a registered fd do
\* answer.
IOFairness ==
  /\ \A w \in Workers :
       WF_allVars(Runs(w) \/ AddEvent(w) \/ AddTimer(w) \/ IOIdle(w) \/ IOTickle(w))
  /\ WF_allVars(Owner /\ client \notin {"new", "started"} /\ UNCHANGED ioVars)
  /\ WF_allVars(IOTickle(Main))
  /\ \A t \in Tasks : WF_allVars(TimeElapses(t)) /\ WF_allVars(FdReady(t))

IOLiveSpec == IOSpec /\ IOFairness

-----------------------------------------------------------------------------
(* Properties.                                                              *)

IOTypeOK ==
  /\ TypeOK
  /\ pending \in Nat
  /\ events \subseteq Tasks /\ ready \subseteq events
  /\ timers \subseteq Tasks /\ elapsed \subseteq timers
  /\ tickled \in BOOLEAN
  /\ got \in [Workers -> SUBSET (Tasks \cup {Pipe})]
  /\ due \in [Workers -> SUBSET Tasks]

\* A fiber that is suspended for good is known to exactly one place that will
\* schedule it: its fd context, timers_, or the callbacks one idle thread took
\* out of timers_ (listExpiredCb, iomanager.cc:401-406).
WakeupHasOneSource ==
  \A t \in Stayers :
    /\ t \in armed <=> t \in events \cup timers \cup UNION {due[w] : w \in Workers}
    /\ t \notin events \cap timers
    /\ \A w \in Workers : t \notin due[w] \cap (events \cup timers)
    /\ \A v, w \in Workers : v # w => t \notin due[v] \cap due[w]

\* When stop() has returned, every submitted task has run to its end, those
\* that waited for an event or a timer included: the three reads of
\* stopping(timeout) are not atomic (iomanager.cc:347-351).
StopLosesNothing ==
  client = "stopped" => \A t \in submitted : state[t] \in Done

\* If a task is queued, some thread is awake, or is about to be woken, to run
\* it ("如果有新的调度任务，那应该立即退出idle状态", iomanager.h:104).
Asleep(w) == pc[w] \in {"off", "wait", "exited"}
QueuedTaskWakesIdle ==
  client = "started" /\ (\A w \in Workers : Asleep(w)) /\ owesTickle = {}
    => queue = <<>> \/ tickled \/ ready # {}

\* A queued task is eventually run, because epoll_wait times out even when the
\* tickle was lost (MAX_TIMEOUT, iomanager.cc:381).
IOQueuedTaskRuns ==
  \A t \in Tasks :
    (\E i \in DOMAIN queue : queue[i].task = t)
      ~> (\E w \in Workers : pc[w] = "exec" /\ Holding(w) = t)

\* stop() returns once every wait has ended: the tickles of stop() may reach
\* fewer threads than there are (scheduler.cc:133-139), and the others find the
\* scheduler drained when epoll_wait times out.
IOStopReturns == (client = "tickling") ~> (client = "stopped")

=============================================================================
