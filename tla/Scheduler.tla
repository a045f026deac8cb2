------------------------------ MODULE Scheduler ------------------------------
(***************************************************************************)
(* The coroutine scheduler of src/hiper/base/scheduler.{h,cc} with the     *)
(* part of src/hiper/base/fiber.cc it drives: worker threads that execute  *)
(* Scheduler::run(), the shared run queue fibers_, the counters of active  *)
(* and idle threads, and start()/stop() called by the owning thread.       *)
(*                                                                         *)
(* Grain of atomicity.  A critical section of mutex_ is one step; so is a  *)
(* read or write of an atomic counter, and a read or write of a fiber's    *)
(* state_ outside the mutex.  In particular a yield is two steps, the      *)
(* assignment to state_ and the later swapcontext, and what run() does     *)
(* after resume() returns is three.  A tickle() follows the unlock: a      *)
(* thread in owesTickle does that call before anything else.               *)
(*                                                                         *)
(* A task stands for a Fiber, or for a callback together with the Fiber    *)
(* (cb_fiber) that run() gives it; a suspended callback is rescheduled as  *)
(* that fiber.  A worker is named by its thread id.                        *)
(***************************************************************************)
EXTENDS Integers, Sequences, FiniteSets, SequencesExt

CONSTANTS
  Workers,      \* threads that execute run(), the caller's included
  Caller,       \* the worker that runs inside stop() (use_cur_thread), or NoThread
  NoThread,
  Main,         \* the thread that owns the scheduler: schedule(), start(), stop()
  Waker,        \* a thread outside the scheduler that schedules suspended fibers
  Tasks,
  Callbacks,    \* the tasks first scheduled as a std::function
  AnyThread,    \* thread_id = -1
  Pins,         \* thread ids that schedule() is called with (bound)
  Movers,       \* the tasks that call switchTo()
  YieldOps,     \* how task bodies give up the thread otherwise (bound)
  MaxYields,    \* how often each task gives it up (bound)
  NoEntry

ASSUME SchedulerAssumption ==
  /\ IsFiniteSet(Workers)
  /\ Workers # {}
  /\ NoThread \notin Workers
  /\ Caller \in Workers \cup {NoThread}
  /\ Main \notin Workers
  /\ Waker \notin Workers
  /\ AnyThread \notin Workers
  /\ Callbacks \subseteq Tasks
  /\ Pins \subseteq Workers \cup {AnyThread}
  /\ Movers \subseteq Tasks
  /\ YieldOps \subseteq {"plain", "ready"}
  /\ MaxYields \in [Tasks -> Nat]
  /\ NoEntry \notin [task: Tasks, kind: {"fiber", "cb", "wake"}, thread: Workers \cup {AnyThread}]

VARIABLES
  queue,        \* fibers_
  active,       \* active_thread_count_
  idle,         \* idle_thread_count_
  stopping,     \* stopping_
  autoStop,     \* auto_stop_
  state,        \* Fiber::state_ of each task
  on,           \* threads whose stack pointer is on the task's stack
  yields,       \* yields left to each task (bound)
  submitted,    \* tasks scheduled at least once
  armed,        \* suspended or suspending tasks that a later wakeup will schedule
  pc,           \* where each worker is in run()
  ft,           \* the queue entry each worker took
  idleTerm,     \* workers whose idle fiber is TERM
  owesTickle,   \* threads about to call tickle()
  client,       \* where Main is
  tickles,      \* tickle() calls left in stop()
  fault         \* first failed assertion or undefined behaviour and the task it
                \* is about: <<task, reason>>, or <<>>

taskVars   == <<state, on, yields, submitted, armed>>
clientVars == <<stopping, autoStop, client, tickles>>
vars == <<queue, active, idle, taskVars, pc, ft, idleTerm, owesTickle, clientVars, fault>>

Threads == Workers \cup {Main, Waker}
\* A "wake" entry is the callback of the sleep hooks: all it does is to schedule
\* the fiber.
Entry   == [task: Tasks, kind: {"fiber", "cb", "wake"}, thread: Workers \cup {AnyThread}]
States  == {"INIT", "HOLD", "EXEC", "TERM", "READY", "EXCEPT"}
Done    == {"TERM", "EXCEPT"}
Faults  == {<<>>} \cup (Tasks \X {"resume of an executing fiber", "resume of an unsaved context",
                                 "YieldToHold of a fiber not EXEC"})
Pool    == Workers \ {Caller}              \* the threads start() creates

\* Points of run() in program order; those of the idle fiber last, the first
\* and the last of them in Scheduler::idle(), the rest in IOManager::idle().
Busy     == {"dispatch", "exec", "parking", "switching", "swap", "waking", "ret"}
Occupied == Busy \cup {"after", "sethold"}
InIdle   == {"idle", "pending?", "drained?", "wait", "expire", "push", "events", "idleRet"}
PCs      == Occupied \cup InIdle \cup {"off", "pick", "nothing", "exited"}

Init ==
  /\ queue = <<>>
  /\ active = 0
  /\ idle = 0
  /\ stopping = TRUE
  /\ autoStop = FALSE
  /\ state = [t \in Tasks |-> "INIT"]
  /\ on = [t \in Tasks |-> {}]
  /\ yields = MaxYields
  /\ submitted = {}
  /\ armed = {}
  /\ pc = [w \in Workers |-> "off"]
  /\ ft = [w \in Workers |-> NoEntry]
  /\ idleTerm = {}
  /\ owesTickle = {}
  /\ client = "new"
  /\ tickles = 0
  /\ fault = <<>>

Running      == fault = <<>>               \* the process was not aborted
Goto(w, l)   == pc' = [pc EXCEPT ![w] = l]
At(w, l)     == Running /\ pc[w] = l /\ w \notin owesTickle
MainAt(l)    == Running /\ client = l /\ Main \notin owesTickle
Holding(w)   == ft[w].task
Release(w)   == ft' = [ft EXCEPT ![w] = NoEntry] /\ Goto(w, "pick")
FirstKind(t) == IF t \in Callbacks THEN "cb" ELSE "fiber"

-----------------------------------------------------------------------------
(* schedule(): push under mutex_; need_tickle is whether the queue was      *)
(* empty, and the tickle comes after the unlock.                            *)

Schedule(thr, t, kind, thread) ==
  /\ queue' = Append(queue, [task |-> t, kind |-> kind, thread |-> thread])
  /\ owesTickle' = IF queue = <<>> THEN owesTickle \cup {thr} ELSE owesTickle

\* Scheduler::stopping()
Drained == autoStop /\ stopping /\ queue = <<>> /\ active = 0

-----------------------------------------------------------------------------
(* run(), the picking loop.                                                 *)

Skipped(w, e)  == e.thread \notin {AnyThread, w}
\* Mutants: run() without the EXEC test; run() skipping every fiber not HOLD
\* or INIT.
EligibleWhileExecuting(w, e) == ~Skipped(w, e)
EligibleUnlessReady(w, e) ==
  /\ ~Skipped(w, e)
  /\ ~(e.kind = "fiber" /\ state[e.task] \in {"EXEC", "READY"})

Eligible(w, e) ==
  /\ ~Skipped(w, e)
  /\ ~(e.kind = "fiber" /\ state[e.task] = "EXEC")

\* The first eligible entry is taken; tickle_me if one before it is pinned
\* elsewhere or anything follows it.
PickTask(w) ==
  /\ At(w, "pick")
  /\ \E i \in DOMAIN queue :
       /\ Eligible(w, queue[i])
       /\ \A j \in 1..(i - 1) : ~Eligible(w, queue[j])
       /\ ft' = [ft EXCEPT ![w] = queue[i]]
       /\ queue' = RemoveAt(queue, i)
       /\ owesTickle' = IF i < Len(queue) \/ \E j \in 1..(i - 1) : Skipped(w, queue[j])
                        THEN owesTickle \cup {w} ELSE owesTickle
  /\ active' = active + 1
  /\ Goto(w, "dispatch")
  /\ UNCHANGED <<idle, taskVars, idleTerm, clientVars, fault>>

PickNothing(w) ==
  /\ At(w, "pick")
  /\ \A i \in DOMAIN queue : ~Eligible(w, queue[i])
  /\ owesTickle' = IF \E i \in DOMAIN queue : Skipped(w, queue[i])
                   THEN owesTickle \cup {w} ELSE owesTickle
  /\ Goto(w, "nothing")
  /\ UNCHANGED <<queue, active, idle, taskVars, ft, idleTerm, clientVars, fault>>

-----------------------------------------------------------------------------
(* run(), executing the entry: Fiber::resume() asserts state_ != EXEC and   *)
(* swaps to a context that must have been saved.                            *)

Resume(w, t) ==
  /\ state' = [state EXCEPT ![t] = "EXEC"]
  /\ on' = [on EXCEPT ![t] = @ \cup {w}]
  /\ fault' = CASE state[t] = "EXEC" -> <<t, "resume of an executing fiber">>
                [] state[t] # "EXEC" /\ on[t] # {} -> <<t, "resume of an unsaved context">>
                [] OTHER -> <<>>
  /\ Goto(w, "exec")

Dispatch(w) ==
  /\ At(w, "dispatch")
  /\ \/ ft[w].kind = "cb"
     \/ ft[w].kind = "fiber" /\ state[Holding(w)] \notin Done
  /\ Resume(w, Holding(w))
  /\ UNCHANGED <<queue, active, idle, yields, submitted, armed, ft, idleTerm,
                 owesTickle, clientVars>>

\* A finished fiber that was scheduled again: is_active, so only the count
\* is undone.
DropFinished(w) ==
  /\ At(w, "dispatch")
  /\ ft[w].kind = "fiber" /\ state[Holding(w)] \in Done
  /\ active' = active - 1
  /\ Release(w)
  /\ UNCHANGED <<queue, idle, taskVars, idleTerm, owesTickle, clientVars, fault>>

\* A callback that schedules its fiber, from its first to its last step.
RunWakeup(w) ==
  /\ At(w, "dispatch") /\ ft[w].kind = "wake"
  /\ Schedule(w, Holding(w), "fiber", AnyThread)
  /\ Goto(w, "waking")
  /\ UNCHANGED <<active, idle, taskVars, ft, idleTerm, clientVars, fault>>

EndWakeup(w) ==
  /\ At(w, "waking")
  /\ active' = active - 1
  /\ Release(w)
  /\ UNCHANGED <<queue, idle, taskVars, idleTerm, owesTickle, clientVars, fault>>

-----------------------------------------------------------------------------
(* Task bodies: what code on a fiber's stack does.                          *)

\* Fiber::MainFunc(): cb_ returns or throws.
Finish(w) ==
  /\ At(w, "exec")
  /\ \E s \in Done : state' = [state EXCEPT ![Holding(w)] = s]
  /\ Goto(w, "swap")
  /\ UNCHANGED <<queue, active, idle, on, yields, submitted, armed, ft, idleTerm,
                 owesTickle, clientVars, fault>>

UseYield(w) ==
  /\ yields[Holding(w)] > 0
  /\ yields' = [yields EXCEPT ![Holding(w)] = @ - 1]

YieldToReady(w) ==
  /\ At(w, "exec")
  /\ "ready" \in YieldOps
  /\ UseYield(w)
  /\ state' = [state EXCEPT ![Holding(w)] = "READY"]
  /\ Goto(w, "swap")
  /\ UNCHANGED <<queue, active, idle, on, submitted, armed, ft, idleTerm,
                 owesTickle, clientVars, fault>>

\* Mutant: the hooked calls use YieldToHold(), which marks the fiber HOLD
\* before it has left its stack.
ParkOnHold(w) ==
  /\ At(w, "exec")
  /\ "plain" \in YieldOps
  /\ UseYield(w)
  /\ armed' = armed \cup {Holding(w)}
  /\ state' = [state EXCEPT ![Holding(w)] = "HOLD"]
  /\ Goto(w, "parking")
  /\ UNCHANGED <<queue, active, idle, on, submitted, ft, idleTerm,
                 owesTickle, clientVars, fault>>

\* A suspension the way the hooked calls do it: register the wakeup, then
\* Fiber::yield(), which leaves state_ at EXEC.
Park(w) ==
  /\ At(w, "exec")
  /\ "plain" \in YieldOps
  /\ UseYield(w)
  /\ armed' = armed \cup {Holding(w)}
  /\ Goto(w, "parking")
  /\ UNCHANGED <<queue, active, idle, state, on, submitted, ft, idleTerm,
                 owesTickle, clientVars, fault>>

\* switchTo(thread): schedule this very fiber on the other thread ...
SwitchTo(w) ==
  /\ At(w, "exec")
  /\ Holding(w) \in Movers
  /\ UseYield(w)
  /\ \E thread \in Pins \ {AnyThread, w} : Schedule(w, Holding(w), "fiber", thread)
  /\ Goto(w, "switching")
  /\ UNCHANGED <<active, idle, state, on, submitted, armed, ft, idleTerm,
                 clientVars, fault>>

\* ... then YieldToHold(), which asserts EXEC and sets HOLD before it swaps.
YieldToHold(w) ==
  /\ At(w, "switching")
  /\ IF state[Holding(w)] = "EXEC"
     THEN state' = [state EXCEPT ![Holding(w)] = "HOLD"] /\ UNCHANGED fault
     ELSE fault' = <<Holding(w), "YieldToHold of a fiber not EXEC">> /\ UNCHANGED state
  /\ Goto(w, "swap")
  /\ UNCHANGED <<queue, active, idle, on, yields, submitted, armed, ft, idleTerm,
                 owesTickle, clientVars>>

\* A task schedules another one.
Spawn(w) ==
  /\ At(w, "exec")
  /\ \E t \in Tasks \ submitted, thread \in Pins :
       /\ submitted' = submitted \cup {t}
       /\ Schedule(w, t, FirstKind(t), thread)
  /\ UNCHANGED <<active, idle, state, on, yields, armed, pc, ft, idleTerm,
                 clientVars, fault>>

\* swapcontext out of the task: resume() returns in run().
SwapOut(w) ==
  /\ At(w, "swap") \/ At(w, "parking")
  /\ on' = [on EXCEPT ![Holding(w)] = @ \ {w}]
  /\ Goto(w, "ret")
  /\ UNCHANGED <<queue, active, idle, state, yields, submitted, armed, ft, idleTerm,
                 owesTickle, clientVars, fault>>

-----------------------------------------------------------------------------
(* run(), after resume() returned.                                          *)

\* Mutant: no --active_thread_count_ after resume().
ReturnKeepsCount(w) ==
  /\ At(w, "ret")
  /\ Goto(w, "after")
  /\ UNCHANGED <<queue, active, idle, taskVars, ft, idleTerm, owesTickle, clientVars, fault>>

Return(w) ==
  /\ At(w, "ret")
  /\ active' = active - 1
  /\ Goto(w, "after")
  /\ UNCHANGED <<queue, idle, taskVars, ft, idleTerm, owesTickle, clientVars, fault>>

\* Mutant: a fiber that is not finished goes back to the queue.
RescheduleUnfinished(w) ==
  /\ At(w, "after") /\ state[Holding(w)] \in {"READY", "EXEC"}
  /\ Schedule(w, Holding(w), "fiber", AnyThread)
  /\ Release(w)
  /\ UNCHANGED <<active, idle, taskVars, idleTerm, clientVars, fault>>

Reschedule(w) ==
  /\ At(w, "after") /\ state[Holding(w)] = "READY"
  /\ Schedule(w, Holding(w), "fiber", AnyThread)
  /\ Release(w)
  /\ UNCHANGED <<active, idle, taskVars, idleTerm, clientVars, fault>>

\* That run() then resets a finished cb_fiber for the next callback is left out:
\* nothing else refers to that fiber (OneTokenPerTask).
Retire(w) ==
  /\ At(w, "after") /\ state[Holding(w)] \in Done
  /\ Release(w)
  /\ UNCHANGED <<queue, active, idle, taskVars, idleTerm, owesTickle, clientVars, fault>>

\* Not finished: the check of state_ and the assignment of HOLD are two steps.
SeeUnfinished(w) ==
  /\ At(w, "after") /\ state[Holding(w)] \notin Done \cup {"READY"}
  /\ Goto(w, "sethold")
  /\ UNCHANGED <<queue, active, idle, taskVars, ft, idleTerm, owesTickle, clientVars, fault>>

SetHold(w) ==
  /\ At(w, "sethold")
  /\ state' = [state EXCEPT ![Holding(w)] = "HOLD"]
  /\ Release(w)
  /\ UNCHANGED <<queue, active, idle, on, yields, submitted, armed, idleTerm,
                 owesTickle, clientVars, fault>>

-----------------------------------------------------------------------------
(* run(), nothing to execute: the idle fiber, or the end of the thread.     *)

\* Mutants: no ++idle_thread_count_ before, or no -- after the idle fiber runs.
EnterIdleUncounted(w) ==
  /\ At(w, "nothing") /\ w \notin idleTerm
  /\ Goto(w, "idle")
  /\ UNCHANGED <<queue, active, idle, taskVars, ft, idleTerm, owesTickle, clientVars, fault>>
LeaveIdleKeepsCount(w) ==
  /\ At(w, "idleRet")
  /\ Goto(w, "pick")
  /\ UNCHANGED <<queue, active, idle, taskVars, ft, idleTerm, owesTickle, clientVars, fault>>

EnterIdle(w) ==
  /\ At(w, "nothing") /\ w \notin idleTerm
  /\ idle' = idle + 1
  /\ Goto(w, "idle")
  /\ UNCHANGED <<queue, active, taskVars, ft, idleTerm, owesTickle, clientVars, fault>>

Exit(w) ==
  /\ At(w, "nothing") /\ w \in idleTerm
  /\ Goto(w, "exited")
  /\ UNCHANGED <<queue, active, idle, taskVars, ft, idleTerm, owesTickle, clientVars, fault>>

LeaveIdle(w) ==
  /\ At(w, "idleRet")
  /\ idle' = idle - 1
  /\ Goto(w, "pick")
  /\ UNCHANGED <<queue, active, taskVars, ft, idleTerm, owesTickle, clientVars, fault>>

\* Scheduler::idle(): one round of while (!stopping()) YieldToHold().
Idle(w) ==
  /\ At(w, "idle")
  /\ idleTerm' = IF Drained THEN idleTerm \cup {w} ELSE idleTerm
  /\ Goto(w, "idleRet")
  /\ UNCHANGED <<queue, active, idle, taskVars, ft, owesTickle, clientVars, fault>>

\* Scheduler::tickle() only logs.
Tickle(thr) ==
  /\ Running /\ thr \in owesTickle
  /\ owesTickle' = owesTickle \ {thr}
  /\ UNCHANGED <<queue, active, idle, taskVars, pc, ft, idleTerm, clientVars, fault>>

-----------------------------------------------------------------------------
(* The owner, and a thread that wakes suspended fibers.                     *)

Start ==
  /\ MainAt("new")
  /\ stopping
  /\ stopping' = FALSE
  /\ pc' = [w \in Workers |-> IF w \in Pool THEN "pick" ELSE pc[w]]
  /\ client' = "started"
  /\ UNCHANGED <<queue, active, idle, taskVars, ft, idleTerm, owesTickle,
                 autoStop, tickles, fault>>

Submit ==
  /\ MainAt("new") \/ MainAt("started")
  /\ \E t \in Tasks \ submitted, thread \in Pins :
       /\ submitted' = submitted \cup {t}
       /\ Schedule(Main, t, FirstKind(t), thread)
  /\ UNCHANGED <<active, idle, state, on, yields, armed, pc, ft, idleTerm,
                 clientVars, fault>>

\* stop() up to its tickle() calls; quiet is what stopping() answers once
\* both flags are set.  Only stopping() reads the flags and it wants both,
\* so they are set in one step.
StopBegin(quiet) ==
  /\ MainAt("started")
  /\ autoStop' = TRUE
  /\ stopping' = TRUE
  /\ IF Pool = {} /\ quiet
     THEN client' = "stopped" /\ UNCHANGED tickles
     ELSE /\ client' = "tickling"
          /\ tickles' = Cardinality(Pool) + IF Caller = NoThread THEN 0 ELSE 1
  /\ UNCHANGED <<queue, active, idle, taskVars, pc, ft, idleTerm, owesTickle, fault>>

StopTickle ==
  /\ MainAt("tickling")
  /\ tickles > 0
  /\ tickles' = tickles - 1
  /\ owesTickle' = owesTickle \cup {Main}
  /\ UNCHANGED <<queue, active, idle, taskVars, pc, ft, idleTerm, stopping, autoStop,
                 client, fault>>

\* The caller's own worker runs inside stop(), unless nothing is left to do.
StopRunCaller(quiet) ==
  /\ MainAt("tickling")
  /\ tickles = 0
  /\ IF Caller # NoThread /\ ~quiet
     THEN client' = "caller" /\ Goto(Caller, "pick")
     ELSE client' = "join" /\ UNCHANGED pc
  /\ UNCHANGED <<queue, active, idle, taskVars, ft, idleTerm, owesTickle, stopping,
                 autoStop, tickles, fault>>

\* Mutant: stop() that returns without joining the threads.
StopWithoutJoin ==
  /\ \/ MainAt("caller") /\ pc[Caller] = "exited" /\ client' = "join"
     \/ MainAt("join") /\ client' = "stopped"
  /\ UNCHANGED <<queue, active, idle, taskVars, pc, ft, idleTerm, owesTickle, stopping,
                 autoStop, tickles, fault>>

StopJoin ==
  /\ \/ MainAt("caller") /\ pc[Caller] = "exited" /\ client' = "join"
     \/ MainAt("join") /\ (\A w \in Pool : pc[w] = "exited") /\ client' = "stopped"
  /\ UNCHANGED <<queue, active, idle, taskVars, pc, ft, idleTerm, owesTickle, stopping,
                 autoStop, tickles, fault>>

Wake(t) ==
  /\ Running /\ t \in armed /\ Waker \notin owesTickle
  /\ armed' = armed \ {t}
  /\ \E kind \in {"fiber", "wake"} : Schedule(Waker, t, kind, AnyThread)
  /\ UNCHANGED <<active, idle, state, on, yields, submitted, pc, ft, idleTerm,
                 clientVars, fault>>

-----------------------------------------------------------------------------
\* A worker's steps that are the same for the subclass IOManager.
Run(w) ==
  \/ PickTask(w) \/ PickNothing(w) \/ Dispatch(w) \/ DropFinished(w)
  \/ RunWakeup(w) \/ EndWakeup(w)
  \/ Finish(w) \/ YieldToReady(w) \/ SwitchTo(w) \/ YieldToHold(w)
  \/ Spawn(w) \/ SwapOut(w) \/ Return(w) \/ Reschedule(w) \/ Retire(w)
  \/ SeeUnfinished(w) \/ SetHold(w) \/ EnterIdle(w) \/ Exit(w) \/ LeaveIdle(w)

\* Everyone is done, or the process was aborted.
Over ==
  /\ Running => client = "stopped"
  /\ UNCHANGED vars

Next ==
  \/ \E w \in Workers : Run(w) \/ Park(w) \/ Idle(w)
  \/ \E thr \in Threads : Tickle(thr)
  \/ \E t \in Tasks : Wake(t)
  \/ Start
  \/ Submit
  \/ StopBegin(queue = <<>> /\ active = 0)
  \/ StopTickle
  \/ StopRunCaller(Drained)
  \/ StopJoin
  \/ Over

Spec == Init /\ [][Next]_vars

\* A thread inside run() or inside stop() is scheduled by the kernel again and
\* again, and no critical section of mutex_ is kept for ever.  Nothing is
\* assumed of when tasks are submitted, woken or stop() is called.
Fairness ==
  /\ \A w \in Workers : WF_vars(Run(w) \/ Park(w) \/ Idle(w) \/ Tickle(w))
  /\ WF_vars(StopTickle \/ StopRunCaller(Drained) \/ StopJoin \/ Tickle(Main))

LiveSpec == Spec /\ Fairness

-----------------------------------------------------------------------------
(* Properties.                                                              *)

\* Every variable holds a value of its C++ type, and a worker holds a queue
\* entry exactly from PickTask to Release (FiberAndThread ft in run()).
TypeOK ==
  /\ queue \in Seq(Entry)
  /\ active \in Nat /\ idle \in Nat
  /\ stopping \in BOOLEAN /\ autoStop \in BOOLEAN
  /\ state \in [Tasks -> States]
  /\ on \in [Tasks -> SUBSET Workers]
  /\ yields \in [Tasks -> Nat]
  /\ submitted \subseteq Tasks /\ armed \subseteq Tasks
  /\ pc \in [Workers -> PCs]
  /\ ft \in [Workers -> Entry \cup {NoEntry}]
  /\ \A w \in Workers : ft[w] # NoEntry <=> pc[w] \in Occupied
  /\ idleTerm \subseteq Workers
  /\ owesTickle \subseteq Threads
  /\ client \in {"new", "started", "tickling", "caller", "join", "stopped"}
  /\ tickles \in Nat
  /\ fault \in Faults

\* active_thread_count_, which stopping() trusts, counts exactly the threads
\* between the pick and the decrement that follows resume(); the increment is
\* made under mutex_ and the three decrements are not (scheduler.cc:214, 229,
\* 252, 268).
ActiveAccounting == active = Cardinality({w \in Workers : pc[w] \in Busy})

\* idle_thread_count_, which tickle() of the subclass trusts, counts exactly
\* the threads inside their idle fiber (scheduler.cc:275-277).
IdleAccounting == idle = Cardinality({w \in Workers : pc[w] \in InIdle})

\* Neither assertion fiber.cc:144 nor fiber.cc:212 fails for a task that does not
\* call switchTo(), and no thread swaps to a context of such a task that another
\* thread has not finished saving, whatever the tasks that do call it run into.
Stayers == Tasks \ Movers
NoFault == Running \/ fault[1] \notin Stayers

\* A stack has at most one thread on it, and a thread inside a task's body is
\* on that task's stack (swapcontext in fiber.cc:141-177).
StackIsPrivate(t) ==
  /\ Cardinality(on[t]) <= 1
  /\ \A w \in Workers :
       pc[w] \in {"exec", "parking", "switching", "swap"} /\ Holding(w) = t => on[t] = {w}
OneThreadPerStack == \A t \in Stayers : StackIsPrivate(t)

\* The same for the tasks that call switchTo() (scheduler.cc:314-327).
MovedStackIsPrivate == \A t \in Movers : StackIsPrivate(t)

\* A submitted, unfinished task has exactly one thing that will let it run on:
\* a queue entry, a registered wakeup, a thread that is about to run it or runs
\* it, or a thread about to reschedule it because it is READY.  A finished task
\* has none.  So no such task is lost or queued twice, although run()
\* handles its state after it gave up the thread (scheduler.cc:226-241).
CarriedBy(w, t) ==
  /\ pc[w] \in Occupied /\ Holding(w) = t
  /\ \/ pc[w] \in {"dispatch", "exec"}
     \/ pc[w] \in {"swap", "ret", "after"} /\ state[t] = "READY"
Tokens(t) ==
  Cardinality({i \in DOMAIN queue : queue[i].task = t})
    + Cardinality({w \in Workers : CarriedBy(w, t)})
    + (IF t \in armed THEN 1 ELSE 0)
OneTokenPerTask ==
  \A t \in Stayers :
    Tokens(t) = IF t \in submitted /\ state[t] \notin Done THEN 1 ELSE 0

\* When stop() has returned, every task that waits for no outside wakeup has
\* run to its end: stopping() and the order of stop() lose no work
\* (scheduler.cc:103-156, 294-298).
StoppedIsDrained ==
  client = "stopped" =>
    \A t \in submitted : state[t] \in Done \/ t \in armed

\* Seen from outside, the scheduler is a TaskPool: whatever the threads, the
\* queue, the wakeups that come before their task has left its stack and stop()
\* do, a task that does not call switchTo() is in one place at a time, goes from
\* one to the next as schedule() and the Fiber calls say, stays finished, and
\* nothing runs once stop() has returned (run() still writes state_ after
\* another thread may have gone on with the fiber, scheduler.cc:236-238).
Where(t) ==
  CASE t \notin submitted -> "new"
    [] t \in submitted /\ state[t] \in Done -> "done"
    [] OTHER ->
         IF \E w \in Workers : pc[w] = "exec" /\ Holding(w) = t THEN "running"
         ELSE IF t \in armed THEN "parked"
         ELSE IF Tokens(t) = 1 THEN "ready" ELSE "lost"
TP == INSTANCE TaskPool WITH Tasks <- Stayers,
                             where <- [t \in Stayers |-> Where(t)],
                             stopped <- client = "stopped"
ImplementsTaskPool == TP!Spec

\* After start() a queued task is eventually run by a thread, also when stop()
\* is called meanwhile (the loop of run(), scheduler.cc:168-283).
QueuedTaskRuns ==
  \A t \in Tasks :
    (client # "new" /\ \E i \in DOMAIN queue : queue[i].task = t)
      ~> (\E w \in Workers : pc[w] = "exec" /\ Holding(w) = t)

\* stop() returns: every thread sees that the scheduler is drained and leaves
\* run().
StopReturns == (client = "tickling") ~> (client = "stopped")

=============================================================================
