-------------------------------- MODULE HookIO --------------------------------
(***************************************************************************)
(* The hooked system calls of src/hiper/base/hook.cc over the contexts of  *)
(* fdmanager.cc: fibers that read, write, connect, sleep and close, the    *)
(* condition timers that end their waits, and the registrations and the    *)
(* epoll set of IOManager.                                                 *)
(*                                                                         *)
(* A fiber's step ends where another thread can see what it did.  The      *)
(* operations of IOManager are one step each, FdEvents has their inside;   *)
(* which thread a fiber or a callback runs on is Scheduler's business.     *)
(* Time is kept as what is left of each timer and how long each call has   *)
(* taken, up to MaxAge.                                                    *)
(***************************************************************************)
EXTENDS Integers

CONSTANTS
  Fibers, NoFiber,
  Fds,
  Timeouts,       \* SO_RCVTIMEO, SO_SNDTIMEO and sleeps in time units (bound)
  ConnectTimeout, \* s_connect_timeout, or Never
  Never,          \* (uint64_t)-1
  Uses,           \* what the fibers of a program call (bound)
  MaxCalls,       \* blocking calls and close() calls of a fiber (bound)
  MaxAge          \* how long calls are timed (bound)

ASSUME HookAssumption ==
  /\ NoFiber \notin Fibers /\ Fds \subseteq Nat
  /\ Never \notin Nat /\ MaxAge \in Nat /\ MaxCalls \in [Fibers -> Nat]
  /\ Timeouts \cup {ConnectTimeout} \subseteq 0..MaxAge \cup {Never}
  /\ Uses \subseteq SUBSET {"READ", "WRITE", "connect", "sleep", "close", "timeout",
                            "fcntl", "ioctl on", "ioctl off"}

VARIABLES
  use,          \* what the fibers of this program call; never changes
  kern,         \* what the kernel knows of each fd
  ctx,          \* FdManager::datas_, Absent for null
  reg,          \* FdContext: the fiber that waits for an event of an fd
  watched,      \* the fds in the epoll set
  reports,      \* <<fd, event>> an idle thread has got and not handled
  call,         \* where each fiber is, and in which call
  timers,       \* the timers of blocked calls
  cbs           \* their callbacks under way on some thread

vars == <<use, kern, ctx, reg, watched, reports, call, timers, cbs>>

Events == {"READ", "WRITE"}
\* A new FdCtx, and what FdMgr has for a number without one.
NewCtx == [user |-> FALSE, rcv |-> Never, snd |-> Never, there |-> TRUE]
Absent == [NewCtx EXCEPT !.there = FALSE]
Closed == [open |-> FALSE, ready |-> {}, nonblock |-> FALSE, conn |-> "none"]
NoFd == -1
Unregistered == [e \in Events |-> NoFiber]

NoCall == [pc |-> "user", op |-> "none", fd |-> NoFd, event |-> "READ", timeout |-> Never,
           n |-> 0, age |-> 0, cancelled |-> FALSE, woken |-> "no"]

Init ==
  /\ use \in Uses
  /\ kern = [fd \in Fds |-> Closed]
  /\ ctx = [fd \in Fds |-> Absent]
  /\ reg = [fd \in Fds |-> Unregistered]
  /\ watched = {} /\ reports = {} /\ timers = {} /\ cbs = {}
  /\ call = [f \in Fibers |-> NoCall]

At(f, l)      == call[f].pc = l
Goto(f, l)    == call' = [call EXCEPT ![f].pc = l]
\* The result is left out where it does not matter: what a call returns shows in
\* the step that it returns from.
Return(f)     == call' = [call EXCEPT ![f] = [NoCall EXCEPT !.n = call[f].n]]
InCall(f)     == call[f].pc \notin {"user", "closeDel", "closeFd"}
TimersOf(f)   == {t \in timers : t.f = f}
\* A timer of fiber f's n-th call; the callback knows the fd by its number only.
NewTimer(f, d) == [f |-> f, n |-> call[f].n, fd |-> call[f].fd, event |-> call[f].event,
                   left |-> d]

\* triggerEvent() of some events of an fd: whoever waits for them is scheduled.
Triggered(fd, events, why) ==
  [f \in Fibers |->
     IF \E e \in events : reg[fd][e] = f
     THEN [call[f] EXCEPT !.pc = "woken", !.woken = why] ELSE call[f]]
Remaining(fd, events) == [e \in Events |-> IF e \in events THEN NoFiber ELSE reg[fd][e]]
Unregister(fd, events) ==
  /\ reg' = [reg EXCEPT ![fd] = Remaining(fd, events)]
  /\ watched' = IF Remaining(fd, events) = Unregistered THEN watched \ {fd} ELSE watched

-----------------------------------------------------------------------------
(* Sockets and their contexts.                                              *)

\* FdMgr::get(fd, true)
WithCtx(fd) == [ctx EXCEPT ![fd] = IF @.there THEN @ ELSE NewCtx]
TimeoutOf(fd, e) == IF e = "READ" THEN ctx[fd].rcv ELSE ctx[fd].snd

\* socket(), or accept() that returns: FdMgr::get(fd, true) makes a context, and
\* FdCtx::init() makes the socket non-blocking.
Socket(f) ==
  /\ At(f, "user")
  /\ \E fd \in Fds :
       /\ ~kern[fd].open
       /\ kern' = [kern EXCEPT ![fd] = [Closed EXCEPT !.open = TRUE, !.nonblock = TRUE]]
       /\ ctx' = WithCtx(fd)
  /\ UNCHANGED <<use, reg, watched, reports, call, timers, cbs>>

\* setsockopt(SO_RCVTIMEO or SO_SNDTIMEO)
SetTimeout(f) ==
  /\ At(f, "user") /\ "timeout" \in use
  /\ \E fd \in Fds, v \in Timeouts :
       /\ ctx[fd].there
       /\ \/ "READ" \in use /\ ctx' = [ctx EXCEPT ![fd].rcv = v]
          \/ "WRITE" \in use /\ ctx' = [ctx EXCEPT ![fd].snd = v]
  /\ UNCHANGED <<use, kern, reg, watched, reports, call, timers, cbs>>

\* Mutant: fcntl() that gives the kernel the user's flag.
SetFlagsThrough(f) ==
  /\ At(f, "user") /\ "fcntl" \in use
  /\ \E fd \in Fds, mode \in BOOLEAN :
       /\ kern[fd].open
       /\ kern' = [kern EXCEPT ![fd].nonblock = mode]
       /\ ctx' = [ctx EXCEPT ![fd].user = ctx[fd].there /\ mode]
  /\ UNCHANGED <<use, reg, watched, reports, call, timers, cbs>>

\* fcntl(F_SETFL): the user's O_NONBLOCK is remembered; a managed socket keeps
\* its own.
SetFlags(f) ==
  /\ At(f, "user") /\ "fcntl" \in use
  /\ \E fd \in Fds, mode \in BOOLEAN :
       /\ kern[fd].open
       /\ kern' = [kern EXCEPT ![fd].nonblock = ctx[fd].there \/ mode]
       /\ ctx' = [ctx EXCEPT ![fd].user = ctx[fd].there /\ mode]
  /\ UNCHANGED <<use, reg, watched, reports, call, timers, cbs>>

\* ioctl(FIONBIO): remembered likewise, but passed on as it is.
Ioctl(f) ==
  /\ At(f, "user")
  /\ \E fd \in Fds, mode \in BOOLEAN :
       /\ (IF mode THEN "ioctl on" ELSE "ioctl off") \in use
       /\ kern[fd].open
       /\ kern' = [kern EXCEPT ![fd].nonblock = mode]
       /\ ctx' = [ctx EXCEPT ![fd].user = ctx[fd].there /\ mode]
  /\ UNCHANGED <<use, reg, watched, reports, call, timers, cbs>>

\* close(): cancelAll() wakes everyone who waits; then the context is deleted and
\* the fd closed.  Two fibers do not close the same fd.
CloseCancel(f) ==
  /\ At(f, "user") /\ "close" \in use /\ call[f].n < MaxCalls[f]
  /\ \E fd \in Fds :
       LET woken == Triggered(fd, IF fd \in watched THEN Events ELSE {}, "other")
       IN /\ ctx[fd].there
          /\ \A g \in Fibers : call[g].pc \in {"closeDel", "closeFd"} => call[g].fd # fd
          /\ Unregister(fd, IF fd \in watched THEN Events ELSE {})
          /\ call' = [woken EXCEPT ![f].pc = "closeDel", ![f].fd = fd,
                                    ![f].n = @ + 1]
  /\ UNCHANGED <<use, kern, ctx, reports, timers, cbs>>

CloseFd(f) ==
  /\ kern' = [kern EXCEPT ![call[f].fd] = Closed]
  /\ watched' = watched \ {call[f].fd}
  /\ UNCHANGED <<use, ctx, reg, reports, timers, cbs>>
ForgetFd(f) ==
  /\ ctx' = [ctx EXCEPT ![call[f].fd] = Absent]
  /\ UNCHANGED <<use, kern, reg, watched, reports, timers, cbs>>

\* Mutant: close_old() before the context is deleted.
CloseThenForget(f) ==
  \/ At(f, "closeDel") /\ CloseFd(f) /\ Goto(f, "closeFd")
  \/ At(f, "closeFd") /\ ForgetFd(f) /\ Return(f)

ForgetThenClose(f) ==
  \/ At(f, "closeDel") /\ ForgetFd(f) /\ Goto(f, "closeFd")
  \/ At(f, "closeFd") /\ CloseFd(f) /\ Return(f)

-----------------------------------------------------------------------------
(* Blocking calls.  Calls on an fd without a context, or whose user asked   *)
(* for non-blocking mode, go straight to the kernel and change nothing here.*)

Begin(f, op, fd, e, timeout, l) ==
  /\ At(f, "user") /\ call[f].n < MaxCalls[f]
  /\ call' = [call EXCEPT ![f] = [pc |-> l, op |-> op, fd |-> fd, event |-> e,
                                  timeout |-> timeout, n |-> call[f].n + 1, age |-> 0,
                                  cancelled |-> FALSE, woken |-> "no"]]

\* Two fibers do not wait for the same event of an fd, as addEvent() asserts.
Free(fd, e) == \A g \in Fibers : InCall(g) => <<call[g].fd, call[g].event>> # <<fd, e>>

\* do_io() up to the first system call.
BeginIO(f) ==
  /\ \E fd \in Fds, e \in Events \cap use :
       /\ ctx[fd].there /\ ~ctx[fd].user /\ Free(fd, e)
       /\ Begin(f, "io", fd, e, TimeoutOf(fd, e), "try")
  /\ UNCHANGED <<use, kern, ctx, reg, watched, reports, timers, cbs>>

\* The system call of do_io(); EINTR only repeats it.
Try(f) ==
  LET fd == call[f].fd
      e  == call[f].event
  IN
  /\ At(f, "try")
  /\ \/ ~kern[fd].open /\ Return(f) /\ UNCHANGED kern
     \/ /\ e \in kern[fd].ready
        /\ \E left \in {kern[fd].ready, kern[fd].ready \ {e}} :
             kern' = [kern EXCEPT ![fd].ready = left]
        /\ Return(f)
     \/ /\ kern[fd].open /\ e \notin kern[fd].ready
        /\ Goto(f, IF kern[fd].nonblock THEN "timer" ELSE "blocked")
        /\ UNCHANGED kern
  /\ UNCHANGED <<use, ctx, reg, watched, reports, timers, cbs>>

\* connect_with_timeout() up to EINPROGRESS.
BeginConnect(f) ==
  /\ "connect" \in use
  /\ \E fd \in Fds :
       /\ ctx[fd].there /\ ~ctx[fd].user /\ Free(fd, "WRITE")
       /\ kern[fd].open /\ kern[fd].nonblock /\ kern[fd].conn = "none"
       /\ kern' = [kern EXCEPT ![fd].conn = "progress", ![fd].ready = @ \ {"WRITE"}]
       /\ Begin(f, "connect", fd, "WRITE", ConnectTimeout, "timer")
  /\ UNCHANGED <<use, ctx, reg, watched, reports, timers, cbs>>

\* addConditionTimer()
AddTimer(f) ==
  /\ At(f, "timer")
  /\ timers' = IF call[f].timeout = Never THEN timers
               ELSE timers \cup {NewTimer(f, call[f].timeout)}
  /\ Goto(f, "add")
  /\ UNCHANGED <<use, kern, ctx, reg, watched, reports, cbs>>

\* addEvent().  epoll_ctl() fails on a closed fd, and on a registration left
\* from before the fd was closed, which it is told to modify.
AddEvent(f) ==
  LET fd == call[f].fd
      failed == ~kern[fd].open \/ (reg[fd] # Unregistered /\ fd \notin watched)
  IN
  /\ At(f, "add")
  /\ IF failed
     THEN /\ timers' = timers \ TimersOf(f)
          /\ IF call[f].op = "io" THEN Return(f) ELSE Goto(f, "check")
          /\ UNCHANGED <<use, reg, watched>>
     ELSE /\ reg' = [reg EXCEPT ![fd][call[f].event] = f]
          /\ watched' = watched \cup {fd}
          /\ Goto(f, "wait")
          /\ UNCHANGED timers
  /\ UNCHANGED <<use, kern, ctx, reports, cbs>>

\* Mutant: the timer is left alone.
KeepTimer(f) ==
  /\ At(f, "woken")
  /\ Goto(f, "back")
  /\ UNCHANGED <<use, kern, ctx, reg, watched, reports, timers, cbs>>

\* After yield(): timer->cancel(), too late for a callback already under way.
CancelTimer(f) ==
  /\ At(f, "woken")
  /\ timers' = timers \ TimersOf(f)
  /\ Goto(f, "back")
  /\ UNCHANGED <<use, kern, ctx, reg, watched, reports, cbs>>

\* Mutant: connect_with_timeout() that does not look at tinfo->cancelled.
SeeCancelledInIO(f) ==
  /\ At(f, "back")
  /\ IF call[f].cancelled /\ call[f].op = "io" THEN Return(f)
     ELSE Goto(f, IF call[f].op = "io" THEN "try" ELSE "check")
  /\ UNCHANGED <<use, kern, ctx, reg, watched, reports, timers, cbs>>

\* tinfo->cancelled: give up, or try again.
SeeCancelled(f) ==
  /\ At(f, "back")
  /\ IF call[f].cancelled THEN Return(f)
     ELSE Goto(f, IF call[f].op = "io" THEN "try" ELSE "check")
  /\ UNCHANGED <<use, kern, ctx, reg, watched, reports, timers, cbs>>

\* getsockopt(SO_ERROR), which is 0 as long as the connection is under way; so
\* connect() returns 0 unless the connection has failed or the fd is closed.
CheckConnect(f) ==
  /\ At(f, "check")
  /\ Return(f)
  /\ UNCHANGED <<use, kern, ctx, reg, watched, reports, timers, cbs>>

\* sleep(), usleep(), nanosleep(): a timer whose callback schedules the fiber.
BeginSleep(f) ==
  /\ "sleep" \in use
  /\ \E d \in Timeouts \ {Never} :
       /\ Begin(f, "sleep", NoFd, "READ", d, "asleep")
       /\ timers' = timers \cup {[f |-> f, n |-> call[f].n + 1, fd |-> NoFd, event |-> "READ",
                                  left |-> d]}
  /\ UNCHANGED <<use, kern, ctx, reg, watched, reports, cbs>>

-----------------------------------------------------------------------------
(* Timers and their callbacks.                                              *)

\* listExpiredCb() takes a due timer; a sleeper is scheduled at once.
Expire(t) ==
  /\ t.left = 0
  /\ timers' = timers \ {t}
  /\ IF At(t.f, "asleep")
     THEN Return(t.f) /\ UNCHANGED cbs
     ELSE cbs' = cbs \cup {[t EXCEPT !.left = "check"]} /\ UNCHANGED call
  /\ UNCHANGED <<use, kern, ctx, reg, watched, reports>>

Step(c, l) == cbs' = (cbs \ {c}) \cup {[c EXCEPT !.left = l]}
Drop(c)    == cbs' = cbs \ {c}
\* Whether the call still holds its tinfo.
Alive(c)   == call[c.f].n = c.n /\ InCall(c.f)

\* winfo.lock() and the test of cancelled.
CbCheck(c) ==
  /\ c.left = "check"
  /\ IF Alive(c) /\ ~call[c.f].cancelled THEN Step(c, "mark") ELSE Drop(c)
  /\ UNCHANGED <<use, kern, ctx, reg, watched, reports, call, timers>>

\* Mutant: one tinfo for all calls of a fiber.
CbMarkAny(c) ==
  /\ c.left = "mark"
  /\ Step(c, "cancel")
  /\ call' = [call EXCEPT ![c.f].cancelled = TRUE]
  /\ UNCHANGED <<use, kern, ctx, reg, watched, reports, timers>>

\* t->cancelled = ETIMEDOUT, which nobody sees once the call is over.
CbMark(c) ==
  /\ c.left = "mark"
  /\ Step(c, "cancel")
  /\ call' = IF Alive(c) THEN [call EXCEPT ![c.f].cancelled = TRUE] ELSE call
  /\ UNCHANGED <<use, kern, ctx, reg, watched, reports, timers>>

\* Mutant: the callback only sets the flag.
CbOnlyMarks(c) ==
  /\ c.left = "cancel"
  /\ Drop(c)
  /\ UNCHANGED <<use, kern, ctx, reg, watched, reports, call, timers>>

\* cancelEvent(fd, event): whoever waits there by now is woken, unless epoll
\* does not know the fd.
CbCancel(c) ==
  /\ c.left = "cancel"
  /\ Drop(c)
  /\ IF c.fd \in watched /\ reg[c.fd][c.event] # NoFiber
     THEN /\ Unregister(c.fd, {c.event})
          /\ call' = Triggered(c.fd, {c.event},
                       IF reg[c.fd][c.event] = c.f /\ Alive(c) THEN "timer" ELSE "other")
     ELSE /\ call' = IF Alive(c) /\ call[c.f].pc \in {"try", "timer", "add"}
                     THEN [call EXCEPT ![c.f].woken = "missed"] ELSE call
          /\ UNCHANGED <<reg, watched>>
  /\ UNCHANGED <<use, kern, ctx, reports, timers>>

\* Time goes by for the timers and for the calls.
Tick ==
  /\ timers' = {[t EXCEPT !.left = IF t.left = 0 THEN 0 ELSE t.left - 1] : t \in timers}
  /\ call' = [f \in Fibers |->
                IF InCall(f) /\ call[f].age < MaxAge THEN [call[f] EXCEPT !.age = @ + 1]
                ELSE call[f]]
  /\ UNCHANGED <<use, kern, ctx, reg, watched, reports, cbs>>

-----------------------------------------------------------------------------
(* The network, and the idle threads in epoll_wait().                       *)

Arrive(fd, e) ==
  /\ kern[fd].open /\ e \notin kern[fd].ready
  /\ e \in use \/ (e = "WRITE" /\ "connect" \in use)
  /\ \/ /\ kern[fd].conn # "progress"
        /\ kern' = [kern EXCEPT ![fd].ready = @ \cup {e}]
     \/ /\ kern[fd].conn = "progress" /\ e = "WRITE"
        /\ \E end \in {"up", "failed"} :
             kern' = [kern EXCEPT ![fd].ready = @ \cup {e}, ![fd].conn = end]
  /\ UNCHANGED <<use, ctx, reg, watched, reports, call, timers, cbs>>

Report(fd, e) ==
  /\ fd \in watched /\ reg[fd][e] # NoFiber /\ e \in kern[fd].ready
  /\ reports' = reports \cup {<<fd, e>>}
  /\ UNCHANGED <<use, kern, ctx, reg, watched, call, timers, cbs>>

\* A report may be older than the registration it finds.
Handle(fd, e) ==
  /\ <<fd, e>> \in reports
  /\ reports' = reports \ {<<fd, e>>}
  /\ IF fd \in watched /\ reg[fd][e] # NoFiber
     THEN /\ Unregister(fd, {e})
          /\ call' = Triggered(fd, {e}, IF e \in kern[fd].ready THEN "event" ELSE "other")
     ELSE UNCHANGED <<reg, watched, call>>
  /\ UNCHANGED <<use, kern, ctx, timers, cbs>>

-----------------------------------------------------------------------------
GoesOn(f) ==
  \/ ForgetThenClose(f) \/ Try(f) \/ AddTimer(f) \/ AddEvent(f)
  \/ CancelTimer(f) \/ SeeCancelled(f) \/ CheckConnect(f)
CbStep(c) == CbCheck(c) \/ CbMark(c) \/ CbCancel(c)

Next ==
  \/ \E f \in Fibers :
       \/ GoesOn(f) \/ Socket(f) \/ SetTimeout(f) \/ SetFlags(f) \/ Ioctl(f)
       \/ CloseCancel(f) \/ BeginIO(f) \/ BeginConnect(f) \/ BeginSleep(f)
  \/ \E t \in timers : Expire(t)
  \/ \E c \in cbs : CbStep(c)
  \/ \E fd \in Fds, e \in Events : Arrive(fd, e) \/ Report(fd, e) \/ Handle(fd, e)
  \/ Tick

\* Scheduled fibers and callbacks run, idle threads poll, time passes; users and
\* the network do what they like.
Fairness ==
  /\ \A f \in Fibers : WF_vars(GoesOn(f))
  /\ WF_vars(\E t \in timers : Expire(t)) /\ WF_vars(\E c \in cbs : CbStep(c))
  /\ \A fd \in Fds, e \in Events : WF_vars(Report(fd, e) \/ Handle(fd, e))
  /\ WF_vars(Tick)

Spec == Init /\ [][Next]_vars /\ Fairness

-----------------------------------------------------------------------------
(* Properties.                                                              *)

TypeOK ==
  /\ \A fd \in Fds :
       /\ kern[fd].ready \subseteq Events
       /\ kern[fd].conn \in {"none", "progress", "up", "failed"}
       /\ ctx[fd].rcv \in Timeouts \cup {Never} /\ ctx[fd].snd \in Timeouts \cup {Never}
  /\ reg \in [Fds -> [Events -> Fibers \cup {NoFiber}]]
  /\ watched \subseteq Fds /\ reports \subseteq Fds \X Events
  /\ \A t \in timers : t.left \in 0..MaxAge
  \* addEvent() finds no waiter, as it asserts, and a fiber has one timer at most
  /\ \A f \in Fibers : At(f, "add") => reg[call[f].fd][call[f].event] = NoFiber
  /\ \A t, u \in timers : t.f = u.f => t = u

\* A call reports ETIMEDOUT, or a sleep ends, only after the time it asked for,
\* counted from its beginning, whichever timer of whichever earlier call or
\* attempt fires late (hook.cc:146-184, 201-244, 289-318).
TimeIsKept ==
  [][\A f \in Fibers :
       ((At(f, "back") \/ At(f, "asleep")) /\ At(f, "user")')
         => call[f].age >= call[f].timeout]_call

\* A socket that is open and not being closed has a context, so that its calls
\* suspend the fiber and not the thread, although the kernel gives the number of
\* a closed fd to the next socket at once (hook.cc:247-259, 346-353, 417-432).
SocketsAreManaged ==
  \A fd \in Fds :
    kern[fd].open <=>
      \/ ctx[fd].there
      \/ \E f \in Fibers : At(f, "closeFd") /\ call[f].fd = fd

\* A hooked call on a managed socket never blocks its thread in the kernel, whatever
\* mode its user asks fcntl() for; ioctl(FIONBIO) with 0 does take the kernel's
\* O_NONBLOCK away (hook.cc:100-102, 443-548).
NeverBlocksThread ==
  [][\A f \in Fibers :
       (At(f, "try") /\ At(f, "blocked")')
         => "ioctl off" \in use \/ ~ctx[call[f].fd].there]_call

\* connect() says 0 before the connection is up only when somebody else ended
\* its wait (a close(), a stale report, the late timeout of another call on the
\* same fd number) or it could not wait at all; SO_ERROR does not tell these
\* apart (hook.cc:308-338).
ConnectIsTrue ==
  [][\A f \in Fibers :
       (At(f, "check") /\ At(f, "user")' /\ kern[call[f].fd].conn = "progress")
         => call[f].woken \notin {"event", "timer"}]_call

\* A call with a timeout comes back, though event, timeout, close and the next
\* user of the fd number race, with two exceptions.  It went back to wait while
\* its fd was being closed: then nothing can wake it.  Or its timeout was over
\* before it had registered: the callback found nothing to cancel
\* (hook.cc:146-184, 417-432).
Stranded(f)  == At(f, "wait") /\ call[f].fd \notin watched
Overtaken(f) == At(f, "wait") /\ call[f].woken = "missed"
TimedCallReturns ==
  \A f \in Fibers :
    (InCall(f) /\ call[f].timeout # Never) ~> (~InCall(f) \/ Stranded(f) \/ Overtaken(f))

\* What do_io() is there for (hook.cc:100-102): the timeout ends the wait.
TimeoutEndsWait ==
  \A f \in Fibers :
    (At(f, "wait") /\ call[f].timeout # Never) ~> (~At(f, "wait") \/ Stranded(f))

=============================================================================
