---------------------------- MODULE HookIOProofs ----------------------------
(***************************************************************************)
(* The safety of the hooked calls: that their timeouts are kept, that      *)
(* connect() is true, that sockets stay managed and never block a thread,  *)
(* for any fibers, fds and timeouts, however calls, events, callbacks and  *)
(* close() interleave.                                                     *)
(***************************************************************************)
EXTENDS HookIO, TLAPS

PCs    == {"user", "closeDel", "closeFd", "try", "timer", "add", "wait", "woken", "back",
           "check", "blocked", "asleep"}
Times  == Timeouts \cup {ConnectTimeout, Never}
Kerns  == [open : BOOLEAN, ready : SUBSET Events, nonblock : BOOLEAN,
           conn : {"none", "progress", "up", "failed"}]
Ctxs   == [user : BOOLEAN, rcv : Timeouts \cup {Never}, snd : Timeouts \cup {Never},
           there : BOOLEAN]
Calls  == [pc : PCs, op : {"none", "io", "connect", "sleep"}, fd : Fds \cup {NoFd},
           event : Events, timeout : Times, n : Nat, age : 0..MaxAge,
           cancelled : BOOLEAN, woken : {"no", "event", "timer", "other", "missed"}]
TimersAt(lefts) == [f : Fibers, n : Nat, fd : Fds \cup {NoFd}, event : Events, left : lefts]

Types ==
  /\ kern \in [Fds -> Kerns] /\ ctx \in [Fds -> Ctxs] /\ call \in [Fibers -> Calls]
  /\ reg \in [Fds -> [Events -> Fibers \cup {NoFiber}]]
  /\ watched \subseteq Fds /\ reports \subseteq Fds \X Events
  /\ timers \subseteq TimersAt(0..MaxAge) /\ cbs \subseteq TimersAt({"check", "mark", "cancel"})

-----------------------------------------------------------------------------
(* Sockets and close().                                                     *)

Closing(f) == call[f].pc \in {"closeDel", "closeFd"}

Sockets ==
  /\ \A f \in Fibers :
       Closing(f) => /\ call[f].fd \in Fds
                     /\ ctx[call[f].fd].there <=> At(f, "closeDel")
  /\ \A f, g \in Fibers : Closing(f) /\ Closing(g) /\ call[f].fd = call[g].fd => f = g
  /\ SocketsAreManaged

NonBlocking ==
  \A fd \in Fds : kern[fd].open /\ ctx[fd].there => kern[fd].nonblock \/ "ioctl off" \in use

-----------------------------------------------------------------------------
(* Who waits, and for what.                                                 *)

OfCall(f) ==
  /\ InCall(f) /\ ~At(f, "asleep") => call[f].fd \in Fds /\ call[f].op \in {"io", "connect"}
  /\ At(f, "asleep") => call[f].fd = NoFd /\ call[f].op = "sleep"
  /\ At(f, "check") => call[f].op = "connect"
  /\ At(f, "try") => call[f].op = "io"
  /\ call[f].op = "connect" => call[f].event = "WRITE"

\* No two calls are for one event of an fd, and who is registered waits for it.
Waiters ==
  /\ \A f \in Fibers : OfCall(f)
  /\ \A f, g \in Fibers :
       InCall(f) /\ InCall(g) /\ call[f].fd \in Fds
       /\ call[f].fd = call[g].fd /\ call[f].event = call[g].event => f = g
  /\ \A fd \in Fds, e \in Events :
       reg[fd][e] # NoFiber => /\ At(reg[fd][e], "wait")
                               /\ call[reg[fd][e]].fd = fd /\ call[reg[fd][e]].event = e

-----------------------------------------------------------------------------
(* Timers: a timer, and then its callback, is due when the call it belongs  *)
(* to has lasted its timeout; calls are told apart by their number.         *)

Due(f) == call[f].timeout # Never /\ call[f].age >= call[f].timeout

TimersDue ==
  /\ \A t \in timers :
       /\ call[t.f].pc \in {"add", "wait", "woken", "asleep"} /\ call[t.f].n = t.n
       /\ call[t.f].timeout # Never /\ t.left + call[t.f].age >= call[t.f].timeout
  /\ \A t, u \in timers : t.f = u.f => t = u
CallbacksDue ==
  \A c \in cbs : /\ c.n <= call[c.f].n
                 /\ Alive(c) => Due(c.f) /\ (c.left = "cancel" => call[c.f].cancelled)
\* Who was cancelled, or woken by its timer, was so in time.
CancelledDue ==
  \A f \in Fibers :
    InCall(f) => /\ call[f].cancelled => Due(f)
                 /\ call[f].woken = "timer" => call[f].cancelled /\ ~At(f, "check")

-----------------------------------------------------------------------------
(* connect(): a wait that an event ended ended after the connection's.      *)

Connects ==
  /\ \A fd \in Fds : kern[fd].conn = "progress" => "WRITE" \notin kern[fd].ready
  /\ \A f \in Fibers :
       InCall(f) /\ call[f].op = "connect" =>
         /\ call[f].pc \in {"timer", "add", "wait"} => call[f].woken \in {"no", "missed"}
         /\ call[f].woken = "event" => kern[call[f].fd].conn # "progress"

IInv ==
  /\ Types /\ Sockets /\ NonBlocking /\ Waiters
  /\ TimersDue /\ CallbacksDue /\ CancelledDue /\ Connects

LEMMA TimeFacts ==
  /\ \A t \in Times : t # Never => t \in 0..MaxAge
  /\ Never \in Times /\ NoFd \notin Fds /\ MaxAge \in Nat /\ Never \notin 0..MaxAge
  /\ NoFiber \notin Fibers
  <1>1. \A t \in Times : t # Never => t \in 0..MaxAge
    BY HookAssumption DEF Times
  <1>2. NoFd \notin Nat
    BY DEF NoFd
  <1>3. Never \in Times
    BY DEF Times
  <1>4. /\ NoFiber \notin Fibers /\ Fds \subseteq Nat
        /\ Never \notin Nat /\ MaxAge \in Nat
    BY HookAssumption
  <1>5. NoFd \notin Fds
    BY <1>2, <1>4
  <1>6. Never \notin 0..MaxAge
    BY <1>4
  <1> QED
    BY <1>1, <1>3, <1>4, <1>5, <1>6

LEMMA NoCallType == NoCall \in Calls
  BY TimeFacts DEF Calls, NoCall, PCs, Events

LEMMA InitHolds == Init => IInv
  <1> SUFFICES ASSUME Init PROVE IInv
    OBVIOUS
  <1>1. Types
    <2>2. Closed \in Kerns /\ Absent \in Ctxs
      BY DEF Closed, Absent, NewCtx, Kerns, Ctxs
    <2>3. Unregistered \in [Events -> Fibers \cup {NoFiber}]
      BY DEF Unregistered
    <2> QED
      BY NoCallType, <2>2, <2>3 DEF Init, Types
  <1>2. Sockets /\ NonBlocking
    BY DEF Init, Sockets, NonBlocking, SocketsAreManaged, Closing, At, Closed, Absent, NewCtx, NoCall
  <1>3. Waiters
    BY DEF Init, Waiters, OfCall, InCall, At, NoCall, Unregistered
  <1>4. TimersDue /\ CallbacksDue /\ CancelledDue /\ Connects
    BY DEF Init, TimersDue, CallbacksDue, CancelledDue, Connects, InCall, Closed, NoCall
  <1> QED
    BY <1>1, <1>2, <1>3, <1>4 DEF IInv

-----------------------------------------------------------------------------
(* Steps that change where fibers are.                                      *)

\* Records of calls, contexts and sockets with another component.
LEMMA Placed == ASSUME NEW c \in Calls, NEW l \in PCs PROVE [c EXCEPT !.pc = l] \in Calls
  BY DEF Calls

LEMMA Aged ==
  ASSUME NEW c \in Calls, NEW a \in 0..MaxAge PROVE [c EXCEPT !.age = a] \in Calls
  BY DEF Calls

LEMMA Moded ==
  ASSUME NEW x \in Ctxs, NEW mode \in BOOLEAN
  PROVE  [x EXCEPT !.user = mode] \in Ctxs /\ [x EXCEPT !.user = mode].there = x.there
  BY DEF Ctxs

LEMMA Readied ==
  ASSUME NEW k \in Kerns, NEW e \in Events, NEW end \in {"none", "progress", "up", "failed"}
  PROVE  [k EXCEPT !.ready = @ \cup {e}] \in Kerns
         /\ [k EXCEPT !.ready = @ \cup {e}, !.conn = end] \in Kerns
  BY DEF Kerns

LEMMA GotoFacts ==
  ASSUME Types, NEW f \in Fibers, NEW l \in PCs, Goto(f, l)
  PROVE  /\ call' \in [Fibers -> Calls]
         /\ \A g \in Fibers \ {f} : call'[g] = call[g]
         /\ call'[f] = [call[f] EXCEPT !.pc = l]
  <1>1. [call[f] EXCEPT !.pc = l] \in Calls
    BY Placed DEF Types
  <1> QED
    BY <1>1 DEF Types, Goto

LEMMA ReturnFacts ==
  ASSUME Types, NEW f \in Fibers, Return(f)
  PROVE  /\ call' \in [Fibers -> Calls]
         /\ \A g \in Fibers \ {f} : call'[g] = call[g]
         /\ call'[f] = [NoCall EXCEPT !.n = call[f].n]
  <1>1. [NoCall EXCEPT !.n = call[f].n] \in Calls
    BY NoCallType DEF Types, Calls
  <1> QED
    BY <1>1 DEF Types, Return

\* Of a call that goes on, a step keeps what it was called with and its clock.
SameCall(g) ==
  /\ call'[g].op = call[g].op /\ call'[g].fd = call[g].fd /\ call'[g].event = call[g].event
  /\ call'[g].timeout = call[g].timeout /\ call'[g].n = call[g].n
  /\ call'[g].age = call[g].age /\ call'[g].cancelled = call[g].cancelled

\* What is due stays due in a step that begins no call and no timer.
LEMMA DueFrame ==
  ASSUME IInv, timers' \subseteq timers, cbs' \subseteq cbs, call' \in [Fibers -> Calls],
         \A g \in Fibers : /\ InCall(g)' => InCall(g) /\ SameCall(g)
                           /\ call[g].n <= call'[g].n,
         \A t \in timers' : InCall(t.f)' /\ call'[t.f].pc \in {"add", "wait", "woken", "asleep"},
         \A g \in Fibers : InCall(g)' /\ call'[g].woken = "timer" =>
                             call'[g].cancelled /\ ~At(g, "check")'
  PROVE  TimersDue' /\ CallbacksDue' /\ CancelledDue'
  <1> USE DEF IInv
  <1>1. \A t \in timers \cup cbs : t.f \in Fibers /\ t.n \in Nat
    BY DEF Types, TimersAt
  <1>2. TimersDue'
    BY <1>1 DEF TimersDue, SameCall
  <1>3. \A g \in Fibers : InCall(g)' => Due(g)' = Due(g)
    BY DEF Due, SameCall
  <1>4. CancelledDue'
    BY <1>3 DEF CancelledDue, SameCall
  <1>5. CallbacksDue'
    <2> SUFFICES ASSUME NEW c \in cbs'
                 PROVE  /\ c.n <= call'[c.f].n
                        /\ Alive(c)' => Due(c.f)' /\ (c.left = "cancel" => call'[c.f].cancelled)
      BY DEF CallbacksDue
    <2>1. c \in cbs /\ c.f \in Fibers /\ c.n \in Nat
      BY <1>1
    <2>2. call[c.f].n \in Nat /\ call'[c.f].n \in Nat
      BY <2>1 DEF Types, Calls
    <2>3. c.n <= call'[c.f].n
      BY <2>1, <2>2 DEF CallbacksDue
    <2>4. Alive(c)' => Alive(c)
      BY <2>1 DEF Alive, SameCall
    <2> QED
      BY <1>3, <2>1, <2>3, <2>4 DEF CallbacksDue, SameCall, Alive
  <1> QED
    BY <1>2, <1>4, <1>5

\* Two calls, and the waiters, stay apart in a step that begins no call.
LEMMA WaitersFrame ==
  ASSUME IInv, \A g \in Fibers : /\ InCall(g)' => InCall(g) /\ SameCall(g)
                                 /\ OfCall(g)',
         \A fd \in Fds, e \in Events :
           reg'[fd][e] # NoFiber => call'[reg'[fd][e]].pc = "wait" /\ reg'[fd][e] \in Fibers
              /\ (reg'[fd][e] = reg[fd][e]
                  \/ (call'[reg'[fd][e]].fd = fd /\ call'[reg'[fd][e]].event = e))
  PROVE  Waiters'
  <1> USE DEF IInv
  <1>1. \A f, g \in Fibers :
          InCall(f)' /\ InCall(g)' /\ call'[f].fd \in Fds
          /\ call'[f].fd = call'[g].fd /\ call'[f].event = call'[g].event => f = g
    BY DEF Waiters, SameCall
  <1>2. \A fd \in Fds, e \in Events :
          reg'[fd][e] # NoFiber =>
            call'[reg'[fd][e]].fd = fd /\ call'[reg'[fd][e]].event = e
    <2> SUFFICES ASSUME NEW fd \in Fds, NEW e \in Events, reg'[fd][e] # NoFiber
                 PROVE  call'[reg'[fd][e]].fd = fd /\ call'[reg'[fd][e]].event = e
      OBVIOUS
    <2> PICK g \in Fibers : g = reg'[fd][e]
      OBVIOUS
    <2>1. InCall(g)'
      BY DEF InCall
    <2>2. CASE g = reg[fd][e]
      <3>1. call[g].fd = fd /\ call[g].event = e
        BY <2>2 DEF Waiters
      <3> QED
        BY <2>1, <3>1 DEF SameCall
    <2> QED
      BY <2>2
  <1>3. \A f \in Fibers : OfCall(f)'
    OBVIOUS
  <1>4. \A fd \in Fds, e \in Events : reg'[fd][e] # NoFiber => call'[reg'[fd][e]].pc = "wait"
    OBVIOUS
  <1> QED
    BY <1>1, <1>2, <1>3, <1>4 DEF Waiters, At

\* Sockets stay managed in a step that neither opens nor closes one.
LEMMA SocketsFrame ==
  ASSUME IInv,
         \A fd \in Fds : kern'[fd].open = kern[fd].open /\ ctx'[fd].there = ctx[fd].there,
         \A g \in Fibers : /\ Closing(g)' <=> Closing(g)
                           /\ Closing(g) => /\ call'[g].pc = call[g].pc
                                            /\ call'[g].fd = call[g].fd
  PROVE  Sockets'
  <1>1. SocketsAreManaged'
    BY DEF IInv, Sockets, SocketsAreManaged, Closing, At
  <1> QED
    BY <1>1 DEF IInv, Sockets, Closing, At

-----------------------------------------------------------------------------
(* The users' calls on sockets: contexts and flags.                         *)

LEMMA SocketSteps ==
  ASSUME IInv, NEW f \in Fibers, Socket(f) \/ SetTimeout(f) \/ SetFlags(f) \/ Ioctl(f)
  PROVE  IInv'
  <1> USE DEF IInv
  <1>1. UNCHANGED <<use, reg, watched, reports, call, timers, cbs>>
    BY DEF Socket, SetTimeout, SetFlags, Ioctl
  <1>2. \A g \in Fibers : /\ InCall(g)' = InCall(g) /\ Due(g)' = Due(g) /\ OfCall(g)' = OfCall(g)
                          /\ Closing(g)' = Closing(g) /\ \A l : At(g, l)' = At(g, l)
    BY <1>1 DEF InCall, Due, OfCall, Closing, At
  <1>3. \A c \in cbs : Alive(c)' = Alive(c)
    BY <1>1 DEF Alive, InCall
  <1>4. Waiters' /\ TimersDue' /\ CallbacksDue' /\ CancelledDue'
    <2>1. Waiters'
      BY <1>1, <1>2 DEF Waiters, At
    <2>2. TimersDue'
      BY <1>1 DEF TimersDue
    <2>3. CallbacksDue'
      BY <1>1, <1>3 DEF CallbacksDue, Types, TimersAt, Due
    <2>4. CancelledDue'
      BY <1>1, <1>2 DEF CancelledDue, At
    <2> QED
      BY <2>1, <2>2, <2>3, <2>4
  <1>5. ASSUME \A fd \in Fds : kern'[fd].open = kern[fd].open /\ ctx'[fd].there = ctx[fd].there
        PROVE  Sockets'
    BY <1>1, <1>2, <1>5 DEF Sockets, SocketsAreManaged, At
  <1>6. ASSUME \A fd \in Fds : kern'[fd].conn = kern[fd].conn /\ kern'[fd].ready = kern[fd].ready
        PROVE  Connects'
    BY <1>1, <1>2, <1>6 DEF Connects, Waiters, OfCall, At, InCall
  <1>7. CASE Socket(f)
    <2>1. PICK fd \in Fds :
            /\ ~kern[fd].open
            /\ kern' = [kern EXCEPT ![fd] = [Closed EXCEPT !.open = TRUE, !.nonblock = TRUE]]
            /\ ctx' = WithCtx(fd)
      BY <1>7 DEF Socket
    <2>2. \A d \in Fds : d # fd => kern'[d] = kern[d] /\ ctx'[d] = ctx[d]
      BY <2>1 DEF Types, WithCtx
    <2>3. kern'[fd] = [open |-> TRUE, ready |-> {}, nonblock |-> TRUE, conn |-> "none"]
      BY <2>1 DEF Types, Closed
    <2>4. ctx'[fd].there /\ ctx' \in [Fds -> Ctxs]
      BY <2>1 DEF Types, WithCtx, NewCtx, Ctxs
    <2>5. \A g \in Fibers : Closing(g) => call[g].fd # fd
      BY <2>1 DEF Sockets, SocketsAreManaged, Closing, At
    <2>6. Types'
      BY <1>1, <2>1, <2>4 DEF Types, Kerns, Closed
    <2>7. Sockets'
      <3>1. SocketsAreManaged'
        BY <1>1, <1>2, <2>2, <2>3, <2>4 DEF Sockets, SocketsAreManaged, At
      <3> QED
        BY <1>1, <1>2, <2>2, <2>5, <3>1 DEF Sockets, At
    <2>8. NonBlocking'
      <3>1. kern'[fd].nonblock
        BY <2>3
      <3> QED
        BY <1>1, <2>2, <3>1 DEF NonBlocking
    <2>9. Connects'
      <3>1. \A d \in Fds : kern'[d].conn = "progress" =>
              d # fd /\ kern[d].conn = "progress" /\ kern'[d] = kern[d]
        BY <2>2, <2>3
      <3> QED
        BY <1>1, <1>2, <3>1 DEF Connects, At, Waiters, OfCall, InCall
    <2> QED
      BY <1>4, <2>6, <2>7, <2>8, <2>9
  <1>8. CASE SetTimeout(f)
    <2>1. UNCHANGED kern
      BY <1>8 DEF SetTimeout
    <2>2. PICK fd \in Fds, v \in Timeouts :
            ctx' = [ctx EXCEPT ![fd].rcv = v] \/ ctx' = [ctx EXCEPT ![fd].snd = v]
      BY <1>8 DEF SetTimeout
    <2>3. ctx' \in [Fds -> Ctxs] /\ \A d \in Fds : ctx'[d].there = ctx[d].there
      <3>1. CASE ctx' = [ctx EXCEPT ![fd].rcv = v]
        BY <3>1 DEF Types, Ctxs
      <3>2. CASE ctx' = [ctx EXCEPT ![fd].snd = v]
        BY <3>2 DEF Types, Ctxs
      <3> QED
        BY <2>2, <3>1, <3>2
    <2> QED
      BY <1>1, <1>4, <1>5, <1>6, <2>1, <2>3 DEF Types, NonBlocking
  <1>9. CASE SetFlags(f) \/ Ioctl(f)
    <2>1. PICK fd \in Fds, mode \in BOOLEAN, block \in BOOLEAN :
            /\ kern' = [kern EXCEPT ![fd].nonblock = block]
            /\ ctx' = [ctx EXCEPT ![fd].user = ctx[fd].there /\ mode]
            /\ ctx[fd].there => block \/ "ioctl off" \in use
      BY <1>9 DEF SetFlags, Ioctl, Types, Ctxs
    <2>2. kern' \in [Fds -> Kerns] /\ ctx' \in [Fds -> Ctxs]
      <3>1. kern' \in [Fds -> Kerns]
        BY <2>1 DEF Types, Kerns
      <3>2. (ctx[fd].there /\ mode) \in BOOLEAN /\ ctx[fd] \in Ctxs
        BY DEF Types, Ctxs
      <3>3. [ctx[fd] EXCEPT !.user = ctx[fd].there /\ mode] \in Ctxs
        BY <3>2, Moded
      <3> QED
        BY <2>1, <3>1, <3>3 DEF Types
    <2>3. \A d \in Fds : /\ kern'[d].open = kern[d].open /\ ctx'[d].there = ctx[d].there
                         /\ kern'[d].conn = kern[d].conn /\ kern'[d].ready = kern[d].ready
                         /\ kern'[d].nonblock = IF d = fd THEN block ELSE kern[d].nonblock
      <3>1. \A d \in Fds : kern[d] \in Kerns /\ ctx[d] \in Ctxs
        BY DEF Types
      <3>2. \A d \in Fds \ {fd} : kern'[d] = kern[d] /\ ctx'[d] = ctx[d]
        BY <2>1 DEF Types
      <3>3. kern'[fd] = [kern[fd] EXCEPT !.nonblock = block]
        BY <2>1 DEF Types
      <3>4. ctx'[fd].there = ctx[fd].there
        <4>1. ctx'[fd] = [ctx[fd] EXCEPT !.user = ctx[fd].there /\ mode]
          BY <2>1 DEF Types
        <4> QED
          BY <3>1, <4>1 DEF Ctxs
      <3>5. /\ kern'[fd].open = kern[fd].open /\ kern'[fd].conn = kern[fd].conn
            /\ kern'[fd].ready = kern[fd].ready /\ kern'[fd].nonblock = block
        BY <3>1, <3>3 DEF Kerns
      <3> QED
        BY <3>2, <3>4, <3>5
    <2>4. NonBlocking'
      BY <1>1, <2>1, <2>3 DEF NonBlocking
    <2> QED
      BY <1>1, <1>4, <1>5, <1>6, <2>2, <2>3, <2>4 DEF Types
  <1> QED
    BY <1>7, <1>8, <1>9

-----------------------------------------------------------------------------
(* close().                                                                 *)

LEMMA CloseSteps ==
  ASSUME IInv, NEW f \in Fibers, ForgetThenClose(f)
  PROVE  IInv'
  <1> USE DEF IInv
  <1> DEFINE fd == call[f].fd
  <1>1. fd \in Fds /\ Closing(f) /\ ~InCall(f)
    BY DEF ForgetThenClose, Sockets, Closing, At, InCall
  <1>2. \A g \in Fibers : g # f /\ Closing(g) => call[g].fd # fd
    BY <1>1 DEF Sockets
  <1>3. UNCHANGED <<use, reg, reports, timers, cbs>> /\ watched' \subseteq watched
    BY DEF ForgetThenClose, CloseFd, ForgetFd
  <1>4. /\ \A g \in Fibers \ {f} : call'[g] = call[g]
        /\ call'[f].n = call[f].n /\ ~InCall(f)' /\ OfCall(f)'
        /\ call' \in [Fibers -> Calls]
    <2>1. CASE Goto(f, "closeFd")
      <3>1. "closeFd" \in PCs
        BY DEF PCs
      <3>2. call'[f] = [call[f] EXCEPT !.pc = "closeFd"] /\ call[f] \in Calls
        BY <2>1, <3>1, GotoFacts DEF Types
      <3> QED
        BY <2>1, <3>1, <3>2, GotoFacts DEF Calls, InCall, OfCall, At, Waiters
    <2>2. CASE Return(f)
      <3>1. /\ call' \in [Fibers -> Calls] /\ \A g \in Fibers \ {f} : call'[g] = call[g]
            /\ call'[f] = [NoCall EXCEPT !.n = call[f].n]
        BY <2>2, ReturnFacts
      <3>2. call'[f].pc = "user" /\ call'[f].op = "none" /\ call'[f].n = call[f].n
        BY <3>1 DEF NoCall
      <3> QED
        BY <3>1, <3>2 DEF InCall, OfCall, At
    <2> QED
      BY <2>1, <2>2 DEF ForgetThenClose
  <1>5. \A g \in Fibers : /\ InCall(g)' = InCall(g)
                          /\ InCall(g) => g # f /\ call'[g] = call[g]
    BY <1>1, <1>4 DEF InCall
  <1>6. Waiters'
    <2>1. \A g \in Fibers : OfCall(g)'
      BY <1>4 DEF Waiters, OfCall, At, InCall
    <2>2. \A d \in Fds, e \in Events : reg[d][e] # NoFiber => reg[d][e] \in Fibers /\ reg[d][e] # f
      BY <1>1 DEF Types, Waiters, At, InCall
    <2> QED
      BY <1>3, <1>4, <1>5, <2>1, <2>2, WaitersFrame DEF SameCall, At, Waiters
  <1>7. TimersDue' /\ CallbacksDue' /\ CancelledDue'
    <2>1. \A t \in timers : t.f \in Fibers /\ InCall(t.f)
      BY DEF Types, TimersAt, TimersDue, InCall
    <2>2. \A g \in Fibers : call[g].n <= call'[g].n
      <3>1. \A g \in Fibers : call[g].n \in Nat /\ call'[g].n = call[g].n
        BY <1>4 DEF Types, Calls
      <3> QED
        BY <3>1
    <2>3. \A t \in timers' : InCall(t.f)' /\ call'[t.f].pc \in {"add", "wait", "woken", "asleep"}
      BY <1>3, <1>5, <2>1 DEF TimersDue
    <2>4. \A g \in Fibers : InCall(g)' /\ call'[g].woken = "timer" =>
                             call'[g].cancelled /\ ~At(g, "check")'
      BY <1>5 DEF CancelledDue, At
    <2> QED
      BY <1>3, <1>4, <1>5, <2>2, <2>3, <2>4, DueFrame DEF SameCall
  <1>8. CASE At(f, "closeDel") /\ ForgetFd(f) /\ Goto(f, "closeFd")
    <2>1. Types'
      BY <1>1, <1>3, <1>4, <1>8 DEF Types, ForgetFd, Absent, NewCtx, Ctxs
    <2>2. Sockets'
      BY <1>1, <1>2, <1>4, <1>8 DEF Types, Sockets, SocketsAreManaged, ForgetFd, Goto, Absent, NewCtx, Closing, At
    <2>3. NonBlocking' /\ Connects'
      BY <1>1, <1>3, <1>5, <1>8 DEF Types, ForgetFd, NonBlocking, Connects, Absent, NewCtx
    <2> QED
      BY <1>6, <1>7, <2>1, <2>2, <2>3
  <1>9. CASE At(f, "closeFd") /\ CloseFd(f) /\ Return(f)
    <2>1. Types'
      BY <1>1, <1>3, <1>4, <1>9 DEF Types, CloseFd, Closed, Kerns
    <2>2. Sockets'
      BY <1>1, <1>2, <1>4, <1>9 DEF Types, Sockets, SocketsAreManaged, CloseFd, Return, Closed, NoCall, Closing, At
    <2>3. /\ \A d \in Fds \ {fd} : kern'[d] = kern[d]
          /\ kern'[fd] = Closed /\ ctx' = ctx
      BY <1>1, <1>9 DEF CloseFd, Types
    <2>4. NonBlocking'
      <3>1. ~kern'[fd].open
        BY <2>3 DEF Closed
      <3> QED
        BY <1>3, <2>3, <3>1 DEF NonBlocking
    <2>5. \A d \in Fds : kern'[d].conn = "progress" => kern'[d] = kern[d]
      BY <2>3 DEF Closed
    <2>6. Connects'
      BY <1>5, <2>5 DEF Connects, Waiters, OfCall, InCall, At
    <2> QED
      BY <1>6, <1>7, <2>1, <2>2, <2>4, <2>6
  <1> QED
    BY <1>8, <1>9 DEF ForgetThenClose

-----------------------------------------------------------------------------
(* Steps that wake who waits: close(), the timer's callback, an event.      *)

IsWoken(c, d, why) ==
  /\ d.pc = "woken" /\ d.woken = why /\ d.op = c.op /\ d.fd = c.fd /\ d.event = c.event
  /\ d.timeout = c.timeout /\ d.n = c.n /\ d.age = c.age /\ d.cancelled = c.cancelled

LEMMA TriggeredFacts ==
  ASSUME IInv, NEW fd \in Fds, NEW events \in SUBSET Events,
         NEW why \in {"event", "timer", "other"}, NEW g \in Fibers
  PROVE  /\ Triggered(fd, events, why)[g] \in Calls
         /\ \/ /\ \E e \in events : reg[fd][e] = g /\ call[g].event = e
               /\ call[g].pc = "wait" /\ call[g].fd = fd
               /\ IsWoken(call[g], Triggered(fd, events, why)[g], why)
            \/ Triggered(fd, events, why)[g] = call[g] /\ \A e \in events : reg[fd][e] # g
  <1>1. CASE \E e \in events : reg[fd][e] = g
    <2>1. PICK e \in events : reg[fd][e] = g
      BY <1>1
    <2>2. call[g].pc = "wait" /\ call[g].fd = fd /\ call[g].event = e
      BY <2>1, TimeFacts DEF IInv, Waiters, At
    <2>3. Triggered(fd, events, why)[g] = [call[g] EXCEPT !.pc = "woken", !.woken = why]
      BY <1>1 DEF Triggered
    <2>4. /\ [call[g] EXCEPT !.pc = "woken", !.woken = why] \in Calls
          /\ IsWoken(call[g], [call[g] EXCEPT !.pc = "woken", !.woken = why], why)
      <3>1. PICK c \in Calls : c = call[g]
        BY DEF IInv, Types
      <3>2. [c EXCEPT !.pc = "woken", !.woken = why] \in Calls
        BY DEF Calls, PCs
      <3>3. IsWoken(c, [c EXCEPT !.pc = "woken", !.woken = why], why)
        BY DEF Calls, IsWoken
      <3> QED
        BY <3>1, <3>2, <3>3
    <2>5. Triggered(fd, events, why)[g] \in Calls /\ IsWoken(call[g], Triggered(fd, events, why)[g], why)
      BY <2>3, <2>4
    <2> QED
      BY <2>1, <2>2, <2>5
  <1>2. CASE ~\E e \in events : reg[fd][e] = g
    BY <1>2 DEF Triggered, IInv, Types
  <1> QED
    BY <1>1, <1>2

LEMMA Triggering ==
  ASSUME IInv, NEW fd \in Fds, NEW events \in SUBSET Events,
         NEW why \in {"event", "timer", "other"}, Unregister(fd, events),
         UNCHANGED <<use, kern, ctx, timers>>, reports' \subseteq reports, cbs' \subseteq cbs,
         call' \in [Fibers -> Calls],
         \A g \in Fibers : \/ call'[g] = Triggered(fd, events, why)[g]
                           \/ /\ ~InCall(g) /\ ~InCall(g)' /\ OfCall(g)'
                              /\ call[g].n <= call'[g].n,
         why = "event" => events \subseteq kern[fd].ready,
         why = "timer" => \A e \in events : reg[fd][e] # NoFiber => call[reg[fd][e]].cancelled
  PROVE  /\ Types' /\ NonBlocking' /\ Waiters' /\ Connects'
         /\ TimersDue' /\ CallbacksDue' /\ CancelledDue'
  <1> USE DEF IInv
  <1>2. /\ reg' \in [Fds -> [Events -> Fibers \cup {NoFiber}]]
        /\ \A d \in Fds, e \in Events :
             reg'[d][e] = IF d = fd /\ e \in events THEN NoFiber ELSE reg[d][e]
    BY DEF Unregister, Remaining, Types
  <1>3. Types'
    BY <1>2 DEF Types, Unregister
  <1>4. NonBlocking'
    BY DEF NonBlocking
  <1>5. \A g \in Fibers :
          \/ /\ \E e \in events : reg[fd][e] = g /\ call[g].event = e
             /\ call[g].pc = "wait" /\ call[g].fd = fd
             /\ call'[g].pc = "woken" /\ call'[g].woken = why /\ SameCall(g)
          \/ call'[g] = call[g] /\ SameCall(g) /\ \A e \in events : reg[fd][e] # g
          \/ ~InCall(g) /\ ~InCall(g)' /\ OfCall(g)' /\ call[g].n <= call'[g].n
    BY TriggeredFacts DEF IsWoken, SameCall
  <1>6. Waiters'
    <2>1. \A g \in Fibers : OfCall(g)' /\ (InCall(g)' => InCall(g) /\ SameCall(g))
      BY <1>5 DEF OfCall, InCall, At, SameCall, Waiters
    <2>2. \A d \in Fds, e \in Events :
            reg'[d][e] # NoFiber => /\ call'[reg'[d][e]].pc = "wait" /\ reg'[d][e] \in Fibers
                                    /\ reg'[d][e] = reg[d][e]
      <3> SUFFICES ASSUME NEW d \in Fds, NEW e \in Events, reg'[d][e] # NoFiber
                   PROVE  call'[reg[d][e]].pc = "wait"
        BY <1>2 DEF Types
      <3>1. reg[d][e] \in Fibers /\ reg'[d][e] = reg[d][e] /\ ~(d = fd /\ e \in events)
        BY <1>2 DEF Types
      <3> PICK g \in Fibers : g = reg[d][e]
        BY <3>1
      <3>2. call[g].pc = "wait" /\ call[g].fd = d /\ call[g].event = e /\ InCall(g)
        BY <3>1, TimeFacts DEF Waiters, At, InCall
      <3> QED
        BY <1>5, <3>1, <3>2
    <2>3. \A d \in Fds, e \in Events :
            reg'[d][e] # NoFiber => /\ call'[reg'[d][e]].pc = "wait" /\ reg'[d][e] \in Fibers
                                    /\ (reg'[d][e] = reg[d][e]
                                        \/ /\ call'[reg'[d][e]].fd = d
                                           /\ call'[reg'[d][e]].event = e)
      BY <2>2
    <2> QED
      BY <2>1, <2>3, WaitersFrame
  <1>7. TimersDue' /\ CallbacksDue' /\ CancelledDue'
    <2>1. \A g \in Fibers : /\ call[g].n <= call'[g].n
                            /\ InCall(g)' => InCall(g) /\ SameCall(g)
      BY <1>5 DEF InCall, SameCall, Types, Calls
    <2>2. \A t \in timers' : InCall(t.f)' /\ call'[t.f].pc \in {"add", "wait", "woken", "asleep"}
      <3>1. \A t \in timers : /\ t.f \in Fibers
                              /\ call[t.f].pc \in {"add", "wait", "woken", "asleep"}
        BY DEF TimersDue, Types, TimersAt
      <3> QED
        BY <3>1, <1>5 DEF InCall
    <2>3. \A g \in Fibers : InCall(g)' /\ call'[g].woken = "timer" =>
                              call'[g].cancelled /\ ~At(g, "check")'
      BY <1>5, TimeFacts DEF CancelledDue, At, SameCall, InCall
    <2> QED
      BY <2>1, <2>2, <2>3, DueFrame
  <1>8. Connects'
    <2> SUFFICES ASSUME NEW g \in Fibers, InCall(g)', call'[g].op = "connect"
                 PROVE  /\ call'[g].pc \in {"timer", "add", "wait"} => call'[g].woken \in {"no", "missed"}
                        /\ call'[g].woken = "event" => kern[call'[g].fd].conn # "progress"
      BY DEF Connects
    <2>1. CASE call'[g] = call[g]
      BY <2>1 DEF Connects, InCall
    <2>2. CASE /\ \E e \in events : reg[fd][e] = g /\ call[g].event = e
               /\ call[g].pc = "wait" /\ call[g].fd = fd
               /\ call'[g].pc = "woken" /\ call'[g].woken = why /\ SameCall(g)
      <3>1. "WRITE" \in events
        BY <2>2 DEF SameCall, Waiters, OfCall
      <3> QED
        BY <2>2, <3>1 DEF Connects, SameCall
    <2> QED
      BY <1>5, <2>1, <2>2
  <1> QED
    BY <1>3, <1>4, <1>6, <1>7, <1>8

\* Steps of which neither calls nor sockets see anything.
LEMMA Unseen ==
  ASSUME IInv, UNCHANGED <<use, kern, ctx, reg, watched, call, timers>>,
         reports' \subseteq Fds \X Events, cbs' \subseteq cbs
  PROVE  IInv'
  <1>1. Types' /\ NonBlocking'
    BY DEF IInv, Types, NonBlocking
  <1>2. Sockets'
    BY SocketsFrame DEF Closing, IInv, Types
  <1>3. Waiters' /\ Connects'
    BY DEF IInv, Waiters, OfCall, Connects, At, InCall
  <1>4. TimersDue' /\ CallbacksDue' /\ CancelledDue'
    BY DEF IInv, TimersDue, CallbacksDue, CancelledDue, Alive, Due, InCall, At
  <1> QED
    BY <1>1, <1>2, <1>3, <1>4 DEF IInv

LEMMA CloseCancelStep ==
  ASSUME IInv, NEW f \in Fibers, CloseCancel(f)
  PROVE  IInv'
  <1>1. PICK fd \in Fds :
          LET events == IF fd \in watched THEN Events ELSE {}
              woken  == Triggered(fd, events, "other")
          IN /\ ctx[fd].there
             /\ \A g \in Fibers : Closing(g) => call[g].fd # fd
             /\ Unregister(fd, events)
             /\ call' = [woken EXCEPT ![f].pc = "closeDel", ![f].fd = fd, ![f].n = @ + 1]
    BY DEF CloseCancel, Closing
  <1>0. ctx[fd].there /\ \A g \in Fibers : Closing(g) => call[g].fd # fd
    BY <1>1
  <1> DEFINE events == IF fd \in watched THEN Events ELSE {}
             woken  == Triggered(fd, events, "other")
  <1>2. At(f, "user") /\ UNCHANGED <<use, kern, ctx, reports, timers, cbs>>
    BY DEF CloseCancel
  <1>3. events \in SUBSET Events
    OBVIOUS
  <1>4. woken \in [Fibers -> Calls] /\ woken[f] = call[f]
    <2>1. \A g \in Fibers : woken[g] \in Calls
      BY <1>3, TriggeredFacts
    <2>2. woken[f] = call[f]
      BY <1>2, <1>3, TriggeredFacts DEF At
    <2> QED
      BY <2>1, <2>2 DEF Triggered
  <1> HIDE DEF events, woken
  <1>5. /\ call' \in [Fibers -> Calls] /\ \A g \in Fibers \ {f} : call'[g] = woken[g]
        /\ call'[f].pc = "closeDel" /\ call'[f].fd = fd /\ call'[f].op = call[f].op
        /\ call'[f].event = call[f].event /\ call'[f].n = call[f].n + 1
    BY <1>1, <1>4 DEF Calls, PCs, events, woken
  <1>6. \A g \in Fibers : \/ call'[g] = woken[g]
                         \/ /\ ~InCall(g) /\ ~InCall(g)' /\ OfCall(g)'
                            /\ call[g].n <= call'[g].n
    <2>1. call[f].n \in Nat /\ (call[f].op = "connect" => call[f].event = "WRITE")
      BY DEF IInv, Types, Calls, Waiters, OfCall
    <2>2. ~InCall(f) /\ ~InCall(f)'
      BY <1>2, <1>5 DEF InCall, At
    <2>3. OfCall(f)'
      BY <1>5, <2>1, <2>2 DEF OfCall, At
    <2>4. call[f].n <= call'[f].n
      BY <1>5, <2>1
    <2> QED
      BY <1>5, <2>2, <2>3, <2>4
  <1>7. /\ Types' /\ NonBlocking' /\ Waiters' /\ Connects'
        /\ TimersDue' /\ CallbacksDue' /\ CancelledDue'
    <2>1. Unregister(fd, events)
      BY <1>1 DEF events
    <2>2. \A g \in Fibers : \/ call'[g] = Triggered(fd, events, "other")[g]
                           \/ /\ ~InCall(g) /\ ~InCall(g)' /\ OfCall(g)'
                              /\ call[g].n <= call'[g].n
      BY <1>6 DEF woken
    <2>3. reports' \subseteq reports /\ cbs' \subseteq cbs /\ UNCHANGED <<use, kern, ctx, timers>>
      BY <1>2
    <2>4. call' \in [Fibers -> Calls]
      BY <1>5
    <2> QED
      BY <1>3, <2>1, <2>2, <2>3, <2>4, Triggering
  <1>8. \A g \in Fibers \ {f} :
          \/ call'[g].pc = call[g].pc /\ call'[g].fd = call[g].fd
          \/ call'[g].pc = "woken" /\ call[g].pc = "wait"
    BY <1>3, <1>5, TriggeredFacts DEF IsWoken, woken
  <1>9. Sockets'
    <2> DEFINE C(c) == c.pc \in {"closeDel", "closeFd"}
    <2>1. \A g \in Fibers \ {f} : C(call'[g]) \/ C(call[g]) =>
            /\ call'[g].pc = call[g].pc /\ call'[g].fd = call[g].fd
            /\ C(call[g]) /\ C(call'[g]) /\ call[g].fd # fd
      BY <1>0, <1>8 DEF Closing
    <2>2. SocketsAreManaged'
      <3> SUFFICES ASSUME NEW d \in Fds
                   PROVE  (\E g \in Fibers : At(g, "closeFd")' /\ call'[g].fd = d) <=>
                            \E g \in Fibers : At(g, "closeFd") /\ call[g].fd = d
        BY <1>2 DEF IInv, Sockets, SocketsAreManaged
      <3>1. \A g \in Fibers : (call'[g].pc = "closeFd" /\ call'[g].fd = d)
                                <=> (call[g].pc = "closeFd" /\ call[g].fd = d)
        BY <1>2, <1>5, <2>1 DEF At
      <3> QED
        BY <3>1 DEF At
    <2>3. \A g, h \in Fibers : C(call'[g]) /\ C(call'[h]) /\ call'[g].fd = call'[h].fd => g = h
      BY <1>5, <2>1 DEF IInv, Sockets, Closing
    <2>4. \A g \in Fibers :
            C(call'[g]) => /\ call'[g].fd \in Fds
                           /\ ctx[call'[g].fd].there <=> call'[g].pc = "closeDel"
      BY <1>0, <1>5, <2>1 DEF IInv, Sockets, Closing, At
    <2> QED
      BY <1>2, <2>2, <2>3, <2>4 DEF Sockets, At, Closing
  <1> QED
    BY <1>7, <1>9 DEF IInv

\* cancelEvent() of a callback, and an idle thread's handling of a report.
LEMMA WakingSteps ==
  ASSUME IInv, NEW fd \in Fds, NEW e \in Events, NEW why \in {"event", "timer", "other"},
         Unregister(fd, {e}), call' = Triggered(fd, {e}, why),
         UNCHANGED <<use, kern, ctx, timers>>, reports' \subseteq reports, cbs' \subseteq cbs,
         why = "event" => e \in kern[fd].ready,
         why = "timer" /\ reg[fd][e] # NoFiber => call[reg[fd][e]].cancelled
  PROVE  IInv'
  <1>1. \A g \in Fibers : /\ call'[g] \in Calls
                          /\ Closing(g)' = Closing(g)
                          /\ Closing(g) => call'[g] = call[g]
    BY TriggeredFacts DEF Closing, IsWoken
  <1>2. call' \in [Fibers -> Calls]
    BY <1>1 DEF Triggered
  <1>3. Sockets'
    BY <1>1, SocketsFrame DEF IInv, Types
  <1> QED
    BY <1>2, <1>3, Triggering DEF IInv


-----------------------------------------------------------------------------
(* The steps of a call.                                                     *)

\* Fiber f goes on in its call, or returns from it.
LEMMA GoingOn ==
  ASSUME IInv, NEW f \in Fibers, InCall(f), ~At(f, "wait"),
         UNCHANGED <<use, ctx, reg, watched, reports, cbs>>, timers' \subseteq timers,
         kern' \in [Fds -> Kerns],
         \A fd \in Fds : /\ kern'[fd].open = kern[fd].open
                         /\ kern'[fd].nonblock = kern[fd].nonblock
                         /\ kern'[fd].conn = kern[fd].conn
                         /\ kern'[fd].ready \subseteq kern[fd].ready,
         \A t \in timers' : t.f # f,
         NEW l \in {"try", "timer", "blocked", "back", "check"},
         (Goto(f, l) /\ ~At(f, "asleep")) \/ Return(f),
         l = "check" => call[f].op = "connect" /\ call[f].woken # "timer",
         l \in {"try", "timer"} => call[f].op = "io"
  PROVE  IInv'
  <1> USE DEF IInv
  <1>1. CASE Goto(f, l) /\ ~At(f, "asleep")
    <2>1. l \in PCs
      BY DEF PCs
    <2>2. /\ call' \in [Fibers -> Calls] /\ \A g \in Fibers \ {f} : call'[g] = call[g]
          /\ call'[f] = [call[f] EXCEPT !.pc = l] /\ call[f] \in Calls
      BY <1>1, <2>1, GotoFacts DEF Types
    <2>3. \A g \in Fibers :
            /\ SameCall(g) /\ call'[g].woken = call[g].woken
            /\ call'[g].pc = IF g = f THEN l ELSE call[g].pc
      BY <2>2 DEF SameCall, Calls
    <2>4. \A g \in Fibers : InCall(g) <=> InCall(g)'
      BY <2>3 DEF InCall
    <2>5. Types'
      BY <2>2 DEF Types
    <2>6. Sockets'
      <3>1. \A g \in Fibers : /\ Closing(g)' <=> Closing(g)
                              /\ Closing(g) => call'[g].pc = call[g].pc
                              /\ call'[g].fd = call[g].fd
        BY <2>3 DEF Closing, InCall, SameCall
      <3> QED
        BY <3>1, SocketsFrame
    <2>7. NonBlocking'
      BY DEF NonBlocking
    <2>8. Waiters'
      <3>1. \A g \in Fibers : OfCall(g)'
        BY <1>1, <2>3 DEF OfCall, Waiters, SameCall, At, InCall
      <3>2. \A d \in Fds, e \in Events :
              reg[d][e] # NoFiber => call'[reg[d][e]].pc = "wait" /\ reg[d][e] \in Fibers
        BY <2>2 DEF Waiters, At, Types
      <3> QED
        BY <2>3, <2>4, <3>1, <3>2, WaitersFrame
    <2>9. TimersDue' /\ CallbacksDue' /\ CancelledDue'
      <3>1. \A t \in timers' : InCall(t.f)' /\ call'[t.f].pc \in {"add", "wait", "woken", "asleep"}
        <4>1. \A t \in timers' : t.f \in Fibers \ {f} /\ InCall(t.f)
          BY DEF Types, TimersAt, TimersDue, InCall
        <4> QED
          BY <4>1, <2>3, <2>4 DEF TimersDue
      <3>2. \A g \in Fibers : InCall(g)' /\ call'[g].woken = "timer" =>
                                call'[g].cancelled /\ ~At(g, "check")'
        BY <2>3, <2>4 DEF CancelledDue, SameCall, At
      <3>3. \A g \in Fibers : call[g].n <= call'[g].n
        BY <2>3 DEF SameCall, Types, Calls
      <3> QED
        BY <2>2, <2>3, <2>4, <3>1, <3>2, <3>3, DueFrame
    <2>10. Connects'
      <3>1. call'[f].op = "connect" => l # "timer"
        BY <2>3 DEF SameCall
      <3> QED
        BY <2>3, <2>4, <3>1 DEF Connects, SameCall, Waiters, OfCall, InCall, At
    <2> QED
      BY <2>5, <2>6, <2>7, <2>8, <2>9, <2>10
  <1>2. CASE Return(f)
    <2>1. /\ call' \in [Fibers -> Calls] /\ \A g \in Fibers \ {f} : call'[g] = call[g]
          /\ call'[f].pc = "user" /\ call'[f].op = "none" /\ call'[f].n = call[f].n
      BY <1>2, ReturnFacts DEF NoCall
    <2>2. ~InCall(f)' /\ OfCall(f)' /\ ~Closing(f) /\ ~Closing(f)'
      BY <2>1 DEF InCall, OfCall, Closing, At
    <2>3. \A g \in Fibers : InCall(g)' => InCall(g) /\ call'[g] = call[g] /\ SameCall(g)
      BY <2>1, <2>2 DEF SameCall, InCall
    <2>4. Types'
      BY <2>1 DEF Types
    <2>5. Sockets'
      <3>1. \A g \in Fibers : /\ Closing(g)' <=> Closing(g)
                              /\ Closing(g) => call'[g].pc = call[g].pc /\ call'[g].fd = call[g].fd
        BY <2>1, <2>2 DEF Closing
      <3> QED
        BY <3>1, SocketsFrame
    <2>6. NonBlocking'
      BY DEF NonBlocking
    <2>7. Waiters'
      <3>1. \A g \in Fibers : OfCall(g)'
        BY <2>1, <2>2 DEF OfCall, Waiters, At, InCall
      <3>2. \A d \in Fds, e \in Events :
              reg[d][e] # NoFiber => call'[reg[d][e]].pc = "wait" /\ reg[d][e] \in Fibers
        BY <2>1 DEF Waiters, At, Types
      <3> QED
        BY <2>3, <3>1, <3>2, WaitersFrame
    <2>8. TimersDue' /\ CallbacksDue' /\ CancelledDue'
      <3>1. \A t \in timers' : InCall(t.f)' /\ call'[t.f].pc \in {"add", "wait", "woken", "asleep"}
        <4>1. \A t \in timers' : t.f \in Fibers \ {f} /\ InCall(t.f)
          BY DEF Types, TimersAt, TimersDue, InCall
        <4> QED
          BY <4>1, <2>1 DEF TimersDue, InCall
      <3>2. \A g \in Fibers : InCall(g)' /\ call'[g].woken = "timer" =>
                                call'[g].cancelled /\ ~At(g, "check")'
        BY <2>3 DEF CancelledDue, At
      <3>3. \A g \in Fibers : call[g].n <= call'[g].n
        <4>1. \A g \in Fibers : call[g].n \in Nat /\ call'[g].n = call[g].n
          BY <2>1 DEF Types, Calls
        <4> QED
          BY <4>1
      <3> QED
        BY <2>1, <2>3, <3>1, <3>2, <3>3, DueFrame
    <2>9. Connects'
      BY <2>3 DEF Connects, Waiters, OfCall, InCall, At
    <2> QED
      BY <2>4, <2>5, <2>6, <2>7, <2>8, <2>9
  <1> QED
    BY <1>1, <1>2


LEMMA TrySteps ==
  ASSUME IInv, NEW f \in Fibers,
         Try(f) \/ CancelTimer(f) \/ SeeCancelled(f) \/ CheckConnect(f)
  PROVE  IInv'
  <1> USE DEF IInv
  <1>1. CASE Try(f)
    <2>1. InCall(f) /\ call[f].pc = "try" /\ call[f].op = "io" /\ call[f].fd \in Fds
      BY <1>1 DEF Try, At, InCall, Waiters, OfCall
    <2>2. PICK l \in {"timer", "blocked"} : Goto(f, l) \/ Return(f)
      BY <1>1 DEF Try
    <2>3. kern' = kern \/ \E left \in {kern[call[f].fd].ready, kern[call[f].fd].ready \ {call[f].event}} :
                             kern' = [kern EXCEPT ![call[f].fd].ready = left]
      BY <1>1 DEF Try
    <2>4. /\ kern' \in [Fds -> Kerns]
          /\ \A fd \in Fds : /\ kern'[fd].open = kern[fd].open
                             /\ kern'[fd].nonblock = kern[fd].nonblock
                             /\ kern'[fd].conn = kern[fd].conn
                             /\ kern'[fd].ready \subseteq kern[fd].ready
      <3>1. CASE kern' = kern
        BY <3>1 DEF Types
      <3>2. ASSUME NEW left \in SUBSET kern[call[f].fd].ready,
                   kern' = [kern EXCEPT ![call[f].fd].ready = left]
            PROVE  <2>4!:
        BY <2>1, <3>2 DEF Types, Kerns
      <3> QED
        BY <2>3, <3>1, <3>2
    <2>5. \A t \in timers : t.f # f
      BY <2>1 DEF TimersDue
    <2>6. UNCHANGED <<use, ctx, reg, watched, reports, cbs, timers>>
      BY <1>1 DEF Try
    <2> QED
      BY <2>1, <2>2, <2>4, <2>5, <2>6, GoingOn DEF At
  <1>2. CASE CancelTimer(f)
    <2>1. InCall(f) /\ call[f].pc = "woken"
      BY <1>2 DEF CancelTimer, At, InCall
    <2>2. timers' \subseteq timers /\ \A t \in timers' : t.f # f
      BY <1>2 DEF CancelTimer, TimersOf
    <2> QED
      BY <1>2, <2>1, <2>2, GoingOn DEF CancelTimer, At, Types
  <1>3. CASE SeeCancelled(f)
    <2>1. InCall(f) /\ call[f].pc = "back" /\ call[f].fd \in Fds /\ call[f].op \in {"io", "connect"}
      BY <1>3 DEF SeeCancelled, At, InCall, Waiters, OfCall
    <2>2. \A t \in timers : t.f # f
      BY <2>1 DEF TimersDue
    <2>3. PICK l \in {"try", "check", "back"} :
            /\ Goto(f, l) \/ Return(f)
            /\ l = "check" => call[f].op = "connect" /\ call[f].woken # "timer"
            /\ l = "try" => call[f].op = "io"
      <3>1. CASE call[f].cancelled
        BY <1>3, <2>1, <3>1 DEF SeeCancelled
      <3>2. CASE ~call[f].cancelled
        BY <1>3, <2>1, <3>2 DEF SeeCancelled, CancelledDue
      <3> QED
        BY <3>1, <3>2
    <2> QED
      BY <1>3, <2>1, <2>2, <2>3, GoingOn DEF SeeCancelled, At, Types
  <1>4. CASE CheckConnect(f)
    <2>1. InCall(f) /\ call[f].pc = "check"
      BY <1>4 DEF CheckConnect, At, InCall
    <2>2. \A t \in timers : t.f # f
      BY <2>1 DEF TimersDue
    <2> QED
      BY <1>4, <2>1, <2>2, GoingOn DEF CheckConnect, At, Types
  <1> QED
    BY <1>1, <1>2, <1>3, <1>4


LEMMA AddTimerStep ==
  ASSUME IInv, NEW f \in Fibers, AddTimer(f)
  PROVE  IInv'
  <1> USE DEF IInv
  <1>1. InCall(f) /\ call[f].pc = "timer" /\ Goto(f, "add") /\ "add" \in PCs /\ call[f] \in Calls
    BY DEF AddTimer, At, InCall, PCs, Types
  <1>2. /\ call' \in [Fibers -> Calls] /\ \A g \in Fibers \ {f} : call'[g] = call[g]
        /\ call'[f] = [call[f] EXCEPT !.pc = "add"]
    BY <1>1, GotoFacts DEF Types
  <1>3. UNCHANGED <<use, kern, ctx, reg, watched, reports, cbs>>
    BY DEF AddTimer
  <1>4. \A g \in Fibers :
          /\ SameCall(g) /\ call'[g].woken = call[g].woken
          /\ call'[g].pc = IF g = f THEN "add" ELSE call[g].pc
    BY <1>1, <1>2 DEF SameCall, Calls
  <1>5. \A g \in Fibers : InCall(g) <=> InCall(g)'
    BY <1>1, <1>4 DEF InCall
  <1>6. \A t \in timers : t.f \in Fibers /\ t.f # f
    BY <1>1 DEF Types, TimersAt, TimersDue
  <1>7. \/ timers' = timers
        \/ /\ call[f].timeout # Never
           /\ timers' = timers \cup {NewTimer(f, call[f].timeout)}
    BY DEF AddTimer
  <1>8. call[f].timeout # Never =>
          call[f].timeout \in 0..MaxAge /\ NewTimer(f, call[f].timeout) \in TimersAt(0..MaxAge)
    BY <1>1, TimeFacts DEF Calls, NewTimer, TimersAt
  <1>9. Types'
    BY <1>2, <1>3, <1>7, <1>8 DEF Types
  <1>10. Sockets'
    <2>1. \A g \in Fibers : /\ Closing(g)' <=> Closing(g)
                            /\ Closing(g) => call'[g].pc = call[g].pc /\ call'[g].fd = call[g].fd
      BY <1>1, <1>4 DEF Closing, SameCall
    <2> QED
      BY <1>3, <2>1, SocketsFrame
  <1>11. NonBlocking'
    BY <1>3 DEF NonBlocking
  <1>12. Waiters'
    <2>1. \A g \in Fibers : OfCall(g)'
      BY <1>1, <1>4 DEF OfCall, Waiters, SameCall, At, InCall
    <2>2. \A d \in Fds, e \in Events :
            reg[d][e] # NoFiber => call'[reg[d][e]].pc = "wait" /\ reg[d][e] \in Fibers
      BY <1>1, <1>2 DEF Waiters, At, Types
    <2> QED
      BY <1>3, <1>4, <1>5, <2>1, <2>2, WaitersFrame
  <1>13. TimersDue'
    <2>1. \A t \in timers :
            /\ call'[t.f].pc \in {"add", "wait", "woken", "asleep"} /\ call'[t.f].n = t.n
            /\ call'[t.f].timeout # Never /\ t.left + call'[t.f].age >= call'[t.f].timeout
      BY <1>2, <1>6 DEF TimersDue
    <2>2. CASE timers' = timers
      BY <2>1, <2>2 DEF TimersDue
    <2>3. ASSUME call[f].timeout # Never,
                 timers' = timers \cup {NewTimer(f, call[f].timeout)}
          PROVE  TimersDue'
      <3> PICK t : t = NewTimer(f, call[f].timeout)
        OBVIOUS
      <3>1. t.f = f /\ t.n = call[f].n /\ t.left = call[f].timeout
        BY DEF NewTimer
      <3>2. call[f].timeout \in Nat /\ call[f].age \in Nat
        BY <1>1, <1>8, <2>3, TimeFacts DEF Calls
      <3>3. /\ call'[t.f].pc = "add" /\ call'[t.f].n = t.n
            /\ call'[t.f].timeout # Never /\ t.left + call'[t.f].age >= call'[t.f].timeout
        BY <1>4, <2>3, <3>1, <3>2 DEF SameCall
      <3>4. \A u \in timers : u.f # t.f
        BY <1>6, <3>1
      <3> QED
        BY <2>1, <2>3, <3>3, <3>4 DEF TimersDue
    <2> QED
      BY <1>7, <2>2, <2>3
  <1>14. CallbacksDue' /\ CancelledDue'
    <2>1. \A c \in cbs : c.f \in Fibers /\ Alive(c)' = Alive(c)
      BY <1>4, <1>5 DEF Types, TimersAt, Alive, SameCall
    <2>2. \A g \in Fibers : Due(g)' = Due(g)
      BY <1>4 DEF Due, SameCall
    <2>3. CallbacksDue'
      BY <1>3, <1>4, <2>1, <2>2 DEF CallbacksDue, SameCall
    <2>4. CancelledDue'
      BY <1>4, <1>5, <2>2 DEF CancelledDue, SameCall, At
    <2> QED
      BY <2>3, <2>4
  <1>15. Connects'
    BY <1>1, <1>3, <1>4, <1>5 DEF Connects, SameCall
  <1> QED
    BY <1>9, <1>10, <1>11, <1>12, <1>13, <1>14, <1>15


LEMMA AddEventStep ==
  ASSUME IInv, NEW f \in Fibers, AddEvent(f)
  PROVE  IInv'
  <1> USE DEF IInv
  <1> DEFINE fd == call[f].fd
             e  == call[f].event
             failed == ~kern[fd].open \/ (reg[fd] # Unregistered /\ fd \notin watched)
  <1>1. /\ InCall(f) /\ call[f].pc = "add" /\ fd \in Fds /\ e \in Events
        /\ call[f].op \in {"io", "connect"} /\ call[f] \in Calls
    BY DEF AddEvent, At, InCall, Waiters, OfCall, Types, Calls
  <1>2. CASE failed
    <2>1. timers' \subseteq timers /\ \A t \in timers' : t.f # f
      BY <1>2 DEF AddEvent, TimersOf
    <2>2. UNCHANGED <<use, kern, ctx, reg, watched, reports, cbs>>
      BY <1>2 DEF AddEvent
    <2>3. IF call[f].op = "io" THEN Return(f) ELSE Goto(f, "check")
      BY <1>2 DEF AddEvent
    <2>4. CASE call[f].op = "io"
      BY <1>1, <2>1, <2>2, <2>3, <2>4, GoingOn DEF At, Types
    <2>5. CASE call[f].op # "io"
      <3>1. call[f].woken # "timer" /\ call[f].op = "connect"
        BY <1>1, <2>5 DEF Connects
      <3> QED
        BY <1>1, <2>1, <2>2, <2>3, <2>5, <3>1, GoingOn DEF At, Types
    <2> QED
      BY <2>4, <2>5
  <1>3. CASE ~failed
    <2>1. /\ reg' = [reg EXCEPT ![fd][e] = f] /\ watched' = watched \cup {fd}
          /\ Goto(f, "wait") /\ UNCHANGED <<use, kern, ctx, reports, cbs, timers>>
      BY <1>3 DEF AddEvent
    <2>2. "wait" \in PCs
      BY DEF PCs
    <2>3. /\ call' \in [Fibers -> Calls] /\ \A g \in Fibers \ {f} : call'[g] = call[g]
          /\ call'[f] = [call[f] EXCEPT !.pc = "wait"]
      BY <2>1, <2>2, GotoFacts DEF Types
    <2>4. \A g \in Fibers :
            /\ SameCall(g) /\ call'[g].woken = call[g].woken
            /\ call'[g].pc = IF g = f THEN "wait" ELSE call[g].pc
      BY <1>1, <2>3 DEF SameCall, Calls
    <2>5. \A g \in Fibers : InCall(g) <=> InCall(g)'
      BY <1>1, <2>4 DEF InCall
    <2>6. /\ reg' \in [Fds -> [Events -> Fibers \cup {NoFiber}]]
          /\ \A d \in Fds, v \in Events : reg'[d][v] = IF d = fd /\ v = e THEN f ELSE reg[d][v]
      BY <1>1, <2>1 DEF Types
    <2>7. Types'
      BY <1>1, <2>1, <2>3, <2>6 DEF Types
    <2>8. Sockets'
      <3>1. \A g \in Fibers : /\ Closing(g)' <=> Closing(g)
                              /\ Closing(g) => call'[g].pc = call[g].pc /\ call'[g].fd = call[g].fd
        BY <1>1, <2>4 DEF Closing, SameCall
      <3> QED
        BY <2>1, <3>1, SocketsFrame
    <2>9. NonBlocking'
      BY <2>1 DEF NonBlocking
    <2>10. Waiters'
      <3>1. \A g \in Fibers : OfCall(g)'
        BY <1>1, <2>4 DEF OfCall, Waiters, SameCall, At, InCall
      <3>2. \A d \in Fds, v \in Events :
              reg'[d][v] # NoFiber => /\ call'[reg'[d][v]].pc = "wait" /\ reg'[d][v] \in Fibers
                                      /\ (reg'[d][v] = reg[d][v]
                                          \/ /\ call'[reg'[d][v]].fd = d
                                             /\ call'[reg'[d][v]].event = v)
        <4> SUFFICES ASSUME NEW d \in Fds, NEW v \in Events, reg'[d][v] # NoFiber
                     PROVE  /\ call'[reg'[d][v]].pc = "wait" /\ reg'[d][v] \in Fibers
                            /\ (reg'[d][v] = reg[d][v]
                                \/ /\ call'[reg'[d][v]].fd = d
                                   /\ call'[reg'[d][v]].event = v)
          OBVIOUS
        <4>1. CASE d = fd /\ v = e
          BY <2>4, <2>6, <4>1 DEF SameCall
        <4>2. CASE ~(d = fd /\ v = e)
          BY <2>3, <2>4, <2>6, <4>2 DEF Waiters, At, Types
        <4> QED
          BY <4>1, <4>2
      <3> QED
        BY <2>4, <2>5, <3>1, <3>2, WaitersFrame
    <2>11. TimersDue' /\ CallbacksDue' /\ CancelledDue'
      <3>1. \A t \in timers' : InCall(t.f)' /\ call'[t.f].pc \in {"add", "wait", "woken", "asleep"}
        <4>1. \A t \in timers' : t.f \in Fibers /\ InCall(t.f)
          BY <2>1 DEF Types, TimersAt, TimersDue, InCall
        <4> QED
          BY <4>1, <2>1, <2>4, <2>5 DEF TimersDue
      <3>2. \A g \in Fibers : InCall(g)' /\ call'[g].woken = "timer" =>
                                call'[g].cancelled /\ ~At(g, "check")'
        BY <2>4, <2>5 DEF CancelledDue, SameCall, At
      <3>3. \A g \in Fibers : call[g].n <= call'[g].n
        BY <2>4 DEF SameCall, Types, Calls
      <3> QED
        BY <2>1, <2>3, <2>4, <2>5, <3>1, <3>2, <3>3, DueFrame
    <2>12. Connects'
      BY <1>1, <2>1, <2>4, <2>5 DEF Connects, SameCall
    <2> QED
      BY <2>7, <2>8, <2>9, <2>10, <2>11, <2>12
  <1> QED
    BY <1>2, <1>3


-----------------------------------------------------------------------------
(* Where calls begin.                                                       *)

\* All of the invariant that does not depend on what the call does to kern and timers.
LEMMA Beginning ==
  ASSUME IInv, NEW f \in Fibers, NEW op \in {"io", "connect", "sleep"}, NEW fd \in Fds \cup {NoFd},
         NEW e \in Events, NEW timeout \in Times, NEW l \in {"try", "timer", "asleep"},
         Begin(f, op, fd, e, timeout, l),
         fd = NoFd <=> op = "sleep", fd \in Fds => Free(fd, e),
         l = CASE op = "io" -> "try" [] op = "connect" -> "timer" [] op = "sleep" -> "asleep",
         op = "connect" => e = "WRITE",
         UNCHANGED <<use, ctx, reg, watched, reports, cbs>>, kern' \in [Fds -> Kerns],
         \A d \in Fds : kern'[d].open = kern[d].open /\ kern'[d].nonblock = kern[d].nonblock
  PROVE  /\ call' \in [Fibers -> Calls] /\ \A g \in Fibers \ {f} : call'[g] = call[g]
         /\ ~InCall(f) /\ InCall(f)' /\ call'[f].n = call[f].n + 1 /\ call'[f].age = 0
         /\ call'[f].pc = l /\ call'[f].op = op /\ call'[f].woken = "no" /\ ~call'[f].cancelled
         /\ call'[f].timeout = timeout
         /\ Sockets' /\ NonBlocking' /\ Waiters' /\ CallbacksDue' /\ CancelledDue'
         /\ \A t \in timers : t.f \in Fibers \ {f}
  <1> USE DEF IInv
  <1> DEFINE new == [pc |-> l, op |-> op, fd |-> fd, event |-> e, timeout |-> timeout,
                     n |-> call[f].n + 1, age |-> 0, cancelled |-> FALSE, woken |-> "no"]
  <1>1. /\ new \in Calls
        /\ new.pc = l /\ new.op = op /\ new.fd = fd /\ new.event = e /\ new.timeout = timeout
        /\ new.n = call[f].n + 1 /\ new.age = 0 /\ new.woken = "no" /\ ~new.cancelled
    <2>1. call[f].n + 1 \in Nat
      BY DEF Types, Calls
    <2>2. l \in PCs
      BY DEF PCs
    <2>3. 0 \in 0..MaxAge
      BY TimeFacts
    <2> QED
      BY <2>1, <2>2, <2>3 DEF Calls
  <1>2. call' = [call EXCEPT ![f] = new] /\ call[f].pc = "user"
    BY DEF Begin, At
  <1> HIDE DEF new
  <1>3. /\ call' \in [Fibers -> Calls] /\ \A g \in Fibers \ {f} : call'[g] = call[g]
        /\ call'[f] = new
    BY <1>1, <1>2 DEF Types
  <1>4. ~InCall(f) /\ InCall(f)' /\ ~Closing(f) /\ ~Closing(f)'
    BY <1>1, <1>2, <1>3 DEF InCall, Closing
  <1>5. \A g \in Fibers \ {f} : /\ InCall(g) <=> InCall(g)'
                               /\ Due(g)' = Due(g)
    BY <1>3 DEF InCall, Due
  <1>6. Sockets'
    <2>1. \A g \in Fibers : /\ Closing(g)' <=> Closing(g)
                            /\ Closing(g) => call'[g].pc = call[g].pc /\ call'[g].fd = call[g].fd
      BY <1>3, <1>4 DEF Closing
    <2> QED
      BY <2>1, SocketsFrame
  <1>7. NonBlocking'
    BY DEF NonBlocking
  <1>8. Waiters'
    <2>1. \A g \in Fibers : OfCall(g)'
      BY <1>1, <1>3, <1>4, <1>5 DEF OfCall, Waiters, At, InCall
    <2>2. \A g, h \in Fibers :
            InCall(g)' /\ InCall(h)' /\ call'[g].fd \in Fds
            /\ call'[g].fd = call'[h].fd /\ call'[g].event = call'[h].event => g = h
      <3>1. \A g \in Fibers \ {f} :
              InCall(g)' /\ fd \in Fds => ~(call'[g].fd = fd /\ call'[g].event = e)
        BY <1>3, <1>5 DEF Free
      <3> QED
        BY <1>1, <1>3, <1>5, <3>1 DEF Waiters
    <2>3. \A d \in Fds, v \in Events : reg[d][v] # NoFiber => reg[d][v] \in Fibers \ {f}
      BY <1>2 DEF Types, Waiters, At
    <2> QED
      BY <1>3, <2>1, <2>2, <2>3 DEF Waiters, At
  <1>9. CallbacksDue'
    <2>1. \A c \in cbs : c.f \in Fibers /\ c.n \in Nat
      BY DEF Types, TimersAt
    <2>2. \A g \in Fibers : call[g].n \in Nat
      BY DEF Types, Calls
    <2>3. \A c \in cbs : c.f = f => c.n <= call'[c.f].n /\ ~Alive(c)'
      BY <1>1, <1>3, <2>1, <2>2 DEF CallbacksDue, Alive
    <2>4. \A c \in cbs : c.f # f => (Alive(c)' <=> Alive(c))
      BY <1>3, <1>5, <2>1 DEF Alive
    <2> QED
      BY <1>3, <1>5, <2>1, <2>3, <2>4 DEF CallbacksDue
  <1>10. CancelledDue'
    BY <1>1, <1>3, <1>5 DEF CancelledDue, At
  <1>11. \A t \in timers : t.f \in Fibers \ {f}
    BY <1>2 DEF TimersDue, Types, TimersAt
  <1> QED
    BY <1>1, <1>3, <1>4, <1>6, <1>7, <1>8, <1>9, <1>10, <1>11


LEMMA BeginSteps ==
  ASSUME IInv, NEW f \in Fibers, BeginIO(f) \/ BeginConnect(f) \/ BeginSleep(f)
  PROVE  IInv'
  <1> USE DEF IInv
  <1>1. CASE BeginIO(f)
    <2>1. PICK fd \in Fds, e \in Events :
            /\ ctx[fd].there /\ Free(fd, e) /\ Begin(f, "io", fd, e, TimeoutOf(fd, e), "try")
      BY <1>1 DEF BeginIO
    <2>2. UNCHANGED <<use, kern, ctx, reg, watched, reports, timers, cbs>>
      BY <1>1 DEF BeginIO
    <2>3. TimeoutOf(fd, e) \in Times
      BY DEF TimeoutOf, Types, Ctxs, Times
    <2>4. /\ call' \in [Fibers -> Calls] /\ \A g \in Fibers \ {f} : call'[g] = call[g]
          /\ InCall(f)' /\ call'[f].op = "io"
          /\ Sockets' /\ NonBlocking' /\ Waiters' /\ CallbacksDue' /\ CancelledDue'
          /\ \A t \in timers : t.f \in Fibers \ {f}
      <3>1. fd # NoFd /\ "io" # "sleep" /\ kern \in [Fds -> Kerns]
        BY TimeFacts DEF Types
      <3> QED
        BY <2>1, <2>2, <2>3, <3>1, Beginning
    <2>5. Types'
      BY <2>2, <2>4 DEF Types
    <2>6. TimersDue'
      BY <2>2, <2>4 DEF TimersDue
    <2>7. Connects'
      BY <2>2, <2>4 DEF Connects, InCall
    <2> QED
      BY <2>4, <2>5, <2>6, <2>7
  <1>2. CASE BeginConnect(f)
    <2>1. PICK fd \in Fds :
            /\ ctx[fd].there /\ Free(fd, "WRITE")
            /\ kern' = [kern EXCEPT ![fd].conn = "progress", ![fd].ready = @ \ {"WRITE"}]
            /\ Begin(f, "connect", fd, "WRITE", ConnectTimeout, "timer")
      BY <1>2 DEF BeginConnect
    <2>2. UNCHANGED <<use, ctx, reg, watched, reports, timers, cbs>>
      BY <1>2 DEF BeginConnect
    <2>3. /\ kern' \in [Fds -> Kerns]
          /\ \A d \in Fds : /\ kern'[d].open = kern[d].open
                            /\ kern'[d].nonblock = kern[d].nonblock
                            /\ d # fd => kern'[d] = kern[d]
          /\ "WRITE" \notin kern'[fd].ready
      BY <2>1 DEF Types, Kerns
    <2>4. /\ call' \in [Fibers -> Calls] /\ \A g \in Fibers \ {f} : call'[g] = call[g]
          /\ InCall(f)' /\ call'[f].op = "connect" /\ call'[f].woken = "no"
          /\ Sockets' /\ NonBlocking' /\ Waiters' /\ CallbacksDue' /\ CancelledDue'
          /\ \A t \in timers : t.f \in Fibers \ {f}
      <3>1. fd # NoFd /\ ConnectTimeout \in Times /\ "WRITE" \in Events
        BY TimeFacts DEF Times, Events
      <3>2. /\ Begin(f, "connect", fd, "WRITE", ConnectTimeout, "timer") /\ Free(fd, "WRITE")
            /\ UNCHANGED <<use, ctx, reg, watched, reports, timers, cbs>>
        BY <2>1, <2>2
      <3> QED
        BY <2>3, <3>1, <3>2, Beginning
    <2>5. Types'
      BY <2>2, <2>3, <2>4 DEF Types
    <2>6. TimersDue'
      BY <2>2, <2>4 DEF TimersDue
    <2>7. \A g \in Fibers \ {f} : InCall(g) /\ call[g].op = "connect" => call[g].fd \in Fds \ {fd}
      BY <2>1 DEF Free, Waiters, OfCall, At, InCall
    <2>8. Connects'
      BY <2>2, <2>3, <2>4, <2>7 DEF Connects, InCall
    <2> QED
      BY <2>4, <2>5, <2>6, <2>8
  <1>3. CASE BeginSleep(f)
    <2>1. PICK d \in Timeouts \ {Never} :
            /\ Begin(f, "sleep", NoFd, "READ", d, "asleep")
            /\ timers' = timers \cup {[f |-> f, n |-> call[f].n + 1, fd |-> NoFd,
                                       event |-> "READ", left |-> d]}
      BY <1>3 DEF BeginSleep
    <2>2. UNCHANGED <<use, kern, ctx, reg, watched, reports, cbs>>
      BY <1>3 DEF BeginSleep
    <2>3. d \in Times /\ d \in 0..MaxAge /\ d \in Nat /\ d # Never /\ "READ" \in Events
      BY TimeFacts DEF Times, Events
    <2>4. /\ call' \in [Fibers -> Calls] /\ \A g \in Fibers \ {f} : call'[g] = call[g]
          /\ InCall(f)' /\ call'[f].op = "sleep" /\ call'[f].n = call[f].n + 1 /\ call'[f].pc = "asleep"
          /\ call'[f].age = 0 /\ call'[f].timeout = d
          /\ Sockets' /\ NonBlocking' /\ Waiters' /\ CallbacksDue' /\ CancelledDue'
          /\ \A t \in timers : t.f \in Fibers \ {f}
      <3>1. kern \in [Fds -> Kerns] /\ NoFd \notin Fds /\ Begin(f, "sleep", NoFd, "READ", d, "asleep")
        BY <2>1, TimeFacts DEF Types
      <3> QED
        BY <2>2, <2>3, <3>1, Beginning
    <2> DEFINE t == [f |-> f, n |-> call[f].n + 1, fd |-> NoFd, event |-> "READ", left |-> d]
    <2>5. t \in TimersAt(0..MaxAge) /\ call[f].n + 1 \in Nat
      BY <2>3 DEF TimersAt, Types, Calls
    <2>6. Types'
      BY <2>1, <2>2, <2>4, <2>5 DEF Types
    <2>7. TimersDue'
      <3>1. /\ t.f = f /\ t.n = call'[f].n /\ call'[f].timeout # Never
            /\ t.left + call'[f].age >= call'[f].timeout
        BY <2>3, <2>4
      <3> HIDE DEF t
      <3>2. timers' = timers \cup {t}
        BY <2>1 DEF t
      <3>3. \A u \in timers :
              /\ call'[u.f].pc \in {"add", "wait", "woken", "asleep"} /\ call'[u.f].n = u.n
              /\ call'[u.f].timeout # Never /\ u.left + call'[u.f].age >= call'[u.f].timeout
              /\ u.f # f
        BY <2>4 DEF TimersDue
      <3> QED
        BY <2>4, <3>1, <3>2, <3>3 DEF TimersDue
    <2>8. Connects'
      BY <2>2, <2>4 DEF Connects, InCall
    <2> QED
      BY <2>4, <2>6, <2>7, <2>8
  <1> QED
    BY <1>1, <1>2, <1>3


-----------------------------------------------------------------------------
(* Timers, callbacks and the network.                                       *)

LEMMA ExpireStep ==
  ASSUME IInv, NEW t \in timers, Expire(t)
  PROVE  IInv'
  <1> USE DEF IInv
  <1>1. t \in TimersAt(0..MaxAge) /\ t.f \in Fibers /\ t.left = 0
    BY DEF Expire, Types, TimersAt
  <1>2. timers' = timers \ {t} /\ \A u \in timers' : u.f # t.f
    BY DEF Expire, TimersDue
  <1>3. UNCHANGED <<use, kern, ctx, reg, watched, reports>>
    BY DEF Expire
  <1>4. InCall(t.f) /\ call[t.f].timeout # Never
    BY DEF TimersDue, InCall
  <1>5. Due(t.f) /\ call[t.f].n = t.n
    <2>1. call[t.f].age \in Nat
      BY <1>1, TimeFacts DEF Types, Calls
    <2> QED
      BY <1>1, <2>1 DEF Due, TimersDue
  <1>6. CASE At(t.f, "asleep")
    <2>1. Return(t.f) /\ UNCHANGED cbs
      BY <1>6 DEF Expire
    <2> QED
      BY <1>1, <1>2, <1>3, <1>4, <1>6, <2>1, GoingOn DEF At, Types
  <1>7. CASE ~At(t.f, "asleep")
    <2>1. cbs' = cbs \cup {[t EXCEPT !.left = "check"]} /\ UNCHANGED call
      BY <1>7 DEF Expire
    <2> DEFINE c == [t EXCEPT !.left = "check"]
    <2>2. /\ c \in TimersAt({"check", "mark", "cancel"})
          /\ c.f = t.f /\ c.n = t.n /\ c.left = "check"
      BY <1>1 DEF TimersAt
    <2> HIDE DEF c
    <2>3. cbs' = cbs \cup {c}
      BY <2>1 DEF c
    <2>4. Types'
      BY <1>2, <1>3, <2>1, <2>2, <2>3 DEF Types
    <2>5. Sockets' /\ NonBlocking'
      BY <1>3, <2>1, SocketsFrame DEF NonBlocking, Closing
    <2>6. Waiters' /\ Connects'
      BY <1>3, <2>1 DEF Waiters, OfCall, Connects, At, InCall
    <2>7. TimersDue' /\ CancelledDue'
      BY <1>2, <2>1 DEF TimersDue, CancelledDue, InCall, At, Due
    <2>8. \A b \in cbs' : b.f \in Fibers
      BY <2>4 DEF Types, TimersAt
    <2>9. CallbacksDue'
      <3>1. c.n <= call[c.f].n /\ Due(c.f)
        BY <1>1, <1>5, <2>2 DEF TimersAt
      <3> QED
        BY <2>1, <2>2, <2>3, <3>1 DEF CallbacksDue, Alive, Due, InCall
    <2> QED
      BY <2>4, <2>5, <2>6, <2>7, <2>9
  <1> QED
    BY <1>6, <1>7

LEMMA CallbackSteps ==
  ASSUME IInv, NEW c \in cbs, CbStep(c)
  PROVE  IInv'
  <1> USE DEF IInv
  <1>1. /\ c \in TimersAt({"check", "mark", "cancel"}) /\ c.f \in Fibers /\ c.n \in Nat
        /\ c.event \in Events /\ cbs \subseteq TimersAt({"check", "mark", "cancel"})
    BY DEF Types, TimersAt
  <1>2. UNCHANGED <<use, kern, ctx, reports, timers>>
    BY DEF CbStep, CbCheck, CbMark, CbCancel
  <1>3. ASSUME NEW l \in {"mark", "cancel"}, Step(c, l)
        PROVE  \A b \in cbs' : \/ b \in cbs
                               \/ /\ b \in TimersAt({"check", "mark", "cancel"})
                                  /\ b.f = c.f /\ b.n = c.n /\ b.left = l
    BY <1>1, <1>3 DEF Step, TimersAt
  <1>5. CASE CbCheck(c)
    <2>1. UNCHANGED <<reg, watched, call>> /\ (Step(c, "mark") \/ Drop(c))
      BY <1>5 DEF CbCheck
    <2>2. CASE Drop(c)
      BY <1>2, <2>1, <2>2, Unseen DEF Drop, Types
    <2>3. CASE Step(c, "mark")
      <3>1. \A b \in cbs' : b \in TimersAt({"check", "mark", "cancel"})
        BY <1>1, <1>3, <2>3
      <3>2. Types'
        BY <1>2, <2>1, <3>1 DEF Types
      <3>3. Sockets' /\ NonBlocking'
        BY <1>2, <2>1, SocketsFrame DEF NonBlocking, Closing
      <3>4. Waiters' /\ Connects'
        BY <1>2, <2>1 DEF Waiters, OfCall, Connects, At, InCall
      <3>5. TimersDue' /\ CancelledDue'
        BY <1>2, <2>1 DEF TimersDue, CancelledDue, InCall, At, Due
      <3>6. CallbacksDue'
        <4>1. \A b \in cbs' : b \in cbs \/ (b.f = c.f /\ b.n = c.n /\ b.left = "mark")
          BY <1>3, <2>3
        <4> QED
          BY <2>1, <4>1 DEF CallbacksDue, Alive, Due, InCall
      <3> QED
        BY <3>2, <3>3, <3>4, <3>5, <3>6
    <2> QED
      BY <2>1, <2>2, <2>3
  <1>6. CASE CbMark(c)
    <2>1. UNCHANGED <<reg, watched>> /\ Step(c, "cancel")
      BY <1>6 DEF CbMark
    <2>2. /\ call' \in [Fibers -> Calls]
          /\ \A g \in Fibers :
               /\ call'[g].pc = call[g].pc /\ call'[g].op = call[g].op /\ call'[g].fd = call[g].fd
               /\ call'[g].event = call[g].event /\ call'[g].timeout = call[g].timeout
               /\ call'[g].n = call[g].n /\ call'[g].age = call[g].age
               /\ call'[g].woken = call[g].woken
               /\ call'[g].cancelled = (call[g].cancelled \/ (g = c.f /\ Alive(c)))
      <3>1. CASE Alive(c)
        <4>1. call' = [call EXCEPT ![c.f].cancelled = TRUE]
          BY <1>6, <3>1 DEF CbMark
        <4>2. \A g \in Fibers \ {c.f} : call'[g] = call[g]
          BY <1>1, <4>1 DEF Types
        <4>3. call'[c.f] = [call[c.f] EXCEPT !.cancelled = TRUE] /\ call[c.f] \in Calls
          BY <1>1, <4>1 DEF Types
        <4>4. call' \in [Fibers -> Calls]
          <5>1. call'[c.f] \in Calls
            BY <4>3 DEF Calls
          <5> QED
            BY <1>1, <4>1, <4>2, <5>1 DEF Types
        <4>5. \A g \in Fibers : call[g].cancelled \in BOOLEAN
          BY DEF Types, Calls
        <4> QED
          BY <3>1, <4>2, <4>3, <4>4, <4>5 DEF Calls
      <3>2. CASE ~Alive(c)
        <4>1. call' = call
          BY <1>6, <3>2 DEF CbMark
        <4>2. \A g \in Fibers : call[g].cancelled \in BOOLEAN
          BY DEF Types, Calls
        <4> QED
          BY <3>2, <4>1, <4>2 DEF Types
      <3> QED
        BY <3>1, <3>2
    <2>3. \A g \in Fibers : /\ InCall(g)' <=> InCall(g)
                            /\ Due(g)' <=> Due(g)
                            /\ Closing(g)' <=> Closing(g)
      BY <2>2 DEF InCall, Due, Closing
    <2>4. \A b \in cbs' : b \in TimersAt({"check", "mark", "cancel"})
      BY <1>1, <1>3, <2>1
    <2>5. Types'
      BY <1>2, <2>1, <2>2, <2>4 DEF Types
    <2>6. Sockets' /\ NonBlocking'
      BY <1>2, <2>2, <2>3, SocketsFrame DEF NonBlocking
    <2>7. Waiters'
      <3>1. \A g \in Fibers : OfCall(g)'
        BY <2>2, <2>3 DEF OfCall, Waiters, At
      <3>2. \A d \in Fds, v \in Events : reg[d][v] # NoFiber => reg[d][v] \in Fibers
        BY DEF Types
      <3> QED
        BY <2>1, <2>2, <2>3, <3>1, <3>2 DEF Waiters, At
    <2>8. Connects'
      BY <1>2, <2>2, <2>3 DEF Connects
    <2>9. TimersDue'
      <3>1. \A t \in timers : t.f \in Fibers
        BY DEF Types, TimersAt
      <3> QED
        BY <1>2, <2>2, <3>1 DEF TimersDue
    <2>10. Alive(c) => Due(c.f)
      BY DEF CallbacksDue
    <2>11. CancelledDue'
      <3> SUFFICES ASSUME NEW g \in Fibers, InCall(g)'
                   PROVE  /\ call'[g].cancelled => Due(g)'
                          /\ call'[g].woken = "timer" => call'[g].cancelled /\ ~At(g, "check")'
        BY DEF CancelledDue
      <3>1. InCall(g) /\ (Due(g)' <=> Due(g)) /\ (At(g, "check")' <=> At(g, "check"))
        BY <2>2, <2>3 DEF At
      <3>2. /\ call[g].cancelled => Due(g)
            /\ call[g].woken = "timer" => call[g].cancelled /\ ~At(g, "check")
        BY <3>1 DEF CancelledDue
      <3>3. g = c.f /\ Alive(c) => Due(g)
        BY <2>10
      <3>4. call'[g].woken = call[g].woken
            /\ (call'[g].cancelled <=> call[g].cancelled \/ (g = c.f /\ Alive(c)))
        BY <2>2
      <3> QED
        BY <3>1, <3>2, <3>3, <3>4
    <2>12. CallbacksDue'
      <3>1. \A b \in cbs' : b \in cbs \/ (b.f = c.f /\ b.n = c.n)
        BY <1>3, <2>1
      <3>2. \A b \in cbs' : b.f \in Fibers
        BY <2>5 DEF Types, TimersAt
      <3>3. \A b \in cbs' : b.n <= call'[b.f].n
        BY <2>2, <3>1, <3>2 DEF CallbacksDue
      <3>4. \A b \in cbs' : Alive(b)' => Alive(b)
        BY <2>2, <2>3, <3>2 DEF Alive
      <3>5. \A b \in cbs' : Alive(b)' => Due(b.f) /\ (b.left = "cancel" => call'[b.f].cancelled)
        <4>1. \A b \in cbs' : b \notin cbs => (Alive(b) <=> Alive(c)) /\ b.f = c.f
          BY <3>1 DEF Alive
        <4> QED
          BY <2>2, <2>10, <3>2, <3>4, <4>1 DEF CallbacksDue
      <3> QED
        BY <2>3, <3>2, <3>3, <3>5 DEF CallbacksDue
    <2> QED
      BY <2>5, <2>6, <2>7, <2>8, <2>9, <2>11, <2>12
  <1>7. CASE CbCancel(c)
    <2>1. c.left = "cancel" /\ cbs' \subseteq cbs
      BY <1>7 DEF CbCancel, Drop
    <2>2. CASE c.fd \in watched /\ reg[c.fd][c.event] # NoFiber
      <3> DEFINE why == IF reg[c.fd][c.event] = c.f /\ Alive(c) THEN "timer" ELSE "other"
      <3>1. Unregister(c.fd, {c.event}) /\ call' = Triggered(c.fd, {c.event}, why)
        BY <1>7, <2>2 DEF CbCancel
      <3>2. c.fd \in Fds
        BY <2>2 DEF Types
      <3>3. /\ why \in {"event", "timer", "other"} /\ why # "event"
            /\ why = "timer" => call[reg[c.fd][c.event]].cancelled
        BY <2>1 DEF CallbacksDue
      <3> HIDE DEF why
      <3> QED
        BY <1>1, <1>2, <2>1, <3>1, <3>2, <3>3, WakingSteps
    <2>3. CASE ~(c.fd \in watched /\ reg[c.fd][c.event] # NoFiber)
      <3>1. /\ UNCHANGED <<reg, watched>>
            /\ call' = IF Alive(c) /\ call[c.f].pc \in {"try", "timer", "add"}
                       THEN [call EXCEPT ![c.f].woken = "missed"] ELSE call
        BY <1>7, <2>3 DEF CbCancel
      <3>2. CASE call' = call
        BY <1>2, <2>1, <3>1, <3>2, Unseen DEF Types
      <3>3. CASE /\ Alive(c) /\ call[c.f].pc \in {"try", "timer", "add"}
                 /\ call' = [call EXCEPT ![c.f].woken = "missed"]
        <4>1. /\ call' \in [Fibers -> Calls]
              /\ \A g \in Fibers : /\ SameCall(g) /\ call'[g].pc = call[g].pc
                                   /\ call'[g].woken = call[g].woken \/ call'[g].woken = "missed"
          <5>1. \A g \in Fibers \ {c.f} : call'[g] = call[g]
            BY <1>1, <3>3 DEF Types
          <5>2. call'[c.f] = [call[c.f] EXCEPT !.woken = "missed"] /\ call[c.f] \in Calls
            BY <1>1, <3>3 DEF Types
          <5>3. call' \in [Fibers -> Calls]
            <6>1. call'[c.f] \in Calls
              BY <5>2 DEF Calls
            <6> QED
              BY <1>1, <3>3, <5>1, <6>1 DEF Types
          <5> QED
            BY <5>1, <5>2, <5>3 DEF SameCall, Calls
        <4>2. \A g \in Fibers : /\ InCall(g)' <=> InCall(g)
                                /\ Closing(g)' <=> Closing(g)
          BY <4>1 DEF InCall, Closing
        <4>3. Types'
          BY <1>2, <2>1, <3>1, <4>1 DEF Types
        <4>4. Sockets' /\ NonBlocking'
          BY <1>2, <4>1, <4>2, SocketsFrame DEF NonBlocking, SameCall
        <4>5. Waiters'
          <5>1. \A g \in Fibers : OfCall(g)'
            BY <4>1, <4>2 DEF OfCall, Waiters, At, SameCall
          <5>2. \A d \in Fds, v \in Events :
                  reg[d][v] # NoFiber => reg[d][v] \in Fibers /\ call'[reg[d][v]].pc = "wait"
            BY <4>1 DEF Types, Waiters, At
          <5> QED
            BY <3>1, <4>1, <4>2, <5>1, <5>2, WaitersFrame
        <4>6. TimersDue' /\ CallbacksDue' /\ CancelledDue'
          <5>1. \A t \in timers' :
                  InCall(t.f)' /\ call'[t.f].pc \in {"add", "wait", "woken", "asleep"}
            <6>1. \A t \in timers : t.f \in Fibers /\ InCall(t.f)
              BY DEF Types, TimersAt, TimersDue, InCall
            <6> QED
              BY <1>2, <4>1, <4>2, <6>1 DEF TimersDue
          <5>2. \A g \in Fibers : InCall(g)' /\ call'[g].woken = "timer" =>
                                    call'[g].cancelled /\ ~At(g, "check")'
            BY <4>1, <4>2 DEF CancelledDue, SameCall, At
          <5>3. \A g \in Fibers : call[g].n <= call'[g].n
            BY <4>1 DEF SameCall, Types, Calls
          <5> QED
            BY <1>2, <2>1, <4>1, <4>2, <5>1, <5>2, <5>3, DueFrame
        <4>7. Connects'
          BY <1>2, <4>1, <4>2 DEF Connects, SameCall
        <4> QED
          BY <4>3, <4>4, <4>5, <4>6, <4>7
      <3> QED
        BY <3>1, <3>2, <3>3
    <2> QED
      BY <2>2, <2>3
  <1> QED
    BY <1>5, <1>6, <1>7 DEF CbStep

LEMMA TickStep ==
  ASSUME IInv, Tick
  PROVE  IInv'
  <1> USE DEF IInv
  <1>1. UNCHANGED <<use, kern, ctx, reg, watched, reports, cbs>>
    BY DEF Tick
  <1>2. /\ call' \in [Fibers -> Calls]
        /\ \A g \in Fibers :
             /\ call'[g].pc = call[g].pc /\ call'[g].op = call[g].op /\ call'[g].fd = call[g].fd
             /\ call'[g].event = call[g].event /\ call'[g].timeout = call[g].timeout
             /\ call'[g].n = call[g].n /\ call'[g].cancelled = call[g].cancelled
             /\ call'[g].woken = call[g].woken
             /\ call'[g].age = IF InCall(g) /\ call[g].age < MaxAge THEN call[g].age + 1
                               ELSE call[g].age
    <2>1. \A g \in Fibers :
            call'[g] = IF InCall(g) /\ call[g].age < MaxAge THEN [call[g] EXCEPT !.age = @ + 1]
                       ELSE call[g]
      BY DEF Tick
    <2>2. \A g \in Fibers : call[g] \in Calls
      BY DEF Types
    <2>3. \A g \in Fibers : call[g].age \in Nat /\ (call[g].age < MaxAge => call[g].age + 1 \in 0..MaxAge)
      <3>1. \A g \in Fibers : call[g].age \in 0..MaxAge
        BY <2>2 DEF Calls
      <3>2. \A a \in 0..MaxAge : a \in Nat /\ (a < MaxAge => a + 1 \in 0..MaxAge)
        BY TimeFacts
      <3> QED
        BY <3>1, <3>2
    <2>4. \A g \in Fibers : call'[g] \in Calls
      <3> SUFFICES ASSUME NEW g \in Fibers PROVE call'[g] \in Calls
        OBVIOUS
      <3>1. CASE InCall(g) /\ call[g].age < MaxAge
        <4>1. call'[g] = [call[g] EXCEPT !.age = call[g].age + 1]
          BY <2>1, <3>1
        <4>2. call[g].age + 1 \in 0..MaxAge
          BY <2>3, <3>1
        <4> QED
          BY <2>2, <4>1, <4>2, Aged
      <3>2. CASE ~(InCall(g) /\ call[g].age < MaxAge)
        BY <2>1, <2>2, <3>2
      <3> QED
        BY <3>1, <3>2
    <2>5. call' \in [Fibers -> Calls]
      BY <2>4 DEF Tick
    <2> QED
      BY <2>1, <2>2, <2>5 DEF Calls
  <1>3. \A g \in Fibers : call[g].age \in Nat /\ call[g].age <= MaxAge /\ call[g].age <= call'[g].age
    BY <1>2, TimeFacts DEF Types, Calls
  <1>4. \A g \in Fibers : /\ InCall(g)' <=> InCall(g)
                          /\ Closing(g)' <=> Closing(g)
    BY <1>2 DEF InCall, Closing
  <1>5. \A g \in Fibers : call[g].timeout # Never => call[g].timeout \in 0..MaxAge
    BY TimeFacts DEF Types, Calls
  <1>6. \A g \in Fibers : Due(g) => Due(g)'
    BY <1>2, <1>3, <1>5, TimeFacts DEF Due
  <1> DEFINE left(t) == IF t.left = 0 THEN 0 ELSE t.left - 1
  <1>7. \A t \in timers' : \E u \in timers :
          /\ t = [u EXCEPT !.left = left(u)] /\ t \in TimersAt(0..MaxAge)
          /\ t.f = u.f /\ t.n = u.n /\ t.left = left(u)
    <2>1. timers' = {[u EXCEPT !.left = left(u)] : u \in timers}
      BY DEF Tick
    <2>2. \A u \in timers : u \in TimersAt(0..MaxAge) /\ left(u) \in 0..MaxAge
      BY TimeFacts DEF Types, TimersAt
    <2> QED
      BY <2>1, <2>2 DEF TimersAt
  <1>8. Types'
    BY <1>1, <1>2, <1>7 DEF Types
  <1>9. Sockets' /\ NonBlocking'
    BY <1>1, <1>2, <1>4, SocketsFrame DEF NonBlocking
  <1>10. Waiters'
    <2>1. \A g \in Fibers : OfCall(g)'
      BY <1>2, <1>4 DEF OfCall, Waiters, At
    <2>2. \A d \in Fds, v \in Events : reg[d][v] # NoFiber => reg[d][v] \in Fibers
      BY DEF Types
    <2> QED
      BY <1>1, <1>2, <1>4, <2>1, <2>2 DEF Waiters, At
  <1>11. TimersDue'
    <2>1. \A t \in timers' :
            /\ call'[t.f].pc \in {"add", "wait", "woken", "asleep"} /\ call'[t.f].n = t.n
            /\ call'[t.f].timeout # Never /\ t.left + call'[t.f].age >= call'[t.f].timeout
      <3> SUFFICES ASSUME NEW t \in timers'
                   PROVE  /\ call'[t.f].pc \in {"add", "wait", "woken", "asleep"}
                          /\ call'[t.f].n = t.n /\ call'[t.f].timeout # Never
                          /\ t.left + call'[t.f].age >= call'[t.f].timeout
        OBVIOUS
      <3>1. PICK u \in timers : t.f = u.f /\ t.n = u.n /\ t.left = left(u)
        BY <1>7
      <3>2. u.f \in Fibers /\ u.left \in Nat
        BY TimeFacts DEF Types, TimersAt
      <3>3. /\ call[u.f].pc \in {"add", "wait", "woken", "asleep"} /\ call[u.f].n = u.n
            /\ call[u.f].timeout # Never /\ u.left + call[u.f].age >= call[u.f].timeout
            /\ InCall(u.f)
        BY DEF TimersDue, InCall
      <3>4. call[u.f].timeout \in Nat /\ call[u.f].timeout <= MaxAge /\ MaxAge \in Nat
        BY <1>5, <3>2, <3>3, TimeFacts
      <3>5. t.left + call'[t.f].age >= call'[t.f].timeout
        BY <1>2, <1>3, <3>1, <3>2, <3>3, <3>4
      <3> QED
        BY <1>2, <3>1, <3>2, <3>3, <3>5
    <2>2. \A t, u \in timers' : t.f = u.f => t = u
      BY <1>7 DEF TimersDue
    <2> QED
      BY <2>1, <2>2 DEF TimersDue
  <1>12. CallbacksDue'
    <2>1. \A c \in cbs : c.f \in Fibers /\ (Alive(c)' <=> Alive(c))
      BY <1>2, <1>4 DEF Types, TimersAt, Alive
    <2> QED
      BY <1>1, <1>2, <1>6, <2>1 DEF CallbacksDue
  <1>13. CancelledDue'
    BY <1>2, <1>4, <1>6 DEF CancelledDue, At
  <1>14. Connects'
    BY <1>1, <1>2, <1>4 DEF Connects
  <1> QED
    BY <1>8, <1>9, <1>10, <1>11, <1>12, <1>13, <1>14


LEMMA NetworkSteps ==
  ASSUME IInv, NEW fd \in Fds, NEW e \in Events, Arrive(fd, e) \/ Report(fd, e) \/ Handle(fd, e)
  PROVE  IInv'
  <1> USE DEF IInv
  <1>1. CASE Arrive(fd, e)
    <2>1. UNCHANGED <<use, ctx, reg, watched, reports, call, timers, cbs>>
      BY <1>1 DEF Arrive
    <2>2. /\ kern' \in [Fds -> Kerns]
          /\ \A d \in Fds : /\ kern'[d].open = kern[d].open /\ kern'[d].nonblock = kern[d].nonblock
                            /\ kern'[d].conn = "progress" =>
                                 kern[d].conn = "progress" /\ "WRITE" \notin kern'[d].ready
      <3>1. /\ kern \in [Fds -> Kerns] /\ kern[fd] \in Kerns
            /\ \A d \in Fds : kern[d].conn = "progress" => "WRITE" \notin kern[d].ready
        BY DEF Types, Connects
      <3>2. ASSUME NEW k \in Kerns, kern' = [kern EXCEPT ![fd] = k],
                   k.open = kern[fd].open, k.nonblock = kern[fd].nonblock, k.conn # "progress"
            PROVE  <2>2!:
        <4>1. kern' \in [Fds -> Kerns] /\ kern'[fd] = k /\ \A d \in Fds \ {fd} : kern'[d] = kern[d]
          BY <3>1, <3>2
        <4> QED
          BY <3>1, <3>2, <4>1
      <3>3. CASE /\ kern[fd].conn # "progress"
                 /\ kern' = [kern EXCEPT ![fd].ready = @ \cup {e}]
        <4> DEFINE k == [kern[fd] EXCEPT !.ready = @ \cup {e}]
        <4>1. k \in Kerns
          BY <3>1, Readied
        <4>2. /\ k.open = kern[fd].open /\ k.nonblock = kern[fd].nonblock
              /\ k.conn # "progress" /\ kern' = [kern EXCEPT ![fd] = k]
          BY <3>1, <3>3 DEF Kerns
        <4> HIDE DEF k
        <4> QED
          BY <3>2, <4>1, <4>2
      <3>4. ASSUME NEW end \in {"up", "failed"},
                   kern' = [kern EXCEPT ![fd].ready = @ \cup {e}, ![fd].conn = end]
            PROVE  <2>2!:
        <4> DEFINE k == [kern[fd] EXCEPT !.ready = @ \cup {e}, !.conn = end]
        <4>1. k \in Kerns
          BY <3>1, Readied
        <4>2. /\ k.open = kern[fd].open /\ k.nonblock = kern[fd].nonblock
              /\ k.conn # "progress"
          BY <3>1 DEF Kerns
        <4>3. kern' = [kern EXCEPT ![fd] = k]
          BY <3>1, <3>4
        <4> HIDE DEF k
        <4> QED
          BY <3>2, <4>1, <4>2, <4>3
      <3> QED
        BY <1>1, <3>3, <3>4 DEF Arrive
    <2>3. Types'
      BY <2>1, <2>2 DEF Types
    <2>4. Sockets' /\ NonBlocking'
      BY <2>1, <2>2, SocketsFrame DEF NonBlocking, Closing
    <2>5. Waiters' /\ TimersDue' /\ CancelledDue'
      BY <2>1 DEF Waiters, OfCall, TimersDue, CancelledDue, At, InCall, Due
    <2>6. CallbacksDue'
      BY <2>1 DEF CallbacksDue, Alive, Due, InCall
    <2>7. Connects'
      BY <2>1, <2>2 DEF Connects, InCall, Waiters, OfCall, At
    <2> QED
      BY <2>3, <2>4, <2>5, <2>6, <2>7
  <1>2. CASE Report(fd, e)
    <2>1. reports' \subseteq Fds \X Events
      BY <1>2 DEF Report, Types
    <2> QED
      BY <1>2, <2>1, Unseen DEF Report
  <1>3. CASE Handle(fd, e)
    <2>1. reports' \subseteq reports /\ UNCHANGED <<use, kern, ctx, timers, cbs>>
      BY <1>3 DEF Handle
    <2>2. CASE fd \in watched /\ reg[fd][e] # NoFiber
      <3> DEFINE why == IF e \in kern[fd].ready THEN "event" ELSE "other"
      <3>1. Unregister(fd, {e}) /\ call' = Triggered(fd, {e}, why)
        BY <1>3, <2>2 DEF Handle
      <3>2. /\ why \in {"event", "timer", "other"} /\ why # "timer"
            /\ why = "event" => e \in kern[fd].ready
        OBVIOUS
      <3> HIDE DEF why
      <3> QED
        BY <2>1, <3>1, <3>2, WakingSteps
    <2>3. CASE ~(fd \in watched /\ reg[fd][e] # NoFiber)
      BY <1>3, <2>1, <2>3, Unseen DEF Handle, Types
    <2> QED
      BY <2>2, <2>3
  <1> QED
    BY <1>1, <1>2, <1>3

-----------------------------------------------------------------------------
LEMMA StepKeeps == IInv /\ [Next]_vars => IInv'
  <1> SUFFICES ASSUME IInv, [Next]_vars PROVE IInv'
    OBVIOUS
  <1>1. CASE UNCHANGED vars
    BY <1>1, Unseen DEF vars, IInv, Types
  <1>2. ASSUME NEW f \in Fibers, GoesOn(f) PROVE IInv'
    BY <1>2, CloseSteps, TrySteps, AddTimerStep, AddEventStep DEF GoesOn
  <1>3. ASSUME NEW f \in Fibers,
               \/ Socket(f) \/ SetTimeout(f) \/ SetFlags(f) \/ Ioctl(f)
               \/ CloseCancel(f) \/ BeginIO(f) \/ BeginConnect(f) \/ BeginSleep(f)
        PROVE  IInv'
    BY <1>3, SocketSteps, CloseCancelStep, BeginSteps
  <1> QED
    BY <1>1, <1>2, <1>3, ExpireStep, CallbackSteps, NetworkSteps, TickStep DEF Next

LEMMA Inductive == Spec => []IInv
  BY InitHolds, StepKeeps, PTL DEF Spec

\* The kernel's and the library's records keep their types, addEvent() finds the
\* place of its event free, and no fiber has two timers (hook.cc:146-175).
THEOREM TypeCorrect == Spec => []TypeOK
  <1>1. IInv => TypeOK
    <2> SUFFICES ASSUME IInv PROVE TypeOK
      OBVIOUS
    <2>1. \A t \in timers : t.left \in 0..MaxAge
      BY DEF IInv, Types, TimersAt
    <2>2. \A f \in Fibers : At(f, "add") => reg[call[f].fd][call[f].event] = NoFiber
      <3> SUFFICES ASSUME NEW f \in Fibers, At(f, "add") PROVE reg[call[f].fd][call[f].event] = NoFiber
        OBVIOUS
      <3>1. InCall(f) /\ call[f].fd \in Fds /\ call[f].event \in Events
        BY DEF IInv, Waiters, OfCall, At, InCall, Types, Calls
      <3>2. ASSUME NEW g \in Fibers, g = reg[call[f].fd][call[f].event] PROVE FALSE
        <4>1. call[g].pc = "wait" /\ call[g].fd = call[f].fd /\ call[g].event = call[f].event
          BY <3>1, <3>2, TimeFacts DEF IInv, Waiters, At
        <4> QED
          BY <3>1, <4>1 DEF IInv, Waiters, At, InCall
      <3> QED
        BY <3>1, <3>2 DEF IInv, Types
    <2> QED
      BY <2>1, <2>2 DEF IInv, Types, Kerns, Ctxs, TypeOK, TimersDue
  <1> QED
    BY <1>1, Inductive, PTL

\* An open socket that is not being closed has its context (hook.cc:247-259, 417-432).
THEOREM AlwaysManaged == Spec => []SocketsAreManaged
  BY Inductive, PTL DEF IInv, Sockets

\* What moves a fiber: its own steps, and while it waits also the steps of others.
LEMMA Movers ==
  ASSUME IInv, Next, NEW g \in Fibers
  PROVE  \/ GoesOn(g)
         \/ call'[g].pc = call[g].pc
         \/ At(g, "user")
         \/ At(g, "wait")
         \/ At(g, "asleep") /\ \E t \in timers : t.f = g /\ t.left = 0
  <1> USE DEF IInv, At
  <1>1. ASSUME NEW f \in Fibers, f # g, Goto(f, call'[f].pc) \/ Return(f)
        PROVE  call'[g] = call[g]
    BY <1>1 DEF Goto, Return, Types
  <1>2. ASSUME NEW f \in Fibers, f # g, GoesOn(f) PROVE call'[g].pc = call[g].pc
    <2>1. call'[g] = call[g]
      BY <1>2 DEF GoesOn, ForgetThenClose, Try, AddTimer, AddEvent, CancelTimer, SeeCancelled,
                  CheckConnect, Goto, Return, Types
    <2> QED
      BY <2>1
  <1>3. ASSUME NEW f \in Fibers, Socket(f) \/ SetTimeout(f) \/ SetFlags(f) \/ Ioctl(f)
        PROVE  call'[g].pc = call[g].pc
    BY <1>3 DEF Socket, SetTimeout, SetFlags, Ioctl
  <1>4. ASSUME NEW fd \in Fds, NEW why, NEW es \in SUBSET Events,
               Triggered(fd, es, why)[g].pc # call[g].pc
        PROVE  At(g, "wait")
    <2>1. PICK e \in es : reg[fd][e] = g
      BY <1>4 DEF Triggered
    <2> QED
      BY <2>1, TimeFacts DEF Waiters
  <1>5. ASSUME NEW f \in Fibers, CloseCancel(f)
        PROVE  call'[g].pc = call[g].pc \/ At(g, "user") \/ At(g, "wait")
    <2>1. PICK fd \in Fds, es \in SUBSET Events :
            call' = [Triggered(fd, es, "other") EXCEPT ![f].pc = "closeDel", ![f].fd = fd,
                                                       ![f].n = @ + 1]
      BY <1>5 DEF CloseCancel
    <2>2. CASE f = g
      BY <1>5, <2>2 DEF CloseCancel
    <2>3. CASE f # g
      <3>1. call'[g] = Triggered(fd, es, "other")[g]
        BY <2>1, <2>3 DEF Triggered
      <3> QED
        BY <1>4, <3>1
    <2> QED
      BY <2>2, <2>3
  <1>6. ASSUME NEW f \in Fibers, BeginIO(f) \/ BeginConnect(f) \/ BeginSleep(f)
        PROVE  call'[g].pc = call[g].pc \/ At(g, "user")
    <2>1. At(f, "user") /\ (f # g => call'[g] = call[g])
      BY <1>6 DEF BeginIO, BeginConnect, BeginSleep, Begin, Types
    <2> QED
      BY <2>1
  <1>7. ASSUME NEW t \in timers, Expire(t)
        PROVE  \/ call'[g].pc = call[g].pc
               \/ At(g, "asleep") /\ t.f = g /\ t.left = 0
    <2>1. t.f \in Fibers
      BY DEF Types, TimersAt
    <2>2. CASE t.f = g /\ At(g, "asleep")
      BY <1>7, <2>2 DEF Expire
    <2>3. CASE ~(t.f = g /\ At(g, "asleep"))
      <3>1. call'[g] = call[g]
        BY <1>7, <2>1, <2>3 DEF Expire, Return, Types
      <3> QED
        BY <3>1
    <2> QED
      BY <2>2, <2>3
  <1>8. ASSUME NEW c \in cbs, CbStep(c) PROVE call'[g].pc = call[g].pc \/ At(g, "wait")
    <2>1. c.f \in Fibers /\ c.event \in Events
      BY DEF Types, TimersAt
    <2>2. CASE CbCheck(c)
      BY <2>2 DEF CbCheck
    <2>3. CASE CbMark(c)
      BY <2>1, <2>3 DEF CbMark, Types, Calls
    <2>4. CASE CbCancel(c)
      <3>1. CASE c.fd \in watched /\ reg[c.fd][c.event] # NoFiber
        <4>1. PICK why : call' = Triggered(c.fd, {c.event}, why)
          BY <2>4, <3>1 DEF CbCancel
        <4>2. c.fd \in Fds /\ {c.event} \in SUBSET Events
          BY <2>1, <3>1 DEF Types
        <4> QED
          BY <1>4, <4>1, <4>2
      <3>2. CASE ~(c.fd \in watched /\ reg[c.fd][c.event] # NoFiber)
        <4>1. call' = [call EXCEPT ![c.f].woken = "missed"] \/ call' = call
          BY <2>4, <3>2 DEF CbCancel
        <4>2. [call EXCEPT ![c.f].woken = "missed"][g].pc = call[g].pc
          <5>1. CASE c.f = g
            BY <5>1 DEF Types, Calls
          <5>2. CASE c.f # g
            BY <2>1, <5>2 DEF Types
          <5> QED
            BY <5>1, <5>2
        <4> QED
          BY <4>1, <4>2
      <3> QED
        BY <3>1, <3>2
    <2> QED
      BY <1>8, <2>2, <2>3, <2>4 DEF CbStep
  <1>9. ASSUME NEW fd \in Fds, NEW e \in Events, Arrive(fd, e) \/ Report(fd, e) \/ Handle(fd, e)
        PROVE  call'[g].pc = call[g].pc \/ At(g, "wait")
    <2>1. call' = call \/ \E why : call' = Triggered(fd, {e}, why)
      BY <1>9 DEF Arrive, Report, Handle
    <2>2. {e} \in SUBSET Events
      OBVIOUS
    <2> QED
      BY <1>4, <2>1, <2>2
  <1>10. ASSUME Tick PROVE call'[g].pc = call[g].pc
    BY <1>10 DEF Tick, Types, Calls
  <1> QED
    BY <1>2, <1>3, <1>5, <1>6, <1>7, <1>8, <1>9, <1>10 DEF Next

\* No call on a managed socket blocks its thread (hook.cc:141-147, 443-548).
THEOREM NeverBlocking == Spec => NeverBlocksThread
  <1>1. ASSUME IInv, Next, NEW f \in Fibers, At(f, "try"), At(f, "blocked")'
        PROVE  "ioctl off" \in use \/ ~ctx[call[f].fd].there
    <2>1. GoesOn(f)
      BY <1>1, Movers DEF At
    <2>2. Try(f)
      BY <1>1, <2>1 DEF GoesOn, ForgetThenClose, AddTimer, AddEvent, CancelTimer, SeeCancelled,
                        CheckConnect, At
    <2>3. Return(f) => call'[f].pc = "user"
      BY <1>1 DEF IInv, Types, Return, NoCall, Calls
    <2>4. kern[call[f].fd].open /\ ~kern[call[f].fd].nonblock
      <3>1. Goto(f, "timer") => call'[f].pc = "timer"
        BY <1>1 DEF IInv, Types, Goto, Calls
      <3> QED
        BY <1>1, <2>2, <2>3, <3>1 DEF Try, At
    <2>5. call[f].fd \in Fds
      BY <1>1 DEF IInv, Waiters, OfCall, At, InCall
    <2> QED
      BY <1>1, <2>4, <2>5 DEF IInv, NonBlocking
  <1>2. ASSUME IInv, UNCHANGED call, NEW f \in Fibers, At(f, "try") PROVE ~At(f, "blocked")'
    BY <1>2 DEF At
  <1>3. IInv /\ [Next]_vars => [\A f \in Fibers : (At(f, "try") /\ At(f, "blocked")') =>
                                   "ioctl off" \in use \/ ~ctx[call[f].fd].there]_call
    BY <1>1 DEF vars
  <1> QED
    BY <1>3, Inductive, PTL DEF Spec, NeverBlocksThread

\* Who comes back timed out, or from a sleep, has been away as long as it asked
\* (hook.cc:146-184, 201-244, 289-318).
THEOREM TimeoutsAreKept == Spec => TimeIsKept
  <1>1. ASSUME IInv, Next, NEW f \in Fibers, At(f, "back") \/ At(f, "asleep"), At(f, "user")'
        PROVE  call[f].age >= call[f].timeout
    <2>1. CASE At(f, "back")
      <3>1. GoesOn(f)
        BY <1>1, <2>1, Movers DEF At
      <3>2. SeeCancelled(f)
        BY <2>1, <3>1 DEF GoesOn, ForgetThenClose, Try, AddTimer, AddEvent, CancelTimer,
                          CheckConnect, At
      <3>3. call[f].cancelled
        <4>1. \A l \in {"try", "check"} : Goto(f, l) => call'[f].pc = l
          BY <1>1 DEF IInv, Types, Goto, Calls
        <4> QED
          BY <1>1, <3>2, <4>1 DEF SeeCancelled, At
      <3> QED
        BY <1>1, <2>1, <3>3 DEF IInv, CancelledDue, Due, InCall, At
    <2>2. CASE At(f, "asleep")
      <3>1. ~GoesOn(f)
        BY <2>2 DEF GoesOn, ForgetThenClose, Try, AddTimer, AddEvent, CancelTimer,
                    SeeCancelled, CheckConnect, At
      <3>2. PICK t \in timers : t.f = f /\ t.left = 0
        BY <1>1, <2>2, <3>1, Movers DEF At
      <3>3. 0 + call[f].age >= call[f].timeout
        BY <1>1, <3>2 DEF IInv, TimersDue
      <3>4. call[f].age \in Nat
        BY <1>1, TimeFacts DEF IInv, Types, Calls
      <3> QED
        BY <3>3, <3>4
    <2> QED
      BY <1>1, <2>1, <2>2
  <1>2. IInv /\ [Next]_vars =>
          [\A f \in Fibers : ((At(f, "back") \/ At(f, "asleep")) /\ At(f, "user")')
                               => call[f].age >= call[f].timeout]_call
    BY <1>1 DEF vars
  <1> QED
    BY <1>2, Inductive, PTL DEF Spec, TimeIsKept

\* connect() does not say 0 after its own timeout, nor after an event that was not
\* the connection's (hook.cc:289-338).
THEOREM ConnectTellsTheTruth == Spec => ConnectIsTrue
  <1>1. ASSUME IInv, NEW f \in Fibers, At(f, "check"), kern[call[f].fd].conn = "progress"
        PROVE  call[f].woken \notin {"event", "timer"}
    BY <1>1 DEF IInv, CancelledDue, Connects, Waiters, OfCall, At, InCall
  <1>2. IInv /\ [Next]_vars =>
          [\A f \in Fibers : (At(f, "check") /\ At(f, "user")' /\ kern[call[f].fd].conn = "progress")
                               => call[f].woken \notin {"event", "timer"}]_call
    BY <1>1
  <1> QED
    BY <1>2, Inductive, PTL DEF Spec, ConnectIsTrue

=============================================================================
