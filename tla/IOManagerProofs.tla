--------------------------- MODULE IOManagerProofs ---------------------------
(***************************************************************************)
(* Theorems of IOManager, for any number of workers and of tasks: its      *)
(* counter of pending events does not wrap, a task that waits is known to  *)
(* exactly one place that will wake it, and what TaskProofs shows of the   *)
(* tasks of a Scheduler holds of those of the subclass.  For one worker:   *)
(* stop() leaves no task behind.                                           *)
(***************************************************************************)
EXTENDS IOManager, TaskProofs

-----------------------------------------------------------------------------
(* The inductive invariant.                                                 *)

\* pending counts every registration, also one that a task which moves between
\* the threads has made twice; the callbacks that a thread took out of timers_
\* are scheduled before it goes on.
IOTypes ==
  /\ pending \in Nat /\ IsFiniteSet(events) /\ pending >= Cardinality(events)
  /\ events \subseteq Tasks /\ ready \subseteq events
  /\ IsFiniteSet(timers) /\ timers \subseteq Tasks /\ elapsed \subseteq timers
  /\ tickled \in BOOLEAN
  /\ got \in [Workers -> SUBSET (Tasks \cup {Pipe})]
  /\ due \in [Workers -> SUBSET Tasks]
  /\ \A w \in Workers : IsFiniteSet(due[w]) /\ (pc[w] # "push" => due[w] = {})

\* Where the wakeup of a task is.
Source(t) ==
  /\ t \in armed <=> t \in events \/ t \in timers \/ \E w \in Workers : t \in due[w]
  /\ ~(t \in events /\ t \in timers)
  /\ \A w \in Workers : t \in due[w] => t \notin events /\ t \notin timers
  /\ \A v, w \in Workers : t \in due[v] /\ t \in due[w] => v = w

Sources == \A t \in Stayers : Source(t)

\* That of a Scheduler, and that of its wakeups.
CoreInv == IInv /\ TaskInv /\ NoFault
IOInv   == CoreInv /\ IOTypes /\ Sources

-----------------------------------------------------------------------------
(* schedule(begin, end): a batch of wakeups behind the queue.               *)

\* A sequence of all of a finite set, each once, has all of it.
LEMMA BatchIsAll ==
  ASSUME NEW S, IsFiniteSet(S), NEW b \in SetToSeqs(S)
  PROVE  /\ Cardinality(S) \in Nat /\ DOMAIN b = 1..Cardinality(S)
         /\ \A i \in DOMAIN b : b[i] \in S
         /\ \A i, j \in DOMAIN b : b[i] = b[j] => i = j
         /\ \A x \in S : \E i \in DOMAIN b : b[i] = x
PROOF
<1> DEFINE n == Cardinality(S)
<1>1. n \in Nat /\ b \in [1..n -> S] /\ \A i, j \in 1..n : i # j => b[i] # b[j]
  BY FS_CardinalityType DEF SetToSeqs
<1>2. b \in Injection(1..n, S)
  BY <1>1 DEF Injection, IsInjective
<1>3. Cardinality(1..n) = n
  BY <1>1, FS_Interval
<1>4. b \in Surjection(1..n, S)
  BY <1>2, <1>3, FS_Injection
<1> QED
  BY <1>1, <1>4 DEF Surjection

\* What scheduling a batch of wakeups does to the entries of each task.
LEMMA BatchAppended ==
  ASSUME TypeOK, NEW S, S \subseteq Tasks, IsFiniteSet(S), NEW b \in SetToSeqs(S),
         queue' = queue \o [i \in DOMAIN b |->
                              [task |-> b[i], kind |-> "wake", thread |-> AnyThread]]
  PROVE  /\ queue' \in Seq(Entry)
         /\ \A u : /\ Queued(u)' <=> Queued(u) \/ u \in S
                   /\ QueuedOnce(u) /\ ~(Queued(u) /\ u \in S) => QueuedOnce(u)'
                   /\ CbQueued(u)' => CbQueued(u)
PROOF
<1> DEFINE e(t) == [task |-> t, kind |-> "wake", thread |-> AnyThread]
           more == [i \in DOMAIN b |-> e(b[i])]
           n    == Len(queue)
           k    == Cardinality(S)
<1>1. /\ k \in Nat /\ DOMAIN b = 1..k /\ \A i \in 1..k : b[i] \in S
      /\ \A i, j \in 1..k : b[i] = b[j] => i = j
      /\ \A x \in S : \E i \in 1..k : b[i] = x
  BY BatchIsAll
<1>2. \A t \in Tasks : e(t) \in Entry /\ e(t).task = t /\ e(t).kind = "wake"
  BY DEF Entry
<1>3. queue \in Seq(Entry) /\ queue' = queue \o more
  BY DEF TypeOK
<1> HIDE DEF e, Entry
<1>4. more \in Seq(Entry) /\ Len(more) = k /\ \A i \in 1..k : more[i] = e(b[i])
  <2>1. \A i \in 1..k : e(b[i]) \in Entry
    BY <1>1, <1>2
  <2>2. more \in [1..k -> Entry]
    BY <1>1, <2>1
  <2>3. \A i \in 1..k : more[i] = e(b[i])
    BY <1>1
  <2> HIDE DEF more, k
  <2>4. more \in Seq(Entry) /\ Len(more) = k
    BY <1>1, <2>2
  <2> QED
    BY <2>3, <2>4
<1> HIDE DEF more, k
<1>5. /\ queue' \in Seq(Entry) /\ n \in Nat /\ DOMAIN queue = 1..n /\ DOMAIN queue' = 1..(n + k)
      /\ \A i \in 1..n : queue'[i] = queue[i]
      /\ \A i \in 1..k : queue'[n + i] = e(b[i])
  <2>1. n \in Nat /\ DOMAIN queue = 1..n
    BY <1>3
  <2>2. /\ queue' \in Seq(Entry) /\ Len(queue') = n + k
        /\ \A i \in 1..(n + k) : queue'[i] = IF i <= n THEN queue[i] ELSE more[i - n]
    <3>1. /\ queue \o more \in Seq(Entry) /\ Len(queue \o more) = Len(queue) + Len(more)
          /\ \A i \in 1..Len(queue) + Len(more) :
               (queue \o more)[i] = IF i <= Len(queue) THEN queue[i] ELSE more[i - Len(queue)]
      BY <1>3, <1>4, ConcatProperties
    <3> QED
      BY <1>3, <1>4, <3>1
  <2>3. \A i \in 1..k : n + i \in 1..(n + k) /\ ~(n + i <= n) /\ (n + i) - n = i
    BY <1>1, <2>1
  <2>4. \A i \in 1..n : i \in 1..(n + k) /\ i <= n
    BY <1>1, <2>1
  <2>5. \A i \in 1..n : queue'[i] = queue[i]
    BY <2>2, <2>4
  <2>6. \A i \in 1..k : queue'[n + i] = e(b[i])
    <3> SUFFICES ASSUME NEW i \in 1..k PROVE queue'[n + i] = e(b[i])
      OBVIOUS
    <3>1. queue'[n + i] = more[(n + i) - n]
      BY <2>2, <2>3
    <3> QED
      BY <1>4, <2>3, <3>1
  <2>7. DOMAIN queue' = 1..(n + k)
    BY <2>2
  <2> QED
    BY <2>1, <2>2, <2>5, <2>6, <2>7
<1>6. \A i \in 1..(n + k) : i \in 1..n \/ \E j \in 1..k : i = n + j
  <2> SUFFICES ASSUME NEW i \in 1..(n + k), i \notin 1..n PROVE i - n \in 1..k /\ i = n + (i - n)
    OBVIOUS
  <2> QED
    BY <1>1, <1>5
<1>7. \A i \in 1..k : n + i \in 1..(n + k)
  BY <1>1, <1>5
<1>8. \A i \in 1..n : i \in 1..(n + k)
  BY <1>1, <1>5
<1> HIDE DEF n
<1>9. \A i \in 1..k : queue'[n + i].task = b[i] /\ queue'[n + i].kind = "wake" /\ b[i] \in S
  BY <1>1, <1>2, <1>5
<1> SUFFICES ASSUME NEW u
             PROVE  /\ Queued(u)' <=> Queued(u) \/ u \in S
                    /\ QueuedOnce(u) /\ ~(Queued(u) /\ u \in S) => QueuedOnce(u)'
                    /\ CbQueued(u)' => CbQueued(u)
  BY <1>5
<1>10. Queued(u)' <=> Queued(u) \/ u \in S
  <2>1. ASSUME Queued(u)' PROVE Queued(u) \/ u \in S
    <3>1. PICK i \in 1..(n + k) : queue'[i].task = u
      BY <1>5, <2>1 DEF Queued
    <3> QED
      BY <1>5, <1>6, <1>9, <3>1 DEF Queued
  <2>2. ASSUME Queued(u) PROVE Queued(u)'
    BY <1>5, <1>8, <2>2 DEF Queued
  <2>3. ASSUME u \in S PROVE Queued(u)'
    <3>1. PICK i \in 1..k : b[i] = u
      BY <1>1, <2>3
    <3>2. n + i \in DOMAIN queue' /\ queue'[n + i].task = u
      BY <1>5, <1>7, <1>9, <3>1
    <3> QED
      BY <3>2 DEF Queued
  <2> QED
    BY <2>1, <2>2, <2>3
<1>11. CbQueued(u)' => CbQueued(u)
  <2>1. "wake" # "cb"
    OBVIOUS
  <2> SUFFICES ASSUME NEW i \in 1..(n + k), queue'[i].task = u, queue'[i].kind = "cb"
               PROVE  CbQueued(u)
    BY <1>5 DEF CbQueued
  <2> QED
    BY <1>5, <1>6, <1>9, <2>1 DEF CbQueued
<1>12. ASSUME QueuedOnce(u), ~(Queued(u) /\ u \in S) PROVE QueuedOnce(u)'
  <2> SUFFICES ASSUME NEW i \in 1..(n + k), NEW j \in 1..(n + k),
                      queue'[i].task = u, queue'[j].task = u
               PROVE  i = j
    BY <1>5 DEF QueuedOnce
  <2>1. CASE i \in 1..n /\ j \in 1..n
    BY <1>5, <1>12, <2>1 DEF QueuedOnce
  <2>2. ASSUME NEW x \in 1..k, NEW y \in 1..k, i = n + x, j = n + y PROVE i = j
    <3>1. b[x] = u /\ b[y] = u
      BY <1>9, <2>2
    <3> QED
      BY <1>1, <2>2, <3>1
  <2>3. ASSUME NEW x \in 1..n, NEW y \in 1..k, queue'[x].task = u, queue'[n + y].task = u
        PROVE  FALSE
    BY <1>5, <1>9, <1>12, <2>3 DEF Queued
  <2> QED
    BY <1>6, <2>1, <2>2, <2>3
<1> QED
  BY <1>10, <1>11, <1>12


-----------------------------------------------------------------------------
(* Steps that leave every wakeup where it is.                               *)

\* Those that also keep what a Scheduler keeps.
LEMMA WakeupsStay ==
  ASSUME IOInv, CoreInv', armed' = armed, UNCHANGED <<pending, events, timers, due>>,
         ready' \subseteq events, elapsed' \subseteq timers, tickled' \in BOOLEAN,
         got' \in [Workers -> SUBSET (Tasks \cup {Pipe})],
         \A v \in Workers : pc[v] = "push" => pc'[v] = "push"
  PROVE  IOInv'
PROOF
<1>1. IOTypes'
  BY DEF IOInv, IOTypes
<1>2. Sources'
  BY DEF IOInv, Sources, Source
<1> QED
  BY <1>1, <1>2 DEF IOInv

\* A thread in its idle fiber, which holds no entry, is no task's business.
LEMMA IdleKeeps ==
  ASSUME IInv, NEW w \in Workers, NEW from \in InIdle, NEW to \in InIdle, IdleStep(w, from, to),
         queue' \in Seq(Entry), armed' \subseteq Tasks, idleTerm' \subseteq Workers,
         owesTickle' \subseteq Threads
  PROVE  /\ IInv' /\ UNCHANGED <<state, on, submitted, fault>>
         /\ \A t \in Tasks : SameHolders(t)
         /\ \A v \in Workers \ {w} : pc'[v] = pc[v]
         /\ pc[w] = from /\ pc'[w] = to
PROOF
<1>1. /\ TypeOK /\ pc \in [Workers -> PCs]
      /\ pc[w] = from /\ pc' = [pc EXCEPT ![w] = to] /\ ft' = ft
      /\ UNCHANGED <<active, idle, state, on, yields, submitted, clientVars, fault>>
  BY DEF IdleStep, At, Goto, IInv, TypeOK
<1>2. /\ from \notin Occupied /\ to \notin Occupied /\ to \in PCs
      /\ from # "off" /\ to # "off" /\ Bit(from, Busy) = 0 /\ Bit(to, Busy) = 0
      /\ Bit(from, InIdle) = 1 /\ Bit(to, InIdle) = 1
  BY DEF InIdle, Occupied, Busy, PCs, Bit
<1>3. active \in Nat /\ idle \in Nat
  BY <1>1 DEF TypeOK
<1>4. Moves(w, to) /\ Follows(w, to)
  BY <1>1, <1>2, <1>3 DEF Moves, Follows, clientVars
<1>5. Typed'
  BY <1>1 DEF TypeOK, Typed, clientVars
<1>6. IInv'
  BY <1>4, <1>5, WorkerKeeps
<1>7. \A t \in Tasks : SameHolders(t)
  <2>1. \A t \in Tasks : ~Held(w, t)
    BY <1>1, <1>2 DEF Held
  <2> QED
    BY <1>1, <1>4, <2>1, WorkerOnly
<1> QED
  BY <1>1, <1>6, <1>7

\* One that does nothing to the queue and the registrations either.
LEMMA IdleQuietly ==
  ASSUME CoreInv, NEW w \in Workers, NEW from \in InIdle, NEW to \in InIdle,
         IdleStep(w, from, to), queue' = queue, armed' = armed, idleTerm' \subseteq Workers,
         owesTickle' = owesTickle
  PROVE  /\ CoreInv' /\ \A v \in Workers \ {w} : pc'[v] = pc[v]
         /\ pc[w] = from /\ pc'[w] = to
         /\ \A t \in Tasks : Untouched(t)
PROOF
<1>1. TypeOK
  BY DEF CoreInv, IInv
<1>2. /\ IInv' /\ UNCHANGED <<state, on, submitted, fault>>
      /\ \A t \in Tasks : SameHolders(t)
      /\ \A v \in Workers \ {w} : pc'[v] = pc[v]
      /\ pc[w] = from /\ pc'[w] = to
  <2>1. queue' \in Seq(Entry) /\ armed' \subseteq Tasks /\ owesTickle' \subseteq Threads
    BY <1>1 DEF TypeOK
  <2> QED
    BY <2>1, IdleKeeps DEF CoreInv
<1>3. \A t \in Tasks : Untouched(t)
  BY <1>2, QueueUnchanged DEF Untouched, SameData
<1>4. TaskInv'
  BY <1>3, NoneTouched DEF CoreInv, Stayers
<1>5. NoFault'
  BY <1>2 DEF CoreInv, NoFault, Running
<1> QED
  BY <1>2, <1>3, <1>4, <1>5 DEF CoreInv

\* What a thread does in idle() but for the three steps that move wakeups.
LEMMA IdleLooks ==
  ASSUME IOInv, NEW w \in Workers,
         SeeTimers(w) \/ SeePending(w) \/ SeeDrained(w) \/ EpollWait(w) \/ DrainPipe(w)
           \/ YieldIdle(w)
  PROVE  IOInv'
PROOF
<1>1. CoreInv /\ IOTypes /\ idleTerm \subseteq Workers
  BY DEF IOInv, CoreInv, IInv, TypeOK
<1>2. PICK from \in InIdle, to \in InIdle : IdleStep(w, from, to) /\ from # "push"
  BY DEF SeeTimers, SeePending, SeeDrained, EpollWait, DrainPipe, YieldIdle, InIdle
<1>3. /\ queue' = queue /\ armed' = armed /\ owesTickle' = owesTickle
      /\ UNCHANGED <<pending, events, timers, elapsed, due>>
      /\ idleTerm' \in {idleTerm, idleTerm \cup {w}} /\ ready' \in {ready, {}}
      /\ tickled' \in {tickled, FALSE}
      /\ \/ got' = got \/ got' = [got EXCEPT ![w] = Report]
         \/ got' = [got EXCEPT ![w] = @ \ {Pipe}]
  BY DEF SeeTimers, SeePending, SeeDrained, EpollWait, DrainPipe, YieldIdle, ioVars
<1>4. CoreInv' /\ \A v \in Workers : pc[v] = "push" => pc'[v] = "push"
  BY <1>1, <1>2, <1>3, IdleQuietly
<1>5. Report \subseteq Tasks \cup {Pipe}
  BY <1>1 DEF IOTypes, Report
<1>6. got' \in [Workers -> SUBSET (Tasks \cup {Pipe})]
  BY <1>1, <1>3, <1>5 DEF IOTypes
<1>7. ready' \subseteq events /\ elapsed' \subseteq timers /\ tickled' \in BOOLEAN
  BY <1>1, <1>3 DEF IOTypes
<1> QED
  BY <1>3, <1>4, <1>6, <1>7, WakeupsStay


-----------------------------------------------------------------------------
(* Steps that move wakeups.                                                 *)

\* listExpiredCb(): from timers_ to the thread that took them.
LEMMA ExpiredListed ==
  ASSUME IOInv, NEW w \in Workers, ListExpired(w)
  PROVE  IOInv'
PROOF
<1> DEFINE to == IF elapsed = {} THEN "events" ELSE "push"
<1>1. CoreInv /\ IOTypes /\ Sources /\ idleTerm \subseteq Workers
  BY DEF IOInv, CoreInv, IInv, TypeOK
<1>2. /\ IdleStep(w, "expire", to) /\ "expire" \in InIdle /\ to \in InIdle
      /\ UNCHANGED <<queue, armed, idleTerm, owesTickle, pending, events, ready, tickled, got>>
      /\ due' = [due EXCEPT ![w] = elapsed] /\ timers' = timers \ elapsed /\ elapsed' = {}
  BY DEF ListExpired, InIdle
<1>3. /\ CoreInv' /\ \A v \in Workers \ {w} : pc'[v] = pc[v]
      /\ pc[w] = "expire" /\ pc'[w] = to
  BY <1>1, <1>2, IdleQuietly
<1>4. /\ due[w] = {} /\ due'[w] = elapsed /\ \A v \in Workers \ {w} : due'[v] = due[v]
      /\ elapsed \subseteq timers
  BY <1>1, <1>2, <1>3 DEF IOTypes
<1>5. IOTypes'
  <2>1. IsFiniteSet(elapsed) /\ IsFiniteSet(timers')
    BY <1>1, <1>2, FS_Subset DEF IOTypes
  <2>2. \A v \in Workers : IsFiniteSet(due'[v]) /\ (pc'[v] # "push" => due'[v] = {})
    BY <1>1, <1>3, <1>4, <2>1 DEF IOTypes
  <2> QED
    BY <1>1, <1>2, <2>1, <2>2 DEF IOTypes
<1>6. ASSUME NEW t \in Stayers PROVE Source(t)'
  <2>1. Source(t)
    BY <1>1 DEF Sources
  <2> QED
    BY <1>2, <1>4, <2>1 DEF Source
<1> QED
  BY <1>3, <1>5, <1>6 DEF IOInv, Sources

\* triggerEvent(): from the fd context to the queue.
LEMMA EventHandled ==
  ASSUME IOInv, NEW w \in Workers, HandleEvent(w)
  PROVE  IOInv'
PROOF
<1>1. /\ CoreInv /\ IOTypes /\ Sources /\ TypeOK /\ armed \subseteq Tasks
      /\ idleTerm \subseteq Workers /\ "events" \in InIdle
  BY DEF IOInv, CoreInv, IInv, TypeOK, InIdle
<1>2. IdleStep(w, "events", "events") /\ UNCHANGED <<idleTerm, timers, elapsed, tickled, due>>
  BY DEF HandleEvent
<1>3. PICK t \in got[w] \ {Pipe} :
        /\ got' = [got EXCEPT ![w] = @ \ {t}]
        /\ IF t \in events
           THEN /\ events' = events \ {t} /\ ready' = ready \ {t} /\ armed' = armed \ {t}
                /\ pending' = pending - 1
                /\ Schedule(w, t, "fiber", AnyThread)
           ELSE UNCHANGED <<events, ready, armed, pending, queue, owesTickle>>
  BY DEF HandleEvent
<1>4. t \in Tasks /\ got' \in [Workers -> SUBSET (Tasks \cup {Pipe})]
  BY <1>1, <1>3 DEF IOTypes
<1>5. CASE t \notin events
  <2>1. CoreInv' /\ \A v \in Workers : pc[v] = "push" => pc'[v] = "push"
    BY <1>1, <1>2, <1>3, <1>5, IdleQuietly
  <2> QED
    BY <1>1, <1>2, <1>3, <1>4, <1>5, <2>1, WakeupsStay DEF IOTypes
<1>6. CASE t \in events
  <2>1. /\ queue' \in Seq(Entry) /\ owesTickle' \subseteq Threads
        /\ armed' = armed \ {t} /\ Schedule(w, t, "fiber", AnyThread)
    BY <1>1, <1>3, <1>4, <1>6, ScheduleType DEF Threads
  <2>2. /\ IInv' /\ UNCHANGED <<state, on, submitted, fault>>
        /\ \A u \in Tasks : SameHolders(u)
        /\ \A v \in Workers \ {w} : pc'[v] = pc[v]
        /\ pc[w] = "events" /\ pc'[w] = "events"
    BY <1>1, <1>2, <2>1, IdleKeeps DEF CoreInv
  <2>3. ASSUME NEW u \in Tasks, u # t PROVE Untouched(u)
    <3>1. SameQueue(u) /\ SameData(u)
      BY <1>1, <2>1, <2>2, <2>3, ScheduleOnly DEF SameData
    <3> QED
      BY <2>2, <3>1 DEF Untouched
  <2>4. ASSUME t \in Stayers PROVE Sound(t)'
    <3>1. Sound(t) /\ t \in armed
      BY <1>1, <1>6, <2>4 DEF CoreInv, TaskInv, Sources, Source
    <3>2. ~Queued(t)
      BY <3>1 DEF Sound, OneToken
    <3>3. Queued(t)' /\ QueuedOnce(t)' /\ (CbQueued(t)' => CbQueued(t))
      <4>1. /\ Queued(t)' <=> Queued(t) \/ t = t
            /\ ~Queued(t) => QueuedOnce(t)'
            /\ CbQueued(t)' <=> CbQueued(t) \/ (t = t /\ "fiber" = "cb")
        BY <1>1, <2>1, Appended
      <4> QED
        BY <3>2, <4>1
    <3>4. t \notin armed' /\ state'[t] = state[t] /\ on'[t] = on[t] /\ submitted' = submitted
      BY <2>1, <2>2
    <3> QED
      BY <1>4, <2>2, <3>1, <3>3, <3>4, TokenQueued
  <2>5. CoreInv'
    <3>1. TaskInv'
      BY <1>1, <2>3, <2>4, OneAtATime DEF CoreInv
    <3> QED
      BY <1>1, <2>2, <3>1 DEF CoreInv, NoFault, Running
  <2>6. IOTypes'
    <3>1. /\ IsFiniteSet(events') /\ Cardinality(events') = Cardinality(events) - 1
          /\ Cardinality(events) \in Nat /\ Cardinality(events') \in Nat
      BY <1>1, <1>3, <1>6, FS_RemoveElement, FS_CardinalityType DEF IOTypes
    <3>2. pending' \in Nat /\ pending' >= Cardinality(events')
      BY <1>1, <1>3, <1>6, <3>1 DEF IOTypes
    <3>3. \A v \in Workers : IsFiniteSet(due'[v]) /\ (pc'[v] # "push" => due'[v] = {})
      BY <1>1, <1>2, <2>2 DEF IOTypes
    <3> QED
      BY <1>1, <1>2, <1>3, <1>4, <1>6, <3>1, <3>2, <3>3 DEF IOTypes
  <2>7. ASSUME NEW u \in Stayers PROVE Source(u)'
    <3>1. Source(u) /\ events' = events \ {t} /\ timers' = timers /\ due' = due
      BY <1>1, <1>2, <1>3, <1>6, <2>7 DEF Sources
    <3> QED
      BY <1>6, <2>1, <3>1 DEF Source
  <2> QED
    BY <2>5, <2>6, <2>7 DEF IOInv, Sources
<1> QED
  BY <1>5, <1>6

\* schedule(begin, end): from the thread that took the callbacks to the queue.
LEMMA ExpiredScheduled ==
  ASSUME IOInv, NEW w \in Workers, ScheduleExpired(w)
  PROVE  IOInv'
PROOF
<1>1. /\ CoreInv /\ IOTypes /\ Sources /\ TypeOK
      /\ armed \subseteq Tasks /\ idleTerm \subseteq Workers /\ owesTickle \subseteq Threads
      /\ "push" \in InIdle /\ "events" \in InIdle
  BY DEF IOInv, CoreInv, IInv, TypeOK, InIdle
<1>2. /\ IdleStep(w, "push", "events") /\ armed' = armed \ due[w]
      /\ due' = [due EXCEPT ![w] = {}] /\ owesTickle' \in {owesTickle, owesTickle \cup {w}}
      /\ UNCHANGED <<idleTerm, pending, events, ready, timers, elapsed, tickled, got>>
  BY DEF ScheduleExpired
<1>3. PICK b \in SetToSeqs(due[w]) :
        queue' = queue \o [i \in DOMAIN b |->
                             [task |-> b[i], kind |-> "wake", thread |-> AnyThread]]
  BY DEF ScheduleExpired
<1>4. due[w] \subseteq Tasks /\ IsFiniteSet(due[w])
  BY <1>1 DEF IOTypes
<1>5. /\ queue' \in Seq(Entry)
      /\ \A u : /\ Queued(u)' <=> Queued(u) \/ u \in due[w]
                /\ QueuedOnce(u) /\ ~(Queued(u) /\ u \in due[w]) => QueuedOnce(u)'
                /\ CbQueued(u)' => CbQueued(u)
  BY <1>1, <1>3, <1>4, BatchAppended
<1>6. /\ IInv' /\ UNCHANGED <<state, on, submitted, fault>>
      /\ \A u \in Tasks : SameHolders(u)
      /\ \A v \in Workers \ {w} : pc'[v] = pc[v]
      /\ pc[w] = "push" /\ pc'[w] = "events"
  <2>1. armed' \subseteq Tasks /\ idleTerm' \subseteq Workers /\ owesTickle' \subseteq Threads
    BY <1>1, <1>2 DEF Threads
  <2> QED
    BY <1>1, <1>2, <1>5, <2>1, IdleKeeps DEF CoreInv
<1>7. ASSUME NEW u \in Stayers PROVE Sound(u)'
  <2>1. Sound(u) /\ Source(u) /\ u \in Tasks
    BY <1>1, <1>7 DEF CoreInv, TaskInv, Sources, Stayers
  <2>2. CASE u \in due[w]
    <3>1. u \in armed /\ ~Queued(u) /\ QueuedOnce(u)
      BY <2>1, <2>2 DEF Source, Sound, OneToken
    <3>2. Queued(u)' /\ QueuedOnce(u)' /\ (CbQueued(u)' => CbQueued(u)) /\ u \notin armed'
      BY <1>2, <1>5, <2>2, <3>1
    <3> QED
      BY <1>6, <2>1, <3>1, <3>2, TokenQueued
  <2>3. CASE u \notin due[w]
    <3>1. SameQueue(u) /\ SameData(u)
      BY <1>2, <1>5, <1>6, <2>3 DEF SameQueue, SameData
    <3> QED
      BY <1>6, <2>1, <3>1, UntouchedKeeps DEF Untouched
  <2> QED
    BY <2>2, <2>3
<1>8. CoreInv'
  BY <1>1, <1>6, <1>7 DEF CoreInv, TaskInv, NoFault, Running
<1>9. due'[w] = {} /\ \A v \in Workers \ {w} : due'[v] = due[v]
  BY <1>1, <1>2 DEF IOTypes
<1>10. IOTypes'
  <2>1. \A v \in Workers : IsFiniteSet(due'[v]) /\ (pc'[v] # "push" => due'[v] = {})
    BY <1>1, <1>6, <1>9, FS_EmptySet DEF IOTypes
  <2> QED
    BY <1>1, <1>2, <2>1 DEF IOTypes
<1>11. ASSUME NEW u \in Stayers PROVE Source(u)'
  <2>1. Source(u)
    BY <1>1 DEF Sources
  <2> QED
    BY <1>2, <1>9, <2>1 DEF Source
<1> QED
  BY <1>8, <1>10, <1>11 DEF IOInv, Sources


\* A task that registers what it waits for: its own token goes to the
\* registration while it is still on its stack.
LEMMA Parks ==
  ASSUME IOInv, NEW w \in Workers, ParkOn(w), owesTickle' \subseteq Threads,
         UNCHANGED <<queue, active, idle, state, on, submitted, ft, idleTerm, clientVars, fault>>
  PROVE  /\ CoreInv' /\ Holding(w) \in Tasks /\ armed' = armed \cup {Holding(w)}
         /\ Holding(w) \in Stayers => Holding(w) \notin armed
         /\ \A v \in Workers : pc'[v] = "push" <=> pc[v] = "push"
         /\ \A u \in Tasks \ {Holding(w)} : Untouched(u)
PROOF
<1>0. PICK t : t = Holding(w)
  OBVIOUS
<1>1. /\ CoreInv /\ IInv /\ TypeOK /\ pc \in [Workers -> PCs]
      /\ pc[w] = "exec" /\ pc' = [pc EXCEPT ![w] = "parking"] /\ armed' = armed \cup {t}
      /\ UseYield(w)
  BY <1>0 DEF ParkOn, At, Goto, IOInv, CoreInv, IInv, TypeOK
<1>2. t \in Tasks /\ Held(w, t) /\ Embodies(w, t)
  BY <1>0, <1>1, HoldsTask DEF Held, Embodies, Occupied, Busy
<1>3. Moves(w, "parking") /\ Follows(w, "parking")
  BY <1>1 DEF Moves, Follows, Bit, PCs, Occupied, Busy, InIdle, TypeOK, clientVars
<1>4. IInv'
  <2>1. yields' \in [Tasks -> Nat]
    BY <1>0, <1>1, <1>2, UseYieldType
  <2>2. Typed'
    BY <1>1, <1>2, <2>1 DEF TypeOK, Typed, clientVars
  <2> QED
    BY <1>1, <1>3, <2>2, WorkerKeeps
<1>5. ASSUME NEW u \in Tasks, u # t PROVE Untouched(u)
  <2>1. SameQueue(u) /\ SameData(u)
    BY <1>1, <1>5, QueueUnchanged DEF SameData
  <2>2. ~Held(w, u)
    BY <1>0, <1>5 DEF Held
  <2> QED
    BY <1>1, <1>3, <2>1, <2>2, OthersUntouched
<1>6. ASSUME t \in Stayers PROVE Sound(t)' /\ t \notin armed
  <2>1. Sound(t)
    BY <1>1, <1>6 DEF CoreInv, TaskInv
  <2>2. BodyGoes(w, "parking", t)
    BY <1>1 DEF BodyGoes
  <2>3. CarriedBy(w, t)
    BY <1>1, <1>2 DEF Held, CarriedBy
  <2>4. t \notin armed
    BY <2>1, <2>3 DEF Sound, OneToken
  <2>5. Sound(t)'
    BY <1>1, <1>2, <1>3, <2>1, <2>2, BodyKeeps
  <2> QED
    BY <2>4, <2>5
<1>7. TaskInv'
  <2>1. TaskInv /\ (t \in Stayers => Sound(t)')
    BY <1>1, <1>6 DEF CoreInv
  <2> QED
    BY <1>5, <2>1, OneAtATime
<1>8. CoreInv'
  BY <1>1, <1>4, <1>7 DEF CoreInv, NoFault, Running
<1> QED
  BY <1>0, <1>1, <1>2, <1>5, <1>6, <1>8

\* addEvent() counts every registration, so that one more is counted than the
\* set has at least.
LEMMA EventAdded ==
  ASSUME IOInv, NEW w \in Workers, AddEvent(w)
  PROVE  IOInv'
PROOF
<1> DEFINE t == Holding(w)
<1>1. IOTypes /\ Sources /\ owesTickle' = owesTickle /\ owesTickle \subseteq Threads
  BY DEF AddEvent, IOInv, CoreInv, IInv, TypeOK
<1>2. /\ CoreInv' /\ t \in Tasks /\ armed' = armed \cup {t}
      /\ t \in Stayers => t \notin armed
      /\ \A v \in Workers : pc'[v] = "push" <=> pc[v] = "push"
  BY <1>1, Parks DEF AddEvent
<1>3. /\ pending' = pending + 1 /\ events' = events \cup {t}
      /\ UNCHANGED <<ready, timers, elapsed, tickled, got, due>>
  BY DEF AddEvent
<1> HIDE DEF t
<1>4. IOTypes'
  <2>1. /\ IsFiniteSet(events') /\ Cardinality(events) \in Nat /\ Cardinality(events') \in Nat
        /\ Cardinality(events') <= Cardinality(events) + 1
    <3>1. IsFiniteSet(events) /\ Cardinality(events) \in Nat
      BY <1>1, FS_CardinalityType DEF IOTypes
    <3>2. /\ IsFiniteSet(events \cup {t})
          /\ Cardinality(events \cup {t}) =
               IF t \in events THEN Cardinality(events) ELSE Cardinality(events) + 1
      BY <3>1, FS_AddElement
    <3> QED
      BY <1>3, <3>1, <3>2
  <2>2. pending' \in Nat /\ pending' >= Cardinality(events')
    BY <1>1, <1>3, <2>1 DEF IOTypes
  <2> QED
    BY <1>1, <1>2, <1>3, <2>1, <2>2 DEF IOTypes
<1>5. ASSUME NEW u \in Stayers PROVE Source(u)'
  <2>1. Source(u)
    BY <1>1 DEF Sources
  <2> QED
    BY <1>2, <1>3, <1>5, <2>1 DEF Source
<1> QED
  BY <1>2, <1>4, <1>5 DEF IOInv, Sources

\* addTimer().
LEMMA TimerAdded ==
  ASSUME IOInv, NEW w \in Workers, AddTimer(w)
  PROVE  IOInv'
PROOF
<1> DEFINE t == Holding(w)
<1>1. IOTypes /\ Sources /\ owesTickle' \subseteq Threads
  BY DEF AddTimer, IOInv, CoreInv, IInv, TypeOK, Threads
<1>2. /\ CoreInv' /\ t \in Tasks /\ armed' = armed \cup {t}
      /\ t \in Stayers => t \notin armed
      /\ \A v \in Workers : pc'[v] = "push" <=> pc[v] = "push"
  BY <1>1, Parks DEF AddTimer
<1>3. timers' = timers \cup {t} /\ UNCHANGED <<pending, events, ready, elapsed, tickled, got, due>>
  BY DEF AddTimer
<1> HIDE DEF t
<1>4. IOTypes'
  <2>1. IsFiniteSet(timers')
    BY <1>1, <1>3, FS_AddElement DEF IOTypes
  <2> QED
    BY <1>1, <1>2, <1>3, <2>1 DEF IOTypes
<1>5. ASSUME NEW u \in Stayers PROVE Source(u)'
  <2>1. Source(u)
    BY <1>1 DEF Sources
  <2> QED
    BY <1>2, <1>3, <1>5, <2>1 DEF Source
<1> QED
  BY <1>2, <1>4, <1>5 DEF IOInv, Sources

-----------------------------------------------------------------------------
(* Steps that are those of a Scheduler.                                     *)

LEMMA InheritedKeeps ==
  ASSUME IOInv, [Next]_vars, armed' = armed, UNCHANGED <<pending, events, timers, got, due>>,
         ready' \subseteq events, elapsed' \subseteq timers, tickled' \in BOOLEAN,
         \A v \in Workers : pc[v] = "push" => pc'[v] = "push"
  PROVE  IOInv'
PROOF
<1>1. CoreInv'
  BY NextKeeps, TasksKept DEF IOInv, CoreInv
<1>2. got' \in [Workers -> SUBSET (Tasks \cup {Pipe})]
  BY DEF IOInv, IOTypes
<1> QED
  BY <1>1, <1>2, WakeupsStay

\* The steps of run() that the subclass inherits: none of them registers a
\* wakeup or is made by a thread inside idle().
LEMMA RunsKeep ==
  ASSUME IOInv, NEW w \in Workers, Runs(w)
  PROVE  IOInv'
PROOF
<1>1. Run(w) /\ UNCHANGED ioVars
  BY DEF Runs
<1>2. pc \in [Workers -> PCs]
  BY DEF IOInv, CoreInv, IInv, TypeOK
<1>3. armed' = armed /\ pc[w] # "push"
  BY <1>1 DEF Run, PickTask, PickNothing, Dispatch, DropFinished, RunWakeup, EndWakeup, Finish,
              YieldToReady, SwitchTo, YieldToHold, Spawn, SwapOut, Return, Reschedule, Retire,
              SeeUnfinished, SetHold, EnterIdle, Exit, LeaveIdle, At, taskVars
<1>4. \A v \in Workers \ {w} : pc'[v] = pc[v]
  BY <1>1, <1>2, WorkersMove
<1>5. Next
  BY <1>1 DEF Next
<1>6. ready' \subseteq events /\ elapsed' \subseteq timers /\ tickled' \in BOOLEAN
  BY <1>1 DEF ioVars, IOInv, IOTypes
<1> QED
  BY <1>1, <1>3, <1>4, <1>5, <1>6, InheritedKeeps DEF ioVars

\* tickle(), the kernel and the clock.
LEMMA WorldKeeps ==
  ASSUME IOInv,
         \/ \E thr \in Threads : IOTickle(thr)
         \/ \E t \in Tasks : FdReady(t) \/ TimeElapses(t)
         \/ Over /\ UNCHANGED ioVars
  PROVE  IOInv'
PROOF
<1>1. /\ UNCHANGED <<pending, events, timers, got, due>> /\ armed' = armed /\ pc' = pc
      /\ ready' \subseteq events /\ elapsed' \subseteq timers /\ tickled' \in BOOLEAN
  BY DEF IOTickle, FdReady, TimeElapses, Over, ioVars, vars, taskVars, IOInv, IOTypes
<1>2. [Next]_vars
  BY DEF IOTickle, Tickle, FdReady, TimeElapses, Over, Next
<1> QED
  BY <1>1, <1>2, InheritedKeeps

\* The owner of the scheduler; stopping() also looks at the timers and the
\* events, which makes no difference to what stop() does to the tasks.
LEMMA OwnerKeeps ==
  ASSUME IOInv, Owner, UNCHANGED ioVars
  PROVE  IOInv'
PROOF
<1>1. /\ CoreInv /\ IInv /\ TypeOK /\ pc \in [Workers -> PCs]
      /\ Caller \in Workers \cup {NoThread} /\ NoThread \notin Workers
  BY SchedulerAssumption DEF IOInv, CoreInv, IInv, TypeOK
<1>2. CASE Submit
  <2>1. Next /\ armed' = armed /\ pc' = pc
    BY <1>2 DEF Next, Submit
  <2>2. ready' \subseteq events /\ elapsed' \subseteq timers /\ tickled' \in BOOLEAN
    BY DEF ioVars, IOInv, IOTypes
  <2> QED
    BY <2>1, <2>2, InheritedKeeps DEF ioVars
<1>3. ASSUME NEW quiet \in BOOLEAN,
             Start \/ StopBegin(quiet) \/ StopTickle \/ StopRunCaller(quiet) \/ StopJoin
      PROVE  IOInv'
  <2>1. IInv' /\ \A t \in Tasks : Untouched(t) /\ fault' = fault
    BY <1>1, <1>3, Owns, OwnerSteps
  <2>2. fault' = fault /\ armed' = armed
    BY <1>3 DEF Start, StopBegin, StopTickle, StopRunCaller, StopJoin, taskVars
  <2>3. CoreInv'
    BY <1>1, <2>1, <2>2, NoneTouched DEF CoreInv, NoFault, Running, Stayers
  <2>4. \A v \in Workers : pc[v] = "push" => pc'[v] = "push"
    <3>1. CASE Start
      BY <1>1, <3>1 DEF Start, MainAt, IInv, Offline
    <3>2. CASE StopRunCaller(quiet)
      BY <1>1, <3>2 DEF StopRunCaller, MainAt, Goto, IInv, Offline
    <3> QED
      BY <1>3, <3>1, <3>2 DEF StopBegin, StopTickle, StopJoin
  <2>5. /\ ready' \subseteq events /\ elapsed' \subseteq timers /\ tickled' \in BOOLEAN
        /\ got' \in [Workers -> SUBSET (Tasks \cup {Pipe})]
    BY DEF ioVars, IOInv, IOTypes
  <2> QED
    BY <2>2, <2>3, <2>4, <2>5, WakeupsStay DEF ioVars
<1> DEFINE begins == timers = {} /\ pending = 0 /\ queue = <<>> /\ active = 0
<1>4. begins \in BOOLEAN /\ IODrained \in BOOLEAN
  BY DEF IODrained
<1>5. \/ Submit \/ Start \/ StopBegin(begins) \/ StopTickle
      \/ StopRunCaller(IODrained) \/ StopJoin
  BY DEF Owner
<1> HIDE DEF begins
<1> QED
  BY <1>2, <1>3, <1>4, <1>5


-----------------------------------------------------------------------------
(* The theorems.                                                            *)

\* Nothing is registered before the first task runs.
LEMMA IOInitially ==
  ASSUME IOInit
  PROVE  IOInv
PROOF
<1>1. CoreInv /\ TypeOK
  BY Initially, TasksInitially DEF IOInit, CoreInv, IInv
<1>2. IOTypes
  <2>1. /\ pending = 0 /\ events = {} /\ ready = {} /\ timers = {} /\ elapsed = {}
        /\ tickled = FALSE
        /\ got = [w \in Workers |-> {}] /\ due = [w \in Workers |-> {}]
    BY DEF IOInit
  <2>2. IsFiniteSet({}) /\ Cardinality({}) = 0
    BY FS_EmptySet
  <2>3. /\ got \in [Workers -> SUBSET (Tasks \cup {Pipe})] /\ due \in [Workers -> SUBSET Tasks]
        /\ \A w \in Workers : due[w] = {}
    BY <2>1
  <2>4. pending \in Nat /\ pending >= Cardinality(events) /\ IsFiniteSet(events)
    BY <2>1, <2>2
  <2>5. \A w \in Workers : IsFiniteSet(due[w]) /\ (pc[w] # "push" => due[w] = {})
    BY <2>2, <2>3
  <2> QED
    BY <2>1, <2>2, <2>3, <2>4, <2>5 DEF IOTypes
<1>3. Sources
  BY DEF IOInit, Init, Sources, Source
<1> QED
  BY <1>1, <1>2, <1>3 DEF IOInv

\* Every step of the I/O manager keeps the invariant.
LEMMA IONextKeeps ==
  ASSUME IOInv, [IONext]_allVars
  PROVE  IOInv'
PROOF
<1>1. ASSUME NEW w \in Workers, Runs(w) \/ AddEvent(w) \/ AddTimer(w) \/ IOIdle(w)
      PROVE  IOInv'
  <2>1. CASE Runs(w)
    BY <2>1, RunsKeep
  <2>2. CASE AddEvent(w)
    BY <2>2, EventAdded
  <2>3. CASE AddTimer(w)
    BY <2>3, TimerAdded
  <2>4. CASE IOIdle(w)
    BY <2>4, IdleLooks, ExpiredListed, ExpiredScheduled, EventHandled DEF IOIdle
  <2> QED
    BY <1>1, <2>1, <2>2, <2>3, <2>4
<1>2. CASE Owner /\ UNCHANGED ioVars
  BY <1>2, OwnerKeeps
<1>3. CASE \/ \E thr \in Threads : IOTickle(thr)
           \/ \E t \in Tasks : FdReady(t) \/ TimeElapses(t)
           \/ Over /\ UNCHANGED ioVars
  BY <1>3, WorldKeeps
<1>4. CASE UNCHANGED allVars
  <2>1. UNCHANGED vars /\ UNCHANGED ioVars
    BY <1>4 DEF allVars
  <2>2. armed' = armed /\ pc' = pc
    BY <2>1 DEF vars, taskVars
  <2>3. ready' \subseteq events /\ elapsed' \subseteq timers /\ tickled' \in BOOLEAN
    BY <2>1 DEF ioVars, IOInv, IOTypes
  <2> QED
    BY <2>1, <2>2, <2>3, InheritedKeeps DEF ioVars
<1> QED
  BY <1>1, <1>2, <1>3, <1>4 DEF IONext

\* In every reachable state.
THEOREM IOSound == IOSpec => []IOInv
PROOF
<1>1. IOInit => IOInv
  BY IOInitially
<1>2. IOInv /\ [IONext]_allVars => IOInv'
  BY IONextKeeps
<1> QED
  BY <1>1, <1>2, PTL DEF IOSpec

\* pending_event_count_, which stopping() trusts, never wraps below zero, whatever
\* reports come late and whatever threads handle them (iomanager.cc:196, 418-470),
\* and an idle thread only holds what it was given.
THEOREM PendingNeverWraps == IOSpec => []IOTypeOK
PROOF
<1>1. IOInv => IOTypeOK
  BY DEF IOInv, CoreInv, IInv, IOTypes, IOTypeOK
<1> QED
  BY <1>1, IOSound, PTL

\* A task that waits is known to exactly one place that will schedule it: an fd
\* context, timers_, or what one idle thread took out of timers_
\* (iomanager.cc:401-406, 418-470).
THEOREM OneSource == IOSpec => []WakeupHasOneSource
PROOF
<1>1. IOInv => WakeupHasOneSource
  BY DEF IOInv, IOTypes, Sources, Source, WakeupHasOneSource
<1> QED
  BY <1>1, IOSound, PTL

\* What TaskProofs shows of a Scheduler: with idle(), tickle() and stopping()
\* overridden there is still one thread on a stack, one thing that will let a
\* task run on, and no failed assertion of Fiber.
THEOREM TasksOfManagerSound == IOSpec => [](OneThreadPerStack /\ OneTokenPerTask /\ NoFault)
PROOF
<1>1. IOInv => OneThreadPerStack /\ OneTokenPerTask /\ NoFault
  BY SoundStack, SoundCounts DEF IOInv, CoreInv, TaskInv, OneThreadPerStack, OneTokenPerTask
<1> QED
  BY <1>1, IOSound, PTL

\* tickle() of the subclass trusts idle_thread_count_, and stopping() the count of
\* active threads: both are exact there too (iomanager.cc:335-351).
THEOREM CountsOfManagerExact == IOSpec => [](ActiveAccounting /\ IdleAccounting)
PROOF
<1>1. IOInv => ActiveAccounting /\ IdleAccounting
  BY DEF IOInv, CoreInv, IInv
<1> QED
  BY <1>1, IOSound, PTL


-----------------------------------------------------------------------------
(* The I/O manager implements TaskPool too.                                 *)

\* A thread inside idle() looks for what to do and touches no task.
LEMMA LooksMap ==
  ASSUME IOInv, IOInv', NEW w \in Workers,
         SeeTimers(w) \/ SeePending(w) \/ SeeDrained(w) \/ EpollWait(w) \/ DrainPipe(w)
           \/ YieldIdle(w) \/ ListExpired(w)
  PROVE  [TP!Next]_(TP!vars)
PROOF
<1>1. CoreInv /\ IInv /\ TaskInv /\ TaskInv' /\ idleTerm \subseteq Workers
  BY DEF IOInv, CoreInv, IInv, TypeOK
<1>2. PICK from \in InIdle, to \in InIdle : IdleStep(w, from, to)
  BY DEF SeeTimers, SeePending, SeeDrained, EpollWait, DrainPipe, YieldIdle, ListExpired, InIdle
<1>3. /\ queue' = queue /\ armed' = armed /\ owesTickle' = owesTickle
      /\ idleTerm' \in {idleTerm, idleTerm \cup {w}}
  BY DEF SeeTimers, SeePending, SeeDrained, EpollWait, DrainPipe, YieldIdle, ListExpired, ioVars
<1>4. \A u \in Tasks : Untouched(u)
  BY <1>1, <1>2, <1>3, IdleQuietly
<1>5. client' = client
  BY <1>2 DEF IdleStep, clientVars
<1> QED
  BY <1>1, <1>4, <1>5, PlaceUntouched, NothingMaps DEF Stayers

\* A registered event lets one task run on.
LEMMA EventMaps ==
  ASSUME IOInv, IOInv', NEW w \in Workers, HandleEvent(w)
  PROVE  [TP!Next]_(TP!vars)
PROOF
<1>1. /\ CoreInv /\ IOTypes /\ Sources /\ TaskInv /\ TaskInv' /\ TypeOK
      /\ idleTerm \subseteq Workers
  BY DEF IOInv, CoreInv, IInv, TypeOK
<1>2. IdleStep(w, "events", "events") /\ idleTerm' = idleTerm /\ "events" \in InIdle
  BY DEF HandleEvent, InIdle
<1>3. UNCHANGED <<state, on, submitted, pc, ft>> /\ client' = client
  BY <1>1, <1>2 DEF IdleStep, At, Goto, clientVars, TypeOK
<1>4. PICK t \in got[w] \ {Pipe} :
        IF t \in events THEN armed' = armed \ {t} /\ Schedule(w, t, "fiber", AnyThread)
                        ELSE UNCHANGED <<armed, queue>>
  BY DEF HandleEvent
<1>5. ASSUME NEW u \in Tasks, u # t \/ t \notin events PROVE Untouched(u)
  <2>1. SameHolders(u)
    BY <1>3, HoldersUnchanged
  <2>2. SameQueue(u) /\ SameData(u)
    <3>1. CASE t \in events
      BY <1>1, <1>3, <1>4, <1>5, <3>1, Appended DEF SameQueue, SameData
    <3>2. CASE t \notin events
      BY <1>3, <1>4, <3>2, QueueUnchanged DEF SameData
    <3> QED
      BY <3>1, <3>2
  <2> QED
    BY <2>1, <2>2 DEF Untouched
<1>6. ASSUME t \in Stayers PROVE Goes(t)
  <2>1. CASE t \in events
    <3>1. t \in armed /\ Queued(t)'
      BY <1>1, <1>4, <1>6, <2>1, Appended DEF Sources, Source
    <3>2. Place(t) = "parked" /\ Place(t)' = "ready"
      BY <1>1, <1>6, <3>1, PlaceWaiting, PlaceWaitingNext DEF TaskInv
    <3> QED
      BY <3>2 DEF Goes
  <2>2. CASE t \notin events
    BY <1>5, <1>6, <2>2, PlaceUntouched DEF Goes, Stayers
  <2> QED
    BY <2>1, <2>2
<1> QED
  BY <1>1, <1>3, <1>5, <1>6, StepMaps

\* A batch of expired timers lets its tasks run on together.
LEMMA ExpiredMap ==
  ASSUME IOInv, IOInv', NEW w \in Workers, ScheduleExpired(w)
  PROVE  [TP!Next]_(TP!vars)
PROOF
<1> DEFINE where == [u \in Stayers |-> Where(u)]
           S     == due[w] \cap Stayers
<1>1. CoreInv /\ IOTypes /\ Sources /\ TaskInv /\ TaskInv' /\ TypeOK
  BY DEF IOInv, CoreInv, IInv
<1>2. /\ IdleStep(w, "push", "events") /\ "push" \in InIdle /\ "events" \in InIdle
      /\ idleTerm' \subseteq Workers /\ armed' = armed \ due[w] /\ armed' \subseteq Tasks
      /\ owesTickle' \subseteq Threads
  BY <1>1 DEF ScheduleExpired, InIdle, TypeOK, Threads
<1>3. PICK b \in SetToSeqs(due[w]) :
        queue' = queue \o [i \in DOMAIN b |->
                             [task |-> b[i], kind |-> "wake", thread |-> AnyThread]]
  BY DEF ScheduleExpired
<1>4. due[w] \subseteq Tasks /\ IsFiniteSet(due[w])
  BY <1>1 DEF IOTypes
<1>5. /\ queue' \in Seq(Entry)
      /\ \A u : /\ Queued(u)' <=> Queued(u) \/ u \in due[w]
                /\ QueuedOnce(u) /\ ~(Queued(u) /\ u \in due[w]) => QueuedOnce(u)'
                /\ CbQueued(u)' => CbQueued(u)
  BY <1>1, <1>3, <1>4, BatchAppended
<1>6. /\ UNCHANGED <<state, on, submitted>> /\ client' = client
      /\ \A u \in Tasks : SameHolders(u)
  <2>1. client' = client
    BY <1>2 DEF IdleStep, clientVars
  <2> QED
    BY <1>1, <1>2, <1>5, <2>1, IdleKeeps DEF CoreInv
<1>7. \A u \in Stayers : Where(u) = Place(u) /\ Where(u)' = Place(u)'
  BY <1>1, SoundPlace, SoundPlaceNext DEF TaskInv
<1>8. ASSUME NEW u \in S PROVE Where(u) = "parked" /\ Where(u)' = "ready"
  <2>1. u \in armed /\ Queued(u)'
    BY <1>1, <1>5 DEF Sources, Source
  <2> QED
    BY <1>1, <1>7, <2>1, PlaceWaiting, PlaceWaitingNext DEF TaskInv
<1>9. ASSUME NEW u \in Stayers, u \notin S PROVE Where(u)' = Where(u)
  <2>1. SameQueue(u) /\ SameData(u)
    BY <1>1, <1>2, <1>5, <1>6, <1>9 DEF SameQueue, SameData, TaskInv, Sound, OneToken
  <2> QED
    BY <1>6, <1>7, <2>1, PlaceUntouched DEF Untouched, Stayers
<1>10. where' = [u \in Stayers |-> IF u \in S THEN "ready" ELSE where[u]]
  BY <1>8, <1>9
<1>11. TP!Wake(S)
  BY <1>6, <1>8, <1>10 DEF TP!Wake
<1>12. S \in SUBSET Stayers
  OBVIOUS
<1> QED
  BY <1>11, <1>12 DEF TP!Next

\* A task that registers what it waits for is parked.
LEMMA ParkMaps ==
  ASSUME IOInv, IOInv', NEW w \in Workers, AddEvent(w) \/ AddTimer(w)
  PROVE  [TP!Next]_(TP!vars)
PROOF
<1>1. /\ ParkOn(w) /\ owesTickle' \in {owesTickle, owesTickle \cup {w}}
      /\ UNCHANGED <<queue, active, idle, state, on, submitted, ft, idleTerm, clientVars, fault>>
  BY DEF AddEvent, AddTimer
<1>2. TaskInv /\ TaskInv' /\ TypeOK
  BY DEF IOInv, CoreInv, IInv
<1>3. owesTickle' \subseteq Threads
  BY <1>1, <1>2 DEF TypeOK, Threads
<1>4. PICK t : t = Holding(w)
  OBVIOUS
<1>5. /\ armed' = armed \cup {t} /\ pc[w] = "exec"
      /\ \A u \in Tasks \ {t} : Untouched(u)
  BY <1>1, <1>3, <1>4, Parks DEF ParkOn, At
<1>6. ASSUME t \in Stayers PROVE Goes(t)
  <2>1. CarriedBy(w, t)
    BY <1>4, <1>5 DEF CarriedBy, Occupied, Busy
  <2>2. Place(t) = "running" /\ Place(t)' = "parked"
    BY <1>2, <1>5, <1>6, <2>1, PlaceHeld, PlaceWaitingNext DEF TaskInv
  <2> QED
    BY <2>2 DEF Goes
<1>7. client' = client
  BY <1>1 DEF clientVars
<1> QED
  BY <1>2, <1>5, <1>6, <1>7, StepMaps

\* Every step of the I/O manager is a step of the pool or none.
LEMMA IONextMaps ==
  ASSUME IOInv, IOInv', Ended, Ended', [IONext]_allVars
  PROVE  [TP!Next]_(TP!vars)
PROOF
<1>1. IInv /\ TaskInv /\ TaskInv'
  BY DEF IOInv, CoreInv
<1>2. ASSUME NEW w \in Workers, Runs(w) \/ AddEvent(w) \/ AddTimer(w) \/ IOIdle(w)
      PROVE  [TP!Next]_(TP!vars)
  <2>1. CASE Runs(w)
    BY <1>1, <2>1, RunMaps DEF Runs
  <2>2. CASE AddEvent(w) \/ AddTimer(w)
    BY <2>2, ParkMaps
  <2>3. CASE IOIdle(w)
    BY <2>3, LooksMap, EventMaps, ExpiredMap DEF IOIdle
  <2> QED
    BY <1>2, <2>1, <2>2, <2>3
<1>3. CASE Owner
  <2> DEFINE begins == timers = {} /\ pending = 0 /\ queue = <<>> /\ active = 0
  <2>1. begins \in BOOLEAN /\ IODrained \in BOOLEAN
    BY DEF IODrained
  <2>2. \/ Submit \/ Start \/ StopBegin(begins) \/ StopTickle
        \/ StopRunCaller(IODrained) \/ StopJoin
    BY <1>3 DEF Owner
  <2> HIDE DEF begins
  <2> QED
    BY <1>1, <2>1, <2>2, SubmitMaps, OwnerMaps
<1>4. CASE \/ \E thr \in Threads : IOTickle(thr)
           \/ \E t \in Tasks : FdReady(t) \/ TimeElapses(t)
           \/ Over \/ UNCHANGED allVars
  <2>1. UNCHANGED <<queue, state, on, submitted, armed, pc, ft>> /\ client' = client
    BY <1>4 DEF IOTickle, FdReady, TimeElapses, Over, allVars, vars, taskVars, clientVars
  <2>2. \A u \in Stayers : Untouched(u)
    BY <2>1, HoldersUnchanged, QueueUnchanged DEF Untouched, SameData
  <2> QED
    BY <1>1, <2>1, <2>2, PlaceUntouched, NothingMaps
<1> QED
  BY <1>2, <1>3, <1>4 DEF IONext

\* Nothing runs after stop() has returned here either.
LEMMA IOEndedKept ==
  ASSUME IOInv, Ended, [IONext]_allVars
  PROVE  Ended'
PROOF
<1>1. IInv /\ pc \in [Workers -> PCs]
  BY DEF IOInv, CoreInv, IInv, TypeOK
<1>2. ASSUME NEW w \in Workers, Runs(w) \/ AddEvent(w) \/ AddTimer(w) \/ IOIdle(w)
      PROVE  Ended'
  <2>1. CASE Runs(w)
    BY <1>1, <2>1, WorkersMove, EndedStays DEF Runs
  <2>2. CASE AddEvent(w) \/ AddTimer(w)
    <3>1. /\ client' = client /\ pc[w] = "exec"
          /\ \A v \in Workers \ {w} : pc'[v] = pc[v]
      BY <1>1, <2>2 DEF AddEvent, AddTimer, ParkOn, At, Goto, clientVars
    <3> QED
      BY <3>1, EndedStays
  <2>3. CASE IOIdle(w)
    <3>1. PICK from \in InIdle, to \in InIdle : IdleStep(w, from, to)
      BY <2>3 DEF IOIdle, SeeTimers, SeePending, SeeDrained, EpollWait, ListExpired,
             ScheduleExpired, HandleEvent, DrainPipe, YieldIdle, InIdle
    <3>2. /\ client' = client /\ pc[w] \in InIdle
          /\ \A v \in Workers \ {w} : pc'[v] = pc[v]
      BY <1>1, <3>1 DEF IdleStep, At, Goto, clientVars
    <3> QED
      BY <3>2, EndedStays DEF InIdle
  <2> QED
    BY <1>2, <2>1, <2>2, <2>3
<1>3. CASE Owner
  <2> DEFINE begins == timers = {} /\ pending = 0 /\ queue = <<>> /\ active = 0
  <2>1. begins \in BOOLEAN /\ IODrained \in BOOLEAN
    BY DEF IODrained
  <2>2. \/ Submit \/ Start \/ StopBegin(begins) \/ StopTickle
        \/ StopRunCaller(IODrained) \/ StopJoin
    BY <1>3 DEF Owner
  <2>3. Submit => client' = client /\ pc' = pc
    BY DEF Submit, clientVars
  <2> HIDE DEF begins
  <2> QED
    BY <1>1, <2>1, <2>2, <2>3, OwnerEnds DEF Ended
<1>4. CASE \/ \E thr \in Threads : IOTickle(thr)
           \/ \E t \in Tasks : FdReady(t) \/ TimeElapses(t)
           \/ Over \/ UNCHANGED allVars
  <2>1. pc' = pc /\ client' = client
    BY <1>4 DEF IOTickle, FdReady, TimeElapses, Over, allVars, vars, clientVars
  <2> QED
    BY <2>1 DEF Ended
<1> QED
  BY <1>2, <1>3, <1>4 DEF IONext

\* With events, timers and an idle() of its own the scheduler still is a task
\* pool: whatever is reported late, listed by several threads or scheduled in
\* batches, a task goes from one place to the next as its own calls and its one
\* wakeup say (iomanager.cc:353-476).
THEOREM ManagerImplements == IOSpec => ImplementsTaskPool
PROOF
<1>1. IOInit => TP!Init /\ Ended
  <2>1. ASSUME IOInit
        PROVE  TP!Init /\ Ended
    <3>1. Init /\ \A t \in Stayers : Where(t) = "new"
      BY <2>1 DEF IOInit, Init, Where
    <3> QED
      BY <3>1 DEF Init, TP!Init, Ended
  <2> QED
    BY <2>1
<1>2. IOInv /\ Ended /\ [IONext]_allVars => Ended'
  BY IOEndedKept
<1>3. IOInv /\ IOInv' /\ Ended /\ Ended' /\ [IONext]_allVars => [TP!Next]_(TP!vars)
  BY IONextMaps
<1> QED
  BY <1>1, <1>2, <1>3, IOSound, PTL DEF IOSpec, ImplementsTaskPool, TP!Spec

-----------------------------------------------------------------------------
(* stop() of a manager with one thread, the caller's or its own.            *)

\* With two threads it is false: see io_stop_two.
OneThread == Movers = {} /\ \A v, w \in Workers : v = w

\* Nothing is queued or registered, and no thread is where it could add to that.
Resting ==
  /\ queue = <<>> /\ timers = {} /\ pending = 0
  /\ \A w \in Workers : pc[w] \in {"off", "idleRet", "pick", "nothing", "exited"}

\* What the thread has read in stopping(timeout) is still so when it reads on, and
\* when the last of it was as it should be it leaves, for good.
Seen ==
  /\ \A w \in Workers :
       /\ pc[w] \in {"pending?", "drained?"} => timers = {}
       /\ pc[w] = "drained?" => pending = 0
       /\ pc[w] = "exited" => w \in idleTerm
  /\ autoStop <=> client \notin {"new", "started"}
  /\ idleTerm # {} => autoStop /\ Resting
  /\ client = "stopped" \/ (client = "join" /\ Caller # NoThread) => Resting

\* A thread at work, in run() or in idle(), is not through with stopping().
LEMMA WorkingNotSeen ==
  ASSUME OneThread, Seen, Ended, NEW w \in Workers, pc[w] \notin {"off", "exited"}
  PROVE  /\ client # "stopped" /\ ~(client = "join" /\ Caller # NoThread)
         /\ pc[w] \notin {"idleRet", "pick", "nothing"} => idleTerm = {}
PROOF
<1>1. Caller # NoThread => Caller = w
  BY SchedulerAssumption DEF OneThread
<1>2. ~(client = "join" /\ Caller # NoThread)
  BY <1>1 DEF Ended
<1>3. client # "stopped"
  BY DEF Ended
<1>4. pc[w] \notin {"idleRet", "pick", "nothing"} => ~Resting
  BY DEF Resting
<1> QED
  BY <1>2, <1>3, <1>4 DEF Seen

\* A step of that thread which leaves stopping() aside.
LEMMA WorkingKeepsSeen ==
  ASSUME OneThread, IOInv, Seen, Ended, NEW w \in Workers, NEW l,
         pc[w] \notin {"off", "exited"}, pc' = [pc EXCEPT ![w] = l],
         l \notin {"pending?", "drained?"}, l = "exited" => w \in idleTerm,
         UNCHANGED <<idleTerm, autoStop, client>>,
         idleTerm # {} => /\ UNCHANGED <<queue, timers, pending>>
                          /\ l \in {"pick", "nothing", "exited"}
  PROVE  Seen'
PROOF
<1>1. /\ client # "stopped" /\ ~(client = "join" /\ Caller # NoThread)
      /\ pc \in [Workers -> PCs]
  BY WorkingNotSeen DEF IOInv, CoreInv, IInv, TypeOK
<1>2. \A v \in Workers : pc'[v] = l /\ v = w
  BY <1>1 DEF OneThread
<1>3. idleTerm # {} => Resting'
  BY <1>2 DEF Seen, Resting
<1> QED
  BY <1>1, <1>2, <1>3 DEF Seen

LEMMA RunsKeepSeen ==
  ASSUME OneThread, IOInv, Seen, Ended, NEW w \in Workers, Runs(w)
  PROVE  Seen'
PROOF
<1>1. /\ Run(w) /\ UNCHANGED <<timers, pending>> /\ pc \in [Workers -> PCs]
  BY DEF Runs, ioVars, IOInv, CoreInv, IInv, TypeOK
<1>2. CASE PickNothing(w) \/ Exit(w) \/ LeaveIdle(w)
  <2>1. UNCHANGED <<queue, idleTerm, autoStop, client>>
    BY <1>2 DEF PickNothing, Exit, LeaveIdle, clientVars
  <2>3. \/ pc' = [pc EXCEPT ![w] = "nothing"]
        \/ pc' = [pc EXCEPT ![w] = "exited"] /\ w \in idleTerm
        \/ pc' = [pc EXCEPT ![w] = "pick"]
    BY <1>2 DEF PickNothing, Exit, LeaveIdle, Goto
  <2>2. pc[w] \notin {"off", "exited"}
    BY <1>2 DEF PickNothing, Exit, LeaveIdle, At
  <2> QED
    BY <1>1, <2>1, <2>2, <2>3, WorkingKeepsSeen
<1>3. CASE PickTask(w) \/ EnterIdle(w)
  <2>1. PICK l \in {"dispatch", "idle"} :
          pc' = [pc EXCEPT ![w] = l] /\ UNCHANGED <<idleTerm, autoStop, client>>
    BY <1>3 DEF PickTask, EnterIdle, Goto, clientVars
  <2>2. pc[w] \notin {"off", "exited"}
    BY <1>3 DEF PickTask, EnterIdle, At
  <2>3. idleTerm = {}
    <3>1. CASE PickTask(w)
      <4>1. queue # <<>>
        BY <3>1 DEF PickTask
      <4> QED
        BY <4>1 DEF Seen, Resting
    <3>2. CASE EnterIdle(w)
      <4>1. w \notin idleTerm /\ idleTerm \subseteq Workers
        BY <3>2 DEF EnterIdle, IOInv, CoreInv, IInv, TypeOK
      <4> QED
        BY <4>1 DEF OneThread
    <3> QED
      BY <1>3, <3>1, <3>2
  <2> QED
    BY <2>1, <2>2, <2>3, WorkingKeepsSeen
<1>4. CASE ~(PickNothing(w) \/ Exit(w) \/ LeaveIdle(w) \/ PickTask(w) \/ EnterIdle(w))
  <2>1. /\ pc[w] \in Occupied
        /\ \E l \in Occupied \cup {"pick"} : pc' = [pc EXCEPT ![w] = l]
        /\ UNCHANGED <<idleTerm, autoStop, client>>
    <3>1. CASE Dispatch(w) \/ DropFinished(w) \/ RunWakeup(w) \/ EndWakeup(w)
      BY <3>1 DEF Dispatch, DropFinished, RunWakeup, EndWakeup, Resume, Release, At, Goto,
                  clientVars, Occupied, Busy
    <3>2. CASE Finish(w) \/ YieldToReady(w) \/ SwitchTo(w) \/ YieldToHold(w) \/ SwapOut(w)
      BY <3>2 DEF Finish, YieldToReady, SwitchTo, YieldToHold, SwapOut, At, Goto,
                  clientVars, Occupied, Busy
    <3>3. CASE Spawn(w)
      <4>1. pc[w] = "exec" /\ pc' = pc /\ UNCHANGED <<idleTerm, autoStop, client>>
        BY <3>3 DEF Spawn, At, clientVars
      <4>2. pc' = [pc EXCEPT ![w] = "exec"]
        BY <1>1, <4>1
      <4> QED
        BY <4>1, <4>2 DEF Occupied, Busy
    <3>4. CASE Return(w) \/ Reschedule(w) \/ Retire(w) \/ SeeUnfinished(w) \/ SetHold(w)
      BY <3>4 DEF Return, Reschedule, Retire, SeeUnfinished, SetHold, Release, At, Goto,
                  clientVars, Occupied, Busy
    <3> QED
      BY <1>1, <1>4, <3>1, <3>2, <3>3, <3>4 DEF Run
  <2>2. pc[w] \notin {"off", "exited", "idleRet", "pick", "nothing"}
    BY <2>1 DEF Occupied, Busy
  <2>3. idleTerm = {}
    BY <2>2, WorkingNotSeen
  <2>4. PICK l \in Occupied \cup {"pick"} : pc' = [pc EXCEPT ![w] = l]
    BY <2>1
  <2>5. l \notin {"pending?", "drained?", "exited"}
    BY DEF Occupied, Busy
  <2> QED
    BY <2>1, <2>2, <2>3, <2>4, <2>5, WorkingKeepsSeen
<1> QED
  BY <1>2, <1>3, <1>4

\* stopping(timeout): nobody else is there to change what has been read.
LEMMA IdleKeepsSeen ==
  ASSUME OneThread, IOInv, Seen, Ended, NEW w \in Workers, IOIdle(w)
  PROVE  Seen'
PROOF
<1>1. /\ pc[w] \in InIdle \ {"idleRet"} /\ client' = client /\ autoStop' = autoStop
      /\ pc \in [Workers -> PCs] /\ idleTerm \subseteq Workers
  <2>1. pc[w] \in InIdle \ {"idleRet"} /\ client' = client /\ autoStop' = autoStop
    BY DEF IOIdle, SeeTimers, SeePending, SeeDrained, EpollWait, ListExpired, ScheduleExpired,
           HandleEvent, DrainPipe, YieldIdle, IdleStep, At, clientVars, InIdle
  <2> QED
    BY <2>1 DEF IOInv, CoreInv, IInv, TypeOK
<1>2. /\ idleTerm = {} /\ client # "stopped" /\ ~(client = "join" /\ Caller # NoThread)
  BY <1>1, WorkingNotSeen DEF InIdle
<1>3. \A v \in Workers : v = w
  BY DEF OneThread
<1>4. CASE SeeTimers(w)
  <2>1. /\ pc' = [pc EXCEPT ![w] = IF timers = {} THEN "pending?" ELSE "wait"]
        /\ UNCHANGED <<idleTerm, timers>>
    BY <1>4 DEF SeeTimers, IdleStep, Goto, ioVars
  <2> QED
    BY <1>1, <1>2, <1>3, <2>1 DEF Seen
<1>5. CASE SeePending(w)
  <2>1. /\ pc[w] = "pending?" /\ UNCHANGED <<idleTerm, timers, pending>>
        /\ pc' = [pc EXCEPT ![w] = IF pending = 0 THEN "drained?" ELSE "wait"]
    BY <1>5 DEF SeePending, IdleStep, At, Goto, ioVars
  <2> QED
    BY <1>1, <1>2, <1>3, <2>1 DEF Seen
<1>6. CASE SeeDrained(w)
  <2>1. /\ pc[w] = "drained?" /\ UNCHANGED <<queue, timers, pending>>
        /\ pc' = [pc EXCEPT ![w] = IF Drained THEN "idleRet" ELSE "wait"]
        /\ idleTerm' = IF Drained THEN idleTerm \cup {w} ELSE idleTerm
    BY <1>6 DEF SeeDrained, IdleStep, At, Goto, ioVars
  <2>2. CASE Drained
    <3>1. queue = <<>> /\ autoStop /\ timers = {} /\ pending = 0
      BY <2>1, <2>2 DEF Drained, Seen
    <3>2. \A v \in Workers : pc'[v] = "idleRet"
      BY <1>1, <1>3, <2>1, <2>2
    <3>3. Resting'
      BY <2>1, <3>1, <3>2 DEF Resting
    <3> QED
      BY <1>1, <3>1, <3>2, <3>3 DEF Seen
  <2>3. CASE ~Drained
    BY <1>1, <1>2, <1>3, <2>1, <2>3 DEF Seen
  <2> QED
    BY <2>2, <2>3
<1>7. CASE \/ EpollWait(w) \/ ListExpired(w) \/ ScheduleExpired(w) \/ HandleEvent(w)
           \/ DrainPipe(w) \/ YieldIdle(w)
  <2>1. /\ idleTerm' = idleTerm
        /\ \/ pc' = [pc EXCEPT ![w] = "expire"] \/ pc' = [pc EXCEPT ![w] = "push"]
           \/ pc' = [pc EXCEPT ![w] = "events"] \/ pc' = [pc EXCEPT ![w] = "idleRet"]
    BY <1>7 DEF EpollWait, ListExpired, ScheduleExpired, HandleEvent, DrainPipe, YieldIdle,
                IdleStep, Goto
  <2> QED
    BY <1>1, <1>2, <1>3, <2>1 DEF Seen
<1> QED
  BY <1>4, <1>5, <1>6, <1>7 DEF IOIdle

\* The owner: what stop() asks when no thread is there is so when it returns.
LEMMA OwnerKeepsSeen ==
  ASSUME OneThread, IOInv, Seen, Ended, Owner, UNCHANGED ioVars
  PROVE  Seen'
PROOF
<1>1. /\ Offline /\ pc \in [Workers -> PCs] /\ UNCHANGED <<timers, pending>>
      /\ Caller \in Workers \cup {NoThread} /\ NoThread \notin Workers /\ Workers # {}
  BY SchedulerAssumption DEF IOInv, CoreInv, IInv, TypeOK, ioVars
<1>2. CASE Submit
  <2>1. client \in {"new", "started"} /\ UNCHANGED <<pc, idleTerm, autoStop, client>>
    BY <1>2 DEF Submit, MainAt, clientVars
  <2> QED
    BY <1>1, <2>1 DEF Seen
<1>3. CASE Start
  <2>1. /\ client = "new" /\ client' = "started" /\ UNCHANGED <<idleTerm, autoStop>>
        /\ pc' = [v \in Workers |-> IF v \in Pool THEN "pick" ELSE pc[v]]
    BY <1>3 DEF Start, MainAt
  <2>2. \A v \in Workers : pc'[v] \in {"pick", "off"}
    BY <1>1, <2>1 DEF Offline
  <2>3. ~autoStop /\ idleTerm = {}
    BY <2>1 DEF Seen
  <2> QED
    BY <2>1, <2>2, <2>3 DEF Seen
<1>4. CASE StopTickle
  <2>1. UNCHANGED <<queue, pc, idleTerm, autoStop, client>>
    BY <1>4 DEF StopTickle
  <2> QED
    BY <1>1, <2>1 DEF Seen, Resting
<1>5. CASE StopBegin(timers = {} /\ pending = 0 /\ queue = <<>> /\ active = 0)
  <2>1. /\ client = "started" /\ autoStop' = TRUE /\ UNCHANGED <<queue, pc, idleTerm>>
        /\ \/ client' = "tickling"
           \/ client' = "stopped" /\ Pool = {} /\ queue = <<>> /\ timers = {} /\ pending = 0
    BY <1>5 DEF StopBegin, MainAt
  <2>2. idleTerm = {}
    BY <2>1 DEF Seen
  <2>3. Pool = {} => \A v \in Workers : pc[v] = "off"
    BY <1>1, <2>1 DEF Pool, Offline
  <2>4. client' = "stopped" => Resting'
    BY <1>1, <2>1, <2>3 DEF Resting
  <2> QED
    BY <1>1, <2>1, <2>2, <2>4 DEF Seen
<1>6. CASE StopRunCaller(IODrained)
  <2>1. /\ client = "tickling" /\ UNCHANGED <<queue, idleTerm, autoStop>>
        /\ \/ client' = "caller" /\ Caller # NoThread /\ pc' = [pc EXCEPT ![Caller] = "pick"]
           \/ client' = "join" /\ pc' = pc /\ (Caller = NoThread \/ IODrained)
    BY <1>6 DEF StopRunCaller, MainAt, Goto
  <2>2. CASE client' = "caller" /\ Caller # NoThread /\ pc' = [pc EXCEPT ![Caller] = "pick"]
    <3>1. \A v \in Workers : v = Caller /\ pc'[v] = "pick"
      BY <1>1, <2>2 DEF OneThread
    <3>2. idleTerm # {} => Resting'
      BY <1>1, <2>1, <3>1 DEF Seen, Resting
    <3> QED
      BY <2>1, <2>2, <3>1, <3>2 DEF Seen
  <2>3. CASE client' = "join" /\ pc' = pc /\ (Caller = NoThread \/ IODrained)
    <3>1. Caller # NoThread => \A v \in Workers : pc[v] = "off"
      BY <1>1, <2>1 DEF Offline, OneThread
    <3>2. Caller # NoThread => Resting'
      BY <1>1, <2>1, <2>3, <3>1 DEF IODrained, Drained, Resting
    <3>3. idleTerm # {} => Resting'
      BY <1>1, <2>1, <2>3 DEF Seen, Resting
    <3> QED
      BY <1>1, <2>1, <2>3, <3>2, <3>3 DEF Seen
  <2> QED
    BY <2>1, <2>2, <2>3
<1>7. CASE StopJoin
  <2>1. /\ UNCHANGED <<queue, pc, idleTerm, autoStop>>
        /\ \/ client = "caller" /\ client' = "join" /\ pc[Caller] = "exited"
           \/ client = "join" /\ client' = "stopped" /\ \A v \in Pool : pc[v] = "exited"
    BY <1>7 DEF StopJoin, MainAt
  <2>2. client' = "stopped" \/ (client' = "join" /\ Caller # NoThread) => Resting
    <3>1. CASE client' = "join" /\ Caller # NoThread
      <4>1. Caller \in Workers /\ pc[Caller] = "exited"
        BY <1>1, <2>1, <3>1
      <4> QED
        BY <4>1 DEF Seen
    <3>2. CASE client' = "stopped" /\ Caller # NoThread
      BY <2>1, <3>2 DEF Seen
    <3>3. CASE client' = "stopped" /\ Caller = NoThread
      <4>1. PICK v \in Workers : v \in Pool
        BY <1>1, <3>3 DEF Pool
      <4>2. v \in idleTerm
        BY <2>1, <3>3, <4>1 DEF Seen
      <4> QED
        BY <4>2 DEF Seen
    <3> QED
      BY <2>1, <3>1, <3>2, <3>3
  <2>3. Resting => Resting'
    BY <1>1, <2>1 DEF Resting
  <2> QED
    BY <1>1, <2>1, <2>2, <2>3 DEF Seen
<1> QED
  BY <1>2, <1>3, <1>4, <1>5, <1>6, <1>7 DEF Owner

LEMMA SeenKept ==
  ASSUME OneThread, IOInv, Seen, Ended, [IONext]_allVars
  PROVE  Seen'
PROOF
<1>1. ASSUME NEW w \in Workers, AddEvent(w) \/ AddTimer(w)
      PROVE  Seen'
  <2>1. /\ pc[w] = "exec" /\ pc' = [pc EXCEPT ![w] = "parking"]
        /\ UNCHANGED <<idleTerm, autoStop, client>>
    BY <1>1 DEF AddEvent, AddTimer, ParkOn, At, Goto, clientVars
  <2>2. idleTerm = {}
    BY <2>1, WorkingNotSeen
  <2> QED
    BY <2>1, <2>2, WorkingKeepsSeen
<1>2. CASE \/ \E thr \in Threads : IOTickle(thr)
           \/ \E t \in Tasks : FdReady(t) \/ TimeElapses(t)
           \/ Over /\ UNCHANGED ioVars
           \/ UNCHANGED allVars
  <2>1. UNCHANGED <<queue, timers, pending, pc, idleTerm, autoStop, client>>
    BY <1>2 DEF IOTickle, FdReady, TimeElapses, Over, allVars, vars, ioVars, clientVars
  <2> QED
    BY <2>1 DEF Seen, Resting
<1> QED
  BY <1>1, <1>2, RunsKeepSeen, IdleKeepsSeen, OwnerKeepsSeen DEF IONext

\* With one thread, be it the caller's or its own, the three reads of
\* stopping(timeout) miss nothing: when stop() has returned every task that was
\* submitted has run to its end, those that waited for an event or a timer included
\* (iomanager.cc:347-351, scheduler.cc:103-156).
THEOREM OneThreadLosesNothing ==
  ASSUME OneThread
  PROVE  IOSpec => []StopLosesNothing
PROOF
<1>1. IOInit => Seen /\ Ended
  BY DEF IOInit, Init, Seen, Ended
<1>2. IOInv /\ Ended /\ [IONext]_allVars => Ended'
  BY IOEndedKept
<1>3. IOInv /\ Seen /\ Ended /\ [IONext]_allVars => Seen'
  BY SeenKept
<1>4. IOInv /\ Seen /\ Ended => StopLosesNothing
  <2> SUFFICES ASSUME IOInv, Seen, Ended, client = "stopped", NEW t \in submitted
               PROVE  state[t] \in Done
    BY DEF StopLosesNothing
  <2>1. queue = <<>> /\ timers = {} /\ pending = 0
    BY DEF Seen, Resting
  <2>2. \A w \in Workers : pc[w] \in {"off", "exited"}
    BY DEF Ended
  <2>3. events = {}
    <3>1. IsFiniteSet(events) /\ Cardinality(events) \in Nat /\ Cardinality(events) <= 0
      BY <2>1, FS_CardinalityType DEF IOInv, IOTypes
    <3> QED
      BY <3>1, FS_EmptySet
  <2>4. \A w \in Workers : due[w] = {}
    BY <2>2 DEF IOInv, IOTypes
  <2>5. t \in Stayers /\ Sound(t) /\ Source(t)
    <3>1. t \in Stayers
      BY DEF OneThread, Stayers, IOInv, CoreInv, IInv, TypeOK
    <3> QED
      BY <3>1 DEF IOInv, CoreInv, TaskInv, Sources
  <2>6. t \notin armed
    BY <2>1, <2>3, <2>4, <2>5 DEF Source
  <2>7. ~Queued(t) /\ \A w \in Workers : ~CarriedBy(w, t)
    BY <2>1, <2>2 DEF Queued, CarriedBy
  <2> QED
    BY <2>5, <2>6, <2>7 DEF Sound, OneToken
<1> QED
  BY <1>1, <1>2, <1>3, <1>4, IOSound, PTL DEF IOSpec

=============================================================================
