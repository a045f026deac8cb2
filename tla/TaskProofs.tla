----------------------------- MODULE TaskProofs -----------------------------
(***************************************************************************)
(* Theorems of Scheduler about its tasks, for any number of workers and of *)
(* tasks: a task that does not call switchTo() is on at most one stack, is *)
(* known to exactly one place that will let it run on, fails no assertion  *)
(* of Fiber, and so the scheduler is a TaskPool.  When tasks may be run by *)
(* any thread and only go back to the queue, stop() leaves none behind.    *)
(***************************************************************************)
EXTENDS SchedulerProofs

-----------------------------------------------------------------------------
(* The inductive invariant of one task.                                     *)

\* Worker w is in the body of run()'s loop with an entry for t, and past the
\* resume() and not through with what follows it.
Held(w, t)     == pc[w] \in Occupied /\ Holding(w) = t
Embodies(w, t) == Held(w, t) /\ pc[w] \in {"exec", "parking", "swap", "ret", "after", "sethold"}

Queued(t)     == \E i \in DOMAIN queue : queue[i].task = t
CbQueued(t)   == \E i \in DOMAIN queue : queue[i].task = t /\ queue[i].kind = "cb"
QueuedOnce(t) == \A i, j \in DOMAIN queue : queue[i].task = t /\ queue[j].task = t => i = j

\* One thread at a time is between resume() and the last write of state_, and a
\* stack has the thread that is on it.
OneBody(t) ==
  /\ \A w \in Workers : Held(w, t) => pc[w] # "switching"
  /\ \A v, w \in Workers : Embodies(v, t) /\ Embodies(w, t) => v = w
  /\ on[t] = {w \in Workers : Held(w, t) /\ pc[w] \in {"exec", "parking", "swap"}}

\* What state_ says while that thread is there.  This keeps others away: as long
\* as it is EXEC no entry of the fiber is eligible.
BodyState(t) ==
  \A w \in Workers : Held(w, t) =>
    /\ pc[w] \in {"exec", "parking", "sethold"} => state[t] = "EXEC"
    /\ pc[w] = "swap" => state[t] \in {"READY"} \cup Done
    /\ pc[w] \in {"ret", "after"} => state[t] \in {"EXEC", "READY"} \cup Done

\* A worker about to resume the task does so alone, the first time included.
Fresh(t) ==
  /\ \A w \in Workers : Held(w, t) /\ pc[w] = "dispatch" /\ ft[w].kind # "wake" =>
       state[t] # "EXEC" /\ \A v \in Workers : ~Embodies(v, t)
  /\ CbQueued(t) => state[t] = "INIT" /\ \A v \in Workers : ~Embodies(v, t)
  /\ t \notin submitted => state[t] = "INIT" /\ \A v \in Workers : ~Held(v, t)

\* The task is known to at most one place that will let it run on, and to one
\* exactly while it is submitted and unfinished.
OneToken(t) ==
  /\ QueuedOnce(t)
  /\ \A v, w \in Workers : CarriedBy(v, t) /\ CarriedBy(w, t) => v = w
  /\ \A w \in Workers : CarriedBy(w, t) => ~Queued(t) /\ t \notin armed
  /\ Queued(t) => t \notin armed
  /\ (Queued(t) \/ t \in armed \/ \E w \in Workers : CarriedBy(w, t))
       <=> (t \in submitted /\ state[t] \notin Done)

Sound(t) == OneBody(t) /\ BodyState(t) /\ Fresh(t) /\ OneToken(t)

-----------------------------------------------------------------------------
(* The run queue.                                                           *)

\* What schedule() does to the entries of each task.
LEMMA Appended ==
  ASSUME TypeOK, NEW thr, NEW t, NEW kind, NEW thread, Schedule(thr, t, kind, thread), NEW u
  PROVE  /\ Queued(u)' <=> Queued(u) \/ u = t
         /\ u # t /\ QueuedOnce(u) => QueuedOnce(u)'
         /\ ~Queued(t) => QueuedOnce(t)'
         /\ CbQueued(u)' <=> CbQueued(u) \/ (u = t /\ kind = "cb")
PROOF
<1> DEFINE e == [task |-> t, kind |-> kind, thread |-> thread]
           n == Len(queue)
<1>1. queue \in Seq(Entry) /\ queue' = Append(queue, e)
  BY DEF TypeOK, Schedule
<1>2. /\ n \in Nat /\ DOMAIN queue = 1..n /\ DOMAIN queue' = 1..(n + 1)
      /\ \A i \in 1..n : queue'[i] = queue[i]
      /\ queue'[n + 1] = e
  <2> HIDE DEF e, Entry
  <2> QED
    BY <1>1
<1>3. e.task = t /\ e.kind = kind
  OBVIOUS
<1>4. \A i \in 1..(n + 1) : i \in 1..n \/ i = n + 1
  BY <1>2
<1>5. n + 1 \in 1..(n + 1) /\ (\A i \in 1..n : i \in 1..(n + 1))
  BY <1>2
<1> HIDE DEF e, n
<1>6. Queued(u)' <=> Queued(u) \/ u = t
  BY <1>2, <1>3, <1>4, <1>5 DEF Queued
<1>7. CbQueued(u)' <=> CbQueued(u) \/ (u = t /\ kind = "cb")
  BY <1>2, <1>3, <1>4, <1>5 DEF CbQueued
<1>8. u # t /\ QueuedOnce(u) => QueuedOnce(u)'
  BY <1>2, <1>3, <1>4 DEF QueuedOnce
<1>9. ~Queued(t) => QueuedOnce(t)'
  BY <1>2, <1>3, <1>4 DEF QueuedOnce, Queued
<1> QED
  BY <1>6, <1>7, <1>8, <1>9

\* What taking entry i does to the entries of each task.
LEMMA Removed ==
  ASSUME TypeOK, NEW i \in DOMAIN queue, queue' = RemoveAt(queue, i), NEW u
  PROVE  /\ u # queue[i].task => (Queued(u)' <=> Queued(u))
         /\ QueuedOnce(u) => QueuedOnce(u)'
         /\ u = queue[i].task /\ QueuedOnce(u) => ~Queued(u)'
         /\ CbQueued(u)' => CbQueued(u)
PROOF
<1> DEFINE n == Len(queue)
           at(j) == IF j < i THEN j ELSE j + 1
<1>1. queue \in Seq(Entry) /\ n \in Nat /\ DOMAIN queue = 1..n /\ i \in 1..n
  BY DEF TypeOK
<1>2. /\ SubSeq(queue, 1, i - 1) \in Seq(Entry) /\ Len(SubSeq(queue, 1, i - 1)) = i - 1
      /\ \A j \in 1..(i - 1) : SubSeq(queue, 1, i - 1)[j] = queue[j]
      /\ SubSeq(queue, i + 1, n) \in Seq(Entry) /\ Len(SubSeq(queue, i + 1, n)) = n - i
      /\ \A j \in 1..(n - i) : SubSeq(queue, i + 1, n)[j] = queue[i + j]
  <2> HIDE DEF Entry
  <2>1. \A j \in 1..(i - 1) : j \in 1..n
    BY <1>1
  <2>2. \A j \in (i + 1)..n : j \in 1..n
    BY <1>1
  <2>3. /\ SubSeq(queue, 1, i - 1) \in Seq(Entry)
        /\ Len(SubSeq(queue, 1, i - 1)) = IF 1 <= i - 1 THEN (i - 1) - 1 + 1 ELSE 0
        /\ \A j \in 1..((i - 1) - 1 + 1) : SubSeq(queue, 1, i - 1)[j] = queue[1 + j - 1]
    BY <1>1, <2>1, SubSeqProperties
  <2>4. /\ SubSeq(queue, i + 1, n) \in Seq(Entry)
        /\ Len(SubSeq(queue, i + 1, n)) = IF i + 1 <= n THEN n - (i + 1) + 1 ELSE 0
        /\ \A j \in 1..(n - (i + 1) + 1) : SubSeq(queue, i + 1, n)[j] = queue[i + 1 + j - 1]
    BY <1>1, <2>2, SubSeqProperties
  <2>5. \A j \in 1..(i - 1) : 1 + j - 1 = j /\ j \in 1..((i - 1) - 1 + 1)
    BY <1>1
  <2>6. \A j \in 1..(n - i) : i + 1 + j - 1 = i + j /\ j \in 1..(n - (i + 1) + 1)
    BY <1>1
  <2>7. /\ i - 1 = IF 1 <= i - 1 THEN (i - 1) - 1 + 1 ELSE 0
        /\ n - i = IF i + 1 <= n THEN n - (i + 1) + 1 ELSE 0
    BY <1>1
  <2> QED
    BY <2>3, <2>4, <2>5, <2>6, <2>7
<1>3. /\ DOMAIN queue' = 1..(n - 1)
      /\ \A j \in 1..(n - 1) : queue'[j] = queue[at(j)]
  <2> DEFINE a == SubSeq(queue, 1, i - 1)
             b == SubSeq(queue, i + 1, n)
  <2>1. queue' = a \o b
    BY DEF RemoveAt
  <2> HIDE DEF Entry, a, b
  <2>2. a \in Seq(Entry) /\ b \in Seq(Entry) /\ Len(a) = i - 1 /\ Len(b) = n - i
    BY <1>2 DEF a, b
  <2>3. /\ queue' \in Seq(Entry) /\ Len(queue') = Len(a) + Len(b)
        /\ \A j \in 1..(Len(a) + Len(b)) : queue'[j] = IF j <= Len(a) THEN a[j] ELSE b[j - Len(a)]
    BY <2>1, <2>2, ConcatProperties
  <2>4. Len(queue') = n - 1 /\ DOMAIN queue' = 1..(n - 1)
    BY <1>1, <2>2, <2>3
  <2>5. ASSUME NEW j \in 1..(n - 1), j < i
        PROVE  queue'[j] = queue[j]
    <3>1. j \in 1..(i - 1) /\ j <= Len(a) /\ j \in 1..(Len(a) + Len(b))
      BY <1>1, <2>2, <2>5
    <3> QED
      BY <1>2, <2>3, <3>1 DEF a
  <2>6. ASSUME NEW j \in 1..(n - 1), ~(j < i)
        PROVE  queue'[j] = queue[j + 1]
    <3>1. /\ ~(j <= Len(a)) /\ j \in 1..(Len(a) + Len(b)) /\ j - Len(a) = j - i + 1
          /\ j - i + 1 \in 1..(n - i) /\ i + (j - i + 1) = j + 1
      BY <1>1, <2>2, <2>6
    <3> QED
      BY <1>2, <2>3, <3>1 DEF b
  <2> QED
    BY <2>4, <2>5, <2>6
<1>4. /\ \A j \in 1..(n - 1) : at(j) \in 1..n /\ at(j) # i
      /\ \A j, k \in 1..(n - 1) : at(j) = at(k) => j = k
      /\ \A k \in 1..n : k # i => \E j \in 1..(n - 1) : at(j) = k
  <2>1. \A j \in 1..(n - 1) : at(j) \in 1..n /\ at(j) # i
    BY <1>1
  <2>2. \A j, k \in 1..(n - 1) : at(j) = at(k) => j = k
    BY <1>1
  <2>3. ASSUME NEW k \in 1..n, k # i
        PROVE  \E j \in 1..(n - 1) : at(j) = k
    <3>1. CASE k < i
      <4>1. k \in 1..(n - 1) /\ at(k) = k
        BY <1>1, <3>1
      <4> QED
        BY <4>1
    <3>2. CASE k > i
      <4>1. k - 1 \in 1..(n - 1) /\ at(k - 1) = k
        BY <1>1, <3>2
      <4> QED
        BY <4>1
    <3> QED
      BY <1>1, <2>3, <3>1, <3>2
  <2> QED
    BY <2>1, <2>2, <2>3
<1> HIDE DEF at, n
<1>5. u # queue[i].task => (Queued(u)' <=> Queued(u))
  BY <1>1, <1>3, <1>4 DEF Queued
<1>6. QueuedOnce(u) => QueuedOnce(u)'
  BY <1>1, <1>3, <1>4 DEF QueuedOnce
<1>7. u = queue[i].task /\ QueuedOnce(u) => ~Queued(u)'
  BY <1>1, <1>3, <1>4 DEF QueuedOnce, Queued
<1>8. CbQueued(u)' => CbQueued(u)
  BY <1>1, <1>3, <1>4 DEF CbQueued
<1> QED
  BY <1>5, <1>6, <1>7, <1>8


-----------------------------------------------------------------------------
(* What a step that is not about a task leaves alone.                       *)

SameQueue(t) ==
  /\ Queued(t)' <=> Queued(t)
  /\ QueuedOnce(t) => QueuedOnce(t)'
  /\ CbQueued(t)' => CbQueued(t)

SameHolders(t) ==
  \A w \in Workers :
    /\ Held(w, t)' <=> Held(w, t)
    /\ Held(w, t) => pc'[w] = pc[w] /\ ft'[w] = ft[w]

SameData(t) ==
  /\ state'[t] = state[t] /\ on'[t] = on[t]
  /\ t \in submitted' <=> t \in submitted
  /\ t \in armed' <=> t \in armed

Untouched(t) == SameQueue(t) /\ SameHolders(t) /\ SameData(t)

\* A step that does not touch the queue.
LEMMA QueueUnchanged ==
  ASSUME queue' = queue, NEW t
  PROVE  SameQueue(t) /\ (QueuedOnce(t)' <=> QueuedOnce(t)) /\ (CbQueued(t)' <=> CbQueued(t))
BY DEF SameQueue, Queued, QueuedOnce, CbQueued

\* A step that moves no worker.
LEMMA HoldersUnchanged ==
  ASSUME pc' = pc, ft' = ft, NEW t
  PROVE  SameHolders(t)
BY DEF SameHolders, Held, Holding

\* Who runs a task, and who carries it, is then the same too.
LEMMA SameCarriers ==
  ASSUME NEW t, SameHolders(t), state'[t] = state[t]
  PROVE  \A w \in Workers : /\ CarriedBy(w, t)' <=> CarriedBy(w, t)
                            /\ Embodies(w, t)' <=> Embodies(w, t)
PROOF
<1> SUFFICES ASSUME NEW w \in Workers
             PROVE  /\ CarriedBy(w, t)' <=> CarriedBy(w, t)
                    /\ Embodies(w, t)' <=> Embodies(w, t)
  OBVIOUS
<1>1. /\ CarriedBy(w, t) <=> Held(w, t) /\ (\/ pc[w] \in {"dispatch", "exec"}
                                            \/ pc[w] \in {"swap", "ret", "after"} /\ state[t] = "READY")
      /\ CarriedBy(w, t)' <=> Held(w, t)' /\ (\/ pc'[w] \in {"dispatch", "exec"}
                                              \/ pc'[w] \in {"swap", "ret", "after"} /\ state'[t] = "READY")
  BY DEF CarriedBy, Held
<1>2. (Held(w, t)' <=> Held(w, t)) /\ (Held(w, t) => pc'[w] = pc[w])
  BY DEF SameHolders
<1> QED
  BY <1>1, <1>2 DEF Embodies

\* A task that a step leaves alone stays sound: this is used for all tasks but
\* the one a step is about.
LEMMA UntouchedKeeps ==
  ASSUME NEW t, Sound(t), Untouched(t)
  PROVE  Sound(t)'
PROOF
<1> USE DEF Untouched
<1>1. /\ \A w \in Workers : CarriedBy(w, t)' <=> CarriedBy(w, t)
      /\ \A w \in Workers : Embodies(w, t)' <=> Embodies(w, t)
  BY SameCarriers DEF SameData
<1>2. \A w \in Workers : /\ Held(w, t)' <=> Held(w, t)
                         /\ Held(w, t) => pc'[w] = pc[w] /\ ft'[w] = ft[w]
  BY DEF SameHolders
<1>3. OneBody(t)'
  BY <1>1, <1>2 DEF Sound, OneBody, SameData
<1>4. BodyState(t)'
  BY <1>2 DEF Sound, BodyState, SameData
<1>5. Fresh(t)'
  BY <1>1, <1>2 DEF Sound, Fresh, SameData, SameQueue
<1>6. OneToken(t)'
  BY <1>1 DEF Sound, OneToken, SameData, SameQueue
<1> QED
  BY <1>3, <1>4, <1>5, <1>6 DEF Sound

\* A worker that moves within the loop's body, or leaves it, is no other
\* task's business.
LEMMA WorkerOnly ==
  ASSUME TypeOK, NEW w \in Workers, NEW l, pc' = [pc EXCEPT ![w] = l], Follows(w, l)
  PROVE  /\ \A v \in Workers \ {w} : pc'[v] = pc[v] /\ ft'[v] = ft[v]
         /\ pc'[w] = l
         /\ l \in Occupied => ft' = ft
         /\ \A t \in Tasks : ~Held(w, t) => SameHolders(t)
         /\ \A t \in Tasks, v \in Workers : v # w => (Held(v, t)' <=> Held(v, t))
         /\ \A t \in Tasks : Held(w, t)' <=> Held(w, t) /\ l \in Occupied
PROOF
<1>1. pc \in [Workers -> PCs] /\ ft \in [Workers -> Entry \cup {NoEntry}]
  BY DEF TypeOK
<1>2. /\ \A v \in Workers \ {w} : pc'[v] = pc[v] /\ ft'[v] = ft[v]
      /\ pc'[w] = l
      /\ l \in Occupied => ft' = ft
  <2> HIDE DEF Occupied, Entry, PCs
  <2> QED
    BY <1>1 DEF Follows
<1>3. l \in Occupied => pc[w] \in Occupied
  <2> HIDE DEF Occupied
  <2> QED
    BY DEF Follows
<1>4. \A t \in Tasks, v \in Workers : v # w => (Held(v, t)' <=> Held(v, t))
  <2> HIDE DEF Occupied
  <2> QED
    BY <1>2 DEF Held, Holding
<1>5. \A t \in Tasks : Held(w, t)' <=> Held(w, t) /\ l \in Occupied
  <2> HIDE DEF Occupied
  <2> QED
    BY <1>2, <1>3 DEF Held, Holding
<1>6. \A t \in Tasks : ~Held(w, t) => SameHolders(t)
  BY <1>2, <1>4, <1>5 DEF SameHolders
<1> QED
  BY <1>2, <1>4, <1>5, <1>6


\* So a worker's step leaves the tasks alone that it does not hold.
LEMMA OthersUntouched ==
  ASSUME TypeOK, NEW w \in Workers, NEW l, pc' = [pc EXCEPT ![w] = l], Follows(w, l),
         NEW t \in Tasks, ~Held(w, t), SameQueue(t), SameData(t)
  PROVE  Untouched(t)
BY WorkerOnly DEF Untouched

-----------------------------------------------------------------------------
(* A step of the worker that runs the body of a task.                       *)

\* The other workers that hold an entry for the task run wakeups of it.
LEMMA Companions ==
  ASSUME TypeOK, NEW w \in Workers, NEW l, pc' = [pc EXCEPT ![w] = l], Follows(w, l),
         NEW t \in Tasks, Sound(t), Embodies(w, t)
  PROVE  \A v \in Workers \ {w} :
           /\ ~Embodies(v, t) /\ ~Embodies(v, t)'
           /\ CarriedBy(v, t)' <=> CarriedBy(v, t)
           /\ Held(v, t)' <=> Held(v, t)
           /\ Held(v, t) => pc[v] \in {"dispatch", "waking"} /\ pc'[v] = pc[v] /\ ft'[v] = ft[v]
           /\ Held(v, t) /\ pc[v] = "dispatch" => ft[v].kind = "wake"
PROOF
<1> SUFFICES ASSUME NEW v \in Workers, v # w
             PROVE  /\ ~Embodies(v, t) /\ ~Embodies(v, t)'
                    /\ CarriedBy(v, t)' <=> CarriedBy(v, t)
                    /\ Held(v, t)' <=> Held(v, t)
                    /\ Held(v, t) => pc[v] \in {"dispatch", "waking"} /\ pc'[v] = pc[v] /\ ft'[v] = ft[v]
                    /\ Held(v, t) /\ pc[v] = "dispatch" => ft[v].kind = "wake"
  OBVIOUS
<1>1. pc'[v] = pc[v] /\ ft'[v] = ft[v] /\ (Held(v, t)' <=> Held(v, t))
  BY WorkerOnly
<1>2. ~Embodies(v, t) /\ (Held(v, t) => pc[v] # "switching")
  BY DEF Sound, OneBody
<1>3. ~Embodies(v, t)'
  BY <1>1, <1>2 DEF Embodies
<1>4. Held(v, t) => pc[v] \in {"dispatch", "waking"}
  BY <1>2 DEF Embodies, Held, Occupied, Busy
<1>5. CarriedBy(v, t)' <=> CarriedBy(v, t)
  BY <1>1, <1>4 DEF CarriedBy, Held
<1>6. Held(v, t) /\ pc[v] = "dispatch" => ft[v].kind = "wake"
  BY DEF Sound, Fresh
<1> QED
  BY <1>1, <1>2, <1>3, <1>4, <1>5, <1>6

\* So all there is to show of such a step is what state_, the stack and the
\* token of the task are after it.
LEMMA BodyMoves ==
  ASSUME TypeOK, NEW w \in Workers, NEW l, pc' = [pc EXCEPT ![w] = l], Follows(w, l),
         l \in {"exec", "parking", "swap", "ret", "after", "sethold", "pick"},
         NEW t \in Tasks, Sound(t), Embodies(w, t),
         on'[t] = IF l \in {"exec", "parking", "swap"} THEN {w} ELSE {},
         l \in {"exec", "parking", "sethold"} => state'[t] = "EXEC",
         l = "swap" => state'[t] \in {"READY"} \cup Done,
         l \in {"ret", "after"} => state'[t] \in {"EXEC", "READY"} \cup Done,
         ~CbQueued(t)', submitted' = submitted, OneToken(t)'
  PROVE  Sound(t)'
PROOF
<1>1. \A v \in Workers \ {w} :
        /\ ~Embodies(v, t)'
        /\ Held(v, t)' => pc'[v] \in {"dispatch", "waking"}
        /\ Held(v, t)' /\ pc'[v] = "dispatch" => ft'[v].kind = "wake"
  BY Companions
<1>2. pc'[w] = l /\ (Held(w, t)' <=> l \in Occupied) /\ (l \in Occupied <=> l # "pick")
  BY WorkerOnly DEF Embodies, Occupied, Busy
<1>3. OneBody(t)'
  <2>1. \A v \in Workers : Held(v, t)' => pc'[v] # "switching"
    BY <1>1, <1>2
  <2>2. \A u, v \in Workers : Embodies(u, t)' /\ Embodies(v, t)' => u = v
    BY <1>1
  <2>3. on'[t] = {v \in Workers : Held(v, t)' /\ pc'[v] \in {"exec", "parking", "swap"}}
    BY <1>1, <1>2
  <2> QED
    BY <2>1, <2>2, <2>3 DEF OneBody
<1>4. BodyState(t)'
  BY <1>1, <1>2 DEF BodyState
<1>5. Fresh(t)'
  <2>1. \A v \in Workers : ~(Held(v, t)' /\ pc'[v] = "dispatch" /\ ft'[v].kind # "wake")
    BY <1>1, <1>2
  <2>2. t \in submitted'
    BY DEF Sound, Fresh, Embodies
  <2> QED
    BY <2>1, <2>2 DEF Fresh
<1> QED
  BY <1>3, <1>4, <1>5 DEF Sound

\* What the token of the task is, as the worker that runs the body sees it.
LEMMA BodyToken ==
  ASSUME NEW w \in Workers, NEW t \in Tasks, Sound(t), Embodies(w, t)
  PROVE  /\ ~CbQueued(t) /\ t \in submitted
         /\ on[t] = IF pc[w] \in {"exec", "parking", "swap"} THEN {w} ELSE {}
         /\ pc[w] \in {"exec", "parking", "sethold"} => state[t] = "EXEC"
         /\ pc[w] = "swap" => state[t] \in {"READY"} \cup Done
         /\ pc[w] \in {"ret", "after"} => state[t] \in {"EXEC", "READY"} \cup Done
         /\ CarriedBy(w, t) <=> pc[w] = "exec" \/ state[t] = "READY"
PROOF
<1>1. Held(w, t) /\ pc[w] \in {"exec", "parking", "swap", "ret", "after", "sethold"}
  BY DEF Embodies
<1>2. ~CbQueued(t) /\ t \in submitted
  BY <1>1 DEF Sound, Fresh
<1>3. on[t] = IF pc[w] \in {"exec", "parking", "swap"} THEN {w} ELSE {}
  BY <1>1 DEF Sound, OneBody, Embodies
<1>4. /\ pc[w] \in {"exec", "parking", "sethold"} => state[t] = "EXEC"
      /\ pc[w] = "swap" => state[t] \in {"READY"} \cup Done
      /\ pc[w] \in {"ret", "after"} => state[t] \in {"EXEC", "READY"} \cup Done
  BY <1>1 DEF Sound, BodyState
<1>5. CarriedBy(w, t) <=> pc[w] = "exec" \/ state[t] = "READY"
  BY <1>1, <1>4 DEF CarriedBy, Held
<1> QED
  BY <1>2, <1>3, <1>4, <1>5

\* A body that keeps its token, or the lack of it.
LEMMA TokenKept ==
  ASSUME TypeOK, NEW w \in Workers, NEW l, pc' = [pc EXCEPT ![w] = l], Follows(w, l),
         NEW t \in Tasks, Sound(t), Embodies(w, t),
         queue' = queue, submitted' = submitted, armed' = armed,
         CarriedBy(w, t)' <=> CarriedBy(w, t),
         state'[t] \in Done <=> state[t] \in Done
  PROVE  OneToken(t)'
PROOF
<1>1. \A v \in Workers : CarriedBy(v, t)' <=> CarriedBy(v, t)
  BY Companions
<1>2. (Queued(t)' <=> Queued(t)) /\ (QueuedOnce(t)' <=> QueuedOnce(t))
  BY QueueUnchanged DEF SameQueue
<1> QED
  BY <1>1, <1>2 DEF OneToken, Sound


TaskInv == \A t \in Stayers : Sound(t)

\* The steps of the worker that runs task t, but for its calls of schedule():
\* where it goes, and what becomes of state_, the stack and the wakeup.
BodyGoes(w, l, t) ==
  \/ pc[w] = "exec" /\ l = "swap" /\ state'[t] \in Done /\ on' = on /\ armed' = armed
  \/ pc[w] = "exec" /\ l = "swap" /\ state'[t] = "READY" /\ on' = on /\ armed' = armed
  \/ pc[w] = "exec" /\ l = "parking" /\ state' = state /\ on' = on /\ armed' = armed \cup {t}
  \/ /\ pc[w] \in {"swap", "parking"} /\ l = "ret"
     /\ state' = state /\ on'[t] = on[t] \ {w} /\ armed' = armed
  \/ pc[w] = "ret" /\ l = "after" /\ state' = state /\ on' = on /\ armed' = armed
  \/ pc[w] = "after" /\ l = "pick" /\ state[t] \in Done /\ state' = state /\ on' = on /\ armed' = armed
  \/ /\ pc[w] = "after" /\ l = "sethold" /\ state[t] \notin Done \cup {"READY"}
     /\ state' = state /\ on' = on /\ armed' = armed
  \/ pc[w] = "sethold" /\ l = "pick" /\ state'[t] = "HOLD" /\ on' = on /\ armed' = armed

\* Each keeps the task sound: a body gives its token up when it ends, hands it
\* to the wakeup when it parks, and keeps it, or the lack of it, otherwise.
LEMMA BodyKeeps ==
  ASSUME TypeOK, NEW w \in Workers, NEW l, pc' = [pc EXCEPT ![w] = l], Follows(w, l),
         NEW t \in Tasks, Sound(t), Embodies(w, t), BodyGoes(w, l, t),
         queue' = queue, submitted' = submitted
  PROVE  Sound(t)'
PROOF
<1>1. /\ ~CbQueued(t) /\ t \in submitted
      /\ on[t] = IF pc[w] \in {"exec", "parking", "swap"} THEN {w} ELSE {}
      /\ pc[w] \in {"exec", "parking", "sethold"} => state[t] = "EXEC"
      /\ pc[w] = "swap" => state[t] \in {"READY"} \cup Done
      /\ pc[w] \in {"ret", "after"} => state[t] \in {"EXEC", "READY"} \cup Done
      /\ CarriedBy(w, t) <=> pc[w] = "exec" \/ state[t] = "READY"
  BY BodyToken
<1>2. pc'[w] = l /\ (Held(w, t)' <=> Held(w, t) /\ l \in Occupied)
  BY WorkerOnly
<1>3. l \in {"parking", "swap", "ret", "after", "sethold", "pick"}
  BY DEF BodyGoes
<1>4. CarriedBy(w, t)' <=> l \in {"swap", "ret", "after"} /\ state'[t] = "READY"
  <2>1. l \in Occupied <=> l # "pick"
    BY <1>3 DEF Occupied, Busy
  <2>2. CarriedBy(w, t)' <=> Held(w, t)' /\ (\/ l \in {"dispatch", "exec"}
                                             \/ l \in {"swap", "ret", "after"} /\ state'[t] = "READY")
    BY <1>2 DEF CarriedBy, Held
  <2>3. Held(w, t)
    BY DEF Embodies
  <2> QED
    BY <1>2, <1>3, <2>1, <2>2, <2>3
<1>5. /\ ~CbQueued(t)'
      /\ Queued(t)' <=> Queued(t)
      /\ QueuedOnce(t)' <=> QueuedOnce(t)
  BY <1>1, QueueUnchanged DEF SameQueue
<1>6. /\ on'[t] = IF l \in {"exec", "parking", "swap"} THEN {w} ELSE {}
      /\ l \in {"exec", "parking", "sethold"} => state'[t] = "EXEC"
      /\ l = "swap" => state'[t] \in {"READY"} \cup Done
      /\ l \in {"ret", "after"} => state'[t] \in {"EXEC", "READY"} \cup Done
  BY <1>1 DEF BodyGoes, Done
<1>7. OneToken(t)'
  <2>1. CASE pc[w] = "exec" /\ l = "swap" /\ state'[t] \in Done /\ armed' = armed
    <3>1. CarriedBy(w, t) /\ ~CarriedBy(w, t)'
      BY <1>1, <1>4, <2>1 DEF Done
    <3>2. ~Queued(t) /\ t \notin armed /\ QueuedOnce(t)
      BY <3>1 DEF Sound, OneToken
    <3>3. \A v \in Workers : ~CarriedBy(v, t)'
      BY <3>1, Companions DEF Sound, OneToken
    <3> QED
      BY <1>5, <2>1, <3>2, <3>3 DEF OneToken
  <2>2. CASE pc[w] = "exec" /\ l = "parking" /\ state' = state /\ armed' = armed \cup {t}
    <3>1. CarriedBy(w, t) /\ ~CarriedBy(w, t)'
      BY <1>1, <1>4, <2>2
    <3>2. ~Queued(t) /\ QueuedOnce(t) /\ state[t] \notin Done
      BY <3>1 DEF Sound, OneToken
    <3>3. \A v \in Workers : ~CarriedBy(v, t)'
      BY <3>1, Companions DEF Sound, OneToken
    <3> QED
      BY <1>1, <1>5, <2>2, <3>2, <3>3 DEF OneToken
  <2>3. CASE /\ ~(pc[w] = "exec" /\ l = "swap" /\ state'[t] \in Done)
             /\ ~(pc[w] = "exec" /\ l = "parking")
    <3>1. /\ armed' = armed
          /\ CarriedBy(w, t)' <=> CarriedBy(w, t)
          /\ state'[t] \in Done <=> state[t] \in Done
      BY <1>1, <1>4, <2>3 DEF BodyGoes, Done
    <3> QED
      BY <3>1, TokenKept
  <2> QED
    BY <2>1, <2>2, <2>3 DEF BodyGoes
<1> QED
  BY <1>3, <1>5, <1>6, <1>7, BodyMoves

\* The task's body runs: what it and the thread under it do, but for
\* schedule().
LEMMA BodySteps ==
  ASSUME IInv, TaskInv, NEW w \in Workers, NEW t, t = Holding(w),
         Finish(w) \/ YieldToReady(w) \/ Park(w) \/ SwapOut(w) \/ Return(w) \/ Retire(w)
           \/ SeeUnfinished(w) \/ SetHold(w)
  PROVE  /\ t \in Tasks /\ fault' = fault
         /\ \A u \in Tasks \ {t} : Untouched(u)
         /\ t \in Stayers => Sound(t)'
PROOF
<1>1. TypeOK /\ state \in [Tasks -> States] /\ on \in [Tasks -> SUBSET Workers]
  BY DEF IInv, TypeOK
<1>2. /\ pc[w] \in {"exec", "parking", "swap", "ret", "after", "sethold"}
      /\ queue' = queue /\ submitted' = submitted /\ fault' = fault
  BY DEF Finish, YieldToReady, Park, SwapOut, Return, Retire, SeeUnfinished, SetHold, At,
         taskVars
<1>3. t \in Tasks /\ Held(w, t) /\ Embodies(w, t)
  BY <1>1, <1>2, HoldsTask DEF Held, Embodies, Occupied, Busy
<1>4. PICK l : pc' = [pc EXCEPT ![w] = l] /\ Follows(w, l) /\ BodyGoes(w, l, t)
  <2>1. CASE Finish(w)
    BY <1>1, <1>3, <2>1 DEF Finish, At, Goto, Follows, Occupied, Busy, BodyGoes
  <2>2. CASE YieldToReady(w)
    BY <1>1, <1>3, <2>2 DEF YieldToReady, At, Goto, Follows, Occupied, Busy, BodyGoes
  <2>3. CASE Park(w)
    BY <1>1, <1>3, <2>3 DEF Park, At, Goto, Follows, Occupied, Busy, BodyGoes
  <2>4. CASE SwapOut(w)
    BY <1>1, <1>3, <2>4 DEF SwapOut, At, Goto, Follows, Occupied, Busy, BodyGoes
  <2>5. CASE Return(w)
    BY <1>1, <1>3, <2>5 DEF Return, At, Goto, Follows, Occupied, Busy, BodyGoes, taskVars
  <2>6. CASE Retire(w)
    BY <1>1, <1>3, <2>6 DEF Retire, At, Goto, Release, Follows, Occupied, Busy, BodyGoes, taskVars
  <2>7. CASE SeeUnfinished(w)
    BY <1>1, <1>3, <2>7 DEF SeeUnfinished, At, Goto, Follows, Occupied, Busy, BodyGoes, taskVars
  <2>8. CASE SetHold(w)
    BY <1>1, <1>3, <2>8 DEF SetHold, At, Goto, Release, Follows, Occupied, Busy, BodyGoes
  <2> QED
    BY <2>1, <2>2, <2>3, <2>4, <2>5, <2>6, <2>7, <2>8
<1>5. ASSUME NEW u \in Tasks, u # t
      PROVE  Untouched(u)
  <2>1. SameQueue(u)
    BY <1>2, QueueUnchanged
  <2>2. SameData(u)
    <3>1. /\ (state' = state \/ \E s : state' = [state EXCEPT ![t] = s])
          /\ (on' = on \/ on' = [on EXCEPT ![t] = on[t] \ {w}])
          /\ (armed' = armed \/ armed' = armed \cup {t})
      BY DEF Finish, YieldToReady, Park, SwapOut, Return, Retire, SeeUnfinished, SetHold,
             taskVars
    <3> QED
      BY <1>1, <1>2, <1>5, <3>1 DEF SameData
  <2>3. ~Held(w, u)
    BY <1>5 DEF Held
  <2> QED
    BY <1>1, <1>4, <2>1, <2>2, <2>3, OthersUntouched
<1>6. ASSUME t \in Stayers
      PROVE  Sound(t)'
  <2>1. Sound(t)
    BY <1>6 DEF TaskInv
  <2> QED
    BY <1>1, <1>2, <1>3, <1>4, <2>1, BodyKeeps
<1> QED
  BY <1>2, <1>3, <1>5, <1>6


-----------------------------------------------------------------------------
(* The other steps of run().                                                *)

\* A worker that executes no entry before or after its step is no task's
\* business.
LEMMA FreeSteps ==
  ASSUME IInv, NEW w \in Workers, NEW t \in Tasks,
         PickNothing(w) \/ EnterIdle(w) \/ Exit(w) \/ LeaveIdle(w) \/ Idle(w)
  PROVE  Untouched(t) /\ fault' = fault
PROOF
<1>1. /\ pc[w] \in {"pick", "nothing", "idleRet", "idle"}
      /\ queue' = queue /\ ft' = ft /\ fault' = fault
      /\ state' = state /\ on' = on /\ submitted' = submitted /\ armed' = armed
  BY DEF PickNothing, EnterIdle, Exit, LeaveIdle, Idle, At, taskVars
<1>2. PICK l \in {"nothing", "idle", "exited", "pick", "idleRet"} : pc' = [pc EXCEPT ![w] = l]
  BY DEF PickNothing, EnterIdle, Exit, LeaveIdle, Idle, Goto
<1>3. Follows(w, l) /\ ~Held(w, t)
  BY <1>1, <1>2 DEF Follows, Held, Occupied, Busy
<1>4. SameQueue(t) /\ SameData(t)
  BY <1>1, QueueUnchanged DEF SameData
<1>5. TypeOK
  BY DEF IInv
<1> QED
  BY <1>1, <1>2, <1>3, <1>4, <1>5, OthersUntouched

\* The pick: the entry's token goes from the queue to the worker.  The test of
\* state_ is what keeps the fiber from a second thread while the first is still
\* between resume() and SetHold.
LEMMA PickSteps ==
  ASSUME IInv, TaskInv, NEW w \in Workers, NEW t, PickTask(w), t = Holding(w)'
  PROVE  /\ t \in Tasks /\ fault' = fault /\ Queued(t)
         /\ UNCHANGED <<state, on, submitted, armed>>
         /\ \A u \in Tasks \ {t} : Untouched(u)
         /\ t \in Stayers => Sound(t)'
PROOF
<1>1. PICK i \in DOMAIN queue :
        /\ Eligible(w, queue[i])
        /\ ft' = [ft EXCEPT ![w] = queue[i]]
        /\ queue' = RemoveAt(queue, i)
  BY DEF PickTask
<1>2. /\ pc[w] = "pick" /\ pc' = [pc EXCEPT ![w] = "dispatch"] /\ fault' = fault
      /\ UNCHANGED <<state, on, submitted, armed>>
  BY DEF PickTask, At, Goto, taskVars
<1>3. /\ TypeOK /\ queue[i] \in Entry /\ Entry # {}
      /\ pc \in [Workers -> PCs] /\ ft \in [Workers -> Entry \cup {NoEntry}]
  <2>1. TypeOK /\ queue \in Seq(Entry)
    BY DEF IInv, TypeOK
  <2> QED
    BY <1>1, <2>1, ElementOfSeq DEF TypeOK
<1>4. ft'[w] = queue[i] /\ t = queue[i].task /\ t \in Tasks
  BY <1>1, <1>3 DEF Holding, Entry
<1>5. /\ \A v \in Workers \ {w} : pc'[v] = pc[v] /\ ft'[v] = ft[v]
      /\ pc'[w] = "dispatch" /\ pc[w] \notin Occupied /\ pc'[w] \in Occupied
  BY <1>1, <1>2, <1>3 DEF Occupied, Busy
<1>6. /\ \A u \in Tasks, v \in Workers \ {w} : Held(v, u)' <=> Held(v, u)
      /\ \A u \in Tasks : ~Held(w, u) /\ (Held(w, u)' <=> u = t)
  <2> HIDE DEF Occupied
  <2> QED
    BY <1>4, <1>5 DEF Held, Holding
<1>7. Queued(t)
  BY <1>1, <1>4 DEF Queued
<1>8. ASSUME NEW u \in Tasks, u # t
      PROVE  Untouched(u)
  <2>1. SameQueue(u)
    BY <1>1, <1>3, <1>4, <1>8, Removed DEF SameQueue
  <2>2. SameHolders(u)
    BY <1>5, <1>6, <1>8 DEF SameHolders
  <2>3. SameData(u)
    BY <1>2 DEF SameData
  <2> QED
    BY <2>1, <2>2, <2>3 DEF Untouched
<1>9. ASSUME t \in Stayers
      PROVE  Sound(t)'
  <2>1. Sound(t)
    BY <1>9 DEF TaskInv
  <2>2. /\ t \in submitted /\ state[t] \notin Done /\ t \notin armed
        /\ \A v \in Workers : ~CarriedBy(v, t)
        /\ QueuedOnce(t)
    BY <1>7, <2>1 DEF Sound, OneToken
  <2>3. ~Queued(t)' /\ QueuedOnce(t)' /\ ~CbQueued(t)'
    <3>1. ~Queued(t)' /\ QueuedOnce(t)'
      BY <1>1, <1>3, <1>4, <2>2, Removed
    <3> QED
      BY <3>1 DEF Queued, CbQueued
  <2>4. \A v \in Workers \ {w} : (Embodies(v, t)' <=> Embodies(v, t)) /\ ~CarriedBy(v, t)'
    BY <1>2, <1>4, <1>5, <1>6, <2>2 DEF Embodies, CarriedBy, Held
  <2>5. ~Embodies(w, t)' /\ ~Embodies(w, t) /\ CarriedBy(w, t)'
    BY <1>4, <1>5, <1>6 DEF Embodies, CarriedBy, Holding
  <2>6. OneBody(t)'
    BY <1>2, <1>4, <1>5, <1>6, <2>1, <2>4, <2>5 DEF Sound, OneBody
  <2>7. BodyState(t)'
    BY <1>2, <1>4, <1>5, <1>6, <2>1 DEF Sound, BodyState
  <2>8. Fresh(t)'
    <3>1. ASSUME queue[i].kind # "wake"
          PROVE  state[t] # "EXEC" /\ \A v \in Workers : ~Embodies(v, t)
      <4>1. queue[i].kind \in {"fiber", "cb"}
        BY <1>3, <3>1 DEF Entry
      <4>2. CASE queue[i].kind = "cb"
        <5>1. CbQueued(t)
          BY <1>1, <1>4, <4>2 DEF CbQueued
        <5> QED
          BY <2>1, <5>1 DEF Sound, Fresh
      <4>3. CASE queue[i].kind = "fiber"
        <5>1. state[t] # "EXEC"
          BY <1>1, <1>4, <4>3 DEF Eligible
        <5>2. ASSUME NEW v \in Workers, Embodies(v, t)
              PROVE  FALSE
          <6>1. ~CarriedBy(v, t) /\ (CarriedBy(v, t) <=> pc[v] = "exec" \/ state[t] = "READY")
            BY <1>4, <2>1, <2>2, <5>2, BodyToken
          <6>2. /\ pc[v] \in {"exec", "parking", "sethold"} => state[t] = "EXEC"
                /\ pc[v] = "swap" => state[t] \in {"READY"} \cup Done
                /\ pc[v] \in {"ret", "after"} => state[t] \in {"EXEC", "READY"} \cup Done
                /\ pc[v] \in {"exec", "parking", "swap", "ret", "after", "sethold"}
            BY <1>4, <2>1, <5>2, BodyToken DEF Embodies
          <6> QED
            BY <2>2, <5>1, <6>1, <6>2
        <5> QED
          BY <5>1, <5>2
      <4> QED
        BY <4>1, <4>2, <4>3
    <3>2. \A v \in Workers \ {w} : Held(v, t)' => pc'[v] # "dispatch"
      <4>1. \A v \in Workers \ {w} : Held(v, t)' /\ pc'[v] = "dispatch" => CarriedBy(v, t)'
        BY DEF CarriedBy, Held
      <4> QED
        BY <2>4, <4>1
    <3>3. t \in submitted'
      BY <1>2, <2>2
    <3> QED
      BY <1>2, <1>4, <2>3, <2>4, <2>5, <3>1, <3>2, <3>3 DEF Fresh
  <2>9. OneToken(t)'
    BY <1>2, <2>2, <2>3, <2>4, <2>5 DEF OneToken
  <2> QED
    BY <2>6, <2>7, <2>8, <2>9 DEF Sound
<1> QED
  BY <1>2, <1>4, <1>7, <1>8, <1>9


\* resume(): the task is found not EXEC and off every stack, so neither of the
\* assertions can fail.
LEMMA DispatchSteps ==
  ASSUME IInv, TaskInv, NEW w \in Workers, NEW t, t = Holding(w), Dispatch(w)
  PROVE  /\ t \in Tasks
         /\ \A u \in Tasks \ {t} : Untouched(u)
         /\ t \in Stayers => Sound(t)' /\ fault' = <<>>
         /\ t \notin Stayers => fault' = <<>> \/ fault'[1] = t
PROOF
<1>1. /\ pc[w] = "dispatch" /\ pc' = [pc EXCEPT ![w] = "exec"] /\ ft' = ft /\ queue' = queue
      /\ ft[w].kind \in {"cb", "fiber"}
      /\ ft[w].kind = "fiber" => state[t] \notin Done
      /\ state' = [state EXCEPT ![t] = "EXEC"]
      /\ on' = [on EXCEPT ![t] = on[t] \cup {w}]
      /\ submitted' = submitted /\ armed' = armed
  BY DEF Dispatch, Resume, At, Goto
<1>2. fault' = CASE state[t] = "EXEC" -> <<t, "resume of an executing fiber">>
                 [] state[t] # "EXEC" /\ on[t] # {} -> <<t, "resume of an unsaved context">>
                 [] OTHER -> <<>>
  BY DEF Dispatch, Resume
<1>3. TypeOK /\ state \in [Tasks -> States] /\ on \in [Tasks -> SUBSET Workers]
  BY DEF IInv, TypeOK
<1>4. t \in Tasks /\ Held(w, t) /\ CarriedBy(w, t)
  BY <1>1, <1>3, HoldsTask DEF Held, Occupied, Busy, CarriedBy
<1>5. Follows(w, "exec")
  BY <1>1 DEF Follows, Occupied, Busy
<1>6. ASSUME NEW u \in Tasks, u # t
      PROVE  Untouched(u)
  <2>1. SameQueue(u)
    BY <1>1, QueueUnchanged
  <2>2. SameData(u)
    BY <1>1, <1>3, <1>6 DEF SameData
  <2>3. ~Held(w, u)
    BY <1>6 DEF Held
  <2> QED
    BY <1>1, <1>3, <1>5, <2>1, <2>2, <2>3, OthersUntouched
<1>7. ASSUME t \in Stayers
      PROVE  Sound(t)' /\ fault' = <<>>
  <2>1. Sound(t)
    BY <1>7 DEF TaskInv
  <2>2. state[t] # "EXEC" /\ \A v \in Workers : ~Embodies(v, t)
    BY <1>1, <1>4, <2>1 DEF Sound, Fresh
  <2>3. on[t] = {}
    BY <2>1, <2>2 DEF Sound, OneBody, Embodies
  <2>4. fault' = <<>>
    BY <1>2, <2>2, <2>3
  <2>5. /\ t \in submitted /\ state[t] \notin Done /\ t \notin armed /\ ~Queued(t)
        /\ \A v \in Workers \ {w} : ~CarriedBy(v, t)
    BY <1>4, <2>1 DEF Sound, OneToken
  <2>6. state'[t] = "EXEC" /\ on'[t] = {w}
    BY <1>1, <1>3, <1>4, <2>3
  <2>7. /\ \A v \in Workers \ {w} : pc'[v] = pc[v] /\ ft'[v] = ft[v] /\ (Held(v, t)' <=> Held(v, t))
        /\ pc'[w] = "exec" /\ Held(w, t)'
    BY <1>1, <1>3, <1>4, <1>5, WorkerOnly DEF Occupied, Busy
  <2>8. /\ \A v \in Workers \ {w} : Held(v, t) => pc[v] = "waking"
        /\ \A v \in Workers \ {w} : ~Embodies(v, t)' /\ ~CarriedBy(v, t)'
        /\ Embodies(w, t)' /\ CarriedBy(w, t)'
    <3>1. ASSUME NEW v \in Workers \ {w}, Held(v, t)
          PROVE  pc[v] = "waking"
      <4>1. pc[v] # "switching" /\ pc[v] \in Occupied
        BY <2>1, <3>1 DEF Sound, OneBody, Held
      <4>2. pc[v] # "dispatch"
        BY <2>5, <3>1 DEF CarriedBy, Held
      <4> QED
        BY <2>2, <3>1, <4>1, <4>2 DEF Embodies, Occupied, Busy
    <3>2. \A v \in Workers \ {w} : ~Embodies(v, t)' /\ ~CarriedBy(v, t)'
      <4>1. \A v \in Workers : CarriedBy(v, t)' => Held(v, t)' /\ pc'[v] # "waking"
        BY DEF CarriedBy, Held
      <4>2. \A v \in Workers : Embodies(v, t)' => Held(v, t)' /\ pc'[v] # "waking"
        BY DEF Embodies
      <4> QED
        BY <2>7, <3>1, <4>1, <4>2
    <3>3. Embodies(w, t)' /\ CarriedBy(w, t)'
      BY <2>7 DEF Embodies, CarriedBy, Held
    <3> QED
      BY <3>1, <3>2, <3>3
  <2>9. ~Queued(t)' /\ ~CbQueued(t)' /\ QueuedOnce(t)'
    BY <1>1, <2>5 DEF Queued, CbQueued, QueuedOnce
  <2>10. OneBody(t)'
    <3>1. \A v \in Workers : Held(v, t)' => pc'[v] # "switching"
      BY <2>7, <2>8
    <3>2. on'[t] = {v \in Workers : Held(v, t)' /\ pc'[v] \in {"exec", "parking", "swap"}}
      BY <2>6, <2>7, <2>8
    <3> QED
      BY <2>8, <3>1, <3>2 DEF OneBody
  <2>11. BodyState(t)' /\ Fresh(t)'
    BY <1>1, <2>5, <2>6, <2>7, <2>8, <2>9 DEF BodyState, Fresh
  <2>12. OneToken(t)'
    BY <1>1, <1>4, <2>5, <2>6, <2>8, <2>9 DEF OneToken, Done
  <2> QED
    BY <2>4, <2>10, <2>11, <2>12 DEF Sound
<1>8. t \notin Stayers => fault' = <<>> \/ fault'[1] = t
  BY <1>2
<1> QED
  BY <1>4, <1>6, <1>7, <1>8

\* A finished fiber that was scheduled again belongs to a task that moves.
LEMMA DropSteps ==
  ASSUME IInv, TaskInv, NEW w \in Workers, DropFinished(w)
  PROVE  (\A t \in Stayers : Untouched(t)) /\ fault' = fault
PROOF
<1>1. /\ pc[w] = "dispatch" /\ pc' = [pc EXCEPT ![w] = "pick"] /\ Follows(w, "pick")
      /\ state[Holding(w)] \in Done
      /\ queue' = queue /\ state' = state /\ on' = on /\ submitted' = submitted
      /\ armed' = armed /\ fault' = fault
  BY DEF DropFinished, At, Release, Goto, taskVars, Follows, Occupied, Busy
<1>2. ASSUME NEW t \in Stayers
      PROVE  Untouched(t)
  <2>1. ~Held(w, t)
    <3>1. Held(w, t) => CarriedBy(w, t) /\ state[t] \in Done
      BY <1>1 DEF Held, CarriedBy
    <3> QED
      BY <3>1 DEF TaskInv, Sound, OneToken
  <2>2. SameQueue(t) /\ SameData(t)
    BY <1>1, QueueUnchanged DEF SameData
  <2>3. TypeOK /\ t \in Tasks
    BY DEF IInv, Stayers
  <2> QED
    BY <1>1, <2>1, <2>2, <2>3, OthersUntouched
<1> QED
  BY <1>1, <1>2

\* switchTo() is not what a stayer does.
LEMMA MoverSteps ==
  ASSUME IInv, TaskInv, NEW w \in Workers, SwitchTo(w) \/ YieldToHold(w)
  PROVE  /\ \A t \in Stayers : Untouched(t)
         /\ fault' = fault \/ fault'[1] \notin Stayers
PROOF
<1>1. CASE SwitchTo(w)
  <2>1. PICK thread \in Pins : Schedule(w, Holding(w), "fiber", thread)
    BY <1>1 DEF SwitchTo
  <2>2. /\ pc[w] = "exec" /\ pc' = [pc EXCEPT ![w] = "switching"] /\ ft' = ft
        /\ Holding(w) \in Movers
        /\ state' = state /\ on' = on /\ submitted' = submitted
        /\ armed' = armed /\ fault' = fault
    BY <1>1 DEF SwitchTo, At, Goto
  <2>3. ASSUME NEW t \in Stayers
        PROVE  Untouched(t)
    <3>1. TypeOK /\ t \in Tasks /\ t # Holding(w)
      BY <2>2 DEF IInv, Stayers
    <3>2. ~Held(w, t) /\ Follows(w, "switching")
      BY <2>2, <3>1 DEF Held, Follows, Occupied, Busy
    <3>3. SameQueue(t)
      BY <2>1, <3>1, Appended DEF SameQueue
    <3>4. SameData(t)
      BY <2>2 DEF SameData
    <3> QED
      BY <2>2, <3>1, <3>2, <3>3, <3>4, OthersUntouched
  <2> QED
    BY <2>2, <2>3
<1>2. CASE YieldToHold(w)
  <2>1. /\ pc[w] = "switching" /\ pc' = [pc EXCEPT ![w] = "swap"] /\ ft' = ft
        /\ queue' = queue /\ on' = on /\ submitted' = submitted /\ armed' = armed
        /\ state' = state \/ state' = [state EXCEPT ![Holding(w)] = "HOLD"]
        /\ fault' = fault \/ fault'[1] = Holding(w)
    <3>1. fault' = fault \/ fault' = <<Holding(w), "YieldToHold of a fiber not EXEC">>
      BY <1>2 DEF YieldToHold
    <3>2. fault' = fault \/ fault'[1] = Holding(w)
      <4>1. ASSUME NEW a, NEW b, fault' = <<a, b>>
            PROVE  fault'[1] = a
        BY <4>1
      <4> QED
        BY <3>1, <4>1
    <3> QED
      BY <1>2, <3>2 DEF YieldToHold, At, Goto
  <2>2. Holding(w) \notin Stayers
    <3>1. Held(w, Holding(w))
      BY <2>1 DEF Held, Occupied, Busy
    <3> QED
      BY <2>1, <3>1 DEF TaskInv, Sound, OneBody
  <2>3. ASSUME NEW t \in Stayers
        PROVE  Untouched(t)
    <3>1. TypeOK /\ t \in Tasks /\ t # Holding(w) /\ state \in [Tasks -> States]
      BY <2>2 DEF IInv, Stayers, TypeOK
    <3>2. ~Held(w, t) /\ Follows(w, "swap")
      BY <2>1, <3>1 DEF Held, Follows, Occupied, Busy
    <3>3. SameQueue(t)
      BY <2>1, QueueUnchanged
    <3>4. SameData(t)
      BY <2>1, <3>1 DEF SameData
    <3> QED
      BY <2>1, <3>1, <3>2, <3>3, <3>4, OthersUntouched
  <2> QED
    BY <2>1, <2>2, <2>3
<1> QED
  BY <1>1, <1>2


-----------------------------------------------------------------------------
(* The steps that schedule() a task.                                        *)

\* A schedule() is the business of the task it is called with only.
LEMMA ScheduleOnly ==
  ASSUME TypeOK, NEW thr, NEW t, NEW kind, NEW thread, Schedule(thr, t, kind, thread),
         NEW u, u # t
  PROVE  SameQueue(u)
BY Appended DEF SameQueue

\* A worker gives up its entry, and puts the fiber back or goes on as a wakeup
\* that has done its work: the entry in the queue is the task's token now.
LEMMA RequeueSteps ==
  ASSUME IInv, TaskInv, NEW w \in Workers, NEW t, t = Holding(w),
         RunWakeup(w) \/ Reschedule(w)
  PROVE  /\ t \in Tasks /\ fault' = fault
         /\ UNCHANGED <<state, on, submitted, armed>>
         /\ \A u \in Tasks \ {t} : Untouched(u)
         /\ t \in Stayers => Sound(t)'
PROOF
<1>1. /\ \/ pc[w] = "dispatch" /\ ft[w].kind = "wake" /\ pc' = [pc EXCEPT ![w] = "waking"] /\ ft' = ft
         \/ /\ pc[w] = "after" /\ state[t] = "READY"
            /\ pc' = [pc EXCEPT ![w] = "pick"] /\ ft' = [ft EXCEPT ![w] = NoEntry]
      /\ Schedule(w, t, "fiber", AnyThread)
      /\ UNCHANGED <<state, on, submitted, armed>> /\ fault' = fault
  BY DEF RunWakeup, Reschedule, At, Goto, Release, taskVars
<1>2. TypeOK
  BY DEF IInv
<1>3. t \in Tasks /\ Held(w, t)
  BY <1>1, <1>2, HoldsTask DEF Held, Occupied, Busy
<1>4. PICK l \in {"waking", "pick"} :
        /\ pc' = [pc EXCEPT ![w] = l] /\ Follows(w, l)
        /\ \/ pc[w] = "dispatch" /\ l = "waking"
           \/ pc[w] = "after" /\ l = "pick" /\ state[t] = "READY"
  BY <1>1 DEF Follows, Occupied, Busy
<1>5. ASSUME NEW u \in Tasks, u # t
      PROVE  Untouched(u)
  <2>1. SameQueue(u)
    BY <1>1, <1>2, <1>5, ScheduleOnly
  <2>2. SameData(u) /\ ~Held(w, u)
    BY <1>1, <1>5 DEF SameData, Held
  <2> QED
    BY <1>2, <1>4, <2>1, <2>2, OthersUntouched
<1>6. ASSUME t \in Stayers
      PROVE  Sound(t)'
  <2>1. Sound(t)
    BY <1>6 DEF TaskInv
  <2>2. CarriedBy(w, t)
    BY <1>3, <1>4 DEF CarriedBy, Held
  <2>3. /\ t \in submitted /\ state[t] \notin Done /\ t \notin armed /\ ~Queued(t)
        /\ \A v \in Workers \ {w} : ~CarriedBy(v, t)
    BY <2>1, <2>2 DEF Sound, OneToken
  <2>4. Queued(t)' /\ QueuedOnce(t)' /\ ~CbQueued(t)'
    <3>1. /\ Queued(t)' <=> Queued(t) \/ t = t
          /\ ~Queued(t) => QueuedOnce(t)'
          /\ CbQueued(t)' <=> CbQueued(t) \/ (t = t /\ "fiber" = "cb")
      BY <1>1, <1>2, Appended
    <3>2. ~CbQueued(t)
      BY <2>3 DEF CbQueued, Queued
    <3> QED
      BY <2>3, <3>1, <3>2
  <2>5. /\ \A v \in Workers \ {w} : pc'[v] = pc[v] /\ ft'[v] = ft[v] /\ (Held(v, t)' <=> Held(v, t))
        /\ pc'[w] = l /\ (Held(w, t)' <=> l = "waking")
    <3>1. l \in Occupied <=> l = "waking"
      BY DEF Occupied, Busy
    <3> QED
      BY <1>2, <1>3, <1>4, <3>1, WorkerOnly
  <2>6. ~Embodies(w, t)' /\ ~CarriedBy(w, t)'
    BY <2>5 DEF Embodies, CarriedBy, Held
  <2>7. \A v \in Workers \ {w} : (Embodies(v, t)' <=> Embodies(v, t)) /\ ~CarriedBy(v, t)'
    <3>1. \A v \in Workers \ {w} : (CarriedBy(v, t)' <=> CarriedBy(v, t))
      BY <1>1, <2>5 DEF CarriedBy, Held
    <3> QED
      BY <2>3, <2>5, <3>1 DEF Embodies
  <2>8. OneBody(t)'
    <3>1. /\ \A v \in Workers : Held(v, t)' => pc'[v] # "switching"
          /\ \A u, v \in Workers : Embodies(u, t)' /\ Embodies(v, t)' => u = v
      BY <1>4, <2>1, <2>5, <2>6, <2>7 DEF Sound, OneBody
    <3>2. on'[t] = {v \in Workers : Held(v, t)' /\ pc'[v] \in {"exec", "parking", "swap"}}
      <4>1. on[t] = {v \in Workers : Held(v, t) /\ pc[v] \in {"exec", "parking", "swap"}}
        BY <2>1 DEF Sound, OneBody
      <4>2. pc[w] \notin {"exec", "parking", "swap"} /\ pc'[w] \notin {"exec", "parking", "swap"}
        BY <1>4, <2>5
      <4> QED
        BY <1>1, <2>5, <4>1, <4>2
    <3> QED
      BY <3>1, <3>2 DEF OneBody
  <2>9. BodyState(t)'
    BY <1>1, <1>4, <2>1, <2>5 DEF Sound, BodyState
  <2>10. Fresh(t)'
    <3>1. \A v \in Workers : Held(v, t)' => pc'[v] # "dispatch"
      <4>1. \A v \in Workers : Held(v, t)' /\ pc'[v] = "dispatch" => CarriedBy(v, t)'
        BY DEF CarriedBy, Held
      <4> QED
        BY <2>6, <2>7, <4>1
    <3> QED
      BY <1>1, <2>3, <2>4, <3>1 DEF Fresh
  <2>11. OneToken(t)'
    BY <1>1, <2>3, <2>4, <2>6, <2>7 DEF OneToken
  <2> QED
    BY <2>8, <2>9, <2>10, <2>11 DEF Sound
<1> QED
  BY <1>1, <1>3, <1>5, <1>6

\* The callback that woke the fiber ends.
LEMMA WakeupSteps ==
  ASSUME IInv, TaskInv, NEW w \in Workers, NEW t, t = Holding(w), EndWakeup(w)
  PROVE  /\ t \in Tasks /\ fault' = fault
         /\ UNCHANGED <<state, on, submitted, armed>>
         /\ \A u \in Tasks \ {t} : Untouched(u)
         /\ t \in Stayers => Sound(t)'
PROOF
<1>1. /\ pc[w] = "waking" /\ pc' = [pc EXCEPT ![w] = "pick"] /\ Follows(w, "pick")
      /\ queue' = queue /\ UNCHANGED <<state, on, submitted, armed>> /\ fault' = fault
  BY DEF EndWakeup, At, Goto, Release, taskVars, Follows, Occupied, Busy
<1>2. TypeOK
  BY DEF IInv
<1>3. t \in Tasks /\ Held(w, t)
  BY <1>1, <1>2, HoldsTask DEF Held, Occupied, Busy
<1>4. ASSUME NEW u \in Tasks, u # t
      PROVE  Untouched(u)
  <2>1. SameQueue(u) /\ SameData(u) /\ ~Held(w, u)
    BY <1>1, <1>4, QueueUnchanged DEF SameData, Held
  <2> QED
    BY <1>1, <1>2, <2>1, OthersUntouched
<1>5. ASSUME t \in Stayers
      PROVE  Sound(t)'
  <2>1. Sound(t)
    BY <1>5 DEF TaskInv
  <2>2. /\ \A v \in Workers \ {w} : pc'[v] = pc[v] /\ ft'[v] = ft[v] /\ (Held(v, t)' <=> Held(v, t))
        /\ pc'[w] = "pick" /\ ~Held(w, t)'
    <3>1. "pick" \notin Occupied
      BY DEF Occupied, Busy
    <3> QED
      BY <1>1, <1>2, <1>3, <3>1, WorkerOnly
  <2>3. \A v \in Workers : (Embodies(v, t)' <=> Embodies(v, t)) /\ (CarriedBy(v, t)' <=> CarriedBy(v, t))
    <3>1. /\ ~Embodies(w, t) /\ ~Embodies(w, t)' /\ ~CarriedBy(w, t) /\ ~CarriedBy(w, t)'
      BY <1>1, <2>2 DEF Embodies, CarriedBy, Held
    <3>2. \A v \in Workers \ {w} : (Embodies(v, t)' <=> Embodies(v, t)) /\ (CarriedBy(v, t)' <=> CarriedBy(v, t))
      BY <1>1, <2>2 DEF Embodies, CarriedBy, Held
    <3> QED
      BY <3>1, <3>2
  <2>4. SameQueue(t)
    BY <1>1, QueueUnchanged
  <2>5. OneBody(t)'
    <3>1. /\ \A v \in Workers : Held(v, t)' => pc'[v] # "switching"
          /\ \A u, v \in Workers : Embodies(u, t)' /\ Embodies(v, t)' => u = v
      BY <2>1, <2>2, <2>3 DEF Sound, OneBody
    <3>2. on'[t] = {v \in Workers : Held(v, t)' /\ pc'[v] \in {"exec", "parking", "swap"}}
      <4>1. on[t] = {v \in Workers : Held(v, t) /\ pc[v] \in {"exec", "parking", "swap"}}
        BY <2>1 DEF Sound, OneBody
      <4> QED
        BY <1>1, <2>2, <4>1
    <3> QED
      BY <3>1, <3>2 DEF OneBody
  <2>6. BodyState(t)'
    BY <1>1, <2>1, <2>2 DEF Sound, BodyState
  <2>7. Fresh(t)'
    BY <1>1, <2>1, <2>2, <2>3, <2>4 DEF Sound, Fresh, SameQueue
  <2>8. OneToken(t)'
    BY <1>1, <2>1, <2>3, <2>4 DEF Sound, OneToken, SameQueue
  <2> QED
    BY <2>5, <2>6, <2>7, <2>8 DEF Sound
<1> QED
  BY <1>1, <1>3, <1>4, <1>5


\* A task that is submitted: it was nowhere before.
LEMMA NewSteps ==
  ASSUME IInv, TaskInv, NEW thr, NEW t \in Tasks \ submitted, NEW thread,
         Schedule(thr, t, FirstKind(t), thread), submitted' = submitted \cup {t},
         UNCHANGED <<state, on, armed, pc, ft>>
  PROVE  /\ \A u \in Tasks \ {t} : Untouched(u)
         /\ t \in Stayers => Sound(t)'
PROOF
<1>1. TypeOK /\ SameHolders(t) /\ \A u : SameHolders(u)
  BY HoldersUnchanged DEF IInv
<1>2. ASSUME NEW u \in Tasks, u # t
      PROVE  Untouched(u)
  <2>1. SameQueue(u) /\ SameData(u)
    BY <1>1, <1>2, ScheduleOnly DEF SameData
  <2> QED
    BY <1>1, <2>1 DEF Untouched
<1>3. ASSUME t \in Stayers
      PROVE  Sound(t)'
  <2>1. Sound(t)
    BY <1>3 DEF TaskInv
  <2>2. state[t] = "INIT" /\ (\A v \in Workers : ~Held(v, t)) /\ ~Queued(t) /\ t \notin armed
    BY <2>1 DEF Sound, Fresh, OneToken
  <2>3. \A v \in Workers : ~Held(v, t)' /\ ~Embodies(v, t)' /\ ~CarriedBy(v, t)'
    <3>1. \A v \in Workers : ~Held(v, t)'
      BY <1>1, <2>2 DEF SameHolders
    <3> QED
      BY <3>1 DEF Embodies, CarriedBy, Held
  <2>4. Queued(t)' /\ QueuedOnce(t)'
    BY <1>1, <2>2, Appended
  <2>5. state'[t] = "INIT" /\ on'[t] = {} /\ t \in submitted' /\ t \notin armed' /\ "INIT" \notin Done
    BY <2>1, <2>2 DEF Sound, OneBody, Done
  <2>6. OneBody(t)' /\ BodyState(t)' /\ Fresh(t)'
    BY <2>3, <2>5 DEF OneBody, BodyState, Fresh
  <2>7. OneToken(t)'
    BY <2>3, <2>4, <2>5 DEF OneToken
  <2> QED
    BY <2>6, <2>7 DEF Sound
<1> QED
  BY <1>2, <1>3

\* Whoever moves the token of a task from its registration to the queue.
LEMMA TokenQueued ==
  ASSUME NEW t, Sound(t), t \in armed, SameHolders(t),
         state'[t] = state[t], on'[t] = on[t], submitted' = submitted, t \notin armed',
         Queued(t)', QueuedOnce(t)', CbQueued(t)' => CbQueued(t)
  PROVE  Sound(t)'
PROOF
<1>1. /\ t \in submitted /\ state[t] \notin Done /\ ~Queued(t)
      /\ \A v \in Workers : ~CarriedBy(v, t)
  BY DEF Sound, OneToken
<1>2. ~CbQueued(t)'
  BY <1>1 DEF CbQueued, Queued
<1>3. \A v \in Workers : /\ Held(v, t)' <=> Held(v, t)
                         /\ Held(v, t) => pc'[v] = pc[v] /\ ft'[v] = ft[v]
                         /\ Embodies(v, t)' <=> Embodies(v, t)
                         /\ ~CarriedBy(v, t)'
  BY <1>1, SameCarriers DEF SameHolders
<1>4. OneBody(t)'
  BY <1>3 DEF Sound, OneBody
<1>5. BodyState(t)' /\ Fresh(t)'
  BY <1>1, <1>2, <1>3 DEF Sound, BodyState, Fresh
<1>6. OneToken(t)'
  BY <1>1, <1>3 DEF OneToken
<1> QED
  BY <1>4, <1>5, <1>6 DEF Sound

\* A wakeup: the registration was the task's token, the entry is it now.
LEMMA WakeSteps ==
  ASSUME IInv, TaskInv, NEW t \in Tasks, Wake(t)
  PROVE  /\ fault' = fault /\ t \in armed
         /\ UNCHANGED <<state, on, submitted, pc, ft>> /\ armed' = armed \ {t}
         /\ \A u \in Tasks \ {t} : Untouched(u)
         /\ t \in Stayers => Sound(t)'
PROOF
<1>1. PICK kind \in {"fiber", "wake"} : Schedule(Waker, t, kind, AnyThread)
  BY DEF Wake
<1>2. /\ fault' = fault /\ t \in armed
      /\ UNCHANGED <<state, on, submitted, pc, ft>> /\ armed' = armed \ {t}
  BY DEF Wake
<1>3. TypeOK /\ \A u : SameHolders(u)
  BY <1>2, HoldersUnchanged DEF IInv
<1>4. ASSUME NEW u \in Tasks, u # t
      PROVE  Untouched(u)
  <2>1. SameQueue(u) /\ SameData(u)
    BY <1>1, <1>2, <1>3, <1>4, ScheduleOnly DEF SameData
  <2> QED
    BY <1>3, <2>1 DEF Untouched
<1>5. ASSUME t \in Stayers
      PROVE  Sound(t)'
  <2>1. Sound(t) /\ ~Queued(t)
    BY <1>2, <1>5 DEF TaskInv, Sound, OneToken
  <2>2. Queued(t)' /\ QueuedOnce(t)' /\ (CbQueued(t)' => CbQueued(t))
    <3>1. /\ Queued(t)' <=> Queued(t) \/ t = t
          /\ ~Queued(t) => QueuedOnce(t)'
          /\ CbQueued(t)' <=> CbQueued(t) \/ (t = t /\ kind = "cb")
      BY <1>1, <1>3, Appended
    <3> QED
      BY <2>1, <3>1
  <2> QED
    BY <1>2, <1>3, <2>1, <2>2, TokenQueued
<1> QED
  BY <1>2, <1>4, <1>5

\* The owner, outside of Submit: the workers that it sets going had nothing.
LEMMA OwnerSteps ==
  ASSUME IInv, NEW t \in Tasks, NEW quiet \in BOOLEAN,
         \/ \E thr \in Threads : Tickle(thr)
         \/ Start \/ StopBegin(quiet) \/ StopTickle \/ StopRunCaller(quiet) \/ StopJoin
  PROVE  Untouched(t) /\ fault' = fault
PROOF
<1>1. /\ queue' = queue /\ ft' = ft /\ fault' = fault
      /\ state' = state /\ on' = on /\ submitted' = submitted /\ armed' = armed
  BY DEF Tickle, Start, StopBegin, StopTickle, StopRunCaller, StopJoin, taskVars
<1>2. SameQueue(t) /\ SameData(t)
  BY <1>1, QueueUnchanged DEF SameData
<1>3. SameHolders(t)
  <2>1. \/ pc' = pc
        \/ Start
        \/ StopRunCaller(quiet) /\ Caller # NoThread /\ pc' = [pc EXCEPT ![Caller] = "pick"]
    BY DEF Tickle, StopBegin, StopTickle, StopRunCaller, StopJoin, Goto
  <2>2. CASE pc' = pc
    BY <1>1, <2>2, HoldersUnchanged
  <2>3. CASE Start
    <3>1. \A w \in Workers : pc[w] = "off" /\ pc'[w] \in {"off", "pick"}
      BY <2>3 DEF Start, MainAt, IInv, Offline
    <3>2. \A w \in Workers : pc[w] \notin Occupied /\ pc'[w] \notin Occupied
      BY <3>1 DEF Occupied, Busy
    <3> QED
      BY <3>2 DEF SameHolders, Held
  <2>4. CASE StopRunCaller(quiet) /\ Caller # NoThread /\ pc' = [pc EXCEPT ![Caller] = "pick"]
    <3>1. Caller \in Workers /\ pc[Caller] = "off" /\ pc \in [Workers -> PCs]
      BY <2>4, SchedulerAssumption DEF StopRunCaller, MainAt, IInv, Offline, TypeOK
    <3>2. /\ pc'[Caller] = "pick" /\ \A w \in Workers \ {Caller} : pc'[w] = pc[w]
          /\ pc[Caller] \notin Occupied /\ pc'[Caller] \notin Occupied
      BY <2>4, <3>1 DEF Occupied, Busy
    <3> HIDE DEF Occupied
    <3> QED
      BY <1>1, <3>2 DEF SameHolders, Held, Holding
  <2> QED
    BY <2>1, <2>2, <2>3, <2>4
<1> QED
  BY <1>1, <1>2, <1>3 DEF Untouched

-----------------------------------------------------------------------------
(* The invariant of the tasks, and what it says of the properties.          *)

\* A step that is about one task, or about none, keeps every task sound.
LEMMA OneAtATime ==
  ASSUME TaskInv, NEW t, \A u \in Tasks \ {t} : Untouched(u), t \in Stayers => Sound(t)'
  PROVE  TaskInv'
BY UntouchedKeeps DEF TaskInv, Stayers

\* A step that is about a task that moves, or about none.
LEMMA NoneTouched ==
  ASSUME TaskInv, \A u \in Stayers : Untouched(u)
  PROVE  TaskInv'
BY UntouchedKeeps DEF TaskInv

\* No task is anywhere before the first schedule().
LEMMA TasksInitially ==
  ASSUME Init
  PROVE  TaskInv /\ NoFault
PROOF
<1> SUFFICES ASSUME NEW t \in Stayers
             PROVE  Sound(t)
  BY DEF TaskInv, NoFault, Init, Running
<1>1. t \in Tasks
  BY DEF Stayers
<1>2. \A w \in Workers : ~Held(w, t) /\ ~Embodies(w, t) /\ ~CarriedBy(w, t)
  BY DEF Init, Held, Embodies, CarriedBy, Occupied, Busy
<1>3. ~Queued(t) /\ ~CbQueued(t) /\ QueuedOnce(t)
  BY DEF Init, Queued, CbQueued, QueuedOnce
<1>4. state[t] = "INIT" /\ on[t] = {} /\ t \notin submitted /\ t \notin armed
  BY <1>1 DEF Init
<1> QED
  BY <1>2, <1>3, <1>4 DEF Sound, OneBody, BodyState, Fresh, OneToken

\* Every step keeps every task sound and makes no assertion about it fail.
LEMMA TasksKept ==
  ASSUME IInv, TaskInv, NoFault, [Next]_vars
  PROVE  TaskInv' /\ NoFault'
PROOF
<1>0. NoFault' <=> fault' = <<>> \/ fault'[1] \notin Stayers
  BY DEF NoFault, Running
<1>1. ASSUME NEW w \in Workers, Run(w) \/ Park(w) \/ Idle(w)
      PROVE  TaskInv' /\ NoFault'
  <2>1. CASE PickNothing(w) \/ EnterIdle(w) \/ Exit(w) \/ LeaveIdle(w) \/ Idle(w)
    BY <2>1, FreeSteps, NoneTouched DEF Stayers, NoFault, Running
  <2>2. CASE PickTask(w)
    <3>1. PICK t : t = Holding(w)'
      OBVIOUS
    <3> QED
      BY <2>2, <3>1, PickSteps, OneAtATime DEF NoFault, Running
  <2>3. CASE Dispatch(w)
    <3>1. PICK t : t = Holding(w)
      OBVIOUS
    <3>2. TaskInv'
      BY <2>3, <3>1, DispatchSteps, OneAtATime
    <3>3. NoFault'
      BY <1>0, <2>3, <3>1, DispatchSteps
    <3> QED
      BY <3>2, <3>3
  <2>4. CASE DropFinished(w)
    BY <2>4, DropSteps, NoneTouched DEF NoFault, Running
  <2>5. CASE SwitchTo(w) \/ YieldToHold(w)
    <3>1. TaskInv' /\ (fault' = fault \/ fault'[1] \notin Stayers)
      BY <2>5, MoverSteps, NoneTouched
    <3> QED
      BY <1>0, <3>1 DEF NoFault, Running
  <2>6. CASE RunWakeup(w) \/ Reschedule(w)
    <3>1. PICK t : t = Holding(w)
      OBVIOUS
    <3> QED
      BY <2>6, <3>1, RequeueSteps, OneAtATime DEF NoFault, Running
  <2>7. CASE EndWakeup(w)
    <3>1. PICK t : t = Holding(w)
      OBVIOUS
    <3> QED
      BY <2>7, <3>1, WakeupSteps, OneAtATime DEF NoFault, Running
  <2>8. CASE Finish(w) \/ YieldToReady(w) \/ Park(w) \/ SwapOut(w) \/ Return(w) \/ Retire(w)
               \/ SeeUnfinished(w) \/ SetHold(w)
    <3>1. PICK t : t = Holding(w)
      OBVIOUS
    <3> QED
      BY <2>8, <3>1, BodySteps, OneAtATime DEF NoFault, Running
  <2>9. CASE Spawn(w)
    <3>1. PICK t \in Tasks \ submitted, thread \in Pins :
            submitted' = submitted \cup {t} /\ Schedule(w, t, FirstKind(t), thread)
      BY <2>9 DEF Spawn
    <3>2. UNCHANGED <<state, on, armed, pc, ft>> /\ fault' = fault
      BY <2>9 DEF Spawn
    <3> QED
      BY <3>1, <3>2, NewSteps, OneAtATime DEF NoFault, Running
  <2> QED
    BY <1>1, <2>1, <2>2, <2>3, <2>4, <2>5, <2>6, <2>7, <2>8, <2>9 DEF Run
<1>2. ASSUME NEW t \in Tasks, Wake(t)
      PROVE  TaskInv' /\ NoFault'
  BY <1>2, WakeSteps, OneAtATime DEF NoFault, Running
<1>3. CASE Submit
  <2>1. PICK t \in Tasks \ submitted, thread \in Pins :
          submitted' = submitted \cup {t} /\ Schedule(Main, t, FirstKind(t), thread)
    BY <1>3 DEF Submit
  <2>2. UNCHANGED <<state, on, armed, pc, ft>> /\ fault' = fault
    BY <1>3 DEF Submit
  <2> QED
    BY <2>1, <2>2, NewSteps, OneAtATime DEF NoFault, Running
<1>4. CASE \/ \E thr \in Threads : Tickle(thr)
           \/ Start \/ StopBegin(queue = <<>> /\ active = 0) \/ StopTickle
           \/ StopRunCaller(Drained) \/ StopJoin
  <2>1. (queue = <<>> /\ active = 0) \in BOOLEAN /\ Drained \in BOOLEAN
    BY DEF Drained
  <2>2. \A t \in Tasks : Untouched(t) /\ fault' = fault
    BY <1>4, <2>1, OwnerSteps
  <2>3. fault' = fault
    BY <1>4 DEF Tickle, Start, StopBegin, StopTickle, StopRunCaller, StopJoin
  <2> QED
    BY <2>2, <2>3, NoneTouched DEF Stayers, NoFault, Running
<1>5. CASE Over \/ UNCHANGED vars
  <2>1. UNCHANGED vars
    BY <1>5 DEF Over
  <2>2. \A t \in Stayers : Untouched(t)
    BY <2>1, HoldersUnchanged, QueueUnchanged DEF vars, taskVars, Untouched, SameData
  <2> QED
    BY <2>1, <2>2, NoneTouched DEF vars, NoFault, Running
<1> QED
  BY <1>1, <1>2, <1>3, <1>4, <1>5 DEF Next


\* A set with at most one element, for the counts of the properties.
LEMMA CountsOne ==
  ASSUME NEW S, NEW P, P \subseteq S, \A x, y \in P : x = y
  PROVE  Cardinality(P) = IF P = {} THEN 0 ELSE 1
PROOF
<1>1. CASE P = {}
  BY <1>1, FS_EmptySet
<1>2. CASE P # {}
  <2>1. PICK x \in P : P = {x}
    BY <1>2
  <2> QED
    BY <1>2, <2>1, FS_Singleton
<1> QED
  BY <1>1, <1>2

\* The count of a sound task's tokens is what OneTokenPerTask asks for.
LEMMA SoundCounts ==
  ASSUME NEW t, Sound(t)
  PROVE  Tokens(t) = IF t \in submitted /\ state[t] \notin Done THEN 1 ELSE 0
PROOF
<1> DEFINE Q == {i \in DOMAIN queue : queue[i].task = t}
           C == {w \in Workers : CarriedBy(w, t)}
<1>1. Cardinality(Q) = IF Q = {} THEN 0 ELSE 1
  BY CountsOne DEF Sound, OneToken, QueuedOnce
<1>2. Cardinality(C) = IF C = {} THEN 0 ELSE 1
  BY CountsOne DEF Sound, OneToken
<1>3. /\ Q = {} <=> ~Queued(t)
      /\ C = {} <=> ~(\E w \in Workers : CarriedBy(w, t))
  BY DEF Queued
<1>4. /\ \A w \in Workers : CarriedBy(w, t) => ~Queued(t) /\ t \notin armed
      /\ Queued(t) => t \notin armed
      /\ (Queued(t) \/ t \in armed \/ \E w \in Workers : CarriedBy(w, t))
           <=> (t \in submitted /\ state[t] \notin Done)
  BY DEF Sound, OneToken
<1>5. Tokens(t) = Cardinality(Q) + Cardinality(C) + (IF t \in armed THEN 1 ELSE 0)
  BY DEF Tokens
<1> HIDE DEF Q, C
<1> QED
  BY <1>1, <1>2, <1>3, <1>4, <1>5

\* A sound task's stack has the one thread that runs its body, or none.
LEMMA SoundStack ==
  ASSUME NEW t, Sound(t)
  PROVE  StackIsPrivate(t)
PROOF
<1>1. on[t] = {w \in Workers : Held(w, t) /\ pc[w] \in {"exec", "parking", "swap"}}
  BY DEF Sound, OneBody
<1>2. \A v, w \in on[t] : v = w
  BY <1>1 DEF Sound, OneBody, Embodies
<1>3. Cardinality(on[t]) <= 1
  BY <1>1, <1>2, CountsOne
<1>4. ASSUME NEW w \in Workers, Holding(w) = t, pc[w] \in {"exec", "parking", "switching", "swap"}
      PROVE  on[t] = {w}
  <2>1. Held(w, t)
    BY <1>4 DEF Held, Occupied, Busy
  <2>2. w \in on[t]
    BY <1>1, <1>4, <2>1 DEF Sound, OneBody
  <2> QED
    BY <1>2, <2>2
<1> QED
  BY <1>3, <1>4 DEF StackIsPrivate

\* In every reachable state the counters are exact, every task that does not
\* call switchTo() is sound, and no assertion has failed for one.
THEOREM TasksSound == Spec => [](IInv /\ TaskInv /\ NoFault)
PROOF
<1>1. Init => IInv /\ TaskInv /\ NoFault
  BY Initially, TasksInitially
<1>2. IInv /\ TaskInv /\ NoFault /\ [Next]_vars => (IInv /\ TaskInv /\ NoFault)'
  BY NextKeeps, TasksKept
<1> QED
  BY <1>1, <1>2, PTL DEF Spec

\* No assertion of Fiber fails for a task that does not call switchTo(), and no
\* thread resumes such a task before its context is saved, for any threads,
\* tasks and interleaving, and in the company of tasks that do call it.
THEOREM StayersDoNotFault == Spec => []NoFault
PROOF
<1> QED
  BY TasksSound, PTL

\* Two threads are never on the stack of such a task, and the one that runs its
\* body is the one on it.
THEOREM StacksArePrivate == Spec => []OneThreadPerStack
PROOF
<1>1. TaskInv => OneThreadPerStack
  BY SoundStack DEF TaskInv, OneThreadPerStack
<1> QED
  BY <1>1, TasksSound, PTL

\* No such task is lost and none is queued twice: while it is submitted and
\* unfinished there is exactly one thing that will let it run on.
THEOREM TokensAreExact == Spec => []OneTokenPerTask
PROOF
<1>1. TaskInv => OneTokenPerTask
  BY SoundCounts DEF TaskInv, OneTokenPerTask
<1> QED
  BY <1>1, TasksSound, PTL


-----------------------------------------------------------------------------
(* The scheduler implements TaskPool.                                       *)

\* Nothing runs after stop() has returned: the caller's worker is out of run()
\* before the threads are joined, and these before it returns.
Ended ==
  /\ client = "join" /\ Caller # NoThread => pc[Caller] \in {"off", "exited"}
  /\ client = "stopped" => \A w \in Workers : pc[w] \in {"off", "exited"}

\* The place of a task in the pool, with no count in it.
Place(t) ==
  IF t \notin submitted THEN "new"
  ELSE IF state[t] \in Done THEN "done"
  ELSE IF \E w \in Workers : Held(w, t) /\ pc[w] = "exec" THEN "running"
  ELSE IF t \in armed THEN "parked" ELSE "ready"

\* What a sound task's place is does not depend on a count: it is never lost.
LEMMA SoundPlace == \A t : Sound(t) => Where(t) = Place(t)
PROOF
<1> SUFFICES ASSUME NEW t, Sound(t)
             PROVE  Where(t) = Place(t)
  OBVIOUS
<1>1. \A w \in Workers : pc[w] = "exec" /\ Holding(w) = t <=> Held(w, t) /\ pc[w] = "exec"
  BY DEF Held, Occupied, Busy
<1>2. t \in submitted /\ state[t] \notin Done => Tokens(t) = 1
  BY SoundCounts
<1> QED
  BY <1>1, <1>2 DEF Where, Place

\* The same of the state after a step.
LEMMA SoundPlaceNext == (\A t : Sound(t) => Where(t) = Place(t))'
BY SoundPlace, PTL

\* A task that a step leaves alone keeps its place.
LEMMA PlaceUntouched ==
  ASSUME NEW t, Untouched(t)
  PROVE  Place(t)' = Place(t)
BY DEF Untouched, SameHolders, SameData, Place

\* The moves that TaskPool allows a task.
Goes(t) ==
  \/ Place(t)' = Place(t)
  \/ client # "stopped" /\ Place(t) = "new" /\ Place(t)' = "ready"
  \/ client # "stopped" /\ Place(t) = "ready" /\ Place(t)' = "running"
  \/ Place(t) = "running" /\ Place(t)' \in {"ready", "parked", "done"}
  \/ Place(t) = "parked" /\ Place(t)' = "ready"

\* A step about one task, which goes where the pool allows, is a step of the
\* pool or none.
LEMMA StepMaps ==
  ASSUME TaskInv, TaskInv', NEW t, \A u \in Tasks \ {t} : Untouched(u),
         t \in Stayers => Goes(t), client' = client
  PROVE  [TP!Next]_(TP!vars)
PROOF
<1> DEFINE where == [u \in Stayers |-> Where(u)]
<1>1. \A u \in Stayers : Where(u) = Place(u) /\ Where(u)' = Place(u)'
  BY SoundPlace, SoundPlaceNext DEF TaskInv
<1>2. \A u \in Stayers : u # t => Where(u)' = Where(u)
  BY <1>1, PlaceUntouched DEF Stayers
<1>3. CASE t \notin Stayers \/ Where(t)' = Where(t)
  <2>1. where' = where
    BY <1>2, <1>3
  <2> QED
    BY <2>1 DEF TP!vars
<1>4. ASSUME t \in Stayers, NEW b, Where(t)' = b
      PROVE  TP!Move(t, Where(t), b)
  <2>1. where' = [where EXCEPT ![t] = b]
    BY <1>2, <1>4
  <2> QED
    BY <1>4, <2>1 DEF TP!Move
<1>5. CASE t \in Stayers /\ Where(t)' # Where(t)
  <2>1. /\ Goes(t) /\ Where(t) = Place(t) /\ Where(t)' = Place(t)'
        /\ TP!Move(t, Where(t), Where(t)')
    BY <1>1, <1>4, <1>5
  <2>2. CASE Where(t) = "parked"
    <3>1. Where(t)' = "ready"
      BY <1>5, <2>1, <2>2 DEF Goes
    <3>2. TP!Wake({t})
      BY <1>5, <2>1, <2>2, <3>1 DEF TP!Move, TP!Wake
    <3> QED
      BY <1>5, <3>2 DEF TP!Next
  <2>3. CASE Where(t) # "parked"
    <3>1. TP!Submit(t) \/ TP!Run(t) \/ TP!Yield(t) \/ TP!Park(t) \/ TP!Finish(t)
      BY <1>5, <2>1, <2>3 DEF Goes, TP!Submit, TP!Run, TP!Yield, TP!Park, TP!Finish
    <3> QED
      BY <1>5, <3>1 DEF TP!Next
  <2> QED
    BY <2>2, <2>3
<1> QED
  BY <1>3, <1>5


\* Only a thread inside run() moves, and the owner waits for it.
LEMMA WorkersMove ==
  ASSUME pc \in [Workers -> PCs], NEW w \in Workers, Run(w) \/ Park(w) \/ Idle(w)
  PROVE  /\ pc[w] \notin {"off", "exited"} /\ client' = client
         /\ \A v \in Workers \ {w} : pc'[v] = pc[v]
PROOF
<1>1. Spawn(w) => pc' = pc /\ pc[w] = "exec" /\ client' = client
  BY DEF Spawn, At, clientVars
<1>2. ~Spawn(w) => /\ pc[w] \notin {"off", "exited"} /\ client' = client
                   /\ \E l : pc' = [pc EXCEPT ![w] = l]
  BY DEF Run, PickTask, PickNothing, Dispatch, Resume, DropFinished, RunWakeup, EndWakeup, Finish,
         YieldToReady, SwitchTo, YieldToHold, SwapOut, Return, Reschedule, Retire,
         SeeUnfinished, SetHold, EnterIdle, Exit, LeaveIdle, Park, Idle, At, Goto, Release,
         clientVars
<1> QED
  BY <1>1, <1>2

\* A step of a worker that is neither off nor through does not matter to it.
LEMMA EndedStays ==
  ASSUME Ended, client' = client, NEW w \in Workers, pc[w] \notin {"off", "exited"},
         \A v \in Workers \ {w} : pc'[v] = pc[v]
  PROVE  Ended'
BY SchedulerAssumption DEF Ended

\* The owner ends things in order, whatever stopping() looks at.
LEMMA OwnerEnds ==
  ASSUME IInv, Ended, NEW quiet \in BOOLEAN,
         Start \/ StopBegin(quiet) \/ StopTickle \/ StopRunCaller(quiet) \/ StopJoin
  PROVE  Ended'
PROOF
<1>1. CASE Start \/ StopTickle
  BY <1>1 DEF Start, StopTickle, MainAt, Ended
<1>2. CASE StopBegin(quiet)
  <2>1. client = "started" /\ pc' = pc /\ (client' = "tickling" \/ (client' = "stopped" /\ Pool = {}))
    BY <1>2 DEF StopBegin, MainAt
  <2>2. Caller # NoThread => pc[Caller] = "off"
    BY <2>1 DEF IInv, Offline
  <2> QED
    BY <2>1, <2>2, SchedulerAssumption DEF Ended, Pool
<1>3. CASE StopRunCaller(quiet)
  <2>1. /\ client = "tickling"
        /\ (client' = "caller" \/ (client' = "join" /\ pc' = pc))
    BY <1>3 DEF StopRunCaller, MainAt
  <2>2. Caller # NoThread => pc[Caller] = "off"
    BY <2>1 DEF IInv, Offline
  <2> QED
    BY <2>1, <2>2 DEF Ended
<1>4. CASE StopJoin
  BY <1>4, SchedulerAssumption DEF StopJoin, MainAt, Ended, Pool
<1> QED
  BY <1>1, <1>2, <1>3, <1>4

\* Every step keeps it.
LEMMA EndedKept ==
  ASSUME IInv, Ended, [Next]_vars
  PROVE  Ended'
PROOF
<1>0. pc \in [Workers -> PCs]
  BY DEF IInv, TypeOK
<1>1. ASSUME NEW w \in Workers, Run(w) \/ Park(w) \/ Idle(w)
      PROVE  Ended'
  BY <1>0, <1>1, WorkersMove, EndedStays
<1>2. CASE Submit \/ (\E t \in Tasks : Wake(t)) \/ (\E thr \in Threads : Tickle(thr)) \/ UNCHANGED vars
  <2>1. client' = client /\ pc' = pc
    BY <1>2 DEF Submit, Wake, Tickle, vars, clientVars
  <2> QED
    BY <2>1 DEF Ended
<1>3. CASE \/ Start \/ StopBegin(queue = <<>> /\ active = 0) \/ StopTickle
           \/ StopRunCaller(Drained) \/ StopJoin
  <2>1. (queue = <<>> /\ active = 0) \in BOOLEAN /\ Drained \in BOOLEAN
    BY DEF Drained
  <2> QED
    BY <1>3, <2>1, OwnerEnds
<1>4. CASE Over
  BY <1>2, <1>4 DEF Over
<1> QED
  BY <1>1, <1>2, <1>3, <1>4 DEF Next

\* Where a task can be while a worker has its token or runs its body.
LEMMA PlaceHeld ==
  \A t : \A w \in Workers :
    Sound(t) /\ CarriedBy(w, t) => Place(t) = IF pc[w] = "exec" THEN "running" ELSE "ready"
PROOF
<1> SUFFICES ASSUME NEW t, NEW w \in Workers, Sound(t), CarriedBy(w, t)
             PROVE  Place(t) = IF pc[w] = "exec" THEN "running" ELSE "ready"
  OBVIOUS
<1>1. /\ t \in submitted /\ state[t] \notin Done /\ t \notin armed
      /\ \A v \in Workers : v # w => ~CarriedBy(v, t)
  BY DEF Sound, OneToken
<1>2. \A v \in Workers : Held(v, t) /\ pc[v] = "exec" => CarriedBy(v, t)
  BY DEF CarriedBy, Held
<1>3. Held(w, t)
  BY DEF CarriedBy, Held
<1> QED
  BY <1>1, <1>2, <1>3 DEF Place

\* The place of a task that has an entry in the queue, and of one that waits.
LEMMA PlaceWaiting ==
  \A t : Sound(t) => /\ (Queued(t) => Place(t) = "ready")
                    /\ (t \in armed => Place(t) = "parked")
PROOF
<1> SUFFICES ASSUME NEW t, Sound(t), Queued(t) \/ t \in armed
             PROVE  /\ Queued(t) => Place(t) = "ready"
                    /\ t \in armed => Place(t) = "parked"
  OBVIOUS
<1>1. /\ t \in submitted /\ state[t] \notin Done /\ (Queued(t) => t \notin armed)
      /\ \A v \in Workers : ~CarriedBy(v, t)
  BY DEF Sound, OneToken
<1>2. \A v \in Workers : Held(v, t) /\ pc[v] = "exec" => CarriedBy(v, t)
  BY DEF CarriedBy, Held
<1> QED
  BY <1>1, <1>2 DEF Place

\* The same of the state after a step.
LEMMA PlaceHeldNext ==
  (\A t : \A w \in Workers :
     Sound(t) /\ CarriedBy(w, t) => Place(t) = IF pc[w] = "exec" THEN "running" ELSE "ready")'
BY PlaceHeld, PTL

\* And of a task that waits.
LEMMA PlaceWaitingNext ==
  (\A t : Sound(t) => /\ (Queued(t) => Place(t) = "ready")
                     /\ (t \in armed => Place(t) = "parked"))'
BY PlaceWaiting, PTL

\* A step about no task, or about one that stays where it is.
LEMMA NothingMaps ==
  ASSUME TaskInv, TaskInv', \A u \in Stayers : Place(u)' = Place(u), client' = client
  PROVE  [TP!Next]_(TP!vars)
PROOF
<1>1. \A u \in Stayers : Where(u) = Place(u) /\ Where(u)' = Place(u)'
  BY SoundPlace, SoundPlaceNext DEF TaskInv
<1>2. [u \in Stayers |-> Where(u)]' = [u \in Stayers |-> Where(u)]
  BY <1>1
<1> QED
  BY <1>2 DEF TP!vars

\* A step of the worker that runs task t moves the task when it ends the body,
\* puts the fiber back or parks it, and not otherwise.
LEMMA BodyPlace ==
  ASSUME IInv, TaskInv, TaskInv', NEW w \in Workers, NEW t \in Stayers, t = Holding(w),
         Finish(w) \/ YieldToReady(w) \/ Park(w) \/ SwapOut(w) \/ Return(w) \/ Retire(w)
           \/ SeeUnfinished(w) \/ SetHold(w)
  PROVE  Goes(t)
PROOF
<1>1. /\ Sound(t) /\ Sound(t)' /\ TypeOK /\ t \in Tasks
      /\ state \in [Tasks -> States] /\ pc \in [Workers -> PCs]
  BY DEF TaskInv, IInv, TypeOK, Stayers
<1>2. CASE Finish(w) \/ YieldToReady(w) \/ Park(w)
  <2>1. pc[w] = "exec" /\ ft' = ft /\ submitted' = submitted
    BY <1>2 DEF Finish, YieldToReady, Park, At
  <2>2. Held(w, t) /\ CarriedBy(w, t)
    BY <2>1 DEF Held, CarriedBy, Occupied, Busy
  <2>3. Place(t) = "running"
    BY <1>1, <2>1, <2>2, PlaceHeld
  <2>4. t \in submitted
    BY <1>1, <2>2 DEF Sound, OneToken
  <2>5. CASE Finish(w)
    <3>1. state'[t] \in Done
      BY <1>1, <2>5 DEF Finish
    <3>2. Place(t)' = "done"
      BY <2>1, <2>4, <3>1 DEF Place
    <3> QED
      BY <2>3, <3>2 DEF Goes
  <2>6. CASE YieldToReady(w)
    <3>1. pc'[w] = "swap" /\ state'[t] = "READY"
      BY <1>1, <2>6 DEF YieldToReady, Goto
    <3>2. CarriedBy(w, t)'
      BY <2>1, <3>1 DEF CarriedBy, Holding, Occupied, Busy
    <3>3. Place(t)' = "ready"
      BY <1>1, <3>1, <3>2, PlaceHeldNext
    <3> QED
      BY <2>3, <3>3 DEF Goes
  <2>7. CASE Park(w)
    <3>1. t \in armed'
      BY <2>7 DEF Park
    <3>2. Place(t)' = "parked"
      BY <1>1, <3>1, PlaceWaitingNext
    <3> QED
      BY <2>3, <3>2 DEF Goes
  <2> QED
    BY <1>2, <2>5, <2>6, <2>7
<1>3. CASE SwapOut(w) \/ Return(w) \/ Retire(w) \/ SeeUnfinished(w) \/ SetHold(w)
  <2>1. /\ pc[w] \in {"parking", "swap", "ret", "after", "sethold"}
        /\ submitted' = submitted /\ armed' = armed
    BY <1>3 DEF SwapOut, Return, Retire, SeeUnfinished, SetHold, At, taskVars
  <2>2. PICK l \in {"ret", "after", "sethold", "pick"} :
          pc' = [pc EXCEPT ![w] = l] /\ Follows(w, l)
    BY <1>3 DEF SwapOut, Return, Retire, SeeUnfinished, SetHold, At, Goto, Release, Follows,
                Occupied, Busy
  <2>3. state'[t] \in Done <=> state[t] \in Done
    <3>1. CASE SetHold(w)
      <4>1. state'[t] = "HOLD" /\ pc[w] = "sethold"
        BY <1>1, <3>1 DEF SetHold, At
      <4>2. state[t] = "EXEC"
        BY <1>1, <4>1 DEF Sound, BodyState, Held, Occupied
      <4> QED
        BY <4>1, <4>2 DEF Done
    <3>2. CASE ~SetHold(w)
      BY <1>3, <3>2 DEF SwapOut, Return, Retire, SeeUnfinished, taskVars
    <3> QED
      BY <3>1, <3>2
  <2>4. \A v \in Workers : Held(v, t)' /\ pc'[v] = "exec" <=> Held(v, t) /\ pc[v] = "exec"
    <3>1. /\ \A v \in Workers \ {w} : pc'[v] = pc[v] /\ (Held(v, t)' <=> Held(v, t))
          /\ pc'[w] = l
      BY <1>1, <2>2, WorkerOnly
    <3> QED
      BY <2>1, <3>1
  <2> QED
    BY <2>1, <2>3, <2>4 DEF Goes, Place
<1> QED
  BY <1>2, <1>3

\* What run(), a wait and the plain idle() do to the tasks is a step of the pool
\* or none.
LEMMA RunMaps ==
  ASSUME IInv, TaskInv, TaskInv', Ended, NEW w \in Workers, Run(w) \/ Park(w) \/ Idle(w)
  PROVE  [TP!Next]_(TP!vars)
PROOF
<1>0. /\ pc \in [Workers -> PCs] /\ TypeOK /\ Stayers \subseteq Tasks
      /\ client' = client /\ client # "stopped"
  <2>1. pc \in [Workers -> PCs] /\ TypeOK /\ Stayers \subseteq Tasks
    BY DEF IInv, TypeOK, Stayers
  <2> QED
    BY <2>1, WorkersMove DEF Ended
<1>1. CASE PickNothing(w) \/ EnterIdle(w) \/ Exit(w) \/ LeaveIdle(w) \/ Idle(w)
           \/ DropFinished(w) \/ SwitchTo(w) \/ YieldToHold(w)
  <2>1. \A u \in Stayers : Untouched(u)
    BY <1>0, <1>1, FreeSteps, DropSteps, MoverSteps
  <2> QED
    BY <1>0, <2>1, PlaceUntouched, NothingMaps
<1>2. CASE PickTask(w)
  <2>1. PICK t : t = Holding(w)'
    OBVIOUS
  <2>2. t \in Tasks /\ Queued(t) /\ \A u \in Tasks \ {t} : Untouched(u)
    BY <1>2, <2>1, PickSteps
  <2>3. ASSUME t \in Stayers
        PROVE  Goes(t)
    <3>1. Place(t) = "ready"
      BY <2>2, <2>3, PlaceWaiting DEF TaskInv
    <3>2. pc'[w] = "dispatch"
      BY <1>0, <1>2 DEF PickTask, Goto
    <3>3. CarriedBy(w, t)'
      BY <2>1, <3>2 DEF CarriedBy, Occupied, Busy
    <3>4. Place(t)' = "ready"
      BY <2>3, <3>2, <3>3, PlaceHeldNext DEF TaskInv
    <3> QED
      BY <3>1, <3>4 DEF Goes
  <2> QED
    BY <1>0, <2>2, <2>3, StepMaps
<1>3. CASE Dispatch(w)
  <2>1. PICK t : t = Holding(w)
    OBVIOUS
  <2>2. \A u \in Tasks \ {t} : Untouched(u)
    BY <1>3, <2>1, DispatchSteps
  <2>3. ASSUME t \in Stayers
        PROVE  Goes(t)
    <3>1. pc[w] = "dispatch" /\ pc'[w] = "exec" /\ ft' = ft
      BY <1>0, <1>3 DEF Dispatch, Resume, At, Goto
    <3>2. CarriedBy(w, t) /\ CarriedBy(w, t)'
      BY <2>1, <3>1 DEF CarriedBy, Holding, Occupied, Busy
    <3>3. Place(t) = "ready"
      BY <2>3, <3>1, <3>2, PlaceHeld DEF TaskInv
    <3>4. Place(t)' = "running"
      BY <2>3, <3>1, <3>2, PlaceHeldNext DEF TaskInv
    <3> QED
      BY <1>0, <3>3, <3>4 DEF Goes
  <2> QED
    BY <1>0, <2>2, <2>3, StepMaps
<1>4. CASE RunWakeup(w) \/ Reschedule(w)
  <2>1. PICK t : t = Holding(w)
    OBVIOUS
  <2>2. \A u \in Tasks \ {t} : Untouched(u)
    BY <1>4, <2>1, RequeueSteps
  <2>3. ASSUME t \in Stayers
        PROVE  Goes(t)
    <3>1. pc[w] = "dispatch" \/ (pc[w] = "after" /\ state[t] = "READY")
      BY <1>4, <2>1 DEF RunWakeup, Reschedule, At
    <3>2. CarriedBy(w, t)
      BY <2>1, <3>1 DEF CarriedBy, Occupied, Busy
    <3>3. Place(t) = "ready"
      BY <2>3, <3>1, <3>2, PlaceHeld DEF TaskInv
    <3>4. Schedule(w, t, "fiber", AnyThread)
      BY <1>4, <2>1 DEF RunWakeup, Reschedule
    <3>5. Queued(t)'
      BY <1>0, <3>4, Appended
    <3>6. Place(t)' = "ready"
      BY <2>3, <3>5, PlaceWaitingNext DEF TaskInv
    <3> QED
      BY <3>3, <3>6 DEF Goes
  <2> QED
    BY <1>0, <2>2, <2>3, StepMaps
<1>5. CASE EndWakeup(w)
  <2>1. PICK t : t = Holding(w)
    OBVIOUS
  <2>2. /\ t \in Tasks /\ \A u \in Tasks \ {t} : Untouched(u)
        /\ UNCHANGED <<state, on, submitted, armed>>
    BY <1>5, <2>1, WakeupSteps
  <2>3. Goes(t)
    <3>1. pc[w] = "waking" /\ pc' = [pc EXCEPT ![w] = "pick"] /\ Follows(w, "pick")
      BY <1>5 DEF EndWakeup, At, Goto, Release, Follows, Occupied, Busy
    <3>2. /\ \A v \in Workers \ {w} : pc'[v] = pc[v] /\ (Held(v, t)' <=> Held(v, t))
          /\ pc'[w] = "pick"
      BY <1>0, <2>2, <3>1, WorkerOnly
    <3>3. \A v \in Workers : Held(v, t)' /\ pc'[v] = "exec" <=> Held(v, t) /\ pc[v] = "exec"
      BY <3>1, <3>2
    <3> QED
      BY <2>2, <3>3 DEF Goes, Place
  <2> QED
    BY <1>0, <2>2, <2>3, StepMaps
<1>6. CASE Finish(w) \/ YieldToReady(w) \/ Park(w) \/ SwapOut(w) \/ Return(w) \/ Retire(w)
             \/ SeeUnfinished(w) \/ SetHold(w)
  <2>1. PICK t : t = Holding(w)
    OBVIOUS
  <2>2. \A u \in Tasks \ {t} : Untouched(u)
    BY <1>6, <2>1, BodySteps
  <2>3. t \in Stayers => Goes(t)
    BY <1>6, <2>1, BodyPlace
  <2> QED
    BY <1>0, <2>2, <2>3, StepMaps
<1>7. CASE Spawn(w)
  <2>1. PICK t \in Tasks \ submitted, thread \in Pins :
          submitted' = submitted \cup {t} /\ Schedule(w, t, FirstKind(t), thread)
    BY <1>7 DEF Spawn
  <2>2. UNCHANGED <<state, on, armed, pc, ft>>
    BY <1>7 DEF Spawn
  <2>3. \A u \in Tasks \ {t} : Untouched(u)
    BY <2>1, <2>2, NewSteps
  <2>4. ASSUME t \in Stayers
        PROVE  Goes(t)
    <3>1. Queued(t)' /\ Place(t) = "new"
      BY <1>0, <2>1, Appended DEF Place
    <3> QED
      BY <1>0, <2>4, <3>1, PlaceWaitingNext DEF Goes, TaskInv
  <2> QED
    BY <1>0, <2>3, <2>4, StepMaps
<1> QED
  BY <1>1, <1>2, <1>3, <1>4, <1>5, <1>6, <1>7 DEF Run

\* The owner submits a task.
LEMMA SubmitMaps ==
  ASSUME IInv, TaskInv, TaskInv', Submit
  PROVE  [TP!Next]_(TP!vars)
PROOF
<1>1. PICK t \in Tasks \ submitted, thread \in Pins :
        submitted' = submitted \cup {t} /\ Schedule(Main, t, FirstKind(t), thread)
  BY DEF Submit
<1>2. UNCHANGED <<state, on, armed, pc, ft>> /\ client' = client /\ client # "stopped" /\ TypeOK
  BY DEF Submit, MainAt, clientVars, IInv
<1>3. \A u \in Tasks \ {t} : Untouched(u)
  BY <1>1, <1>2, NewSteps
<1>4. ASSUME t \in Stayers
      PROVE  Goes(t)
  <2>1. Queued(t)' /\ Place(t) = "new"
    BY <1>1, <1>2, Appended DEF Place
  <2> QED
    BY <1>2, <1>4, <2>1, PlaceWaitingNext DEF Goes, TaskInv
<1> QED
  BY <1>2, <1>3, <1>4, StepMaps

\* The owner starts and stops the threads, whatever stopping() looks at, and
\* anyone tickles them.
LEMMA OwnerMaps ==
  ASSUME IInv, TaskInv, TaskInv', Ended', NEW quiet \in BOOLEAN,
         \/ \E thr \in Threads : Tickle(thr)
         \/ Start \/ StopBegin(quiet) \/ StopTickle \/ StopRunCaller(quiet) \/ StopJoin
  PROVE  [TP!Next]_(TP!vars)
PROOF
<1>0. pc \in [Workers -> PCs] /\ TypeOK /\ Stayers \subseteq Tasks
  BY DEF IInv, TypeOK, Stayers
<1>1. \A u \in Stayers : Place(u)' = Place(u)
  BY <1>0, OwnerSteps, PlaceUntouched
<1>2. client # "stopped" \/ client' = client
  BY DEF Tickle, Start, StopBegin, StopTickle, StopRunCaller, StopJoin, MainAt, clientVars
<1>3. \A u \in Stayers : Where(u) = Place(u) /\ Where(u)' = Place(u)'
  BY SoundPlace, SoundPlaceNext DEF TaskInv
<1>4. [u \in Stayers |-> Where(u)]' = [u \in Stayers |-> Where(u)]
  BY <1>1, <1>3
<1>5. CASE client' = "stopped" /\ client # "stopped"
  <2>1. \A w \in Workers : pc'[w] # "exec"
    BY <1>5 DEF Ended
  <2>2. \A u \in Stayers : Where(u) # "running"
    BY <1>1, <1>3, <2>1 DEF Place
  <2>3. TP!Stop
    BY <1>4, <1>5, <2>2 DEF TP!Stop
  <2> QED
    BY <2>3 DEF TP!Next
<1>6. CASE ~(client' = "stopped" /\ client # "stopped")
  <2>1. (client' = "stopped") <=> (client = "stopped")
    BY <1>2, <1>6
  <2> QED
    BY <1>4, <2>1 DEF TP!vars
<1> QED
  BY <1>5, <1>6

\* Every step of the scheduler is a step of the pool or none.
LEMMA NextMaps ==
  ASSUME IInv, TaskInv, TaskInv', Ended, Ended', [Next]_vars
  PROVE  [TP!Next]_(TP!vars)
PROOF
<1>0. TypeOK
  BY DEF IInv
<1>1. ASSUME NEW w \in Workers, Run(w) \/ Park(w) \/ Idle(w)
      PROVE  [TP!Next]_(TP!vars)
  BY <1>1, RunMaps
<1>2. ASSUME NEW t \in Tasks, Wake(t)
      PROVE  [TP!Next]_(TP!vars)
  <2>1. t \in armed /\ (\A u \in Tasks \ {t} : Untouched(u)) /\ client' = client
    BY <1>2, WakeSteps DEF Wake, clientVars
  <2>2. ASSUME t \in Stayers
        PROVE  Goes(t)
    <3>1. PICK kind \in {"fiber", "wake"} : Schedule(Waker, t, kind, AnyThread)
      BY <1>2 DEF Wake
    <3>2. Queued(t)'
      BY <1>0, <3>1, Appended
    <3>3. Place(t) = "parked" /\ Place(t)' = "ready"
      BY <2>1, <2>2, <3>2, PlaceWaiting, PlaceWaitingNext DEF TaskInv
    <3> QED
      BY <3>3 DEF Goes
  <2> QED
    BY <2>1, <2>2, StepMaps
<1>3. CASE Submit
  BY <1>3, SubmitMaps
<1>4. CASE \/ \E thr \in Threads : Tickle(thr)
           \/ Start \/ StopBegin(queue = <<>> /\ active = 0) \/ StopTickle
           \/ StopRunCaller(Drained) \/ StopJoin
  <2>1. (queue = <<>> /\ active = 0) \in BOOLEAN /\ Drained \in BOOLEAN
    BY DEF Drained
  <2> QED
    BY <1>4, <2>1, OwnerMaps
<1>5. CASE Over \/ UNCHANGED vars
  <2>1. UNCHANGED vars
    BY <1>5 DEF Over
  <2>2. \A u \in Stayers : Untouched(u)
    BY <2>1, HoldersUnchanged, QueueUnchanged DEF vars, taskVars, Untouched, SameData
  <2>3. client' = client
    BY <2>1 DEF vars, clientVars
  <2> QED
    BY <2>2, <2>3, PlaceUntouched, NothingMaps
<1> QED
  BY <1>1, <1>2, <1>3, <1>4, <1>5 DEF Next

\* Every behaviour of the scheduler is one of the task pool: the tasks that do
\* not call switchTo() are in one place at a time and go from one to the next as
\* schedule() and the calls of Fiber say, whatever the threads, the queue, the
\* early wakeups and stop() do.
THEOREM Implements == Spec => ImplementsTaskPool
PROOF
<1>1. Init => TP!Init
  <2>1. ASSUME Init
        PROVE  TP!Init
    <3>1. \A t \in Stayers : Where(t) = "new"
      BY <2>1 DEF Init, Where
    <3> QED
      BY <2>1, <3>1 DEF Init, TP!Init
  <2> QED
    BY <2>1
<1>2. Init => Ended
  BY DEF Init, Ended
<1>3. IInv /\ Ended /\ [Next]_vars => Ended'
  BY EndedKept
<1>4. IInv /\ TaskInv /\ TaskInv' /\ Ended /\ Ended' /\ [Next]_vars => [TP!Next]_(TP!vars)
  BY NextMaps
<1>5. Spec => [](IInv /\ TaskInv)
  BY TasksSound, PTL
<1> QED
  BY <1>1, <1>2, <1>3, <1>4, <1>5, PTL DEF Spec, ImplementsTaskPool, TP!Spec

-----------------------------------------------------------------------------
(* What stop() leaves behind: nothing, when every entry may be taken by any *)
(* thread and a task gives up its thread only to go back to the queue.  A   *)
(* task that is woken or pinned may be scheduled when every thread, or the  *)
(* one it is pinned to, has already seen the scheduler drained.             *)

Unpinned == Pins = {AnyThread} /\ Movers = {} /\ "plain" \notin YieldOps

Free == {e \in Entry : e.thread = AnyThread}

\* Whatever is queued can be taken: it is pinned to no thread and nobody executes it.
Takable ==
  /\ queue \in Seq(Free)
  /\ armed = {}
  /\ \A t \in Tasks :
       state[t] = "EXEC" => \E w \in Workers : Held(w, t) /\ pc[w] = "exec"

\* Before stop() no thread of the pool leaves, or thinks of it.
Staying ==
  /\ autoStop <=> client \notin {"new", "started"}
  /\ ~autoStop => idleTerm = {} /\ \A w \in Workers : pc[w] # "exited"
  /\ client # "new" => \A w \in Pool : pc[w] # "off"

\* Worker w will look into the queue again.
Willing(w) == pc[w] \notin {"off", "exited"} /\ ~(pc[w] = "nothing" /\ w \in idleTerm)

\* Somebody will look into the queue when it is not empty: a thread that has it
\* empty before it is gone, and so leaves the queue to whoever fills it.
Served ==
  queue # <<>> /\ client # "new" =>
    \/ Caller # NoThread /\ client \in {"started", "tickling"}
    \/ \E w \in Workers : Willing(w)

SInv == Takable /\ Staying /\ Served

LEMMA StopInitially == Init => SInv
BY SchedulerAssumption DEF Init, SInv, Takable, Staying, Served

\* A thread that finds nothing it may execute finds nothing.
LEMMA NothingMeansEmpty ==
  ASSUME Unpinned, IInv, TaskInv, SInv, NEW w \in Workers, PickNothing(w)
  PROVE  queue = <<>>
PROOF
<1> SUFFICES ASSUME queue # <<>> PROVE FALSE
  OBVIOUS
<1>1. 1 \in DOMAIN queue /\ queue[1] \in Free
  <2>1. queue \in Seq(Free)
    BY DEF SInv, Takable
  <2> HIDE DEF Free
  <2> QED
    BY <2>1
<1>2. ~Eligible(w, queue[1]) /\ queue[1].thread = AnyThread /\ queue[1] \in Entry
  BY <1>1 DEF PickNothing, Free
<1> DEFINE t == queue[1].task
<1>3. t \in Tasks /\ state[t] = "EXEC" /\ Queued(t)
  BY <1>1, <1>2 DEF Eligible, Skipped, Entry, Queued
<1> HIDE DEF t
<1>4. PICK v \in Workers : Held(v, t) /\ pc[v] = "exec"
  BY <1>3 DEF SInv, Takable
<1>5. CarriedBy(v, t)
  BY <1>4 DEF Held, CarriedBy
<1>6. Sound(t)
  BY <1>3 DEF Unpinned, TaskInv, Stayers
<1> QED
  BY <1>3, <1>5, <1>6 DEF Sound, OneToken

\* Every entry that is made is free, so the queue stays takable.
LEMMA FreeQueue ==
  ASSUME Unpinned, TypeOK, queue \in Seq(Free)
  PROVE  /\ \A thr, kind : \A t \in Tasks, thread \in Pins \cup {AnyThread} :
              kind \in {"fiber", "cb", "wake"} /\ Schedule(thr, t, kind, thread)
                => queue' \in Seq(Free)
         /\ \A i \in DOMAIN queue : RemoveAt(queue, i) \in Seq(Free)
PROOF
<1>1. ASSUME NEW thr, NEW t \in Tasks, NEW kind \in {"fiber", "cb", "wake"},
             NEW thread \in Pins \cup {AnyThread}, Schedule(thr, t, kind, thread)
      PROVE  queue' \in Seq(Free)
  <2> DEFINE e == [task |-> t, kind |-> kind, thread |-> thread]
  <2>1. e \in Free
    BY DEF Unpinned, Free, Entry
  <2>2. queue' = Append(queue, e)
    BY <1>1 DEF Schedule
  <2> HIDE DEF e, Free
  <2> QED
    BY <2>1, <2>2
<1>2. ASSUME NEW i \in DOMAIN queue
      PROVE  RemoveAt(queue, i) \in Seq(Free)
  <2> HIDE DEF Free
  <2> QED
    BY <1>2, RemoveAtType
<1> QED
  BY <1>1, <1>2

\* Who executes a fiber that is EXEC does so until its state_ is something else.
LEMMA TakableKept ==
  ASSUME Unpinned, IInv, TaskInv, SInv, NEW w \in Workers, Run(w) \/ Park(w) \/ Idle(w)
  PROVE  Takable'
PROOF
<1>1. /\ queue \in Seq(Free) /\ armed = {} /\ TypeOK
      /\ \A t \in Tasks : state[t] = "EXEC" => \E v \in Workers : Held(v, t) /\ pc[v] = "exec"
  BY DEF SInv, Takable, IInv
<1>2. ~Park(w) /\ ~SwitchTo(w)
  BY DEF Unpinned, Park, SwitchTo
<1>3. armed' = armed
  BY <1>2 DEF Run, PickTask, PickNothing, Dispatch, Resume, DropFinished, RunWakeup, EndWakeup,
        Finish, YieldToReady, YieldToHold, Spawn, SwapOut, Return, Reschedule, Retire,
        SeeUnfinished, SetHold, EnterIdle, Exit, LeaveIdle, Idle, taskVars
<1>4. queue' \in Seq(Free)
  <2>1. \/ queue' = queue
        \/ \E i \in DOMAIN queue : queue' = RemoveAt(queue, i)
        \/ \E kind, t, thread :
             /\ kind \in {"fiber", "cb", "wake"} /\ t \in Tasks /\ thread \in Pins \cup {AnyThread}
             /\ Schedule(w, t, kind, thread)
    <3>1. CASE PickTask(w)
      BY <3>1 DEF PickTask
    <3>2. CASE Spawn(w)
      BY <3>2 DEF Spawn, FirstKind
    <3>3. CASE RunWakeup(w) \/ Reschedule(w)
      <4>1. Holding(w) \in Tasks
        BY <1>1, <3>3, HoldsTask DEF RunWakeup, Reschedule, At, Occupied, Busy
      <4> QED
        BY <3>3, <4>1 DEF RunWakeup, Reschedule
    <3>4. CASE ~(PickTask(w) \/ Spawn(w) \/ RunWakeup(w) \/ Reschedule(w))
      BY <1>2, <3>4 DEF Run, PickNothing, Dispatch, DropFinished, EndWakeup,
           Finish, YieldToReady, YieldToHold, SwapOut, Return, Retire,
           SeeUnfinished, SetHold, EnterIdle, Exit, LeaveIdle, Idle
    <3> QED
      BY <3>1, <3>2, <3>3, <3>4
  <2> QED
    BY <1>1, <2>1, FreeQueue
<1>5. ASSUME NEW t \in Tasks, state'[t] = "EXEC"
      PROVE  \E v \in Workers : Held(v, t)' /\ pc'[v] = "exec"
  <2>1. CASE Dispatch(w) /\ Holding(w) = t
    <3>1. pc[w] = "dispatch" /\ pc' = [pc EXCEPT ![w] = "exec"] /\ ft' = ft
      BY <2>1 DEF Dispatch, At, Resume, Goto
    <3>2. pc'[w] = "exec" /\ Held(w, t)'
      BY <1>1, <2>1, <3>1 DEF TypeOK, Held, Holding, Occupied, Busy
    <3> QED
      BY <3>2
  <2>2. CASE ~(Dispatch(w) /\ Holding(w) = t)
    <3>1. state[t] = "EXEC" /\ (pc[w] = "exec" /\ Holding(w) = t => pc' = pc /\ ft' = ft)
      BY <1>1, <1>2, <1>5, <2>2 DEF TypeOK, Run, PickTask, PickNothing, Dispatch, Resume, DropFinished,
           RunWakeup, EndWakeup, Finish, YieldToReady, YieldToHold, Spawn, SwapOut, Return,
           Reschedule, Retire, SeeUnfinished, SetHold, EnterIdle, Exit, LeaveIdle, Idle,
           taskVars, At, Done
    <3>2. PICK v \in Workers : Held(v, t) /\ pc[v] = "exec"
      BY <1>1, <3>1
    <3>3. CASE v = w
      BY <3>1, <3>2, <3>3 DEF Held, Holding
    <3>4. CASE v # w
      <4>1. pc'[v] = pc[v] /\ ft'[v] = ft[v]
        <5>1. ft' = ft \/ \E e : ft' = [ft EXCEPT ![w] = e]
          BY <1>2 DEF Run, PickTask, PickNothing, Dispatch, DropFinished, RunWakeup, EndWakeup,
               Finish, YieldToReady, YieldToHold, Spawn, SwapOut, Return, Reschedule,
               Retire, SeeUnfinished, SetHold, EnterIdle, Exit, LeaveIdle, Idle, Release
        <5> QED
          BY <1>1, <3>4, <5>1, WorkersMove DEF TypeOK
      <4> QED
        BY <3>2, <4>1 DEF Held, Holding
    <3> QED
      BY <3>3, <3>4
  <2> QED
    BY <2>1, <2>2
<1> QED
  BY <1>1, <1>3, <1>4, <1>5 DEF Takable

\* A thread that has left the queue for good left it empty.
LEMMA ServedKept ==
  ASSUME Unpinned, IInv, TaskInv, SInv, NEW w \in Workers, Run(w) \/ Park(w) \/ Idle(w)
  PROVE  Staying' /\ Served'
PROOF
<1>0. TypeOK /\ pc \in [Workers -> PCs] /\ idleTerm \subseteq Workers
  BY DEF IInv, TypeOK
<1>1. /\ pc[w] \notin {"off", "exited"} /\ client' = client
      /\ \A v \in Workers \ {w} : pc'[v] = pc[v]
  BY <1>0, WorkersMove
<1>2. autoStop' = autoStop
  BY DEF Run, PickTask, PickNothing, Dispatch, Resume, DropFinished, RunWakeup, EndWakeup, Finish,
     YieldToReady, SwitchTo, YieldToHold, Spawn, SwapOut, Return, Reschedule, Retire,
     SeeUnfinished, SetHold, EnterIdle, Exit, LeaveIdle, Park, Idle, clientVars
<1>3. \/ idleTerm' = idleTerm
      \/ Idle(w) /\ autoStop /\ idleTerm' = idleTerm \cup {w}
  BY DEF Run, PickTask, PickNothing, Dispatch, Resume, DropFinished, RunWakeup, EndWakeup, Finish,
     YieldToReady, SwitchTo, YieldToHold, Spawn, SwapOut, Return, Reschedule, Retire,
     SeeUnfinished, SetHold, EnterIdle, Exit, LeaveIdle, Park, Idle, Drained
<1>4. \/ pc'[w] \notin {"off", "exited", "nothing"}
      \/ PickNothing(w) /\ pc'[w] = "nothing"
      \/ Exit(w) /\ pc'[w] = "exited"
  BY <1>0 DEF Run, PickTask, PickNothing, Dispatch, Resume, DropFinished, RunWakeup, EndWakeup, Finish,
     YieldToReady, SwitchTo, YieldToHold, Spawn, SwapOut, Return, Reschedule, Retire,
     SeeUnfinished, SetHold, EnterIdle, Exit, LeaveIdle, Park, Idle, Goto, Release, At
<1>5. Staying'
  <2>1. pc'[w] # "off" /\ (pc'[w] = "exited" => w \in idleTerm)
    BY <1>4 DEF Exit
  <2> QED
    BY <1>0, <1>1, <1>2, <1>3, <2>1 DEF SInv, Staying, Pool
<1>6. CASE pc'[w] \notin {"off", "exited", "nothing"}
  <2>1. Willing(w)'
    BY <1>6 DEF Willing
  <2> QED
    BY <1>5, <2>1 DEF Served
<1>7. CASE PickNothing(w) /\ pc'[w] = "nothing"
  <2>1. queue' = <<>>
    BY <1>7, NothingMeansEmpty DEF PickNothing
  <2> QED
    BY <1>5, <2>1 DEF Served
<1>8. CASE Exit(w) /\ pc'[w] = "exited"
  <2>1. ~Willing(w) /\ idleTerm' = idleTerm /\ queue' = queue
    BY <1>8 DEF Exit, At, Willing
  <2>2. \A v \in Workers : Willing(v) => Willing(v)'
    BY <1>1, <2>1 DEF Willing
  <2> QED
    BY <1>1, <1>5, <2>1, <2>2 DEF SInv, Served
<1> QED
  BY <1>4, <1>6, <1>7, <1>8

\* Before stop() has set its flags there is a thread for whatever is scheduled, or
\* the caller's own will come.
LEMMA SomebodyComes ==
  ASSUME TypeOK, Staying, client = "started"
  PROVE  Caller # NoThread \/ \E w \in Workers : Willing(w)
PROOF
<1>1. CASE Pool = {}
  BY <1>1, SchedulerAssumption DEF Pool
<1>2. CASE Pool # {}
  <2>1. PICK w \in Pool : TRUE
    BY <1>2
  <2>2. w \in Workers /\ Willing(w)
    BY <2>1 DEF Staying, Willing, Pool
  <2> QED
    BY <2>2
<1> QED
  BY <1>1, <1>2

\* The steps of the threads outside run().
LEMMA StopOthers ==
  ASSUME Unpinned, IInv, SInv,
         \/ \E thr \in Threads : Tickle(thr)
         \/ \E t \in Tasks : Wake(t)
         \/ Start \/ Submit \/ StopBegin(queue = <<>> /\ active = 0) \/ StopTickle
         \/ StopRunCaller(Drained) \/ StopJoin
  PROVE  SInv'
PROOF
<1>0. TypeOK /\ pc \in [Workers -> PCs] /\ Takable /\ Staying /\ Served /\ Offline
  BY DEF IInv, TypeOK, SInv
<1>1. CASE (\E thr \in Threads : Tickle(thr)) \/ StopTickle
  <2>1. UNCHANGED <<queue, state, armed, pc, ft, idleTerm, autoStop, client>>
    BY <1>1 DEF Tickle, StopTickle, MainAt, taskVars, clientVars
  <2> QED
    BY <1>0, <2>1 DEF SInv, Takable, Staying, Served, Willing, Held, Holding
<1>2. CASE \E t \in Tasks : Wake(t)
  BY <1>0, <1>2 DEF Wake, Takable
<1>3. CASE Start
  <2>1. /\ client = "new" /\ client' = "started"
        /\ pc' = [w \in Workers |-> IF w \in Pool THEN "pick" ELSE pc[w]]
        /\ UNCHANGED <<queue, state, armed, ft, idleTerm, autoStop>>
    BY <1>3 DEF Start, MainAt, taskVars
  <2>2. \A w \in Workers : pc[w] = "off"
    BY <1>0, <2>1 DEF Offline
  <2>3. Takable'
    BY <1>0, <2>1, <2>2 DEF Takable
  <2>4. Staying'
    BY <1>0, <2>1, <2>2 DEF Staying, Pool
  <2>5. TypeOK' => Caller # NoThread \/ \E w \in Workers : Willing(w)'
    <3>1. CASE Pool = {}
      BY <3>1, SchedulerAssumption DEF Pool
    <3>2. CASE Pool # {}
      BY <2>1, <3>2 DEF Pool, Willing
    <3> QED
      BY <3>1, <3>2
  <2> QED
    BY <2>1, <2>3, <2>4, <2>5, <1>3, Owns DEF SInv, Served, IInv
<1>4. CASE Submit
  <2>1. /\ client \in {"new", "started"} /\ \E t \in Tasks, thread \in Pins : Schedule(Main, t, FirstKind(t), thread)
        /\ UNCHANGED <<state, armed, pc, ft, idleTerm, autoStop, client>>
    BY <1>4 DEF Submit, MainAt, clientVars
  <2>2. queue' \in Seq(Free)
    BY <1>0, <2>1, FreeQueue DEF FirstKind, Takable
  <2>3. Takable' /\ Staying'
    BY <1>0, <2>1, <2>2 DEF Takable, Staying, Held, Holding
  <2>4. client' # "new" => Caller # NoThread \/ \E w \in Workers : Willing(w)'
    BY <1>0, <2>1, SomebodyComes DEF Willing
  <2> QED
    BY <2>1, <2>3, <2>4 DEF SInv, Served
<1>5. CASE StopBegin(queue = <<>> /\ active = 0)
  <2>1. /\ client = "started" /\ autoStop' = TRUE
        /\ client' = "tickling" \/ (client' = "stopped" /\ queue = <<>>)
        /\ UNCHANGED <<queue, state, armed, pc, ft, idleTerm>>
    BY <1>5 DEF StopBegin, MainAt, taskVars
  <2> QED
    BY <1>0, <2>1 DEF SInv, Takable, Staying, Served, Willing, Held, Holding
<1>6. CASE StopRunCaller(Drained)
  <2>1. /\ client = "tickling" /\ UNCHANGED <<queue, state, armed, ft, idleTerm, autoStop>>
        /\ \/ Caller # NoThread /\ client' = "caller" /\ pc' = [pc EXCEPT ![Caller] = "pick"]
           \/ (Caller = NoThread \/ queue = <<>>) /\ client' = "join" /\ pc' = pc
    BY <1>6 DEF StopRunCaller, MainAt, Goto, Drained, taskVars
  <2>2. CASE Caller # NoThread /\ client' = "caller" /\ pc' = [pc EXCEPT ![Caller] = "pick"]
    <3>1. Caller \in Workers /\ pc[Caller] = "off"
      BY <1>0, <2>1, <2>2, SchedulerAssumption DEF Offline
    <3>2. pc'[Caller] = "pick" /\ \A w \in Workers \ {Caller} : pc'[w] = pc[w]
      BY <1>0, <2>2, <3>1
    <3>3. Takable'
      BY <1>0, <2>1, <3>1, <3>2 DEF Takable, Held, Holding
    <3>4. Staying'
      BY <1>0, <2>1, <2>2, <3>2 DEF Staying, Pool
    <3>5. Willing(Caller)'
      BY <3>2 DEF Willing
    <3> QED
      BY <3>1, <3>3, <3>4, <3>5 DEF SInv, Served
  <2>3. CASE (Caller = NoThread \/ queue = <<>>) /\ client' = "join" /\ pc' = pc
    BY <1>0, <2>1, <2>3 DEF SInv, Takable, Staying, Served, Willing, Held, Holding
  <2> QED
    BY <2>1, <2>2, <2>3
<1>7. CASE StopJoin
  <2>1. /\ client \in {"caller", "join"} /\ client' \in {"join", "stopped"}
        /\ UNCHANGED <<queue, state, armed, pc, ft, idleTerm, autoStop>>
    BY <1>7 DEF StopJoin, MainAt, taskVars
  <2> QED
    BY <1>0, <2>1 DEF SInv, Takable, Staying, Served, Willing, Held, Holding
<1> QED
  BY <1>1, <1>2, <1>3, <1>4, <1>5, <1>6, <1>7

LEMMA StopKept ==
  ASSUME Unpinned
  PROVE  IInv /\ TaskInv /\ SInv /\ [Next]_vars => SInv'
PROOF
<1> SUFFICES ASSUME IInv, TaskInv, SInv, [Next]_vars PROVE SInv'
  OBVIOUS
<1>1. ASSUME NEW w \in Workers, Run(w) \/ Park(w) \/ Idle(w)
      PROVE  SInv'
  BY <1>1, TakableKept, ServedKept DEF SInv
<1>2. CASE Over \/ UNCHANGED vars
  <2>1. UNCHANGED <<queue, state, armed, pc, ft, idleTerm, autoStop, client>>
    BY <1>2 DEF Over, vars, taskVars, clientVars
  <2> QED
    BY <2>1 DEF SInv, Takable, Staying, Served, Willing, Held, Holding
<1> QED
  BY <1>1, <1>2, StopOthers DEF Next

\* When stop() has returned, whatever was submitted has run to its end: no thread
\* leaves run() while there is work for it, although stopping() does not see the
\* fiber that a thread is about to put back (scheduler.cc:103-156, 226-241, 294-298).
THEOREM NothingLeftBehind ==
  ASSUME Unpinned
  PROVE  Spec => []StoppedIsDrained
PROOF
<1>1. Init => SInv /\ Ended
  BY StopInitially DEF Init, Ended
<1>2. IInv /\ TaskInv /\ SInv /\ [Next]_vars => SInv'
  BY StopKept
<1>3. IInv /\ Ended /\ [Next]_vars => Ended'
  BY EndedKept
<1>4. IInv /\ TaskInv /\ SInv /\ Ended => StoppedIsDrained
  <2> SUFFICES ASSUME IInv, TaskInv, SInv, Ended, client = "stopped", NEW t \in submitted
               PROVE  state[t] \in Done \/ t \in armed
    BY DEF StoppedIsDrained
  <2>1. \A w \in Workers : pc[w] \in {"off", "exited"}
    BY DEF Ended
  <2>2. queue = <<>>
    BY <2>1 DEF SInv, Served, Willing
  <2>3. ~Queued(t) /\ \A w \in Workers : ~CarriedBy(w, t)
    BY <2>1, <2>2 DEF Queued, CarriedBy
  <2>4. t \in Stayers
    BY DEF Unpinned, Stayers, IInv, TypeOK
  <2> QED
    BY <2>3, <2>4 DEF TaskInv, Sound, OneToken
<1>5. Spec => [](IInv /\ TaskInv)
  BY TasksSound, PTL
<1> QED
  BY <1>1, <1>2, <1>3, <1>4, <1>5, PTL DEF Spec

=============================================================================
