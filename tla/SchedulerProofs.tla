--------------------------- MODULE SchedulerProofs ---------------------------
(***************************************************************************)
(* Theorems of Scheduler, for any number of workers and tasks: its type    *)
(* invariant, and that the counters of active and idle threads, which      *)
(* stopping() and tickle() trust, are exact in every reachable state.      *)
(***************************************************************************)
EXTENDS Scheduler, FiniteSetTheorems, SequenceTheorems, TLAPS

\* The number of workers whose point of run() is in L.
Count(L) == Cardinality({w \in Workers : pc[w] \in L})

-----------------------------------------------------------------------------
(* Lemmas.                                                                  *)

\* Moving one worker from k to l changes the number of workers at L by one if
\* it enters or leaves L, and not at all otherwise.
LEMMA MoveOne ==
  ASSUME pc \in [Workers -> PCs], NEW w \in Workers, NEW l \in PCs, NEW L,
         pc' = [pc EXCEPT ![w] = l]
  PROVE  /\ Count(L) \in Nat /\ Count(L)' \in Nat
         /\ (pc[w] \in L <=> l \in L) => Count(L)' = Count(L)
         /\ pc[w] \notin L /\ l \in L => Count(L)' = Count(L) + 1
         /\ pc[w] \in L /\ l \notin L => Count(L)' = Count(L) - 1
PROOF
<1> DEFINE P == {v \in Workers : pc[v] \in L}
           Q == {v \in Workers : pc'[v] \in L}
<1>1. IsFiniteSet(P) /\ IsFiniteSet(Q)
  BY SchedulerAssumption, FS_Subset
<1>2. Cardinality(P) \in Nat /\ Cardinality(Q) \in Nat
  BY <1>1, FS_CardinalityType
<1>3. ASSUME pc[w] \in L <=> l \in L
      PROVE  Q = P
  BY <1>3
<1>4. ASSUME pc[w] \notin L, l \in L
      PROVE  Cardinality(Q) = Cardinality(P) + 1
  <2>1. Q = P \cup {w} /\ w \notin P
    BY <1>4
  <2> HIDE DEF P, Q
  <2> QED
    BY <1>1, <2>1, FS_AddElement
<1>5. ASSUME pc[w] \in L, l \notin L
      PROVE  Cardinality(Q) = Cardinality(P) - 1
  <2>1. Q = P \ {w} /\ w \in P
    BY <1>5
  <2> HIDE DEF P, Q
  <2> QED
    BY <1>1, <2>1, FS_RemoveElement
<1> QED
  BY <1>2, <1>3, <1>4, <1>5 DEF Count

\* Removing one element of a sequence leaves a sequence over the same set.
LEMMA RemoveAtType ==
  ASSUME NEW S, NEW s \in Seq(S), NEW i \in DOMAIN s
  PROVE  RemoveAt(s, i) \in Seq(S)
PROOF
<1>1. i \in 1..Len(s)
  OBVIOUS
<1>2. SubSeq(s, 1, i - 1) \in Seq(S) /\ SubSeq(s, i + 1, Len(s)) \in Seq(S)
  BY <1>1, SubSeqProperties
<1> QED
  BY <1>2, ConcatProperties DEF RemoveAt

-----------------------------------------------------------------------------
(* The inductive invariant.  The decrement of a counter keeps it a natural  *)
(* number only because the counter is exact, and the counters stay exact in *)
(* start() and stop() only because the threads these set going were off.    *)

Offline ==
  /\ client = "new" => \A w \in Workers : pc[w] = "off"
  /\ Caller # NoThread /\ client \in {"new", "started", "tickling"} => pc[Caller] = "off"

IInv == TypeOK /\ ActiveAccounting /\ IdleAccounting /\ Offline

Bit(l, L) == IF l \in L THEN 1 ELSE 0

\* Worker w goes to point l and does to the counters what that requires.
Moves(w, l) ==
  /\ pc[w] # "off" /\ l # "off" /\ l \in PCs
  /\ pc' = [pc EXCEPT ![w] = l]
  /\ client' = client
  /\ active' = active + Bit(l, Busy) - Bit(pc[w], Busy)
  /\ idle' = idle + Bit(l, InIdle) - Bit(pc[w], InIdle)

\* A worker that does so keeps both counters exact: this is used for every step
\* of run(), and is where a counter is seen to stay a natural number.
LEMMA WorkerMoves ==
  ASSUME IInv, NEW w \in Workers, NEW l, Moves(w, l)
  PROVE  /\ ActiveAccounting' /\ IdleAccounting' /\ Offline'
         /\ active' \in Nat /\ idle' \in Nat
         /\ pc' \in [Workers -> PCs]
PROOF
<1> USE DEF Moves
<1>1. pc \in [Workers -> PCs]
  BY DEF IInv, TypeOK
<1>2. pc' \in [Workers -> PCs]
  BY <1>1
<1>3. /\ active = Count(Busy) /\ idle = Count(InIdle)
      /\ ActiveAccounting' <=> active' = Count(Busy)'
      /\ IdleAccounting' <=> idle' = Count(InIdle)'
  BY DEF IInv, ActiveAccounting, IdleAccounting, Count
<1>4. Count(Busy)' \in Nat /\ Count(InIdle)' \in Nat
  BY <1>1, MoveOne
<1>5. active' = Count(Busy)'
  <2>1. /\ Count(Busy) \in Nat
        /\ (pc[w] \in Busy <=> l \in Busy) => Count(Busy)' = Count(Busy)
        /\ pc[w] \notin Busy /\ l \in Busy => Count(Busy)' = Count(Busy) + 1
        /\ pc[w] \in Busy /\ l \notin Busy => Count(Busy)' = Count(Busy) - 1
    BY <1>1, MoveOne
  <2> HIDE DEF Busy, InIdle
  <2> QED
    BY <1>3, <2>1 DEF Bit
<1>6. idle' = Count(InIdle)'
  <2>1. /\ Count(InIdle) \in Nat
        /\ (pc[w] \in InIdle <=> l \in InIdle) => Count(InIdle)' = Count(InIdle)
        /\ pc[w] \notin InIdle /\ l \in InIdle => Count(InIdle)' = Count(InIdle) + 1
        /\ pc[w] \in InIdle /\ l \notin InIdle => Count(InIdle)' = Count(InIdle) - 1
    BY <1>1, MoveOne
  <2> HIDE DEF Busy, InIdle
  <2> QED
    BY <1>3, <2>1 DEF Bit
<1>7. Offline'
  BY <1>1 DEF IInv, Offline
<1> QED
  BY <1>2, <1>3, <1>4, <1>5, <1>6, <1>7

\* The type invariant but for what run() itself moves: counters, places, entries.
Typed ==
  /\ queue \in Seq(Entry)
  /\ stopping \in BOOLEAN /\ autoStop \in BOOLEAN
  /\ state \in [Tasks -> States]
  /\ on \in [Tasks -> SUBSET Workers]
  /\ yields \in [Tasks -> Nat]
  /\ submitted \subseteq Tasks /\ armed \subseteq Tasks
  /\ idleTerm \subseteq Workers
  /\ owesTickle \subseteq Threads
  /\ tickles \in Nat
  /\ fault \in Faults

\* A worker that goes to l keeps its entry, or drops it on the way to the pick.
Follows(w, l) ==
  \/ ft' = ft /\ (pc[w] \in Occupied <=> l \in Occupied)
  \/ ft' = [ft EXCEPT ![w] = NoEntry] /\ l \notin Occupied

\* So a step of run() keeps the invariant when it does these three things.
LEMMA WorkerKeeps ==
  ASSUME IInv, NEW w \in Workers, NEW l, Moves(w, l), Typed', Follows(w, l)
  PROVE  IInv'
PROOF
<1>1. /\ ActiveAccounting' /\ IdleAccounting' /\ Offline'
      /\ active' \in Nat /\ idle' \in Nat
      /\ pc' \in [Workers -> PCs]
  BY WorkerMoves
<1>2. /\ pc \in [Workers -> PCs] /\ pc' = [pc EXCEPT ![w] = l]
      /\ ft \in [Workers -> Entry \cup {NoEntry}]
      /\ \A v \in Workers : ft[v] # NoEntry <=> pc[v] \in Occupied
  BY DEF IInv, TypeOK, Moves
<1>3. /\ ft' \in [Workers -> Entry \cup {NoEntry}]
      /\ \A v \in Workers : ft'[v] # NoEntry <=> pc'[v] \in Occupied
  <2> HIDE DEF Occupied
  <2> QED
    BY <1>2 DEF Follows
<1>4. client' \in {"new", "started", "tickling", "caller", "join", "stopped"}
  BY DEF IInv, TypeOK, Moves
<1>5. TypeOK'
  BY <1>1, <1>3, <1>4 DEF TypeOK, Typed
<1> QED
  BY <1>1, <1>5 DEF IInv

-----------------------------------------------------------------------------
(* Every step preserves it.                                                 *)

\* schedule() keeps the run queue a sequence of entries.
LEMMA ScheduleType ==
  ASSUME TypeOK, NEW thr \in Threads, NEW t \in Tasks, NEW kind \in {"fiber", "cb", "wake"},
         NEW thread \in Workers \cup {AnyThread}, Schedule(thr, t, kind, thread)
  PROVE  queue' \in Seq(Entry) /\ owesTickle' \subseteq Threads
PROOF
<1>1. [task |-> t, kind |-> kind, thread |-> thread] \in Entry
  BY DEF Entry
<1>2. queue \in Seq(Entry)
  BY DEF TypeOK
<1> HIDE DEF Entry
<1>3. queue' \in Seq(Entry)
  BY <1>1, <1>2, AppendProperties DEF Schedule
<1> QED
  BY <1>3 DEF Schedule, TypeOK

\* Taking an entry: the count goes up and the worker holds what it removed.
LEMMA Picks ==
  ASSUME IInv, NEW w \in Workers, PickTask(w)
  PROVE  IInv'
PROOF
<1>1. Moves(w, "dispatch")
  BY DEF PickTask, At, Goto, Moves, Bit, PCs, Occupied, Busy, InIdle, IInv, TypeOK,
           clientVars
<1>2. /\ ActiveAccounting' /\ IdleAccounting' /\ Offline'
      /\ active' \in Nat /\ idle' \in Nat /\ pc' \in [Workers -> PCs]
  BY <1>1, WorkerMoves
<1>3. PICK i \in DOMAIN queue :
        /\ ft' = [ft EXCEPT ![w] = queue[i]]
        /\ queue' = RemoveAt(queue, i)
        /\ owesTickle' \subseteq owesTickle \cup {w}
  BY DEF PickTask
<1>4. queue' \in Seq(Entry) /\ queue[i] \in Entry
  <2>1. queue \in Seq(Entry)
    BY DEF IInv, TypeOK
  <2> QED
    BY <1>3, <2>1, RemoveAtType, ElementOfSeq
<1>5. /\ ft' \in [Workers -> Entry \cup {NoEntry}]
      /\ \A v \in Workers : ft'[v] # NoEntry <=> pc'[v] \in Occupied
  BY <1>1, <1>3, <1>4, SchedulerAssumption DEF IInv, TypeOK, Moves, Occupied, Busy, Entry
<1>6. TypeOK'
  BY <1>2, <1>3, <1>4, <1>5 DEF IInv, TypeOK, PickTask, taskVars, clientVars, Threads
<1> QED
  BY <1>2, <1>6 DEF IInv

\* What a worker holds inside the body of run()'s loop is an entry for a task.
LEMMA HoldsTask ==
  ASSUME TypeOK, NEW w \in Workers, pc[w] \in Occupied
  PROVE  Holding(w) \in Tasks
BY DEF TypeOK, Entry, Holding

\* Giving up the thread uses one of the times a task still may.
LEMMA UseYieldType ==
  ASSUME TypeOK, NEW w \in Workers, Holding(w) \in Tasks, UseYield(w)
  PROVE  yields' \in [Tasks -> Nat]
PROOF
<1>1. yields \in [Tasks -> Nat]
  BY DEF TypeOK
<1>2. /\ yields[Holding(w)] > 0
      /\ yields' = [yields EXCEPT ![Holding(w)] = yields[Holding(w)] - 1]
  BY DEF UseYield
<1>3. yields[Holding(w)] - 1 \in Nat
  BY <1>1, <1>2
<1> QED
  BY <1>1, <1>2, <1>3

\* Executing what was picked.
LEMMA Executes ==
  ASSUME IInv, NEW w \in Workers,
         Dispatch(w) \/ DropFinished(w) \/ RunWakeup(w) \/ EndWakeup(w)
  PROVE  IInv'
PROOF
<1>1. CASE Dispatch(w)
  <2>1. Moves(w, "exec")
    <3>1. /\ pc[w] = "dispatch"
          /\ pc' = [pc EXCEPT ![w] = "exec"]
          /\ active' = active /\ idle' = idle /\ client' = client
      BY <1>1 DEF Dispatch, At, Goto, clientVars, Resume
    <3>2. active \in Nat /\ idle \in Nat
      BY DEF IInv, TypeOK
    <3> QED
      BY <3>1, <3>2 DEF Moves, Bit, PCs, Occupied, Busy, InIdle
  <2>2. Holding(w) \in Tasks
    BY <1>1, HoldsTask DEF Dispatch, At, Occupied, Busy, IInv
  <2>3. fault' \in Faults
    BY <1>1, <2>2 DEF Dispatch, Resume, Faults
  <2>4. Typed'
    BY <1>1, <2>2, <2>3 DEF Dispatch, taskVars, clientVars, Resume, States, IInv,
           TypeOK, Typed
  <2>5. Follows(w, "exec")
    BY <1>1 DEF Dispatch, At, Goto, Resume, Follows, Occupied, Busy
  <2> QED
    BY <2>1, <2>4, <2>5, WorkerKeeps
<1>2. CASE DropFinished(w)
  <2>1. Moves(w, "pick")
    BY <1>2 DEF DropFinished, At, Release, Goto, Moves, Bit, PCs, Occupied,
           Busy, InIdle, IInv, TypeOK, clientVars
  <2>2. Typed'
    BY <1>2 DEF DropFinished, taskVars, clientVars, IInv, TypeOK, Typed
  <2>3. Follows(w, "pick")
    BY <1>2 DEF DropFinished, At, Goto, Release, Follows, Occupied, Busy
  <2> QED
    BY <2>1, <2>2, <2>3, WorkerKeeps
<1>3. CASE RunWakeup(w)
  <2>1. Moves(w, "waking")
    BY <1>3 DEF RunWakeup, At, Goto, Moves, Bit, PCs, Occupied, Busy, InIdle,
           IInv, TypeOK, clientVars
  <2>2. Holding(w) \in Tasks
    BY <1>3, HoldsTask DEF RunWakeup, At, Occupied, Busy, IInv
  <2>3. queue' \in Seq(Entry) /\ owesTickle' \subseteq Threads
    BY <1>3, <2>2, SchedulerAssumption, ScheduleType DEF RunWakeup, IInv,
           Threads
  <2>4. Typed'
    BY <1>3, <2>2, <2>3 DEF RunWakeup, taskVars, clientVars, IInv, TypeOK, Typed
  <2>5. Follows(w, "waking")
    BY <1>3 DEF RunWakeup, At, Goto, Follows, Occupied, Busy
  <2> QED
    BY <2>1, <2>4, <2>5, WorkerKeeps
<1>4. CASE EndWakeup(w)
  <2>1. Moves(w, "pick")
    BY <1>4 DEF EndWakeup, At, Release, Goto, Moves, Bit, PCs, Occupied, Busy,
           InIdle, IInv, TypeOK, clientVars
  <2>2. Typed'
    BY <1>4 DEF EndWakeup, taskVars, clientVars, IInv, TypeOK, Typed
  <2>3. Follows(w, "pick")
    BY <1>4 DEF EndWakeup, At, Goto, Release, Follows, Occupied, Busy
  <2> QED
    BY <2>1, <2>2, <2>3, WorkerKeeps
<1> QED
  BY <1>1, <1>2, <1>3, <1>4

\* What task bodies do, but for Spawn.
LEMMA Bodies ==
  ASSUME IInv, NEW w \in Workers,
         Finish(w) \/ YieldToReady(w) \/ Park(w) \/ SwitchTo(w) \/
                YieldToHold(w) \/ SwapOut(w)
  PROVE  IInv'
PROOF
<1>1. CASE Finish(w)
  <2>1. Moves(w, "swap")
    BY <1>1 DEF Finish, At, Goto, Moves, Bit, PCs, Occupied, Busy, InIdle,
           IInv, TypeOK, clientVars
  <2>2. Holding(w) \in Tasks
    BY <1>1, HoldsTask DEF Finish, At, Occupied, Busy, IInv
  <2>3. Typed'
    BY <1>1, <2>2 DEF Finish, taskVars, clientVars, States, Done, IInv, TypeOK, Typed
  <2>4. Follows(w, "swap")
    BY <1>1 DEF Finish, At, Goto, Follows, Occupied, Busy
  <2> QED
    BY <2>1, <2>3, <2>4, WorkerKeeps
<1>2. CASE YieldToReady(w)
  <2>1. Moves(w, "swap")
    BY <1>2 DEF YieldToReady, At, Goto, Moves, Bit, PCs, Occupied, Busy,
           InIdle, IInv, TypeOK, clientVars
  <2>2. Holding(w) \in Tasks
    BY <1>2, HoldsTask DEF YieldToReady, At, Occupied, Busy, IInv
  <2>3. yields' \in [Tasks -> Nat]
    BY <1>2, <2>2, UseYieldType DEF YieldToReady, IInv
  <2>4. Typed'
    BY <1>2, <2>2, <2>3 DEF YieldToReady, taskVars, clientVars, States, IInv, TypeOK,
           Typed
  <2>5. Follows(w, "swap")
    BY <1>2 DEF YieldToReady, At, Goto, Follows, Occupied, Busy
  <2> QED
    BY <2>1, <2>4, <2>5, WorkerKeeps
<1>3. CASE Park(w)
  <2>1. Moves(w, "parking")
    BY <1>3 DEF Park, At, Goto, Moves, Bit, PCs, Occupied, Busy, InIdle, IInv,
           TypeOK, clientVars
  <2>2. Holding(w) \in Tasks
    BY <1>3, HoldsTask DEF Park, At, Occupied, Busy, IInv
  <2>3. yields' \in [Tasks -> Nat]
    BY <1>3, <2>2, UseYieldType DEF Park, IInv
  <2>4. Typed'
    BY <1>3, <2>2, <2>3 DEF Park, taskVars, clientVars, IInv, TypeOK, Typed
  <2>5. Follows(w, "parking")
    BY <1>3 DEF Park, At, Goto, Follows, Occupied, Busy
  <2> QED
    BY <2>1, <2>4, <2>5, WorkerKeeps
<1>4. CASE SwitchTo(w)
  <2>1. Moves(w, "switching")
    BY <1>4 DEF SwitchTo, At, Goto, Moves, Bit, PCs, Occupied, Busy, InIdle,
           IInv, TypeOK, clientVars
  <2>2. Holding(w) \in Tasks
    BY <1>4, HoldsTask DEF SwitchTo, At, Occupied, Busy, IInv
  <2>3. yields' \in [Tasks -> Nat]
    BY <1>4, <2>2, UseYieldType DEF SwitchTo, IInv
  <2>4. queue' \in Seq(Entry) /\ owesTickle' \subseteq Threads
    BY <1>4, <2>2, SchedulerAssumption, ScheduleType DEF SwitchTo, IInv,
           Threads
  <2>5. Typed'
    BY <1>4, <2>2, <2>3, <2>4 DEF SwitchTo, taskVars, clientVars, IInv, TypeOK, Typed
  <2>6. Follows(w, "switching")
    BY <1>4 DEF SwitchTo, At, Goto, Follows, Occupied, Busy
  <2> QED
    BY <2>1, <2>5, <2>6, WorkerKeeps
<1>5. CASE YieldToHold(w)
  <2>1. Moves(w, "swap")
    <3>1. /\ pc[w] = "switching"
          /\ pc' = [pc EXCEPT ![w] = "swap"]
          /\ active' = active /\ idle' = idle /\ client' = client
      BY <1>5 DEF YieldToHold, At, Goto, clientVars
    <3>2. active \in Nat /\ idle \in Nat
      BY DEF IInv, TypeOK
    <3> QED
      BY <3>1, <3>2 DEF Moves, Bit, PCs, Occupied, Busy, InIdle
  <2>2. Holding(w) \in Tasks
    BY <1>5, HoldsTask DEF YieldToHold, At, Occupied, Busy, IInv
  <2>3. fault' \in Faults
    <3>1. fault \in Faults
      BY DEF IInv, TypeOK
    <3>2. <<Holding(w), "YieldToHold of a fiber not EXEC">> \in Faults
      BY <2>2 DEF Faults
    <3> QED
      BY <1>5, <3>1, <3>2 DEF YieldToHold
  <2>4. state' \in [Tasks -> States]
    BY <1>5, <2>2 DEF YieldToHold, States, IInv, TypeOK
  <2>5. Typed'
    BY <1>5, <2>2, <2>3, <2>4 DEF YieldToHold, taskVars, clientVars, IInv, TypeOK, Typed
  <2>6. Follows(w, "swap")
    BY <1>5 DEF YieldToHold, At, Goto, Follows, Occupied, Busy
  <2> QED
    BY <2>1, <2>5, <2>6, WorkerKeeps
<1>6. CASE SwapOut(w)
  <2>1. Moves(w, "ret")
    <3>1. /\ pc[w] \in {"swap", "parking"}
          /\ pc' = [pc EXCEPT ![w] = "ret"]
          /\ active' = active /\ idle' = idle /\ client' = client
      BY <1>6 DEF SwapOut, At, Goto, clientVars
    <3>2. active \in Nat /\ idle \in Nat
      BY DEF IInv, TypeOK
    <3> QED
      BY <3>1, <3>2 DEF Moves, Bit, PCs, Occupied, Busy, InIdle
  <2>2. Holding(w) \in Tasks
    BY <1>6, HoldsTask DEF SwapOut, At, Occupied, Busy, IInv
  <2>3. Typed'
    BY <1>6, <2>2 DEF SwapOut, taskVars, clientVars, IInv, TypeOK, Typed
  <2>4. Follows(w, "ret")
    BY <1>6 DEF SwapOut, At, Goto, Follows, Occupied, Busy
  <2> QED
    BY <2>1, <2>3, <2>4, WorkerKeeps
<1> QED
  BY <1>1, <1>2, <1>3, <1>4, <1>5, <1>6

\* What follows resume().
LEMMA Returns ==
  ASSUME IInv, NEW w \in Workers,
         Return(w) \/ Reschedule(w) \/ Retire(w) \/ SeeUnfinished(w)
                \/ SetHold(w)
  PROVE  IInv'
PROOF
<1>1. CASE Return(w)
  <2>1. Moves(w, "after")
    BY <1>1 DEF Return, At, Goto, Moves, Bit, PCs, Occupied, Busy, InIdle,
           IInv, TypeOK, clientVars
  <2>2. Typed'
    BY <1>1 DEF Return, taskVars, clientVars, IInv, TypeOK, Typed
  <2>3. Follows(w, "after")
    BY <1>1 DEF Return, At, Goto, Follows, Occupied, Busy
  <2> QED
    BY <2>1, <2>2, <2>3, WorkerKeeps
<1>2. CASE Reschedule(w)
  <2>1. Moves(w, "pick")
    BY <1>2 DEF Reschedule, At, Release, Goto, Moves, Bit, PCs, Occupied,
           Busy, InIdle, IInv, TypeOK, clientVars
  <2>2. Holding(w) \in Tasks
    BY <1>2, HoldsTask DEF Reschedule, At, Occupied, Busy, IInv
  <2>3. queue' \in Seq(Entry) /\ owesTickle' \subseteq Threads
    BY <1>2, <2>2, SchedulerAssumption, ScheduleType DEF Reschedule, IInv,
           Threads
  <2>4. Typed'
    BY <1>2, <2>2, <2>3 DEF Reschedule, taskVars, clientVars, IInv, TypeOK, Typed
  <2>5. Follows(w, "pick")
    BY <1>2 DEF Reschedule, At, Goto, Release, Follows, Occupied, Busy
  <2> QED
    BY <2>1, <2>4, <2>5, WorkerKeeps
<1>3. CASE Retire(w)
  <2>1. Moves(w, "pick")
    BY <1>3 DEF Retire, At, Release, Goto, Moves, Bit, PCs, Occupied, Busy,
           InIdle, IInv, TypeOK, clientVars
  <2>2. Typed'
    BY <1>3 DEF Retire, taskVars, clientVars, IInv, TypeOK, Typed
  <2>3. Follows(w, "pick")
    BY <1>3 DEF Retire, At, Goto, Release, Follows, Occupied, Busy
  <2> QED
    BY <2>1, <2>2, <2>3, WorkerKeeps
<1>4. CASE SeeUnfinished(w)
  <2>1. Moves(w, "sethold")
    BY <1>4 DEF SeeUnfinished, At, Goto, Moves, Bit, PCs, Occupied, Busy,
           InIdle, IInv, TypeOK, clientVars
  <2>2. Typed'
    BY <1>4 DEF SeeUnfinished, taskVars, clientVars, IInv, TypeOK, Typed
  <2>3. Follows(w, "sethold")
    BY <1>4 DEF SeeUnfinished, At, Goto, Follows, Occupied, Busy
  <2> QED
    BY <2>1, <2>2, <2>3, WorkerKeeps
<1>5. CASE SetHold(w)
  <2>1. Moves(w, "pick")
    BY <1>5 DEF SetHold, At, Release, Goto, Moves, Bit, PCs, Occupied, Busy,
           InIdle, IInv, TypeOK, clientVars
  <2>2. Holding(w) \in Tasks
    BY <1>5, HoldsTask DEF SetHold, At, Occupied, Busy, IInv
  <2>3. Typed'
    BY <1>5, <2>2 DEF SetHold, taskVars, clientVars, States, IInv, TypeOK, Typed
  <2>4. Follows(w, "pick")
    BY <1>5 DEF SetHold, At, Goto, Release, Follows, Occupied, Busy
  <2> QED
    BY <2>1, <2>3, <2>4, WorkerKeeps
<1> QED
  BY <1>1, <1>2, <1>3, <1>4, <1>5

\* Nothing to execute.
LEMMA Idles ==
  ASSUME IInv, NEW w \in Workers,
         PickNothing(w) \/ EnterIdle(w) \/ Exit(w) \/ LeaveIdle(w) \/
                Idle(w)
  PROVE  IInv'
PROOF
<1>1. CASE PickNothing(w)
  <2>1. Moves(w, "nothing")
    BY <1>1 DEF PickNothing, At, Goto, Moves, Bit, PCs, Occupied, Busy,
           InIdle, IInv, TypeOK, clientVars
  <2>2. Typed'
    BY <1>1 DEF PickNothing, taskVars, clientVars, Threads, IInv, TypeOK, Typed
  <2>3. Follows(w, "nothing")
    BY <1>1 DEF PickNothing, At, Goto, Follows, Occupied, Busy
  <2> QED
    BY <2>1, <2>2, <2>3, WorkerKeeps
<1>2. CASE EnterIdle(w)
  <2>1. Moves(w, "idle")
    BY <1>2 DEF EnterIdle, At, Goto, Moves, Bit, PCs, Occupied, Busy, InIdle,
           IInv, TypeOK, clientVars
  <2>2. Typed'
    BY <1>2 DEF EnterIdle, taskVars, clientVars, IInv, TypeOK, Typed
  <2>3. Follows(w, "idle")
    BY <1>2 DEF EnterIdle, At, Goto, Follows, Occupied, Busy
  <2> QED
    BY <2>1, <2>2, <2>3, WorkerKeeps
<1>3. CASE Exit(w)
  <2>1. Moves(w, "exited")
    BY <1>3 DEF Exit, At, Goto, Moves, Bit, PCs, Occupied, Busy, InIdle, IInv,
           TypeOK, clientVars
  <2>2. Typed'
    BY <1>3 DEF Exit, taskVars, clientVars, IInv, TypeOK, Typed
  <2>3. Follows(w, "exited")
    BY <1>3 DEF Exit, At, Goto, Follows, Occupied, Busy
  <2> QED
    BY <2>1, <2>2, <2>3, WorkerKeeps
<1>4. CASE LeaveIdle(w)
  <2>1. Moves(w, "pick")
    BY <1>4 DEF LeaveIdle, At, Goto, Moves, Bit, PCs, Occupied, Busy, InIdle,
           IInv, TypeOK, clientVars
  <2>2. Typed'
    BY <1>4 DEF LeaveIdle, taskVars, clientVars, IInv, TypeOK, Typed
  <2>3. Follows(w, "pick")
    BY <1>4 DEF LeaveIdle, At, Goto, Follows, Occupied, Busy
  <2> QED
    BY <2>1, <2>2, <2>3, WorkerKeeps
<1>5. CASE Idle(w)
  <2>1. Moves(w, "idleRet")
    BY <1>5 DEF Idle, At, Goto, Moves, Bit, PCs, Occupied, Busy, InIdle, IInv,
           TypeOK, clientVars
  <2>2. Typed'
    BY <1>5 DEF Idle, taskVars, clientVars, IInv, TypeOK, Typed
  <2>3. Follows(w, "idleRet")
    BY <1>5 DEF Idle, At, Goto, Follows, Occupied, Busy
  <2> QED
    BY <2>1, <2>2, <2>3, WorkerKeeps
<1> QED
  BY <1>1, <1>2, <1>3, <1>4, <1>5

\* Steps that move no worker and touch no counter.
LEMMA NoWorkerMoves ==
  ASSUME IInv, TypeOK', pc' = pc, active' = active, idle' = idle,
         \/ client' = client
         \/ client = "started" /\ client' = "tickling"
         \/ client' \in {"caller", "join", "stopped"}
  PROVE  IInv'
BY DEF IInv, ActiveAccounting, IdleAccounting, Offline

\* A schedule() that is not a step of run() keeps the invariant.
LEMMA Schedules ==
  ASSUME IInv, NEW thr \in Threads, NEW t \in Tasks, NEW kind \in {"fiber", "cb", "wake"},
         NEW thread \in Workers \cup {AnyThread}, Schedule(thr, t, kind, thread),
         submitted' \subseteq Tasks, armed' \subseteq Tasks,
         UNCHANGED <<active, idle, state, on, yields, pc, ft, idleTerm, clientVars, fault>>
  PROVE  IInv'
PROOF
<1>1. queue' \in Seq(Entry) /\ owesTickle' \subseteq Threads
  BY ScheduleType DEF IInv
<1>2. TypeOK'
  BY <1>1 DEF IInv, TypeOK, clientVars
<1>3. client' = client /\ pc' = pc /\ active' = active /\ idle' = idle
  BY DEF clientVars
<1> QED
  BY <1>2, <1>3, NoWorkerMoves

\* The calls of schedule() that add a task: by a task, by the owner, by a wakeup.
LEMMA Adds ==
  ASSUME IInv, (\E w \in Workers : Spawn(w)) \/ Submit \/ (\E t \in Tasks : Wake(t))
  PROVE  IInv'
PROOF
<1>0. \A t \in Tasks : FirstKind(t) \in {"fiber", "cb", "wake"}
  BY DEF FirstKind
<1>1. ASSUME NEW w \in Workers, Spawn(w)
      PROVE  IInv'
  <2>1. PICK t \in Tasks \ submitted, thread \in Pins :
          submitted' = submitted \cup {t} /\ Schedule(w, t, FirstKind(t), thread)
    BY <1>1 DEF Spawn
  <2>2. /\ t \in Tasks /\ FirstKind(t) \in {"fiber", "cb", "wake"}
        /\ thread \in Workers \cup {AnyThread} /\ w \in Threads
    BY <1>0, <2>1, SchedulerAssumption DEF Threads
  <2>3. submitted' \subseteq Tasks /\ armed' \subseteq Tasks
    BY <1>1, <2>1 DEF Spawn, IInv, TypeOK
  <2>4. UNCHANGED <<active, idle, state, on, yields, pc, ft, idleTerm, clientVars, fault>>
    BY <1>1 DEF Spawn
  <2> QED
    BY <2>1, <2>2, <2>3, <2>4, Schedules
<1>2. CASE Submit
  <2>1. PICK t \in Tasks \ submitted, thread \in Pins :
          submitted' = submitted \cup {t} /\ Schedule(Main, t, FirstKind(t), thread)
    BY <1>2 DEF Submit
  <2>2. /\ t \in Tasks /\ FirstKind(t) \in {"fiber", "cb", "wake"}
        /\ thread \in Workers \cup {AnyThread} /\ Main \in Threads
    BY <1>0, <2>1, SchedulerAssumption DEF Threads
  <2>3. submitted' \subseteq Tasks /\ armed' \subseteq Tasks
    BY <1>2, <2>1 DEF Submit, IInv, TypeOK
  <2>4. UNCHANGED <<active, idle, state, on, yields, pc, ft, idleTerm, clientVars, fault>>
    BY <1>2 DEF Submit
  <2> QED
    BY <2>1, <2>2, <2>3, <2>4, Schedules
<1>3. ASSUME NEW t \in Tasks, Wake(t)
      PROVE  IInv'
  <2>1. PICK kind \in {"fiber", "wake"} : Schedule(Waker, t, kind, AnyThread)
    BY <1>3 DEF Wake
  <2>2. submitted' \subseteq Tasks /\ armed' \subseteq Tasks
    BY <1>3 DEF Wake, IInv, TypeOK
  <2>3. UNCHANGED <<active, idle, state, on, yields, pc, ft, idleTerm, clientVars, fault>>
    BY <1>3 DEF Wake
  <2>4. Waker \in Threads /\ kind \in {"fiber", "cb", "wake"}
    BY DEF Threads
  <2> QED
    BY <2>1, <2>2, <2>3, <2>4, Schedules
<1> QED
  BY <1>1, <1>2, <1>3

\* tickle(), and what the owner does outside run().
LEMMA Owns ==
  ASSUME IInv, NEW quiet \in BOOLEAN,
         \/ \E thr \in Threads : Tickle(thr)
         \/ Start \/ StopBegin(quiet) \/ StopTickle \/ StopRunCaller(quiet) \/ StopJoin
  PROVE  IInv'
PROOF
<1>1. ASSUME NEW thr \in Threads, Tickle(thr)
      PROVE  IInv'
  <2>1. TypeOK'
    BY <1>1 DEF Tickle, IInv, TypeOK, taskVars, clientVars
  <2> QED
    BY <1>1, <2>1, NoWorkerMoves DEF Tickle, clientVars
<1>2. CASE Start
  <2>1. /\ \A w \in Workers : pc[w] = "off" /\ pc'[w] \in {"off", "pick"}
        /\ Caller # NoThread => pc'[Caller] = "off"
        /\ pc' \in [Workers -> PCs]
    BY <1>2, SchedulerAssumption DEF Start, MainAt, Pool, IInv, Offline, TypeOK, PCs
  <2>2. /\ \A w \in Workers : pc[w] \notin Busy \cup InIdle /\ pc'[w] \notin Busy \cup InIdle
        /\ \A w \in Workers : pc[w] \notin Occupied /\ pc'[w] \notin Occupied
    BY <2>1 DEF Busy, InIdle, Occupied
  <2>3. ActiveAccounting' /\ IdleAccounting'
    <3>1. /\ {w \in Workers : pc'[w] \in Busy} = {w \in Workers : pc[w] \in Busy}
          /\ {w \in Workers : pc'[w] \in InIdle} = {w \in Workers : pc[w] \in InIdle}
      BY <2>2
    <3>2. active' = active /\ idle' = idle
      BY <1>2 DEF Start
    <3> QED
      BY <3>1, <3>2 DEF IInv, ActiveAccounting, IdleAccounting
  <2>4. TypeOK'
    BY <1>2, <2>1, <2>2 DEF Start, IInv, TypeOK, taskVars
  <2>5. Offline'
    BY <1>2, <2>1 DEF Start, Offline
  <2> QED
    BY <2>3, <2>4, <2>5 DEF IInv
<1>3. CASE StopBegin(quiet)
  <2>1. tickles' \in Nat
    <3>1. Cardinality(Pool) \in Nat
      BY SchedulerAssumption, FS_Subset, FS_CardinalityType DEF Pool
    <3>2. tickles' \in {tickles, Cardinality(Pool), Cardinality(Pool) + 1}
      BY <1>3, <3>1 DEF StopBegin
    <3>3. tickles \in Nat
      BY DEF IInv, TypeOK
    <3> QED
      BY <3>1, <3>2, <3>3
  <2>2. client = "started" /\ client' \in {"stopped", "tickling"}
    BY <1>3 DEF StopBegin, MainAt
  <2>3. /\ autoStop' = TRUE /\ stopping' = TRUE
        /\ UNCHANGED <<queue, active, idle, taskVars, pc, ft, idleTerm, owesTickle, fault>>
    BY <1>3 DEF StopBegin
  <2>4. TypeOK'
    BY <2>1, <2>2, <2>3 DEF IInv, TypeOK, taskVars
  <2> QED
    BY <2>2, <2>3, <2>4, NoWorkerMoves
<1>4. CASE StopTickle
  <2>1. tickles' \in Nat
    <3>1. tickles \in Nat /\ tickles > 0 /\ tickles' = tickles - 1
      BY <1>4 DEF StopTickle, IInv, TypeOK
    <3> QED
      BY <3>1
  <2>2. TypeOK'
    BY <1>4, <2>1 DEF StopTickle, IInv, TypeOK, taskVars, Threads
  <2> QED
    BY <1>4, <2>2, NoWorkerMoves DEF StopTickle
<1>5. CASE StopRunCaller(quiet)
  <2>1. CASE Caller # NoThread /\ ~quiet
    <3>1. /\ Caller \in Workers /\ pc[Caller] = "off"
          /\ pc' = [pc EXCEPT ![Caller] = "pick"] /\ client' = "caller"
          /\ active' = active /\ idle' = idle
      BY <1>5, <2>1, SchedulerAssumption DEF StopRunCaller, MainAt, Goto, IInv, Offline
    <3>2. "pick" \in PCs /\ pc \in [Workers -> PCs] /\ pc' \in [Workers -> PCs]
      BY <3>1 DEF PCs, IInv, TypeOK
    <3>3. /\ pc[Caller] \notin Busy /\ "pick" \notin Busy
          /\ pc[Caller] \notin InIdle /\ "pick" \notin InIdle
      BY <3>1 DEF Busy, InIdle
    <3>4. Count(Busy)' = Count(Busy) /\ Count(InIdle)' = Count(InIdle)
      BY <3>1, <3>2, <3>3, MoveOne
    <3>5. ActiveAccounting' /\ IdleAccounting'
      BY <3>1, <3>4 DEF IInv, ActiveAccounting, IdleAccounting, Count
    <3>6. TypeOK'
      BY <1>5, <3>1, <3>2 DEF StopRunCaller, IInv, TypeOK, taskVars, Occupied, Busy
    <3> QED
      BY <3>1, <3>5, <3>6 DEF IInv, Offline
  <2>2. CASE ~(Caller # NoThread /\ ~quiet)
    <3>1. TypeOK'
      BY <1>5, <2>2 DEF StopRunCaller, IInv, TypeOK, taskVars
    <3> QED
      BY <1>5, <2>2, <3>1, NoWorkerMoves DEF StopRunCaller
  <2> QED
    BY <2>1, <2>2
<1>6. CASE StopJoin
  <2>1. TypeOK'
    BY <1>6 DEF StopJoin, IInv, TypeOK, taskVars
  <2> QED
    BY <1>6, <2>1, NoWorkerMoves DEF StopJoin
<1> QED
  BY <1>1, <1>2, <1>3, <1>4, <1>5, <1>6

-----------------------------------------------------------------------------
(* The theorems.                                                            *)

\* Before start() every thread is off and both counters are zero.
LEMMA Initially ==
  ASSUME Init
  PROVE  IInv
PROOF
<1>1. /\ {w \in Workers : pc[w] \in Busy} = {}
      /\ {w \in Workers : pc[w] \in InIdle} = {}
      /\ \A w \in Workers : pc[w] = "off" /\ pc[w] \notin Occupied
  BY DEF Init, Busy, InIdle, Occupied
<1>2. ActiveAccounting /\ IdleAccounting
  BY <1>1, FS_EmptySet DEF Init, ActiveAccounting, IdleAccounting
<1>3. TypeOK
  <2>1. queue \in Seq(Entry)
    BY EmptySeq DEF Init
  <2>2. yields \in [Tasks -> Nat]
    BY SchedulerAssumption DEF Init
  <2>3. state \in [Tasks -> States] /\ pc \in [Workers -> PCs]
    BY DEF Init, States, PCs
  <2>4. \A w \in Workers : ft[w] # NoEntry <=> pc[w] \in Occupied
    BY <1>1 DEF Init
  <2> QED
    BY <2>1, <2>2, <2>3, <2>4 DEF Init, TypeOK, Faults
<1>4. Offline
  BY <1>1, SchedulerAssumption DEF Offline
<1> QED
  BY <1>2, <1>3, <1>4 DEF IInv

\* Every step of a worker keeps the invariant.
LEMMA RunKeeps ==
  ASSUME IInv, NEW w \in Workers, Run(w) \/ Park(w) \/ Idle(w)
  PROVE  IInv'
BY Picks, Executes, Bodies, Returns, Idles, Adds DEF Run

\* Every step of the system keeps the invariant.
LEMMA NextKeeps ==
  ASSUME IInv, [Next]_vars
  PROVE  IInv'
PROOF
<1>1. CASE UNCHANGED vars
  BY <1>1 DEF vars, taskVars, clientVars, IInv, TypeOK, ActiveAccounting, IdleAccounting,
              Offline, Holding
<1>2. CASE Over
  BY <1>1, <1>2 DEF Over
<1>3. ASSUME NEW w \in Workers, Run(w) \/ Park(w) \/ Idle(w)
      PROVE  IInv'
  BY <1>3, RunKeeps
<1>4. CASE (\E t \in Tasks : Wake(t)) \/ Submit
  BY <1>4, Adds
<1>5. CASE (\E thr \in Threads : Tickle(thr)) \/ Start \/ StopTickle \/ StopJoin
  BY <1>5, Owns
<1>6. CASE StopBegin(queue = <<>> /\ active = 0) \/ StopRunCaller(Drained)
  BY <1>6, Owns DEF Drained
<1> QED
  BY <1>1, <1>2, <1>3, <1>4, <1>5, <1>6 DEF Next

\* The inductive invariant holds in every reachable state of the scheduler.
THEOREM Invariance == Spec => []IInv
PROOF
<1>1. Init => IInv
  BY Initially
<1>2. IInv /\ [Next]_vars => IInv'
  BY NextKeeps
<1> QED
  BY <1>1, <1>2, PTL DEF Spec

\* In every reachable state, for any number of threads and tasks, every variable
\* has its type and a thread holds a queue entry exactly while the loop of
\* Scheduler::run() is executing it.
THEOREM TypeCorrect == Spec => []TypeOK
PROOF
<1>1. IInv => TypeOK
  BY DEF IInv
<1> QED
  BY <1>1, Invariance, PTL

\* active_thread_count_ is exactly the number of threads between the pick and
\* the decrement: the four places of run() that change it are balanced on every
\* path, so stopping() never reads a count that is negative or left behind.
THEOREM ActiveIsExact == Spec => []ActiveAccounting
PROOF
<1>1. IInv => ActiveAccounting
  BY DEF IInv
<1> QED
  BY <1>1, Invariance, PTL

\* idle_thread_count_ is exactly the number of threads inside their idle fiber.
THEOREM IdleIsExact == Spec => []IdleAccounting
PROOF
<1>1. IInv => IdleAccounting
  BY DEF IInv
<1> QED
  BY <1>1, Invariance, PTL

=============================================================================
