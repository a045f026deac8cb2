------------------------- MODULE TimerManagerProofs -------------------------
(***************************************************************************)
(* The order of timers_, the fate of callbacks, and that no idle thread    *)
(* oversleeps the first timer, for any timers, users, threads and delays.  *)
(***************************************************************************)
EXTENDS TimerManager, FiniteSetTheorems, WellFoundedInduction, TLAPS

\* A timer under construction is nobody else's, and not yet known.
Making ==
  /\ \A u \in Users :
       IF upc[u] = "insert" THEN making[u] \in hasCb \ known ELSE making[u] = NoTimer
  /\ \A u, v \in Users : making[u] = making[v] /\ making[u] # NoTimer => u = v

\* What OneOutcome counts, case by case.
Outcome ==
  /\ \A t \in Timers \ known : taken[t] = 0
  /\ \A t \in known \ Recurring :
       \/ t \in hasCb /\ t \notin cancelled /\ taken[t] = 0
       \/ t \notin hasCb /\ t \in cancelled /\ taken[t] = 0
       \/ t \notin hasCb /\ t \notin cancelled /\ taken[t] = 1

\* Timers are due ms after a time that is over.
Based ==
  /\ \A t \in Timers : ms[t] <= expiration[t] /\ expiration[t] - ms[t] <= now
  /\ \A i \in IdleThreads : clock[i] <= now

\* When all threads sleep, tickled_ stands for a notification under way; without
\* it, one of them sleeps no longer than the timers there are allow.
AllWait == \A i \in IdleThreads : pc[i] = "wait"
InTime(d) == \/ d <= now
             \/ d <= now + MaxTimeout /\ \A k \in keys : d <= k[1]
Signalled == AllWait /\ tickled => pipe \/ \E u \in Users : upc[u] = "tickle"
Sleeping  == AllWait /\ ~tickled => \E i \in IdleThreads : InTime(deadline[i])

IInv ==
  /\ TypeOK /\ SetIsOrdered /\ Making /\ Outcome /\ Based /\ Signalled /\ Sleeping

-----------------------------------------------------------------------------
LEMMA Constants ==
  /\ Timers \subseteq Nat /\ NoTimer \notin Timers /\ Recurring \subseteq Timers
  /\ Delays \subseteq Nat /\ MaxTimeout \in Nat /\ MaxTime \in Nat /\ IdleThreads # {}
  BY TimerManagerAssumption DEF NoTimer

\* Of a set of keys one comes before all others.
LEMMA FirstIsLeast ==
  ASSUME NEW S, S \subseteq Nat \X Timers, S # {}
  PROVE  First(S) \in S /\ \A k \in S \ {First(S)} : Before(First(S), k)
  <1> DEFINE Less == OpToRel(<, Nat)
             Times == {k[1] : k \in S}
  <1>1. \A x, y \in Nat : <<x, y>> \in Less <=> x < y
    BY DEF OpToRel
  <1>2. PICK e \in Times : \A x \in Times : ~(<<x, e>> \in Less)
    <2>1. Times \subseteq Nat /\ Times # {}
      OBVIOUS
    <2> HIDE DEF Less, Times
    <2> QED
      BY <2>1, NatLessThanWellFounded, WFMin DEF Less
  <1> DEFINE Firsts == {k[2] : k \in {j \in S : j[1] = e}}
  <1>3. PICK t \in Firsts : \A x \in Firsts : ~(<<x, t>> \in Less)
    <2>1. Firsts \subseteq Nat /\ Firsts # {}
      BY Constants
    <2> HIDE DEF Less, Firsts
    <2> QED
      BY <2>1, NatLessThanWellFounded, WFMin DEF Less
  <1>4. PICK k \in S : k[1] = e /\ k[2] = t
    OBVIOUS
  <1> HIDE DEF Less
  <1>5. ASSUME NEW j \in S, j # k PROVE Before(k, j)
    <2>1. j[1] \in Nat /\ j[2] \in Nat /\ k[1] \in Nat /\ k[2] \in Nat /\ j[1] \in Times
      BY Constants
    <2>2. ~(j[1] < k[1])
      BY <1>1, <1>2, <1>4, <2>1
    <2>3. j[1] = k[1] => ~(j[2] < k[2])
      <3>1. j[1] = k[1] => j[2] \in Firsts
        BY <1>4
      <3> QED
        BY <1>1, <1>3, <1>4, <2>1, <3>1
    <2>4. j[1] # k[1] \/ j[2] # k[2]
      BY <1>5
    <2> QED
      BY <2>1, <2>2, <2>3, <2>4 DEF Before
  <1> QED
    BY <1>5 DEF First

\* timers_ as SetIsOrdered has it.
LEMMA KeysFacts ==
  ASSUME IInv
  PROVE  /\ keys \subseteq Nat \X Timers
         /\ \A t \in Timers : KeyOf(t) \in keys <=> t \in known \cap hasCb
         /\ \A k \in keys : k[2] \in known \cap hasCb /\ k = KeyOf(k[2]) /\ k[1] = expiration[k[2]]
  BY DEF IInv, TypeOK, SetIsOrdered, KeyOf

LEMMA Numbers ==
  ASSUME TypeOK
  PROVE  /\ now \in Nat
         /\ \A t \in Timers : ms[t] \in Nat /\ expiration[t] \in Nat
         /\ \A i \in IdleThreads : clock[i] \in Nat /\ deadline[i] \in Nat
  <1>1. Delays \cup {0} \subseteq Nat /\ 0..MaxTime \subseteq Nat
    BY Constants
  <1>2. now \in Nat
    BY <1>1 DEF TypeOK
  <1>3. ASSUME NEW t \in Timers PROVE ms[t] \in Nat /\ expiration[t] \in Nat
    BY <1>1 DEF TypeOK
  <1>4. ASSUME NEW i \in IdleThreads PROVE clock[i] \in Nat /\ deadline[i] \in Nat
    BY <1>1 DEF TypeOK
  <1> QED
    BY <1>2, <1>3, <1>4

LEMMA InitHolds == Init => IInv
  <1> SUFFICES ASSUME Init PROVE IInv
    OBVIOUS
  <1>1. TypeOK
    <2>1. now \in 0..MaxTime /\ \A i \in IdleThreads : 0 \in 0..MaxTime
      BY Constants DEF Init
    <2>2. ms \in [Timers -> Delays \cup {0}] /\ expiration \in [Timers -> Nat]
          /\ taken \in [Timers -> 0..2]
      BY DEF Init
    <2>3. /\ clock \in [IdleThreads -> 0..MaxTime] /\ deadline \in [IdleThreads -> Nat]
          /\ reported \in [IdleThreads -> BOOLEAN]
          /\ pc \in [IdleThreads -> {"out", "next", "wait", "clock", "list", "drain"}]
      BY <2>1, Constants DEF Init
    <2>4. /\ upc \in [Users -> {"free", "insert", "tickle"}]
          /\ making \in [Users -> Timers \cup {NoTimer}]
      BY DEF Init
    <2> QED
      BY <2>1, <2>2, <2>3, <2>4 DEF Init, TypeOK
  <1>2. SetIsOrdered /\ Making /\ Outcome /\ Based
    BY Constants DEF Init, SetIsOrdered, Making, Outcome, Based
  <1>3. ~AllWait
    BY Constants DEF Init, AllWait
  <1> QED
    BY <1>1, <1>2, <1>3 DEF IInv, Signalled, Sleeping

-----------------------------------------------------------------------------
(* Users.                                                                   *)

LEMMA NewTimerStep ==
  ASSUME IInv, NEW u \in Users, NewTimer(u)
  PROVE  IInv'
  <1> USE Constants DEF IInv
  <1>1. PICK t \in Timers \ (known \cup {making[v] : v \in Users}), d \in Delays :
          /\ making' = [making EXCEPT ![u] = t]
          /\ ms' = [ms EXCEPT ![t] = d]
          /\ expiration' = [expiration EXCEPT ![t] = now + d]
          /\ hasCb' = hasCb \cup {t}
    BY DEF NewTimer
  <1>2. /\ upc[u] = "free" /\ upc' = [upc EXCEPT ![u] = "insert"]
        /\ UNCHANGED <<now, keys, known, cancelled, taken, tickled, pipe, idleVars>>
    BY DEF NewTimer
  <1>3. TypeOK'
    BY <1>1, <1>2 DEF TypeOK, idleVars
  <1>4. SetIsOrdered'
    <2>1. \A s \in known : KeyOf(s)' = KeyOf(s) /\ (s \in hasCb' <=> s \in hasCb)
      BY <1>1, <1>2 DEF TypeOK, KeyOf
    <2> QED
      BY <1>2, <2>1 DEF SetIsOrdered
  <1>5. Making'
    BY <1>1, <1>2 DEF Making, TypeOK
  <1>6. Outcome'
    BY <1>1, <1>2 DEF Outcome, TypeOK
  <1>7. Based'
    <2>1. d \in Nat /\ now' = now /\ clock' = clock
      BY <1>2, Constants DEF idleVars
    <2>2. ASSUME NEW s \in Timers PROVE ms'[s] <= expiration'[s] /\ expiration'[s] - ms'[s] <= now
      <3>1. ms'[s] = (IF s = t THEN d ELSE ms[s])
            /\ expiration'[s] = (IF s = t THEN now + d ELSE expiration[s])
        BY <1>1 DEF TypeOK
      <3> QED
        BY <2>1, <3>1, Numbers DEF Based
    <2> QED
      BY <2>1, <2>2 DEF Based
  <1>8. Signalled' /\ Sleeping'
    BY <1>1, <1>2 DEF Signalled, Sleeping, AllWait, InTime, TypeOK, idleVars
  <1> QED
    BY <1>3, <1>4, <1>5, <1>6, <1>7, <1>8

\* A timer that goes in, when all threads sleep, is announced or not the first.
LEMMA Adding ==
  ASSUME IInv, NEW u \in Users, NEW others, others \subseteq keys,
         NEW key \in Nat \X Timers, AddTimer(u, others, key),
         upc[u] \in {"free", "insert"}, UNCHANGED <<now, pipe, idleVars>>
  PROVE  Signalled' /\ Sleeping'
  <1> USE Constants DEF IInv
  <1>1. others \cup {key} \subseteq Nat \X Timers
    BY KeysFacts
  <1>2. /\ keys' = others \cup {key}
        /\ tickled' = (tickled \/ (First(others \cup {key}) = key /\ ~tickled))
        /\ upc' = [upc EXCEPT ![u] = IF First(others \cup {key}) = key /\ ~tickled
                                     THEN "tickle" ELSE "free"]
    BY DEF AddTimer
  <1>3. Signalled'
    <2>1. \A v \in Users : upc[v] = "tickle" => v # u /\ upc'[v] = "tickle"
      BY <1>2 DEF TypeOK
    <2>2. CASE tickled
      BY <2>1, <2>2 DEF Signalled, AllWait, idleVars
    <2>3. CASE ~tickled
      <3>1. tickled' => upc'[u] = "tickle"
        BY <1>2, <2>3 DEF TypeOK
      <3> QED
        BY <3>1 DEF Signalled
    <2> QED
      BY <2>2, <2>3
  <1>4. ASSUME AllWait', ~tickled' PROVE \E i \in IdleThreads : InTime(deadline[i])'
    <2>1. First(others \cup {key}) # key /\ ~tickled
      BY <1>2, <1>4 DEF TypeOK
    <2>2. PICK i \in IdleThreads : InTime(deadline[i])
      BY <1>4, <2>1 DEF Sleeping, AllWait, idleVars
    <2>3. PICK k \in others : Before(k, key)
      BY <1>1, <2>1, FirstIsLeast
    <2>4. k[1] \in Nat /\ key[1] \in Nat /\ k[1] <= key[1]
      BY <1>1, <2>3 DEF Before
    <2>5. deadline[i] \in Nat /\ now \in Nat
      BY DEF TypeOK
    <2>6. InTime(deadline[i])'
      <3>1. deadline' = deadline /\ now' = now
        BY DEF idleVars
      <3>2. CASE deadline[i] <= now
        BY <3>1, <3>2 DEF InTime
      <3>3. CASE deadline[i] <= now + MaxTimeout /\ \A j \in keys : deadline[i] <= j[1]
        <4>1. deadline[i] <= key[1]
          BY <2>3, <2>4, <2>5, <3>3
        <4>2. \A j \in keys' : deadline[i] <= j[1]
          BY <1>2, <3>3, <4>1
        <4> QED
          BY <3>1, <3>3, <4>2 DEF InTime
      <3> QED
        BY <2>2, <3>2, <3>3 DEF InTime
    <2> QED
      BY <2>6
  <1> QED
    BY <1>3, <1>4 DEF Sleeping

LEMMA InsertStep ==
  ASSUME IInv, NEW u \in Users, InsertTimer(u)
  PROVE  IInv'
  <1> USE Constants DEF IInv
  <1> DEFINE t == making[u]
  <1>1. /\ upc[u] = "insert" /\ AddTimer(u, keys, KeyOf(t))
        /\ known' = known \cup {t} /\ making' = [making EXCEPT ![u] = NoTimer]
        /\ UNCHANGED <<now, ms, expiration, hasCb, cancelled, taken, pipe, idleVars>>
    BY DEF InsertTimer
  <1>2. t \in Timers /\ t \in hasCb /\ t \notin known
    BY <1>1 DEF Making, TypeOK
  <1>3. KeyOf(t) = <<expiration[t], t>> /\ KeyOf(t) \in Nat \X Timers
    BY <1>2 DEF KeyOf, TypeOK
  <1>4. /\ keys' = keys \cup {KeyOf(t)} /\ tickled' \in BOOLEAN
        /\ upc' \in [Users -> {"free", "insert", "tickle"}] /\ upc'[u] # "insert"
        /\ \A v \in Users \ {u} : upc'[v] = upc[v]
    BY <1>1 DEF AddTimer, TypeOK
  <1>5. TypeOK'
    BY <1>1, <1>2, <1>3, <1>4 DEF TypeOK, idleVars
  <1>6. SetIsOrdered'
    BY <1>1, <1>2, <1>3, <1>4 DEF SetIsOrdered, KeyOf
  <1>7. Making'
    BY <1>1, <1>2, <1>4 DEF Making, TypeOK
  <1>8. Outcome'
    BY <1>1, <1>2 DEF Outcome, TypeOK
  <1>9. Based'
    BY <1>1 DEF Based, idleVars
  <1>10. Signalled' /\ Sleeping'
    BY <1>1, <1>3, Adding
  <1> QED
    BY <1>5, <1>6, <1>7, <1>8, <1>9, <1>10

LEMMA NotifyStep ==
  ASSUME IInv, NEW u \in Users, Notify(u)
  PROVE  IInv'
  <1> USE Constants DEF IInv
  <1>1. /\ upc' = [upc EXCEPT ![u] = "free"] /\ upc[u] = "tickle"
        /\ pipe' = (pipe \/ \E i \in IdleThreads : pc[i] # "out")
        /\ UNCHANGED <<now, timerVars, tickled, making, idleVars>>
    BY DEF Notify
  <1>2. UNCHANGED <<keys, ms, expiration, hasCb, known, cancelled, taken, pc, clock, deadline, reported>>
    BY <1>1 DEF timerVars, idleVars
  <1>3. TypeOK'
    BY <1>1, <1>2 DEF TypeOK
  <1>4. Making'
    BY <1>1, <1>2 DEF Making, TypeOK
  <1>5. SetIsOrdered' /\ Outcome' /\ Based'
    BY <1>1, <1>2 DEF SetIsOrdered, KeyOf, Outcome, Based
  <1>6. Signalled' /\ Sleeping'
    BY <1>1, <1>2 DEF Signalled, Sleeping, AllWait, InTime
  <1> QED
    BY <1>3, <1>4, <1>5, <1>6

LEMMA CancelStep ==
  ASSUME IInv, NEW u \in Users, NEW t \in Timers, Cancel(u, t)
  PROVE  IInv'
  <1> USE Constants DEF IInv
  <1>1. /\ t \in known /\ t \in hasCb /\ hasCb' = hasCb \ {t} /\ keys' = keys \ {KeyOf(t)}
        /\ cancelled' = cancelled \cup {t}
        /\ UNCHANGED <<now, ms, expiration, known, taken, tickled, pipe, userVars, idleVars>>
    BY KeysFacts DEF Cancel
  <1>2. UNCHANGED <<upc, making, pc, clock, deadline, reported>>
    BY <1>1 DEF userVars, idleVars
  <1>3. TypeOK'
    BY <1>1, <1>2 DEF TypeOK
  <1>4. SetIsOrdered'
    BY <1>1 DEF SetIsOrdered, KeyOf
  <1>5. Making' /\ Outcome' /\ Based'
    BY <1>1, <1>2 DEF Making, Outcome, Based, TypeOK
  <1>6. Signalled' /\ Sleeping'
    BY <1>1, <1>2 DEF Signalled, Sleeping, AllWait, InTime
  <1> QED
    BY <1>3, <1>4, <1>5, <1>6

\* A timer in timers_ that gets another time.
LEMMA Moving ==
  ASSUME IInv, NEW t \in Timers, t \in known, t \in hasCb, NEW e \in Nat,
         keys' = (keys \ {KeyOf(t)}) \cup {<<e, t>>}, expiration' = [expiration EXCEPT ![t] = e],
         UNCHANGED <<hasCb, known>>
  PROVE  SetIsOrdered' /\ \A k \in keys' : k[1] \in Nat /\ k[2] \in Timers
  <1> USE Constants DEF IInv
  <1>1. \A s \in known : KeyOf(s)' = IF s = t THEN <<e, t>> ELSE KeyOf(s)
    BY DEF KeyOf, TypeOK
  <1>2. keys' = {KeyOf(s)' : s \in known \cap hasCb}
    <2>1. t \in known \cap hasCb /\ KeyOf(t)' = <<e, t>>
      BY <1>1
    <2>2. \A k \in keys : \E s \in known \cap hasCb : k = KeyOf(s)
      BY DEF SetIsOrdered
    <2>3. ASSUME NEW k \in keys' PROVE \E s \in known \cap hasCb : k = KeyOf(s)'
      <3>1. CASE k = <<e, t>>
        BY <2>1, <3>1
      <3>2. CASE k # <<e, t>>
        <4>1. PICK s \in known \cap hasCb : k = KeyOf(s) /\ k # KeyOf(t)
          BY <2>2, <2>3, <3>2
        <4> QED
          BY <1>1, <4>1
      <3> QED
        BY <3>1, <3>2
    <2>4. ASSUME NEW s \in known \cap hasCb PROVE KeyOf(s)' \in keys'
      <3>1. CASE s = t
        BY <2>1, <3>1
      <3>2. CASE s # t
        <4>1. KeyOf(s) \in keys /\ KeyOf(s) # KeyOf(t)
          BY <3>2 DEF SetIsOrdered, KeyOf
        <4> QED
          BY <1>1, <3>2, <4>1
      <3> QED
        BY <3>1, <3>2
    <2> QED
      BY <2>3, <2>4
  <1>3. \A k \in keys' : k[1] \in Nat /\ k[2] \in Timers
    BY DEF TypeOK
  <1> QED
    BY <1>2, <1>3 DEF SetIsOrdered

LEMMA RefreshStep ==
  ASSUME IInv, NEW u \in Users, NEW t \in Timers, Refresh(u, t)
  PROVE  IInv'
  <1> USE Constants DEF IInv
  <1> DEFINE e == now + ms[t]
  <1>1. /\ t \in known /\ t \in hasCb /\ KeyOf(t) \in keys
        /\ expiration' = [expiration EXCEPT ![t] = e]
        /\ keys' = (keys \ {KeyOf(t)}) \cup {<<e, t>>}
        /\ UNCHANGED <<now, ms, hasCb, known, cancelled, taken, tickled, pipe, userVars, idleVars>>
    BY DEF Refresh
  <1>2. UNCHANGED <<upc, making, pc, clock, deadline, reported>>
    BY <1>1 DEF userVars, idleVars
  <1>3. e \in Nat /\ ms[t] <= e /\ e - ms[t] <= now /\ expiration[t] <= e
    BY Numbers DEF Based
  <1>4. SetIsOrdered' /\ \A k \in keys' : k[1] \in Nat /\ k[2] \in Timers
    BY <1>1, <1>3, Moving
  <1>5. TypeOK'
    BY <1>1, <1>2, <1>3, <1>4 DEF TypeOK
  <1>6. Making' /\ Outcome'
    BY <1>1, <1>2 DEF Making, Outcome
  <1>7. Based'
    BY <1>1, <1>2, <1>3, Numbers DEF Based, TypeOK
  <1>8. Signalled'
    BY <1>1, <1>2 DEF Signalled, AllWait
  <1>9. Sleeping'
    <2>1. ASSUME NEW i \in IdleThreads, InTime(deadline[i]) PROVE InTime(deadline[i])'
      <3>1. (\A k \in keys : deadline[i] <= k[1]) => deadline[i] <= expiration[t]
        BY <1>1 DEF KeyOf
      <3>2. deadline[i] \in Nat /\ expiration[t] \in Nat
        BY DEF TypeOK
      <3>3. (\A k \in keys : deadline[i] <= k[1]) => \A k \in keys' : deadline[i] <= k[1]
        BY <1>1, <1>3, <3>1, <3>2
      <3> QED
        BY <1>1, <1>2, <2>1, <3>3 DEF InTime
    <2> QED
      BY <1>1, <1>2, <2>1 DEF Sleeping, AllWait
  <1> QED
    BY <1>4, <1>5, <1>6, <1>7, <1>8, <1>9

LEMMA ResetStep ==
  ASSUME IInv, NEW u \in Users, NEW t \in Timers, Reset(u, t)
  PROVE  IInv'
  <1> USE Constants DEF IInv
  <1>1. PICK d \in Delays, start \in {now, expiration[t] - ms[t]} :
          /\ ms' = [ms EXCEPT ![t] = d]
          /\ expiration' = [expiration EXCEPT ![t] = start + d]
          /\ AddTimer(u, keys \ {KeyOf(t)}, <<start + d, t>>)
    BY DEF Reset
  <1>2. /\ upc[u] = "free" /\ t \in known /\ t \in hasCb
        /\ UNCHANGED <<now, hasCb, known, cancelled, taken, pipe, making, idleVars>>
    BY DEF Reset
  <1> DEFINE e == start + d
  <1>3. start \in Nat /\ start <= now /\ d \in Nat /\ e \in Nat
    <2>1. d \in Nat
      BY Constants
    <2>2. start \in Nat /\ start <= now
      BY <1>2, Numbers DEF Based
    <2> QED
      BY <2>1, <2>2
  <1>4. /\ keys' = (keys \ {KeyOf(t)}) \cup {<<e, t>>} /\ tickled' \in BOOLEAN
        /\ upc' \in [Users -> {"free", "insert", "tickle"}] /\ upc'[u] # "insert"
        /\ \A v \in Users \ {u} : upc'[v] = upc[v]
    BY <1>1 DEF AddTimer, TypeOK
  <1>5. SetIsOrdered' /\ \A k \in keys' : k[1] \in Nat /\ k[2] \in Timers
    BY <1>1, <1>2, <1>3, <1>4, Moving
  <1>6. TypeOK'
    BY <1>1, <1>2, <1>3, <1>4, <1>5 DEF TypeOK, idleVars
  <1>7. Making' /\ Outcome'
    BY <1>2, <1>4 DEF Making, Outcome, TypeOK
  <1>8. Based'
    BY <1>1, <1>2, <1>3, Numbers DEF Based, TypeOK, idleVars
  <1>9. Signalled' /\ Sleeping'
    <2>1. <<e, t>> \in Nat \X Timers /\ keys \ {KeyOf(t)} \subseteq keys
      BY <1>3
    <2> QED
      BY <1>1, <1>2, <2>1, Adding
  <1> QED
    BY <1>5, <1>6, <1>7, <1>8, <1>9

-----------------------------------------------------------------------------
(* Idle threads and the clock.                                              *)

\* A thread that is not asleep after its step: nothing is said of the sleepers.
LEMMA Awake ==
  ASSUME IInv, NEW i \in IdleThreads, pc'[i] # "wait"
  PROVE  Signalled' /\ Sleeping'
  BY DEF Signalled, Sleeping, AllWait

LEMMA IdleSteps ==
  ASSUME IInv, NEW i \in IdleThreads,
         \/ GoIdle(i) \/ EpollWait(i) \/ OtherEvent(i) \/ ReadClock(i) \/ LeaveIdle(i)
  PROVE  IInv'
  <1> USE Constants DEF IInv
  <1>1. /\ pc'[i] # "wait"
        /\ pc' \in [IdleThreads -> {"out", "next", "wait", "clock", "list", "drain"}]
        /\ deadline' \in [IdleThreads -> Nat] /\ reported' \in [IdleThreads -> BOOLEAN]
        /\ pipe' \in BOOLEAN
    <2>1. CASE GoIdle(i)
      BY <2>1 DEF GoIdle, TypeOK
    <2>2. CASE Wakes(i)
      BY <2>2 DEF Wakes, TypeOK
    <2>3. CASE ReadClock(i)
      BY <2>3 DEF ReadClock, TypeOK
    <2>4. CASE LeaveIdle(i)
      <3>1. pipe' = TRUE \/ pipe' = FALSE
        BY <2>4 DEF LeaveIdle
      <3> QED
        BY <2>4, <3>1 DEF LeaveIdle, TypeOK
    <2> QED
      BY <2>1, <2>2, <2>3, <2>4 DEF EpollWait, OtherEvent
  <1>2. clock' \in [IdleThreads -> 0..MaxTime] /\ \A j \in IdleThreads : clock'[j] <= now
    BY DEF GoIdle, EpollWait, OtherEvent, Wakes, ReadClock, LeaveIdle, TypeOK, Based
  <1>3. UNCHANGED <<now, keys, ms, expiration, hasCb, known, cancelled, taken, tickled, upc, making>>
    BY DEF GoIdle, EpollWait, OtherEvent, Wakes, ReadClock, LeaveIdle, timerVars, userVars
  <1>4. TypeOK'
    BY <1>1, <1>2, <1>3 DEF TypeOK
  <1>5. SetIsOrdered' /\ Making' /\ Outcome' /\ Based'
    BY <1>2, <1>3 DEF SetIsOrdered, KeyOf, Making, Outcome, Based
  <1> QED
    BY <1>1, <1>4, <1>5, Awake

LEMMA GetNextStep ==
  ASSUME IInv, NEW i \in IdleThreads, GetNextTimer(i)
  PROVE  IInv'
  <1> USE Constants DEF IInv
  <1>1. /\ ~tickled' /\ deadline' = [deadline EXCEPT ![i] = now + NextTimeout]
        /\ pc' = [pc EXCEPT ![i] = "wait"] /\ tickled' = FALSE
        /\ UNCHANGED <<now, keys, ms, expiration, hasCb, known, cancelled, taken, pipe,
                       upc, making, clock, reported>>
    BY DEF GetNextTimer, timerVars, userVars
  <1>2. now \in Nat
    BY DEF TypeOK
  <1>3. NextTimeout \in Nat /\ InTime(now + NextTimeout)
    <2>1. CASE keys = {}
      BY <1>2, <2>1 DEF NextTimeout, InTime
    <2>2. CASE keys # {}
      <3> DEFINE e == First(keys)[1]
      <3>1. First(keys) \in keys /\ \A k \in keys \ {First(keys)} : Before(First(keys), k)
        BY <2>2, KeysFacts, FirstIsLeast
      <3>2. e \in Nat /\ \A k \in keys : k[1] \in Nat /\ e <= k[1]
        BY <3>1 DEF Before, TypeOK
      <3>3. CASE now >= e
        BY <1>2, <2>2, <3>3 DEF NextTimeout, InTime
      <3>4. CASE now < e
        <4>1. NextTimeout = SmallerOf(e - now, MaxTimeout)
          BY <1>2, <2>2, <3>2, <3>4 DEF NextTimeout
        <4>2. NextTimeout \in Nat /\ now + NextTimeout <= now + MaxTimeout /\ now + NextTimeout <= e
          BY <1>2, <3>2, <3>4, <4>1 DEF SmallerOf
        <4>3. \A k \in keys : now + NextTimeout <= k[1]
          BY <1>2, <3>2, <4>2
        <4> QED
          BY <4>2, <4>3 DEF InTime
      <3> QED
        BY <1>2, <3>2, <3>3, <3>4
    <2> QED
      BY <2>1, <2>2
  <1>4. TypeOK'
    <2>1. now + NextTimeout \in Nat
      BY <1>2, <1>3
    <2>2. deadline' \in [IdleThreads -> Nat]
      BY <1>1, <2>1 DEF TypeOK
    <2>3. pc' \in [IdleThreads -> {"out", "next", "wait", "clock", "list", "drain"}]
      BY <1>1 DEF TypeOK
    <2> QED
      BY <1>1, <2>2, <2>3 DEF TypeOK
  <1>5. SetIsOrdered' /\ Making' /\ Outcome' /\ Based' /\ Signalled'
    BY <1>1 DEF SetIsOrdered, KeyOf, Making, Outcome, Based, Signalled
  <1>6. Sleeping'
    <2>1. InTime(deadline[i])'
      BY <1>1, <1>3 DEF InTime, TypeOK
    <2> QED
      BY <2>1 DEF Sleeping
  <1> QED
    BY <1>4, <1>5, <1>6

LEMMA ListStep ==
  ASSUME IInv, NEW i \in IdleThreads, ListExpired(i)
  PROVE  IInv'
  <1> USE Constants DEF IInv
  <1> DEFINE expired == Expired(i)
             again   == expired \cap Recurring
  <1>1. /\ expiration' = [t \in Timers |->
                            IF t \in again THEN clock[i] + ms[t] ELSE expiration[t]]
        /\ keys' = {k \in keys : k[2] \notin expired} \cup {<<clock[i] + ms[t], t>> : t \in again}
        /\ hasCb' = hasCb \ (expired \ Recurring)
        /\ taken' = [t \in Timers |->
                       IF t \in expired THEN SmallerOf(taken[t] + 1, 2) ELSE taken[t]]
        /\ pc' = [pc EXCEPT ![i] = "drain"] /\ clock' = [clock EXCEPT ![i] = 0]
        /\ UNCHANGED <<now, ms, known, cancelled, tickled, pipe, upc, making, deadline, reported>>
    BY DEF ListExpired, userVars
  <1>2. expired \subseteq known \cap hasCb /\ expired \subseteq Timers
    BY KeysFacts DEF Expired
  <1>3. clock[i] \in Nat /\ clock[i] <= now /\ now \in Nat /\ clock'[i] = 0
    BY <1>1 DEF TypeOK, Based
  <1> HIDE DEF expired
  <1>4. TypeOK'
    <2>1. taken' \in [Timers -> 0..2]
      BY <1>1 DEF TypeOK, SmallerOf
    <2>2. expiration' \in [Timers -> Nat]
      <3>1. ASSUME NEW t \in Timers PROVE clock[i] + ms[t] \in Nat /\ expiration[t] \in Nat
        <4>1. ms[t] \in Nat /\ expiration[t] \in Nat
          BY Numbers
        <4> QED
          BY <1>3, <4>1
      <3> QED
        BY <1>1, <3>1
    <2>3. \A k \in keys' : k[1] \in Nat /\ k[2] \in Timers
      <3>1. ASSUME NEW t \in again PROVE clock[i] + ms[t] \in Nat /\ t \in Timers
        <4>1. t \in Timers
          BY <1>2
        <4>2. ms[t] \in Nat
          BY <4>1, Numbers
        <4> QED
          BY <1>3, <4>1, <4>2
      <3> QED
        BY <1>1, <3>1 DEF TypeOK
    <2>4. clock' \in [IdleThreads -> 0..MaxTime]
      BY <1>1 DEF TypeOK
    <2>5. pc' \in [IdleThreads -> {"out", "next", "wait", "clock", "list", "drain"}]
      BY <1>1 DEF TypeOK
    <2> QED
      BY <1>1, <2>1, <2>2, <2>3, <2>4, <2>5 DEF TypeOK
  <1>5. SetIsOrdered'
    <2>1. \A k : k \in keys' <=> \E t \in known \cap hasCb' : k = KeyOf(t)'
      <3>1. \A t \in Timers : KeyOf(t)' = IF t \in again THEN <<clock[i] + ms[t], t>> ELSE KeyOf(t)
        BY <1>1 DEF KeyOf
      <3>2. \A t \in known : KeyOf(t)[2] = t
        BY DEF KeyOf
      <3>3. \A k : k \in keys <=> \E t \in known \cap hasCb : k = KeyOf(t)
        BY DEF SetIsOrdered
      <3>4. ASSUME NEW k, k \in keys' PROVE \E t \in known \cap hasCb' : k = KeyOf(t)'
        <4>1. CASE k \in keys /\ k[2] \notin expired
          <5>1. PICK t \in known \cap hasCb : k = KeyOf(t)
            BY <3>3, <4>1
          <5>2. t \notin expired /\ t \in hasCb' /\ t \in Timers
            BY <1>1, <3>2, <4>1, <5>1 DEF TypeOK
          <5> QED
            BY <3>1, <5>1, <5>2
        <4>2. CASE \E t \in again : k = <<clock[i] + ms[t], t>>
          <5>1. PICK t \in again : k = <<clock[i] + ms[t], t>>
            BY <4>2
          <5> QED
            BY <1>1, <1>2, <3>1, <5>1
        <4> QED
          BY <1>1, <3>4, <4>1, <4>2
      <3>5. ASSUME NEW t \in known \cap hasCb' PROVE KeyOf(t)' \in keys'
        <4>1. t \in Timers /\ t \in hasCb
          BY <1>1, <3>5 DEF TypeOK
        <4>2. CASE t \in again
          BY <1>1, <3>1, <4>1, <4>2
        <4>3. CASE t \notin again
          <5>1. t \notin expired
            BY <1>1, <4>3
          <5>2. KeyOf(t) \in keys /\ KeyOf(t)[2] \notin expired
            BY <3>2, <3>3, <4>1, <5>1
          <5> QED
            BY <1>1, <3>1, <4>1, <4>3, <5>2
        <4> QED
          BY <4>2, <4>3
      <3> QED
        BY <3>4, <3>5
    <2>2. keys' = {KeyOf(t)' : t \in known \cap hasCb'}
      BY <2>1
    <2> QED
      BY <1>1, <2>2 DEF SetIsOrdered
  <1>6. Making'
    <2>1. \A u \in Users : upc[u] = "insert" => making[u] \in hasCb'
      BY <1>1, <1>2 DEF Making
    <2> QED
      BY <1>1, <2>1 DEF Making
  <1>7. Outcome'
    <2>1. \A t \in Timers \ known : t \notin expired
      BY <1>2
    <2>2. \A t \in known \ Recurring : t \in expired => t \notin hasCb' /\ taken[t] = 0 /\ t \notin cancelled /\ taken'[t] = 1
      <3>1. SmallerOf(0 + 1, 2) = 1
        BY DEF SmallerOf
      <3> QED
        BY <1>1, <1>2, <3>1 DEF Outcome, TypeOK
    <2>3. \A t \in known \ expired : taken'[t] = taken[t] /\ (t \in hasCb' <=> t \in hasCb)
      BY <1>1 DEF TypeOK
    <2> QED
      BY <1>1, <2>1, <2>2, <2>3 DEF Outcome, TypeOK
  <1>8. Based'
    <2>1. ASSUME NEW t \in Timers PROVE ms[t] <= expiration'[t] /\ expiration'[t] - ms[t] <= now
      BY <1>1, <1>3, Numbers DEF Based
    <2>2. ASSUME NEW j \in IdleThreads PROVE clock'[j] <= now
      BY <1>1, <1>3 DEF Based, TypeOK
    <2> QED
      BY <1>1, <2>1, <2>2 DEF Based
  <1>9. pc'[i] # "wait"
    BY <1>1 DEF TypeOK
  <1> QED
    BY <1>4, <1>5, <1>6, <1>7, <1>8, <1>9, Awake

LEMMA TickStep ==
  ASSUME IInv, Tick
  PROVE  IInv'
  <1> USE Constants DEF IInv
  <1>1. /\ now \in Nat /\ now' = now + 1 /\ now < MaxTime
        /\ UNCHANGED <<keys, ms, expiration, hasCb, known, cancelled, taken, tickled, pipe,
                       upc, making, pc, clock, deadline, reported>>
    BY DEF Tick, TypeOK, timerVars, userVars, idleVars
  <1>2. TypeOK'
    BY <1>1 DEF TypeOK
  <1>3. SetIsOrdered' /\ Making' /\ Outcome' /\ Signalled'
    BY <1>1 DEF SetIsOrdered, KeyOf, Making, Outcome, Signalled, AllWait
  <1>4. Based'
    BY <1>1, Numbers DEF Based
  <1>5. Sleeping'
    <2>1. ASSUME NEW i \in IdleThreads, InTime(deadline[i]) PROVE InTime(deadline[i])'
      <3>1. deadline[i] \in Nat
        BY DEF TypeOK
      <3> QED
        BY <1>1, <2>1, <3>1 DEF InTime
    <2> QED
      BY <1>1, <2>1 DEF Sleeping, AllWait
  <1> QED
    BY <1>2, <1>3, <1>4, <1>5

-----------------------------------------------------------------------------
LEMMA StepKeeps == IInv /\ [Next]_vars => IInv'
  <1> SUFFICES ASSUME IInv, [Next]_vars PROVE IInv'
    OBVIOUS
  <1>1. CASE UNCHANGED vars
    <2>1. UNCHANGED <<now, keys, ms, expiration, hasCb, known, cancelled, taken, tickled, pipe,
                      upc, making, pc, clock, deadline, reported>>
      BY <1>1 DEF vars, timerVars, userVars, idleVars
    <2>2. TypeOK' /\ SetIsOrdered' /\ Making' /\ Outcome'
      BY <2>1 DEF IInv, TypeOK, SetIsOrdered, KeyOf, Making, Outcome
    <2>3. Based' /\ Signalled' /\ Sleeping'
      BY <2>1 DEF IInv, Based, Signalled, Sleeping, AllWait, InTime
    <2> QED
      BY <2>2, <2>3 DEF IInv
  <1>2. ASSUME NEW i \in IdleThreads, IdleStep(i) \/ OtherEvent(i) PROVE IInv'
    BY <1>2, IdleSteps, GetNextStep, ListStep DEF IdleStep
  <1> QED
    BY <1>1, <1>2, NewTimerStep, InsertStep, NotifyStep, CancelStep, RefreshStep, ResetStep,
       TickStep DEF Next

LEMMA Inductive == Spec => []IInv
  BY InitHolds, StepKeeps, PTL DEF Spec

\* Every variable has a value of its C++ type: no timeout is negative, and only
\* timers that were added are cancelled (timer.cc:101-129, iomanager.cc:378-391).
THEOREM TypeCorrect == Spec => []TypeOK
  BY Inductive, PTL DEF IInv

\* timers_ is in order and complete after every cancel(), refresh(), reset() and
\* listExpiredCb() of any threads (timer.cc:25-98, 187-231).
THEOREM AlwaysOrdered == Spec => []SetIsOrdered
  BY Inductive, PTL DEF IInv

\* A callback is handed out once or cancelled, never both (timer.cc:25-37, 215-231).
THEOREM OneFate == Spec => []OneOutcome
  <1>1. ASSUME IInv PROVE OneOutcome
    <2> SUFFICES ASSUME NEW t \in known \ Recurring
                 PROVE  taken[t] + Cardinality({t} \cap cancelled) + Cardinality({t} \cap hasCb) = 1
      BY DEF OneOutcome
    <2>1. \A S : Cardinality({t} \cap S) = IF t \in S THEN 1 ELSE 0
      <3> SUFFICES ASSUME NEW S PROVE Cardinality({t} \cap S) = IF t \in S THEN 1 ELSE 0
        OBVIOUS
      <3>1. CASE t \in S
        <4>1. {t} \cap S = {t}
          BY <3>1
        <4> QED
          BY <3>1, <4>1, FS_Singleton
      <3>2. CASE t \notin S
        <4>1. {t} \cap S = {}
          BY <3>2
        <4> QED
          BY <3>2, <4>1, FS_EmptySet
      <3> QED
        BY <3>1, <3>2
    <2> QED
      BY <1>1, <2>1 DEF IInv, Outcome
  <1> QED
    BY <1>1, Inductive, PTL

\* No first timer is overslept, although notifications are suppressed while
\* tickled_ is set (timer.cc:113, 167-184, iomanager.cc:381-390).
THEOREM NobodyOversleeps == Spec => []SleepsInTime
  <1>1. ASSUME IInv PROVE SleepsInTime
    <2> SUFFICES ASSUME keys # {}, ~pipe, AllWait, \A u \in Users : upc[u] # "tickle"
                 PROVE  \E i \in IdleThreads :
                          \/ deadline[i] <= now
                          \/ deadline[i] <= SmallerOf(First(keys)[1], now + MaxTimeout)
      BY DEF SleepsInTime, AllWait
    <2>1. PICK i \in IdleThreads : InTime(deadline[i])
      BY <1>1 DEF IInv, Signalled, Sleeping, TypeOK
    <2>2. First(keys) \in keys
      BY <1>1, KeysFacts, FirstIsLeast
    <2> QED
      BY <2>1, <2>2 DEF InTime, SmallerOf
  <1> QED
    BY <1>1, Inductive, PTL

=============================================================================
