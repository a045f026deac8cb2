--------------------------- MODULE FdEventsProofs ---------------------------
(***************************************************************************)
(* What epoll watches and what becomes of waiters, for any fds, threads    *)
(* and programs, with and without hangups and assertions.  What fails an   *)
(* assertion keeps these properties, too.  That the count is exact and no  *)
(* assertion fails is shown for programs whose reports cannot get stale by *)
(* half.                                                                   *)
(***************************************************************************)
EXTENDS FdEvents, FiniteSetTheorems, SequenceTheorems, TLAPS

Steps == {Trigger(e) : e \in AllEvents} \cup {Count(e) : e \in AllEvents}
\* Whether an operation that has s still to do is going to trigger event e, and to
\* count it down.
Triggers(s, e) == Contains(s, Trigger(e))
Counts(s, e)   == Contains(s, Count(e))
Distinct(s)    == \A j, k \in 1..Len(s) : s[j] = s[k] => j = k

Types ==
  /\ use \in Uses
  /\ reg \in [Fds -> SUBSET AllEvents] /\ interest \in [Fds -> SUBSET AllEvents]
  /\ waiter \in [Fds -> [AllEvents -> Waiters \cup {NoWaiter}]]
  /\ todo \in [Fds -> Seq(Steps)]
  /\ got \in [IdleThreads -> [Fds -> SUBSET Bits]]
  /\ fate \in Seq({"waiting", "scheduled", "deleted"}) /\ Len(fate) <= MaxAdds

\* What is registered and no longer watched is about to be triggered.
Watching ==
  \A fd \in Fds, e \in AllEvents :
    e \in interest[fd] <=> e \in reg[fd] /\ ~Triggers(todo[fd], e)

\* Each context has a waiter of its own, whose fate is open, and no other is.
Waiting ==
  /\ \A fd \in Fds, e \in AllEvents :
       waiter[fd][e] # NoWaiter =>
         e \in reg[fd] /\ waiter[fd][e] \in 1..Len(fate) /\ fate[waiter[fd][e]] = "waiting"
  /\ \A fd, gd \in Fds, e, d \in AllEvents :
       waiter[fd][e] = waiter[gd][d] /\ waiter[fd][e] # NoWaiter => fd = gd /\ e = d
  /\ \A n \in 1..Len(fate) :
       fate[n] = "waiting" => \E fd \in Fds, e \in AllEvents : waiter[fd][e] = n

IInv == Types /\ Watching /\ Waiting

\* A fate, once decided, stands.
Final == \A n \in DOMAIN fate : fate[n] # "waiting" => fate'[n] = fate[n]

-----------------------------------------------------------------------------
(* What an operation still has to do.                                       *)

LEMMA StepFields ==
  /\ \A e : Trigger(e).op = "trigger" /\ Trigger(e).event = e
  /\ \A e : Count(e).op = "count" /\ Count(e).event = e
  BY DEF Trigger, Count

LEMMA StepsDiffer ==
  /\ \A e, d : Trigger(e) # Count(d)
  /\ \A e, d : (Trigger(e) = Trigger(d) <=> e = d) /\ (Count(e) = Count(d) <=> e = d)
  BY StepFields

LEMMA StepsOf ==
  ASSUME NEW e \in AllEvents
  PROVE  Trigger(e) \in Steps /\ Count(e) \in Steps
  BY DEF Steps

LEMMA NothingToDo ==
  /\ <<>> \in Seq(Steps) /\ Len(<<>>) = 0 /\ Distinct(<<>>)
  /\ \A x : ~Contains(<<>>, x)
  /\ \A e : ~Triggers(<<>>, e) /\ ~Counts(<<>>, e)
  BY DEF Triggers, Counts, Contains, Distinct

LEMMA TwoToDo ==
  ASSUME NEW a \in Steps, NEW b \in Steps, a # b
  PROVE  /\ <<a, b>> \in Seq(Steps) /\ Len(<<a, b>>) = 2 /\ Distinct(<<a, b>>)
         /\ \A x : Contains(<<a, b>>, x) <=> x = a \/ x = b
  <1> DEFINE s == <<a, b>>
  <1>1. Len(s) = 2 /\ s[1] = a /\ s[2] = b /\ s \in Seq(Steps)
    OBVIOUS
  <1> HIDE DEF s
  <1>2. Distinct(s)
    BY <1>1 DEF Distinct
  <1>3. \A x : Contains(s, x) <=> x = a \/ x = b
    BY <1>1 DEF Contains
  <1> QED
    BY <1>1, <1>2, <1>3 DEF s

LEMMA Joined ==
  ASSUME NEW s \in Seq(Steps), NEW t \in Seq(Steps)
  PROVE  /\ s \o t \in Seq(Steps) /\ Len(s \o t) = Len(s) + Len(t)
         /\ \A x : Contains(s \o t, x) <=> Contains(s, x) \/ Contains(t, x)
         /\ Distinct(s) /\ Distinct(t) /\ (\A x : ~Contains(s, x) \/ ~Contains(t, x))
              => Distinct(s \o t)
  <1> DEFINE u == s \o t
  <1>1. /\ u \in Seq(Steps) /\ Len(u) = Len(s) + Len(t) /\ Len(s) \in Nat /\ Len(t) \in Nat
        /\ \A k \in 1..Len(s) : u[k] = s[k]
        /\ \A k \in 1..Len(t) : u[k + Len(s)] = t[k]
    OBVIOUS
  <1> HIDE DEF u
  <1>2. ASSUME NEW k \in 1..Len(u)
        PROVE  \/ k \in 1..Len(s) /\ u[k] = s[k]
               \/ k - Len(s) \in 1..Len(t) /\ u[k] = t[k - Len(s)]
    <2>1. CASE k <= Len(s)
      BY <1>1, <2>1
    <2>2. CASE k > Len(s)
      <3>1. k - Len(s) \in 1..Len(t) /\ k = (k - Len(s)) + Len(s)
        BY <1>1, <2>2
      <3> QED
        BY <1>1, <3>1
    <2> QED
      BY <1>1, <2>1, <2>2
  <1>3. ASSUME NEW x PROVE Contains(u, x) <=> Contains(s, x) \/ Contains(t, x)
    <2>1. Contains(u, x) => Contains(s, x) \/ Contains(t, x)
      BY <1>2 DEF Contains
    <2>2. ASSUME Contains(s, x) PROVE Contains(u, x)
      <3>1. PICK k \in 1..Len(s) : s[k] = x
        BY <2>2 DEF Contains
      <3>2. k \in 1..Len(u) /\ u[k] = x
        BY <1>1, <3>1
      <3> QED
        BY <3>2 DEF Contains
    <2>3. ASSUME Contains(t, x) PROVE Contains(u, x)
      <3>1. PICK k \in 1..Len(t) : t[k] = x
        BY <2>3 DEF Contains
      <3>2. k + Len(s) \in 1..Len(u) /\ u[k + Len(s)] = x
        BY <1>1, <3>1
      <3> QED
        BY <3>2 DEF Contains
    <2> QED
      BY <2>1, <2>2, <2>3
  <1>4. ASSUME Distinct(s), Distinct(t), \A x : ~Contains(s, x) \/ ~Contains(t, x),
               NEW j \in 1..Len(u), NEW k \in 1..Len(u), u[j] = u[k]
        PROVE  j = k
    <2>1. CASE j \in 1..Len(s) /\ u[j] = s[j] /\ k \in 1..Len(s) /\ u[k] = s[k]
      BY <1>4, <2>1 DEF Distinct
    <2>2. CASE /\ j - Len(s) \in 1..Len(t) /\ u[j] = t[j - Len(s)]
               /\ k - Len(s) \in 1..Len(t) /\ u[k] = t[k - Len(s)]
      <3>1. j - Len(s) = k - Len(s)
        BY <1>4, <2>2 DEF Distinct
      <3> QED
        BY <1>1, <3>1
    <2>3. CASE j \in 1..Len(s) /\ u[j] = s[j] /\ k - Len(s) \in 1..Len(t) /\ u[k] = t[k - Len(s)]
      <3>1. Contains(s, u[j]) /\ Contains(t, u[j])
        BY <1>4, <2>3 DEF Contains
      <3> QED
        BY <1>4, <3>1
    <2>4. CASE k \in 1..Len(s) /\ u[k] = s[k] /\ j - Len(s) \in 1..Len(t) /\ u[j] = t[j - Len(s)]
      <3>1. Contains(s, u[j]) /\ Contains(t, u[j])
        BY <1>4, <2>4 DEF Contains
      <3> QED
        BY <1>4, <3>1
    <2> QED
      BY <1>2, <2>1, <2>2, <2>3, <2>4
  <1> QED
    BY <1>1, <1>3, <1>4 DEF u, Distinct

LEMMA TriggerLast ==
  ASSUME NEW d \in AllEvents
  PROVE  LET s == <<Count(d), Trigger(d)>> IN
         /\ s \in Seq(Steps) /\ Len(s) <= 4 /\ Distinct(s)
         /\ \A e \in AllEvents : (Triggers(s, e) <=> e = d) /\ (Counts(s, e) <=> e = d)
  BY StepsOf, StepsDiffer, TwoToDo DEF Triggers, Counts

\* triggerEvent() is called for exactly the events it should be, once, and each is
\* counted down.
LEMMA EachIsTriggered ==
  ASSUME NEW events \in SUBSET AllEvents
  PROVE  LET s == TriggerEach(events) IN
         /\ s \in Seq(Steps) /\ Len(s) <= 4 /\ Distinct(s)
         /\ \A e \in AllEvents : (Triggers(s, e) <=> e \in events) /\ (Counts(s, e) <=> e \in events)
  <1> DEFINE part(e) == IF e \in events THEN <<Trigger(e), Count(e)>> ELSE <<>>
             r == part("READ")
             w == part("WRITE")
  <1>1. ASSUME NEW e \in AllEvents
        PROVE  /\ part(e) \in Seq(Steps) /\ Len(part(e)) <= 2 /\ Distinct(part(e))
               /\ \A x : Contains(part(e), x) <=> e \in events /\ (x = Trigger(e) \/ x = Count(e))
    BY StepsOf, StepsDiffer, TwoToDo, NothingToDo
  <1>2. \A e : e \in AllEvents <=> e = "READ" \/ e = "WRITE"
    BY DEF AllEvents
  <1>3. TriggerEach(events) = r \o w
    BY DEF TriggerEach
  <1>4. /\ r \in Seq(Steps) /\ Len(r) <= 2 /\ Distinct(r)
        /\ \A x : Contains(r, x) <=>
             "READ" \in events /\ (x = Trigger("READ") \/ x = Count("READ"))
    BY <1>1, <1>2
  <1>5. /\ w \in Seq(Steps) /\ Len(w) <= 2 /\ Distinct(w)
        /\ \A x : Contains(w, x) <=>
             "WRITE" \in events /\ (x = Trigger("WRITE") \/ x = Count("WRITE"))
    BY <1>1, <1>2
  <1> HIDE DEF part, r, w
  <1>6. \A x : ~Contains(r, x) \/ ~Contains(w, x)
    BY <1>4, <1>5, StepsDiffer
  <1>7. /\ r \o w \in Seq(Steps) /\ Len(r \o w) = Len(r) + Len(w) /\ Distinct(r \o w)
        /\ \A x : Contains(r \o w, x) <=> Contains(r, x) \/ Contains(w, x)
    BY <1>4, <1>5, <1>6, Joined
  <1>8. Len(r) \in Nat /\ Len(w) \in Nat /\ Len(r \o w) <= 4
    BY <1>4, <1>5, <1>7
  <1>9. \A e \in AllEvents :
          /\ Contains(r \o w, Trigger(e)) <=> e \in events
          /\ Contains(r \o w, Count(e)) <=> e \in events
    BY <1>2, <1>4, <1>5, <1>7, StepsDiffer
  <1> QED
    BY <1>3, <1>7, <1>8, <1>9 DEF Triggers, Counts

LEMMA OneDone ==
  ASSUME NEW s \in Seq(Steps), s # <<>>
  PROVE  /\ Tail(s) \in Seq(Steps) /\ Head(s) \in Steps /\ Len(Tail(s)) = Len(s) - 1
         /\ \A e : Triggers(s, e) <=> Head(s) = Trigger(e) \/ Triggers(Tail(s), e)
         /\ \A e : Counts(s, e) <=> Head(s) = Count(e) \/ Counts(Tail(s), e)
         /\ Distinct(s) =>
              /\ Distinct(Tail(s))
              /\ \A e : Head(s) = Trigger(e) => ~Triggers(Tail(s), e)
              /\ \A e : Head(s) = Count(e) => ~Counts(Tail(s), e)
  <1>1. /\ Tail(s) \in Seq(Steps) /\ Head(s) = s[1] /\ Len(s) \in Nat /\ Len(s) >= 1
        /\ Len(Tail(s)) = Len(s) - 1 /\ Head(s) \in Steps
        /\ \A k \in 1..(Len(s) - 1) : Tail(s)[k] = s[k + 1]
    OBVIOUS
  <1> DEFINE t == Tail(s)
  <1>2. ASSUME NEW x PROVE Contains(s, x) <=> Head(s) = x \/ Contains(t, x)
    <2>1. ASSUME NEW k \in 1..Len(s), s[k] = x, k # 1 PROVE Contains(t, x)
      <3>1. k - 1 \in 1..(Len(s) - 1) /\ k = (k - 1) + 1
        BY <1>1, <2>1
      <3>2. t[k - 1] = x
        BY <1>1, <2>1, <3>1
      <3> QED
        BY <1>1, <3>1, <3>2 DEF Contains
    <2>2. ASSUME Contains(t, x) PROVE Contains(s, x)
      <3>1. PICK k \in 1..(Len(s) - 1) : t[k] = x
        BY <1>1, <2>2 DEF Contains
      <3>2. k + 1 \in 1..Len(s) /\ s[k + 1] = x
        BY <1>1, <3>1
      <3> QED
        BY <3>2 DEF Contains
    <2>3. Contains(s, x) => Head(s) = x \/ Contains(t, x)
      BY <1>1, <2>1 DEF Contains
    <2>4. Head(s) = x => Contains(s, x)
      <3>1. 1 \in 1..Len(s)
        BY <1>1
      <3> QED
        BY <1>1, <3>1 DEF Contains
    <2> QED
      BY <2>2, <2>3, <2>4
  <1>3. ASSUME Distinct(s) PROVE Distinct(t) /\ ~Contains(t, Head(s))
    <2>1. ASSUME NEW j \in 1..Len(t), NEW k \in 1..Len(t), t[j] = t[k] PROVE j = k
      <3>1. j + 1 \in 1..Len(s) /\ k + 1 \in 1..Len(s) /\ s[j + 1] = s[k + 1]
        BY <1>1, <2>1
      <3>2. j + 1 = k + 1
        BY <1>3, <3>1 DEF Distinct
      <3> QED
        BY <3>2
    <2>2. ASSUME NEW k \in 1..Len(t), t[k] = Head(s) PROVE FALSE
      <3>1. 1 \in 1..Len(s) /\ k + 1 \in 1..Len(s) /\ s[k + 1] = s[1]
        BY <1>1, <2>2
      <3>2. k + 1 = 1
        BY <1>3, <3>1 DEF Distinct
      <3> QED
        BY <3>2
    <2> QED
      BY <2>1, <2>2 DEF Distinct, Contains
  <1> QED
    BY <1>1, <1>2, <1>3 DEF Triggers, Counts

-----------------------------------------------------------------------------
(* Waiters.                                                                 *)

LEMMA InitHolds == Init => IInv
  <1> SUFFICES ASSUME Init PROVE IInv
    OBVIOUS
  <1>1. fate = <<>>
    BY DEF Init
  <1>2. Types
    BY <1>1, NothingToDo, FdEventsAssumption DEF Init, Types, NoWaiter
  <1>3. Watching
    BY NothingToDo DEF Init, Watching
  <1>4. Waiting
    BY <1>1 DEF Init, Waiting, NoWaiter
  <1> QED
    BY <1>2, <1>3, <1>4 DEF IInv

\* A context is emptied and the fate of its waiter, if it has one, decided.
LEMMA Decided ==
  ASSUME IInv, NEW fd \in Fds, NEW e \in AllEvents, NEW why \in {"scheduled", "deleted"},
         reg' = [reg EXCEPT ![fd] = reg[fd] \ {e}],
         waiter' = [waiter EXCEPT ![fd][e] = NoWaiter],
         fate' = IF waiter[fd][e] = NoWaiter THEN fate
                 ELSE [fate EXCEPT ![waiter[fd][e]] = why]
  PROVE  /\ Waiting' /\ Final
         /\ reg' \in [Fds -> SUBSET AllEvents]
         /\ waiter' \in [Fds -> [AllEvents -> Waiters \cup {NoWaiter}]]
         /\ fate' \in Seq({"waiting", "scheduled", "deleted"}) /\ Len(fate') <= MaxAdds
  <1> DEFINE w == waiter[fd][e]
  <1>1. reg' \in [Fds -> SUBSET AllEvents]
    BY DEF IInv, Types
  <1>2. /\ waiter' \in [Fds -> [AllEvents -> Waiters \cup {NoWaiter}]]
        /\ \A gd \in Fds, d \in AllEvents :
             waiter'[gd][d] = IF gd = fd /\ d = e THEN NoWaiter ELSE waiter[gd][d]
    BY DEF IInv, Types
  <1>4. w # NoWaiter => w \in 1..Len(fate) /\ fate[w] = "waiting"
    BY DEF IInv, Waiting
  <1>3. /\ fate' \in Seq({"waiting", "scheduled", "deleted"}) /\ Len(fate') = Len(fate)
        /\ \A n \in 1..Len(fate) : fate'[n] = IF n = w /\ w # NoWaiter THEN why ELSE fate[n]
    <2>1. fate \in Seq({"waiting", "scheduled", "deleted"})
      BY DEF IInv, Types
    <2>2. CASE w = NoWaiter
      BY <2>1, <2>2
    <2>3. CASE w # NoWaiter
      <3>1. why \in {"waiting", "scheduled", "deleted"} /\ w \in 1..Len(fate)
        BY <1>4, <2>3
      <3>2. fate' = [fate EXCEPT ![w] = why]
        BY <2>3
      <3>3. /\ [fate EXCEPT ![w] = why] \in Seq({"waiting", "scheduled", "deleted"})
            /\ Len([fate EXCEPT ![w] = why]) = Len(fate)
            /\ \A n \in 1..Len(fate) :
                 [fate EXCEPT ![w] = why][n] = IF n = w THEN why ELSE fate[n]
        BY <2>1, <3>1, ExceptSeq
      <3> HIDE DEF w
      <3> QED
        BY <2>3, <3>2, <3>3
    <2> QED
      BY <2>2, <2>3
  <1>5. Final
    BY <1>3, <1>4 DEF Final, IInv, Types
  <1>6. ASSUME NEW gd \in Fds, NEW d \in AllEvents, waiter'[gd][d] # NoWaiter
        PROVE  /\ d \in reg'[gd] /\ waiter'[gd][d] \in 1..Len(fate')
               /\ fate'[waiter'[gd][d]] = "waiting"
    <2>1. ~(gd = fd /\ d = e) /\ waiter'[gd][d] = waiter[gd][d]
      BY <1>2, <1>6
    <2>2. d \in reg[gd] /\ waiter[gd][d] \in 1..Len(fate) /\ fate[waiter[gd][d]] = "waiting"
      BY <1>6, <2>1 DEF IInv, Waiting
    <2>3. waiter[gd][d] # w
      BY <1>6, <2>1 DEF IInv, Waiting
    <2>4. d \in reg'[gd]
      BY <2>1, <2>2 DEF IInv, Types
    <2> QED
      BY <1>3, <2>1, <2>2, <2>3, <2>4
  <1>7. ASSUME NEW gd \in Fds, NEW hd \in Fds, NEW c \in AllEvents, NEW d \in AllEvents,
               waiter'[gd][c] = waiter'[hd][d], waiter'[gd][c] # NoWaiter
        PROVE  gd = hd /\ c = d
    <2>1. waiter'[gd][c] = waiter[gd][c] /\ waiter'[hd][d] = waiter[hd][d]
      BY <1>2, <1>7
    <2> QED
      BY <1>7, <2>1 DEF IInv, Waiting
  <1>8. ASSUME NEW n \in 1..Len(fate'), fate'[n] = "waiting"
        PROVE  \E gd \in Fds, d \in AllEvents : waiter'[gd][d] = n
    <2>1. fate[n] = "waiting" /\ (n # w \/ w = NoWaiter)
      BY <1>3, <1>8
    <2>2. PICK gd \in Fds, d \in AllEvents : waiter[gd][d] = n
      BY <1>3, <1>8, <2>1 DEF IInv, Waiting
    <2>3. n # NoWaiter
      BY <1>3, <1>8 DEF NoWaiter
    <2>4. waiter'[gd][d] = n
      BY <1>2, <2>1, <2>2, <2>3
    <2> QED
      BY <2>4
  <1>9. Waiting'
    BY <1>6, <1>7, <1>8 DEF Waiting
  <1> QED
    BY <1>1, <1>2, <1>3, <1>5, <1>9 DEF IInv, Types

\* An operation that only tells epoll to watch less and notes what it will trigger.
LEMMA Planned ==
  ASSUME IInv, NEW fd \in Fds, NEW s \in Seq(Steps), NEW events,
         \A e \in AllEvents : e \in reg[fd] => (Triggers(s, e) <=> e \in events),
         todo[fd] = <<>>, Watches(fd, reg[fd] \ events), todo' = [todo EXCEPT ![fd] = s],
         UNCHANGED <<use, reg, waiter, fate>>, got' \in [IdleThreads -> [Fds -> SUBSET Bits]]
  PROVE  IInv' /\ Final
  <1>1. interest' = [interest EXCEPT ![fd] = reg[fd] \ events]
    BY DEF Watches
  <1>2. Types'
    BY <1>1 DEF IInv, Types
  <1>3. Watching'
    <2> SUFFICES ASSUME NEW gd \in Fds, NEW e \in AllEvents
                 PROVE  e \in interest'[gd] <=> e \in reg[gd] /\ ~Triggers(todo'[gd], e)
      BY DEF Watching
    <2>1. CASE gd = fd
      <3>1. interest'[gd] = reg[fd] \ events /\ todo'[gd] = s
        BY <1>1, <2>1 DEF IInv, Types
      <3> QED
        BY <2>1, <3>1
    <2>2. CASE gd # fd
      <3>1. interest'[gd] = interest[gd] /\ todo'[gd] = todo[gd]
        BY <1>1, <2>2 DEF IInv, Types
      <3> QED
        BY <3>1 DEF IInv, Watching
    <2> QED
      BY <2>1, <2>2
  <1>4. Waiting'
    BY DEF IInv, Waiting
  <1> QED
    BY <1>2, <1>3, <1>4 DEF IInv, Final

\* The first of what is to be done is done; s is the rest.
LEMMA WatchingRest ==
  ASSUME IInv, NEW fd \in Fds, todo[fd] # <<>>, todo' = [todo EXCEPT ![fd] = Tail(@)],
         UNCHANGED interest,
         \A gd \in Fds \ {fd} : reg'[gd] = reg[gd],
         \A e \in AllEvents :
           e \in reg'[fd] <=> e \in reg[fd] /\ Head(todo[fd]) # Trigger(e)
  PROVE  Watching' /\ todo' \in [Fds -> Seq(Steps)]
  <1>1. todo[fd] \in Seq(Steps)
    BY DEF IInv, Types
  <1>2. /\ Tail(todo[fd]) \in Seq(Steps)
        /\ \A e : Triggers(todo[fd], e) <=> Head(todo[fd]) = Trigger(e) \/ Triggers(Tail(todo[fd]), e)
    BY <1>1, OneDone
  <1>3. todo' \in [Fds -> Seq(Steps)] /\ todo'[fd] = Tail(todo[fd])
        /\ \A gd \in Fds \ {fd} : todo'[gd] = todo[gd]
    BY <1>2 DEF IInv, Types
  <1>4. ASSUME NEW gd \in Fds, NEW e \in AllEvents
        PROVE  e \in interest[gd] <=> e \in reg'[gd] /\ ~Triggers(todo'[gd], e)
    <2>1. e \in interest[gd] <=> e \in reg[gd] /\ ~Triggers(todo[gd], e)
      BY DEF IInv, Watching
    <2>2. CASE gd = fd
      BY <1>2, <1>3, <2>1, <2>2
    <2>3. CASE gd # fd
      BY <1>3, <2>1, <2>3
    <2> QED
      BY <2>2, <2>3
  <1> QED
    BY <1>3, <1>4 DEF Watching

LEMMA TriggerStep ==
  ASSUME IInv, NEW fd \in Fds, TriggerEvent(fd)
  PROVE  IInv' /\ Final
  <1> DEFINE e == Head(todo[fd]).event
  <1>1. /\ todo[fd] # <<>> /\ Head(todo[fd]).op = "trigger"
        /\ reg' = [reg EXCEPT ![fd] = reg[fd] \ {e}]
        /\ waiter' = [waiter EXCEPT ![fd][e] = NoWaiter]
        /\ fate' = (IF waiter[fd][e] = NoWaiter THEN fate
                    ELSE [fate EXCEPT ![waiter[fd][e]] = "scheduled"])
        /\ todo' = [todo EXCEPT ![fd] = Tail(@)]
        /\ UNCHANGED <<use, interest, got>>
    BY DEF TriggerEvent, NextIs, Registers
  <1>2. Head(todo[fd]) \in Steps
    BY <1>1, OneDone DEF IInv, Types
  <1>3. e \in AllEvents /\ \A d \in AllEvents : Head(todo[fd]) = Trigger(d) <=> d = e
    <2>1. PICK d \in AllEvents : Head(todo[fd]) = Trigger(d)
      BY <1>1, <1>2, StepFields DEF Steps
    <2>2. e = d
      BY <2>1, StepFields
    <2> QED
      BY <2>1, <2>2, StepFields
  <1> HIDE DEF e
  <1>4. /\ Waiting' /\ Final
        /\ reg' \in [Fds -> SUBSET AllEvents]
        /\ waiter' \in [Fds -> [AllEvents -> Waiters \cup {NoWaiter}]]
        /\ fate' \in Seq({"waiting", "scheduled", "deleted"}) /\ Len(fate') <= MaxAdds
    BY <1>1, <1>3, Decided
  <1>5. /\ \A gd \in Fds \ {fd} : reg'[gd] = reg[gd]
        /\ \A d \in AllEvents : d \in reg'[fd] <=> d \in reg[fd] /\ Head(todo[fd]) # Trigger(d)
    BY <1>1, <1>3 DEF IInv, Types
  <1>6. Watching' /\ todo' \in [Fds -> Seq(Steps)]
    BY <1>1, <1>5, WatchingRest
  <1> QED
    BY <1>1, <1>4, <1>6 DEF IInv, Types

LEMMA CountStep ==
  ASSUME IInv, NEW fd \in Fds, CountDown(fd)
  PROVE  IInv' /\ Final
  <1>1. /\ todo[fd] # <<>> /\ Head(todo[fd]).op = "count"
        /\ todo' = [todo EXCEPT ![fd] = Tail(@)]
        /\ UNCHANGED <<use, reg, waiter, interest, fate, got>>
    BY DEF CountDown, NextIs, ctxVars
  <1>2. \A e \in AllEvents : Head(todo[fd]) # Trigger(e)
    BY <1>1, StepFields
  <1>3. Watching' /\ todo' \in [Fds -> Seq(Steps)]
    BY <1>1, <1>2, WatchingRest
  <1>4. Types' /\ Waiting'
    BY <1>1, <1>3 DEF IInv, Types, Waiting
  <1> QED
    BY <1>1, <1>3, <1>4 DEF IInv, Final

-----------------------------------------------------------------------------
(* The operations.                                                          *)

LEMMA DelStep ==
  ASSUME IInv, NEW fd \in Fds, NEW e \in AllEvents, DelEvent(fd, e)
  PROVE  IInv' /\ Final
  <1>1. /\ todo[fd] = <<>> /\ e \in reg[fd]
        /\ interest' = [interest EXCEPT ![fd] = reg[fd] \ {e}]
        /\ reg' = [reg EXCEPT ![fd] = reg[fd] \ {e}]
        /\ waiter' = [waiter EXCEPT ![fd][e] = NoWaiter]
        /\ fate' = [fate EXCEPT ![waiter[fd][e]] = "deleted"]
        /\ UNCHANGED <<use, todo, got>>
    BY DEF DelEvent, Locks, Watches, Registers
  <1>2. fate' = IF waiter[fd][e] = NoWaiter THEN fate
                ELSE [fate EXCEPT ![waiter[fd][e]] = "deleted"]
    <2>1. CASE waiter[fd][e] = NoWaiter
      <3>1. waiter[fd][e] \notin DOMAIN fate
        BY <2>1 DEF IInv, Types, NoWaiter
      <3>2. fate = [n \in DOMAIN fate |-> fate[n]]
        BY DEF IInv, Types
      <3> QED
        BY <1>1, <2>1, <3>1, <3>2
    <2> QED
      BY <1>1, <2>1
  <1>3. /\ Waiting' /\ Final
        /\ reg' \in [Fds -> SUBSET AllEvents]
        /\ waiter' \in [Fds -> [AllEvents -> Waiters \cup {NoWaiter}]]
        /\ fate' \in Seq({"waiting", "scheduled", "deleted"}) /\ Len(fate') <= MaxAdds
    BY <1>1, <1>2, Decided
  <1>4. Types'
    BY <1>1, <1>3 DEF IInv, Types
  <1>5. Watching'
    <2> SUFFICES ASSUME NEW gd \in Fds, NEW d \in AllEvents
                 PROVE  d \in interest'[gd] <=> d \in reg'[gd] /\ ~Triggers(todo[gd], d)
      BY <1>1 DEF Watching
    <2>1. CASE gd = fd
      <3>1. interest'[gd] = reg'[gd] /\ todo[gd] = <<>>
        BY <1>1, <2>1 DEF IInv, Types
      <3> QED
        BY <3>1, NothingToDo
    <2>2. CASE gd # fd
      <3>1. interest'[gd] = interest[gd] /\ reg'[gd] = reg[gd]
        BY <1>1, <2>2 DEF IInv, Types
      <3> QED
        BY <3>1 DEF IInv, Watching
    <2> QED
      BY <2>1, <2>2
  <1> QED
    BY <1>3, <1>4, <1>5 DEF IInv

LEMMA AddStep ==
  ASSUME IInv, NEW fd \in Fds, NEW e \in AllEvents, AddEvent(fd, e)
  PROVE  IInv' /\ Final
  <1> DEFINE n == Len(fate) + 1
  <1>1. Cardinality(DOMAIN fate) = Len(fate) /\ Len(fate) \in Nat
    <2>1. DOMAIN fate = 1..Len(fate) /\ Len(fate) \in Nat
      BY DEF IInv, Types
    <2>2. Cardinality(1..Len(fate)) = IF 1 > Len(fate) THEN 0 ELSE Len(fate) - 1 + 1
      BY <2>1, FS_Interval
    <2> QED
      BY <2>1, <2>2
  <1>2. /\ todo[fd] = <<>> /\ e \notin reg[fd] /\ n <= MaxAdds
        /\ UNCHANGED <<use, todo, got>>
    BY <1>1 DEF AddEvent, Locks
  <1>5. \/ UNCHANGED ctxVars
        \/ /\ interest' = [interest EXCEPT ![fd] = reg[fd] \cup {e}]
           /\ reg' = [reg EXCEPT ![fd] = reg[fd] \cup {e}]
           /\ \/ UNCHANGED <<waiter, fate>>
              \/ waiter' = [waiter EXCEPT ![fd][e] = n] /\ fate' = Append(fate, "waiting")
    <2>1. CASE fd >= TableSize
      BY <2>1 DEF AddEvent
    <2>2. CASE ~(fd >= TableSize)
      <3>1. CASE Asserts /\ (e \in sched[fd] \/ waiter[fd][e] # NoWaiter)
        BY <2>2, <3>1 DEF AddEvent, Watches, Registers
      <3>2. CASE ~(Asserts /\ (e \in sched[fd] \/ waiter[fd][e] # NoWaiter))
        BY <1>1, <2>2, <3>2 DEF AddEvent, Watches, Registers
      <3> QED
        BY <3>1, <3>2
    <2> QED
      BY <2>1, <2>2
  <1>3. CASE UNCHANGED ctxVars
    <2>1. UNCHANGED <<reg, waiter, interest, fate>>
      BY <1>3 DEF ctxVars
    <2> QED
      BY <1>2, <2>1 DEF IInv, Types, Watching, Waiting, Final
  <1>4. CASE /\ interest' = [interest EXCEPT ![fd] = reg[fd] \cup {e}]
             /\ reg' = [reg EXCEPT ![fd] = reg[fd] \cup {e}]
             /\ \/ UNCHANGED <<waiter, fate>>
                \/ waiter' = [waiter EXCEPT ![fd][e] = n] /\ fate' = Append(fate, "waiting")
    <2>1. /\ interest' \in [Fds -> SUBSET AllEvents] /\ reg' \in [Fds -> SUBSET AllEvents]
          /\ interest'[fd] = reg'[fd] /\ e \in reg'[fd]
          /\ \A gd \in Fds : reg[gd] \subseteq reg'[gd]
          /\ \A gd \in Fds \ {fd} : interest'[gd] = interest[gd] /\ reg'[gd] = reg[gd]
      BY <1>4 DEF IInv, Types
    <2>2. Watching'
      <3> SUFFICES ASSUME NEW gd \in Fds, NEW d \in AllEvents
                   PROVE  d \in interest'[gd] <=> d \in reg'[gd] /\ ~Triggers(todo[gd], d)
        BY <1>2 DEF Watching
      <3>1. CASE gd = fd
        BY <1>2, <2>1, <3>1, NothingToDo
      <3>2. CASE gd # fd
        BY <2>1, <3>2 DEF IInv, Watching
      <3> QED
        BY <3>1, <3>2
    <2>3. CASE UNCHANGED <<waiter, fate>>
      <3>1. Types'
        BY <1>2, <2>1, <2>3 DEF IInv, Types
      <3>2. Waiting'
        BY <2>1, <2>3 DEF IInv, Waiting
      <3> QED
        BY <2>2, <2>3, <3>1, <3>2 DEF IInv, Final
    <2>4. CASE waiter' = [waiter EXCEPT ![fd][e] = n] /\ fate' = Append(fate, "waiting")
      <3>1. waiter[fd][e] = NoWaiter
        BY <1>2 DEF IInv, Waiting
      <3>2. /\ fate' \in Seq({"waiting", "scheduled", "deleted"}) /\ Len(fate') = n
            /\ \A k \in 1..Len(fate) : fate'[k] = fate[k]
            /\ fate'[n] = "waiting"
        BY <2>4 DEF IInv, Types
      <3>3. n \in Waiters /\ n # NoWaiter
        BY <1>1, <1>2 DEF Waiters, NoWaiter
      <3>4. /\ waiter' \in [Fds -> [AllEvents -> Waiters \cup {NoWaiter}]]
            /\ \A gd \in Fds, d \in AllEvents :
                 waiter'[gd][d] = IF gd = fd /\ d = e THEN n ELSE waiter[gd][d]
        BY <2>4, <3>3 DEF IInv, Types
      <3>5. Types'
        BY <1>2, <2>1, <3>2, <3>4 DEF IInv, Types
      <3>6. \A gd \in Fds, d \in AllEvents : waiter[gd][d] # n
        BY <1>1, <3>3 DEF IInv, Waiting
      <3>7. Waiting'
        <4>1. ASSUME NEW gd \in Fds, NEW d \in AllEvents, waiter'[gd][d] # NoWaiter
              PROVE  /\ d \in reg'[gd] /\ waiter'[gd][d] \in 1..Len(fate')
                     /\ fate'[waiter'[gd][d]] = "waiting"
          <5>1. CASE gd = fd /\ d = e
            BY <1>1, <2>1, <3>2, <3>4, <5>1
          <5>2. CASE ~(gd = fd /\ d = e)
            <6>1. waiter'[gd][d] = waiter[gd][d]
              BY <3>4, <5>2
            <6>2. d \in reg[gd] /\ waiter[gd][d] \in 1..Len(fate) /\ fate[waiter[gd][d]] = "waiting"
              BY <4>1, <6>1 DEF IInv, Waiting
            <6> QED
              BY <1>1, <2>1, <3>2, <6>1, <6>2
          <5> QED
            BY <5>1, <5>2
        <4>2. ASSUME NEW gd \in Fds, NEW hd \in Fds, NEW c \in AllEvents, NEW d \in AllEvents,
                     waiter'[gd][c] = waiter'[hd][d], waiter'[gd][c] # NoWaiter
              PROVE  gd = hd /\ c = d
          <5>1. CASE (gd = fd /\ c = e) \/ (hd = fd /\ d = e)
            BY <3>4, <3>6, <4>2, <5>1
          <5>2. CASE ~(gd = fd /\ c = e) /\ ~(hd = fd /\ d = e)
            <6>1. waiter'[gd][c] = waiter[gd][c] /\ waiter'[hd][d] = waiter[hd][d]
              BY <3>4, <5>2
            <6>2. waiter[gd][c] = waiter[hd][d] /\ waiter[gd][c] # NoWaiter
              BY <4>2, <6>1
            <6> QED
              BY <6>2 DEF IInv, Waiting
          <5> QED
            BY <5>1, <5>2
        <4>3. ASSUME NEW k \in 1..Len(fate'), fate'[k] = "waiting"
              PROVE  \E gd \in Fds, d \in AllEvents : waiter'[gd][d] = k
          <5>1. CASE k = n
            BY <3>4, <5>1
          <5>2. CASE k # n
            <6>1. k \in 1..Len(fate) /\ fate[k] = "waiting"
              BY <1>1, <3>2, <4>3, <5>2
            <6>2. PICK gd \in Fds, d \in AllEvents : waiter[gd][d] = k
              BY <6>1 DEF IInv, Waiting
            <6>3. k # NoWaiter
              BY <6>1 DEF NoWaiter
            <6>4. waiter'[gd][d] = k
              BY <3>1, <3>4, <6>2, <6>3
            <6> QED
              BY <6>4
          <5> QED
            BY <5>1, <5>2
        <4> QED
          BY <4>1, <4>2, <4>3 DEF Waiting
      <3>8. Final
        <4>1. DOMAIN fate = 1..Len(fate)
          BY DEF IInv, Types
        <4> QED
          BY <3>2, <4>1 DEF Final
      <3> QED
        BY <2>2, <3>5, <3>7, <3>8 DEF IInv
    <2> QED
      BY <1>4, <2>3, <2>4
  <1> QED
    BY <1>3, <1>4, <1>5

LEMMA CancelSteps ==
  ASSUME IInv, NEW fd \in Fds,
         (\E e \in AllEvents : CancelEvent(fd, e)) \/ CancelAll(fd)
  PROVE  IInv' /\ Final
  <1>1. ASSUME NEW e \in AllEvents, CancelEvent(fd, e) PROVE IInv' /\ Final
    <2>1. <<Count(e), Trigger(e)>> \in Seq(Steps)
          /\ \A d \in AllEvents : Triggers(<<Count(e), Trigger(e)>>, d) <=> d = e
      BY TriggerLast
    <2>2. /\ todo[fd] = <<>> /\ Watches(fd, reg[fd] \ {e})
          /\ todo' = [todo EXCEPT ![fd] = <<Count(e), Trigger(e)>>]
          /\ UNCHANGED <<use, reg, waiter, fate>>
          /\ got' \in [IdleThreads -> [Fds -> SUBSET Bits]]
      BY <1>1 DEF CancelEvent, Locks, IInv, Types
    <2>3. \A d \in AllEvents : d \in reg[fd] => (Triggers(<<Count(e), Trigger(e)>>, d) <=> d \in {e})
      BY <2>1
    <2> QED
      BY <2>1, <2>2, <2>3, Planned
  <1>2. ASSUME CancelAll(fd) PROVE IInv' /\ Final
    <2>1. reg[fd] \in SUBSET AllEvents
      BY DEF IInv, Types
    <2>2. /\ todo[fd] = <<>> /\ Watches(fd, {}) /\ reg[fd] \ reg[fd] = {}
          /\ todo' = [todo EXCEPT ![fd] = TriggerEach(reg[fd])]
          /\ UNCHANGED <<use, reg, waiter, fate>>
          /\ got' \in [IdleThreads -> [Fds -> SUBSET Bits]]
      BY <1>2 DEF CancelAll, Locks, IInv, Types
    <2>3. Watches(fd, reg[fd] \ reg[fd])
      BY <2>2
    <2>4. TriggerEach(reg[fd]) \in Seq(Steps)
          /\ \A d \in AllEvents : Triggers(TriggerEach(reg[fd]), d) <=> d \in reg[fd]
      BY <2>1, EachIsTriggered
    <2> QED
      BY <2>2, <2>3, <2>4, Planned
  <1> QED
    BY <1>1, <1>2

LEMMA IdleSteps ==
  ASSUME IInv, NEW i \in IdleThreads, NEW fd \in Fds, EpollWait(i) \/ HandleEvent(i, fd)
  PROVE  IInv' /\ Final
  <1>1. got' \in [IdleThreads -> [Fds -> SUBSET Bits]]
    <2>1. got \in [IdleThreads -> [Fds -> SUBSET Bits]]
      BY DEF IInv, Types
    <2>2. CASE EpollWait(i)
      <3>1. PICK report \in [Fds -> SUBSET Bits] : got' = [got EXCEPT ![i] = report]
        BY <2>2 DEF EpollWait
      <3> QED
        BY <2>1, <3>1
    <2>3. CASE HandleEvent(i, fd)
      <3>1. got' = [got EXCEPT ![i][fd] = {}] /\ [got[i] EXCEPT ![fd] = {}] \in [Fds -> SUBSET Bits]
        BY <2>1, <2>3 DEF HandleEvent
      <3> QED
        BY <2>1, <3>1
    <2> QED
      BY <2>2, <2>3
  <1>2. CASE UNCHANGED <<use, reg, waiter, interest, fate, todo>>
    <2>1. Types' /\ Watching' /\ Waiting'
      BY <1>1, <1>2 DEF IInv, Types, Watching, Waiting
    <2> QED
      BY <1>2, <2>1 DEF IInv, Final
  <1>3. CASE HandleEvent(i, fd) /\ reg[fd] \cap RealEvents(got[i][fd]) # {}
    <2> DEFINE real == RealEvents(got[i][fd])
    <2>1. real \in SUBSET AllEvents
      BY DEF RealEvents, IInv, Types, Bits
    <2>2. TriggerEach(real) \in Seq(Steps)
          /\ \A e \in AllEvents : Triggers(TriggerEach(real), e) <=> e \in real
      BY <2>1, EachIsTriggered
    <2>3. /\ todo[fd] = <<>> /\ Watches(fd, reg[fd] \ real)
          /\ todo' = [todo EXCEPT ![fd] = TriggerEach(real)]
          /\ UNCHANGED <<use, reg, waiter, fate>>
      BY <1>3 DEF HandleEvent, Locks
    <2> HIDE DEF real
    <2> QED
      BY <1>1, <2>2, <2>3, Planned
  <1> QED
    BY <1>2, <1>3 DEF EpollWait, HandleEvent, ctxVars

-----------------------------------------------------------------------------
LEMMA StepKeeps == IInv /\ [Next]_vars => IInv' /\ [Final]_fate
  <1> SUFFICES ASSUME IInv, [Next]_vars PROVE IInv' /\ [Final]_fate
    OBVIOUS
  <1>1. ASSUME UNCHANGED vars PROVE IInv' /\ UNCHANGED fate
    BY <1>1 DEF vars, ctxVars, IInv, Types, Watching, Waiting
  <1>2. ASSUME NEW fd \in use.fds, NEW e \in use.events,
               AddEvent(fd, e) \/ DelEvent(fd, e) \/ CancelEvent(fd, e)
        PROVE  IInv' /\ Final
    <2>1. fd \in Fds /\ e \in AllEvents
      BY FdEventsAssumption DEF IInv, Types
    <2> QED
      BY <1>2, <2>1, AddStep, DelStep, CancelSteps
  <1>3. ASSUME NEW fd \in Fds, CancelAll(fd) \/ TriggerEvent(fd) \/ CountDown(fd)
        PROVE  IInv' /\ Final
    BY <1>3, CancelSteps, TriggerStep, CountStep
  <1>4. ASSUME NEW i \in use.threads, EpollWait(i) \/ \E fd \in Fds : HandleEvent(i, fd)
        PROVE  IInv' /\ Final
    <2>1. i \in IdleThreads
      BY FdEventsAssumption DEF IInv, Types
    <2>2. EpollWait(i) => \E fd \in Fds : TRUE
      BY DEF EpollWait
    <2> QED
      BY <1>4, <2>1, <2>2, IdleSteps
  <1> QED
    BY <1>1, <1>2, <1>3, <1>4 DEF Next, Over

LEMMA Inductive == Spec => []IInv
  BY InitHolds, StepKeeps, PTL DEF Spec

\* epoll watches exactly what is registered whenever no operation is under way on
\* the fd (iomanager.cc:166-170, 217-223, 262-268, 447-452).
THEOREM AlwaysWatched == Spec => []WatchedIffRegistered
  <1>1. IInv => WatchedIffRegistered
    BY NothingToDo DEF IInv, Types, Watching, WatchedIffRegistered
  <1> QED
    BY <1>1, Inductive, PTL

\* Nobody who waits is forgotten or overwritten (iomanager.cc:181-193, 233-238, 84-98).
THEOREM WaitersAreRegistered == Spec => []WaiterIsRegistered
  <1>1. ASSUME IInv PROVE WaiterIsRegistered
    <2>1. DOMAIN fate = 1..Len(fate) /\ NoWaiter \notin 1..Len(fate)
      BY <1>1 DEF IInv, Types, NoWaiter
    <2> QED
      BY <1>1, <2>1 DEF WaiterIsRegistered, IInv, Waiting
  <1> QED
    BY <1>1, Inductive, PTL

\* A waiter is scheduled or deleted once (iomanager.cc:84-98, 233-238).
THEOREM FatesAreFinal == Spec => FateIsFinal
  BY Inductive, StepKeeps, PTL DEF Spec, FateIsFinal, Final

-----------------------------------------------------------------------------
(* The count.  It is exact, and no assertion fails, when a hangup is never  *)
(* reported and no report can get stale by half: a program has one event on *)
(* its fds, or one idle thread that alone removes what is registered.       *)

IsOneSided(u) == \A e, d \in u.events : e = d
IsAlone(u)    == u.ops = {} /\ \A i, j \in u.threads : i = j
Careful       == ~Hangups /\ \A u \in Uses : IsOneSided(u) \/ IsAlone(u)

\* Nothing is done twice, and what will be triggered is registered; an event that
\* will be counted down is not watched any more.
ToDo ==
  \A fd \in Fds :
    /\ Len(todo[fd]) <= 4 /\ Distinct(todo[fd])
    /\ \A e \in AllEvents :
         /\ Triggers(todo[fd], e) => e \in reg[fd]
         /\ Counts(todo[fd], e) => e \notin interest[fd]

\* What is watched and reported is what the program uses; the one idle thread has
\* only reports of what is still watched.
Reports ==
  /\ \A fd \in Fds : interest[fd] \subseteq use.events
  /\ \A i \in IdleThreads, fd \in Fds :
       /\ got[i][fd] \subseteq use.events
       /\ IsAlone(use) =>
            /\ got[i][fd] \subseteq interest[fd]
            /\ got[i][fd] # {} => i \in use.threads

CInv == ToDo /\ Reports /\ PendingIsExact

LEMMA UseFacts ==
  ASSUME IInv
  PROVE  /\ use.events \subseteq AllEvents /\ use.fds \subseteq Fds /\ use.threads \subseteq IdleThreads
         /\ Careful => IsOneSided(use) \/ IsAlone(use)
  BY FdEventsAssumption DEF IInv, Types, Careful

\* What is counted: what is watched, and what will be counted down.
OwedBy(watched, left) ==
  {p \in Fds \X AllEvents : p[2] \in watched[p[1]] \/ Counts(left[p[1]], p[2])}

LEMMA OwedFinite ==
  ASSUME NEW watched, NEW left
  PROVE  IsFiniteSet(OwedBy(watched, left))
  <1>1. IsFiniteSet(AllEvents)
    <2>1. AllEvents = ({} \cup {"READ"}) \cup {"WRITE"}
      BY DEF AllEvents
    <2>2. IsFiniteSet({} \cup {"READ"})
      BY FS_EmptySet, FS_AddElement
    <2> QED
      BY <2>1, <2>2, FS_AddElement
  <1>2. IsFiniteSet(Fds \X AllEvents)
    BY <1>1, FdEventsAssumption, FS_Product
  <1> QED
    BY <1>2, FS_Subset DEF OwedBy

LEMMA OwedIs ==
  ASSUME IInv, IInv'
  PROVE  Owed = OwedBy(interest, todo) /\ Owed' = OwedBy(interest', todo')
  <1>1. \A p \in Fds \X AllEvents : p[1] \in Fds /\ p[2] \in AllEvents
    OBVIOUS
  <1> QED
    BY <1>1 DEF IInv, Watching, Triggers, Counts, Owed, OwedBy

LEMMA AllWatched ==
  ASSUME IInv, NEW fd \in Fds, todo[fd] = <<>>
  PROVE  interest[fd] = reg[fd] /\ \A e \in AllEvents : ~Counts(todo[fd], e)
  <1>1. interest[fd] \in SUBSET AllEvents /\ reg[fd] \in SUBSET AllEvents
    BY DEF IInv, Types
  <1>2. \A e \in AllEvents : e \in interest[fd] <=> e \in reg[fd]
    BY NothingToDo DEF IInv, Watching
  <1> QED
    BY <1>1, <1>2, NothingToDo

\* One event is counted that was not, or is not counted any more that was.
LEMMA OneMore ==
  ASSUME IInv, IInv', NEW fd \in Fds, NEW e \in AllEvents,
         ~(e \in interest[fd] \/ Counts(todo[fd], e)),
         e \in interest'[fd] \/ Counts(todo'[fd], e),
         \A gd \in Fds, d \in AllEvents : gd # fd \/ d # e =>
           ((d \in interest'[gd] \/ Counts(todo'[gd], d))
              <=> (d \in interest[gd] \/ Counts(todo[gd], d)))
  PROVE  Cardinality(Owed') = Cardinality(Owed) + 1
  <1>1. <<fd, e>> \notin OwedBy(interest, todo)
    BY DEF OwedBy
  <1>2. OwedBy(interest', todo') = OwedBy(interest, todo) \cup {<<fd, e>>}
    <2>1. ASSUME NEW p \in Fds \X AllEvents
          PROVE  p \in OwedBy(interest', todo') <=> p \in OwedBy(interest, todo) \/ p = <<fd, e>>
      <3>1. PICK gd \in Fds, d \in AllEvents : p = <<gd, d>>
        OBVIOUS
      <3> QED
        BY <3>1 DEF OwedBy
    <2> QED
      BY <2>1 DEF OwedBy
  <1> QED
    BY <1>1, <1>2, OwedFinite, OwedIs, FS_AddElement

LEMMA OneLess ==
  ASSUME IInv, IInv', NEW fd \in Fds, NEW e \in AllEvents,
         e \in interest[fd] \/ Counts(todo[fd], e),
         ~(e \in interest'[fd] \/ Counts(todo'[fd], e)),
         \A gd \in Fds, d \in AllEvents : gd # fd \/ d # e =>
           ((d \in interest'[gd] \/ Counts(todo'[gd], d))
              <=> (d \in interest[gd] \/ Counts(todo[gd], d)))
  PROVE  Cardinality(Owed') = Cardinality(Owed) - 1
  <1>1. <<fd, e>> \in OwedBy(interest, todo)
    BY DEF OwedBy
  <1>2. OwedBy(interest', todo') = OwedBy(interest, todo) \ {<<fd, e>>}
    <2>1. ASSUME NEW p \in Fds \X AllEvents
          PROVE  p \in OwedBy(interest', todo') <=> p \in OwedBy(interest, todo) /\ p # <<fd, e>>
      <3>1. PICK gd \in Fds, d \in AllEvents : p = <<gd, d>>
        OBVIOUS
      <3> QED
        BY <3>1 DEF OwedBy
    <2> QED
      BY <2>1 DEF OwedBy
  <1> QED
    BY <1>1, <1>2, OwedFinite, OwedIs, FS_RemoveElement

LEMMA NoneMore ==
  ASSUME IInv, IInv',
         \A gd \in Fds, d \in AllEvents :
           (d \in interest'[gd] \/ Counts(todo'[gd], d))
             <=> (d \in interest[gd] \/ Counts(todo[gd], d))
  PROVE  Owed' = Owed
  <1>1. \A p \in Fds \X AllEvents : p[1] \in Fds /\ p[2] \in AllEvents
    OBVIOUS
  <1>2. OwedBy(interest', todo') = OwedBy(interest, todo)
    BY <1>1 DEF OwedBy
  <1> QED
    BY <1>2, OwedIs

LEMMA CareInit == Init => CInv
  <1> SUFFICES ASSUME Init PROVE CInv
    OBVIOUS
  <1>1. ToDo
    BY NothingToDo DEF Init, ToDo
  <1>2. Reports
    BY DEF Init, Reports
  <1>3. Owed = {}
    <2>1. \A p \in Fds \X AllEvents : p[1] \in Fds /\ p[2] \in AllEvents
      OBVIOUS
    <2> QED
      BY <2>1, NothingToDo DEF Init, Owed
  <1>4. PendingIsExact
    BY <1>3, FS_EmptySet DEF Init, PendingIsExact
  <1> QED
    BY <1>1, <1>2, <1>4 DEF CInv

LEMMA CareAdd ==
  ASSUME IInv, IInv', CInv, NEW fd \in Fds, NEW e \in use.events, AddEvent(fd, e)
  PROVE  CInv'
  <1>1. e \in AllEvents /\ todo[fd] = <<>> /\ e \notin reg[fd] /\ UNCHANGED <<use, todo, got>>
    BY UseFacts DEF AddEvent, Locks
  <1>2. CASE UNCHANGED <<ctxVars, pending>>
    <2>1. UNCHANGED <<reg, interest, pending>>
      BY <1>2 DEF ctxVars
    <2> QED
      BY <1>1, <2>1 DEF CInv, ToDo, Reports, PendingIsExact, Owed
  <1>3. CASE /\ interest' = [interest EXCEPT ![fd] = reg[fd] \cup {e}]
             /\ reg' = [reg EXCEPT ![fd] = reg[fd] \cup {e}]
             /\ pending' = pending + 1
    <2>1. interest[fd] = reg[fd] /\ ~Counts(todo[fd], e)
      BY <1>1, AllWatched
    <2>2. /\ interest'[fd] = interest[fd] \cup {e} /\ reg'[fd] = reg[fd] \cup {e}
          /\ \A gd \in Fds \ {fd} : interest'[gd] = interest[gd] /\ reg'[gd] = reg[gd]
      BY <1>3, <2>1 DEF IInv, Types
    <2>3. ToDo'
      <3>1. ASSUME NEW gd \in Fds, NEW d \in AllEvents
            PROVE  /\ Triggers(todo'[gd], d) => d \in reg'[gd]
                   /\ Counts(todo'[gd], d) => d \notin interest'[gd]
        <4>1. CASE gd = fd
          BY <1>1, <4>1, NothingToDo
        <4>2. CASE gd # fd
          BY <1>1, <2>2, <4>2 DEF CInv, ToDo
        <4> QED
          BY <4>1, <4>2
      <3> QED
        BY <1>1, <3>1 DEF CInv, ToDo
    <2>4. Reports'
      BY <1>1, <2>2 DEF CInv, Reports
    <2>5. Cardinality(Owed') = Cardinality(Owed) + 1
      BY <1>1, <2>1, <2>2, OneMore
    <2>6. PendingIsExact'
      BY <1>3, <2>5 DEF CInv, PendingIsExact
    <2> QED
      BY <2>3, <2>4, <2>6 DEF CInv
  <1>4. CASE fd >= TableSize
    BY <1>2, <1>4 DEF AddEvent
  <1>5. CASE ~(fd >= TableSize)
    BY <1>3, <1>5 DEF AddEvent, Watches, Registers
  <1> QED
    BY <1>4, <1>5

LEMMA CareDel ==
  ASSUME IInv, IInv', CInv, Careful, NEW fd \in Fds, NEW e \in use.events, DelEvent(fd, e)
  PROVE  CInv'
  <1>1. /\ e \in AllEvents /\ todo[fd] = <<>> /\ e \in reg[fd]
        /\ interest' = [interest EXCEPT ![fd] = reg[fd] \ {e}]
        /\ reg' = [reg EXCEPT ![fd] = reg[fd] \ {e}]
        /\ pending' = pending - 1
        /\ UNCHANGED <<use, todo, got>>
        /\ ~IsAlone(use)
    BY UseFacts DEF DelEvent, Locks, Watches, Registers, IsAlone
  <1>2. interest[fd] = reg[fd] /\ ~Counts(todo[fd], e)
    BY <1>1, AllWatched
  <1>3. /\ interest'[fd] = interest[fd] \ {e} /\ reg'[fd] = reg[fd] \ {e}
        /\ \A gd \in Fds \ {fd} : interest'[gd] = interest[gd] /\ reg'[gd] = reg[gd]
    BY <1>1, <1>2 DEF IInv, Types
  <1>4. ToDo'
    <2>1. ASSUME NEW gd \in Fds, NEW d \in AllEvents
          PROVE  /\ Triggers(todo'[gd], d) => d \in reg'[gd]
                 /\ Counts(todo'[gd], d) => d \notin interest'[gd]
      <3>1. CASE gd = fd
        BY <1>1, <3>1, NothingToDo
      <3>2. CASE gd # fd
        BY <1>1, <1>3, <3>2 DEF CInv, ToDo
      <3> QED
        BY <3>1, <3>2
    <2> QED
      BY <1>1, <2>1 DEF CInv, ToDo
  <1>5. Reports'
    BY <1>1, <1>3 DEF CInv, Reports
  <1>6. Cardinality(Owed') = Cardinality(Owed) - 1
    BY <1>1, <1>2, <1>3, OneLess
  <1> QED
    BY <1>1, <1>4, <1>5, <1>6 DEF CInv, PendingIsExact

\* An operation stops watching events of one fd and plans s for exactly those.
LEMMA CarePlanned ==
  ASSUME IInv, IInv', CInv, NEW fd \in Fds, NEW s \in Seq(Steps), NEW events \in SUBSET reg[fd],
         Len(s) <= 4, Distinct(s),
         \A e \in AllEvents : (Triggers(s, e) <=> e \in events) /\ (Counts(s, e) <=> e \in events),
         todo[fd] = <<>>, Watches(fd, reg[fd] \ events), todo' = [todo EXCEPT ![fd] = s],
         UNCHANGED <<use, reg, pending>>
  PROVE  /\ ToDo' /\ PendingIsExact'
         /\ interest[fd] = reg[fd] /\ interest'[fd] = reg[fd] \ events
         /\ \A gd \in Fds \ {fd} : interest'[gd] = interest[gd]
         /\ \A gd \in Fds : interest'[gd] \subseteq use.events
  <1>1. interest[fd] = reg[fd] /\ \A d \in AllEvents : ~Counts(todo[fd], d)
    BY AllWatched
  <1>2. /\ interest'[fd] = reg[fd] \ events /\ todo'[fd] = s
        /\ \A gd \in Fds \ {fd} : interest'[gd] = interest[gd] /\ todo'[gd] = todo[gd]
    BY DEF IInv, Types, Watches
  <1>3. ASSUME NEW gd \in Fds
        PROVE  /\ Len(todo'[gd]) <= 4 /\ Distinct(todo'[gd])
               /\ \A e \in AllEvents :
                    /\ Triggers(todo'[gd], e) => e \in reg[gd]
                    /\ Counts(todo'[gd], e) => e \notin interest'[gd]
    <2>1. CASE gd = fd
      BY <1>2, <2>1
    <2>2. CASE gd # fd
      BY <1>2, <2>2 DEF CInv, ToDo
    <2> QED
      BY <2>1, <2>2
  <1>4. ASSUME NEW gd \in Fds, NEW d \in AllEvents
        PROVE  (d \in interest'[gd] \/ Counts(todo'[gd], d))
                 <=> (d \in interest[gd] \/ Counts(todo[gd], d))
    <2>1. CASE gd = fd
      BY <1>1, <1>2, <2>1
    <2>2. CASE gd # fd
      BY <1>2, <2>2
    <2> QED
      BY <2>1, <2>2
  <1>5. Owed' = Owed
    BY <1>4, NoneMore
  <1>6. PendingIsExact'
    BY <1>5 DEF CInv, PendingIsExact
  <1>7. \A gd \in Fds : interest'[gd] \subseteq use.events
    BY <1>1, <1>2 DEF CInv, Reports
  <1> QED
    BY <1>1, <1>2, <1>3, <1>6, <1>7 DEF ToDo

LEMMA CareCancel ==
  ASSUME IInv, IInv', CInv, Careful, NEW fd \in Fds,
         (\E e \in use.events : CancelEvent(fd, e)) \/ CancelAll(fd)
  PROVE  CInv'
  <1>1. ~IsAlone(use) /\ todo[fd] = <<>> /\ UNCHANGED <<use, reg, pending, got>>
    BY DEF IsAlone, CancelEvent, CancelAll, Locks
  <1>2. ASSUME NEW e \in use.events, CancelEvent(fd, e)
        PROVE  ToDo' /\ PendingIsExact' /\ \A gd \in Fds : interest'[gd] \subseteq use.events
    <2>1. e \in AllEvents /\ e \in reg[fd]
      BY <1>2, UseFacts DEF CancelEvent
    <2> DEFINE s == <<Count(e), Trigger(e)>>
    <2>2. /\ s \in Seq(Steps) /\ Len(s) <= 4 /\ Distinct(s)
          /\ \A d \in AllEvents : (Triggers(s, d) <=> d = e) /\ (Counts(s, d) <=> d = e)
      BY <2>1, TriggerLast
    <2>3. Watches(fd, reg[fd] \ {e}) /\ todo' = [todo EXCEPT ![fd] = s]
      BY <1>2 DEF CancelEvent
    <2> HIDE DEF s
    <2>4. {e} \in SUBSET reg[fd]
          /\ \A d \in AllEvents : (Triggers(s, d) <=> d \in {e}) /\ (Counts(s, d) <=> d \in {e})
      BY <2>1, <2>2
    <2> QED
      BY <1>1, <2>2, <2>3, <2>4, CarePlanned
  <1>3. ASSUME CancelAll(fd)
        PROVE  ToDo' /\ PendingIsExact' /\ \A gd \in Fds : interest'[gd] \subseteq use.events
    <2>1. reg[fd] \in SUBSET AllEvents /\ reg[fd] \in SUBSET reg[fd]
      BY DEF IInv, Types
    <2> DEFINE s == TriggerEach(reg[fd])
    <2>2. /\ s \in Seq(Steps) /\ Len(s) <= 4 /\ Distinct(s)
          /\ \A d \in AllEvents : (Triggers(s, d) <=> d \in reg[fd])
                                    /\ (Counts(s, d) <=> d \in reg[fd])
      BY <2>1, EachIsTriggered
    <2>3. reg[fd] \ reg[fd] = {} /\ Watches(fd, {}) /\ todo' = [todo EXCEPT ![fd] = s]
      BY <1>3 DEF CancelAll
    <2> HIDE DEF s
    <2>4. Watches(fd, reg[fd] \ reg[fd])
      BY <2>3
    <2> QED
      BY <1>1, <2>1, <2>2, <2>3, <2>4, CarePlanned
  <1>4. ToDo' /\ PendingIsExact' /\ \A gd \in Fds : interest'[gd] \subseteq use.events
    BY <1>2, <1>3
  <1>5. Reports'
    BY <1>1, <1>4 DEF CInv, Reports
  <1> QED
    BY <1>4, <1>5 DEF CInv

\* What is handled is what was reported, all of it registered.
LEMMA CareHandle ==
  ASSUME IInv, IInv', CInv, Careful, NEW i \in use.threads, NEW fd \in Fds, HandleEvent(i, fd)
  PROVE  CInv'
  <1> DEFINE real == RealEvents(got[i][fd])
  <1>1. /\ use.events \subseteq AllEvents /\ i \in IdleThreads
        /\ IsOneSided(use) \/ IsAlone(use)
    BY UseFacts
  <1>2. /\ todo[fd] = <<>> /\ got[i][fd] # {}
        /\ got' = [got EXCEPT ![i] = [got[i] EXCEPT ![fd] = {}]]
        /\ UNCHANGED <<use, reg, pending>>
    BY DEF HandleEvent, Locks
  <1>3. real = got[i][fd] /\ real \subseteq use.events
    <2>1. got[i][fd] \subseteq AllEvents
      BY <1>1 DEF CInv, Reports
    <2>2. "HUP" \notin got[i][fd]
      BY <2>1 DEF AllEvents
    <2> QED
      BY <1>1, <2>2 DEF RealEvents, CInv, Reports
  <1>4. got' \in [IdleThreads -> [Fds -> SUBSET Bits]] /\ got'[i][fd] = {}
        /\ \A j \in IdleThreads, gd \in Fds :
             got'[j][gd] = IF j = i /\ gd = fd THEN {} ELSE got[j][gd]
    BY <1>1, <1>2 DEF IInv, Types
  <1> HIDE DEF real
  <1>5. CASE UNCHANGED <<interest, todo>>
    <2>1. ToDo' /\ PendingIsExact'
      BY <1>2, <1>5 DEF CInv, ToDo, PendingIsExact, Owed
    <2>2. Reports'
      BY <1>2, <1>4, <1>5 DEF CInv, Reports
    <2> QED
      BY <2>1, <2>2 DEF CInv
  <1>6. CASE /\ reg[fd] \cap real # {}
             /\ Watches(fd, reg[fd] \ real) /\ todo' = [todo EXCEPT ![fd] = TriggerEach(real)]
    <2>1. real \subseteq reg[fd]
      <3>1. CASE IsOneSided(use)
        BY <1>3, <1>6, <3>1 DEF IsOneSided
      <3>2. CASE IsAlone(use)
        <4>1. real \subseteq interest[fd]
          BY <1>1, <1>3, <3>2 DEF CInv, Reports
        <4> QED
          BY <1>2, <4>1, AllWatched
      <3> QED
        BY <1>1, <3>1, <3>2
    <2> DEFINE s == TriggerEach(real)
    <2>2. /\ s \in Seq(Steps) /\ Len(s) <= 4 /\ Distinct(s)
          /\ \A d \in AllEvents : (Triggers(s, d) <=> d \in real) /\ (Counts(s, d) <=> d \in real)
      BY <1>1, <1>3, EachIsTriggered
    <2>3. Watches(fd, reg[fd] \ real) /\ todo' = [todo EXCEPT ![fd] = s]
      BY <1>6
    <2> HIDE DEF s
    <2>4. /\ ToDo' /\ PendingIsExact'
          /\ interest[fd] = reg[fd] /\ interest'[fd] = reg[fd] \ real
          /\ \A gd \in Fds \ {fd} : interest'[gd] = interest[gd]
          /\ \A gd \in Fds : interest'[gd] \subseteq use.events
      BY <1>2, <2>1, <2>2, <2>3, CarePlanned
    <2>5. ASSUME IsAlone(use), NEW j \in IdleThreads, NEW gd \in Fds
          PROVE  got'[j][gd] \subseteq interest'[gd] /\ (got'[j][gd] # {} => j \in use.threads)
      <3>1. got[j][gd] \subseteq interest[gd] /\ (got[j][gd] # {} => j \in use.threads)
        BY <2>5 DEF CInv, Reports
      <3>2. CASE gd # fd
        BY <1>4, <2>4, <3>1, <3>2
      <3>3. CASE gd = fd
        <4>1. CASE j = i
          BY <1>4, <3>3, <4>1
        <4>2. CASE j # i
          <5>1. j \notin use.threads
            BY <2>5, <4>2 DEF IsAlone
          <5> QED
            BY <1>4, <3>1, <4>2, <5>1
        <4> QED
          BY <4>1, <4>2
      <3> QED
        BY <3>2, <3>3
    <2>6. \A j \in IdleThreads, gd \in Fds : got'[j][gd] \subseteq use.events
      BY <1>4 DEF CInv, Reports
    <2>7. Reports'
      BY <1>2, <2>4, <2>5, <2>6 DEF Reports
    <2> QED
      BY <2>4, <2>7 DEF CInv
  <1> QED
    BY <1>5, <1>6 DEF HandleEvent, real

LEMMA CareEpoll ==
  ASSUME IInv, CInv, Careful, NEW i \in use.threads, EpollWait(i)
  PROVE  CInv'
  <1>1. i \in IdleThreads /\ UNCHANGED <<use, reg, interest, pending, todo>>
    BY UseFacts DEF EpollWait, ctxVars
  <1>2. PICK report \in [Fds -> SUBSET Bits] :
          /\ \A fd \in Fds : report[fd] \subseteq Reportable(fd)
          /\ got' = [got EXCEPT ![i] = report]
    BY DEF EpollWait
  <1>3. \A fd \in Fds : report[fd] \subseteq interest[fd]
    BY <1>2 DEF Careful, Reportable
  <1>4. \A j \in IdleThreads : got'[j] = IF j = i THEN report ELSE got[j]
    BY <1>1, <1>2 DEF IInv, Types
  <1>5. Reports'
    BY <1>1, <1>3, <1>4 DEF CInv, Reports
  <1>6. ToDo' /\ PendingIsExact'
    BY <1>1 DEF CInv, ToDo, PendingIsExact, Owed
  <1> QED
    BY <1>5, <1>6 DEF CInv

LEMMA CareTrigger ==
  ASSUME IInv, IInv', CInv, NEW fd \in Fds, TriggerEvent(fd)
  PROVE  CInv'
  <1> DEFINE e == Head(todo[fd]).event
  <1>1. /\ todo[fd] # <<>> /\ Head(todo[fd]).op = "trigger"
        /\ reg' = [reg EXCEPT ![fd] = reg[fd] \ {e}]
        /\ todo' = [todo EXCEPT ![fd] = Tail(todo[fd])]
        /\ UNCHANGED <<use, interest, pending, got>>
    BY DEF TriggerEvent, NextIs, Registers
  <1>2. /\ Head(todo[fd]) \in Steps /\ Len(Tail(todo[fd])) = Len(todo[fd]) - 1
        /\ Len(todo[fd]) \in Nat
        /\ \A d : Triggers(todo[fd], d) <=> Head(todo[fd]) = Trigger(d) \/ Triggers(Tail(todo[fd]), d)
        /\ \A d : Counts(todo[fd], d) <=> Head(todo[fd]) = Count(d) \/ Counts(Tail(todo[fd]), d)
        /\ Distinct(Tail(todo[fd]))
        /\ \A d : Head(todo[fd]) = Trigger(d) => ~Triggers(Tail(todo[fd]), d)
    BY <1>1, OneDone DEF IInv, Types, CInv, ToDo
  <1>3. e \in AllEvents /\ Head(todo[fd]) = Trigger(e) /\ \A d : Head(todo[fd]) # Count(d)
    <2>1. PICK d \in AllEvents : Head(todo[fd]) = Trigger(d)
      BY <1>1, <1>2, StepFields DEF Steps
    <2> QED
      BY <2>1, StepFields
  <1> HIDE DEF e
  <1>4. /\ todo'[fd] = Tail(todo[fd]) /\ reg'[fd] = reg[fd] \ {e}
        /\ \A gd \in Fds \ {fd} : todo'[gd] = todo[gd] /\ reg'[gd] = reg[gd]
    BY <1>1 DEF IInv, Types
  <1>5. ASSUME NEW gd \in Fds
        PROVE  /\ Len(todo'[gd]) <= 4 /\ Distinct(todo'[gd])
               /\ \A d \in AllEvents :
                    /\ Triggers(todo'[gd], d) => d \in reg'[gd]
                    /\ Counts(todo'[gd], d) => d \notin interest[gd]
    <2>1. /\ Len(todo[gd]) <= 4 /\ Distinct(todo[gd])
          /\ \A d \in AllEvents :
               /\ Triggers(todo[gd], d) => d \in reg[gd]
               /\ Counts(todo[gd], d) => d \notin interest[gd]
      BY DEF CInv, ToDo
    <2>2. CASE gd = fd
      <3>1. Len(todo'[gd]) <= 4 /\ Distinct(todo'[gd])
        <4>1. Len(todo[fd]) <= 4 /\ todo'[gd] = Tail(todo[fd])
          BY <1>4, <2>1, <2>2
        <4>2. Len(Tail(todo[fd])) <= 4
          BY <1>2, <4>1
        <4> QED
          BY <1>2, <4>1, <4>2
      <3>2. ASSUME NEW d \in AllEvents, Triggers(Tail(todo[fd]), d) PROVE d \in reg'[fd]
        BY <1>2, <1>3, <1>4, <2>1, <2>2, <3>2
      <3>3. ASSUME NEW d \in AllEvents, Counts(Tail(todo[fd]), d) PROVE d \notin interest[fd]
        BY <1>2, <2>1, <2>2, <3>3
      <3> QED
        BY <1>4, <2>2, <3>1, <3>2, <3>3
    <2>3. CASE gd # fd
      BY <1>4, <2>1, <2>3
    <2> QED
      BY <2>2, <2>3
  <1>6. ASSUME NEW gd \in Fds, NEW d \in AllEvents PROVE Counts(todo'[gd], d) <=> Counts(todo[gd], d)
    BY <1>2, <1>3, <1>4
  <1>7. Owed' = Owed
    BY <1>1, <1>6, NoneMore
  <1> QED
    BY <1>1, <1>5, <1>7 DEF CInv, ToDo, Reports, PendingIsExact

LEMMA CareCount ==
  ASSUME IInv, IInv', CInv, NEW fd \in Fds, CountDown(fd)
  PROVE  CInv'
  <1>1. /\ todo[fd] # <<>> /\ Head(todo[fd]).op = "count"
        /\ todo' = [todo EXCEPT ![fd] = Tail(todo[fd])]
        /\ pending' = pending - 1
        /\ UNCHANGED <<use, reg, interest, got>>
    BY DEF CountDown, NextIs, ctxVars
  <1>2. /\ Head(todo[fd]) \in Steps /\ Len(Tail(todo[fd])) = Len(todo[fd]) - 1
        /\ Len(todo[fd]) \in Nat
        /\ \A d : Triggers(todo[fd], d) <=> Head(todo[fd]) = Trigger(d) \/ Triggers(Tail(todo[fd]), d)
        /\ \A d : Counts(todo[fd], d) <=> Head(todo[fd]) = Count(d) \/ Counts(Tail(todo[fd]), d)
        /\ Distinct(Tail(todo[fd]))
        /\ \A d : Head(todo[fd]) = Count(d) => ~Counts(Tail(todo[fd]), d)
    BY <1>1, OneDone DEF IInv, Types, CInv, ToDo
  <1>3. PICK e \in AllEvents : Head(todo[fd]) = Count(e)
    BY <1>1, <1>2, StepFields DEF Steps
  <1>4. \A d : Head(todo[fd]) = Count(d) => d = e
    BY <1>3, StepsDiffer
  <1>5. todo'[fd] = Tail(todo[fd]) /\ \A gd \in Fds \ {fd} : todo'[gd] = todo[gd]
    BY <1>1 DEF IInv, Types
  <1>6. ASSUME NEW gd \in Fds
        PROVE  /\ Len(todo'[gd]) <= 4 /\ Distinct(todo'[gd])
               /\ \A d \in AllEvents :
                    /\ Triggers(todo'[gd], d) => d \in reg[gd]
                    /\ Counts(todo'[gd], d) => d \notin interest[gd]
    <2>1. /\ Len(todo[gd]) <= 4 /\ Distinct(todo[gd])
          /\ \A d \in AllEvents :
               /\ Triggers(todo[gd], d) => d \in reg[gd]
               /\ Counts(todo[gd], d) => d \notin interest[gd]
      BY DEF CInv, ToDo
    <2>2. CASE gd = fd
      <3>1. Len(todo'[gd]) <= 4 /\ Distinct(todo'[gd])
        <4>1. Len(todo[fd]) <= 4 /\ todo'[gd] = Tail(todo[fd])
          BY <1>5, <2>1, <2>2
        <4>2. Len(Tail(todo[fd])) <= 4
          BY <1>2, <4>1
        <4> QED
          BY <1>2, <4>1, <4>2
      <3>2. ASSUME NEW d \in AllEvents, Triggers(Tail(todo[fd]), d) PROVE d \in reg'[fd]
        BY <1>2, <1>1, <2>1, <2>2, <3>2
      <3>3. ASSUME NEW d \in AllEvents, Counts(Tail(todo[fd]), d) PROVE d \notin interest[fd]
        BY <1>2, <2>1, <2>2, <3>3
      <3> QED
        BY <1>5, <2>2, <3>1, <3>2, <3>3, <1>1
    <2>3. CASE gd # fd
      BY <1>5, <2>1, <2>3
    <2> QED
      BY <2>2, <2>3
  <1>7. Counts(todo[fd], e) /\ e \notin interest[fd] /\ ~Counts(todo'[fd], e)
    BY <1>2, <1>3, <1>5 DEF CInv, ToDo
  <1>8. ASSUME NEW gd \in Fds, NEW d \in AllEvents, gd # fd \/ d # e
        PROVE  Counts(todo'[gd], d) <=> Counts(todo[gd], d)
    BY <1>2, <1>4, <1>5, <1>8
  <1>9. Cardinality(Owed') = Cardinality(Owed) - 1
    BY <1>1, <1>7, <1>8, OneLess
  <1> QED
    BY <1>1, <1>6, <1>9 DEF CInv, ToDo, Reports, PendingIsExact

LEMMA CareKept ==
  ASSUME Careful
  PROVE  IInv /\ IInv' /\ CInv /\ [Next]_vars => CInv'
  <1> SUFFICES ASSUME IInv, IInv', CInv, [Next]_vars PROVE CInv'
    OBVIOUS
  <1>1. ASSUME UNCHANGED vars PROVE CInv'
    BY <1>1 DEF vars, ctxVars, CInv, ToDo, Reports, PendingIsExact, Owed
  <1>2. ASSUME NEW fd \in use.fds, NEW e \in use.events,
               AddEvent(fd, e) \/ DelEvent(fd, e) \/ CancelEvent(fd, e)
        PROVE  CInv'
    <2>1. fd \in Fds
      BY UseFacts
    <2> QED
      BY <1>2, <2>1, CareAdd, CareDel, CareCancel
  <1>3. ASSUME NEW fd \in Fds, CancelAll(fd) \/ TriggerEvent(fd) \/ CountDown(fd)
        PROVE  CInv'
    BY <1>3, CareCancel, CareTrigger, CareCount
  <1>4. ASSUME NEW i \in use.threads, EpollWait(i) \/ \E fd \in Fds : HandleEvent(i, fd)
        PROVE  CInv'
    BY <1>4, CareEpoll, CareHandle
  <1> QED
    BY <1>1, <1>2, <1>3, <1>4 DEF Next, Over

LEMMA CareInductive ==
  ASSUME Careful
  PROVE  Spec => [](IInv /\ CInv)
  <1>1. Spec => []IInv
    BY Inductive
  <1>2. IInv /\ IInv' /\ CInv /\ [Next]_vars => CInv'
    BY CareKept
  <1> QED
    BY <1>1, <1>2, CareInit, PTL DEF Spec

\* With careful use pending_event_count_ is exact: stopping() cannot see 0 while an
\* event is registered, nor wait for one that is gone (iomanager.cc:179, 233, 278, 318,
\* 323, 464, 469).
THEOREM PendingIsRight ==
  ASSUME Careful
  PROVE  Spec => []PendingIsExact
  <1>1. CInv => PendingIsExact
    BY DEF CInv
  <1> QED
    BY <1>1, CareInductive, PTL

-----------------------------------------------------------------------------
(* Types and faults.                                                        *)

SchedTyped == sched \in [Fds -> SUBSET AllEvents]

LEMMA SchedStep ==
  ASSUME IInv, SchedTyped, [Next]_vars
  PROVE  SchedTyped'
  <1>1. ASSUME UNCHANGED sched PROVE SchedTyped'
    BY <1>1 DEF SchedTyped
  <1>2. ASSUME NEW fd \in use.fds, NEW e \in use.events, AddEvent(fd, e) \/ DelEvent(fd, e)
        PROVE  SchedTyped'
    <2>1. fd \in Fds /\ e \in AllEvents
      BY UseFacts
    <2>2. \/ UNCHANGED sched
          \/ sched' = [sched EXCEPT ![fd] = @ \cup {e}]
          \/ sched' = [sched EXCEPT ![fd] = @ \ {e}]
      BY <1>2 DEF AddEvent, DelEvent, ctxVars
    <2> QED
      BY <2>1, <2>2 DEF SchedTyped
  <1>3. ASSUME NEW fd \in Fds, NEW e,
               CancelEvent(fd, e) \/ CancelAll(fd) \/ TriggerEvent(fd) \/ CountDown(fd)
        PROVE  UNCHANGED sched
    BY <1>3 DEF CancelEvent, CancelAll, TriggerEvent, CountDown, ctxVars
  <1>4. ASSUME NEW i, EpollWait(i) \/ \E fd \in Fds : HandleEvent(i, fd)
        PROVE  UNCHANGED sched
    BY <1>4 DEF EpollWait, HandleEvent, ctxVars
  <1>5. ASSUME NEW fd \in use.fds, NEW e, CancelEvent(fd, e) PROVE UNCHANGED sched
    BY <1>5 DEF CancelEvent
  <1>6. UNCHANGED vars \/ Over => UNCHANGED sched
    BY DEF Over, vars, ctxVars
  <1> QED
    BY <1>1, <1>2, <1>3, <1>4, <1>5, <1>6 DEF Next

\* pending_event_count_ never goes below zero, where it would wrap, and every other
\* variable keeps its type (iomanager.h:22-46, 96-104).
THEOREM TypeCorrect ==
  ASSUME Careful
  PROVE  Spec => []TypeOK
  <1>1. Init => SchedTyped
    BY DEF Init, SchedTyped
  <1>2. IInv /\ SchedTyped /\ [Next]_vars => SchedTyped'
    BY SchedStep
  <1>3. IInv /\ CInv /\ SchedTyped => TypeOK
    <2> SUFFICES ASSUME IInv, CInv, SchedTyped PROVE TypeOK
      OBVIOUS
    <2>1. IsFiniteSet(Owed)
      <3>1. Owed = OwedBy(interest, todo)
        <4>1. \A p \in Fds \X AllEvents : p[1] \in Fds /\ p[2] \in AllEvents
          OBVIOUS
        <4> QED
          BY <4>1 DEF IInv, Watching, Triggers, Counts, Owed, OwedBy
      <3> QED
        BY <3>1, OwedFinite
    <2>2. pending \in Nat
      BY <2>1, FS_CardinalityType DEF CInv, PendingIsExact
    <2> QED
      BY <2>2 DEF TypeOK, IInv, Types, CInv, ToDo, SchedTyped
  <1> QED
    BY <1>1, <1>2, <1>3, Inductive, CareInductive, PTL DEF Spec

\* Fds have their places in fd_contexts_, and nothing asserts that a context is empty.
Tabled == ~Asserts /\ \A u \in Uses : \A fd \in u.fds : fd < TableSize

FInv == fault = "none" /\ \A fd \in Fds : reg[fd] \subseteq sched[fd]

LEMMA FaultStep ==
  ASSUME Careful, Tabled, IInv, CInv, SchedTyped, FInv, [Next]_vars
  PROVE  FInv'
  <1>1. ASSUME UNCHANGED <<reg, sched, fault>> PROVE FInv'
    BY <1>1 DEF FInv
  <1>2. ASSUME NEW fd \in use.fds, NEW e \in use.events, AddEvent(fd, e)
        PROVE  FInv'
    <2>1. fd \in Fds /\ e \in AllEvents /\ use \in Uses
      BY UseFacts DEF IInv, Types
    <2>2. ~(fd >= TableSize)
      BY <2>1, FdEventsAssumption DEF Tabled
    <2>3. /\ reg' = [reg EXCEPT ![fd] = reg[fd] \cup {e}]
          /\ sched' = [sched EXCEPT ![fd] = @ \cup {e}]
          /\ UNCHANGED fault
      BY <1>2, <2>2 DEF AddEvent, Registers, Tabled
    <2> QED
      BY <2>1, <2>3 DEF FInv, SchedTyped, IInv, Types
  <1>3. ASSUME NEW fd \in use.fds, NEW e \in use.events, DelEvent(fd, e)
        PROVE  FInv'
    <2>1. fd \in Fds
      BY UseFacts
    <2>2. /\ reg' = [reg EXCEPT ![fd] = reg[fd] \ {e}]
          /\ sched' = [sched EXCEPT ![fd] = @ \ {e}]
          /\ UNCHANGED fault
      BY <1>3 DEF DelEvent, Registers
    <2> QED
      BY <2>1, <2>2 DEF FInv, SchedTyped, IInv, Types
  <1>4. ASSUME NEW fd \in Fds, TriggerEvent(fd)
        PROVE  FInv'
    <2> DEFINE e == Head(todo[fd]).event
    <2>1. todo[fd] # <<>> /\ Head(todo[fd]).op = "trigger" /\ Head(todo[fd]) \in Steps
          /\ \A d : Head(todo[fd]) = Trigger(d) => Triggers(todo[fd], d)
      BY <1>4, OneDone DEF TriggerEvent, NextIs, IInv, Types
    <2>2. e \in AllEvents /\ Head(todo[fd]) = Trigger(e)
      <3>1. PICK d \in AllEvents : Head(todo[fd]) = Trigger(d)
        BY <2>1, StepFields DEF Steps
      <3> QED
        BY <3>1, StepFields
    <2>3. e \in reg[fd] /\ e \in sched[fd]
      BY <2>1, <2>2 DEF CInv, ToDo, FInv
    <2>4. /\ fault' = CASE Asserts /\ e \notin reg[fd] -> "triggerEvent: not registered"
                        [] ~(Asserts /\ e \notin reg[fd]) /\ e \notin sched[fd] -> "null scheduler"
                        [] OTHER -> "none"
          /\ reg' = [reg EXCEPT ![fd] = reg[fd] \ {e}] /\ UNCHANGED sched
      BY <1>4 DEF TriggerEvent, Registers
    <2> HIDE DEF e
    <2>5. fault' = "none"
      BY <2>3, <2>4
    <2> QED
      BY <2>4, <2>5 DEF FInv, IInv, Types
  <1>5. ASSUME NEW fd, NEW e, CancelEvent(fd, e) \/ CancelAll(fd) \/ CountDown(fd)
        PROVE  UNCHANGED <<reg, sched, fault>>
    BY <1>5 DEF CancelEvent, CancelAll, CountDown, ctxVars
  <1>6. ASSUME NEW i, EpollWait(i) \/ \E fd \in Fds : HandleEvent(i, fd)
        PROVE  UNCHANGED <<reg, sched, fault>>
    BY <1>6 DEF EpollWait, HandleEvent, ctxVars
  <1>7. UNCHANGED vars \/ Over => UNCHANGED <<reg, sched, fault>>
    BY DEF Over, vars, ctxVars
  <1> QED
    BY <1>1, <1>2, <1>3, <1>4, <1>5, <1>6, <1>7 DEF Next

\* With careful use no trigger meets an event that is gone or a context without a
\* scheduler, whatever the idle threads and the operations interleave
\* (iomanager.cc:87, 92-95, 155).
THEOREM CarefulUseIsSafe ==
  ASSUME Careful, Tabled
  PROVE  Spec => []NoFault
  <1>1. Init => SchedTyped /\ FInv
    BY DEF Init, SchedTyped, FInv
  <1>2. IInv /\ SchedTyped /\ [Next]_vars => SchedTyped'
    BY SchedStep
  <1>3. IInv /\ CInv /\ SchedTyped /\ FInv /\ [Next]_vars => FInv'
    BY FaultStep
  <1>4. FInv => NoFault
    BY DEF FInv, NoFault
  <1> QED
    BY <1>1, <1>2, <1>3, <1>4, Inductive, CareInductive, PTL DEF Spec

=============================================================================
