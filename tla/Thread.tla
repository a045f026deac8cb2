------------------------------- MODULE Thread -------------------------------
(***************************************************************************)
(* Thread of base/thread.cc: a constructor that waits on a semaphore until *)
(* the new thread has taken what it needs from the object, after which the *)
(* owner may join or destroy it while the thread goes on; and the callback *)
(* of that thread, which can still reach the object by g_cur_thread.       *)
(***************************************************************************)
EXTENDS Naturals

VARIABLES
  owner,     \* where the thread that makes the object is
  runner,    \* how far Thread::run() has come
  object,    \* cb_ is "given" or "taken"; "freed" is the whole object
  sem,       \* sem_
  published, \* the name that GetName() and the kernel know, and whether id_ is set
  faults     \* history: who has used the object after it was freed

threadVars == <<owner, runner, object, sem, published, faults>>

Unpublished == [name |-> "none", id |-> FALSE]

ThreadInit ==
  /\ owner = "constructing" /\ runner = "none" /\ object = "none"
  /\ sem = 0 /\ published = Unpublished /\ faults = {}

-----------------------------------------------------------------------------
(* The owner.                                                               *)

\* pthread_create() fails: the constructor throws and there is no object.
Create ==
  /\ owner = "constructing"
  /\ \/ owner' = "waiting" /\ runner' = "begin" /\ object' = "given"
     \/ owner' = "threw" /\ UNCHANGED <<runner, object>>
  /\ UNCHANGED <<sem, published, faults>>

\* Semaphore::wait().
Wait ==
  /\ owner = "waiting" /\ sem > 0
  /\ sem' = sem - 1 /\ owner' = "owns"
  /\ UNCHANGED <<runner, object, published, faults>>

\* join() sets thread_ to 0, after which a second one returns at once.
Join ==
  /\ owner = "owns" /\ runner = "returned"
  /\ owner' = "joined"
  /\ UNCHANGED <<runner, object, sem, published, faults>>

\* The destructor detaches a thread that nobody joined.
Destroy ==
  /\ \/ owner = "owns" /\ owner' = "detached"
     \/ owner = "joined" /\ owner' = "destroyed"
  /\ object' = "freed"
  /\ UNCHANGED <<runner, sem, published, faults>>

-----------------------------------------------------------------------------
(* The new thread: run().                                                   *)

Touches(who) == faults' = IF object = "freed" THEN faults \cup {who} ELSE faults

SetThis ==
  /\ runner = "begin"
  /\ published' = [published EXCEPT !.name = "given"]
  /\ runner' = "named" /\ Touches("run")
  /\ UNCHANGED <<owner, object, sem>>

SetId ==
  /\ runner = "named"
  /\ published' = [published EXCEPT !.id = TRUE]
  /\ runner' = "known" /\ Touches("run")
  /\ UNCHANGED <<owner, object, sem>>

\* Mutant: the semaphore is given before the callback is taken.
NotifyFirst ==
  /\ runner = "known"
  /\ sem' = sem + 1
  /\ runner' = "notified" /\ Touches("run")
  /\ UNCHANGED <<owner, object, published>>
\* cb.swap(cb_).
TakeCallback ==
  /\ runner = "known"
  /\ object' = "taken"
  /\ runner' = "ready" /\ Touches("run")
  /\ UNCHANGED <<owner, sem, published>>

Notify ==
  /\ runner = "ready"
  /\ sem' = sem + 1
  /\ runner' = "notified" /\ Touches("run")
  /\ UNCHANGED <<owner, object, published>>

-----------------------------------------------------------------------------
(* The callback.  g_cur_thread stays as run() has set it.                   *)

\* As Scheduler's constructor does for use_cur_thread.  Nothing reads name_ again.
SetName ==
  /\ runner = "notified"
  /\ published' = [published EXCEPT !.name = "set"]
  /\ Touches("callback")
  /\ UNCHANGED <<owner, runner, object, sem>>

\* GetThis()->getId().
UseThis ==
  /\ runner = "notified"
  /\ Touches("callback")
  /\ UNCHANGED <<owner, runner, object, sem, published>>

\* The callback has done and returns, and then run(), without use of the object.
Call ==
  /\ runner = "notified"
  /\ runner' = "returned"
  /\ UNCHANGED <<owner, object, sem, published, faults>>

ThreadNext ==
  \/ Create \/ Wait \/ Join \/ Destroy
  \/ SetThis \/ SetId \/ TakeCallback \/ Notify
  \/ SetName \/ UseThis \/ Call

ThreadSpec == ThreadInit /\ [][ThreadNext]_threadVars

-----------------------------------------------------------------------------
(* Properties.                                                              *)

\* The constructor returns to an object whose thread has its name, its id and its
\* callback.  run() itself never uses it after it was freed; only the callback may,
\* through g_cur_thread, and only if the owner destroyed the object without having
\* joined the thread (thread.cc:19-40, 57-98).
ObjectIsHandedOver ==
  /\ owner \in {"owns", "joined"} =>
       object = "taken" /\ published.name # "none" /\ published.id
  /\ "run" \notin faults
  /\ faults # {} => owner = "detached"

=============================================================================
