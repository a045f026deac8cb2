------------------------------ MODULE TaskPool ------------------------------
(***************************************************************************)
(* What schedule(), start() and stop() of src/hiper/base/scheduler.h       *)
(* promise about the tasks given to a scheduler, with no threads, no queue *)
(* and no fibers: a task runs in one place at a time, is neither lost nor  *)
(* repeated, never runs again once it has finished, and nothing runs once  *)
(* stop() has returned.                                                    *)
(***************************************************************************)
CONSTANT Tasks

VARIABLES
  where,        \* what is to become of each task
  stopped       \* stop() has returned

vars == <<where, stopped>>

Places == {"new", "ready", "running", "parked", "done"}

Init ==
  /\ where = [t \in Tasks |-> "new"]
  /\ stopped = FALSE

Move(t, from, to) ==
  /\ where[t] = from
  /\ where' = [where EXCEPT ![t] = to]
  /\ UNCHANGED stopped

Submit(t) == ~stopped /\ Move(t, "new", "ready")
Run(t)    == ~stopped /\ Move(t, "ready", "running")
Yield(t)  == Move(t, "running", "ready")
Park(t)   == Move(t, "running", "parked")
Finish(t) == Move(t, "running", "done")
\* A wakeup may come at any time, also when no thread is left to run the tasks:
\* stop() does not wait for suspended ones.  schedule() of a range queues its
\* tasks together.
Wake(S) ==
  /\ \A t \in S : where[t] = "parked"
  /\ where' = [t \in Tasks |-> IF t \in S THEN "ready" ELSE where[t]]
  /\ UNCHANGED stopped

Stop ==
  /\ ~stopped
  /\ \A t \in Tasks : where[t] # "running"
  /\ stopped' = TRUE
  /\ UNCHANGED where

Next ==
  \/ \E t \in Tasks : Submit(t) \/ Run(t) \/ Yield(t) \/ Park(t) \/ Finish(t)
  \/ \E S \in SUBSET Tasks : Wake(S)
  \/ Stop

Spec == Init /\ [][Next]_vars

=============================================================================
