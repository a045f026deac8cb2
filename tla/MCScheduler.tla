----------------------------- MODULE MCScheduler -----------------------------
(***************************************************************************)
(* Instances of Scheduler for TLC.  Workers and tasks are model values;    *)
(* tasks of one kind are interchangeable in the runs that use MCSymmetry.  *)
(***************************************************************************)
EXTENDS Scheduler

MCSymmetry == Permutations(Callbacks) \cup Permutations(Tasks \ Callbacks)

\* How often each task gives up its thread: once, or, as finishing while an entry
\* is queued takes, a fiber twice.
MCOneYield  == [t \in Tasks |-> 1]
MCTwoYields == [t \in Tasks |-> IF t \in Callbacks THEN 1 ELSE 2]

=============================================================================
