---------------------------- MODULE MCFdEvents -------------------------------
(***************************************************************************)
(* Instances of FdEvents for TLC: the ways to use it.                      *)
(***************************************************************************)
EXTENDS FdEvents, TLC

CONSTANTS i1, i2

MCFds == {5, 31}

\* One side of two fds, with every operation and two idle threads, whose reports
\* get stale; or both sides of one fd, as do_io uses a socket, reported to one
\* idle thread and never cancelled.
OneSide == [fds |-> {5, 31}, events |-> {"READ"}, threads |-> {i1, i2},
            ops |-> {"delEvent", "cancelEvent", "cancelAll"}]
BothSides == [fds |-> {5}, events |-> {"READ", "WRITE"}, threads |-> {i1}, ops |-> {}]
\* One waiter after the other on one fd, as one fiber that reads in a loop.
Reader == [fds |-> {5}, events |-> {"READ"}, threads |-> {i1}, ops |-> {}]

MCUses == {OneSide, BothSides}
MCReader == {Reader}

=============================================================================
